SPECIFICATION Spec
CONSTANTS
  viewer = viewer
  None = None
  Peer = {viewer}
  EncodedCapacity = 1
  MaxEpoch = 2
  MaxFrame = 4
INVARIANTS
  InOrder
  DiscardIsRepaired
PROPERTIES
  Decodable
CHECK_DEADLOCK FALSE
