SPECIFICATION Spec
CONSTANTS
  port1 = port1
  port2 = port2
  port3 = port3
  laptop = laptop
  phone = phone
  None = None
  Endpoint <- MCEndpoint
  Device <- MCDevice
  Ip <- OwnAddresses
  AudioOnly <- MCAudioOnly
  HostVideo = TRUE
  JumboRequested = TRUE
  RemoteControl = TRUE
  MaxEvents = 1
  MaxCommands = 1
INVARIANTS
  VideoFollowsActive
  SlotIsTimed
  ConfigInForce
  ConnectedIsApproved
  InputIsReleased
PROPERTY
  SlotIsLeased
CHECK_DEADLOCK FALSE
