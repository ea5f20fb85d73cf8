SPECIFICATION CopySpec
CONSTANTS
  releaseAll = releaseAll
  Event <- MCEvent
  ReleaseAll = releaseAll
  Size <- MCSize
  MaxQueuedBytes = 4
  WindowBytes = 4
  MaxPayload = 1
  MaxText = 2
  MaxStream = 2
  MaxPort = 2
INVARIANTS
  TextsAreWhole
  CopyArrivesInStream
CHECK_DEADLOCK FALSE
