SPECIFICATION FairSpec
CONSTANTS
  key = key
  key2 = key2
  letter = letter
  command = command
  releaseAll = releaseAll
  Key = {key, key2}
  Letter = {}
  Modifier = {key}
  CommandKey = command
  Event <- MCEvent
  ReleaseAll = releaseAll
  Size <- MCSize
  MaxQueuedBytes = 2
  WindowBytes = 3
  MaxPayload = 3
  MaxSequence = 2
  MaxPort = 1
  MaxInjector = 1
PROPERTY
  GoneViewerLetsGo
CHECK_DEADLOCK FALSE
