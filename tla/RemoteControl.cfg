SPECIFICATION Spec
CONSTANTS
  key = key
  key2 = key2
  letter = letter
  command = command
  releaseAll = releaseAll
  Key = {key}
  Letter = {letter}
  Modifier = {key}
  CommandKey = command
  Event <- MCEvent
  ReleaseAll = releaseAll
  Size <- MCSize
  MaxQueuedBytes = 2
  WindowBytes = 3
  MaxPayload = 3
  MaxSequence = 2
  MaxPort = 2
  MaxInjector = 1
INVARIANTS
  OnlyHeldKeysAreDown
  ReleasedWhenFree
  ReleaseGoesFirst
CHECK_DEADLOCK FALSE
