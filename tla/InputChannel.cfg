SPECIFICATION FairSpec
CONSTANTS
  key = key
  piece = piece
  releaseAll = releaseAll
  Event <- MCEvent
  ReleaseAll = releaseAll
  Size <- MCSize
  MaxQueuedBytes = 4
  WindowBytes = 3
  MaxPayload = 2
  Pushes <- MCPushes
  MaxSequence = 3
INVARIANTS
  AppliedOnceInOrder
  NothingSkipped
  ForgottenOnlyWhenSettled
  ReleaseAfterGap
  AccountsExact
PROPERTIES
  Reliable
  EverythingSettles
