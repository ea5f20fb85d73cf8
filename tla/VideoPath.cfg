SPECIFICATION Spec
CONSTANTS
  None = None
  Payload <- MCPayload
  ChunkSize = 2
  PendingLimit = 1
  CompletedMemory = 3
  ReorderWindow = 2
  QueueCapacity = 2
  MaxFlight = 3
  MaxSilence = 1
INVARIANTS
  WholeFrames
  HeldAreAhead
PROPERTY PoppedChain
CHECK_DEADLOCK FALSE
