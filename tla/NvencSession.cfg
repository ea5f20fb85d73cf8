SPECIFICATION FairSpec
CONSTANTS
  slot1 = slot1
  slot2 = slot2
  Slot = {slot1, slot2}
  MaxPreprocess = 2
  EncodedCapacity = 1
  MaxStall = 1
  MaxLoss = 0
  MaxGeneration = 2
INVARIANTS
  ResourcesExact
  WorkerStopIsExplained
  CleanTeardown
  GivesUpFruitless
CHECK_DEADLOCK FALSE
PROPERTIES
  TeardownEnds
  StopEnds
