SPECIFICATION MacFairSpec
CONSTANT InFlight = 4
INVARIANTS
  DropIsRepaired
PROPERTY StopEnds
CHECK_DEADLOCK FALSE
