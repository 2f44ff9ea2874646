SPECIFICATION Spec
CONSTANTS
  Delays = {0, 1, 2}
  MaxTimers = 4
  MaxClock = 7
INVARIANTS
  TypeOK
  EachRunsOnce
  RunInOrder
PROPERTIES
  NeverASecondEarly
  CoveredRuns
CHECK_DEADLOCK FALSE
