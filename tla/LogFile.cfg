SPECIFICATION Spec
CONSTANTS
  Sizes = {0, 1, 3, 5}
  RollSize = 4
  FlushInterval = 1
  CheckEveryN = 3
  Period = 4
  MayFail = TRUE
  MaxClock = 10
  MaxBytes = 6
INVARIANTS
  TypeOK
  SizeBound
  DayBound
  FlushBound
