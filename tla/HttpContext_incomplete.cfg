SPECIFICATION Spec
CONSTANTS
  InitialSize = 6
  ChunkSize = 4
  Junk = Junk
  MaxFirst = 1
  MaxLater = 1
  MaxRounds = 1
  MayBlock = FALSE
INVARIANTS
  NoEarlyAnswer
CHECK_DEADLOCK FALSE
