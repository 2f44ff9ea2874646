SPECIFICATION Spec
CONSTANTS
  InitialSize = 6
  ChunkSize = 4
  Junk = Junk
  MaxFirst = 3
  MaxLater = 1
  MaxRounds = 3
  MayBlock = TRUE
INVARIANTS
  TypeOK
  ResponseMatches
  AnswersInOrder
  KeptOnRequest
PROPERTIES
  RoundEnds
CHECK_DEADLOCK FALSE
