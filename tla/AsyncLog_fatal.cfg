SPECIFICATION Spec
CONSTANTS
  Threads = {a, b}
  Entries = {e1, e2}
  FatalOnes = {e2}
  Capacity = 2
  MaxBuffers = 2
  MayStop = FALSE
PROPERTIES
  FatalIsLogged
CHECK_DEADLOCK FALSE
