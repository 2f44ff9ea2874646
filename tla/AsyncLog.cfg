SPECIFICATION Spec
CONSTANTS
  Threads = {a, b}
  Entries = {e1, e2, e3, e4}
  FatalOnes = {e4}
  Capacity = 1
  MaxBuffers = 2
  MayStop = TRUE
INVARIANTS
  TypeOK
  InOrder
  RecycleSafe
  BufferCount
PROPERTIES
  EntryIsWritten
CHECK_DEADLOCK FALSE
