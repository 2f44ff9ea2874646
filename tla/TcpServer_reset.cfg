SPECIFICATION Spec
CONSTANTS
  Conns = {c1}
  NoConn = NoConn
  NLoops = 1
  NFds = 1
  MaxFd = 1
  MaxSends = 1
  Faults = {"rst"}
INVARIANTS
  NoFatal
CHECK_DEADLOCK FALSE
