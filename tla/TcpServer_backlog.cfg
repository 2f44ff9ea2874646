SPECIFICATION Spec
CONSTANTS
  Conns = {c1, c2}
  NoConn = NoConn
  NLoops = 1
  NFds = 1
  MaxFd = 1
  MaxSends = 1
  Faults = {}
PROPERTIES
  BacklogIsServed
CHECK_DEADLOCK FALSE
