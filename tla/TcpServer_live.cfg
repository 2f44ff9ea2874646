SPECIFICATION Spec
CONSTANTS
  Conns = {c1, c2}
  NoConn = NoConn
  NLoops = 1
  NFds = 2
  MaxFd = 2
  MaxSends = 1
  Faults = {"again"}
PROPERTIES
  KeepAliveEnds
  BacklogIsServed
CHECK_DEADLOCK FALSE
