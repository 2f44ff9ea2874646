SPECIFICATION Spec
CONSTANTS
  Conns = {c1, c2, c3}
  NoConn = NoConn
  NLoops = 2
  NFds = 3
  MaxFd = 2
  MaxSends = 1
  Faults = {"fin"}
INVARIANTS
  TypeOK
  NoFatal
  NoDangling
  ChannelsConsistent
PROPERTIES
  TimeoutAfterData
SYMMETRY Symmetry
CHECK_DEADLOCK FALSE
