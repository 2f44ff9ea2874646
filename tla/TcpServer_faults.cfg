SPECIFICATION Spec
CONSTANTS
  Conns = {c1}
  NoConn = NoConn
  NLoops = 1
  NFds = 1
  MaxFd = 1
  MaxSends = 3
  Faults = {"fin", "rst", "full", "abort", "garbage", "nomem"}
INVARIANTS
  OnlyPeersKill
  RemovedOnce
  OneTimerEach
  DataIsWatched
  HangsOnlyOnResidue
PROPERTIES
  ClosedIsFreed
CHECK_DEADLOCK FALSE
