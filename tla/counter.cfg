SPECIFICATION CounterFairSpec
CONSTANTS
  Pid = {p1, p2}
  Exe = {nginx}
  Agent = {}
  Watch <- MCWatch
  Node = {n1, n2}
  Null = Null
  RcvBuf = 0
  SocketOK = {FALSE}
  Unlistable = TRUE
  GetByPid = TRUE
INVARIANTS CounterTypeOK OneEntryPerPid
PROPERTIES ReloadIsExact ListFollowsProc ZombieIsCounted CountReturnsToZero
