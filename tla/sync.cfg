SPECIFICATION SyncSpec
CONSTANTS
  Pid = {p1, p2}
  Exe = {nginx}
  Agent = {a1}
  Watch <- MCWatch
  Node = {n1, n2, n3}
  Null = Null
  RcvBuf = 2
  SocketOK = {TRUE}
  Unlistable = TRUE
  GetByPid = FALSE
SYMMETRY Symmetry
INVARIANTS SyncTypeOK NothingForgotten NothingLeftOver NoDanglingAgent StaleOnlyWhenCrossed
PROPERTY AttachOnlyMatching
