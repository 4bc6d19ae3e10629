SPECIFICATION PidFileFairSpec
CONSTANTS
  Pid = {p1, p2}
  Exe = {nginx}
  Agent = {}
  Watch <- MCWatch
  Node = {n1, n2}
  Null = Null
  NoPid = NoPid
  RcvBuf = 1
  SocketOK = {TRUE}
  Unlistable = TRUE
  GetByPid = FALSE
INVARIANT PidFileTypeOK
PROPERTY PidFileIsFollowed
