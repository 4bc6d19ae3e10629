SPECIFICATION PidFileFairSpec
CONSTANTS
  Pid = {p1}
  Exe = {nginx}
  Agent = {}
  Watch <- MCWatch
  Node = {n1, n2}
  Null = Null
  NoPid = NoPid
  RcvBuf = 1
  SocketOK = {TRUE}
  Unlistable = TRUE
  GetByPid = TRUE
PROPERTY DeathIsShownByPidFile
