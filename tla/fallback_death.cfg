SPECIFICATION FairSpec
CONSTANTS
  Pid = {p1}
  nginx = nginx
  cron = cron
  Exe <- MCExe
  Agent = {a1}
  Watch <- MCWatch
  Node = {n1, n2}
  Null = Null
  RcvBuf = 1
  SocketOK = {FALSE}
  Unlistable = FALSE
  GetByPid = TRUE
PROPERTY DeathIsShown
