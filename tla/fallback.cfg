SPECIFICATION FairSpec
CONSTANTS
  Pid = {p1}
  nginx = nginx
  cron = cron
  Exe <- MCExe
  Agent = {a1}
  Watch <- MCWatch
  Node = {n1, n2}
  Null = Null
  RcvBuf = 0
  SocketOK = {FALSE}
  Unlistable = TRUE
  GetByPid = TRUE
PROPERTIES NewcomerIsFound NewPidIsOffered
