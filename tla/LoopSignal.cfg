CONSTANTS
  Peers = {c1, c2, c3}
  Fds = {f1, f2, f3}
  NoFd = NoFd
  MaxClients = 2
  MaxUnread = 2
SPECIFICATION FairLoopSpec
CHECK_DEADLOCK FALSE
PROPERTIES
  StopsOnSignal
