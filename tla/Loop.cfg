CONSTANTS
  Peers = {c1, c2, c3}
  Fds = {f1, f2, f3}
  NoFd = NoFd
  MaxClients = 2
  MaxUnread = 1
SPECIFICATION FairLoopSpec
CHECK_DEADLOCK FALSE
INVARIANTS
  LoopTypeOK
  SlotsMatchSockets
  ReadsWhatIsReady
PROPERTIES
  Served
  Admitted
