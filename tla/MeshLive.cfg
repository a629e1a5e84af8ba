CONSTANTS
  Clients = {c1, c2}
  Nothing = Nothing
  Fds = {f1, f2}
  NoFd = NoFd
  Users = {alice}
  Passwords = {p1}
  Groups = {g1}
  Unparsed = Unparsed
  PoolSize = 1
  MaxClients = 1
  MaxGroups = 2
  MaxMembers = 2
  AllocMayFail = FALSE
SPECIFICATION FairMeshSpec
CHECK_DEADLOCK FALSE
PROPERTIES
  RequestsEnd
  DeadAreForgotten
