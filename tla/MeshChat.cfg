CONSTANTS
  Clients = {c1, c2}
  Nothing = Nothing
  Fds = {f1, f2}
  NoFd = NoFd
  Users = {alice, bob}
  Passwords = {p1}
  Groups = {g1, g2}
  Unparsed = Unparsed
  PoolSize = 2
  MaxClients = 2
  MaxGroups = 2
  MaxMembers = 2
  AllocMayFail = FALSE
SPECIFICATION MeshSpec
SYMMETRY MeshSymmetric
CHECK_DEADLOCK FALSE
INVARIANTS
  MeshTypeOK
  SessionsMatch
  LoginsMatch
  Lockstep
  NoBrokenPipe
  NoCrossTalk
  NoStaleSession
PROPERTIES
  ServerSteps
