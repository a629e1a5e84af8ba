CONSTANTS
  Fds = {f1, f2, f3}
  NoFd = NoFd
  Users = {alice, bob}
  Passwords = {p1, p2}
  Groups = {g1, g2}
  Unparsed = Unparsed
  PoolSize = 2
  MaxClients = 2
  MaxGroups = 2
  MaxMembers = 2
  AllocMayFail = TRUE
SPECIFICATION Spec
SYMMETRY Symmetric
INVARIANTS
  NoSharedAddress
  CountCovers
