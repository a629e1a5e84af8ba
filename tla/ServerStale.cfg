CONSTANTS
  Fds = {f1, f2, f3, f4}
  NoFd = NoFd
  Users = {alice, bob, carol}
  Passwords = {p1}
  Groups = {g1, g2, g3}
  Unparsed = Unparsed
  PoolSize = 2
  MaxClients = 3
  MaxGroups = 2
  MaxMembers = 2
  AllocMayFail = FALSE
SPECIFICATION Spec
SYMMETRY Symmetric
INVARIANTS
  NoStaleSession
