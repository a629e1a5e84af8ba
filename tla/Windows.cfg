CONSTANTS
  Clients = {c1, c2}
  NoClient = NoClient
  Pids = {w1, w2, w3, w4}
  NoPid = NoPid
  Addrs = {a1}
  NoAddr = NoAddr
  Faults = {"failure", "death"}
SPECIFICATION WinSpec
INVARIANTS
  WinTypeOK
  LinkedToOwn
  WindowsDieWithSession
  NothingLeftOver
PROPERTIES
  OpeningEnds
