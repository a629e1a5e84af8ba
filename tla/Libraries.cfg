CONSTANTS
  Items = {x, y, z}
  NoItem = NoItem
  Wild = Wild
  Size = 3
  NoCell = NoCell
  Elements = {x}
  Cells = {n1, n2, n3}
  Keys = {1, 2, 3}
  Values = {v, w}
  Hash <- MCHash
  Capacity = 2
  NodeCells = {n1, n2, n3}
  PairCells = {p1, p2, p3}
  Things = {x, y}
  Unset = Unset
  MaxThings = 4
  MaxStep = 2
  Chars = {1, 2}
  RawBytes = {0, 1, 255}
  Ports = {5000}
  MaxUser = 3
  MaxPass = 4
  MaxGroup = 3
  MaxIp = 3
  MaxLine = 3
  MaxRaw = 5
SPECIFICATION LibSpec
INVARIANTS
  ChainsOK
  NothingLeaks
  RequestsArriveAsTyped
  ParsersAreStrict
  RepliesArrive
PROPERTIES
  FifoRefinement
  ListRefinement
  MapRefinement
  VectorRefinement
  Answered
