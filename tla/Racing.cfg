\* Several workers, clients that create the same paths, any outcome of a freed key.
CONSTANTS
  Workers = {w1, w2}
  Clients = {4, 5}
  Mortal = {5}
  Paths = {p, q}
  Bytes = {0, 1, 2}
  Objs = {o1, o2, o3}
  MaxFiles = 2
  MaxBytes = 2
  SizeMod = 8
  Requests <- RacingRequests
  FreedKey = {"intact", "lost", "other"}
  ReuseSlots = TRUE
  MaxRequests = 6
  NoWorker = NoWorker
  NoObj = NoObj
  NoPath = NoPath
SYMMETRY Symmetry
SPECIFICATION Spec
INVARIANTS
  TypeOK
  FileCount
  NoDoubleFree
CHECK_DEADLOCK FALSE
