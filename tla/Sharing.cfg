\* Several workers: each client creates a path of its own, uses them all.
CONSTANTS
  Workers = {w1, w2}
  Clients = {4, 5}
  Mortal = {}
  Paths = {p, q}
  Bytes = {0, 1, 2}
  Objs = {o1, o2, o3}
  MaxFiles = 2
  MaxBytes = 2
  SizeMod = 8
  Requests <- SharedRequests
  FreedKey = {"intact", "lost"}
  ReuseSlots = TRUE
  MaxRequests = 6
  MaxDisciplined = 5
  NoWorker = NoWorker
  NoObj = NoObj
  NoPath = NoPath
SPECIFICATION SharingSpec
INVARIANTS
  OneOwner
PROPERTIES
  Served
CHECK_DEADLOCK FALSE
