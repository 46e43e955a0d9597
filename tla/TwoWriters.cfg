\* Two workers storing at once overrun CAPACITY.
CONSTANTS
  Workers = {w1, w2}
  Clients = {4, 5}
  Mortal = {}
  Paths = {p, q}
  Bytes = {0, 1, 2}
  Objs = {o1, o2, o3}
  MaxFiles = 2
  MaxBytes = 2
  SizeMod = 8
  Requests <- SharedRequests
  FreedKey = {"intact"}
  ReuseSlots = FALSE
  MaxRequests = 5
  NoWorker = NoWorker
  NoObj = NoObj
  NoPath = NoPath
SPECIFICATION Spec
INVARIANTS
  CapacityKept
CHECK_DEADLOCK FALSE
