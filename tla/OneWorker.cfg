\* One worker (config.txt, test1.sh): every operation, clients that die, the atomic store.
CONSTANTS
  Workers = {w1}
  Clients = {4, 5}
  Mortal = {5}
  Paths = {p, q}
  Bytes = {0, 1, 2}
  Objs = {o1, o2}
  MaxFiles = 2
  MaxBytes = 2
  SizeMod = 8
  Requests <- AllRequests
  FreedKey = {"intact", "lost", "other"}
  ReuseSlots = TRUE
  MaxRequests = 5
  NoWorker = NoWorker
  NoObj = NoObj
  NoPath = NoPath
SYMMETRY Symmetry
SPECIFICATION Spec
INVARIANTS
  AccountingExact
  CapacityKept
  PromiseKept
  UniquePaths
  NoDangling
PROPERTIES
  ImplementsAtomicStore
  OwnershipKept
  ReturnsClean
CHECK_DEADLOCK FALSE
