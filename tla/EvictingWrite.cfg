\* writeFile into a full storage, with -D.
CONSTANTS
  Calls <- WriteCalls
  MaxCalls = 2
  PathLen = 1
  MaxData = 1
  MaxFiles = 2
  Chunk = 2
  Long = 9
  CanStop = FALSE
SPECIFICATION Spec
INVARIANT EvictionServesWrite
CHECK_DEADLOCK FALSE
