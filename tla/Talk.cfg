\* Every call after every call; short ones after the two ends have parted.
CONSTANTS
  Calls <- AllCalls
  MaxCalls = 3
  PathLen = 1
  MaxData = 3
  MaxFiles = 2
  Chunk = 2
  Long = 9
  CanStop = TRUE
SPECIFICATION TalkSpec
INVARIANTS
  InStep
  Truthful
  Survives
PROPERTIES
  Returns
CHECK_DEADLOCK FALSE
