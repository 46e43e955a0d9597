\* Every storage of three files, one of them being written.
CONSTANTS
  Files = {w, f, g}
  Written = w
  MaxLen = 2
  MaxNeed = 2
  Uses = {2, 3}
  MaxMoves = 2
SPECIFICATION EvictFairSpec
INVARIANTS
  EndsRight
  FailsForNeed
PROPERTIES
  LeavesOpen
  EvictionEnds
CHECK_DEADLOCK FALSE
