\* Paths of which some begin with others.
CONSTANTS
  Keys <- Words
  NEntries = 2
  Openers = {t1}
  MaxFiles = 3
  Objects = {o1, o2, o3, o4}
  None = None
SPECIFICATION Spec
INVARIANTS
  FindsOwn
PROPERTIES
  IsMap
CHECK_DEADLOCK FALSE
