\* Every file of up to three of eighteen lines, with and without a last newline.
CONSTANTS
  Lines <- SomeLines
  MaxLines = 3
SPECIFICATION FairSpec
INVARIANTS
  TypeOK
  LinesCount
PROPERTIES
  StartEnds
CHECK_DEADLOCK FALSE
