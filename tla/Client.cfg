\* Every command line of up to three tokens and whole ones; every kind of
\* interval; a server that comes and goes twice; flat and nested directories.
CONSTANTS
  CommandLines <- Lines
  Counts <- SomeCounts
  Paths <- SomePaths
  Home <- home
  Dirs <- SomeDirs
  Files <- SomeFiles
  Links <- SomeLinks
  AbsTime = 500
  MaxTurns = 2
  MaxRemaining = 3000
SPECIFICATION Spec
INVARIANTS
  AskedFor
  InTime
  Told
  AllSent
PROPERTIES
  GivesUp
  WalkEnds
CHECK_DEADLOCK FALSE
