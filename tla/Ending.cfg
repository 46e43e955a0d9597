\* One worker and two clients, or two workers and one, in any schedule; the
\* array never fills.
CONSTANTS
  Workers = {w1, w2}
  Crews <- OneOrBoth
  Fds = {4, 5}
  Listen = 3
  MaxLens = {8}
  Slots = 8
  MaxConnects <- FewerConnections
  MaxSends <- OneSent
  Dispatch = D
SPECIFICATION FairSpec
PROPERTIES
  InterruptEnds
  GoesOn
  HandedIsRead
CHECK_DEADLOCK FALSE
