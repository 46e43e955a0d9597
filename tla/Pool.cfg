\* One worker, or two, in any schedule; room for one client, or for both.
CONSTANTS
  Workers = {w1, w2}
  Crews <- AnyCrew
  Fds = {4, 5}
  Listen = 3
  MaxLens = {2, 3}
  Slots = 4
  MaxConnects <- TwoConnections
  MaxSends <- ThreeOrOneSent
  Dispatch = D
SPECIFICATION Spec
INVARIANTS
  NoUnderrun
  NoneCutOff
PROPERTY ShutdownServes
SYMMETRY Symmetry
CHECK_DEADLOCK FALSE
