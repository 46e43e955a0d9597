---------------------------- MODULE MCDispatcher ----------------------------
EXTENDS Dispatcher, TLC

AnyCrew   == (SUBSET Workers) \ {{}}
One       == {{CHOOSE w \in Workers : TRUE}}
OneOrBoth == One \cup {Workers}

\* One worker is given more to do than several.
TwoConnections   == [c \in AnyCrew |-> 2]
FewerConnections == [c \in OneOrBoth |-> IF c = Workers THEN 1 ELSE 2]
ThreeOrOneSent   == [c \in AnyCrew |-> IF Cardinality(c) = 1 THEN 3 ELSE 1]
OneSent          == [c \in OneOrBoth |-> 1]

Symmetry == Permutations(Workers)
=============================================================================
