----------------------------- MODULE MCProtocol -----------------------------
(* Calls and small constants for the runs of Protocol.                     *)
EXTENDS Protocol, TLC

Plain(op) == [op |-> op, size |-> 0, dir |-> FALSE, n |-> 0]
Written(op, sizes, dirs) == [op : {op}, size : sizes, dir : dirs, n : {0}]
Many(ns) == [op : {"READN"}, size : {0}, dir : BOOLEAN, n : ns]

AllCalls ==
  {Plain(op) : op \in {"OPEN", "CLOSE", "READ", "LOCK", "UNLOCK", "REMOVE"}}
  \cup Written("WRITE", 0..3, BOOLEAN) \cup Written("APPEND", 0..3, BOOLEAN)
  \cup Many(0..2)

ShortCalls == {c \in AllCalls : c.size <= 1}
Short == client.call \in ShortCalls \cup {NoCall}

\* After a lockFile or a write that has parted the two ends, one more short
\* call shows what comes of it.
Going ==
  \/ trouble \subseteq {"stop", "large file"}
  \/ /\ trouble \subseteq {"stop", "lock", "empty write", "refused write", "evicting write"}
     /\ ncalls <= 2 /\ Short

TalkSpec == /\ Init /\ [][Going /\ Next]_vars
            /\ WF_vars(Going /\ ClientStep) /\ WF_vars(Going /\ ServerStep)

WriteCalls == Written("WRITE", {1}, {TRUE})
=============================================================================
