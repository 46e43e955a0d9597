---------------------------- MODULE MCFileServer ----------------------------
(* Request sets and small constants for the runs of FileServer.            *)
EXTENDS FileServerRefinement, TLC

Base == [client |-> 0, op |-> "OTHER", path |-> NoPath, create |-> FALSE,
         data |-> <<>>, n |-> 0, back |-> FALSE]

Open(c, p, cr)      == [Base EXCEPT !.client = c, !.op = "OPEN", !.path = p,
                                    !.create = cr]
On(c, op, p)        == [Base EXCEPT !.client = c, !.op = op, !.path = p]
Put(c, op, p, d, b) == [Base EXCEPT !.client = c, !.op = op, !.path = p,
                                    !.data = d, !.back = b]
ReadMany(c, n)      == [Base EXCEPT !.client = c, !.op = "READN", !.n = n]

\* "Base" carries no path for readNFiles; any path will do.
WithPath(rs) == {[r EXCEPT !.path = IF @ = NoPath THEN CHOOSE p \in Paths : TRUE
                                                  ELSE @] : r \in rs}

OneByte  == <<1>>
TwoBytes == <<1, 2>>

\* Everything, by everyone.
AllRequests == WithPath(
  {Open(c, p, cr) : c \in Clients, p \in Paths, cr \in BOOLEAN} \cup
  {On(c, op, p) : c \in Clients, p \in Paths,
                  op \in {"CLOSE", "READ", "REMOVE"}} \cup
  {Put(c, "WRITE", p, d, TRUE) : c \in Clients, p \in Paths,
                                 d \in {<<>>, OneByte, TwoBytes}} \cup
  {Put(c, "APPEND", p, OneByte, FALSE) : c \in Clients, p \in Paths} \cup
  {ReadMany(c, 1) : c \in Clients} \cup
  {On(c, op, CHOOSE p \in Paths : TRUE) : c \in Clients,
                                          op \in {"LOCK", "OTHER"}})

\* Each client creates one path of its own and uses every path.
OwnPath4 == CHOOSE p \in Paths : TRUE
OwnPath(c) == IF c = 4 THEN OwnPath4
              ELSE CHOOSE p \in Paths : p # OwnPath4
SharedRequests == WithPath(
  {Open(c, p, p = OwnPath(c)) : c \in Clients, p \in Paths} \cup
  {On(c, "CLOSE", p) : c \in Clients, p \in Paths} \cup
  {On(c, "REMOVE", OwnPath(c)) : c \in Clients} \cup
  {Put(c, "WRITE", p, TwoBytes, FALSE) : c \in Clients, p \in Paths} \cup
  {On(5, "READ", OwnPath(4)), ReadMany(4, 1)})

\* Creations of the same paths by everyone, evictions, removals.
RacingRequests ==
  {Open(c, p, TRUE) : c \in Clients, p \in Paths} \cup
  {On(c, op, p) : c \in Clients, p \in Paths, op \in {"CLOSE", "REMOVE"}} \cup
  {Put(c, "WRITE", p, TwoBytes, FALSE) : c \in Clients, p \in Paths}

\* Workers and heap slots are interchangeable.
Symmetry == Permutations(Workers) \cup Permutations(Objs)
=============================================================================
