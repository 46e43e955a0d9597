---------------------------- MODULE AtomicStore ----------------------------
(***************************************************************************)
(* What the file server promises its clients: a bounded store of named     *)
(* files, each open by at most one client, on which every request takes    *)
(* effect and is decided in one step.  Files that are not open by someone  *)
(* else may disappear while a client is waiting for room.  A removal is no *)
(* promise: the server goes by a path it has freed, so that it may remove  *)
(* the file, another one or none.  A client that goes away leaves its      *)
(* request undecided or decided unheard, and no trace on the files of the  *)
(* others.                                                                 *)
(***************************************************************************)
EXTENDS Integers, Sequences, FiniteSets, FiniteSetsExt

CONSTANTS Clients, Paths, Requests, MaxFiles, MaxBytes, None

VARIABLES
  files,    \* the stored files, by path: content and owner
  pending,  \* the request of each client that is not decided yet
  last,     \* the decision on each client's last request
  up        \* is the client there to hear of it?

vars == <<files, pending, last, up>>

NoClient == -1
NoAnswer == [code |-> "NONE", data |-> <<>>]

Present(p) == p \in DOMAIN files
Owned(c)   == /\ pending[c] # None
              /\ Present(pending[c].path)
              /\ files[pending[c].path].owner = c

BytesOf(fs) == MapThenSumSet(LAMBDA p : Len(fs[p].data), DOMAIN fs)

Put(p, f)  == [q \in DOMAIN files \cup {p} |-> IF q = p THEN f ELSE files[q]]
Drop(p)    == [q \in DOMAIN files \ {p} |-> files[q]]

Init == /\ files = [p \in {} |-> None]
        /\ pending = [c \in Clients |-> None]
        /\ last = [c \in Clients |-> NoAnswer]
        /\ up = [c \in Clients |-> TRUE]

Asks(c, op) == pending[c] # None /\ pending[c].op = op

Decide(c, code, d) ==
  /\ pending' = [pending EXCEPT ![c] = None]
  /\ last' = [last EXCEPT ![c] = IF up[c] THEN [code |-> code, data |-> d]
                                          ELSE NoAnswer]
  /\ UNCHANGED up

Call(c) ==
  /\ up[c] /\ pending[c] = None
  /\ pending'[c] \in Requests /\ pending'[c].client = c
  /\ pending' = [pending EXCEPT ![c] = pending'[c]]
  /\ last' = [last EXCEPT ![c] = NoAnswer]
  /\ UNCHANGED <<files, up>>

(* Decisions that grant.                                                   *)

Open(c) ==
  /\ Asks(c, "OPEN")
  /\ LET p == pending[c].path IN
       \/ /\ Present(p) /\ files[p].owner = NoClient
          /\ files' = Put(p, [files[p] EXCEPT !.owner = c])
       \/ /\ ~Present(p) /\ pending[c].create
          /\ Cardinality(DOMAIN files) < MaxFiles
          /\ files' = Put(p, [data |-> <<>>, owner |-> c])
  /\ Decide(c, "SUCCESS", <<>>)

Close(c) ==
  /\ Asks(c, "CLOSE") /\ Owned(c)
  /\ files' = [files EXCEPT ![pending[c].path].owner = NoClient]
  /\ Decide(c, "SUCCESS", <<>>)

Read(c) ==
  /\ Asks(c, "READ") /\ Owned(c)
  /\ Decide(c, "SUCCESS", files[pending[c].path].data)
  /\ UNCHANGED files

Write(c) ==
  /\ Asks(c, "WRITE") \/ Asks(c, "APPEND")
  /\ Owned(c)
  /\ files' = [files EXCEPT ![pending[c].path].data =
                 IF pending[c].op = "WRITE" THEN pending[c].data
                 ELSE @ \o pending[c].data]
  /\ BytesOf(files') <= MaxBytes
  /\ Decide(c, "SUCCESS", <<>>)

\* A removal is confirmed to the owner of the file, and takes at most one file
\* away: not surely the one it was asked for.
Remove(c) ==
  /\ Asks(c, "REMOVE") /\ Owned(c)
  /\ UNCHANGED files \/ \E p \in DOMAIN files : files' = Drop(p)
  /\ Decide(c, "SUCCESS", <<>>)

ReadN(c) ==
  /\ Asks(c, "READN")
  /\ Decide(c, "END", <<>>)
  /\ UNCHANGED files

(* Decisions that refuse, each for a reason that holds when it is made.    *)

Reason(c, code) ==
  LET r == pending[c]
      full == Cardinality(DOMAIN files) = MaxFiles \/ BytesOf(files) = MaxBytes
  IN CASE code = "FNF" -> ~Present(r.path) /\ ~(r.op = "OPEN" /\ r.create)
       [] code = "ALREADY" -> /\ r.op = "OPEN" /\ Present(r.path)
                              /\ files[r.path].owner # NoClient
       [] code = "LOCKED" -> /\ r.op # "OPEN" /\ Present(r.path)
                             /\ files[r.path].owner # c
       [] code = "FAILURE" ->
            \/ r.op = "OPEN" /\ r.create /\ full
            \/ r.op \in {"WRITE", "APPEND"} /\
                 (r.data = <<>> \/ BytesOf(files) + Len(r.data) > MaxBytes)
            \/ r.op = "OTHER"

Refuse(c) ==
  /\ pending[c] # None
  /\ \E code \in {"FNF", "ALREADY", "LOCKED", "FAILURE"} :
       Reason(c, code) /\ Decide(c, code, <<>>)
  /\ UNCHANGED files

\* lockFile and unlockFile are never answered.
Ignore(c) ==
  /\ Asks(c, "LOCK") \/ Asks(c, "UNLOCK")
  /\ pending' = [pending EXCEPT ![c] = None]
  /\ UNCHANGED <<files, last, up>>

\* Room is made for a write, never at the cost of its own file or of one
\* that another client has open, and only when the write does not fit.
Evict(c) ==
  /\ Asks(c, "WRITE") \/ Asks(c, "APPEND")
  /\ Owned(c)
  /\ BytesOf(files) + Len(pending[c].data) > MaxBytes
  /\ \E p \in DOMAIN files \ {pending[c].path} :
       /\ files[p].owner \in {NoClient, c}
       /\ files' = Drop(p)
  /\ UNCHANGED <<pending, last, up>>

(* Clients come and go.                                                    *)

Leave(c) ==
  /\ up[c]
  /\ up' = [up EXCEPT ![c] = FALSE]
  /\ last' = [last EXCEPT ![c] = NoAnswer]
  /\ UNCHANGED <<files, pending>>

\* Of the bytes of a write no more may arrive than their number.
Garble(c) ==
  /\ ~up[c]
  /\ Asks(c, "WRITE") \/ Asks(c, "APPEND")
  /\ pending' = [pending EXCEPT ![c].data = [k \in DOMAIN @ |-> 0]]
  /\ UNCHANGED <<files, last, up>>

Abandon(c) ==
  /\ ~up[c]
  /\ pending' = [pending EXCEPT ![c] = None]
  /\ UNCHANGED <<files, last, up>>

Return(c) ==
  /\ ~up[c] /\ pending[c] = None
  /\ up' = [up EXCEPT ![c] = TRUE]
  /\ UNCHANGED <<files, pending, last>>

Next == \E c \in Clients :
          \/ Call(c)   \/ Open(c)  \/ Close(c)  \/ Read(c)  \/ Write(c)
          \/ Remove(c) \/ ReadN(c) \/ Refuse(c) \/ Ignore(c) \/ Evict(c)
          \/ Leave(c)  \/ Garble(c) \/ Abandon(c) \/ Return(c)

Spec == Init /\ [][Next]_vars
=============================================================================
