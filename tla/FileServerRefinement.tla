------------------------ MODULE FileServerRefinement ------------------------
(***************************************************************************)
(* The handlers seen as an AtomicStore: the stored files are the newest    *)
(* entries of the table that no eviction has marked, and a request is      *)
(* decided by the step after which its answer can no longer change.        *)
(***************************************************************************)
EXTENDS FileServerProps

\* "No request pending" is not a request.
ASSUME RefinementAssumption == NoObj \notin Request

Server(c) == {w \in Workers : pc[w] # "idle" /\ Client(w) = c}

FilesBar ==
  LET here(p) == {table[i] : i \in Newest(p)}
      seen == {p \in Paths : \E o \in here(p) : obj[o].client # Evicted}
  IN [p \in seen |-> LET o == CHOOSE x \in here(p) : TRUE
                     IN [data |-> obj[o].data, owner |-> obj[o].client]]

Decided(w) == pc[w] \in {"OpenStore", "RemoveStore", "ReadSend"}

PendingBar ==
  [c \in Clients |->
     IF \E w \in Server(c) : ~Decided(w)
       THEN Req(CHOOSE w \in Server(c) : TRUE) ELSE NoObj]

\* The decision a finished request's messages tell the client.
Verdict(ms) ==
  IF ms = <<>> THEN [code |-> "NONE", data |-> <<>>]
  ELSE IF Last(ms).code = "DATA" THEN [code |-> "SUCCESS", data |-> Last(ms).data]
  ELSE [code |-> Last(ms).code, data |-> <<>>]

LastBar ==
  [c \in Clients |->
     IF ~alive[c] THEN Verdict(<<>>)
     ELSE IF Server(c) = {} THEN Verdict(out[c])
     ELSE LET w == CHOOSE v \in Server(c) : TRUE
          IN IF ~Decided(w) THEN [code |-> "NONE", data |-> <<>>]
             ELSE [code |-> "SUCCESS",
                   data |-> IF pc[w] = "ReadSend" THEN obj[File(w)].data
                            ELSE <<>>]]

Atomic == INSTANCE AtomicStore WITH
            files <- FilesBar, pending <- PendingBar, last <- LastBar,
            up <- alive, None <- NoObj

(* With one worker, whatever the freed key of a removal spells, the        *)
(* handlers implement the atomic store: every grant, refusal, read and     *)
(* eviction is one the store allows at the moment it is decided, a removal *)
(* takes one file away at most, and a client that goes away in the middle  *)
(* of its request changes no file but those it may write or evict.         *)
ImplementsAtomicStore == Atomic!Spec
=============================================================================
