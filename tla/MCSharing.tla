------------------------------ MODULE MCSharing ------------------------------
(* Several workers, clients that each create a path of their own and use   *)
(* all of them: whatever they ask, or, disciplined, writing nothing but    *)
(* what they have open.                                                    *)
EXTENDS MCFileServer

CONSTANT MaxDisciplined  \* bound on the requests of disciplined clients

\* What the theorems about several workers assume of the clients holds of these.
ASSUME SharingAssumption == OwnPaths /\ "other" \notin FreedKey

VARIABLE disciplined

Discipline ==
  \A w \in Workers :
    pc[w] = "idle" /\ pc'[w] = "Write" =>
      \E i \in Newest(frame'[w].req.path) :
        obj[table[i]].client = frame'[w].req.client

\* Bound: the last two requests, when there are that many, are to write or to
\* remove a file and to open one.
LastOpens ==
  LET start == {pc'[w] : w \in {v \in Workers : pc[v] = "idle" /\ pc'[v] # "idle"}}
  IN /\ nreq = MaxRequests - 2 /\ ~disciplined => start \subseteq {"Write", "Remove"}
     /\ nreq = MaxRequests - 1 => start \subseteq {"Open"}

\* The workers are alike: while one of them is idle it takes the requests.
FirstWorker == CHOOSE w \in Workers : TRUE

FirstIdle ==
  \A w \in Workers \ {FirstWorker} :
    pc[w] = "idle" /\ pc'[w] # "idle" => pc[FirstWorker] # "idle"

\* Threads that can run do; a mutex that stays free is acquired.
SharingSpec ==
  /\ Init /\ disciplined \in BOOLEAN
  /\ [][/\ Next /\ LastOpens /\ FirstIdle
        /\ disciplined => Discipline /\ nreq' <= MaxDisciplined
        /\ UNCHANGED disciplined]_<<vars, disciplined>>
  /\ \A w \in Workers : WF_vars(Handle(w))

(* When clients write only what they have open, every request that a       *)
(* worker takes is served to the end: no handler waits for ever for a      *)
(* mutex, whatever the order in which the others take the storage's and    *)
(* the files'.                                                             *)
Served == \A w \in Workers : disciplined /\ pc[w] # "idle" ~> pc[w] = "idle"
=============================================================================
