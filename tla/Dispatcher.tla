----------------------------- MODULE Dispatcher -----------------------------
(***************************************************************************)
(* The dispatcher thread and the workers of server.c around the poll array *)
(* of poll_utils.c: connections are accepted, handed to a worker when they *)
(* have something to read, and put back by the worker that served them.    *)
(*                                                                         *)
(* The dispatcher and the workers use the poll array without a lock.  The  *)
(* Makefile compiles without optimisation, so that every use of arr->len   *)
(* in the source is a load of its own; a step is what happens between two  *)
(* such loads.  The handler that a worker runs is one step here: module    *)
(* FileServer has its inside.                                              *)
(***************************************************************************)
EXTENDS Integers, FiniteSets

CONSTANTS
  Workers,   \* the worker threads
  Fds,       \* the descriptors accept can return
  Listen,    \* infos->server_socket_fd
  Crews,     \* the sets of them that NWORKERS may start
  MaxLens,   \* the values of CLIENT_MAX
  Slots,     \* slots of memory at and behind poll_arr.arr
  MaxConnects, MaxSends,  \* bounds, for a crew: connections, requests
  Dispatch   \* the dispatcher thread

ASSUME DispatcherAssumption ==
  /\ Fds \subseteq Nat \ {0} /\ IsFiniteSet(Fds)
  /\ Listen \in Nat \ (Fds \cup {0})
  /\ Crews \subseteq (SUBSET Workers) \ {{}} /\ IsFiniteSet(Workers)
  /\ MaxLens \subseteq Nat \ {0} /\ Slots \in Nat
  /\ \A n \in MaxLens : n <= Slots
  /\ MaxConnects \in [Crews -> Nat] /\ MaxSends \in [Crews -> Nat]
  /\ Dispatch \notin Workers

VARIABLES
  crew, maxlen,     \* the workers spawned; poll_arr.maxlen
  arr, len, empty,  \* the poll array
  clientOf,         \* workers_clients; 0 is no client
  locked,           \* worker_locks: does the worker hold its own?
  quit, hu,         \* server_quit, server_hu
  at, loc,          \* every thread's place and locals
  scan,             \* the dispatcher's index i
  stuck,            \* a mutex of the storage was left locked
  conn,             \* the connection behind each descriptor
  backlog,          \* connections not accepted yet
  nconn, nsent      \* bounded counters

array  == <<arr, len, empty>>
jobs   == <<clientOf, locked>>
flags  == <<quit, hu, crew, maxlen, stuck>>
net    == <<conn, backlog, nconn, nsent>>
vars   == <<crew, maxlen, arr, len, empty, clientOf, locked, quit, hu, stuck, at, loc, scan,
            conn, backlog, nconn, nsent>>

Threads == Workers \cup {Dispatch}

Blank  == [fd |-> 0, in |-> FALSE, rev |-> "none"]
Closed == [open |-> FALSE, peer |-> FALSE, input |-> "none"]
NoLoc  == [fd |-> 0, slot |-> 0, n |-> 0, back |-> "loop"]

\* spawn_workers, pu_add of the listening socket.
Init ==
  /\ crew \in Crews /\ maxlen \in MaxLens
  /\ arr = [i \in 0..(Slots - 1) |->
              IF i = 0 THEN [fd |-> Listen, in |-> TRUE, rev |-> "none"]
              ELSE Blank]
  /\ len = 1 /\ empty = TRUE
  /\ clientOf = [w \in Workers |-> 0]
  /\ locked = [w \in Workers |-> FALSE]
  /\ quit = FALSE /\ hu = FALSE /\ stuck = FALSE
  /\ at = [t \in Threads |-> IF t = Dispatch THEN "loop"
                             ELSE IF t \in crew THEN "top" ELSE "gone"]
  /\ loc = [t \in Threads |-> NoLoc]
  /\ scan = 0
  /\ conn = [c \in Fds |-> Closed]
  /\ backlog = 0 /\ nconn = 0 /\ nsent = 0

Goto(t, label) == at' = [at EXCEPT ![t] = label]

-----------------------------------------------------------------------------
(* poll_utils.c                                                            *)

IsEmpty == len = 0 /\ empty

IsFull == len = maxlen

Return(t) == Goto(t, loc[t].back) /\ loc' = [loc EXCEPT ![t] = NoLoc]

\* pu_add(arr, loc.fd): every statement loads arr->len again.  Others may have
\* filled the array since the test.  What a write behind it does to the memory
\* there is not followed: the thread stops before it.
AddTest(t) ==
  /\ at[t] = "add"
  /\ IF IsFull THEN Return(t) ELSE Goto(t, "addFd") /\ UNCHANGED loc
  /\ UNCHANGED <<array, jobs, flags, scan, net>>

AddFd(t) ==
  /\ at[t] = "addFd" /\ len < maxlen
  /\ arr' = [arr EXCEPT ![len].fd = loc[t].fd]
  /\ Goto(t, "addEvents")
  /\ UNCHANGED <<len, empty, jobs, flags, loc, scan, net>>

AddEvents(t) ==
  /\ at[t] = "addEvents" /\ len < maxlen
  /\ arr' = [arr EXCEPT ![len].in = TRUE]
  /\ Goto(t, "addLen")
  /\ UNCHANGED <<len, empty, jobs, flags, loc, scan, net>>

AddLen(t) ==
  /\ at[t] = "addLen" /\ len < maxlen
  /\ loc' = [loc EXCEPT ![t].n = len]
  /\ Goto(t, "addStore")
  /\ UNCHANGED <<array, jobs, flags, scan, net>>

AddStore(t) ==
  /\ at[t] = "addStore"
  /\ len' = loc[t].n + 1
  /\ Goto(t, "addClear")
  /\ UNCHANGED <<arr, empty, jobs, flags, loc, scan, net>>

AddClear(t) ==
  /\ at[t] = "addClear"
  /\ arr' = [arr EXCEPT ![loc[t].n].rev = "none"]
  /\ Return(t)
  /\ UNCHANGED <<len, empty, jobs, flags, scan, net>>

Add(t) == \/ AddTest(t) \/ AddFd(t) \/ AddEvents(t)
          \/ AddLen(t) \/ AddStore(t) \/ AddClear(t)

\* The last place of a descriptor, where pu_remove finds it.
Found(fd) ==
  {i \in 0..(IF len = 0 THEN 0 ELSE len - 1) :
     arr[i].fd = fd /\ \A j \in (i + 1)..(len - 1) : arr[j].fd # fd}

RemoveAt(slot) ==
  /\ loc' = [loc EXCEPT ![Dispatch].slot = slot]
  /\ Goto(Dispatch, "rmCopy")

NotFoundForgotten ==
  /\ at[Dispatch] = "rm"
  /\ \/ IsEmpty /\ Return(Dispatch)
     \/ ~IsEmpty /\ \E i \in Found(loc[Dispatch].fd) : RemoveAt(i)
     \/ ~IsEmpty /\ Found(loc[Dispatch].fd) = {} /\ RemoveAt(0)
  /\ UNCHANGED <<array, jobs, flags, scan, net>>

RemoveTest ==
  /\ at[Dispatch] = "rm"
  /\ \/ (IsEmpty \/ Found(loc[Dispatch].fd) = {}) /\ Return(Dispatch)
     \/ ~IsEmpty /\ \E i \in Found(loc[Dispatch].fd) : RemoveAt(i)
  /\ UNCHANGED <<array, jobs, flags, scan, net>>

RemoveCopy ==
  /\ at[Dispatch] = "rmCopy"
  /\ arr' = [arr EXCEPT ![loc[Dispatch].slot] = arr[len - 1]]
  /\ Goto(Dispatch, "rmZero")
  /\ UNCHANGED <<len, empty, jobs, flags, loc, scan, net>>

RemoveZero ==
  /\ at[Dispatch] = "rmZero"
  /\ arr' = [arr EXCEPT ![len - 1] = Blank]
  /\ Goto(Dispatch, "rmLen")
  /\ UNCHANGED <<len, empty, jobs, flags, loc, scan, net>>

RemoveLen ==
  /\ at[Dispatch] = "rmLen"
  /\ loc' = [loc EXCEPT ![Dispatch].n = len]
  /\ Goto(Dispatch, "rmStore")
  /\ UNCHANGED <<array, jobs, flags, scan, net>>

RemoveStore ==
  /\ at[Dispatch] = "rmStore"
  /\ len' = loc[Dispatch].n - 1
  /\ Return(Dispatch)
  /\ UNCHANGED <<arr, empty, jobs, flags, scan, net>>

Remove == RemoveTest \/ RemoveCopy \/ RemoveZero \/ RemoveLen \/ RemoveStore

Call(t, op, fd, back) ==
  /\ loc' = [loc EXCEPT ![t] = [NoLoc EXCEPT !.fd = fd, !.back = back]]
  /\ Goto(t, op)

-----------------------------------------------------------------------------
(* server_dispatcher and assign_client                                     *)

Loop ==
  /\ at[Dispatch] = "loop"
  /\ \/ /\ (hu /\ IsEmpty) \/ quit
        /\ quit' = (quit \/ hu)
        /\ Goto(Dispatch, "join")
        /\ UNCHANGED <<hu, crew, maxlen, stuck, loc>>
     \/ /\ ~(hu /\ IsEmpty) /\ ~quit
        /\ IF hu THEN Call(Dispatch, "rm", Listen, "poll")
                 ELSE Goto(Dispatch, "poll") /\ UNCHANGED loc
        /\ UNCHANGED flags
  /\ UNCHANGED <<array, jobs, scan, net>>

\* What poll reports of a slot; descriptor 0 is the standard input.
Ready(s, stdin) ==
  CASE s.fd \in Fds /\ conn[s.fd].open /\ ~conn[s.fd].peer -> "HUP"
    [] s.fd \in Fds /\ s.in /\ conn[s.fd].open
       /\ conn[s.fd].input = "sent" -> "IN"
    [] s.fd = Listen /\ s.in /\ backlog > 0 -> "IN"
    [] s.fd = 0 /\ s.in /\ stdin -> "IN"
    [] OTHER -> "none"

\* poll waits 100 ms at most.
Poll ==
  /\ at[Dispatch] = "poll"
  /\ \E stdin \in BOOLEAN :
     LET ready == {i \in 0..(len - 1) : Ready(arr[i], stdin) # "none"}
     IN /\ arr' = [i \in DOMAIN arr |->
                     IF i < len THEN [arr[i] EXCEPT !.rev = Ready(arr[i], stdin)]
                     ELSE arr[i]]
        /\ Goto(Dispatch, IF ready = {} THEN "loop" ELSE "scan")
  /\ scan' = 0
  /\ UNCHANGED <<len, empty, jobs, flags, loc, net>>

ScanEnd ==
  /\ at[Dispatch] = "scan" /\ scan >= len
  /\ scan' = 0 /\ Goto(Dispatch, "loop")
  /\ UNCHANGED <<array, jobs, flags, loc, net>>

ScanSkip ==
  /\ at[Dispatch] = "scan" /\ scan < len /\ arr[scan].rev = "none"
  /\ scan' = scan + 1
  /\ UNCHANGED <<array, jobs, flags, at, loc, net>>

ScanHangUp ==
  /\ at[Dispatch] = "scan" /\ scan < len /\ arr[scan].rev = "HUP"
  /\ conn' = [conn EXCEPT ![arr[scan].fd] = Closed]
  /\ Call(Dispatch, "rm", arr[scan].fd, "next")
  /\ UNCHANGED <<array, jobs, flags, scan, backlog, nconn, nsent>>

\* The lowest free descriptor is the new connection's.
ScanAccept ==
  /\ at[Dispatch] = "scan" /\ scan < len
  /\ arr[scan].rev = "IN" /\ arr[scan].fd = Listen
  /\ \/ /\ IsFull
        /\ Goto(Dispatch, "clear")
        /\ UNCHANGED <<loc, conn, backlog>>
     \/ /\ ~IsFull /\ backlog > 0
        /\ \E c \in Fds :
             /\ ~conn[c].open /\ \A x \in Fds : ~conn[x].open => c <= x
             /\ conn' = [conn EXCEPT ![c] = [open |-> TRUE, peer |-> TRUE, input |-> "none"]]
             /\ Call(Dispatch, "add", c, "clear")
        /\ backlog' = backlog - 1
  /\ UNCHANGED <<array, jobs, flags, scan, nconn, nsent>>

Busy(w) == locked[w] \/ clientOf[w] # 0

\* assign_client goes round the workers until one is free.
Assign ==
  /\ at[Dispatch] = "scan" /\ scan < len
  /\ arr[scan].rev = "IN" /\ arr[scan].fd # Listen
  /\ \E w \in crew : /\ ~Busy(w)
                     /\ clientOf' = [clientOf EXCEPT ![w] = arr[scan].fd]
  /\ Goto(Dispatch, "assigned")
  /\ UNCHANGED <<array, locked, flags, loc, scan, net>>

EmptyForgotten ==
  /\ at[Dispatch] = "assigned"
  /\ Call(Dispatch, "rm", arr[scan].fd, "clear")
  /\ UNCHANGED <<array, jobs, flags, scan, net>>

Assigned ==
  /\ at[Dispatch] = "assigned"
  /\ empty' = FALSE
  /\ Call(Dispatch, "rm", arr[scan].fd, "clear")
  /\ UNCHANGED <<arr, len, jobs, flags, scan, net>>

\* The event is cleared in whatever entry is now at this place.
ScanNext ==
  /\ at[Dispatch] \in {"clear", "next"}
  /\ arr' = IF at[Dispatch] = "next" THEN arr
            ELSE [arr EXCEPT ![scan].rev = "none"]
  /\ scan' = scan + 1
  /\ Goto(Dispatch, "scan")
  /\ UNCHANGED <<len, empty, jobs, flags, loc, net>>

JoinOne ==
  /\ at[Dispatch] = "join" /\ \E w \in crew : at[w] = "gone"
  /\ Goto(Dispatch, "end")
  /\ UNCHANGED <<array, jobs, flags, loc, scan, net>>

Join ==
  /\ at[Dispatch] = "join" /\ \A w \in Workers : at[w] = "gone"
  /\ Goto(Dispatch, "end")
  /\ UNCHANGED <<array, jobs, flags, loc, scan, net>>

Dispatching == \/ Loop \/ Poll \/ ScanEnd \/ ScanSkip \/ ScanHangUp
               \/ ScanAccept \/ Assign \/ Assigned \/ ScanNext
               \/ Join \/ Add(Dispatch) \/ Remove

-----------------------------------------------------------------------------
(* server_worker                                                           *)

ClearedAtTop(w) ==
  /\ at[w] = "top"
  /\ clientOf' = [clientOf EXCEPT ![w] = 0]
  /\ Goto(w, IF quit THEN "gone" ELSE "wait")
  /\ UNCHANGED <<array, locked, flags, loc, scan, net>>

Top(w) ==
  /\ at[w] = "top"
  /\ Goto(w, IF quit THEN "gone" ELSE "wait")
  /\ UNCHANGED <<array, jobs, flags, loc, scan, net>>

WaitForClient(w) ==
  /\ at[w] = "wait" /\ clientOf[w] # 0
  /\ locked' = [locked EXCEPT ![w] = TRUE]
  /\ Goto(w, "read")
  /\ UNCHANGED <<array, clientOf, flags, loc, scan, net>>

\* The deadline of the timed wait has always passed: the worker polls for a
\* client, taking its lock each time, and keeps it once it has one.
Wait(w) ==
  /\ at[w] = "wait"
  /\ \/ /\ clientOf[w] # 0
        /\ locked' = [locked EXCEPT ![w] = TRUE]
        /\ Goto(w, "read")
     \/ /\ clientOf[w] = 0 /\ quit
        /\ Goto(w, "gone")
        /\ UNCHANGED locked
  /\ UNCHANGED <<array, clientOf, flags, loc, scan, net>>

\* A request, which if it is 0 is not served nor its client put back, the end
\* of the stream or an error.
Read(w) ==
  /\ at[w] = "read"
  /\ LET c == conn[clientOf[w]]
     IN \/ /\ c.open /\ c.input = "sent"
           /\ \/ conn' = [conn EXCEPT ![clientOf[w]].input = "read"] /\ Goto(w, "serve")
              \/ conn' = [conn EXCEPT ![clientOf[w]].input = "dropped"] /\ Goto(w, "free")
        \/ /\ ~c.open \/ (~c.peer /\ c.input # "sent")
           /\ Goto(w, "free")
           /\ UNCHANGED conn
  /\ UNCHANGED <<array, jobs, flags, loc, scan, backlog, nconn, nsent>>

\* The handler returns and its client may go on; when it refused a write, or
\* its client is gone, a mutex may stay locked.
Serve(w) ==
  /\ at[w] = "serve"
  /\ conn' = [conn EXCEPT ![clientOf[w]].input =
                IF @ = "read" THEN "none" ELSE @]
  /\ stuck' \in {stuck, TRUE}
  /\ Call(w, "add", clientOf[w], "mark")
  /\ UNCHANGED <<array, jobs, quit, hu, crew, maxlen, scan, backlog, nconn, nsent>>

\* A handler that needs a mutex left locked waits for ever.
Block(w) ==
  /\ at[w] = "serve" /\ stuck
  /\ Goto(w, "blocked")
  /\ UNCHANGED <<array, jobs, flags, loc, scan, net>>

Mark(w) ==
  /\ at[w] = "mark"
  /\ empty' = TRUE
  /\ Goto(w, "free")
  /\ UNCHANGED <<arr, len, jobs, flags, loc, scan, net>>

FreeForgotten(w) ==
  /\ at[w] = "free"
  /\ locked' = [locked EXCEPT ![w] = FALSE]
  /\ Goto(w, "top")
  /\ UNCHANGED <<array, clientOf, flags, loc, scan, net>>

Free(w) ==
  /\ at[w] = "free"
  /\ clientOf' = [clientOf EXCEPT ![w] = 0]
  /\ locked' = [locked EXCEPT ![w] = FALSE]
  /\ Goto(w, "top")
  /\ UNCHANGED <<array, flags, loc, scan, net>>

Working(w) == \/ Top(w) \/ Wait(w) \/ Read(w) \/ Serve(w) \/ Block(w)
              \/ Add(w) \/ Mark(w) \/ Free(w)

-----------------------------------------------------------------------------
(* Clients and signals.                                                    *)

Connect ==
  /\ nconn < MaxConnects[crew]
  /\ backlog + Cardinality({c \in Fds : conn[c].open}) < Cardinality(Fds)
  /\ nconn' = nconn + 1 /\ backlog' = backlog + 1
  /\ UNCHANGED <<array, jobs, flags, at, loc, scan, conn, nsent>>

\* A client sends a request when the last one was answered.
SendRequest(c) ==
  /\ conn[c].open /\ conn[c].peer /\ conn[c].input = "none"
  /\ nsent < MaxSends[crew]
  /\ conn' = [conn EXCEPT ![c].input = "sent"]
  /\ nsent' = nsent + 1
  /\ UNCHANGED <<array, jobs, flags, at, loc, scan, backlog, nconn>>

Disconnect(c) ==
  /\ conn[c].open /\ conn[c].peer
  /\ conn' = [conn EXCEPT ![c].peer = FALSE]
  /\ UNCHANGED <<array, jobs, flags, at, loc, scan, backlog, nconn, nsent>>

\* server_signal_handler: SIGINT or SIGQUIT, or else SIGHUP; once.
Interrupt == /\ ~quit /\ ~hu /\ quit' = TRUE
             /\ UNCHANGED <<array, jobs, hu, crew, maxlen, stuck, at, loc, scan, net>>
HangUp    == /\ ~quit /\ ~hu /\ hu' = TRUE
             /\ UNCHANGED <<array, jobs, quit, crew, maxlen, stuck, at, loc, scan, net>>

Outside == \/ Connect \/ Interrupt \/ HangUp
           \/ \E c \in Fds : SendRequest(c) \/ Disconnect(c)

Next == Dispatching \/ (\E w \in Workers : Working(w)) \/ Outside

Spec == Init /\ [][Next]_vars

\* The system runs every thread; clients leave in the end.
FairSpec ==
  /\ Spec
  /\ WF_vars(Dispatching)
  /\ \A w \in Workers : WF_vars(Working(w))
  /\ WF_vars(\E c \in Fds : Disconnect(c))

-----------------------------------------------------------------------------
Alone == Cardinality(crew) = 1

\* However the workers' additions overtake it, pu_remove never takes an entry
\* out of an array of length 0: it neither writes before the array
\* (poll_utils.c:85) nor takes 1 from an unsigned 0.
NoUnderrun ==
  /\ at[Dispatch] \in {"rmCopy", "rmZero", "rmLen"} => len >= 1
  /\ at[Dispatch] = "rmStore" => loc[Dispatch].n >= 1

\* When the server ends, however it was told to and whatever happened to the
\* array before, every request that a worker took up has been answered.
NoneCutOff == at[Dispatch] = "end" => \A c \in Fds : conn[c].input # "read"

\* With one worker SIGHUP never ends the dispatcher while the worker has a
\* client: empty, which both set without a lock, is false from the handover
\* on until the worker is done.
ShutdownServes ==
  [][Alone /\ hu /\ ~quit /\ quit' => \A w \in Workers : clientOf[w] # 0 => at[w] = "free"]_vars

\* What does bring the server to a halt: a worker waits for a mutex that was
\* left locked, or the dispatcher looks for a worker when all have left.
Blocked  == \E w \in crew : at[w] = "blocked"
Deserted ==
  /\ at[Dispatch] = "scan" /\ scan < len /\ arr[scan].rev = "IN" /\ arr[scan].fd # Listen
  /\ \A w \in crew : clientOf[w] # 0 /\ at[w] = "gone"
Halted   == Blocked \/ Deserted

\* After SIGINT or SIGQUIT the server ends, unless it halts.
InterruptEnds == quit ~> at[Dispatch] = "end" \/ Halted

\* The dispatcher comes back to poll again and again until the end: it does
\* not go round the busy workers for ever, unless the server halts.
GoesOn == []<>(at[Dispatch] \in {"poll", "end"} \/ Halted)

\* A client handed to a worker has its request read, unless the server is
\* interrupted: the handover survives whatever the worker was about to do.
Handed(c) == \E w \in Workers : clientOf[w] = c /\ at[w] \in {"top", "wait"}
IsRead(c) == \E w \in Workers : clientOf[w] = c /\ at[w] = "read"
HandedIsRead == \A c \in Fds : Handed(c) ~> IsRead(c) \/ quit
=============================================================================
