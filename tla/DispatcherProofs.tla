-------------------------- MODULE DispatcherProofs --------------------------
(***************************************************************************)
(* Proofs about the dispatcher and the workers, for any number of workers  *)
(* and connections, any CLIENT_MAX, any signals and any schedule.          *)
(***************************************************************************)
EXTENDS Dispatcher, FiniteSetTheorems, TLAPS

Entry  == [fd : Fds \cup {Listen, 0}, in : BOOLEAN, rev : {"none", "IN", "HUP"}]
Locals == [fd : Fds \cup {Listen, 0}, slot : Nat, n : Nat,
           back : {"loop", "poll", "next", "clear", "mark"}]
Conn   == [open : BOOLEAN, peer : BOOLEAN, input : {"none", "sent", "read", "dropped"}]

AddPlaces == {"add", "addFd", "addEvents", "addLen", "addStore", "addClear"}
RemovePlaces == {"rm", "rmCopy", "rmZero", "rmLen", "rmStore"}
DispatchPlaces == {"loop", "poll", "scan", "assigned", "clear", "next", "join", "end"}
                    \cup AddPlaces \cup RemovePlaces
WorkerPlaces == {"top", "wait", "read", "serve", "blocked", "mark", "free", "gone"}
                  \cup AddPlaces

Memory == 0..(Slots - 1)

Typed ==
  /\ crew \in Crews /\ maxlen \in MaxLens /\ len \in 0..maxlen
  /\ arr \in [Memory -> Entry]
  /\ clientOf \in [Workers -> Fds \cup {0}] /\ locked \in [Workers -> BOOLEAN]
  /\ at \in [Threads -> DispatchPlaces \cup WorkerPlaces]
  /\ at[Dispatch] \in DispatchPlaces /\ \A w \in Workers : at[w] \in WorkerPlaces
  /\ loc \in [Threads -> Locals] /\ scan \in Nat /\ conn \in [Fds -> Conn]

\* Whom pu_add and pu_remove return to, and what they were given.
Calls ==
  /\ at[Dispatch] \in AddPlaces => loc[Dispatch].back = "clear"
  /\ \A w \in Workers : at[w] \in AddPlaces => loc[w].back = "mark"
  /\ \A t \in Threads : at[t] \in AddPlaces => loc[t].fd # Listen
  /\ at[Dispatch] \in RemovePlaces =>
       \/ loc[Dispatch].back = "poll" /\ loc[Dispatch].fd = Listen
       \/ loc[Dispatch].back \in {"next", "clear"}

\* What the threads know of the length that they loaded.
Lengths ==
  /\ at[Dispatch] = "assigned" => len >= 1 /\ scan \in Memory
  /\ at[Dispatch] = "rm" /\ loc[Dispatch].back # "poll" => len >= 1
  /\ \A t \in Threads : at[t] = "addStore" => loc[t].n < maxlen
  /\ at[Dispatch] = "rmStore" => loc[Dispatch].n <= maxlen

\* Only the first place ever holds the listening socket, and while it does
\* nobody makes the array empty.
ListenFirst ==
  /\ \A i \in Memory \ {0} : arr[i].fd # Listen
  /\ arr[0].fd = Listen =>
       /\ len >= 1
       /\ \A t \in Threads : at[t] = "addStore" => loc[t].n >= 1
       /\ at[Dispatch] \in {"rmCopy", "rmZero"} /\ loc[Dispatch].slot # 0 => len >= 2
       /\ at[Dispatch] = "rmLen" => len >= 2
       /\ at[Dispatch] = "rmStore" => loc[Dispatch].n >= 2

ArrayInv == Typed /\ Calls /\ Lengths /\ ListenFirst /\ NoUnderrun

\* Only the workers spawned ever do something.
Crewed == \A w \in Workers : at[w] # "gone" \/ clientOf[w] # 0 => w \in crew

\* A request taken up has a worker until it is answered.
Taken(c) == \E w \in Workers : at[w] \in {"serve", "blocked"} /\ clientOf[w] = c
Serving == \A c \in Fds : conn[c].input = "read" => Taken(c)

\* All workers are gone at the end.
AllGone == at[Dispatch] = "end" => \A w \in Workers : at[w] = "gone"

\* With one worker, empty says that it has no client, but for a moment.
EmptyTrue ==
  Alone => \A w \in Workers :
             clientOf[w] # 0 /\ at[w] # "free" => ~empty \/ at[Dispatch] = "assigned"

JobsInv == Crewed /\ Serving /\ AllGone /\ EmptyTrue

-----------------------------------------------------------------------------
(* Operators of the model.                                                 *)

\* A thread goes to a place.
LEMMA Gone ==
  ASSUME Typed, NEW t \in Threads, NEW l, Goto(t, l)
  PROVE  at'[t] = l /\ \A u \in Threads \ {t} : at'[u] = at[u]
  BY DEF Typed, Goto

\* The numbers of the model.
LEMMA Numbers ==
  ASSUME Typed
  PROVE  /\ len \in Nat /\ maxlen \in Nat /\ maxlen >= 1 /\ len <= maxlen
         /\ maxlen <= Slots /\ Slots \in Nat /\ scan \in Nat
         /\ 0 \in Memory /\ Listen # 0 /\ Listen \notin Fds
         /\ Dispatch \in Threads /\ Dispatch \notin Workers
         /\ \A t \in Threads : loc[t].n \in Nat /\ loc[t].slot \in Nat
  BY DispatcherAssumption DEF Typed, Memory, Threads, Locals

\* With one worker there is no other.
LEMMA AloneIs ==
  ASSUME Typed, Alone, NEW v \in crew, NEW w \in crew
  PROVE  v = w
<1>1. IsFiniteSet(crew)
  <2>1. crew \in SUBSET Workers
    BY DispatcherAssumption DEF Typed
  <2>2. QED  BY <2>1, FS_Subset, DispatcherAssumption
<1>2. PICK x : crew = {x}
  BY <1>1, FS_Singleton DEF Alone
<1>3. QED  BY <1>2

\* What an action of a thread may do with the variables that are typed.
LEMMA TypedThread ==
  ASSUME Typed, NEW t \in Threads, NEW l, Goto(t, l),
         l \in IF t = Dispatch THEN DispatchPlaces ELSE WorkerPlaces,
         UNCHANGED <<crew, maxlen>>,
         len' \in 0..maxlen, arr' \in [Memory -> Entry],
         clientOf' \in [Workers -> Fds \cup {0}], locked' \in [Workers -> BOOLEAN],
         loc' \in [Threads -> Locals], scan' \in Nat, conn' \in [Fds -> Conn]
  PROVE  Typed'
<1>1. at' = [at EXCEPT ![t] = l] /\ at \in [Threads -> DispatchPlaces \cup WorkerPlaces]
  BY DEF Typed, Goto
<1>2. /\ at' \in [Threads -> DispatchPlaces \cup WorkerPlaces]
      /\ at'[Dispatch] \in DispatchPlaces /\ \A w \in Workers : at'[w] \in WorkerPlaces
  BY <1>1, DispatcherAssumption DEF Typed, Threads
<1>3. QED  BY <1>2 DEF Typed

\* A call of pu_add or pu_remove.
LEMMA Called ==
  ASSUME Typed, NEW t \in Threads, NEW op, NEW fd \in Fds \cup {Listen, 0},
         NEW b \in {"loop", "poll", "next", "clear", "mark"}, Call(t, op, fd, b)
  PROVE  /\ loc' \in [Threads -> Locals] /\ Goto(t, op)
         /\ loc'[t].fd = fd /\ loc'[t].back = b
         /\ \A u \in Threads \ {t} : loc'[u] = loc[u]
<1>1. loc \in [Threads -> Locals] /\ loc' = [loc EXCEPT ![t] = [NoLoc EXCEPT !.fd = fd, !.back = b]]
  BY DEF Typed, Call
<1> DEFINE d == [NoLoc EXCEPT !.fd = fd, !.back = b]
<1>2. NoLoc \in Locals
  BY DEF NoLoc, Locals
<1>3. d \in Locals /\ d.fd = fd /\ d.back = b
  BY <1>2 DEF Locals
<1>4. loc' = [loc EXCEPT ![t] = d]
  BY <1>1
<1> HIDE DEF d
<1>5. QED  BY <1>1, <1>3, <1>4 DEF Call

\* The return of one.
LEMMA Returned ==
  ASSUME Typed, NEW t \in Threads, Return(t)
  PROVE  /\ loc' \in [Threads -> Locals] /\ Goto(t, loc[t].back)
         /\ \A u \in Threads \ {t} : loc'[u] = loc[u]
<1>1. NoLoc \in Locals
  BY DEF NoLoc, Locals
<1>2. QED  BY <1>1 DEF Return, Typed

\* An entry that the dispatcher looks at is one of the array.
LEMMA ScanIn ==
  ASSUME Typed, scan \in Memory
  PROVE  arr[scan] \in Entry /\ arr[scan].fd \in Fds \cup {Listen, 0}
  BY DEF Typed, Entry

-----------------------------------------------------------------------------
(* The array.                                                              *)

\* pu_add stays inside the array and puts no listening socket there.
LEMMA AddArray ==
  ASSUME ArrayInv, NEW t \in Threads, Add(t)
  PROVE  ArrayInv'
<1>0. /\ Typed /\ Calls /\ Lengths /\ ListenFirst /\ NoUnderrun
      /\ UNCHANGED <<crew, maxlen, clientOf, locked, scan, conn>>
  BY DEF ArrayInv, Add, AddTest, AddFd, AddEvents, AddLen, AddStore, AddClear, jobs, flags, net
<1>1. /\ arr \in [Memory -> Entry] /\ loc \in [Threads -> Locals] /\ len \in 0..maxlen
      /\ clientOf \in [Workers -> Fds \cup {0}] /\ locked \in [Workers -> BOOLEAN]
      /\ conn \in [Fds -> Conn] /\ scan \in Nat /\ loc[t] \in Locals
      /\ loc[t].fd \in Fds \cup {Listen, 0} /\ loc[t].n \in Nat
  BY <1>0 DEF Typed, Locals
<1> DEFINE places == IF t = Dispatch THEN DispatchPlaces ELSE WorkerPlaces
<1> USE DEF AddPlaces, RemovePlaces
<1>2. CASE AddTest(t)
  <2>1. PICK l \in places : Goto(t, l) /\ l \in {"addFd", "mark", "clear"} /\ loc' \in [Threads -> Locals]
                            /\ (\A u \in Threads \ {t} : loc'[u] = loc[u])
                            /\ (l = "addFd" => loc' = loc)
    <3>1. CASE Return(t)
      BY <1>0, <1>2, <3>1, Returned DEF AddTest, Calls, Threads, DispatchPlaces, WorkerPlaces
    <3>2. CASE Goto(t, "addFd") /\ loc' = loc
      BY <1>1, <3>2 DEF DispatchPlaces, WorkerPlaces
    <3>3. QED  BY <1>2, <3>1, <3>2 DEF AddTest
  <2>2. arr' = arr /\ len' = len /\ at[t] = "add"
    BY <1>2 DEF AddTest, array
  <2>3. Typed'
    BY <1>0, <1>1, <2>1, <2>2, TypedThread
  <2>4. at'[t] = l /\ \A u \in Threads \ {t} : at'[u] = at[u]
    BY <1>0, <2>1, Gone
  <2>5. Dispatch \in Threads /\ Workers \subseteq Threads /\ Dispatch \notin Workers
    BY DispatcherAssumption DEF Threads
  <2>6. Calls'
    BY <1>0, <2>1, <2>2, <2>4, <2>5 DEF Calls
  <2>7. Lengths' /\ ListenFirst' /\ NoUnderrun'
    BY <1>0, <2>1, <2>2, <2>4, <2>5 DEF Lengths, ListenFirst, NoUnderrun
  <2>8. QED  BY <2>3, <2>6, <2>7 DEF ArrayInv
<1>3. CASE AddFd(t) \/ AddEvents(t)
  <2>1. PICK l \in {"addEvents", "addLen"} : Goto(t, l)
    BY <1>3 DEF AddFd, AddEvents
  <2>2. /\ loc' = loc /\ len' = len /\ len < maxlen /\ len \in Memory
        /\ at[t] \in {"addFd", "addEvents"}
        /\ \/ arr' = [arr EXCEPT ![len].fd = loc[t].fd]
           \/ arr' = [arr EXCEPT ![len].in = TRUE]
    BY <1>0, <1>3, Numbers DEF AddFd, AddEvents, Memory
  <2>3. /\ arr' \in [Memory -> Entry]
        /\ \A i \in Memory : arr'[i].fd \in {arr[i].fd, loc[t].fd}
    <3>1. CASE arr' = [arr EXCEPT ![len].fd = loc[t].fd]
      BY <1>1, <2>2, <3>1 DEF Entry
    <3>2. CASE arr' = [arr EXCEPT ![len].in = TRUE]
      BY <1>1, <2>2, <3>2 DEF Entry
    <3>3. QED  BY <2>2, <3>1, <3>2
  <2>4. Typed'
    BY <1>0, <1>1, <2>1, <2>2, <2>3, TypedThread DEF DispatchPlaces, WorkerPlaces
  <2>5. at'[t] = l /\ \A u \in Threads \ {t} : at'[u] = at[u]
    BY <1>0, <2>1, Gone
  <2>6. loc[t].fd # Listen
    BY <1>0, <2>2 DEF Calls
  <2>7. Calls' /\ Lengths' /\ NoUnderrun'
    BY <1>0, <2>1, <2>2, <2>5, Numbers DEF Calls, Lengths, NoUnderrun, Threads
  <2>8. ListenFirst'
    BY <1>0, <2>1, <2>2, <2>3, <2>5, <2>6, Numbers DEF ListenFirst, Threads
  <2>9. QED  BY <2>4, <2>7, <2>8 DEF ArrayInv
<1>4. CASE AddLen(t)
  <2>1. /\ Goto(t, "addStore") /\ loc' = [loc EXCEPT ![t].n = len] /\ arr' = arr
        /\ len' = len /\ len < maxlen /\ at[t] = "addLen"
    BY <1>4 DEF AddLen, array
  <2>2. /\ loc' \in [Threads -> Locals] /\ loc'[t].n = len
        /\ loc'[t].fd = loc[t].fd /\ loc'[t].back = loc[t].back
        /\ \A u \in Threads \ {t} : loc'[u] = loc[u]
    BY <1>0, <1>1, <2>1, Numbers DEF Locals
  <2>3. Typed'
    BY <1>0, <1>1, <2>1, <2>2, TypedThread DEF DispatchPlaces, WorkerPlaces
  <2>4. at'[t] = "addStore" /\ \A u \in Threads \ {t} : at'[u] = at[u]
    BY <1>0, <2>1, Gone
  <2>5. Calls' /\ NoUnderrun'
    BY <1>0, <2>1, <2>2, <2>4, Numbers DEF Calls, NoUnderrun, Threads
  <2>6. Lengths' /\ ListenFirst'
    BY <1>0, <2>1, <2>2, <2>4, Numbers DEF Lengths, ListenFirst, Threads
  <2>7. QED  BY <2>3, <2>5, <2>6 DEF ArrayInv
<1>5. CASE AddStore(t)
  <2>1. /\ Goto(t, "addClear") /\ loc' = loc /\ arr' = arr
        /\ len' = loc[t].n + 1 /\ at[t] = "addStore"
    BY <1>5 DEF AddStore
  <2>2. len' \in 1..maxlen
    BY <1>0, <1>1, <2>1, Numbers DEF Lengths
  <2>3. Typed'
    BY <1>0, <1>1, <2>1, <2>2, TypedThread, Numbers DEF DispatchPlaces, WorkerPlaces
  <2>4. at'[t] = "addClear" /\ \A u \in Threads \ {t} : at'[u] = at[u]
    BY <1>0, <2>1, Gone
  <2>5. Calls' /\ NoUnderrun' /\ Lengths'
    BY <1>0, <2>1, <2>2, <2>4, Numbers DEF Calls, NoUnderrun, Lengths, Threads
  <2>6. ListenFirst'
    BY <1>0, <2>1, <2>2, <2>4, Numbers DEF ListenFirst, Threads
  <2>7. QED  BY <2>3, <2>5, <2>6 DEF ArrayInv
<1>6. CASE AddClear(t)
  <2>1. /\ Return(t) /\ arr' = [arr EXCEPT ![loc[t].n].rev = "none"] /\ len' = len
        /\ at[t] = "addClear"
    BY <1>6 DEF AddClear
  <2>2. PICK l \in places \cap {"mark", "clear"} : Goto(t, l)
    BY <1>0, <2>1, Returned DEF Calls, Threads, DispatchPlaces, WorkerPlaces
  <2>3. /\ arr' \in [Memory -> Entry] /\ \A i \in Memory : arr'[i].fd = arr[i].fd
    BY <1>1, <2>1 DEF Entry
  <2>4. loc' \in [Threads -> Locals] /\ \A u \in Threads \ {t} : loc'[u] = loc[u]
    BY <1>0, <2>1, Returned
  <2>5. Typed'
    BY <1>0, <1>1, <2>1, <2>2, <2>3, <2>4, TypedThread
  <2>6. at'[t] = l /\ \A u \in Threads \ {t} : at'[u] = at[u]
    BY <1>0, <2>2, Gone
  <2>7. Calls' /\ NoUnderrun' /\ Lengths'
    BY <1>0, <2>1, <2>2, <2>4, <2>6, Numbers DEF Calls, NoUnderrun, Lengths, Threads
  <2>8. ListenFirst'
    BY <1>0, <2>1, <2>2, <2>3, <2>4, <2>6, Numbers DEF ListenFirst, Threads
  <2>9. QED  BY <2>5, <2>7, <2>8 DEF ArrayInv
<1>7. QED  BY <1>2, <1>3, <1>4, <1>5, <1>6 DEF Add

\* pu_remove finds something only in an array that is not empty, and takes it
\* out.
LEMMA RemoveArray ==
  ASSUME ArrayInv, Remove
  PROVE  ArrayInv'
<1> DEFINE t == Dispatch
<1>0. /\ Typed /\ Calls /\ Lengths /\ ListenFirst /\ NoUnderrun
      /\ UNCHANGED <<crew, maxlen, clientOf, locked, scan, conn>>
      /\ Dispatch \in Threads /\ at[t] \in RemovePlaces
  BY DispatcherAssumption
     DEF ArrayInv, Remove, RemoveTest, RemoveCopy, RemoveZero, RemoveLen, RemoveStore, jobs, flags,
         net, Threads, RemovePlaces
<1>1. /\ arr \in [Memory -> Entry] /\ loc \in [Threads -> Locals] /\ len \in 0..maxlen
      /\ clientOf \in [Workers -> Fds \cup {0}] /\ locked \in [Workers -> BOOLEAN]
      /\ conn \in [Fds -> Conn] /\ scan \in Nat /\ loc[t] \in Locals
      /\ loc[t].n \in Nat /\ loc[t].slot \in Nat
  BY <1>0 DEF Typed, Locals
<1>2. \A w \in Workers : w \in Threads /\ w # Dispatch
  BY DispatcherAssumption DEF Threads
<1> USE DEF AddPlaces, RemovePlaces
<1>3. ASSUME Return(t), arr' = arr, len' \in 0..maxlen,
             arr[0].fd = Listen => len' >= 1
      PROVE  ArrayInv'
  <2>1. PICK l \in {"poll", "next", "clear"} : Goto(t, l)
    BY <1>0, <1>3, Returned DEF Calls
  <2>2. loc' \in [Threads -> Locals] /\ \A u \in Threads \ {t} : loc'[u] = loc[u]
    BY <1>0, <1>3, Returned
  <2>3. Typed'
    BY <1>0, <1>1, <1>3, <2>1, <2>2, TypedThread DEF DispatchPlaces
  <2>4. at'[t] = l /\ \A u \in Threads \ {t} : at'[u] = at[u]
    BY <1>0, <2>1, Gone
  <2>5. Calls' /\ Lengths' /\ NoUnderrun'
    BY <1>0, <1>2, <2>1, <2>2, <2>4 DEF Calls, Lengths, NoUnderrun
  <2>6. ListenFirst'
    BY <1>0, <1>2, <1>3, <2>1, <2>2, <2>4 DEF ListenFirst
  <2>7. QED  BY <2>3, <2>5, <2>6 DEF ArrayInv
<1>4. CASE RemoveTest
  <2>1. CASE Return(t)
    BY <1>0, <1>1, <1>3, <1>4, <2>1, Numbers DEF RemoveTest, array, ListenFirst
  <2>2. CASE \E i \in Found(loc[t].fd) : RemoveAt(i)
    <3>1. PICK i \in Found(loc[t].fd) : RemoveAt(i)
      BY <2>2
    <3>2. i \in 0..(IF len = 0 THEN 0 ELSE len - 1) /\ arr[i].fd = loc[t].fd
      BY DEF Found
    <3>3. /\ at[t] = "rm" /\ arr' = arr /\ len' = len /\ i \in Nat
          /\ loc' = [loc EXCEPT ![t].slot = i] /\ Goto(t, "rmCopy")
      BY <1>1, <1>4, <3>1, <3>2, Numbers, <1>0 DEF RemoveTest, RemoveAt, array
    <3>4. len >= 1
      <4>1. CASE loc[t].back = "poll"
        <5>1. loc[t].fd = Listen
          BY <1>0, <4>1 DEF Calls
        <5>2. len = 0 => arr[0].fd = Listen
          BY <3>2, <5>1
        <5>3. QED  BY <1>0, <5>2, Numbers DEF ListenFirst
      <4>2. CASE loc[t].back # "poll"
        BY <1>0, <3>3, <4>2 DEF Lengths
      <4>3. QED  BY <4>1, <4>2
    <3>5. i # 0 => len >= 2
      BY <1>0, <3>2, <3>4, Numbers
    <3>6. /\ loc' \in [Threads -> Locals] /\ loc'[t].slot = i
          /\ loc'[t].fd = loc[t].fd /\ loc'[t].back = loc[t].back
          /\ \A u \in Threads \ {t} : loc'[u] = loc[u]
      BY <1>0, <1>1, <3>3 DEF Locals
    <3>7. Typed'
      BY <1>0, <1>1, <3>3, <3>6, TypedThread DEF DispatchPlaces
    <3>8. at'[t] = "rmCopy" /\ \A u \in Threads \ {t} : at'[u] = at[u]
      BY <1>0, <3>3, Gone
    <3>9. Calls' /\ Lengths' /\ NoUnderrun'
      BY <1>0, <1>2, <3>3, <3>4, <3>6, <3>8 DEF Calls, Lengths, NoUnderrun
    <3>10. ListenFirst'
      BY <1>0, <1>2, <3>3, <3>4, <3>5, <3>6, <3>8 DEF ListenFirst
    <3>11. QED  BY <3>7, <3>9, <3>10 DEF ArrayInv
  <2>3. QED  BY <1>4, <2>1, <2>2 DEF RemoveTest
<1>5. CASE RemoveCopy
  <2>1. /\ at[t] = "rmCopy" /\ len' = len /\ loc' = loc /\ len >= 1
        /\ arr' = [arr EXCEPT ![loc[t].slot] = arr[len - 1]] /\ Goto(t, "rmZero")
    BY <1>0, <1>5 DEF RemoveCopy, NoUnderrun
  <2>2. len - 1 \in Memory
    BY <1>0, <2>1, Numbers DEF Memory
  <2>3. arr' \in [Memory -> Entry]
    BY <1>1, <2>1, <2>2
  <2>4. Typed'
    BY <1>0, <1>1, <2>1, <2>3, TypedThread DEF DispatchPlaces
  <2>5. at'[t] = "rmZero" /\ \A u \in Threads \ {t} : at'[u] = at[u]
    BY <1>0, <2>1, Gone
  <2>6. Calls' /\ Lengths' /\ NoUnderrun'
    BY <1>0, <1>2, <2>1, <2>5 DEF Calls, Lengths, NoUnderrun
  <2>7. \A i \in Memory \ {0} : arr'[i].fd # Listen
    <3> SUFFICES ASSUME NEW i \in Memory \ {0} PROVE arr'[i].fd # Listen
      OBVIOUS
    <3>1. CASE i = loc[t].slot
      <4>1. arr'[i] = arr[len - 1]
        BY <1>1, <2>1, <3>1
      <4>2. len - 1 = 0 => arr[0].fd # Listen
        BY <1>0, <2>1, <3>1, Numbers DEF ListenFirst
      <4>3. QED  BY <1>0, <2>2, <4>1, <4>2 DEF ListenFirst
    <3>2. CASE i # loc[t].slot
      BY <1>0, <1>1, <2>1, <3>2 DEF ListenFirst
    <3>3. QED  BY <3>1, <3>2
  <2>8. arr'[0].fd = Listen => arr[0].fd = Listen
    <3>1. CASE loc[t].slot = 0 /\ len = 1
      BY <1>0, <1>1, <2>1, <3>1, Numbers
    <3>2. CASE loc[t].slot = 0 /\ len # 1
      <4>1. len - 1 \in Memory \ {0}
        BY <1>0, <2>2, <3>2, Numbers
      <4>2. arr'[0] = arr[len - 1]
        BY <1>0, <1>1, <2>1, <3>2, Numbers
      <4>3. QED  BY <1>0, <4>1, <4>2 DEF ListenFirst
    <3>3. CASE loc[t].slot # 0
      BY <1>0, <1>1, <2>1, <3>3, Numbers
    <3>4. QED  BY <3>1, <3>2, <3>3
  <2>9. ListenFirst'
    BY <1>0, <1>2, <2>1, <2>5, <2>7, <2>8 DEF ListenFirst
  <2>10. QED  BY <2>4, <2>6, <2>9 DEF ArrayInv
<1>6. CASE RemoveZero
  <2>1. /\ at[t] = "rmZero" /\ len' = len /\ loc' = loc /\ len >= 1
        /\ arr' = [arr EXCEPT ![len - 1] = Blank] /\ Goto(t, "rmLen")
    BY <1>0, <1>6 DEF RemoveZero, NoUnderrun
  <2>2. len - 1 \in Memory /\ Blank \in Entry /\ Blank.fd # Listen
    BY <1>0, <2>1, Numbers DEF Memory, Blank, Entry
  <2>3. arr' \in [Memory -> Entry]
    BY <1>1, <2>1, <2>2
  <2>4. Typed'
    BY <1>0, <1>1, <2>1, <2>3, TypedThread DEF DispatchPlaces
  <2>5. at'[t] = "rmLen" /\ \A u \in Threads \ {t} : at'[u] = at[u]
    BY <1>0, <2>1, Gone
  <2>6. Calls' /\ Lengths' /\ NoUnderrun'
    BY <1>0, <1>2, <2>1, <2>5 DEF Calls, Lengths, NoUnderrun
  <2>7. \A i \in Memory : arr'[i].fd = Listen => arr[i].fd = Listen
    BY <1>1, <2>1, <2>2
  <2>8. arr'[0].fd = Listen => len >= 2
    <3>1. CASE len = 1
      BY <1>0, <1>1, <2>1, <2>2, <3>1, Numbers
    <3>2. CASE len # 1
      BY <1>0, <2>1, <3>2, Numbers
    <3>3. QED  BY <3>1, <3>2
  <2>9. ListenFirst'
    BY <1>0, <1>2, <2>1, <2>5, <2>7, <2>8, Numbers DEF ListenFirst
  <2>10. QED  BY <2>4, <2>6, <2>9 DEF ArrayInv
<1>7. CASE RemoveLen
  <2>1. /\ at[t] = "rmLen" /\ len' = len /\ arr' = arr /\ len >= 1
        /\ loc' = [loc EXCEPT ![t].n = len] /\ Goto(t, "rmStore")
    BY <1>0, <1>7 DEF RemoveLen, NoUnderrun, array
  <2>2. /\ loc' \in [Threads -> Locals] /\ loc'[t].n = len
        /\ loc'[t].fd = loc[t].fd /\ loc'[t].back = loc[t].back
        /\ \A u \in Threads \ {t} : loc'[u] = loc[u]
    BY <1>0, <1>1, <2>1, Numbers DEF Locals
  <2>3. Typed'
    BY <1>0, <1>1, <2>1, <2>2, TypedThread DEF DispatchPlaces
  <2>4. at'[t] = "rmStore" /\ \A u \in Threads \ {t} : at'[u] = at[u]
    BY <1>0, <2>1, Gone
  <2>5. Calls' /\ Lengths' /\ NoUnderrun'
    BY <1>0, <1>2, <2>1, <2>2, <2>4, Numbers DEF Calls, Lengths, NoUnderrun
  <2>6. ListenFirst'
    BY <1>0, <1>2, <2>1, <2>2, <2>4 DEF ListenFirst
  <2>7. QED  BY <2>3, <2>5, <2>6 DEF ArrayInv
<1>8. CASE RemoveStore
  <2>1. /\ at[t] = "rmStore" /\ arr' = arr /\ Return(t) /\ len' = loc[t].n - 1
    BY <1>8 DEF RemoveStore
  <2>2. len' \in 0..maxlen /\ (arr[0].fd = Listen => len' >= 1)
    BY <1>0, <1>1, <2>1, Numbers DEF Lengths, NoUnderrun, ListenFirst
  <2>3. QED  BY <1>3, <2>1, <2>2
<1>9. QED  BY <1>4, <1>5, <1>6, <1>7, <1>8 DEF Remove

\* The rest of the dispatcher calls them as they expect.
LEMMA ScanArray ==
  ASSUME ArrayInv, Dispatching, ~Add(Dispatch), ~Remove
  PROVE  ArrayInv'
<1> DEFINE t == Dispatch
<1>0. /\ Typed /\ Calls /\ Lengths /\ ListenFirst /\ NoUnderrun
      /\ UNCHANGED <<crew, maxlen, len>> /\ Dispatch \in Threads
      /\ \A w \in Workers : w \in Threads /\ w # Dispatch
  BY DispatcherAssumption
     DEF ArrayInv, Dispatching, Loop, Poll, ScanEnd, ScanSkip, ScanHangUp, ScanAccept, Assign,
         Assigned, ScanNext, Join, array, flags, net, Threads
<1>1. /\ arr \in [Memory -> Entry] /\ loc \in [Threads -> Locals] /\ len \in 0..maxlen
      /\ clientOf \in [Workers -> Fds \cup {0}] /\ locked \in [Workers -> BOOLEAN]
      /\ conn \in [Fds -> Conn] /\ scan \in Nat
  BY <1>0 DEF Typed
<1> USE DEF AddPlaces, RemovePlaces, DispatchPlaces
\* What is left to show of an action that goes to a place of the loop.
<1>2. ASSUME NEW l \in {"loop", "poll", "scan", "assigned", "clear", "next", "join", "end"},
             Goto(t, l), loc' = loc, arr' \in [Memory -> Entry],
             \A i \in Memory : arr'[i].fd = arr[i].fd, scan' \in Nat,
             clientOf' \in [Workers -> Fds \cup {0}], locked' = locked, conn' = conn,
             l = "assigned" => len >= 1 /\ scan' \in Memory
      PROVE  ArrayInv'
  <2>1. Typed'
    BY <1>0, <1>1, <1>2, TypedThread
  <2>2. at'[t] = l /\ \A u \in Threads \ {t} : at'[u] = at[u]
    BY <1>0, <1>2, Gone
  <2>3. Calls' /\ Lengths' /\ NoUnderrun'
    BY <1>0, <1>2, <2>2 DEF Calls, Lengths, NoUnderrun
  <2>4. ListenFirst'
    BY <1>0, <1>2, <2>2, Numbers DEF ListenFirst
  <2>5. QED  BY <2>1, <2>3, <2>4 DEF ArrayInv
\* The same of one that calls.
<1>3. ASSUME NEW op \in {"add", "rm"}, NEW fd \in Fds \cup {Listen, 0},
             NEW b \in {"poll", "next", "clear"}, Call(t, op, fd, b),
             op = "add" => b = "clear" /\ fd # Listen,
             op = "rm" => (b = "poll" /\ fd = Listen) \/ (b # "poll" /\ len >= 1),
             UNCHANGED <<arr, scan, clientOf, locked>>, conn' \in [Fds -> Conn]
      PROVE  ArrayInv'
  <2>1. /\ loc' \in [Threads -> Locals] /\ Goto(t, op) /\ loc'[t].fd = fd /\ loc'[t].back = b
        /\ \A u \in Threads \ {t} : loc'[u] = loc[u]
    BY <1>0, <1>3, Called
  <2>2. Typed'
    BY <1>0, <1>1, <1>3, <2>1, TypedThread
  <2>3. at'[t] = op /\ \A u \in Threads \ {t} : at'[u] = at[u]
    BY <1>0, <2>1, Gone
  <2>4. Calls' /\ Lengths' /\ NoUnderrun'
    BY <1>0, <1>3, <2>1, <2>3 DEF Calls, Lengths, NoUnderrun
  <2>5. ListenFirst'
    BY <1>0, <1>3, <2>1, <2>3 DEF ListenFirst
  <2>6. QED  BY <2>2, <2>4, <2>5 DEF ArrayInv
<1>4. scan < len => scan \in Memory /\ len >= 1 /\ arr[scan].fd \in Fds \cup {Listen, 0}
  BY <1>0, Numbers, ScanIn DEF Memory
<1>5. CASE ScanEnd \/ Join
  BY <1>1, <1>2, <1>5 DEF ScanEnd, Join, array, jobs, net
<1>6. CASE ScanSkip
  <2>1. /\ scan' \in Nat /\ at[t] = "scan"
        /\ UNCHANGED <<crew, maxlen, len, arr, clientOf, locked, at, loc, conn>>
    BY <1>1, <1>6 DEF ScanSkip, array, jobs, flags, net
  <2>2. Typed'
    BY <1>0, <2>1 DEF Typed
  <2>3. Calls' /\ Lengths' /\ NoUnderrun' /\ ListenFirst'
    BY <1>0, <2>1 DEF Calls, Lengths, NoUnderrun, ListenFirst
  <2>4. QED  BY <2>2, <2>3 DEF ArrayInv
<1>7. CASE Loop
  <2>1. UNCHANGED <<arr, scan, clientOf, locked, conn>>
    BY <1>7 DEF Loop, array, jobs, net
  <2>2. CASE hu /\ Call(t, "rm", Listen, "poll")
    BY <1>1, <1>3, <2>1, <2>2
  <2>3. CASE loc' = loc /\ \E l \in {"join", "poll"} : Goto(t, l)
    BY <1>1, <1>2, <2>1, <2>3
  <2>4. QED  BY <1>7, <2>2, <2>3 DEF Loop
<1>8. CASE Poll
  <2>1. \A s, stdin : Ready(s, stdin) \in {"none", "IN", "HUP"}
    BY DEF Ready
  <2>2. PICK stdin \in BOOLEAN :
          arr' = [i \in Memory |-> IF i < len THEN [arr[i] EXCEPT !.rev = Ready(arr[i], stdin)]
                                   ELSE arr[i]]
    BY <1>1, <1>8 DEF Poll
  <2>3. \A i \in Memory : [arr[i] EXCEPT !.rev = Ready(arr[i], stdin)] \in Entry
    BY <1>1, <2>1 DEF Entry
  <2>4. arr' \in [Memory -> Entry] /\ \A i \in Memory : arr'[i].fd = arr[i].fd
    BY <1>1, <2>2, <2>3 DEF Entry
  <2>5. PICK l \in {"loop", "scan"} : Goto(t, l)
    BY <1>8 DEF Poll
  <2>6. QED  BY <1>1, <1>2, <1>8, <2>4, <2>5 DEF Poll, jobs, net
<1>9. CASE ScanHangUp
  <2>1. [conn EXCEPT ![arr[scan].fd] = Closed] \in [Fds -> Conn]
    BY <1>1 DEF Closed, Conn
  <2>2. QED  BY <1>1, <1>3, <1>4, <1>9, <2>1 DEF ScanHangUp, array, jobs
<1>10. CASE ScanAccept
  <2>1. UNCHANGED <<arr, clientOf, locked, scan>>
    BY <1>10 DEF ScanAccept, array, jobs
  <2>2. CASE Goto(t, "clear") /\ UNCHANGED <<loc, conn>>
    BY <1>1, <1>2, <2>1, <2>2
  <2>3. ASSUME NEW c \in Fds, Call(t, "add", c, "clear"),
               conn' = [conn EXCEPT ![c] = [open |-> TRUE, peer |-> TRUE, input |-> "none"]]
        PROVE  ArrayInv'
    <3>1. conn' \in [Fds -> Conn]
      BY <1>1, <2>3 DEF Conn
    <3>2. c # Listen
      BY DispatcherAssumption
    <3>3. QED  BY <1>3, <2>1, <2>3, <3>1, <3>2
  <2>4. QED  BY <1>10, <2>2, <2>3 DEF ScanAccept
<1>11. CASE Assign
  <2>1. /\ scan < len /\ arr[scan].fd # Listen /\ Goto(t, "assigned")
        /\ UNCHANGED <<arr, locked, loc, scan, conn>>
    BY <1>11 DEF Assign, array, net
  <2>2. clientOf' \in [Workers -> Fds \cup {0}]
    <3>1. arr[scan].fd \in Fds \cup {0}
      BY <1>4, <2>1
    <3>2. PICK w \in crew : clientOf' = [clientOf EXCEPT ![w] = arr[scan].fd]
      BY <1>11 DEF Assign
    <3>3. QED  BY <1>1, <3>1, <3>2
  <2>3. QED  BY <1>1, <1>2, <1>4, <2>1, <2>2
<1>12. CASE Assigned
  <2>1. len >= 1 /\ scan \in Memory /\ arr[scan].fd \in Fds \cup {Listen, 0}
    BY <1>0, <1>12, ScanIn DEF Assigned, Lengths
  <2>2. QED  BY <1>1, <1>3, <1>12, <2>1 DEF Assigned, jobs, net
<1>13. CASE ScanNext
  <2>1. arr' \in [Memory -> Entry] /\ \A i \in Memory : arr'[i].fd = arr[i].fd
    <3>1. arr' \in {arr, [arr EXCEPT ![scan].rev = "none"]}
      BY <1>13 DEF ScanNext
    <3>2. CASE arr' = arr
      BY <1>1, <3>2
    <3>3. CASE arr' = [arr EXCEPT ![scan].rev = "none"]
      BY <1>1, <3>3 DEF Entry
    <3>4. QED  BY <3>1, <3>2, <3>3
  <2>2. scan' \in Nat
    BY <1>1, <1>13 DEF ScanNext
  <2>3. QED  BY <1>1, <1>2, <1>13, <2>1, <2>2 DEF ScanNext, jobs, net
<1>14. QED
  BY <1>5, <1>6, <1>7, <1>8, <1>9, <1>10, <1>11, <1>12, <1>13 DEF Dispatching

\* The rest of a worker calls pu_add with its client.
LEMMA WorkArray ==
  ASSUME ArrayInv, NEW w \in Workers, Working(w), ~Add(w)
  PROVE  ArrayInv'
<1>0. /\ Typed /\ Calls /\ Lengths /\ ListenFirst /\ NoUnderrun
      /\ UNCHANGED <<crew, maxlen, len, arr, scan>> /\ w \in Threads /\ w # Dispatch
      /\ Dispatch \in Threads /\ Workers \subseteq Threads /\ Dispatch \notin Workers
  BY DispatcherAssumption
     DEF ArrayInv, Working, Top, Wait, Read, Serve, Block, Mark, Free, array, flags, net, Threads
<1>1. /\ arr \in [Memory -> Entry] /\ loc \in [Threads -> Locals] /\ len \in 0..maxlen
      /\ clientOf \in [Workers -> Fds \cup {0}] /\ locked \in [Workers -> BOOLEAN]
      /\ conn \in [Fds -> Conn] /\ scan \in Nat
  BY <1>0 DEF Typed
<1> USE DEF AddPlaces, RemovePlaces, WorkerPlaces
<1>2. ASSUME NEW l \in {"top", "wait", "read", "serve", "blocked", "free", "gone"},
             Goto(w, l), loc' = loc, clientOf' \in [Workers -> Fds \cup {0}],
             locked' \in [Workers -> BOOLEAN], conn' \in [Fds -> Conn]
      PROVE  ArrayInv'
  <2>1. Typed'
    BY <1>0, <1>1, <1>2, TypedThread
  <2>2. at'[w] = l /\ \A u \in Threads \ {w} : at'[u] = at[u]
    BY <1>0, <1>2, Gone
  <2>3. Calls' /\ Lengths' /\ NoUnderrun'
    BY <1>0, <1>2, <2>2 DEF Calls, Lengths, NoUnderrun
  <2>4. ListenFirst'
    BY <1>0, <1>2, <2>2 DEF ListenFirst
  <2>5. QED  BY <2>1, <2>3, <2>4 DEF ArrayInv
<1>3. CASE Top(w) \/ Block(w) \/ Mark(w)
  <2>1. PICK l \in {"gone", "wait", "blocked", "free"} : Goto(w, l)
    BY <1>3 DEF Top, Block, Mark
  <2>2. UNCHANGED <<loc, clientOf, locked, conn>>
    BY <1>3 DEF Top, Block, Mark, jobs, net
  <2>3. QED  BY <1>1, <1>2, <2>1, <2>2
<1>4. CASE Wait(w)
  <2>1. PICK l \in {"read", "gone"} : Goto(w, l)
    BY <1>4 DEF Wait
  <2>2. UNCHANGED <<loc, clientOf, conn>> /\ locked' \in {locked, [locked EXCEPT ![w] = TRUE]}
    BY <1>4 DEF Wait, net
  <2>3. locked' \in [Workers -> BOOLEAN]
    BY <1>1, <2>2
  <2>4. QED  BY <1>1, <1>2, <2>1, <2>2, <2>3
<1>5. CASE Read(w)
  <2>1. PICK l \in {"serve", "free"} : Goto(w, l)
    BY <1>5 DEF Read
  <2>2. UNCHANGED <<loc, clientOf, locked>>
    BY <1>5 DEF Read, jobs
  <2>3. conn' \in [Fds -> Conn]
    <3>1. \A x \in {"read", "dropped"} : [conn EXCEPT ![clientOf[w]].input = x] \in [Fds -> Conn]
      BY <1>1 DEF Conn
    <3>2. QED  BY <1>1, <1>5, <3>1 DEF Read
  <2>4. QED  BY <1>1, <1>2, <2>1, <2>2, <2>3
<1>6. CASE Serve(w)
  <2>1. clientOf[w] \in Fds \cup {Listen, 0} /\ clientOf[w] # Listen
    BY <1>1, DispatcherAssumption
  <2>2. Call(w, "add", clientOf[w], "mark") /\ UNCHANGED <<clientOf, locked>>
    BY <1>6 DEF Serve, jobs
  <2>3. /\ loc' \in [Threads -> Locals] /\ Goto(w, "add") /\ loc'[w].fd = clientOf[w]
        /\ loc'[w].back = "mark" /\ \A u \in Threads \ {w} : loc'[u] = loc[u]
    BY <1>0, <2>1, <2>2, Called
  <2>4. conn' \in [Fds -> Conn]
    <3>1. [conn EXCEPT ![clientOf[w]].input = "none"] \in [Fds -> Conn]
      BY <1>1 DEF Conn
    <3>2. [conn EXCEPT ![clientOf[w]].input = conn[clientOf[w]].input] \in [Fds -> Conn]
      BY <1>1 DEF Conn
    <3>3. QED  BY <1>6, <3>1, <3>2 DEF Serve
  <2>5. Typed'
    BY <1>0, <1>1, <2>2, <2>3, <2>4, TypedThread
  <2>6. at'[w] = "add" /\ \A u \in Threads \ {w} : at'[u] = at[u]
    BY <1>0, <2>3, Gone
  <2>7. Calls' /\ Lengths' /\ NoUnderrun'
    BY <1>0, <2>1, <2>3, <2>6 DEF Calls, Lengths, NoUnderrun
  <2>8. ListenFirst'
    BY <1>0, <2>3, <2>6 DEF ListenFirst
  <2>9. QED  BY <2>5, <2>7, <2>8 DEF ArrayInv
<1>7. CASE Free(w)
  <2>1. /\ [clientOf EXCEPT ![w] = 0] \in [Workers -> Fds \cup {0}]
        /\ [locked EXCEPT ![w] = FALSE] \in [Workers -> BOOLEAN]
    BY <1>1
  <2>2. QED  BY <1>1, <1>2, <1>7, <2>1 DEF Free, net
<1>8. QED  BY <1>3, <1>4, <1>5, <1>6, <1>7 DEF Working

\* Clients and signals leave the threads and the array alone.
LEMMA OutsideArray ==
  ASSUME ArrayInv, Outside
  PROVE  ArrayInv'
<1>1. /\ UNCHANGED <<crew, maxlen, len, arr, clientOf, locked, at, loc, scan>>
      /\ conn \in [Fds -> Conn]
  BY DEF Outside, Connect, Interrupt, HangUp, SendRequest, Disconnect, array, jobs, flags, ArrayInv, Typed
<1>2. conn' \in [Fds -> Conn]
  <2>1. \A c \in Fds : /\ [conn EXCEPT ![c].input = "sent"] \in [Fds -> Conn]
                       /\ [conn EXCEPT ![c].peer = FALSE] \in [Fds -> Conn]
    BY <1>1 DEF Conn
  <2>2. QED  BY <1>1, <2>1 DEF Outside, Connect, Interrupt, HangUp, SendRequest, Disconnect, net
<1>3. Typed'
  BY <1>1, <1>2 DEF ArrayInv, Typed
<1>4. Calls' /\ Lengths' /\ ListenFirst' /\ NoUnderrun'
  BY <1>1 DEF ArrayInv, Calls, Lengths, ListenFirst, NoUnderrun
<1>5. QED  BY <1>3, <1>4 DEF ArrayInv

LEMMA InitArray == Init => ArrayInv
<1> SUFFICES ASSUME Init PROVE ArrayInv
  OBVIOUS
<1>1. /\ maxlen \in Nat /\ maxlen >= 1 /\ maxlen <= Slots /\ Slots \in Nat /\ Listen \in Nat
      /\ Listen # 0 /\ Dispatch \notin Workers
  BY DispatcherAssumption DEF Init
<1>2. arr \in [Memory -> Entry] /\ \A i \in Memory \ {0} : arr[i].fd # Listen
  BY <1>1 DEF Init, Memory, Entry, Blank
<1>3. loc \in [Threads -> Locals] /\ conn \in [Fds -> Conn]
  BY DEF Init, NoLoc, Locals, Closed, Conn
<1>4. /\ at \in [Threads -> {"loop", "top", "gone"}] /\ at[Dispatch] = "loop"
      /\ \A w \in Workers : at[w] \in {"top", "gone"}
  BY <1>1 DEF Init, Threads
<1>5. Typed
  <2>1. at \in [Threads -> DispatchPlaces \cup WorkerPlaces]
    BY <1>4 DEF DispatchPlaces, WorkerPlaces
  <2>2. /\ crew \in Crews /\ maxlen \in MaxLens /\ len = 1 /\ scan = 0
        /\ clientOf = [w \in Workers |-> 0] /\ locked = [w \in Workers |-> FALSE]
    BY DEF Init
  <2>3. len \in 0..maxlen /\ scan \in Nat
    BY <1>1, <2>2
  <2>4. clientOf \in [Workers -> Fds \cup {0}] /\ locked \in [Workers -> BOOLEAN]
    BY <2>2
  <2>5. at[Dispatch] \in DispatchPlaces /\ \A w \in Workers : at[w] \in WorkerPlaces
    BY <1>4 DEF DispatchPlaces, WorkerPlaces
  <2>6. QED  BY <1>2, <1>3, <2>1, <2>2, <2>3, <2>4, <2>5 DEF Typed
<1>6. Calls /\ Lengths /\ NoUnderrun
  <2>1. \A t \in Threads : at[t] \notin AddPlaces \cup RemovePlaces \cup {"assigned"}
    BY <1>4 DEF AddPlaces, RemovePlaces
  <2>2. Dispatch \in Threads /\ Workers \subseteq Threads
    BY DEF Threads
  <2>3. QED  BY <2>1, <2>2 DEF Calls, Lengths, NoUnderrun, AddPlaces, RemovePlaces
<1>7. ListenFirst
  <2>1. len = 1
    BY DEF Init
  <2>2. QED  BY <1>2, <1>4, <2>1 DEF ListenFirst
<1>8. QED  BY <1>5, <1>6, <1>7 DEF ArrayInv

LEMMA NextArray == ArrayInv /\ [Next]_vars => ArrayInv'
<1> SUFFICES ASSUME ArrayInv, [Next]_vars PROVE ArrayInv'
  OBVIOUS
<1>1. CASE Dispatching
  <2>1. Dispatch \in Threads
    BY DEF Threads
  <2>2. QED  BY <1>1, <2>1, AddArray, RemoveArray, ScanArray
<1>2. CASE \E w \in Workers : Working(w)
  BY <1>2, AddArray, WorkArray DEF Threads
<1>3. CASE Outside
  BY <1>3, OutsideArray
<1>4. CASE UNCHANGED vars
  BY <1>4 DEF vars, ArrayInv, Typed, Calls, Lengths, ListenFirst, NoUnderrun
<1>5. QED  BY <1>1, <1>2, <1>3, <1>4 DEF Next

LEMMA SpecArray == Spec => []ArrayInv
  BY InitArray, NextArray, PTL DEF Spec

\* pu_remove never writes before the array, nor makes its length negative,
\* however the workers' pu_add overtakes it (poll_utils.c:57-87).
THEOREM NoUnderrunCorrect == Spec => []NoUnderrun
<1>1. ArrayInv => NoUnderrun
  BY DEF ArrayInv
<1>2. QED  BY <1>1, SpecArray, PTL

-----------------------------------------------------------------------------
(* The workers and their clients.                                          *)

\* The dispatcher moves no worker.
LEMMA DispatchJobs ==
  ASSUME ArrayInv, JobsInv, Dispatching
  PROVE  JobsInv'
<1>0. /\ Typed /\ Crewed /\ Serving /\ AllGone /\ EmptyTrue /\ Dispatch \in Threads
      /\ Dispatch \notin Workers /\ Workers \subseteq Threads
      /\ UNCHANGED crew
  BY DispatcherAssumption
     DEF ArrayInv, JobsInv, Threads, Dispatching, Loop, Poll, ScanEnd, ScanSkip, ScanHangUp,
         ScanAccept, Assign, Assigned, ScanNext, Join, Add, AddTest, AddFd, AddEvents, AddLen,
         AddStore, AddClear, Remove, RemoveTest, RemoveCopy, RemoveZero, RemoveLen, RemoveStore,
         flags
<1>1. at' = at \/ \E l : Goto(Dispatch, l)
  BY DEF Dispatching, Loop, Poll, ScanEnd, ScanSkip, ScanHangUp,
         ScanAccept, Assign, Assigned, ScanNext, Join, Add, AddTest, AddFd, AddEvents, AddLen,
         AddStore, AddClear, Remove, RemoveTest, RemoveCopy, RemoveZero, RemoveLen, RemoveStore,
         Call, Return, RemoveAt
<1>2. \A w \in Workers : at'[w] = at[w]
  BY <1>0, <1>1, Gone
<1>3. \/ clientOf' = clientOf
      \/ /\ at'[Dispatch] = "assigned"
         /\ \E w \in crew : /\ clientOf[w] = 0 /\ \A v \in Workers \ {w} : clientOf'[v] = clientOf[v]
  <2>1. CASE Assign
    <3>1. at'[Dispatch] = "assigned"
      BY <1>0, <2>1, Gone DEF Assign
    <3>2. PICK w \in crew : ~Busy(w) /\ clientOf' = [clientOf EXCEPT ![w] = arr[scan].fd]
      BY <2>1 DEF Assign
    <3>3. clientOf \in [Workers -> Fds \cup {0}]
      BY <1>0 DEF Typed
    <3>4. clientOf[w] = 0 /\ \A v \in Workers \ {w} : clientOf'[v] = clientOf[v]
      BY <3>2, <3>3 DEF Busy
    <3>5. QED  BY <3>1, <3>4
  <2>2. CASE ~Assign
    BY <2>2 DEF Dispatching, Loop, Poll, ScanEnd, ScanSkip, ScanHangUp, ScanAccept,
         Assigned, ScanNext, Join, Add, AddTest, AddFd, AddEvents, AddLen,
         AddStore, AddClear, Remove, RemoveTest, RemoveCopy, RemoveZero, RemoveLen, RemoveStore, jobs
  <2>3. QED  BY <2>1, <2>2
<1>4. Crewed'
  BY <1>0, <1>2, <1>3 DEF Crewed
<1>5. Serving'
  <2>1. \A c \in Fds : Taken(c) => Taken(c)'
    <3> SUFFICES ASSUME NEW c \in Fds, Taken(c) PROVE Taken(c)'
      OBVIOUS
    <3>1. PICK w \in Workers : at[w] \in {"serve", "blocked"} /\ clientOf[w] = c
      BY DEF Taken
    <3>2. clientOf'[w] = c
      BY <1>3, <3>1, DispatcherAssumption
    <3>3. QED  BY <1>2, <3>1, <3>2 DEF Taken
  <2>2. \A c \in Fds : conn'[c].input = "read" => conn[c].input = "read"
    <3>1. conn \in [Fds -> Conn]
      BY <1>0 DEF Typed
    <3>2. CASE ScanHangUp
      BY <3>1, <3>2 DEF ScanHangUp, Closed
    <3>3. CASE ScanAccept
      BY <3>1, <3>3 DEF ScanAccept
    <3>4. CASE ~ScanHangUp /\ ~ScanAccept
      <4>1. conn' = conn
        BY <3>4 DEF Dispatching, Loop, Poll, ScanEnd, ScanSkip, Assign, Assigned, ScanNext, Join,
             Add, AddTest, AddFd, AddEvents, AddLen, AddStore, AddClear, Remove, RemoveTest,
             RemoveCopy, RemoveZero, RemoveLen, RemoveStore, net
      <4>2. QED  BY <4>1
    <3>5. QED  BY <3>2, <3>3, <3>4
  <2>3. QED  BY <1>0, <2>1, <2>2 DEF Serving
<1>6. AllGone'
  <2>1. at'[Dispatch] = "end" => at[Dispatch] = "end" \/ Join
    <3>1. CASE Add(Dispatch)
      <4>1. \E l \in {"addFd", "addEvents", "addLen", "addStore", "addClear", "clear"} :
              Goto(Dispatch, l)
        BY <3>1 DEF ArrayInv, Calls, AddPlaces, Add, AddTest, AddFd, AddEvents, AddLen, AddStore,
             AddClear, Return
      <4>2. QED  BY <1>0, <4>1, Gone
    <3>2. CASE Remove
      <4>1. \E l \in {"rmCopy", "rmZero", "rmLen", "rmStore", "poll", "next", "clear"} :
              Goto(Dispatch, l)
        BY <3>2 DEF ArrayInv, Calls, RemovePlaces, Remove, RemoveTest, RemoveCopy, RemoveZero,
             RemoveLen, RemoveStore, Return, RemoveAt
      <4>2. QED  BY <1>0, <4>1, Gone
    <3>3. CASE ~Add(Dispatch) /\ ~Remove /\ ~Join
      <4>1. \/ at' = at
            \/ \E l \in {"loop", "poll", "scan", "assigned", "clear", "rm", "add", "join"} :
                 Goto(Dispatch, l)
        BY <3>3 DEF Dispatching, Loop, Poll, ScanEnd, ScanSkip, ScanHangUp, ScanAccept, Assign,
             Assigned, ScanNext, Call
      <4>2. QED  BY <1>0, <4>1, Gone
    <3>4. QED  BY <3>1, <3>2, <3>3
  <2>2. QED  BY <1>0, <1>2, <2>1 DEF AllGone, Join
<1>7. EmptyTrue'
  <2> SUFFICES ASSUME Alone', NEW w \in Workers, clientOf'[w] # 0, at'[w] # "free"
               PROVE  ~empty' \/ at'[Dispatch] = "assigned"
    BY DEF EmptyTrue
  <2>1. Alone /\ at[w] # "free"
    BY <1>0, <1>2 DEF Alone
  <2>2. CASE clientOf' = clientOf
    <3>1. ~empty \/ at[Dispatch] = "assigned"
      BY <1>0, <2>1, <2>2 DEF EmptyTrue
    <3>2. CASE at[Dispatch] = "assigned"
      <4>1. Assigned
        BY <3>2 DEF Dispatching, Loop, Poll, ScanEnd, ScanSkip, ScanHangUp, ScanAccept, Assign,
             ScanNext, Join, Add, AddTest, AddFd, AddEvents, AddLen, AddStore, AddClear, Remove,
             RemoveTest, RemoveCopy, RemoveZero, RemoveLen, RemoveStore
      <4>2. QED  BY <4>1 DEF Assigned
    <3>3. CASE at[Dispatch] # "assigned"
      <4>1. empty' = empty
        BY <3>3 DEF Dispatching, Loop, Poll, ScanEnd, ScanSkip, ScanHangUp, ScanAccept, Assign,
             Assigned, ScanNext, Join, Add, AddTest, AddFd, AddEvents, AddLen, AddStore, AddClear,
             Remove, RemoveTest, RemoveCopy, RemoveZero, RemoveLen, RemoveStore, array
      <4>2. QED  BY <3>1, <3>3, <4>1
    <3>4. QED  BY <3>2, <3>3
  <2>3. QED  BY <1>3, <2>2
<1>8. QED  BY <1>4, <1>5, <1>6, <1>7 DEF JobsInv

\* A worker keeps its client and what it took up until it has answered.
LEMMA WorkJobs ==
  ASSUME ArrayInv, JobsInv, NEW w \in Workers, Working(w)
  PROVE  JobsInv'
<1> USE DEF Working, Top, Wait, Read, Serve, Block, Add, AddTest, AddFd, AddEvents, AddLen, AddStore,
            AddClear, Mark, Free, Call, Return
<1>0. /\ Typed /\ Crewed /\ Serving /\ AllGone /\ EmptyTrue /\ Dispatch \in Threads
      /\ Dispatch \notin Workers /\ Workers \subseteq Threads /\ w \in Threads
  BY DispatcherAssumption DEF ArrayInv, JobsInv, Threads, flags
<1>1. at[w] # "gone" /\ w \in crew
  BY <1>0 DEF Crewed
<1>2. PICK l : Goto(w, l)
  OBVIOUS
<1>3. at'[w] = l /\ \A v \in Threads \ {w} : at'[v] = at[v]
  BY <1>0, <1>2, Gone
<1>4. crew' = crew
  BY DEF flags
<1>5. /\ clientOf \in [Workers -> Fds \cup {0}] /\ conn \in [Fds -> Conn]
      /\ at \in [Threads -> DispatchPlaces \cup WorkerPlaces]
  BY <1>0 DEF Typed
<1>6. \/ clientOf' = clientOf
      \/ at[w] = "free" /\ clientOf' = [clientOf EXCEPT ![w] = 0]
  BY DEF jobs
<1>7. Crewed'
  BY <1>0, <1>1, <1>3, <1>4, <1>5, <1>6 DEF Crewed
<1>8. at[w] = "serve" => Serve(w) \/ Block(w)
  BY DEF Working
<1>9. Serving'
  <2> SUFFICES ASSUME NEW c \in Fds, conn'[c].input = "read" PROVE Taken(c)'
    BY DEF Serving
  <2>1. CASE Read(w) /\ clientOf[w] = c /\ conn[c].input # "read"
    <3>1. at'[w] = "serve" /\ clientOf' = clientOf
      <4>1. conn' # conn
        BY <2>1
      <4>2. conn' = [conn EXCEPT ![c].input = "read"] \/ conn' = [conn EXCEPT ![c].input = "dropped"]
        BY <2>1, <4>1 DEF Read
      <4>3. conn' = [conn EXCEPT ![c].input = "dropped"] => conn'[c].input = "dropped"
        BY <1>5 DEF Conn
      <4>4. conn' # [conn EXCEPT ![c].input = "dropped"]
        BY <4>3
      <4>5. Goto(w, "serve")
        BY <2>1, <4>1, <4>4 DEF Read
      <4>6. QED  BY <1>0, <2>1, <4>5, Gone DEF Read, jobs
    <3>2. QED  BY <2>1, <3>1 DEF Taken
  <2>2. CASE conn[c].input = "read"
    <3>1. PICK v \in Workers : at[v] \in {"serve", "blocked"} /\ clientOf[v] = c
      BY <1>0, <2>2 DEF Serving, Taken
    <3>2. CASE v # w
      BY <1>0, <1>3, <1>5, <1>6, <3>1, <3>2 DEF Taken
    <3>3. CASE v = w
      <4>1. at[w] = "serve"
        BY <3>1, <3>3
      <4>2. CASE Block(w)
        BY <1>0, <3>1, <3>3, <4>2, Gone DEF Taken, Block, jobs
      <4>3. CASE Serve(w)
        <5>1. conn'[c].input = "none"
          BY <1>5, <2>2, <3>1, <3>3, <4>3 DEF Serve, Conn
        <5>2. QED  BY <5>1
      <4>4. QED  BY <1>8, <4>1, <4>2, <4>3
    <3>4. QED  BY <3>2, <3>3
  <2>3. CASE conn[c].input # "read" /\ ~(Read(w) /\ clientOf[w] = c)
    <3>1. conn'[c].input = conn[c].input \/ conn'[c].input = "none"
      <4>1. CASE Read(w)
        BY <1>5, <2>3, <4>1 DEF Read
      <4>2. CASE Serve(w)
        BY <1>5, <4>2 DEF Serve, Conn
      <4>3. CASE ~Read(w) /\ ~Serve(w)
        <5>1. conn' = conn
          BY <4>3 DEF Working, net
        <5>2. QED  BY <5>1
      <4>4. QED  BY <4>1, <4>2, <4>3
    <3>2. QED  BY <2>3, <3>1
  <2>4. QED  BY <2>1, <2>2, <2>3
<1>10. AllGone'
  BY <1>0, <1>1, <1>3 DEF AllGone
<1>11. EmptyTrue'
  <2> SUFFICES ASSUME Alone', NEW v \in Workers, clientOf'[v] # 0, at'[v] # "free"
               PROVE  ~empty' \/ at'[Dispatch] = "assigned"
    BY DEF EmptyTrue
  <2>1. Alone /\ at'[Dispatch] = at[Dispatch]
    BY <1>0, <1>3, <1>4 DEF Alone
  <2>2. v = w
    BY <1>0, <1>1, <1>4, <1>7, <2>1, AloneIs DEF Crewed
  <2>3. clientOf' = clientOf
    BY <1>5, <1>6, <2>2
  <2>4. ~Mark(w)
    BY <1>3, <2>2, <1>0, Gone DEF Mark
  <2>5. empty' = empty
    BY <2>4 DEF array
  <2>6. at[w] # "free"
    <3>1. at[w] = "free" => Free(w)
      OBVIOUS
    <3>2. Free(w) => clientOf'[w] = 0
      BY <1>5 DEF Free
    <3>3. QED  BY <2>2, <3>1, <3>2
  <2>7. QED  BY <1>0, <2>1, <2>2, <2>3, <2>5, <2>6 DEF EmptyTrue
<1>12. QED  BY <1>7, <1>9, <1>10, <1>11 DEF JobsInv

LEMMA OutsideJobs ==
  ASSUME ArrayInv, JobsInv, Outside
  PROVE  JobsInv'
<1>1. /\ Crewed /\ Serving /\ AllGone /\ EmptyTrue /\ conn \in [Fds -> Conn]
      /\ UNCHANGED <<crew, clientOf, at, empty>>
  BY DEF Outside, Connect, Interrupt, HangUp, SendRequest, Disconnect, array, jobs, flags, ArrayInv,
         JobsInv, Typed
<1>2. \A c \in Fds : conn'[c].input = "read" => conn[c].input = "read"
  <2>1. ASSUME NEW x \in Fds, SendRequest(x) \/ Disconnect(x)
        PROVE  \A c \in Fds : conn'[c].input = "read" => conn[c].input = "read"
    <3>1. CASE SendRequest(x)
      BY <1>1, <3>1 DEF SendRequest, Conn
    <3>2. CASE Disconnect(x)
      BY <1>1, <3>2 DEF Disconnect, Conn
    <3>3. QED  BY <2>1, <3>1, <3>2
  <2>2. CASE conn' = conn
    BY <2>2
  <2>3. QED  BY <2>1, <2>2 DEF Outside, Connect, Interrupt, HangUp, net
<1>3. QED  BY <1>1, <1>2 DEF JobsInv, Crewed, Serving, Taken, AllGone, EmptyTrue, Alone

LEMMA InitJobs == Init => JobsInv
<1> SUFFICES ASSUME Init PROVE JobsInv
  OBVIOUS
<1>1. Dispatch \in Threads /\ Workers \subseteq Threads /\ Dispatch \notin Workers
  BY DispatcherAssumption DEF Threads
<1>2. /\ at[Dispatch] = "loop" /\ \A w \in Workers : clientOf[w] = 0
      /\ \A w \in Workers : at[w] # "gone" => w \in crew
      /\ \A c \in Fds : conn[c].input = "none"
  BY <1>1 DEF Init, Closed
<1>3. QED  BY <1>2 DEF JobsInv, Crewed, Serving, AllGone, EmptyTrue

LEMMA NextJobs == ArrayInv /\ JobsInv /\ [Next]_vars => JobsInv'
<1> SUFFICES ASSUME ArrayInv, JobsInv, [Next]_vars PROVE JobsInv'
  OBVIOUS
<1>1. CASE UNCHANGED vars
  BY <1>1 DEF vars, JobsInv, Crewed, Serving, Taken, AllGone, EmptyTrue, Alone
<1>2. QED  BY <1>1, DispatchJobs, WorkJobs, OutsideJobs DEF Next

LEMMA SpecJobs == Spec => []JobsInv
  BY SpecArray, InitJobs, NextJobs, PTL DEF Spec

\* When the server ends every request that a worker took up has been answered:
\* the workers are joined (main.c), and none leaves with a request.
THEOREM NoneCutOffCorrect == Spec => []NoneCutOff
<1>1. JobsInv => NoneCutOff
  BY DEF JobsInv, AllGone, Serving, Taken, NoneCutOff
<1>2. QED  BY <1>1, SpecJobs, PTL

\* With one worker the dispatcher ends for SIGHUP only when the worker has no
\* client, whatever happened to the length of the array.
THEOREM ShutdownServesCorrect == Spec => ShutdownServes
<1> DEFINE Served ==
      Alone /\ hu /\ ~quit /\ quit' => \A w \in Workers : clientOf[w] # 0 => at[w] = "free"
<1>1. JobsInv /\ [Next]_vars => [Served]_vars
  <2> SUFFICES ASSUME JobsInv, Next, Alone, hu, ~quit, quit', NEW w \in Workers, clientOf[w] # 0,
                      at[w] # "free"
               PROVE  FALSE
    BY DEF Served
  <2>1. Loop
    BY DEF Next, Dispatching, Poll, ScanEnd, ScanSkip, ScanHangUp, ScanAccept, Assign, Assigned,
         ScanNext, Join, Add, AddTest, AddFd, AddEvents, AddLen, AddStore, AddClear, Remove,
         RemoveTest, RemoveCopy, RemoveZero, RemoveLen, RemoveStore, Working, Top, Wait, Read, Serve,
         Block, Mark, Free, Outside, Connect, SendRequest, Disconnect, Interrupt, HangUp, flags
  <2>2. empty /\ at[Dispatch] = "loop"
    BY <2>1 DEF Loop, IsEmpty, flags
  <2>3. QED  BY <2>2 DEF JobsInv, EmptyTrue
<1>2. QED  BY <1>1, SpecJobs, PTL DEF Spec, ShutdownServes

=============================================================================
