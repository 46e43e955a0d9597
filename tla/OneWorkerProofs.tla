-------------------------- MODULE OneWorkerProofs --------------------------
(***************************************************************************)
(* Proofs about the request handlers of a server with one worker, for any  *)
(* clients, paths, requests and limits: who has which file, how many bytes *)
(* are stored, and that the handlers implement AtomicStore.                *)
(***************************************************************************)
EXTENDS FileServerProofs, FileServerRefinement, DataLemmas

\* Where the file of a handler is the one that its request names, and where
\* it has seen that the file is open by its client.
OwnedLabels == WriteLabels \cup {"RemoveUnlink"}
NamedLabels == OwnedLabels \cup {"OpenFound", "CloseFound", "ReadFound", "WriteOwner",
                                 "RemoveOwner"}

\* The path that openFile did not find is still not there when it inserts.
Absent(w) == pc[w] \in {"OpenCreate", "OpenInsert"} => NoEntry(Req(w).path)

\* What is allocated is what is stored, and the object about to be inserted.
HeapStored(w) ==
  IF pc[w] = "OpenInsert"
  THEN File(w) \notin Stored /\ heap = Stored \cup {File(w)}
  ELSE heap = Stored

\* The file a handler points to is allocated, and is the one it wants.
Points(w) == File(w) # NoObj /\ pc[w] # "RemoveStore" => File(w) \in heap
Named(w) == pc[w] \in NamedLabels => obj[File(w)].path = Req(w).path
Owned(w) == pc[w] \in OwnedLabels => obj[File(w)].client = Client(w)

\* The victim is stored, and marked; it is not the file that is written, which
\* is locked.
VictimMarked(w) ==
  pc[w] = "EvictUnlink" =>
    /\ frame[w].vic \in Stored /\ frame[w].vic # File(w)
    /\ obj[frame[w].vic].client = Evicted

AtWorker(w) == /\ Absent(w) /\ HeapStored(w) /\ Points(w) /\ Named(w)
               /\ Owned(w) /\ Held(w) /\ VictimMarked(w)

OInv == UniquePaths /\ \A w \in Workers : AtWorker(w)

\* The one worker is the one that moves.
LEMMA TheWorker ==
  ASSUME OneWorker, NEW w \in Workers, UniquePaths', AtWorker(w)'
  PROVE  OInv'
  BY DEF OneWorker, OInv

\* A handler returns.
LEMMA ReturnStep ==
  ASSUME OneWorker, TypeOK, OInv, NEW w \in Workers, pc[w] # "OpenInsert",
         Return(w), PathsStay
  PROVE  OInv'
<1>1. UniquePaths' /\ Stored' = Stored
  BY EntriesStay DEF OInv
<1>2. pc'[w] = "idle" /\ frame'[w] = NoFrame
  BY DEF TypeOK, Return
<1>3. heap' = Stored'
  BY <1>1 DEF OInv, AtWorker, HeapStored, PathsStay
<1>4. AtWorker(w)'
  BY <1>2, <1>3
     DEF AtWorker, Absent, HeapStored, Points, Named, Owned, Held, VictimMarked,
         NamedLabels, OwnedLabels, WriteLabels, EvictLabels, File, NoFrame
<1>5. QED  BY <1>1, <1>4, TheWorker

\* It keeps its file if it has it, and it may not be at the places where what
\* is stored changes.
LEMMA GoOnStep ==
  ASSUME OneWorker, TypeOK, OInv, NEW w \in Workers, SameJob(w), PathsStay,
         pc[w] \notin {"OpenInsert", "RemoveStore"},
         pc'[w] \notin {"OpenCreate", "OpenInsert", "EvictUnlink"},
         pc'[w] \in NamedLabels => pc[w] \in NamedLabels,
         pc'[w] \in OwnedLabels => obj'[File(w)].client = Client(w),
         pc'[w] \in WriteLabels => mutex'[File(w)] = w,
         pc[w] \in NamedLabels => File(w) \in Objs
  PROVE  OInv'
<1>1. UniquePaths' /\ Stored' = Stored
  BY EntriesStay DEF OInv
<1>2. heap = Stored /\ (File(w) # NoObj => File(w) \in heap)
  BY DEF OInv, AtWorker, HeapStored, Points
<1>3. HeapStored(w)' /\ Points(w)'
  BY <1>1, <1>2 DEF PathsStay, HeapStored, Points, SameJob, File
<1>4. Absent(w)' /\ VictimMarked(w)'
  BY DEF Absent, VictimMarked
<1>5. Named(w)'
  BY DEF OInv, AtWorker, Named, PathsStay, SameJob, File, Req
<1>6. Owned(w)' /\ Held(w)'
  BY DEF Owned, Held, SameJob, File, Client
<1>7. QED  BY <1>1, <1>3, <1>4, <1>5, <1>6, TheWorker DEF AtWorker

\* hu_get gives the handler a file.
LEMMA FoundStep ==
  ASSUME OneWorker, TypeOK, OInv, NEW w \in Workers, UNCHANGED <<table, heap, obj>>,
         pc[w] # "OpenInsert", NEW i \in Newest(Req(w).path),
         frame' = [frame EXCEPT ![w].ptr = table[i]],
         pc'[w] \in {"OpenFound", "CloseFound", "ReadFound", "WriteOwner", "RemoveOwner"}
  PROVE  OInv'
<1>1. PathsStay
  BY DEF PathsStay
<1>2. UniquePaths' /\ Stored' = Stored
  BY <1>1, EntriesStay DEF OInv
<1>3. /\ frame'[w].ptr = table[i] /\ frame'[w].req = frame[w].req
  BY DEF TypeOK, Frame
<1>4. i \in DOMAIN table /\ obj[table[i]].path = Req(w).path
  BY DEF Newest
<1>5. HeapStored(w)' /\ Points(w)'
  BY <1>2, <1>3, <1>4
     DEF OInv, AtWorker, HeapStored, Points, Stored, ToSet, File
<1>6. Absent(w)' /\ Owned(w)' /\ Held(w)' /\ VictimMarked(w)'
  BY DEF Absent, Owned, Held, VictimMarked, OwnedLabels, WriteLabels, EvictLabels
<1>7. Named(w)'
  BY <1>3, <1>4 DEF Named, File, Req
<1>8. QED  BY <1>2, <1>5, <1>6, <1>7, TheWorker DEF AtWorker

-----------------------------------------------------------------------------
(* The steps that change the table, or what its files are.                 *)

\* A request that is received names no file yet.
LEMMA ReceiveStep ==
  ASSUME OneWorker, TypeOK, OInv, NEW w \in Workers, Receive(w)
  PROVE  OInv'
<1>1. PathsStay /\ pc[w] = "idle"
  BY DEF Receive, store, PathsStay
<1>2. UniquePaths' /\ Stored' = Stored
  BY <1>1, EntriesStay DEF OInv
<1>3. pc'[w] \in {"Open", "Close", "Read", "ReadN", "Write", "Remove", "Nothing"}
  BY DEF Receive, Goto, Entry, TypeOK
<1>4. frame'[w].ptr = frame[w].ptr
  BY DEF Receive, TypeOK, Frame
<1>5. HeapStored(w)' /\ Points(w)'
  BY <1>1, <1>2, <1>3, <1>4 DEF OInv, AtWorker, HeapStored, Points, PathsStay, File
<1>6. Absent(w)' /\ Named(w)' /\ Owned(w)' /\ Held(w)' /\ VictimMarked(w)'
  BY <1>3
     DEF Absent, Named, Owned, Held, VictimMarked, NamedLabels, OwnedLabels,
         WriteLabels, EvictLabels
<1>7. QED  BY <1>2, <1>5, <1>6, TheWorker DEF AtWorker

\* openFile did not find the path: it is not there (server.c:708).
LEMMA NotFoundStep ==
  ASSUME OneWorker, TypeOK, OInv, NEW w \in Workers, pc[w] = "Open",
         Newest(Req(w).path) = {}, Goto(w, "OpenCreate"), UNCHANGED <<store, frame>>
  PROVE  OInv'
<1>1. PathsStay
  BY DEF store, PathsStay
<1>2. UniquePaths' /\ Stored' = Stored
  BY <1>1, EntriesStay DEF OInv
<1>3. pc'[w] = "OpenCreate"
  BY DEF Goto, TypeOK
<1>4. Absent(w)'
  BY <1>1, NothingNewest, EntriesStay DEF OInv, Absent, Req, TypeOK
<1>5. HeapStored(w)' /\ Points(w)'
  BY <1>1, <1>2, <1>3 DEF OInv, AtWorker, HeapStored, Points, PathsStay, File
<1>6. Named(w)' /\ Owned(w)' /\ Held(w)' /\ VictimMarked(w)'
  BY <1>3
     DEF Named, Owned, Held, VictimMarked, NamedLabels, OwnedLabels,
         WriteLabels, EvictLabels
<1>7. QED  BY <1>2, <1>4, <1>5, <1>6, TheWorker DEF AtWorker

\* The new object is not one of those that are stored.
LEMMA CreateStep ==
  ASSUME OneWorker, TypeOK, OInv, NEW w \in Workers, pc[w] = "OpenCreate",
         NEW o \in Objs \ heap, heap' = heap \cup {o}, table' = table,
         obj' = [obj EXCEPT ![o] = [Unused EXCEPT !.client = Client(w)]],
         frame' = [frame EXCEPT ![w].ptr = o], Goto(w, "OpenInsert")
  PROVE  OInv'
<1>1. heap = Stored /\ NoEntry(Req(w).path)
  BY DEF OInv, AtWorker, HeapStored, Absent
<1>2. \A i \in DOMAIN table : obj'[table[i]] = obj[table[i]]
  BY <1>1, TableObjs DEF Stored, ToSet, TypeOK
<1>3. UniquePaths' /\ Stored' = Stored
  <2>1. \A i, j \in DOMAIN table : obj[table[i]].path = obj[table[j]].path => i = j
    BY DEF OInv, UniquePaths
  <2>2. \A i, j \in DOMAIN table : obj'[table[i]].path = obj'[table[j]].path => i = j
    BY <1>2, <2>1
  <2>3. UniquePaths'
    BY <2>2 DEF UniquePaths
  <2>4. Stored' = Stored
    BY DEF Stored, ToSet
  <2>5. QED  BY <2>3, <2>4
<1>4. /\ frame'[w].ptr = o /\ frame'[w].req = frame[w].req
      /\ pc'[w] = "OpenInsert"
  BY DEF TypeOK, Frame, Goto
<1>5. Absent(w)'
  BY <1>1, <1>2, <1>4 DEF Absent, NoEntry, Req
<1>6. HeapStored(w)' /\ Points(w)'
  BY <1>1, <1>3, <1>4 DEF HeapStored, Points, File
<1>7. Named(w)' /\ Owned(w)' /\ Held(w)' /\ VictimMarked(w)'
  BY <1>4
     DEF Named, Owned, Held, VictimMarked, NamedLabels, OwnedLabels,
         WriteLabels, EvictLabels
<1>8. QED  BY <1>3, <1>5, <1>6, <1>7, TheWorker DEF AtWorker

\* The new file is put in under a path that is not there.
LEMMA InsertStep ==
  ASSUME OneWorker, TypeOK, OInv, NEW w \in Workers, pc[w] = "OpenInsert",
         File(w) \in Objs, table' = Inserted(File(w)), UNCHANGED heap,
         obj' = [obj EXCEPT ![File(w)].path = Req(w).path],
         NEW n, frame' = [frame EXCEPT ![w].tmp = n], Goto(w, "OpenStore")
  PROVE  OInv'
<1> DEFINE f == File(w)
           N == Len(table)
<1>1. /\ f \notin Stored /\ heap = Stored \cup {f}
      /\ \A i \in DOMAIN table : obj[table[i]].path # Req(w).path
  BY DEF OInv, AtWorker, HeapStored, Absent, NoEntry
<1>2. /\ table \in Seq(Objs) /\ DOMAIN table = 1..N /\ N \in Nat
      /\ \A i \in 1..N : table[i] \in Objs
  BY DEF TypeOK
<1>3. /\ DOMAIN table' = 1..(N + 1) /\ table'[1] = f /\ Stored' = Stored \cup {f}
      /\ \A i \in 1..N : table'[i + 1] = table[i]
  BY <1>2, InsertedEntries DEF Stored
<1>4. /\ obj'[f].path = Req(w).path
      /\ \A i \in 1..N : obj'[table[i]].path = obj[table[i]].path
  BY <1>1, <1>2 DEF TypeOK, FileData, Stored, ToSet
<1>5. \A i \in 2..(N + 1) : i - 1 \in 1..N /\ table'[i] = table[i - 1]
  <2> TAKE i \in 2..(N + 1)
  <2>1. i - 1 \in 1..N /\ (i - 1) + 1 = i
    BY <1>2
  <2>2. QED  BY <1>3, <2>1
<1>6. \A i \in 1..(N + 1) : i = 1 \/ i \in 2..(N + 1)
  BY <1>2
<1>7. UniquePaths'
  <2> SUFFICES ASSUME NEW i \in 1..(N + 1), NEW j \in 1..(N + 1),
                      obj'[table'[i]].path = obj'[table'[j]].path
               PROVE  i = j
    BY <1>3 DEF UniquePaths
  <2>1. \A k \in 2..(N + 1) : obj'[table'[k]].path # Req(w).path
    BY <1>1, <1>2, <1>4, <1>5
  <2>2. CASE i = 1 \/ j = 1
    BY <1>3, <1>4, <1>6, <2>1, <2>2
  <2>3. CASE i \in 2..(N + 1) /\ j \in 2..(N + 1)
    <3>1. i - 1 = j - 1
      BY <1>2, <1>4, <1>5, <2>3 DEF OInv, UniquePaths
    <3>2. QED  BY <2>3, <3>1
  <2>4. QED  BY <1>6, <2>2, <2>3
<1>8. frame'[w].ptr = f /\ pc'[w] = "OpenStore"
  BY DEF TypeOK, Frame, Goto, File
<1>9. HeapStored(w)' /\ Points(w)'
  BY <1>1, <1>3, <1>8 DEF HeapStored, Points, File
<1>10. Absent(w)' /\ Named(w)' /\ Owned(w)' /\ Held(w)' /\ VictimMarked(w)'
  BY <1>8
     DEF Absent, Named, Owned, Held, VictimMarked, NamedLabels, OwnedLabels,
         WriteLabels, EvictLabels
<1>11. QED  BY <1>7, <1>9, <1>10, TheWorker DEF AtWorker

\* A victim is never the file that is written: that one is locked.
LEMMA TakeStep ==
  ASSUME OneWorker, TypeOK, OInv, NoWorker \notin Workers, NEW w \in Workers,
         File(w) \in Objs, EvictTake(w)
  PROVE  OInv'
<1>1. PICK o \in frame[w].todo :
        /\ Evictable(o, Client(w)) /\ obj' = [obj EXCEPT ![o].client = Evicted]
        /\ frame' = [frame EXCEPT ![w].todo = @ \ {o}, ![w].vic = o,
                                  ![w].need = StillNeeded(@, o)]
  BY DEF EvictTake
<1>2. /\ pc[w] = "Evict" /\ pc'[w] = "EvictUnlink"
      /\ UNCHANGED <<table, heap, mutex>>
  BY DEF EvictTake, Goto, TypeOK
<1>3. o \in heap /\ heap = Stored /\ o \in Objs /\ mutex[File(w)] = w /\ mutex[o] = NoWorker
  BY <1>1, <1>2
     DEF OInv, AtWorker, HeapStored, Held, Evictable, TypeOK, WriteLabels, EvictLabels
<1>4. o # File(w)
  BY <1>3
<1>5. /\ frame'[w].ptr = frame[w].ptr /\ frame'[w].req = frame[w].req
      /\ frame'[w].vic = o
  BY <1>1 DEF TypeOK, Frame
<1>6. /\ PathsStay /\ obj'[o].client = Evicted
      /\ obj'[File(w)] = obj[File(w)]
  BY <1>1, <1>2, <1>3, <1>4 DEF PathsStay, TypeOK, FileData
<1>7. UniquePaths' /\ Stored' = Stored
  BY <1>6, EntriesStay DEF OInv
<1>8. HeapStored(w)' /\ Points(w)' /\ Absent(w)'
  BY <1>2, <1>5, <1>7 DEF OInv, AtWorker, HeapStored, Points, Absent, File
<1>9. VictimMarked(w)'
  BY <1>3, <1>4, <1>5, <1>6, <1>7 DEF VictimMarked, File
<1>10. Named(w)' /\ Owned(w)' /\ Held(w)'
  BY <1>2, <1>5, <1>6
     DEF OInv, AtWorker, Named, Owned, Held, NamedLabels, OwnedLabels,
         WriteLabels, EvictLabels, File, Req, Client
<1>11. QED  BY <1>7, <1>8, <1>9, <1>10, TheWorker DEF AtWorker

\* The entry that is unlinked for a victim is the victim's, for no other file
\* has its path; the file that is written stays.
LEMMA EvictUnlinkStep ==
  ASSUME OneWorker, TypeOK, OInv, NEW w \in Workers, File(w) \in Objs, EvictUnlink(w)
  PROVE  OInv'
<1>1. PICK i \in DOMAIN table :
        /\ obj[table[i]].path = obj[frame[w].vic].path
        /\ table' = Unlinked(i) /\ heap' = heap \ {table[i]}
        /\ frame' = [frame EXCEPT ![w].tmp = Lowered(Size(table[i]))]
  BY DEF EvictUnlink, Unlink, Newest
<1>2. /\ pc[w] = "EvictUnlink" /\ pc'[w] = "EvictStore" /\ UNCHANGED <<obj, mutex>>
  BY DEF EvictUnlink, Goto, TypeOK
<1>3. /\ frame[w].vic \in Stored /\ frame[w].vic # File(w) /\ heap = Stored
      /\ File(w) \in heap
  BY <1>2, FileServerAssumption DEF OInv, AtWorker, VictimMarked, HeapStored, Points
<1>4. table[i] = frame[w].vic
  BY <1>1, <1>3 DEF OInv, UniquePaths, Stored, ToSet
<1>5. UniquePaths' /\ Stored' = Stored \ {table[i]}
  <2>1. table \in Seq(Objs) /\ UniquePaths
    BY DEF TypeOK, OInv
  <2>2. /\ ToSet(table') = Stored \ {table[i]}
        /\ \A j, k \in DOMAIN table' :
             obj[table'[j]].path = obj[table'[k]].path => j = k
    BY <1>1, <2>1, UnlinkedStored
  <2>3. QED  BY <1>2, <2>2 DEF UniquePaths, Stored
<1>6. frame'[w].ptr = frame[w].ptr /\ frame'[w].req = frame[w].req
  BY <1>1 DEF TypeOK, Frame
<1>7. HeapStored(w)' /\ Points(w)' /\ Absent(w)' /\ VictimMarked(w)'
  BY <1>1, <1>2, <1>3, <1>4, <1>5, <1>6
     DEF HeapStored, Points, Absent, VictimMarked, File
<1>8. Named(w)' /\ Owned(w)' /\ Held(w)'
  BY <1>2, <1>6
     DEF OInv, AtWorker, Named, Owned, Held, NamedLabels, OwnedLabels,
         WriteLabels, EvictLabels, File, Req, Client
<1>9. QED  BY <1>5, <1>7, <1>8, TheWorker DEF AtWorker

\* removeFile unlinks whatever the freed key finds; its pointer is not used
\* again.
LEMMA RemoveUnlinkStep ==
  ASSUME OneWorker, TypeOK, OInv, NEW w \in Workers, RemoveUnlink(w)
  PROVE  OInv'
<1>1. PICK i \in DOMAIN table :
        table' = Unlinked(i) /\ heap' = heap \ {table[i]}
  BY DEF RemoveUnlink, Unlink, Victims, Newest
<1>2. pc[w] = "RemoveUnlink" /\ pc'[w] = "RemoveStore" /\ UNCHANGED obj
  BY DEF RemoveUnlink, Goto, TypeOK
<1>3. UniquePaths' /\ Stored' = Stored \ {table[i]}
  <2>1. table \in Seq(Objs) /\ UniquePaths
    BY DEF TypeOK, OInv
  <2>2. /\ ToSet(table') = Stored \ {table[i]}
        /\ \A j, k \in DOMAIN table' :
             obj[table'[j]].path = obj[table'[k]].path => j = k
    BY <1>1, <2>1, UnlinkedStored
  <2>3. QED  BY <1>2, <2>2 DEF UniquePaths, Stored
<1>4. heap' = Stored'
  BY <1>1, <1>2, <1>3 DEF OInv, AtWorker, HeapStored
<1>5. AtWorker(w)'
  BY <1>2, <1>4
     DEF AtWorker, Absent, HeapStored, Points, Named, Owned, Held, VictimMarked,
         NamedLabels, OwnedLabels, WriteLabels, EvictLabels
<1>6. QED  BY <1>3, <1>5, TheWorker

-----------------------------------------------------------------------------
(* Every step.                                                             *)

\* One step for each action of a handler.
LEMMA HandleStep ==
  ASSUME OneWorker, IInv, OInv, NEW w \in Workers, Handle(w)
  PROVE  OInv'
<1>0. /\ TypeOK /\ pc \in [Workers -> Labels] /\ frame \in [Workers -> Frame]
      /\ NoWorker \notin Workers /\ NoObj \notin Objs
      /\ mutex \in [Objs -> Workers \cup {NoWorker}] /\ heap \subseteq Objs
  BY FileServerAssumption DEF IInv, TypeOK
<1>1. pc[w] \in FileUse => File(w) \in Objs
  BY DEF IInv, LocalsOK, LocalsAt, File
<1>2. NamedLabels \subseteq FileUse /\ WriteLabels \subseteq OwnedLabels
      /\ OwnedLabels \subseteq NamedLabels
  BY DEF NamedLabels, OwnedLabels, WriteLabels, EvictLabels, FileUse, Labels
<1>3. /\ pc[w] \in OwnedLabels => obj[File(w)].client = Client(w)
      /\ pc[w] \in WriteLabels => mutex[File(w)] = w
      /\ pc[w] \in FileUse /\ pc[w] # "RemoveStore" => File(w) \in heap
  BY <1>0, <1>1 DEF OInv, AtWorker, Owned, Held, Points
<1>s. UNCHANGED <<table, heap, obj>> => PathsStay
  BY DEF PathsStay
<1>r. ASSUME Return(w), pc[w] # "OpenInsert", PathsStay PROVE OInv'
  BY <1>r, <1>0, ReturnStep
<1>f. ASSUME UNCHANGED <<table, heap, obj>>, pc[w] # "OpenInsert",
             NEW i \in Newest(Req(w).path), frame' = [frame EXCEPT ![w].ptr = table[i]],
             pc'[w] \in {"OpenFound", "CloseFound", "ReadFound", "WriteOwner", "RemoveOwner"}
      PROVE  OInv'
  BY <1>f, <1>0, FoundStep
<1>g. ASSUME SameJob(w), PathsStay, pc[w] \notin {"OpenInsert", "RemoveStore"},
             pc'[w] \notin {"OpenCreate", "OpenInsert", "EvictUnlink"},
             pc'[w] \in NamedLabels => pc[w] \in NamedLabels,
             pc'[w] \in OwnedLabels => obj'[File(w)].client = Client(w),
             pc'[w] \in WriteLabels => mutex'[File(w)] = w
      PROVE  OInv'
  BY <1>g, <1>0, <1>1, <1>2, GoOnStep
<1>4. frame' = frame => SameJob(w)
  BY DEF SameJob
<1>5. \A l : Goto(w, l) => pc'[w] = l
  BY <1>0 DEF Goto
<1> USE DEF NamedLabels, OwnedLabels, WriteLabels, EvictLabels
<1>10. ASSUME ServeNothing(w) \/ OpenStore(w) \/ ReadSend(w) \/ ReadNEnd(w) \/ EvictAbort(w)
              \/ WriteBroken(w) \/ RemoveStore(w) \/ RemoveMissed(w)
       PROVE  OInv'
  BY <1>10, <1>r, <1>s
     DEF ServeNothing, OpenStore, ReadSend, ReadNEnd, EvictAbort, WriteBroken, RemoveStore,
         RemoveMissed, Reply, store
<1>11. ASSUME OpenLookup(w) PROVE OInv'
  <2>1. CASE Return(w)
    BY <1>11, <2>1, <1>r, <1>s DEF OpenLookup, store
  <2>2. CASE Goto(w, "OpenFound")
    BY <1>11, <2>2, <1>0, <1>5, <1>f DEF OpenLookup, store, Goto, Reply, Return
  <2>3. CASE Goto(w, "OpenCreate") /\ Newest(Req(w).path) = {} /\ frame' = frame
    BY <1>11, <2>3, <1>0, NotFoundStep DEF OpenLookup
  <2>4. QED  BY <1>11, <2>1, <2>2, <2>3 DEF OpenLookup, Reply
<1>12. ASSUME OpenFound(w) \/ CloseFound(w) PROVE OInv'
  <2>1. Return(w) /\ pc[w] \in {"OpenFound", "CloseFound"} /\ File(w) \in Objs
    BY <1>12, <1>1, <1>2 DEF OpenFound, CloseFound, Reply, FileUse, Labels
  <2>2. PathsStay
    BY <1>12, <1>0, <2>1, FieldsKeepPaths DEF OpenFound, CloseFound
  <2>3. QED  BY <2>1, <2>2, <1>r
<1>13. ASSUME OpenCreate(w) PROVE OInv'
  <2>1. CASE Return(w) /\ UNCHANGED store
    BY <1>13, <2>1, <1>r, <1>s DEF OpenCreate, store
  <2>2. CASE ~(Return(w) /\ UNCHANGED store)
    <3>1. PICK o \in Mallocable :
            /\ heap' = heap \cup {o} /\ table' = table
            /\ obj' = [obj EXCEPT ![o] = [Unused EXCEPT !.client = Client(w)]]
            /\ frame' = [frame EXCEPT ![w].ptr = o] /\ Goto(w, "OpenInsert")
            /\ pc[w] = "OpenCreate"
      BY <1>13, <2>2 DEF OpenCreate, Reply
    <3>2. QED  BY <3>1, <1>0, CreateStep DEF Mallocable
  <2>3. QED  BY <2>1, <2>2
<1>14. ASSUME OpenInsert(w) PROVE OInv'
  <2>1. pc[w] = "OpenInsert" /\ ~FilesFull /\ File(w) \in Objs
    BY <1>14, <1>1, FileServerAssumption
       DEF OpenInsert, IInv, Room, FilesFull, TypeOK, FileUse, Labels
  <2>2. /\ table' = Inserted(File(w)) /\ UNCHANGED heap
        /\ obj' = [obj EXCEPT ![File(w)].path = Req(w).path]
        /\ frame' = [frame EXCEPT ![w].tmp = (currBytes + Size(File(w))) % SizeMod]
        /\ Goto(w, "OpenStore")
    BY <1>14, <2>1 DEF OpenInsert
  <2>3. QED  BY <2>1, <2>2, <1>0, InsertStep
<1>15. ASSUME CloseLookup(w) \/ ReadLookup(w) PROVE OInv'
  <2>1. CASE Return(w)
    BY <1>15, <2>1, <1>r, <1>s DEF CloseLookup, ReadLookup, Find, store
  <2>2. CASE ~Return(w)
    BY <1>15, <2>2, <1>0, <1>5, <1>f DEF CloseLookup, ReadLookup, Find, store, Reply
  <2>3. QED  BY <2>1, <2>2
<1>16. ASSUME ReadFound(w) PROVE OInv'
  <2>1. CASE Return(w)
    BY <1>16, <2>1, <1>r, <1>s DEF ReadFound
  <2>2. CASE Goto(w, "ReadSend") /\ UNCHANGED frame
    BY <1>16, <2>2, <1>4, <1>5, <1>g, <1>s DEF ReadFound
  <2>3. QED  BY <1>16, <2>1, <2>2 DEF ReadFound, Reply
<1>17. ASSUME ReadNLock(w) PROVE OInv'
  <2>1. SameJob(w)
    BY <1>17, <1>0 DEF ReadNLock, SameJob, Frame
  <2>2. QED  BY <1>17, <2>1, <1>5, <1>g, <1>s DEF ReadNLock
<1>18. ASSUME ReadNFile(w) PROVE OInv'
  <2>1. CASE Return(w)
    BY <1>18, <2>1, <1>r, <1>s DEF ReadNFile
  <2>2. CASE ~Return(w)
    <3>1. SameJob(w) /\ pc' = pc
      BY <1>18, <2>2, <1>0 DEF ReadNFile, SameJob, Frame
    <3>2. QED  BY <1>18, <3>1, <1>g, <1>s DEF ReadNFile
  <2>3. QED  BY <2>1, <2>2
<1>19. ASSUME WriteLock(w) \/ RemoveLock(w) PROVE OInv'
  <2>1. CASE Return(w)
    BY <1>19, <2>1, <1>r, <1>s DEF WriteLock, RemoveLock
  <2>2. CASE ~Return(w)
    BY <1>19, <2>2, <1>5, <1>f DEF WriteLock, RemoveLock, Reply
  <2>3. QED  BY <2>1, <2>2
<1>20. ASSUME WriteOwner(w) PROVE OInv'
  <2>1. pc[w] = "WriteOwner" /\ File(w) \in heap
    BY <1>20, <1>2, <1>3 DEF WriteOwner
  <2>2. CASE obj[File(w)].client = Client(w)
    <3>1. mutex'[File(w)] = w
      BY <1>20, <1>0, <2>1, <2>2 DEF WriteOwner, LockedBy
    <3>2. QED  BY <1>20, <2>1, <2>2, <3>1, <1>4, <1>5, <1>g, <1>s DEF WriteOwner
  <2>3. CASE obj[File(w)].client # Client(w)
    BY <1>20, <2>3, <1>r, <1>s DEF WriteOwner, Reply
  <2>4. QED  BY <2>2, <2>3
<1>21. ASSUME WriteLen(w) PROVE OInv'
  <2>1. CASE Return(w)
    BY <1>21, <2>1, <1>r, <1>s DEF WriteLen
  <2>2. CASE (Goto(w, "EvictStart") \/ Goto(w, "WriteData")) /\ UNCHANGED <<frame, mutex>>
    <3>1. UNCHANGED <<table, heap, obj>> /\ pc[w] = "WriteLen"
      BY <1>21 DEF WriteLen
    <3>2. QED  BY <2>2, <3>1, <1>3, <1>4, <1>5, <1>g, <1>s
  <2>3. QED  BY <1>21, <2>1, <2>2 DEF WriteLen
<1>22. ASSUME EvictStart(w) PROVE OInv'
  <2>1. CASE Return(w)
    BY <1>22, <2>1, <1>r, <1>s DEF EvictStart
  <2>2. CASE ~Return(w)
    <3>1. SameJob(w) /\ pc'[w] = "EvictAsk" /\ pc[w] = "EvictStart"
          /\ UNCHANGED <<table, heap, obj, mutex>>
      BY <1>22, <2>2, <1>0, <1>5, ZenonT(60) DEF EvictStart, Reply, SameJob, Frame
    <3>2. QED  BY <3>1, <1>3, <1>g, <1>s
  <2>3. QED  BY <2>1, <2>2
<1>23. ASSUME EvictAsk(w) \/ EvictSkip(w) \/ EvictStore(w) PROVE OInv'
  <2>1. SameJob(w) /\ UNCHANGED <<table, heap, obj, mutex>>
    BY <1>23, <1>0 DEF EvictAsk, EvictSkip, EvictStore, SameJob, Frame, store
  <2>2. pc[w] \in EvictLabels /\ pc'[w] = "Evict" /\ pc[w] # "RemoveStore"
    BY <1>23, <1>5 DEF EvictAsk, EvictSkip, EvictStore
  <2>3. QED  BY <2>1, <2>2, <1>3, <1>g, <1>s
<1>24. ASSUME EvictTake(w) PROVE OInv'
  <2>1. File(w) \in Objs
    BY <1>24, <1>1, <1>2 DEF EvictTake
  <2>2. QED  BY <1>24, <2>1, <1>0, TakeStep
<1>25. ASSUME EvictUnlink(w) PROVE OInv'
  <2>1. File(w) \in Objs
    BY <1>25, <1>1, <1>2 DEF EvictUnlink
  <2>2. QED  BY <1>25, <2>1, <1>0, EvictUnlinkStep
<1>26. ASSUME EvictEnd(w) PROVE OInv'
  <2>1. CASE Return(w)
    BY <1>26, <2>1, <1>r, <1>s DEF EvictEnd
  <2>2. CASE ~Return(w)
    <3>1. pc'[w] = "WriteData" /\ pc[w] = "Evict"
          /\ UNCHANGED <<table, heap, obj, mutex, frame>>
      BY <1>26, <2>2, <1>5 DEF EvictEnd
    <3>2. QED  BY <3>1, <1>3, <1>4, <1>g, <1>s
  <2>3. QED  BY <2>1, <2>2
<1>27. ASSUME WriteData(w) PROVE OInv'
  <2>1. CASE Return(w)
    BY <1>27, <2>1, <1>r, <1>s DEF WriteData
  <2>2. CASE ~Return(w)
    <3>1. PICK d \in Incoming(w) : frame' = [frame EXCEPT ![w].req.data = d]
      BY <1>27, <2>2 DEF WriteData, Reply
    <3>2. SameJob(w)
      BY <3>1, <1>0, FrameFields DEF SameJob
    <3>3. pc'[w] = "WriteLoad" /\ pc[w] = "WriteData"
          /\ UNCHANGED <<table, heap, obj, mutex>>
      BY <1>27, <2>2, <1>5 DEF WriteData, Reply
    <3>4. QED  BY <3>2, <3>3, <1>3, <1>g, <1>s
  <2>3. QED  BY <2>1, <2>2
<1>28. ASSUME WriteLoad(w) PROVE OInv'
  <2>1. SameJob(w)
    BY <1>28, <1>0 DEF WriteLoad, SameJob, Frame
  <2>2. pc'[w] = "WriteStore" /\ pc[w] = "WriteLoad"
        /\ UNCHANGED <<table, heap, obj, mutex>>
    BY <1>28, <1>5 DEF WriteLoad, store
  <2>3. QED  BY <2>1, <2>2, <1>3, <1>g, <1>s
<1>29. ASSUME WriteStore(w) PROVE OInv'
  <2>1. Return(w) /\ pc[w] = "WriteStore" /\ File(w) \in Objs
    BY <1>29, <1>1, <1>2 DEF WriteStore, Reply
  <2>2. PathsStay
    BY <1>29, <1>0, <2>1, FieldsKeepPaths DEF WriteStore
  <2>3. QED  BY <2>1, <2>2, <1>r
<1>30. ASSUME RemoveOwner(w) PROVE OInv'
  <2>1. CASE MayRemove(w)
    BY <1>30, <2>1, <1>4, <1>5, <1>g, <1>s DEF RemoveOwner, MayRemove
  <2>2. CASE ~MayRemove(w)
    BY <1>30, <2>2, <1>r, <1>s DEF RemoveOwner, Reply
  <2>3. QED  BY <2>1, <2>2
<1>31. ASSUME RemoveUnlink(w) PROVE OInv'
  BY <1>31, <1>0, RemoveUnlinkStep
<1>32. QED
  BY <1>10, <1>11, <1>12, <1>13, <1>14, <1>15, <1>16, <1>17, <1>18, <1>19, <1>20,
     <1>21, <1>22, <1>23, <1>24, <1>25, <1>26, <1>27, <1>28, <1>29, <1>30, <1>31
     DEF Handle

-----------------------------------------------------------------------------
(* The theorems.                                                           *)

\* Nothing is stored and no handler runs.
LEMMA InitOInv == Init => OInv
  BY FileServerAssumption
     DEF Init, OInv, UniquePaths, AtWorker, Absent, HeapStored, Points, Named, Owned, Held,
         VictimMarked, NamedLabels, OwnedLabels, WriteLabels, EvictLabels, Stored, ToSet,
         NoFrame, File

\* OInv is inductive, relative to what FileServerProofs proves of any number
\* of workers.
LEMMA NextOInv ==
  ASSUME OneWorker, IInv, OInv, [Next]_vars
  PROVE  OInv'
<1>1. ASSUME NEW w \in Workers, Receive(w) PROVE OInv'
  BY <1>1, ReceiveStep DEF IInv
<1>2. ASSUME NEW w \in Workers, Handle(w) PROVE OInv'
  BY <1>2, HandleStep
<1>3. ASSUME \/ \E c \in Clients : Die(c) \/ Reconnect(c)
             \/ UNCHANGED vars
      PROVE  OInv'
  <2>1. UNCHANGED <<table, obj, heap, mutex, pc, frame>>
    BY <1>3 DEF Die, Reconnect, store, vars
  <2>2. QED
    BY <2>1
       DEF OInv, UniquePaths, AtWorker, Absent, NoEntry, HeapStored, Points, Named, Owned,
           Held, VictimMarked, Stored, File, Req, Client
<1>4. QED  BY <1>1, <1>2, <1>3 DEF Next

\* The invariant holds throughout.
LEMMA OInvCorrect ==
  ASSUME OneWorker
  PROVE  Spec => []OInv
<1>1. OneWorker /\ IInv /\ OInv /\ [Next]_vars => OInv'
  BY NextOInv
<1>2. QED  BY <1>1, OneWorker, InitOInv, InvCorrect, PTL DEF Spec

\* With one worker no path is stored twice: openFile inserts a path that was
\* not there when it looked it up, and nobody else inserts meanwhile.
THEOREM UniquePathsCorrect ==
  ASSUME OneWorker
  PROVE  Spec => []UniquePaths
<1>1. OInv => UniquePaths
  BY DEF OInv
<1>2. QED  BY <1>1, OInvCorrect, PTL

\* With one worker no handler uses a file object that has been freed: the
\* eviction frees its victims only, and removeFile does not look back.
THEOREM NoDanglingCorrect ==
  ASSUME OneWorker
  PROVE  Spec => []NoDangling
<1>1. OInv => NoDangling
  BY DEF OInv, AtWorker, Points, NoDangling
<1>2. QED  BY <1>1, OInvCorrect, PTL

\* With one worker the file that is written is stored, open by the writer and
\* under the path it asked for until the write has ended.
THEOREM WriterOwnsCorrect ==
  ASSUME OneWorker
  PROVE  Spec => []WriterOwns
<1>1. IInv /\ OInv => WriterOwns
  <2> SUFFICES ASSUME IInv, OInv, NEW w \in Writing
               PROVE  /\ File(w) \in Stored
                      /\ obj[File(w)].client = Client(w)
                      /\ obj[File(w)].path = Req(w).path
    BY DEF WriterOwns
  <2>1. w \in Workers /\ pc[w] \in {"WriteData", "WriteLoad", "WriteStore"}
    BY DEF Writing
  <2>2. File(w) # NoObj
    BY <2>1, FileServerAssumption DEF IInv, LocalsOK, LocalsAt, File, FileUse, Labels
  <2>3. QED
    BY <2>1, <2>2
       DEF OInv, AtWorker, Points, HeapStored, Named, Owned, NamedLabels, OwnedLabels,
           WriteLabels
<1>2. QED  BY <1>1, InvCorrect, OInvCorrect, PTL

-----------------------------------------------------------------------------
(* Accounting.  curr_bytes is the number of bytes stored, whatever requests *)
(* came before and wherever a client cut them short.                        *)

\* The object that openFile has made is empty until it is in the table.
Fresh(w) == pc[w] = "OpenInsert" => obj[File(w)].data = <<>>

\* curr_bytes is the number of bytes stored, but between the two halves of
\* fu_remove_file it is the value about to be stored in it.
Counted(w) ==
  IF pc[w] \in {"EvictStore", "RemoveStore"}
  THEN frame[w].tmp = StoredBytes
  ELSE currBytes = StoredBytes

\* The value that a creation or a write is about to store in curr_bytes.
Pending(w) ==
  /\ pc[w] = "OpenStore" => frame[w].tmp = currBytes
  /\ pc[w] = "WriteStore" =>
       frame[w].tmp = currBytes + Len(Written(w, Req(w).data)) - Size(File(w))

\* An eviction is begun for want of room.
Short(w) == pc[w] = "EvictStart" => BytesAvailable < Len(Req(w).data)

\* What is stored when the victim is gone, if there is one.
Unfreed(w) ==
  IF pc[w] = "EvictUnlink" THEN StoredBytes - Size(frame[w].vic) ELSE StoredBytes

\* bytes_to_free is what is missing for the write to fit, and zero only when
\* it fits.
Freeing(w) ==
  pc[w] \in {"EvictAsk", "Evict", "EvictUnlink", "EvictStore"} =>
    /\ Unfreed(w) + Len(Req(w).data) <= MaxBytes + frame[w].need
    /\ frame[w].need # 0 => Unfreed(w) + Len(Req(w).data) = MaxBytes + frame[w].need

\* There is room for what the client has been told to send.
Promised(w) ==
  pc[w] \in {"WriteData", "WriteLoad", "WriteStore"} =>
    currBytes + Len(Req(w).data) <= MaxBytes

\* The length of what is written is a size_t.
Sized(w) == Len(Req(w).data) < SizeMod

CountsAt(w) == /\ Fresh(w) /\ Counted(w) /\ Pending(w) /\ Short(w)
               /\ Freeing(w) /\ Promised(w) /\ Sized(w)

CInv == /\ currBytes <= MaxBytes /\ StoredBytes <= MaxBytes
        /\ \A w \in Workers : CountsAt(w)

-----------------------------------------------------------------------------
(* The bytes stored, as a sum over the table's files.                      *)

Sizes == [o \in Objs |-> Size(o)]

\* What fu_evict_files adds up is the sum of the sizes of the files.
LEMMA StoredBytesIsSum == TypeOK => StoredBytes = Sum(Sizes, Stored)
<1> SUFFICES ASSUME TypeOK PROVE StoredBytes = Sum(Sizes, Stored)
  OBVIOUS
<1>1. Stored \in SUBSET Objs /\ IsFiniteSet(Stored)
  BY TableObjs, FS_Subset, FileServerAssumption DEF Stored
<1> DEFINE P(g) == g = [s \in SUBSET Stored |->
                          IF s = {} THEN 0 ELSE Size(Pick(s)) + g[s \ {Pick(s)}]]
           h == CHOOSE g : P(g)
<1>2. StoredBytes = h[Stored]
  BY DEF StoredBytes, MapThenSumSet, MapThenFoldSet, Stored, Pick
<1>3. \A s \in SUBSET Stored : s # {} => Sizes[Pick(s)] = Size(Pick(s))
  BY <1>1, PickIn DEF Sizes
<1>4. ASSUME NEW g PROVE P(g) <=> Adds(Sizes, Stored, g)
  BY <1>3 DEF Adds
<1>5. \E g : P(g)
  BY <1>1, <1>4, AddsExists
<1>6. P(h)
  BY <1>5
<1> HIDE DEF h, P
<1>7. Adds(Sizes, Stored, h)
  BY <1>4, <1>6
<1>8. h[Stored] = Sum(Sizes, Stored)
  BY <1>1, <1>7, AddsIsSumHere
<1>9. QED  BY <1>2, <1>8

\* The same of the state after a step.
LEMMA StoredBytesNext ==
  ASSUME TypeOK'
  PROVE  StoredBytes' = Sum(Sizes', Stored')
<1>1. (TypeOK => StoredBytes = Sum(Sizes, Stored))'
  BY StoredBytesIsSum, PTL
<1>2. QED  BY <1>1

\* What the sums range over.
LEMMA SizesTyped ==
  ASSUME TypeOK
  PROVE  /\ Stored \in SUBSET Objs /\ IsFiniteSet(Stored)
         /\ \A o \in Objs : Sizes[o] = Size(o) /\ Size(o) \in Nat
<1>1. Stored \in SUBSET Objs /\ IsFiniteSet(Stored)
  BY TableObjs, FS_Subset, FileServerAssumption DEF Stored
<1>2. QED  BY <1>1, SizeTyped DEF Sizes

\* The bytes stored are a natural number, and no file has more than that.
LEMMA StoredBytesTyped ==
  ASSUME TypeOK
  PROVE  StoredBytes \in Nat /\ \A o \in Stored : Size(o) <= StoredBytes
<1>1. \A o \in Stored : Sizes[o] = Size(o) /\ Sizes[o] \in Nat
  BY SizesTyped
<1>2. Sum(Sizes, Stored) \in Nat
  BY <1>1, SizesTyped, SumNat
<1>3. ASSUME NEW o \in Stored PROVE Size(o) <= Sum(Sizes, Stored)
  <2>1. Sizes[o] <= Sum(Sizes, Stored)
    BY <1>1, SizesTyped, SumElement
  <2>2. QED  BY <1>1, <2>1
<1>4. QED  BY <1>2, <1>3, StoredBytesIsSum

\* The same files with the same bytes in them.
SameBytes == Stored' = Stored /\ \A o \in Stored : obj'[o].data = obj[o].data

\* Then as many bytes are stored.
LEMMA BytesStay ==
  ASSUME TypeOK, TypeOK', SameBytes
  PROVE  StoredBytes' = StoredBytes
<1>1. Stored \in SUBSET Objs /\ IsFiniteSet(Stored)
  BY SizesTyped
<1>2. \A o \in Stored : Sizes'[o] = Sizes[o]
  BY <1>1 DEF SameBytes, Sizes, Size
<1>3. Sum(Sizes', Stored) = Sum(Sizes, Stored)
  BY <1>1, <1>2, SumSame
<1>4. QED  BY <1>3, StoredBytesIsSum, StoredBytesNext DEF SameBytes

\* A file leaves the table.
LEMMA BytesLess ==
  ASSUME TypeOK, TypeOK', NEW f \in Stored, Stored' = Stored \ {f}, obj' = obj
  PROVE  StoredBytes' = StoredBytes - Size(f)
<1>1. /\ Stored \in SUBSET Objs /\ IsFiniteSet(Stored)
      /\ \A o \in Stored : Sizes[o] = Size(o) /\ Sizes[o] \in Int
  BY SizesTyped
<1>2. Sizes' = Sizes
  BY DEF Sizes, Size
<1>3. Sum(Sizes, Stored) = Sizes[f] + Sum(Sizes, Stored \ {f})
  BY <1>1, SumRemove
<1>4. Sum(Sizes, Stored \ {f}) \in Int
  BY <1>1, FS_RemoveElement, SumInt
<1>5. QED  BY <1>1, <1>2, <1>3, <1>4, StoredBytesIsSum, StoredBytesNext

\* An empty file enters the table.
LEMMA BytesMore ==
  ASSUME TypeOK, TypeOK', NEW f \in Objs \ Stored, Stored' = Stored \cup {f},
         obj'[f].data = <<>>, \A o \in Stored : obj'[o].data = obj[o].data
  PROVE  StoredBytes' = StoredBytes
<1>1. /\ Stored \in SUBSET Objs /\ IsFiniteSet(Stored)
      /\ \A o \in Stored : Sizes[o] \in Int
  BY SizesTyped
<1>2. Sizes'[f] = 0 /\ \A o \in Stored : Sizes'[o] = Sizes[o]
  BY <1>1 DEF Sizes, Size
<1>3. Sum(Sizes', Stored \cup {f}) = Sizes'[f] + Sum(Sizes', Stored)
  BY <1>1, <1>2, SumAdd
<1>4. Sum(Sizes', Stored) = Sum(Sizes, Stored) /\ Sum(Sizes, Stored) \in Int
  BY <1>1, <1>2, SumSame, SumInt
<1>5. QED  BY <1>2, <1>3, <1>4, StoredBytesIsSum, StoredBytesNext

\* One file is written.
LEMMA BytesChange ==
  ASSUME TypeOK, TypeOK', NEW f \in Stored, Stored' = Stored,
         \A o \in Stored \ {f} : obj'[o].data = obj[o].data
  PROVE  StoredBytes' = StoredBytes - Size(f) + Size(f)'
<1>1. /\ Stored \in SUBSET Objs /\ IsFiniteSet(Stored)
      /\ \A o \in Stored : Sizes[o] = Size(o) /\ Sizes[o] \in Int
  BY SizesTyped
<1>2. \A o \in Objs : Sizes'[o] = Size(o)' /\ Sizes'[o] \in Int
  <2>1. (TypeOK => \A o \in Objs : Sizes[o] = Size(o) /\ Size(o) \in Nat)'
    BY SizesTyped, PTL
  <2>2. QED  BY <2>1
<1>3. \A o \in Stored \ {f} : Sizes[o] = Sizes'[o]
  BY <1>1 DEF Sizes, Size
<1>4. Sum(Sizes', Stored) = Sum(Sizes, Stored) - Sizes[f] + Sizes'[f]
  BY <1>1, <1>2, <1>3, SumChange
<1>5. QED  BY <1>1, <1>2, <1>4, StoredBytesIsSum, StoredBytesNext

-----------------------------------------------------------------------------
(* Steps that do not change what is counted.                               *)

\* The one worker is the one that moves.
LEMMA TheCounter ==
  ASSUME OneWorker, NEW w \in Workers, currBytes' <= MaxBytes, StoredBytes' <= MaxBytes,
         CountsAt(w)'
  PROVE  CInv'
  BY DEF OneWorker, CInv

\* The numbers are natural numbers.
LEMMA Numbers ==
  ASSUME TypeOK, NEW w \in Workers
  PROVE  /\ currBytes \in Nat /\ MaxBytes \in Nat /\ SizeMod \in Nat
         /\ MaxBytes < SizeMod /\ StoredBytes \in Nat
         /\ Req(w).data \in Seq(Bytes) /\ Len(Req(w).data) \in Nat
         /\ frame[w].need \in Nat
<1>1. Req(w).data \in Seq(Bytes)
  <2>1. Req(w) \in Request \cup {NoFrame.req}
    BY DEF TypeOK, Frame, Req
  <2>2. \A r \in Request : r.data \in Seq(Bytes)
    BY DEF Request
  <2>3. NoFrame.req.data = <<>> /\ <<>> \in Seq(Bytes)
    BY DEF NoFrame
  <2>4. QED  BY <2>1, <2>2, <2>3
<1>2. frame[w].need \in Nat
  BY DEF TypeOK, Frame
<1>3. QED  BY <1>1, <1>2, StoredBytesTyped, FileServerAssumption DEF TypeOK

\* Arithmetic on size_t is exact as long as the result is in its range.
LEMMA ModExact ==
  ASSUME NEW n \in Nat, n < SizeMod
  PROVE  n % SizeMod = n
  BY FileServerAssumption

\* Where a handler has nothing to remember of the counters.
PlainLabels == Labels \ ({"OpenInsert", "OpenStore", "RemoveStore", "WriteData",
                          "WriteLoad", "WriteStore"} \cup EvictLabels)

\* A step to such a place, that leaves what is stored and curr_bytes.
LEMMA PlainStep ==
  ASSUME OneWorker, TypeOK, TypeOK', CInv, NEW w \in Workers, SameBytes,
         UNCHANGED currBytes, pc[w] \notin {"EvictStore", "RemoveStore"},
         pc'[w] \in PlainLabels, Sized(w)'
  PROVE  CInv'
<1>1. StoredBytes' = StoredBytes
  BY BytesStay
<1>2. Counted(w)'
  BY <1>1 DEF CInv, CountsAt, Counted, PlainLabels, EvictLabels
<1>3. Fresh(w)' /\ Pending(w)' /\ Short(w)' /\ Freeing(w)' /\ Promised(w)'
  BY DEF Fresh, Pending, Short, Freeing, Promised, PlainLabels, EvictLabels
<1>4. QED  BY <1>1, <1>2, <1>3, TheCounter DEF CInv, CountsAt

\* A handler returns.
LEMMA ReturnCounts ==
  ASSUME OneWorker, TypeOK, TypeOK', CInv, NEW w \in Workers, SameBytes,
         UNCHANGED currBytes, pc[w] \notin {"EvictStore", "RemoveStore"}, Return(w)
  PROVE  CInv'
<1>1. pc'[w] = "idle" /\ frame'[w] = NoFrame
  BY DEF TypeOK, Return
<1>2. pc'[w] \in PlainLabels
  BY <1>1 DEF PlainLabels, Labels, EvictLabels
<1>3. Sized(w)'
  BY <1>1, FileServerAssumption DEF Sized, Req, NoFrame
<1>4. QED  BY <1>2, <1>3, PlainStep

-----------------------------------------------------------------------------
(* The steps that count.                                                   *)

\* openFile: the new object is empty.
LEMMA CreateCounts ==
  ASSUME OneWorker, TypeOK, TypeOK', OInv, CInv, NEW w \in Workers, pc[w] = "OpenCreate",
         NEW o \in Objs \ heap, UNCHANGED <<table, currBytes>>,
         obj' = [obj EXCEPT ![o] = [Unused EXCEPT !.client = Client(w)]],
         frame' = [frame EXCEPT ![w].ptr = o], Goto(w, "OpenInsert")
  PROVE  CInv'
<1>1. /\ pc'[w] = "OpenInsert" /\ frame'[w].ptr = o /\ frame'[w].req = frame[w].req
  BY DEF TypeOK, Frame, Goto
<1>2. heap = Stored /\ Stored \in SUBSET Objs
  BY SizesTyped DEF OInv, AtWorker, HeapStored
<1>3. SameBytes
  BY <1>2 DEF SameBytes, Stored, TypeOK
<1>4. StoredBytes' = StoredBytes
  BY <1>3, BytesStay
<1>5. obj'[o].data = <<>>
  BY DEF TypeOK, Unused
<1>6. CountsAt(w)'
  BY <1>1, <1>4, <1>5
     DEF CInv, CountsAt, Fresh, Counted, Pending, Short, Freeing, Promised, Sized,
         File, Req
<1>7. QED  BY <1>4, <1>6, TheCounter DEF CInv

\* fu_add_file: an empty file adds nothing.
LEMMA InsertCounts ==
  ASSUME OneWorker, TypeOK, TypeOK', OInv, CInv, NEW w \in Workers, pc[w] = "OpenInsert",
         File(w) \in Objs, table' = Inserted(File(w)), UNCHANGED currBytes,
         obj' = [obj EXCEPT ![File(w)].path = Req(w).path],
         frame' = [frame EXCEPT ![w].tmp = (currBytes + Size(File(w))) % SizeMod],
         Goto(w, "OpenStore")
  PROVE  CInv'
<1>1. /\ pc'[w] = "OpenStore" /\ frame'[w].req = frame[w].req
      /\ frame'[w].tmp = (currBytes + Size(File(w))) % SizeMod
  BY DEF TypeOK, Frame, Goto
<1>2. File(w) \notin Stored /\ Stored' = Stored \cup {File(w)}
  BY InsertedEntries DEF OInv, AtWorker, HeapStored, TypeOK, Stored
<1>3. \A o \in Objs : obj'[o].data = obj[o].data
  BY DEF TypeOK, FileData
<1>4. obj[File(w)].data = <<>> /\ Size(File(w)) = 0
  BY DEF CInv, CountsAt, Fresh, Size
<1>5. StoredBytes' = StoredBytes
  BY <1>2, <1>3, <1>4, SizesTyped, BytesMore
<1>6. frame'[w].tmp = currBytes
  BY <1>1, <1>4, Numbers, ModExact, SMTT(30) DEF CInv
<1>7. CountsAt(w)'
  BY <1>1, <1>5, <1>6
     DEF CInv, CountsAt, Fresh, Counted, Pending, Short, Freeing, Promised, Sized, Req
<1>8. QED  BY <1>5, <1>7, TheCounter DEF CInv

\* fu_add_file: curr_bytes is set to what it was.
LEMMA OpenStoreCounts ==
  ASSUME OneWorker, TypeOK, TypeOK', CInv, NEW w \in Workers, OpenStore(w)
  PROVE  CInv'
<1>1. currBytes' = currBytes
  BY DEF OpenStore, CInv, CountsAt, Pending
<1>2. SameBytes
  BY DEF OpenStore, SameBytes, Stored
<1>3. QED  BY <1>1, <1>2, ReturnCounts DEF OpenStore, Reply

\* The length is compared with the room there is: either it fits, or an
\* eviction begins.
LEMMA LenCounts ==
  ASSUME OneWorker, TypeOK, TypeOK', CInv, NEW w \in Workers, WriteLen(w)
  PROVE  CInv'
<1>1. SameBytes /\ UNCHANGED currBytes /\ pc[w] = "WriteLen"
  BY DEF WriteLen, SameBytes, Stored
<1>2. StoredBytes' = StoredBytes
  BY <1>1, BytesStay
<1>3. CASE Return(w)
  BY <1>1, <1>3, ReturnCounts
<1>4. CASE ~Return(w)
  <2>1. frame' = frame
    BY <1>4 DEF WriteLen
  <2>2. CASE pc'[w] = "EvictStart" /\ BytesAvailable < Len(Req(w).data)
    <3>1. CountsAt(w)'
      BY <1>1, <1>2, <2>1, <2>2
         DEF CInv, CountsAt, Fresh, Counted, Pending, Short, Freeing, Promised, Sized,
             Req, BytesAvailable
    <3>2. QED  BY <1>1, <1>2, <3>1, TheCounter DEF CInv
  <2>3. CASE pc'[w] = "WriteData" /\ BytesAvailable >= Len(Req(w).data)
    <3>1. currBytes + Len(Req(w).data) <= MaxBytes
      BY <2>3, Numbers DEF CInv, BytesAvailable
    <3>2. CountsAt(w)'
      BY <1>1, <1>2, <2>1, <2>3, <3>1
         DEF CInv, CountsAt, Fresh, Counted, Pending, Short, Freeing, Promised, Sized, Req
    <3>3. QED  BY <1>1, <1>2, <3>2, TheCounter DEF CInv
  <2>4. QED  BY <1>4, <2>2, <2>3 DEF WriteLen, Goto, TypeOK
<1>5. QED  BY <1>3, <1>4

\* bytes_to_free is what is missing.
LEMMA EvictStartCounts ==
  ASSUME OneWorker, TypeOK, TypeOK', CInv, NEW w \in Workers, EvictStart(w)
  PROVE  CInv'
<1>1. SameBytes /\ UNCHANGED currBytes /\ pc[w] = "EvictStart"
  BY DEF EvictStart, SameBytes, Stored
<1>2. StoredBytes' = StoredBytes
  BY <1>1, BytesStay
<1>3. CASE Return(w)
  BY <1>1, <1>3, ReturnCounts
<1>4. CASE ~Return(w)
  <2> DEFINE need == (Len(Req(w).data) - BytesAvailable) % SizeMod
  <2>1. /\ frame' = [frame EXCEPT ![w].need = need, ![w].todo = ToSet(table)]
        /\ Goto(w, "EvictAsk")
    BY <1>4 DEF EvictStart, Reply
  <2>2. BytesAvailable = MaxBytes - currBytes
    BY Numbers DEF CInv, BytesAvailable
  <2>3. Len(Req(w).data) - BytesAvailable \in Nat /\ Len(Req(w).data) < SizeMod
        /\ Len(Req(w).data) - BytesAvailable < SizeMod
    BY <1>1, <2>2, Numbers DEF CInv, CountsAt, Short, Sized
  <2>4. need = Len(Req(w).data) - (MaxBytes - currBytes)
    BY <2>2, <2>3, ModExact
  <2> HIDE DEF need
  <2>5. /\ pc'[w] = "EvictAsk" /\ frame'[w].need = need /\ frame'[w].req = frame[w].req
    BY <2>1 DEF TypeOK, Frame, Goto
  <2>6. StoredBytes = currBytes
    BY <1>1 DEF CInv, CountsAt, Counted
  <2>7. StoredBytes + Len(Req(w).data) = MaxBytes + need
    BY <2>4, <2>6, Numbers
  <2>n. MaxBytes + need <= MaxBytes + need
    BY <2>3, <2>4, <2>2, Numbers
  <2>8. CountsAt(w)'
    BY <1>1, <1>2, <2>5, <2>6, <2>7, <2>n
       DEF CInv, CountsAt, Fresh, Counted, Pending, Short, Unfreed, Freeing, Promised,
           Sized, Req
  <2>9. QED  BY <1>1, <1>2, <2>8, TheCounter DEF CInv
<1>5. QED  BY <1>3, <1>4

\* A step of the eviction that takes no victim.
LEMMA EvictPassCounts ==
  ASSUME OneWorker, TypeOK, TypeOK', CInv, NEW w \in Workers, EvictAsk(w) \/ EvictSkip(w)
  PROVE  CInv'
<1>1. /\ SameBytes /\ UNCHANGED currBytes
      /\ pc[w] \in {"EvictAsk", "Evict"} /\ pc'[w] = "Evict"
  BY DEF EvictAsk, EvictSkip, SameBytes, Stored, store, Goto, TypeOK
<1>2. StoredBytes' = StoredBytes
  BY <1>1, BytesStay
<1>3. frame'[w].req = frame[w].req /\ frame'[w].need = frame[w].need
  <2>1. CASE EvictAsk(w)
    <3>1. PICK b : frame' = [frame EXCEPT ![w].back = b]
      BY <2>1 DEF EvictAsk
    <3>2. QED  BY <3>1 DEF TypeOK, Frame
  <2>2. CASE EvictSkip(w)
    BY <2>2 DEF EvictSkip, TypeOK, Frame
  <2>3. QED  BY <2>1, <2>2
<1>4. CountsAt(w)'
  BY <1>1, <1>2, <1>3
     DEF CInv, CountsAt, Fresh, Counted, Pending, Short, Unfreed, Freeing, Promised,
         Sized, Req
<1>5. QED  BY <1>1, <1>2, <1>4, TheCounter DEF CInv

\* b bytes stored, l to write, room for m, n missing; s bytes leave.
LEMMA StillMissing ==
  ASSUME NEW b \in Nat, NEW l \in Nat, NEW m \in Nat, NEW n \in Nat, NEW s \in Nat,
         b + l <= m + n, n # 0 => b + l = m + n
  PROVE  LET k == IF s > n THEN 0 ELSE n - s
         IN b - s + l <= m + k /\ (k # 0 => b - s + l = m + k)
<1>1. CASE s > n
  BY <1>1
<1>2. CASE ~(s > n)
  <2>1. n - s # 0 => n # 0
    BY <1>2
  <2>2. QED  BY <1>2, <2>1
<1>3. QED  BY <1>1, <1>2

\* A victim's bytes are taken off what is missing.
LEMMA TakeCounts ==
  ASSUME OneWorker, TypeOK, TypeOK', CInv, NEW w \in Workers, EvictTake(w)
  PROVE  CInv'
<1>1. PICK o \in frame[w].todo :
        /\ obj' = [obj EXCEPT ![o].client = Evicted]
        /\ frame' = [frame EXCEPT ![w].todo = @ \ {o}, ![w].vic = o,
                                  ![w].need = StillNeeded(@, o)]
  BY DEF EvictTake
<1>2. /\ pc[w] = "Evict" /\ pc'[w] = "EvictUnlink" /\ UNCHANGED <<table, currBytes>>
  BY DEF EvictTake, Goto, TypeOK
<1>3. /\ o \in Objs /\ frame'[w].vic = o /\ frame'[w].req = frame[w].req
      /\ frame'[w].need = StillNeeded(frame[w].need, o)
  BY <1>1 DEF TypeOK, Frame
<1>4. \A x \in Objs : obj'[x].data = obj[x].data
  BY <1>1 DEF TypeOK, FileData
<1>5. SameBytes /\ Size(o)' = Size(o)
  BY <1>2, <1>3, <1>4, SizesTyped DEF SameBytes, Stored, Size
<1>6. StoredBytes' = StoredBytes
  BY <1>5, BytesStay
<1>7. /\ StoredBytes + Len(Req(w).data) <= MaxBytes + frame[w].need
      /\ frame[w].need # 0 => StoredBytes + Len(Req(w).data) = MaxBytes + frame[w].need
  BY <1>2 DEF CInv, CountsAt, Freeing, Unfreed
<1>8. /\ StoredBytes - Size(o) + Len(Req(w).data) <= MaxBytes + StillNeeded(frame[w].need, o)
      /\ StillNeeded(frame[w].need, o) # 0 =>
           StoredBytes - Size(o) + Len(Req(w).data) = MaxBytes + StillNeeded(frame[w].need, o)
  <2>1. /\ StoredBytes \in Nat /\ Len(Req(w).data) \in Nat /\ MaxBytes \in Nat
        /\ frame[w].need \in Nat /\ Size(o) \in Nat
    BY <1>3, Numbers, SizeTyped
  <2> DEFINE b == StoredBytes
             l == Len(Req(w).data)
             n == frame[w].need
             s == Size(o)
             k == IF s > n THEN 0 ELSE n - s
  <2>2. StillNeeded(n, o) = k
    BY DEF StillNeeded
  <2>3. b + l <= MaxBytes + n /\ (n # 0 => b + l = MaxBytes + n)
    BY <1>7
  <2>n. b \in Nat /\ l \in Nat /\ MaxBytes \in Nat /\ n \in Nat /\ s \in Nat
    BY <2>1
  <2> HIDE DEF b, l, n, s
  <2>4. b - s + l <= MaxBytes + k /\ (k # 0 => b - s + l = MaxBytes + k)
    BY <2>n, <2>3, StillMissing
  <2> HIDE DEF k
  <2>5. QED  BY <2>2, <2>4 DEF b, l, n, s
<1>9. Freeing(w)'
  BY <1>2, <1>3, <1>5, <1>6, <1>8 DEF Freeing, Unfreed, Req
<1>10. CountsAt(w)'
  BY <1>2, <1>3, <1>6, <1>9
     DEF CInv, CountsAt, Fresh, Counted, Pending, Short, Promised, Sized, Req
<1>11. QED  BY <1>2, <1>6, <1>10, TheCounter DEF CInv

\* fu_remove_file: the entry's bytes are taken off curr_bytes, in a local.
LEMMA UnlinkCounts ==
  ASSUME TypeOK, TypeOK', OInv, CInv, NEW w \in Workers, NEW i \in DOMAIN table,
         pc[w] \in {"EvictUnlink", "RemoveUnlink"}, Unlink(w, i), UNCHANGED obj
  PROVE  /\ StoredBytes' = StoredBytes - Size(table[i])
         /\ frame'[w].tmp = StoredBytes' /\ StoredBytes' <= MaxBytes
         /\ frame'[w].req = frame[w].req /\ frame'[w].need = frame[w].need
<1>1. table[i] \in Stored /\ table[i] \in Objs
  BY TableObjs DEF Stored, ToSet
<1>2. Stored' = Stored \ {table[i]}
  BY UnlinkedStored DEF TypeOK, OInv, Unlink, Stored
<1>3. StoredBytes' = StoredBytes - Size(table[i])
  BY <1>1, <1>2, BytesLess
<1>4. StoredBytes = currBytes
  BY DEF CInv, CountsAt, Counted
<1>5. Size(table[i]) \in Nat /\ Size(table[i]) <= StoredBytes
  BY <1>1, SizeTyped, StoredBytesTyped
<1>6. StoredBytes' \in Nat /\ StoredBytes' <= MaxBytes /\ StoredBytes' < SizeMod
  BY <1>3, <1>5, Numbers DEF CInv
<1>7. Lowered(Size(table[i])) = StoredBytes'
  BY <1>3, <1>4, <1>6, ModExact DEF Lowered
<1>8. /\ frame'[w].tmp = Lowered(Size(table[i])) /\ frame'[w].req = frame[w].req
      /\ frame'[w].need = frame[w].need
  BY DEF Unlink, TypeOK, Frame
<1>9. QED  BY <1>3, <1>6, <1>7, <1>8

\* The victim leaves: it is the file whose bytes were taken off.
LEMMA EvictUnlinkCounts ==
  ASSUME OneWorker, TypeOK, TypeOK', OInv, CInv, NEW w \in Workers, EvictUnlink(w)
  PROVE  CInv'
<1>1. PICK i \in DOMAIN table :
        obj[table[i]].path = obj[frame[w].vic].path /\ Unlink(w, i)
  BY DEF EvictUnlink, Newest
<1>2. /\ pc[w] = "EvictUnlink" /\ pc'[w] = "EvictStore" /\ UNCHANGED <<obj, currBytes>>
  BY DEF EvictUnlink, Goto, TypeOK
<1>3. table[i] = frame[w].vic
  BY <1>1, <1>2 DEF OInv, AtWorker, VictimMarked, UniquePaths, Stored, ToSet
<1>4. /\ StoredBytes' = StoredBytes - Size(frame[w].vic)
      /\ frame'[w].tmp = StoredBytes' /\ StoredBytes' <= MaxBytes
      /\ frame'[w].req = frame[w].req /\ frame'[w].need = frame[w].need
  BY <1>1, <1>2, <1>3, UnlinkCounts
<1>5. CountsAt(w)'
  BY <1>2, <1>4
     DEF CInv, CountsAt, Fresh, Counted, Pending, Short, Unfreed, Freeing, Promised,
         Sized, Req
<1>6. QED  BY <1>2, <1>4, <1>5, TheCounter DEF CInv

\* removeFile: whatever entry leaves, its bytes are taken off.
LEMMA RemoveUnlinkCounts ==
  ASSUME OneWorker, TypeOK, TypeOK', OInv, CInv, NEW w \in Workers, RemoveUnlink(w)
  PROVE  CInv'
<1>1. PICK i \in DOMAIN table : Unlink(w, i)
  BY DEF RemoveUnlink, Victims, Newest
<1>2. /\ pc[w] = "RemoveUnlink" /\ pc'[w] = "RemoveStore" /\ UNCHANGED <<obj, currBytes>>
  BY DEF RemoveUnlink, Goto, TypeOK
<1>3. /\ frame'[w].tmp = StoredBytes' /\ StoredBytes' <= MaxBytes
      /\ frame'[w].req = frame[w].req
  BY <1>1, <1>2, UnlinkCounts
<1>4. CountsAt(w)'
  BY <1>2, <1>3
     DEF CInv, CountsAt, Fresh, Counted, Pending, Short, Freeing, Promised, Sized, Req
<1>5. QED  BY <1>2, <1>3, <1>4, TheCounter DEF CInv

\* The second half: curr_bytes is again what is stored.
LEMMA LoweredCounts ==
  ASSUME OneWorker, TypeOK, TypeOK', CInv, NEW w \in Workers, EvictStore(w) \/ RemoveStore(w)
  PROVE  CInv'
<1>1. SameBytes /\ currBytes' = StoredBytes
  BY DEF EvictStore, RemoveStore, SameBytes, Stored, CInv, CountsAt, Counted
<1>2. StoredBytes' = StoredBytes
  BY <1>1, BytesStay
<1>3. CASE EvictStore(w)
  <2>1. pc[w] = "EvictStore" /\ pc'[w] = "Evict" /\ frame' = frame
    BY <1>3 DEF EvictStore, Goto, TypeOK
  <2>2. CountsAt(w)'
    BY <1>1, <1>2, <2>1
       DEF CInv, CountsAt, Fresh, Counted, Pending, Short, Unfreed, Freeing, Promised,
           Sized, Req
  <2>3. QED  BY <1>1, <1>2, <2>2, TheCounter DEF CInv
<1>4. CASE RemoveStore(w)
  <2>1. pc'[w] = "idle" /\ frame'[w] = NoFrame
    BY <1>4 DEF RemoveStore, Reply, Return, TypeOK
  <2>2. CountsAt(w)'
    BY <1>1, <1>2, <2>1, FileServerAssumption
       DEF CInv, CountsAt, Fresh, Counted, Pending, Short, Freeing, Promised, Sized, Req,
           NoFrame
  <2>3. QED  BY <1>1, <1>2, <2>2, TheCounter DEF CInv
<1>5. QED  BY <1>3, <1>4

\* The eviction ends: nothing is missing any more.
LEMMA EvictEndCounts ==
  ASSUME OneWorker, TypeOK, TypeOK', CInv, NEW w \in Workers, EvictEnd(w)
  PROVE  CInv'
<1>1. SameBytes /\ UNCHANGED currBytes /\ pc[w] = "Evict"
  BY DEF EvictEnd, SameBytes, Stored
<1>2. StoredBytes' = StoredBytes
  BY <1>1, BytesStay
<1>3. CASE Return(w)
  BY <1>1, <1>3, ReturnCounts
<1>4. CASE ~Return(w)
  <2>1. frame[w].need = 0 /\ frame' = frame /\ pc'[w] = "WriteData"
    BY <1>4 DEF EvictEnd, Goto, TypeOK
  <2>2. StoredBytes = currBytes /\ StoredBytes + Len(Req(w).data) <= MaxBytes
    BY <1>1, <2>1, Numbers DEF CInv, CountsAt, Counted, Freeing, Unfreed
  <2>3. CountsAt(w)'
    BY <1>1, <1>2, <2>1, <2>2
       DEF CInv, CountsAt, Fresh, Counted, Pending, Short, Freeing, Promised, Sized, Req
  <2>4. QED  BY <1>1, <1>2, <2>3, TheCounter DEF CInv
<1>5. QED  BY <1>3, <1>4

\* What arrives is as long as what was announced.
LEMMA IncomingLength ==
  ASSUME TypeOK, NEW w \in Workers, NEW d \in Incoming(w)
  PROVE  Len(d) = Len(Req(w).data) /\ d \in Seq(Bytes)
<1>1. Req(w).data \in Seq(Bytes)
  BY Numbers
<1>2. [k \in DOMAIN Req(w).data |-> 0] \in Seq(Bytes)
  BY <1>1, FileServerAssumption
<1>3. Len([k \in DOMAIN Req(w).data |-> 0]) = Len(Req(w).data)
  BY <1>1
<1>4. QED  BY <1>1, <1>2, <1>3 DEF Incoming

\* While the file to be written is stored and there is room, the value that
\* fu_writefile and fu_append compute does not wrap around, and fits.
LEMMA NewBytesExact ==
  ASSUME TypeOK, CInv, NEW w \in Workers, File(w) \in Stored, currBytes = StoredBytes,
         NEW d \in Seq(Bytes), currBytes + Len(d) <= MaxBytes
  PROVE  /\ Written(w, d) \in Seq(Bytes)
         /\ NewBytes(w, d) = currBytes + Len(Written(w, d)) - Size(File(w))
         /\ NewBytes(w, d) <= MaxBytes
<1>1. /\ Size(File(w)) \in Nat /\ Size(File(w)) <= currBytes /\ File(w) \in Objs
      /\ obj[File(w)].data \in Seq(Bytes) /\ Size(File(w)) = Len(obj[File(w)].data)
  BY SizesTyped, SizeTyped, StoredBytesTyped DEF Size
<1>2. Written(w, d) \in Seq(Bytes)
  BY <1>1, WrittenTyped
<1>3. Len(Written(w, d)) = IF Req(w).op = "WRITE" THEN Len(d) ELSE Size(File(w)) + Len(d)
  BY <1>1 DEF Written
<1> DEFINE n == currBytes + Len(Written(w, d)) - Size(File(w))
<1>4. n \in Nat /\ n <= MaxBytes /\ n < SizeMod
  <2>1. Len(d) \in Nat /\ currBytes \in Nat /\ MaxBytes \in Nat /\ SizeMod \in Nat
        /\ MaxBytes < SizeMod
    BY Numbers
  <2> DEFINE z == Size(File(w))
             k == Len(Written(w, d))
  <2>2. /\ z \in Nat /\ z <= currBytes
        /\ k = Len(d) \/ k = z + Len(d)
    BY <1>1, <1>3
  <2> HIDE DEF z, k
  <2>3. currBytes + k - z \in Nat /\ currBytes + k - z <= MaxBytes
    BY <2>1, <2>2
  <2>4. currBytes + k - z < SizeMod
    BY <2>1, <2>3
  <2>5. QED  BY <2>3, <2>4 DEF z, k
<1>5. n % SizeMod = n
  <2> HIDE DEF n
  <2>1. QED  BY <1>4, ModExact
<1>6. QED  BY <1>2, <1>4, <1>5 DEF NewBytes

\* The data arrives.
LEMMA DataCounts ==
  ASSUME OneWorker, TypeOK, TypeOK', CInv, NEW w \in Workers, WriteData(w)
  PROVE  CInv'
<1>1. SameBytes /\ UNCHANGED currBytes /\ pc[w] = "WriteData"
  BY DEF WriteData, SameBytes, Stored
<1>2. StoredBytes' = StoredBytes
  BY <1>1, BytesStay
<1>3. CASE Return(w)
  BY <1>1, <1>3, ReturnCounts
<1>4. CASE ~Return(w)
  <2>1. PICK d \in Incoming(w) : /\ frame' = [frame EXCEPT ![w].req.data = d]
                                 /\ Goto(w, "WriteLoad")
    BY <1>4 DEF WriteData, Reply
  <2>2. pc'[w] = "WriteLoad" /\ frame'[w].req.data = d
    BY <2>1 DEF Goto, TypeOK, Frame, Request, NoFrame
  <2>3. Len(frame'[w].req.data) = Len(Req(w).data)
    BY <2>2, IncomingLength
  <2>4. CountsAt(w)'
    BY <1>1, <1>2, <2>2, <2>3
       DEF CInv, CountsAt, Fresh, Counted, Pending, Short, Freeing, Promised, Sized, Req
  <2>5. QED  BY <1>1, <1>2, <2>4, TheCounter DEF CInv
<1>5. QED  BY <1>3, <1>4

\* The new value of curr_bytes is computed.
LEMMA LoadCounts ==
  ASSUME OneWorker, TypeOK, TypeOK', OInv, CInv, NEW w \in Workers, WriteLoad(w),
         File(w) \in Stored
  PROVE  CInv'
<1>1. SameBytes /\ UNCHANGED <<currBytes, obj>> /\ pc[w] = "WriteLoad"
  BY DEF WriteLoad, SameBytes, Stored, store
<1>2. StoredBytes' = StoredBytes
  BY <1>1, BytesStay
<1>3. /\ pc'[w] = "WriteStore" /\ frame'[w].req = frame[w].req
      /\ frame'[w].ptr = frame[w].ptr /\ frame'[w].tmp = NewBytes(w, Req(w).data)
  BY DEF WriteLoad, Goto, TypeOK, Frame
<1>4. currBytes = StoredBytes /\ currBytes + Len(Req(w).data) <= MaxBytes
  BY <1>1 DEF CInv, CountsAt, Counted, Promised
<1>5. frame'[w].tmp = currBytes + Len(Written(w, Req(w).data)) - Size(File(w))
  BY <1>3, <1>4, Numbers, NewBytesExact
<1>6. /\ Written(w, Req(w).data)' = Written(w, Req(w).data)
      /\ Size(File(w))' = Size(File(w)) /\ Req(w)' = Req(w)
  BY <1>1, <1>3 DEF Written, Size, File, Req
<1>7. Pending(w)'
  BY <1>1, <1>3, <1>5, <1>6 DEF Pending
<1>8. CountsAt(w)'
  BY <1>1, <1>2, <1>3, <1>7
     DEF CInv, CountsAt, Fresh, Counted, Short, Freeing, Promised, Sized, Req
<1>9. QED  BY <1>1, <1>2, <1>8, TheCounter DEF CInv

\* The bytes are written, and counted.
LEMMA StoreCounts ==
  ASSUME OneWorker, TypeOK, TypeOK', OInv, CInv, NEW w \in Workers, WriteStore(w),
         File(w) \in Stored
  PROVE  CInv'
<1> DEFINE d == Req(w).data
<1>1. /\ pc[w] = "WriteStore" /\ Stored' = Stored /\ currBytes' = frame[w].tmp
      /\ obj' = [obj EXCEPT ![File(w)].data = Written(w, d)]
  BY DEF WriteStore, Stored
<1>2. pc'[w] = "idle" /\ frame'[w] = NoFrame
  BY DEF WriteStore, Reply, Return, TypeOK
<1>3. currBytes = StoredBytes /\ currBytes + Len(d) <= MaxBytes
  BY <1>1 DEF CInv, CountsAt, Counted, Promised
<1>4. /\ frame[w].tmp = currBytes + Len(Written(w, d)) - Size(File(w))
      /\ NewBytes(w, d) = currBytes + Len(Written(w, d)) - Size(File(w))
      /\ NewBytes(w, d) <= MaxBytes
  BY <1>1, <1>3, Numbers, NewBytesExact DEF CInv, CountsAt, Pending
<1>5. /\ Len(obj'[File(w)].data) = Len(Written(w, d))
      /\ \A o \in Stored \ {File(w)} : obj'[o].data = obj[o].data
  BY <1>1, SizesTyped DEF TypeOK, FileData
<1> DEFINE f == File(w)
<1>6. StoredBytes' = StoredBytes - Size(f) + Len(Written(w, d))
  <2>1. f \in Stored /\ \A o \in Stored \ {f} : obj'[o].data = obj[o].data
    BY <1>5
  <2> HIDE DEF f
  <2>2. StoredBytes' = StoredBytes - Len(obj[f].data) + Len(obj'[f].data)
    BY <1>1, <2>1, SizesTyped, BytesChange DEF Size
  <2>3. QED  BY <1>5, <2>2 DEF f, Size
<1>7. StoredBytes' = currBytes' /\ StoredBytes' <= MaxBytes
  BY <1>1, <1>3, <1>4, <1>6, Numbers, SizeTyped, SizesTyped
<1>8. CountsAt(w)'
  BY <1>2, <1>7, FileServerAssumption
     DEF CountsAt, Fresh, Counted, Pending, Short, Freeing, Promised, Sized, Req, NoFrame
<1>9. QED  BY <1>7, <1>8, TheCounter

-----------------------------------------------------------------------------
(* Every step.                                                             *)

\* One step for each action of a handler.
LEMMA HandleCounts ==
  ASSUME OneWorker, IInv, TypeOK', OInv, CInv, NEW w \in Workers, Handle(w)
  PROVE  CInv'
<1>0. TypeOK /\ NoWorker \notin Workers /\ NoObj \notin Objs
  BY FileServerAssumption DEF IInv
<1>1. pc[w] \in FileUse => File(w) \in Objs
  BY DEF IInv, LocalsOK, LocalsAt, File
<1>2. pc[w] \in {"WriteLoad", "WriteStore"} => File(w) \in Stored
  BY <1>0, <1>1 DEF OInv, AtWorker, Points, HeapStored, FileUse, Labels
<1>3. UNCHANGED <<table, obj>> => SameBytes
  BY DEF SameBytes, Stored
<1>r. ASSUME Return(w), SameBytes, UNCHANGED currBytes,
             pc[w] \notin {"EvictStore", "RemoveStore"}
      PROVE  CInv'
  BY <1>r, <1>0, ReturnCounts
<1>p. ASSUME SameBytes, UNCHANGED currBytes, pc[w] \notin {"EvictStore", "RemoveStore"},
             frame'[w].req = frame[w].req, pc'[w] \in PlainLabels
      PROVE  CInv'
  <2>1. Sized(w)'
    BY <1>p DEF CInv, CountsAt, Sized, Req
  <2>2. QED  BY <1>p, <2>1, <1>0, PlainStep
<1>4. \A l : Goto(w, l) => pc'[w] = l
  BY <1>0 DEF Goto, TypeOK
<1>5. ASSUME NEW v, \/ frame' = frame
                    \/ frame' = [frame EXCEPT ![w].ptr = v]
                    \/ frame' = [frame EXCEPT ![w].todo = v]
                    \/ \E n : frame' = [frame EXCEPT ![w].todo = v, ![w].need = n]
      PROVE  frame'[w].req = frame[w].req
  BY <1>0, <1>5 DEF TypeOK, Frame
<1> USE DEF PlainLabels, Labels, EvictLabels
<1>10. ASSUME ServeNothing(w) \/ ReadSend(w) \/ ReadNEnd(w) \/ EvictAbort(w)
              \/ WriteBroken(w) \/ RemoveMissed(w)
       PROVE  CInv'
  BY <1>10, <1>3, <1>r
     DEF ServeNothing, ReadSend, ReadNEnd, EvictAbort, WriteBroken, RemoveMissed, Reply, store
<1>11. ASSUME OpenLookup(w) \/ CloseLookup(w) \/ ReadLookup(w) PROVE CInv'
  <2>1. SameBytes /\ UNCHANGED currBytes /\ pc[w] \in {"Open", "Close", "Read"}
    BY <1>11, <1>3 DEF OpenLookup, CloseLookup, ReadLookup, Find, store
  <2>2. CASE Return(w)
    BY <2>1, <2>2, <1>r
  <2>3. CASE ~Return(w)
    <3>1. frame' = frame \/ \E i \in Newest(Req(w).path) :
                              frame' = [frame EXCEPT ![w].ptr = table[i]]
      BY <1>11, <2>3 DEF OpenLookup, CloseLookup, ReadLookup, Find, Reply
    <3>2. frame'[w].req = frame[w].req
      BY <3>1, <1>5
    <3>3. pc'[w] \in {"OpenFound", "OpenCreate", "CloseFound", "ReadFound"}
      BY <1>11, <2>3, <1>4 DEF OpenLookup, CloseLookup, ReadLookup, Find, Reply
    <3>4. QED  BY <2>1, <3>2, <3>3, <1>p
  <2>4. QED  BY <2>2, <2>3
<1>12. ASSUME OpenFound(w) \/ CloseFound(w) PROVE CInv'
  <2>1. /\ UNCHANGED <<table, currBytes>> /\ Return(w)
        /\ pc[w] \in {"OpenFound", "CloseFound"}
        /\ obj' = obj \/ \E c : obj' = [obj EXCEPT ![File(w)].client = c]
    BY <1>12 DEF OpenFound, CloseFound, Reply
  <2>2. \A o \in Objs : obj'[o].data = obj[o].data
    <3>1. obj \in [Objs -> FileData]
      BY <1>0 DEF TypeOK
    <3>2. CASE \E c : obj' = [obj EXCEPT ![File(w)].client = c]
      BY <3>1, <3>2 DEF FileData
    <3>3. QED  BY <2>1, <3>2
  <2>3. SameBytes
    BY <2>1, <2>2, <1>0, SizesTyped DEF SameBytes, Stored
  <2>4. QED  BY <2>1, <2>3, <1>r
<1>13. ASSUME OpenCreate(w) PROVE CInv'
  <2>1. CASE Return(w) /\ UNCHANGED store
    BY <1>13, <2>1, <1>3, <1>r DEF OpenCreate, store
  <2>2. CASE ~(Return(w) /\ UNCHANGED store)
    <3>1. PICK o \in Mallocable :
            /\ UNCHANGED <<table, currBytes>>
            /\ obj' = [obj EXCEPT ![o] = [Unused EXCEPT !.client = Client(w)]]
            /\ frame' = [frame EXCEPT ![w].ptr = o] /\ Goto(w, "OpenInsert")
            /\ pc[w] = "OpenCreate"
      BY <1>13, <2>2 DEF OpenCreate, Reply
    <3>2. QED  BY <3>1, <1>0, CreateCounts DEF Mallocable
  <2>3. QED  BY <2>1, <2>2
<1>14. ASSUME OpenInsert(w) PROVE CInv'
  <2>1. pc[w] = "OpenInsert" /\ ~FilesFull /\ File(w) \in Objs
    BY <1>14, <1>1, FileServerAssumption
       DEF OpenInsert, IInv, Room, FilesFull, TypeOK, FileUse, Labels
  <2>2. /\ table' = Inserted(File(w)) /\ UNCHANGED currBytes
        /\ obj' = [obj EXCEPT ![File(w)].path = Req(w).path]
        /\ frame' = [frame EXCEPT ![w].tmp = (currBytes + Size(File(w))) % SizeMod]
        /\ Goto(w, "OpenStore")
    BY <1>14, <2>1 DEF OpenInsert
  <2>3. QED  BY <2>1, <2>2, <1>0, InsertCounts
<1>15. ASSUME OpenStore(w) PROVE CInv'
  BY <1>15, <1>0, OpenStoreCounts
<1>16. ASSUME ReadFound(w) \/ ReadNFile(w) PROVE CInv'
  <2>1. /\ SameBytes /\ UNCHANGED currBytes
        /\ pc[w] \in {"ReadFound", "ReadNFile"}
    BY <1>16, <1>3 DEF ReadFound, ReadNFile
  <2>2. CASE Return(w)
    BY <2>1, <2>2, <1>r
  <2>3. CASE ~Return(w) /\ ReadFound(w)
    BY <2>1, <2>3, <1>4, <1>p DEF ReadFound, Reply
  <2>4. CASE ~Return(w) /\ ReadNFile(w)
    <3>1. PICK o : /\ pc' = pc
                   /\ \/ frame' = [frame EXCEPT ![w].todo = @ \ {o}]
                      \/ frame' = [[frame EXCEPT ![w].todo = @ \ {o}] EXCEPT ![w].need = @ - 1]
      BY <2>4 DEF ReadNFile
    <3>2. frame \in [Workers -> Frame]
      BY <1>0 DEF TypeOK
    <3>3. frame'[w].req = frame[w].req
      <4>1. CASE frame' = [frame EXCEPT ![w].todo = @ \ {o}]
        BY <4>1, <3>2 DEF Frame
      <4>2. CASE frame' = [[frame EXCEPT ![w].todo = @ \ {o}] EXCEPT ![w].need = @ - 1]
        BY <4>2, <3>2 DEF Frame
      <4>3. QED  BY <3>1, <4>1, <4>2
    <3>4. pc'[w] \in {"ReadFound", "ReadNFile"}
      BY <2>1, <3>1
    <3>5. QED  BY <2>1, <3>3, <3>4, <1>p
  <2>5. QED  BY <1>16, <2>2, <2>3, <2>4
<1>17. ASSUME ReadNLock(w) PROVE CInv'
  <2>1. frame'[w].req = frame[w].req
    BY <1>17, <1>5 DEF ReadNLock
  <2>2. QED  BY <1>17, <2>1, <1>3, <1>4, <1>p DEF ReadNLock
<1>18. ASSUME WriteLock(w) \/ RemoveLock(w) PROVE CInv'
  <2>1. SameBytes /\ UNCHANGED currBytes /\ pc[w] \in {"Write", "Remove"}
    BY <1>18, <1>3 DEF WriteLock, RemoveLock
  <2>2. CASE Return(w)
    BY <2>1, <2>2, <1>r
  <2>3. CASE ~Return(w)
    <3>1. /\ \E i \in Newest(Req(w).path) : frame' = [frame EXCEPT ![w].ptr = table[i]]
          /\ pc'[w] \in {"WriteOwner", "RemoveOwner"}
      BY <1>18, <2>3, <1>4 DEF WriteLock, RemoveLock, Reply
    <3>2. frame'[w].req = frame[w].req
      BY <3>1, <1>5
    <3>3. QED  BY <2>1, <3>1, <3>2, <1>p
  <2>4. QED  BY <2>2, <2>3
<1>19. ASSUME WriteOwner(w) \/ RemoveOwner(w) PROVE CInv'
  <2>1. /\ SameBytes /\ UNCHANGED currBytes /\ pc[w] \in {"WriteOwner", "RemoveOwner"}
    BY <1>19, <1>3 DEF WriteOwner, RemoveOwner
  <2>2. Return(w) \/ (frame' = frame /\ pc'[w] \in {"WriteLen", "RemoveUnlink"})
    BY <1>19, <1>4 DEF WriteOwner, RemoveOwner, Reply
  <2>3. QED  BY <2>1, <2>2, <1>r, <1>p
<1>20. ASSUME WriteLen(w) \/ EvictStart(w) \/ EvictAsk(w) \/ EvictSkip(w) PROVE CInv'
  BY <1>20, <1>0, LenCounts, EvictStartCounts, EvictPassCounts
<1>21. ASSUME EvictTake(w) \/ EvictUnlink(w) \/ EvictStore(w) \/ EvictEnd(w) PROVE CInv'
  BY <1>21, <1>0, TakeCounts, EvictUnlinkCounts, LoweredCounts, EvictEndCounts
<1>22. ASSUME WriteData(w) PROVE CInv'
  BY <1>22, <1>0, DataCounts
<1>23. ASSUME WriteLoad(w) PROVE CInv'
  <2>1. File(w) \in Stored
    BY <1>23, <1>2 DEF WriteLoad
  <2>2. QED  BY <1>23, <2>1, <1>0, LoadCounts
<1>24. ASSUME WriteStore(w) PROVE CInv'
  <2>1. File(w) \in Stored
    BY <1>24, <1>2 DEF WriteStore
  <2>2. QED  BY <1>24, <2>1, <1>0, StoreCounts
<1>25. ASSUME RemoveUnlink(w) \/ RemoveStore(w) PROVE CInv'
  BY <1>25, <1>0, RemoveUnlinkCounts, LoweredCounts
<1>26. QED
  BY <1>10, <1>11, <1>12, <1>13, <1>14, <1>15, <1>16, <1>17, <1>18, <1>19, <1>20,
     <1>21, <1>22, <1>23, <1>24, <1>25
     DEF Handle

\* A request that is received has a length that is a size_t.
LEMMA ReceiveCounts ==
  ASSUME OneWorker, TypeOK, TypeOK', CInv, NEW w \in Workers, Receive(w)
  PROVE  CInv'
<1>1. PICK r \in Requests : frame' = [frame EXCEPT ![w].req = r] /\ Goto(w, Entry(r.op))
  BY DEF Receive
<1>2. frame'[w].req = r
  BY <1>1 DEF TypeOK, Frame
<1>3. Sized(w)'
  BY <1>2, FileServerAssumption DEF Sized, Req
<1>4. pc'[w] \in PlainLabels
  BY <1>1 DEF Goto, Entry, TypeOK, PlainLabels, Labels, EvictLabels
<1>5. SameBytes /\ UNCHANGED currBytes /\ pc[w] = "idle"
  BY DEF Receive, SameBytes, Stored, store
<1>6. QED  BY <1>3, <1>4, <1>5, PlainStep

\* Nothing is stored and nothing counted.
LEMMA InitCInv == Init => CInv
<1> SUFFICES ASSUME Init PROVE CInv
  OBVIOUS
<1>1. TypeOK
  BY InitInv DEF IInv
<1>2. Stored = {}
  BY DEF Init, Stored, ToSet
<1>3. StoredBytes = 0 /\ currBytes = 0 /\ 0 <= MaxBytes
  BY <1>1, <1>2, StoredBytesIsSum, SumEmpty, FileServerAssumption DEF Init
<1>4. \A w \in Workers : pc[w] = "idle" /\ Req(w).data = <<>>
  BY DEF Init, Req, NoFrame
<1>5. \A w \in Workers : CountsAt(w)
  BY <1>3, <1>4, FileServerAssumption
     DEF CountsAt, Fresh, Counted, Pending, Short, Freeing, Promised, Sized
<1>6. QED  BY <1>3, <1>5 DEF CInv

\* CInv is inductive, relative to IInv and OInv.
LEMMA NextCInv ==
  ASSUME OneWorker, IInv, IInv', OInv, CInv, [Next]_vars
  PROVE  CInv'
<1>0. TypeOK /\ TypeOK'
  BY DEF IInv
<1>1. ASSUME NEW w \in Workers, Receive(w) PROVE CInv'
  BY <1>0, <1>1, ReceiveCounts
<1>2. ASSUME NEW w \in Workers, Handle(w) PROVE CInv'
  BY <1>0, <1>2, HandleCounts
<1>3. ASSUME \/ \E c \in Clients : Die(c) \/ Reconnect(c)
             \/ UNCHANGED vars
      PROVE  CInv'
  <2>1. UNCHANGED <<table, obj, currBytes, pc, frame>>
    BY <1>3 DEF Die, Reconnect, store, vars
  <2>2. StoredBytes' = StoredBytes
    BY <1>0, <2>1, BytesStay DEF SameBytes, Stored
  <2>3. QED
    BY <2>1, <2>2
       DEF CInv, CountsAt, Fresh, Counted, Pending, Short, Unfreed, Freeing, Promised,
           Sized, Written, BytesAvailable, Size, File, Req
<1>4. QED  BY <1>1, <1>2, <1>3 DEF Next

\* The invariant holds throughout.
LEMMA CInvCorrect ==
  ASSUME OneWorker
  PROVE  Spec => []CInv
<1>1. OneWorker /\ IInv /\ IInv' /\ OInv /\ CInv /\ [Next]_vars => CInv'
  BY NextCInv
<1>2. QED  BY <1>1, OneWorker, InitCInv, InvCorrect, OInvCorrect, PTL DEF Spec

-----------------------------------------------------------------------------
(* The theorems.                                                           *)

\* With one worker curr_bytes is the number of bytes stored between any two
\* requests: creations, overwrites, appends, evictions and removals count what
\* they change, complete or cut short by the client.
THEOREM AccountingExactCorrect ==
  ASSUME OneWorker, Workers # {}
  PROVE  Spec => []AccountingExact
<1>1. CInv => AccountingExact
  BY DEF CInv, CountsAt, Counted, AccountingExact, Quiet
<1>2. QED  BY <1>1, CInvCorrect, PTL

\* With one worker CAPACITY bounds the bytes stored, in every state.
THEOREM CapacityKeptCorrect ==
  ASSUME OneWorker
  PROVE  Spec => []CapacityKept
<1>1. CInv => CapacityKept
  BY DEF CInv, CapacityKept
<1>2. QED  BY <1>1, CInvCorrect, PTL

\* Then there is room for what was promised.
LEMMA RoomPromised == IInv /\ OInv /\ CInv => PromiseKept
<1> SUFFICES ASSUME IInv, OInv, CInv, NEW w \in Workers, pc[w] = "WriteData",
                    NEW d \in Incoming(w), d # <<>>
             PROVE  Fits(w, d)
  BY DEF PromiseKept
<1>1. TypeOK /\ currBytes = StoredBytes /\ currBytes + Len(Req(w).data) <= MaxBytes
  BY DEF IInv, CInv, CountsAt, Counted, Promised
<1>2. File(w) \in Stored
  BY FileServerAssumption
     DEF IInv, LocalsOK, LocalsAt, File, FileUse, Labels, OInv, AtWorker, Points, HeapStored
<1>3. d \in Seq(Bytes) /\ currBytes + Len(d) <= MaxBytes
  BY <1>1, IncomingLength
<1>4. NewBytes(w, d) <= MaxBytes
  BY <1>1, <1>2, <1>3, NewBytesExact
<1>5. QED  BY <1>4 DEF Fits

\* With one worker a client that was told to send its bytes finds room for
\* them: an eviction that succeeds has freed what the write needs.
THEOREM PromiseKeptCorrect ==
  ASSUME OneWorker
  PROVE  Spec => []PromiseKept
<1>1. QED  BY RoomPromised, InvCorrect, OInvCorrect, CInvCorrect, PTL

-----------------------------------------------------------------------------
(* The one worker's requests implement the atomic store of AtomicStore.    *)

\* Where a handler is says what it was asked for.
OpenAt     == {"Open", "OpenFound", "OpenCreate", "OpenInsert", "OpenStore"}
WriteAt    == {"Write", "WriteOwner"} \cup WriteLabels
RemovingAt == {"Remove", "RemoveOwner", "RemoveUnlink", "RemoveStore"}

Asked(w) ==
  /\ pc[w] \in OpenAt => Req(w).op = "OPEN"
  /\ pc[w] \in {"OpenCreate", "OpenInsert"} => Req(w).create
  /\ pc[w] \in {"Close", "CloseFound"} => Req(w).op = "CLOSE"
  /\ pc[w] \in {"Read", "ReadFound"} => Req(w).op = "READ"
  /\ pc[w] \in {"ReadN", "ReadNFile"} => Req(w).op = "READN"
  /\ pc[w] \in WriteAt => Req(w).op \in {"WRITE", "APPEND"}
  /\ pc[w] \in RemovingAt => Req(w).op = "REMOVE"
  /\ pc[w] = "Nothing" => Req(w).op \in {"LOCK", "UNLOCK", "OTHER"}

\* The object that openFile has made is open by its client.
Mine(w) == pc[w] = "OpenInsert" => obj[File(w)].client = Client(w)

\* What the client has been sent: nothing yet, or the confirmation of its read.
Answered(w) ==
  /\ pc[w] = "Nothing" => out[Client(w)] = <<>>
  /\ pc[w] = "ReadSend" /\ alive[Client(w)] =>
       out[Client(w)] # <<>> /\ Last(out[Client(w)]).code = "SUCCESS"

\* A stored file that is marked is the victim that is about to be unlinked.
Marked(w) ==
  \A o \in Stored : obj[o].client = Evicted => pc[w] = "EvictUnlink" /\ o = frame[w].vic

\* Every stored file has a path.
Entered == \A o \in Stored : obj[o].path \in Paths

SeenAt(w) == Asked(w) /\ Mine(w) /\ Answered(w) /\ Marked(w)

RInv == Entered /\ \A w \in Workers : SeenAt(w)

-----------------------------------------------------------------------------
(* The invariant is inductive.                                             *)

\* The one worker is the one that moves.
LEMMA TheSeen ==
  ASSUME OneWorker, NEW w \in Workers, Entered', SeenAt(w)'
  PROVE  RInv'
  BY DEF OneWorker, RInv

\* No file is stored under another path than before, or marked anew.
Unmarked == /\ Stored' \subseteq Stored
            /\ \A o \in Stored' : /\ obj'[o].path = obj[o].path
                                  /\ obj'[o].client = Evicted => obj[o].client = Evicted

\* A handler goes on to where it has nothing to remember.
ForgetLabels == Labels \ {"OpenInsert", "Nothing", "ReadSend", "EvictUnlink"}

\* A step to such a place.
LEMMA ForgetStep ==
  ASSUME OneWorker, RInv, NEW w \in Workers, Unmarked, pc[w] # "EvictUnlink",
         pc'[w] \in ForgetLabels, Asked(w)'
  PROVE  RInv'
<1>1. Entered'
  BY DEF RInv, Entered, Unmarked
<1>2. Marked(w)'
  BY DEF RInv, SeenAt, Marked, Unmarked
<1>3. Mine(w)' /\ Answered(w)'
  BY DEF Mine, Answered, ForgetLabels
<1>4. QED  BY <1>1, <1>2, <1>3, TheSeen DEF SeenAt

\* A handler returns.
LEMMA ReturnSeen ==
  ASSUME OneWorker, TypeOK, RInv, NEW w \in Workers, Unmarked, pc[w] # "EvictUnlink",
         Return(w)
  PROVE  RInv'
<1>1. pc'[w] = "idle"
  BY DEF Return, TypeOK
<1>2. pc'[w] \in ForgetLabels /\ Asked(w)'
  BY <1>1 DEF ForgetLabels, Labels, Asked, OpenAt, WriteAt, WriteLabels,
              EvictLabels, RemovingAt
<1>3. QED  BY <1>2, ForgetStep

\* A handler goes on with the same request.
SameAsk(w) == /\ frame'[w].req.op = Req(w).op
              /\ frame'[w].req.create = Req(w).create

\* It goes from l to m in one of the functions of server.c.
Within(l, m) ==
  /\ \A K \in {OpenAt, {"Close", "CloseFound"}, {"Read", "ReadFound"},
               {"ReadN", "ReadNFile"}, WriteAt, RemovingAt, {"Nothing"}} : m \in K => l \in K
  /\ m # "OpenCreate"

\* Then nothing that RInv says of it changes.
LEMMA GoOnSeen ==
  ASSUME OneWorker, RInv, NEW w \in Workers, Unmarked, pc[w] # "EvictUnlink",
         SameAsk(w), pc'[w] \in ForgetLabels, Within(pc[w], pc'[w])
  PROVE  RInv'
<1>1. Asked(w)
  BY DEF RInv, SeenAt
<1>2. Asked(w)'
  BY <1>1 DEF Asked, Req, SameAsk, Within, ForgetLabels
<1>3. QED  BY <1>2, ForgetStep

\* A request is received: nothing has been sent for it.
LEMMA ReceiveSeen ==
  ASSUME OneWorker, TypeOK, RInv, NEW w \in Workers, Receive(w)
  PROVE  RInv'
<1>1. PICK r \in Requests :
        /\ Goto(w, Entry(r.op)) /\ frame' = [frame EXCEPT ![w].req = r]
        /\ out' = [out EXCEPT ![r.client] = <<>>]
  BY DEF Receive
<1>2. Unmarked /\ pc[w] = "idle" /\ UNCHANGED <<table, obj>>
  BY DEF Receive, store, Unmarked, Stored
<1>3. r.op \in Ops /\ r.client \in Clients
  BY FileServerAssumption DEF Request
<1>4. frame'[w].req = r /\ pc'[w] = Entry(r.op) /\ out'[r.client] = <<>>
  BY <1>1, <1>3 DEF TypeOK, Frame, Goto
<1>5. Asked(w)'
  BY <1>3, <1>4
     DEF Asked, Req, Entry, Ops, OpenAt, WriteAt, WriteLabels, EvictLabels, RemovingAt
<1>6. Mine(w)' /\ Answered(w)'
  BY <1>3, <1>4 DEF Mine, Answered, Entry, Ops, Client
<1>7. Entered' /\ Marked(w)'
  BY <1>2 DEF RInv, Entered, SeenAt, Marked, Unmarked
<1>8. QED  BY <1>5, <1>6, <1>7, TheSeen DEF SeenAt

\* openFile makes an object for its client.
LEMMA CreateSeen ==
  ASSUME OneWorker, TypeOK, OInv, RInv, NEW w \in Workers, pc[w] = "OpenCreate",
         NEW o \in Objs \ heap, UNCHANGED table,
         obj' = [obj EXCEPT ![o] = [Unused EXCEPT !.client = Client(w)]],
         frame' = [frame EXCEPT ![w].ptr = o], Goto(w, "OpenInsert")
  PROVE  RInv'
<1>1. heap = Stored
  BY DEF OInv, AtWorker, HeapStored
<1>2. Stored' = Stored /\ \A x \in Stored : obj'[x] = obj[x]
  BY <1>1, TableObjs DEF Stored, TypeOK
<1>3. /\ obj'[o].client = Client(w) /\ frame'[w].ptr = o /\ frame'[w].req = frame[w].req
      /\ pc'[w] = "OpenInsert"
  BY DEF TypeOK, Frame, Goto, Unused
<1>4. Entered' /\ Marked(w)'
  BY <1>2 DEF RInv, Entered, SeenAt, Marked
<1>5. Asked(w)'
  BY <1>3 DEF RInv, SeenAt, Asked, Req, OpenAt, WriteAt, WriteLabels, EvictLabels, RemovingAt
<1>6. Mine(w)' /\ Answered(w)'
  BY <1>3 DEF Mine, Answered, File, Client
<1>7. QED  BY <1>4, <1>5, <1>6, TheSeen DEF SeenAt

\* It enters the table under the path of the request.
LEMMA InsertSeen ==
  ASSUME OneWorker, TypeOK, OInv, RInv, NEW w \in Workers, pc[w] = "OpenInsert",
         Req(w) \in Request, File(w) \in Objs, table' = Inserted(File(w)),
         obj' = [obj EXCEPT ![File(w)].path = Req(w).path],
         NEW n, frame' = [frame EXCEPT ![w].tmp = n], Goto(w, "OpenStore")
  PROVE  RInv'
<1> DEFINE f == File(w)
<1>1. Stored' = Stored \cup {f} /\ f \notin Stored
  BY InsertedEntries DEF TypeOK, Stored, OInv, AtWorker, HeapStored
<1>2. /\ obj'[f].path = Req(w).path /\ obj'[f].client = obj[f].client
      /\ \A x \in Stored : obj'[x] = obj[x]
  BY <1>1, TableObjs DEF TypeOK, FileData, Stored
<1>3. Req(w).path \in Paths /\ Client(w) \in Clients
  BY DEF Request, Req, Client
<1>4. obj[f].client # Evicted
  BY <1>3, FileServerAssumption DEF RInv, SeenAt, Mine, Evicted
<1>5. frame'[w].req = frame[w].req /\ pc'[w] = "OpenStore"
  BY DEF TypeOK, Frame, Goto
<1>6. Entered' /\ Marked(w)'
  BY <1>1, <1>2, <1>3, <1>4 DEF RInv, Entered, SeenAt, Marked
<1>7. Asked(w)'
  BY <1>5 DEF RInv, SeenAt, Asked, Req, OpenAt, WriteAt, WriteLabels, EvictLabels, RemovingAt
<1>8. Mine(w)' /\ Answered(w)'
  BY <1>5 DEF Mine, Answered
<1>9. QED  BY <1>6, <1>7, <1>8, TheSeen DEF SeenAt

\* A read is confirmed.
LEMMA ConfirmSeen ==
  ASSUME OneWorker, TypeOK, RInv, NEW w \in Workers, pc[w] = "ReadFound",
         Client(w) \in Clients, UNCHANGED <<table, obj, frame, alive>>,
         alive[Client(w)], Send(w, Code("SUCCESS")), Goto(w, "ReadSend")
  PROVE  RInv'
<1> DEFINE s == out[Client(w)]
           t == s \o Code("SUCCESS")
<1>1. pc'[w] = "ReadSend" /\ Client(w)' = Client(w) /\ out'[Client(w)] = t
  BY DEF TypeOK, Goto, Send, Client
<1>2. s \in Seq(Message)
  BY DEF TypeOK
<1> HIDE DEF s
<1>3. t # <<>> /\ Last(t).code = "SUCCESS"
  <2> DEFINE m == [code |-> "SUCCESS", path |-> NoPath, data |-> <<>>]
  <2>1. t = Append(s, m)
    BY <1>2 DEF Code
  <2>2. Len(t) = Len(s) + 1 /\ t[Len(s) + 1] = m /\ Len(s) \in Nat
    BY <1>2, <2>1
  <2>3. Len(<<>>) = 0 /\ t # <<>>
    BY <2>2
  <2>4. Last(t) = m
    BY <2>2 DEF Last
  <2>5. QED  BY <2>3, <2>4
<1>4. Asked(w)' /\ Mine(w)'
  BY <1>1
     DEF Asked, Mine, OpenAt, WriteAt, WriteLabels, EvictLabels, RemovingAt
<1>5. Answered(w)'
  BY <1>1, <1>3 DEF Answered, Client
<1>6. Entered' /\ Marked(w)'
  BY DEF RInv, Entered, SeenAt, Marked, Stored
<1>7. QED  BY <1>4, <1>5, <1>6, TheSeen DEF SeenAt

\* A victim is marked.
LEMMA TakeSeen ==
  ASSUME OneWorker, TypeOK, RInv, NEW w \in Workers, EvictTake(w)
  PROVE  RInv'
<1>1. PICK o \in frame[w].todo :
        /\ obj' = [obj EXCEPT ![o].client = Evicted]
        /\ frame' = [frame EXCEPT ![w].todo = @ \ {o}, ![w].vic = o,
                                  ![w].need = StillNeeded(@, o)]
  BY DEF EvictTake
<1>2. pc[w] = "Evict" /\ pc'[w] = "EvictUnlink" /\ UNCHANGED table
  BY DEF EvictTake, Goto, TypeOK
<1>3. frame'[w].vic = o /\ frame'[w].req = frame[w].req
  BY <1>1 DEF TypeOK, Frame
<1>4. \A x \in Objs : obj'[x].path = obj[x].path /\ (x # o => obj'[x] = obj[x])
  BY <1>1 DEF TypeOK, FileData
<1>5. Stored' = Stored /\ Stored \subseteq Objs
  BY <1>2, TableObjs DEF Stored
<1>6. Entered' /\ Marked(w)'
  BY <1>2, <1>3, <1>4, <1>5 DEF RInv, Entered, SeenAt, Marked
<1>7. Asked(w)'
  BY <1>2, <1>3
     DEF RInv, SeenAt, Asked, Req, OpenAt, WriteAt, WriteLabels, EvictLabels, RemovingAt
<1>8. Mine(w)' /\ Answered(w)'
  BY <1>2 DEF Mine, Answered
<1>9. QED  BY <1>6, <1>7, <1>8, TheSeen DEF SeenAt

\* The marked file leaves the table, and no other.
LEMMA EvictUnlinkSeen ==
  ASSUME OneWorker, TypeOK, OInv, RInv, NEW w \in Workers, EvictUnlink(w)
  PROVE  RInv'
<1>1. PICK i \in DOMAIN table :
        obj[table[i]].path = obj[frame[w].vic].path /\ Unlink(w, i)
  BY DEF EvictUnlink, Newest
<1>2. /\ pc[w] = "EvictUnlink" /\ pc'[w] = "EvictStore" /\ UNCHANGED obj
  BY DEF EvictUnlink, Goto, TypeOK
<1>3. table[i] = frame[w].vic
  BY <1>1, <1>2 DEF OInv, AtWorker, VictimMarked, UniquePaths, Stored, ToSet
<1>4. Stored' = Stored \ {frame[w].vic}
  BY <1>1, <1>3, UnlinkedStored DEF TypeOK, OInv, Unlink, Stored
<1>5. frame'[w].req = frame[w].req
  BY <1>1 DEF Unlink, TypeOK, Frame
<1>6. Entered' /\ Marked(w)'
  BY <1>2, <1>4 DEF RInv, Entered, SeenAt, Marked
<1>7. Asked(w)'
  BY <1>2, <1>5
     DEF RInv, SeenAt, Asked, Req, OpenAt, WriteAt, WriteLabels, EvictLabels, RemovingAt
<1>8. Mine(w)' /\ Answered(w)'
  BY <1>2 DEF Mine, Answered
<1>9. QED  BY <1>6, <1>7, <1>8, TheSeen DEF SeenAt

\* Setting a file's data, or its client to one that is not a mark.
LEMMA FieldsUnmarked ==
  ASSUME TypeOK, UNCHANGED table, NEW f,
         \/ obj' = obj
         \/ \E c : c # Evicted /\ obj' = [obj EXCEPT ![f].client = c]
         \/ \E d : obj' = [obj EXCEPT ![f].data = d]
  PROVE  Unmarked
<1>1. Stored' = Stored /\ Stored \subseteq Objs
  BY TableObjs DEF Stored
<1>2. \A o \in Objs : /\ obj'[o].path = obj[o].path
                      /\ obj'[o].client = Evicted => obj[o].client = Evicted
  <2>1. obj \in [Objs -> FileData]
    BY DEF TypeOK
  <2>2. CASE obj' = obj
    BY <2>2
  <2>3. CASE \E c : c # Evicted /\ obj' = [obj EXCEPT ![f].client = c]
    BY <2>1, <2>3 DEF FileData
  <2>4. CASE \E d : obj' = [obj EXCEPT ![f].data = d]
    BY <2>1, <2>4 DEF FileData
  <2>5. QED  BY <2>2, <2>3, <2>4
<1>3. QED  BY <1>1, <1>2 DEF Unmarked

\* One step for each action of a handler.
LEMMA HandleSeen ==
  ASSUME OneWorker, IInv, OInv, RInv, NEW w \in Workers, Handle(w)
  PROVE  RInv'
<1>0. /\ TypeOK /\ pc \in [Workers -> Labels] /\ frame \in [Workers -> Frame]
      /\ NoWorker \notin Workers /\ NoObj \notin Objs
  BY FileServerAssumption DEF IInv, TypeOK
<1>1. /\ pc[w] \in FileUse => File(w) \in Objs
      /\ pc[w] # "idle" => Req(w) \in Request /\ Client(w) \in Clients
  BY DEF IInv, LocalsOK, LocalsAt, File, Req, Client, Request
<1>2. UNCHANGED <<table, obj>> => Unmarked
  BY DEF Unmarked, Stored
<1>r. ASSUME Return(w), Unmarked, pc[w] # "EvictUnlink" PROVE RInv'
  BY <1>r, <1>0, ReturnSeen
<1>g. ASSUME Unmarked, pc[w] # "EvictUnlink", SameAsk(w), pc'[w] \in ForgetLabels,
             Within(pc[w], pc'[w])
      PROVE  RInv'
  BY <1>g, <1>0, GoOnSeen
<1>3. \A l : Goto(w, l) => pc'[w] = l
  BY <1>0 DEF Goto
<1>4. ASSUME NEW v, \/ frame' = frame
                    \/ frame' = [frame EXCEPT ![w].ptr = v]
                    \/ frame' = [frame EXCEPT ![w].tmp = v]
                    \/ frame' = [frame EXCEPT ![w].back = v]
                    \/ frame' = [frame EXCEPT ![w].req.data = v]
                    \/ frame' = [frame EXCEPT ![w].todo = v]
                    \/ \E n : frame' = [frame EXCEPT ![w].todo = v, ![w].need = n]
                    \/ \E n : frame' = [frame EXCEPT ![w].need = n, ![w].todo = v]
      PROVE  SameAsk(w)
  <2>1. frame \in [Workers -> Frame] /\ frame[w].req \in Request \cup {NoFrame.req}
    BY <1>0 DEF Frame
  <2>2. CASE frame' = [frame EXCEPT ![w].req.data = v]
    BY <2>1, <2>2 DEF Frame, SameAsk, Req, Request, NoFrame
  <2>3. CASE ~(frame' = [frame EXCEPT ![w].req.data = v])
    <3>1. frame'[w].req = frame[w].req
      BY <1>4, <2>1, <2>3, ZenonT(60) DEF Frame
    <3>2. QED  BY <3>1 DEF SameAsk, Req
  <2>4. QED  BY <2>2, <2>3
<1>5. \A l, m : Within(l, m) <=>
        /\ m # "OpenCreate"
        /\ m \in OpenAt => l \in OpenAt
        /\ m \in {"Close", "CloseFound"} => l \in {"Close", "CloseFound"}
        /\ m \in {"Read", "ReadFound"} => l \in {"Read", "ReadFound"}
        /\ m \in {"ReadN", "ReadNFile"} => l \in {"ReadN", "ReadNFile"}
        /\ m \in WriteAt => l \in WriteAt
        /\ m \in RemovingAt => l \in RemovingAt
        /\ m \in {"Nothing"} => l \in {"Nothing"}
  BY DEF Within
<1> USE DEF ForgetLabels, Labels, OpenAt, WriteAt, WriteLabels, EvictLabels, RemovingAt
<1>10. ASSUME ServeNothing(w) \/ OpenStore(w) \/ ReadSend(w) \/ ReadNEnd(w) \/ EvictAbort(w)
              \/ WriteBroken(w) \/ RemoveStore(w) \/ RemoveMissed(w)
       PROVE  RInv'
  BY <1>10, <1>2, <1>r
     DEF ServeNothing, OpenStore, ReadSend, ReadNEnd, EvictAbort, WriteBroken, RemoveStore,
         RemoveMissed, Reply, store
<1>11. ASSUME OpenLookup(w) \/ CloseLookup(w) \/ ReadLookup(w) PROVE RInv'
  <2>1. Unmarked /\ pc[w] \in {"Open", "Close", "Read"} /\ UNCHANGED <<table, obj>>
    BY <1>11, <1>2 DEF OpenLookup, CloseLookup, ReadLookup, Find, store
  <2>2. CASE Return(w)
    BY <2>1, <2>2, <1>r
  <2>3. CASE Goto(w, "OpenCreate")
    <3>1. Req(w).create /\ frame' = frame /\ pc[w] = "Open" /\ pc'[w] = "OpenCreate"
      BY <1>0, <1>3, <1>11, <2>3
         DEF OpenLookup, CloseLookup, ReadLookup, Find, Reply, Return, Goto
    <3>2. Asked(w)'
      BY <3>1 DEF RInv, SeenAt, Asked, Req
    <3>3. QED  BY <1>0, <2>1, <3>1, <3>2, ForgetStep
  <2>4. CASE ~Return(w) /\ ~Goto(w, "OpenCreate")
    <3>1. \E i \in Newest(Req(w).path) : frame' = [frame EXCEPT ![w].ptr = table[i]]
      BY <1>11, <2>4 DEF OpenLookup, CloseLookup, ReadLookup, Find, Reply
    <3>2. SameAsk(w)
      BY <3>1, <1>4
    <3>3. \/ pc[w] = "Open" /\ pc'[w] = "OpenFound"
          \/ pc[w] = "Close" /\ pc'[w] = "CloseFound"
          \/ pc[w] = "Read" /\ pc'[w] = "ReadFound"
      BY <1>11, <2>4, <1>3 DEF OpenLookup, CloseLookup, ReadLookup, Find, Reply
    <3>4. Within(pc[w], pc'[w]) /\ pc'[w] \in ForgetLabels
      BY <3>3, <1>5
    <3>5. QED  BY <2>1, <3>2, <3>4, <1>g
  <2>5. QED  BY <2>2, <2>3, <2>4
<1>12. ASSUME OpenFound(w) \/ CloseFound(w) PROVE RInv'
  <2>1. /\ UNCHANGED table /\ Return(w) /\ pc[w] \in {"OpenFound", "CloseFound"}
        /\ \/ obj' = obj
           \/ obj' = [obj EXCEPT ![File(w)].client = Client(w)]
           \/ obj' = [obj EXCEPT ![File(w)].client = NoClient]
    BY <1>12 DEF OpenFound, CloseFound, Reply
  <2>2. Client(w) # Evicted /\ NoClient # Evicted
    BY <1>1, <2>1, FileServerAssumption DEF Evicted, NoClient
  <2>3. Unmarked
    BY <1>0, <2>1, <2>2, FieldsUnmarked
  <2>4. QED  BY <2>1, <2>3, <1>r
<1>13. ASSUME OpenCreate(w) PROVE RInv'
  <2>1. CASE Return(w) /\ UNCHANGED store
    BY <1>13, <2>1, <1>2, <1>r DEF OpenCreate, store
  <2>2. CASE ~(Return(w) /\ UNCHANGED store)
    <3>1. PICK o \in Mallocable :
            /\ table' = table
            /\ obj' = [obj EXCEPT ![o] = [Unused EXCEPT !.client = Client(w)]]
            /\ frame' = [frame EXCEPT ![w].ptr = o] /\ Goto(w, "OpenInsert")
            /\ pc[w] = "OpenCreate"
      BY <1>13, <2>2 DEF OpenCreate, Reply
    <3>2. QED  BY <3>1, <1>0, CreateSeen DEF Mallocable
  <2>3. QED  BY <2>1, <2>2
<1>14. ASSUME OpenInsert(w) PROVE RInv'
  <2>1. pc[w] = "OpenInsert" /\ ~FilesFull /\ File(w) \in Objs /\ Req(w) \in Request
    BY <1>14, <1>1, FileServerAssumption
       DEF OpenInsert, IInv, Room, FilesFull, TypeOK, FileUse
  <2>2. /\ table' = Inserted(File(w))
        /\ obj' = [obj EXCEPT ![File(w)].path = Req(w).path]
        /\ frame' = [frame EXCEPT ![w].tmp = (currBytes + Size(File(w))) % SizeMod]
        /\ Goto(w, "OpenStore")
    BY <1>14, <2>1 DEF OpenInsert
  <2>3. QED  BY <2>1, <2>2, <1>0, InsertSeen
<1>15. ASSUME ReadFound(w) PROVE RInv'
  <2>1. Unmarked /\ pc[w] = "ReadFound" /\ UNCHANGED <<table, obj, alive>>
    BY <1>15, <1>2 DEF ReadFound
  <2>2. CASE Return(w)
    BY <2>1, <2>2, <1>r
  <2>3. CASE ~Return(w)
    <3>1. /\ UNCHANGED frame /\ alive[Client(w)] /\ Send(w, Code("SUCCESS"))
          /\ Goto(w, "ReadSend")
      BY <1>15, <2>3 DEF ReadFound, Reply
    <3>2. QED  BY <2>1, <3>1, <1>0, <1>1, ConfirmSeen
  <2>4. QED  BY <2>2, <2>3
<1>16. ASSUME ReadNLock(w) PROVE RInv'
  <2>1. Unmarked /\ SameAsk(w) /\ pc[w] = "ReadN" /\ pc'[w] = "ReadNFile"
    BY <1>16, <1>2, <1>3, <1>4 DEF ReadNLock
  <2>2. QED  BY <2>1, <1>5, <1>g
<1>17. ASSUME ReadNFile(w) PROVE RInv'
  <2>1. Unmarked /\ pc[w] = "ReadNFile"
    BY <1>17, <1>2 DEF ReadNFile
  <2>2. CASE Return(w)
    BY <2>1, <2>2, <1>r
  <2>3. CASE ~Return(w)
    <3>1. pc' = pc /\ \E v : \/ frame' = [frame EXCEPT ![w].todo = v]
                             \/ \E n : frame' = [frame EXCEPT ![w].todo = v, ![w].need = n]
      BY <1>17, <2>3, <1>0 DEF ReadNFile, Frame
    <3>2. SameAsk(w)
      BY <3>1, <1>4
    <3>3. QED  BY <2>1, <3>1, <3>2, <1>5, <1>g
  <2>4. QED  BY <2>2, <2>3
<1>18. ASSUME WriteLock(w) \/ RemoveLock(w) PROVE RInv'
  <2>1. Unmarked /\ pc[w] \in {"Write", "Remove"}
    BY <1>18, <1>2 DEF WriteLock, RemoveLock
  <2>2. CASE Return(w)
    BY <2>1, <2>2, <1>r
  <2>3. CASE ~Return(w)
    <3>1. \E i \in Newest(Req(w).path) : frame' = [frame EXCEPT ![w].ptr = table[i]]
      BY <1>18, <2>3 DEF WriteLock, RemoveLock, Reply
    <3>2. \/ pc[w] = "Write" /\ pc'[w] = "WriteOwner"
          \/ pc[w] = "Remove" /\ pc'[w] = "RemoveOwner"
      BY <1>18, <2>3, <1>3 DEF WriteLock, RemoveLock, Reply
    <3>3. SameAsk(w) /\ Within(pc[w], pc'[w]) /\ pc'[w] \in ForgetLabels
      BY <3>1, <3>2, <1>4, <1>5
    <3>4. QED  BY <2>1, <3>3, <1>g
  <2>4. QED  BY <2>2, <2>3
<1>19. ASSUME WriteOwner(w) \/ RemoveOwner(w) \/ WriteLen(w) \/ EvictEnd(w) PROVE RInv'
  <2>1. Unmarked /\ pc[w] \in {"WriteOwner", "RemoveOwner", "WriteLen", "Evict"}
    BY <1>19, <1>2 DEF WriteOwner, RemoveOwner, WriteLen, EvictEnd
  <2>2. CASE Return(w)
    BY <2>1, <2>2, <1>r
  <2>3. CASE ~Return(w)
    <3>1. frame' = frame
      BY <1>19, <2>3 DEF WriteOwner, RemoveOwner, WriteLen, EvictEnd, Reply
    <3>2. \/ pc[w] = "WriteOwner" /\ pc'[w] = "WriteLen"
          \/ pc[w] = "RemoveOwner" /\ pc'[w] = "RemoveUnlink"
          \/ pc[w] \in {"WriteLen", "Evict"} /\ pc'[w] \in {"EvictStart", "WriteData"}
      BY <1>19, <2>3, <1>3 DEF WriteOwner, RemoveOwner, WriteLen, EvictEnd, Reply
    <3>3. Within(pc[w], pc'[w]) /\ pc'[w] \in ForgetLabels
      BY <3>2, <1>5
    <3>4. QED  BY <2>1, <3>1, <3>3, <1>4, <1>g
  <2>4. QED  BY <2>2, <2>3
<1>20. ASSUME EvictStart(w) \/ WriteData(w) PROVE RInv'
  <2>1. Unmarked /\ pc[w] \in {"EvictStart", "WriteData"}
    BY <1>20, <1>2 DEF EvictStart, WriteData
  <2>2. CASE Return(w)
    BY <2>1, <2>2, <1>r
  <2>3. CASE ~Return(w)
    <3>1. \E v : \/ frame' = [frame EXCEPT ![w].req.data = v]
                 \/ \E n : frame' = [frame EXCEPT ![w].need = n, ![w].todo = v]
      BY <1>20, <2>3 DEF EvictStart, WriteData, Reply
    <3>2. pc'[w] \in {"EvictAsk", "WriteLoad"}
      BY <1>20, <2>3, <1>3 DEF EvictStart, WriteData, Reply
    <3>3. SameAsk(w)
      BY <3>1, <1>4
    <3>4. Within(pc[w], pc'[w]) /\ pc'[w] \in ForgetLabels
      BY <2>1, <3>2, <1>5
    <3>5. QED  BY <2>1, <3>3, <3>4, <1>g
  <2>4. QED  BY <2>2, <2>3
<1>21. ASSUME EvictAsk(w) \/ EvictSkip(w) \/ EvictStore(w) \/ WriteLoad(w) PROVE RInv'
  <2>1. /\ Unmarked /\ pc[w] \in {"EvictAsk", "Evict", "EvictStore", "WriteLoad"}
        /\ pc'[w] \in {"Evict", "WriteStore"}
    BY <1>21, <1>2, <1>3 DEF EvictAsk, EvictSkip, EvictStore, WriteLoad, store
  <2>2. \E v : \/ frame' = frame \/ frame' = [frame EXCEPT ![w].back = v]
               \/ frame' = [frame EXCEPT ![w].todo = v]
               \/ frame' = [frame EXCEPT ![w].tmp = v]
    BY <1>21, <1>0 DEF EvictAsk, EvictSkip, EvictStore, WriteLoad, Frame
  <2>3. SameAsk(w)
    BY <2>2, <1>4
  <2>4. Within(pc[w], pc'[w]) /\ pc'[w] \in ForgetLabels
    BY <2>1, <1>5
  <2>5. QED  BY <2>1, <2>3, <2>4, <1>g
<1>22. ASSUME EvictTake(w) \/ EvictUnlink(w) PROVE RInv'
  BY <1>22, <1>0, TakeSeen, EvictUnlinkSeen
<1>23. ASSUME WriteStore(w) PROVE RInv'
  <2>1. Unmarked
    BY <1>23, <1>0, FieldsUnmarked DEF WriteStore
  <2>2. QED  BY <1>23, <2>1, <1>r DEF WriteStore, Reply
<1>24. ASSUME RemoveUnlink(w) PROVE RInv'
  <2>1. PICK i \in DOMAIN table : Unlink(w, i)
    BY <1>24 DEF RemoveUnlink, Victims, Newest
  <2>2. Stored' = Stored \ {table[i]}
    BY <1>0, <2>1, UnlinkedStored DEF TypeOK, OInv, Unlink, Stored
  <2>3. Unmarked /\ pc[w] = "RemoveUnlink" /\ pc'[w] = "RemoveStore"
    BY <1>24, <2>2, <1>3 DEF Unmarked, RemoveUnlink
  <2>4. SameAsk(w)
    BY <2>1, <1>4 DEF Unlink
  <2>5. QED  BY <2>3, <2>4, <1>5, <1>g
<1>25. QED
  BY <1>10, <1>11, <1>12, <1>13, <1>14, <1>15, <1>16, <1>17, <1>18, <1>19, <1>20,
     <1>21, <1>22, <1>23, <1>24
     DEF Handle

\* Nothing is stored and nobody is served.
LEMMA InitRInv == Init => RInv
  BY DEF Init, RInv, Entered, SeenAt, Asked, Mine, Answered, Marked, Stored, ToSet,
         OpenAt, WriteAt, WriteLabels, EvictLabels, RemovingAt

\* RInv is inductive, relative to IInv and OInv.
LEMMA NextRInv ==
  ASSUME OneWorker, IInv, OInv, RInv, [Next]_vars
  PROVE  RInv'
<1>0. TypeOK
  BY DEF IInv
<1>1. ASSUME NEW w \in Workers, Receive(w) PROVE RInv'
  BY <1>0, <1>1, ReceiveSeen
<1>2. ASSUME NEW w \in Workers, Handle(w) PROVE RInv'
  BY <1>2, HandleSeen
<1>3. ASSUME NEW c \in Clients, Die(c) \/ Reconnect(c) PROVE RInv'
  <2>1. UNCHANGED <<table, obj, pc, frame>>
    BY <1>3 DEF Die, Reconnect, store
  <2>2. ASSUME NEW w \in Workers PROVE Answered(w)'
    <3>1. CASE Die(c)
      BY <1>0, <2>1, <3>1 DEF RInv, SeenAt, Answered, Die, Client, TypeOK
    <3>2. CASE Reconnect(c)
      <4>1. pc[w] # "idle" => Client(w) # c
        BY <3>2 DEF Reconnect, InService
      <4>2. CASE pc[w] = "idle"
        BY <2>1, <4>2 DEF Answered
      <4>3. CASE Client(w) # c
        <5>1. out'[Client(w)] = out[Client(w)] /\ alive'[Client(w)] = alive[Client(w)]
          BY <1>0, <3>2, <4>3 DEF Reconnect, TypeOK
        <5>2. Answered(w) /\ pc' = pc /\ frame' = frame
          BY <2>1 DEF RInv, SeenAt
        <5>3. QED  BY <5>1, <5>2 DEF Answered, Client
      <4>4. QED  BY <4>1, <4>2, <4>3
    <3>3. QED  BY <1>3, <3>1, <3>2
  <2>3. QED
    BY <2>1, <2>2 DEF RInv, Entered, SeenAt, Asked, Mine, Marked, Stored, File, Req, Client
<1>4. CASE UNCHANGED vars
  BY <1>4
     DEF vars, RInv, Entered, SeenAt, Asked, Mine, Answered, Marked, Stored, File, Req, Client
<1>5. QED  BY <1>1, <1>2, <1>3, <1>4 DEF Next

\* The invariant holds throughout.
LEMMA RInvCorrect ==
  ASSUME OneWorker
  PROVE  Spec => []RInv
<1>1. OneWorker /\ IInv /\ OInv /\ RInv /\ [Next]_vars => RInv'
  BY NextRInv
<1>2. QED  BY <1>1, OneWorker, InitRInv, InvCorrect, OInvCorrect, PTL DEF Spec

-----------------------------------------------------------------------------
(* What the clients see of the one worker.                                 *)

\* It has a request that is not decided yet.
Busy(w) == pc[w] # "idle" /\ ~Decided(w)

Serves(w, d) == pc[w] # "idle" /\ Client(w) = d

PendingAt(w) == [d \in Clients |-> IF Serves(w, d) /\ Busy(w) THEN Req(w) ELSE NoObj]

Confirmed(w) == [code |-> "SUCCESS",
                 data |-> IF pc[w] = "ReadSend" THEN obj[File(w)].data ELSE <<>>]

LastAt(w) ==
  [d \in Clients |-> IF ~alive[d] THEN Verdict(<<>>)
                     ELSE IF ~Serves(w, d) THEN Verdict(out[d])
                     ELSE IF Busy(w) THEN Verdict(<<>>) ELSE Confirmed(w)]

Bars == \A w \in Workers : PendingBar = PendingAt(w) /\ LastBar = LastAt(w)

\* The mapping of pending and last goes by the one worker there is.
LEMMA BarsAt == OneWorker => Bars
<1> SUFFICES ASSUME OneWorker, NEW w \in Workers
             PROVE  PendingBar = PendingAt(w) /\ LastBar = LastAt(w)
  BY DEF Bars
<1>1. \A d : Serves(w, d) => Server(d) = {w}
  BY DEF OneWorker, Serves, Server
<1>2. \A d : ~Serves(w, d) => Server(d) = {}
  BY DEF OneWorker, Serves, Server
<1>3. (CHOOSE v \in {w} : TRUE) = w
  OBVIOUS
<1>4. PendingBar = PendingAt(w)
  <2>1. ASSUME NEW d \in Clients
        PROVE  (IF \E v \in Server(d) : ~Decided(v)
                  THEN Req(CHOOSE v \in Server(d) : TRUE) ELSE NoObj)
               = (IF Serves(w, d) /\ Busy(w) THEN Req(w) ELSE NoObj)
    BY <1>1, <1>2, <1>3 DEF Busy, Serves
  <2>2. QED  BY <2>1 DEF PendingBar, PendingAt
<1>5. LastBar = LastAt(w)
  <2>1. Verdict(<<>>) = [code |-> "NONE", data |-> <<>>]
    BY DEF Verdict
  <2> DEFINE x(d) == IF ~alive[d] THEN Verdict(<<>>)
                     ELSE IF ~Serves(w, d) THEN Verdict(out[d])
                     ELSE IF Busy(w) THEN Verdict(<<>>) ELSE Confirmed(w)
             y(d) == IF ~alive[d] THEN Verdict(<<>>)
                     ELSE IF Server(d) = {} THEN Verdict(out[d])
                     ELSE LET v == CHOOSE v \in Server(d) : TRUE
                          IN IF ~Decided(v) THEN [code |-> "NONE", data |-> <<>>]
                             ELSE [code |-> "SUCCESS",
                                   data |-> IF pc[v] = "ReadSend" THEN obj[File(v)].data
                                            ELSE <<>>]
  <2>2. ASSUME NEW d \in Clients PROVE y(d) = x(d)
    <3>1. CASE Serves(w, d)
      <4>1. Server(d) = {w} /\ (Busy(w) <=> ~Decided(w))
        BY <1>1, <3>1 DEF Busy, Serves
      <4>2. QED  BY <1>3, <2>1, <3>1, <4>1 DEF Confirmed
    <3>2. CASE ~Serves(w, d)
      BY <1>2, <3>2
    <3>3. QED  BY <3>1, <3>2
  <2>3. QED  BY <2>2 DEF LastBar, LastAt
<1>6. QED  BY <1>4, <1>5

\* Before a step and after it.
LEMMA BarsNext ==
  ASSUME OneWorker, NEW w \in Workers
  PROVE  /\ PendingBar = PendingAt(w) /\ LastBar = LastAt(w)
         /\ PendingBar' = PendingAt(w)' /\ LastBar' = LastAt(w)'
<1>1. (OneWorker => Bars)'
  BY BarsAt, PTL
<1>2. OneWorker'
  BY DEF OneWorker
<1>3. PendingBar' = PendingAt(w)' /\ LastBar' = LastAt(w)'
  BY <1>1, <1>2 DEF Bars
<1>4. QED  BY <1>3, BarsAt DEF Bars

\* Nobody is told anything but the client that is served.
OthersUntold(w) == \A d \in Clients : d # Client(w) => out'[d] = out[d]

\* A step of a handler sends to its own client only.
LEMMA Untold ==
  ASSUME TypeOK, NEW w, NEW ms, UNCHANGED out \/ Send(w, ms)
  PROVE  OthersUntold(w)
  BY DEF OthersUntold, Send, TypeOK

\* A handler goes on with its request: nothing is decided.
LEMMA SilentBars ==
  ASSUME OneWorker, NEW w \in Workers, Busy(w), Busy(w)', frame'[w].req = frame[w].req,
         UNCHANGED alive, OthersUntold(w)
  PROVE  UNCHANGED <<PendingBar, LastBar>>
<1>1. PendingAt(w)' = PendingAt(w)
  BY DEF PendingAt, Serves, Busy, Client, Req
<1>2. ASSUME NEW d \in Clients PROVE Serves(w, d)' = Serves(w, d)
  BY DEF Serves, Busy, Client
<1>3. Verdict(<<>>)' = Verdict(<<>>)
  OBVIOUS
<1>4. ASSUME NEW d \in Clients PROVE LastAt(w)'[d] = LastAt(w)[d]
  <2>1. CASE Serves(w, d)
    BY <2>1, <1>2 DEF LastAt
  <2>2. CASE ~Serves(w, d)
    BY <2>2, <1>2 DEF LastAt, OthersUntold, Serves, Busy
  <2>3. QED  BY <2>1, <2>2
<1>5. LastAt(w)' = LastAt(w)
  BY <1>4 DEF LastAt
<1>6. QED  BY <1>1, <1>5, BarsNext

\* A handler stops to serve its client: what is pending then.
LEMMA NoMorePending ==
  ASSUME OneWorker, NEW w \in Workers, Busy(w), ~Busy(w)'
  PROVE  PendingBar' = [PendingBar EXCEPT ![Client(w)] = NoObj]
<1>1. ASSUME NEW d \in Clients
      PROVE  PendingAt(w)'[d] = [PendingAt(w) EXCEPT ![Client(w)] = NoObj][d]
  BY DEF PendingAt, Serves, Busy
<1>2. PendingAt(w)' = [PendingAt(w) EXCEPT ![Client(w)] = NoObj]
  BY <1>1 DEF PendingAt
<1>3. QED  BY <1>2, BarsNext

\* What the other clients know of their requests stays.
LEMMA OnlyLast ==
  ASSUME OneWorker, NEW w \in Workers, Busy(w), ~Busy(w)',
         pc'[w] = "idle" \/ frame'[w].req = frame[w].req,
         UNCHANGED alive, OthersUntold(w),
         NEW v, LastAt(w)'[Client(w)] = v
  PROVE  LastBar' = [LastBar EXCEPT ![Client(w)] = v]
<1>1. ASSUME NEW d \in Clients, d # Client(w) PROVE LastAt(w)'[d] = LastAt(w)[d]
  <2>1. ~Serves(w, d) /\ ~Serves(w, d)'
    BY <1>1 DEF Serves, Client
  <2>2. QED  BY <1>1, <2>1 DEF LastAt, OthersUntold
<1>2. LastAt(w)' = [LastAt(w) EXCEPT ![Client(w)] = v]
  BY <1>1 DEF LastAt
<1>3. QED  BY <1>2, BarsNext

\* A handler answers and returns: that is its decision.
LEMMA AnswerBars ==
  ASSUME OneWorker, TypeOK, NEW w \in Workers, Busy(w), Client(w) \in Clients,
         NEW ms \in Seq(Message), NEW k, k # "DATA", Send(w, ms \o Code(k)),
         Return(w), UNCHANGED alive
  PROVE  Atomic!Decide(Client(w), k, <<>>)
<1> DEFINE c == Client(w)
           s == out[c]
           t == s \o (ms \o Code(k))
           m == [code |-> k, path |-> NoPath, data |-> <<>>]
<1>1. pc'[w] = "idle" /\ ~Busy(w)'
  BY DEF Return, TypeOK, Busy
<1>2. s \in Seq(Message)
  BY DEF TypeOK
<1>3. Verdict(t) = [code |-> k, data |-> <<>>]
  <2> HIDE DEF s
  <2>1. t = Append(s \o ms, m)
    BY <1>2 DEF Code
  <2> DEFINE r == s \o ms
  <2>2. r \in Seq(Message) /\ Len(r) \in Nat
    BY <1>2
  <2> HIDE DEF r, t, m
  <2>3. Len(t) = Len(r) + 1 /\ t[Len(r) + 1] = m /\ t # <<>>
    BY <2>1, <2>2 DEF r
  <2>4. Last(t) = m
    BY <2>2, <2>3 DEF Last
  <2>5. QED  BY <2>3, <2>4 DEF Verdict, m
<1>4. LastAt(w)'[c] = IF alive[c] THEN [code |-> k, data |-> <<>>]
                      ELSE [code |-> "NONE", data |-> <<>>]
  <2>1. \A d : ~Serves(w, d)'
    BY <1>1 DEF Serves
  <2>2. CASE alive[c]
    <3>1. out'[c] = t
      BY <2>2 DEF Send, TypeOK
    <3>2. LastAt(w)'[c] = Verdict(out'[c])
      BY <2>1, <2>2 DEF LastAt
    <3>3. QED  BY <1>3, <2>2, <3>1, <3>2
  <2>3. CASE ~alive[c]
    BY <2>3 DEF LastAt, Verdict
  <2>4. QED  BY <2>2, <2>3
<1>5. OthersUntold(w)
  BY Untold
<1> HIDE DEF t, s, m
<1>6. LastBar' = [LastBar EXCEPT ![c] = IF alive[c] THEN [code |-> k, data |-> <<>>]
                                        ELSE [code |-> "NONE", data |-> <<>>]]
  BY <1>1, <1>4, <1>5, OnlyLast
<1>7. PendingBar' = [PendingBar EXCEPT ![c] = NoObj]
  BY <1>1, NoMorePending
<1>8. QED  BY <1>6, <1>7 DEF Atomic!Decide, Atomic!NoAnswer

\* It answers once.
LEMMA ReplyBars ==
  ASSUME OneWorker, TypeOK, NEW w \in Workers, Busy(w), Client(w) \in Clients,
         NEW k, k # "DATA", Reply(w, k), UNCHANGED alive
  PROVE  Atomic!Decide(Client(w), k, <<>>)
<1>1. <<>> \in Seq(Message) /\ <<>> \o Code(k) = Code(k)
  BY DEF Code
<1>2. QED  BY <1>1, AnswerBars DEF Reply

\* Its client has gone.
LEMMA GoneBars ==
  ASSUME OneWorker, TypeOK, NEW w \in Workers, Busy(w), Client(w) \in Clients,
         ~alive[Client(w)], Return(w), UNCHANGED <<alive, out, FilesBar>>
  PROVE  Atomic!Abandon(Client(w))
<1>1. pc'[w] = "idle" /\ ~Busy(w)'
  BY DEF Return, TypeOK, Busy
<1>2. PendingBar' = [PendingBar EXCEPT ![Client(w)] = NoObj]
  BY <1>1, NoMorePending
<1>3. LastAt(w)'[Client(w)] = Verdict(<<>>)
  BY DEF LastAt
<1>4. LastAt(w)[Client(w)] = Verdict(<<>>)
  BY DEF LastAt
<1>5. OthersUntold(w)
  BY DEF OthersUntold
<1>6. LastBar' = [LastBar EXCEPT ![Client(w)] = Verdict(<<>>)]
  BY <1>1, <1>3, <1>5, OnlyLast
<1>7. LastBar' = LastBar
  BY <1>4, <1>6, BarsNext DEF LastAt
<1>8. QED  BY <1>2, <1>7 DEF Atomic!Abandon

\* A handler decides before it answers.
LEMMA DecidedBars ==
  ASSUME OneWorker, NEW w \in Workers, Busy(w), Client(w) \in Clients,
         pc'[w] \in {"OpenStore", "RemoveStore", "ReadSend"},
         frame'[w].req = frame[w].req, UNCHANGED alive, OthersUntold(w),
         NEW d, d = IF pc'[w] = "ReadSend" THEN obj'[frame'[w].ptr].data ELSE <<>>
  PROVE  Atomic!Decide(Client(w), "SUCCESS", d)
<1> DEFINE c == Client(w)
<1>1. ~Busy(w)' /\ \A x : x = c => Serves(w, x)'
  BY DEF Busy, Decided, Serves, Client
<1>2. LastAt(w)'[c] = IF alive[c] THEN [code |-> "SUCCESS", data |-> d]
                      ELSE [code |-> "NONE", data |-> <<>>]
  <2>1. CASE alive[c]
    <3>1. LastAt(w)'[c] = Confirmed(w)'
      BY <1>1, <2>1 DEF LastAt
    <3>2. Confirmed(w)' = [code |-> "SUCCESS", data |-> d]
      BY DEF Confirmed, File
    <3>3. QED  BY <2>1, <3>1, <3>2
  <2>2. CASE ~alive[c]
    BY <2>2 DEF LastAt, Verdict
  <2>3. QED  BY <2>1, <2>2
<1>3. LastBar' = [LastBar EXCEPT ![c] = IF alive[c] THEN [code |-> "SUCCESS", data |-> d]
                                        ELSE [code |-> "NONE", data |-> <<>>]]
  BY <1>1, <1>2, OnlyLast
<1>4. PendingBar' = [PendingBar EXCEPT ![c] = NoObj]
  BY <1>1, NoMorePending
<1>5. QED  BY <1>3, <1>4 DEF Atomic!Decide, Atomic!NoAnswer

\* It answers what it has decided.
LEMMA FinishBars ==
  ASSUME OneWorker, TypeOK, NEW w \in Workers, pc[w] # "idle", Decided(w),
         Return(w), UNCHANGED alive, OthersUntold(w),
         Client(w) \in Clients, alive[Client(w)] => Verdict(out'[Client(w)]) = Confirmed(w)
  PROVE  UNCHANGED <<PendingBar, LastBar>>
<1>1. pc'[w] = "idle" /\ ~Busy(w)' /\ ~Busy(w)
  BY DEF Return, TypeOK, Busy
<1>2. PendingAt(w)' = PendingAt(w)
  BY <1>1 DEF PendingAt
<1>3. ASSUME NEW d \in Clients PROVE LastAt(w)'[d] = LastAt(w)[d]
  <2>1. ~Serves(w, d)' /\ (Serves(w, d) <=> d = Client(w))
    BY <1>1 DEF Serves
  <2>2. QED  BY <1>1, <2>1 DEF LastAt, OthersUntold
<1>4. LastAt(w)' = LastAt(w)
  BY <1>3 DEF LastAt
<1>5. QED  BY <1>2, <1>4, BarsNext

-----------------------------------------------------------------------------
(* The files they see.                                                     *)

Seen == {o \in Stored : obj[o].client # Evicted}

\* Every file of the table that is not marked, under its path.
FilesSeen ==
  /\ DOMAIN FilesBar = {obj[o].path : o \in Seen}
  /\ FilesBar = [p \in DOMAIN FilesBar |-> FilesBar[p]]
  /\ \A o \in Seen : FilesBar[obj[o].path] = [data |-> obj[o].data, owner |-> obj[o].client]
  /\ \A x, y \in Stored : obj[x].path = obj[y].path => x = y

\* That is what the mapping of files amounts to.
LEMMA FilesAre == IInv /\ OInv /\ RInv => FilesSeen
<1> SUFFICES ASSUME IInv, OInv, RInv PROVE FilesSeen
  OBVIOUS
<1>0. TypeOK /\ UniquePaths /\ Entered
  BY DEF IInv, OInv, RInv
<1> DEFINE here(p) == {table[i] : i \in Newest(p)}
           seen == {p \in Paths : \E o \in here(p) : obj[o].client # Evicted}
           at(p) == CHOOSE x \in here(p) : TRUE
<1>1. \A x, y \in Stored : obj[x].path = obj[y].path => x = y
  BY <1>0 DEF UniquePaths, Stored, ToSet
<1>2. ASSUME NEW o \in Stored PROVE here(obj[o].path) = {o} /\ at(obj[o].path) = o
  <2>1. PICK i \in DOMAIN table : table[i] = o
    BY DEF Stored, ToSet
  <2>2. i \in Newest(obj[o].path)
    <3>1. \A j \in 1..(i - 1) : j \in DOMAIN table /\ j # i
      BY <1>0, <2>1 DEF TypeOK
    <3>2. \A j \in 1..(i - 1) : obj[table[j]].path # obj[o].path
      BY <1>0, <2>1, <3>1 DEF UniquePaths
    <3>3. QED  BY <2>1, <3>2 DEF Newest
  <2>3. \A j \in Newest(obj[o].path) : j = i
    BY <1>0, <2>1 DEF UniquePaths, Newest
  <2>4. here(obj[o].path) = {o}
    BY <2>1, <2>2, <2>3
  <2>5. QED  BY <2>4
<1>3. ASSUME NEW p, NEW o \in here(p) PROVE o \in Stored /\ obj[o].path = p
  BY <1>3 DEF Newest, Stored, ToSet
<1>4. seen = {obj[o].path : o \in Seen}
  <2>1. ASSUME NEW p \in seen PROVE p \in {obj[o].path : o \in Seen}
    <3>1. PICK o \in here(p) : obj[o].client # Evicted
      BY <2>1
    <3>2. QED  BY <1>3, <3>1 DEF Seen
  <2>2. ASSUME NEW o \in Seen PROVE obj[o].path \in seen
    BY <1>0, <1>2 DEF Seen, Entered
  <2>3. QED  BY <2>1, <2>2
<1>5. FilesBar = [p \in seen |-> [data |-> obj[at(p)].data, owner |-> obj[at(p)].client]]
  BY DEF FilesBar
<1> HIDE DEF seen, at, here
<1>6. DOMAIN FilesBar = seen /\ FilesBar = [p \in DOMAIN FilesBar |-> FilesBar[p]]
  BY <1>5
<1>7. ASSUME NEW o \in Seen
      PROVE  FilesBar[obj[o].path] = [data |-> obj[o].data, owner |-> obj[o].client]
  BY <1>2, <1>4, <1>5 DEF Seen
<1>8. QED  BY <1>1, <1>4, <1>6, <1>7 DEF FilesSeen

\* After a step too.
LEMMA FilesNext ==
  ASSUME IInv', OInv', RInv'
  PROVE  FilesSeen'
<1>1. (IInv /\ OInv /\ RInv => FilesSeen)'
  BY FilesAre, PTL
<1>2. QED  BY <1>1

\* A step that touches neither the table nor the files.
LEMMA StoreStays ==
  ASSUME UNCHANGED <<table, obj>>
  PROVE  UNCHANGED FilesBar
  BY DEF FilesBar, Newest

\* The same files are seen.
LEMMA SeenStays ==
  ASSUME FilesSeen, FilesSeen', Seen' = Seen, \A o \in Seen : obj'[o] = obj[o]
  PROVE  UNCHANGED FilesBar
<1>1. DOMAIN FilesBar' = DOMAIN FilesBar
  BY DEF FilesSeen
<1>2. ASSUME NEW p \in DOMAIN FilesBar PROVE FilesBar'[p] = FilesBar[p]
  <2>1. PICK o \in Seen : p = obj[o].path
    BY <1>2 DEF FilesSeen
  <2>2. FilesBar[p] = [data |-> obj[o].data, owner |-> obj[o].client]
    BY <2>1 DEF FilesSeen
  <2>3. FilesBar'[obj'[o].path] = [data |-> obj'[o].data, owner |-> obj'[o].client]
    BY <2>1 DEF FilesSeen
  <2>4. QED  BY <2>1, <2>2, <2>3
<1>3. QED  BY <1>1, <1>2 DEF FilesSeen

\* One of the files changes.
LEMMA FileChanged ==
  ASSUME FilesSeen, FilesSeen', Seen' = Seen, NEW f \in Seen, NEW p, p = obj[f].path,
         obj'[f].path = p, \A o \in Seen : o # f => obj'[o] = obj[o],
         NEW g, g = [data |-> obj'[f].data, owner |-> obj'[f].client]
  PROVE  /\ p \in DOMAIN FilesBar /\ DOMAIN FilesBar' = DOMAIN FilesBar
         /\ FilesBar' = [q \in DOMAIN FilesBar |-> IF q = p THEN g ELSE FilesBar[q]]
<1>1. DOMAIN FilesBar = {obj[o].path : o \in Seen}
  BY DEF FilesSeen
<1>2. DOMAIN FilesBar' = {obj'[o].path : o \in Seen}
  BY DEF FilesSeen
<1>3. \A o \in Seen : obj'[o].path = obj[o].path
  OBVIOUS
<1>4. p \in DOMAIN FilesBar /\ DOMAIN FilesBar' = DOMAIN FilesBar
  BY <1>1, <1>2, <1>3
<1> DEFINE G == [q \in DOMAIN FilesBar |-> IF q = p THEN g ELSE FilesBar[q]]
<1>5. ASSUME NEW q \in DOMAIN FilesBar PROVE FilesBar'[q] = G[q]
  <2>1. PICK o \in Seen : q = obj[o].path /\ q = obj'[o].path
    BY <1>1, <1>3
  <2>2. FilesBar'[q] = [data |-> obj'[o].data, owner |-> obj'[o].client]
    BY <2>1 DEF FilesSeen
  <2>3. CASE o = f
    BY <2>1, <2>2, <2>3
  <2>4. CASE o # f
    <3>1. obj'[o] = obj[o] /\ q # p
      BY <2>1, <2>4 DEF FilesSeen, Seen
    <3>2. FilesBar[q] = [data |-> obj[o].data, owner |-> obj[o].client]
      BY <2>1 DEF FilesSeen
    <3>3. QED  BY <2>2, <3>1, <3>2
  <2>5. QED  BY <2>3, <2>4
<1>6. FilesBar' = G
  BY <1>4, <1>5 DEF FilesSeen
<1>7. QED  BY <1>4, <1>6

\* One more is there.
LEMMA FileAdded ==
  ASSUME FilesSeen, FilesSeen', NEW f, f \notin Seen, Seen' = Seen \cup {f}, NEW p,
         obj'[f].path = p, \A o \in Seen : obj'[o] = obj[o], p \notin DOMAIN FilesBar,
         NEW g, g = [data |-> obj'[f].data, owner |-> obj'[f].client]
  PROVE  FilesBar' = [q \in DOMAIN FilesBar \cup {p} |-> IF q = p THEN g ELSE FilesBar[q]]
<1>1. DOMAIN FilesBar = {obj[o].path : o \in Seen}
  BY DEF FilesSeen
<1>2. DOMAIN FilesBar' = {obj'[o].path : o \in Seen \cup {f}}
  BY DEF FilesSeen
<1>3. DOMAIN FilesBar' = DOMAIN FilesBar \cup {p}
  BY <1>1, <1>2
<1> DEFINE G == [q \in DOMAIN FilesBar \cup {p} |-> IF q = p THEN g ELSE FilesBar[q]]
<1>4. ASSUME NEW q \in DOMAIN FilesBar' PROVE FilesBar'[q] = G[q]
  <2>1. CASE q = p
    <3>1. FilesBar'[obj'[f].path] = [data |-> obj'[f].data, owner |-> obj'[f].client]
      BY DEF FilesSeen
    <3>2. QED  BY <1>3, <2>1, <3>1
  <2>2. CASE q # p
    <3>1. PICK o \in Seen : q = obj[o].path /\ obj'[o] = obj[o]
      BY <1>2, <2>2, <1>4
    <3>2. FilesBar'[q] = [data |-> obj'[o].data, owner |-> obj'[o].client]
      BY <3>1 DEF FilesSeen
    <3>3. FilesBar[q] = [data |-> obj[o].data, owner |-> obj[o].client]
      BY <3>1 DEF FilesSeen
    <3>4. QED  BY <1>3, <1>4, <2>2, <3>1, <3>2, <3>3
  <2>3. QED  BY <2>1, <2>2
<1>5. QED  BY <1>3, <1>4, ZenonT(60) DEF FilesSeen

\* One is no longer there.
LEMMA FileDropped ==
  ASSUME FilesSeen, FilesSeen', NEW f \in Seen, Seen' = Seen \ {f}, NEW p, p = obj[f].path,
         \A o \in Seen : o # f => obj'[o] = obj[o]
  PROVE  /\ p \in DOMAIN FilesBar
         /\ FilesBar' = [q \in DOMAIN FilesBar \ {p} |-> FilesBar[q]]
<1>1. DOMAIN FilesBar = {obj[o].path : o \in Seen}
  BY DEF FilesSeen
<1>2. DOMAIN FilesBar' = {obj'[o].path : o \in Seen \ {f}}
  BY DEF FilesSeen
<1>3. \A o \in Seen : obj[o].path = p => o = f
  BY DEF FilesSeen, Seen
<1>4. DOMAIN FilesBar' = DOMAIN FilesBar \ {p}
  BY <1>1, <1>2, <1>3
<1>5. ASSUME NEW q \in DOMAIN FilesBar' PROVE FilesBar'[q] = FilesBar[q]
  <2>1. PICK o \in Seen \ {f} : q = obj'[o].path
    BY <1>2
  <2>2. FilesBar'[q] = [data |-> obj'[o].data, owner |-> obj'[o].client] /\ obj'[o] = obj[o]
    BY <2>1 DEF FilesSeen
  <2>3. FilesBar[q] = [data |-> obj[o].data, owner |-> obj[o].client]
    BY <2>1, <2>2 DEF FilesSeen
  <2>4. QED  BY <2>2, <2>3
<1>6. QED  BY <1>1, <1>4, <1>5 DEF FilesSeen

\* Nothing is marked but while a victim is unlinked.
LEMMA AllSeen ==
  ASSUME RInv, NEW w \in Workers, pc[w] # "EvictUnlink"
  PROVE  Seen = Stored
  BY DEF RInv, SeenAt, Marked, Seen

\* A handler's file is there for the clients to see.
LEMMA TheirFile ==
  ASSUME IInv, OInv, RInv, FilesSeen, NEW w \in Workers, pc[w] \in NamedLabels
  PROVE  /\ File(w) \in Stored /\ obj[File(w)].path = Req(w).path
         /\ pc[w] # "EvictUnlink" => File(w) \in Seen
         /\ pc[w] # "EvictUnlink" => /\ Req(w).path \in DOMAIN FilesBar
                                     /\ FilesBar[Req(w).path].data = obj[File(w)].data
                                     /\ FilesBar[Req(w).path].owner = obj[File(w)].client
<1>1. File(w) \in Objs /\ NoObj \notin Objs
  BY FileServerAssumption
     DEF IInv, LocalsOK, LocalsAt, File, FileUse, NamedLabels, OwnedLabels, WriteLabels,
         EvictLabels, Labels
<1>2. File(w) \in Stored /\ obj[File(w)].path = Req(w).path
  BY <1>1 DEF OInv, AtWorker, Points, Named, HeapStored, NamedLabels, OwnedLabels, WriteLabels,
              EvictLabels
<1>3. pc[w] # "EvictUnlink" => File(w) \in Seen
  BY <1>2, AllSeen
<1>4. ASSUME pc[w] # "EvictUnlink"
      PROVE  /\ Req(w).path \in DOMAIN FilesBar
             /\ FilesBar[Req(w).path] = [data |-> obj[File(w)].data,
                                         owner |-> obj[File(w)].client]
  BY <1>2, <1>3, <1>4 DEF FilesSeen
<1>5. QED  BY <1>2, <1>3, <1>4

\* BytesOf is a sum over the paths.
LEMMA BytesOfIsSum ==
  ASSUME NEW fs, IsFiniteSet(DOMAIN fs)
  PROVE  Atomic!BytesOf(fs) = Sum([p \in DOMAIN fs |-> Len(fs[p].data)], DOMAIN fs)
<1> DEFINE D == DOMAIN fs
           v == [p \in D |-> Len(fs[p].data)]
           P(g) == g = [s \in SUBSET D |->
                          IF s = {} THEN 0 ELSE Len(fs[Pick(s)].data) + g[s \ {Pick(s)}]]
           h == CHOOSE g : P(g)
<1>1. Atomic!BytesOf(fs) = h[D]
  BY DEF Atomic!BytesOf, Atomic!MapThenSumSet, Atomic!MapThenFoldSet, Pick
<1>2. \A s \in SUBSET D : s # {} => v[Pick(s)] = Len(fs[Pick(s)].data)
  BY PickIn
<1>3. ASSUME NEW g PROVE P(g) <=> Adds(v, D, g)
  BY <1>2 DEF Adds
<1>4. \E g : P(g)
  BY <1>3, AddsExists
<1>5. P(h)
  BY <1>4
<1> HIDE DEF h, P, v
<1>6. Adds(v, D, h)
  BY <1>3, <1>5
<1>7. h[D] = Sum(v, D)
  BY <1>6, AddsIsSumHere
<1>8. QED  BY <1>1, <1>7 DEF v

\* The bytes of the files are those of the objects behind them.
LEMMA BytesBehind ==
  ASSUME NEW fs, NEW S, IsFiniteSet(S), NEW nm, NEW sizes,
         \A x, y \in S : nm[x] = nm[y] => x = y, DOMAIN fs = {nm[x] : x \in S},
         \A x \in S : sizes[x] \in Int /\ sizes[x] = Len(fs[nm[x]].data)
  PROVE  Atomic!BytesOf(fs) = Sum(sizes, S)
<1> DEFINE v == [p \in DOMAIN fs |-> Len(fs[p].data)]
<1>1. IsFiniteSet(DOMAIN fs)
  BY NamesFinite
<1>2. Atomic!BytesOf(fs) = Sum(v, DOMAIN fs)
  BY <1>1, BytesOfIsSum
<1>3. \A x \in S : sizes[x] \in Int /\ sizes[x] = v[nm[x]]
  OBVIOUS
<1> HIDE DEF v
<1>4. Sum(sizes, S) = Sum(v, {nm[x] : x \in S})
  BY <1>3, SumNames
<1>5. QED  BY <1>2, <1>4

\* With nothing marked, the bytes that the clients see are those stored.
LEMMA BytesSeen ==
  ASSUME TypeOK, FilesSeen, Seen = Stored
  PROVE  Atomic!BytesOf(FilesBar) = StoredBytes
<1> DEFINE nm == [o \in Stored |-> obj[o].path]
           fs == FilesBar
<1>1. /\ IsFiniteSet(Stored) /\ Stored \subseteq Objs
      /\ \A o \in Stored : Sizes[o] \in Int /\ Sizes[o] = Len(obj[o].data)
  BY SizesTyped DEF Size
<1>2. \A x, y \in Stored : nm[x] = nm[y] => x = y
  BY DEF FilesSeen
<1>3. DOMAIN fs = {nm[x] : x \in Stored}
  BY DEF FilesSeen
<1>4. ASSUME NEW x \in Stored PROVE fs[nm[x]].data = obj[x].data
  <2>1. fs[obj[x].path] = [data |-> obj[x].data, owner |-> obj[x].client]
    BY DEF FilesSeen
  <2>2. nm[x] = obj[x].path
    OBVIOUS
  <2> HIDE DEF nm, fs
  <2>3. QED  BY <2>1, <2>2
<1>5. \A x \in Stored : Sizes[x] \in Int /\ Sizes[x] = Len(fs[nm[x]].data)
  BY <1>1, <1>4
<1> HIDE DEF nm, fs
<1>6. Atomic!BytesOf(fs) = Sum(Sizes, Stored)
  BY <1>1, <1>2, <1>3, <1>5, BytesBehind
<1>7. QED  BY <1>6, StoredBytesIsSum DEF fs

\* After a step too.
LEMMA BytesSeenNext ==
  ASSUME TypeOK', FilesSeen', Seen' = Stored'
  PROVE  Atomic!BytesOf(FilesBar') = StoredBytes'
<1> DEFINE nm == [o \in Stored' |-> obj'[o].path]
           fs == FilesBar'
           sz == Sizes'
           S  == Stored'
<1>1. /\ IsFiniteSet(Stored') /\ Stored' \subseteq Objs
      /\ \A o \in Stored' : Sizes'[o] \in Int /\ Sizes'[o] = Len(obj'[o].data)
  <2>1. (TypeOK => /\ Stored \in SUBSET Objs /\ IsFiniteSet(Stored)
                   /\ \A o \in Objs : Sizes[o] = Size(o) /\ Size(o) \in Nat)'
    BY SizesTyped, PTL
  <2>2. QED  BY <2>1 DEF Size
<1>2. \A x, y \in S : nm[x] = nm[y] => x = y
  BY DEF FilesSeen
<1>3. DOMAIN fs = {nm[x] : x \in S}
  BY DEF FilesSeen
<1>4. ASSUME NEW x \in S PROVE fs[nm[x]].data = obj'[x].data
  <2>1. fs[obj'[x].path] = [data |-> obj'[x].data, owner |-> obj'[x].client]
    BY DEF FilesSeen
  <2>2. nm[x] = obj'[x].path
    OBVIOUS
  <2> HIDE DEF nm, fs
  <2>3. QED  BY <2>1, <2>2
<1>5. IsFiniteSet(S) /\ \A x \in S : sz[x] \in Int /\ sz[x] = Len(fs[nm[x]].data)
  BY <1>1, <1>4
<1> HIDE DEF nm, fs, sz, S
<1>6. Atomic!BytesOf(fs) = Sum(sz, S)
  BY <1>2, <1>3, <1>5, BytesBehind
<1>7. QED  BY <1>6, StoredBytesNext DEF fs, sz, S

\* And the number of files they see is the number stored.
LEMMA NumberSeen ==
  ASSUME IInv, OInv, FilesSeen, Seen = Stored
  PROVE  Atomic!Cardinality(DOMAIN FilesBar) = currFiles
<1> DEFINE nm == [o \in Stored |-> obj[o].path]
           I == 1..Len(table)
<1>1. /\ TypeOK /\ currFiles = Len(table) /\ Len(table) \in Nat
      /\ I = DOMAIN table
  BY DEF IInv, FileCount, TypeOK
<1>2. IsFiniteSet(I) /\ Cardinality(I) = Len(table)
  <2> DEFINE n == Len(table)
  <2>1. n \in Int /\ 1 \in Int /\ (1 > n => n = 0)
    BY <1>1
  <2> HIDE DEF n
  <2>2. IsFiniteSet(1..n) /\ Cardinality(1..n) = IF 1 > n THEN 0 ELSE n - 1 + 1
    BY <2>1, FS_Interval
  <2>3. Cardinality(1..n) = n
    BY <2>1, <2>2
  <2>4. QED  BY <2>2, <2>3 DEF n
<1>3. Stored = {table[i] : i \in I} /\ \A i, j \in I : table[i] = table[j] => i = j
  BY <1>1 DEF Stored, ToSet, OInv, UniquePaths
<1> HIDE DEF I
<1>4. IsFiniteSet(Stored) /\ Cardinality(Stored) = Len(table)
  BY <1>2, <1>3, NamesFinite
<1>5. DOMAIN FilesBar = {nm[o] : o \in Stored} /\ \A x, y \in Stored : nm[x] = nm[y] => x = y
  BY DEF FilesSeen
<1> HIDE DEF nm
<1>6. Cardinality(DOMAIN FilesBar) = Len(table)
  BY <1>4, <1>5, NamesFinite
<1>7. \A S : Atomic!Cardinality(S) = Cardinality(S)
  BY DEF Atomic!Cardinality, Cardinality
<1>8. QED  BY <1>1, <1>6, <1>7

-----------------------------------------------------------------------------
(* The steps of a handler.                                                 *)

Ready == IInv /\ OInv /\ CInv /\ RInv

\* A step of the store, or none.
Implemented == Atomic!Next \/ UNCHANGED <<FilesBar, PendingBar, LastBar, alive>>

\* The handler that is running is for a request.
LEMMA Served ==
  ASSUME Ready, NEW w \in Workers, pc[w] # "idle"
  PROVE  /\ TypeOK /\ FilesSeen /\ Req(w) \in Request /\ Req(w) # NoObj
         /\ Client(w) \in Clients /\ Req(w).path \in Paths /\ Req(w).data \in Seq(Bytes)
<1>1. Req(w) \in Request
  BY DEF Ready, IInv, LocalsOK, LocalsAt, Req
<1>2. TypeOK /\ FilesSeen
  BY FilesAre DEF Ready, IInv
<1>3. QED  BY <1>1, <1>2, RefinementAssumption DEF Request, Req, Client

\* The request of a busy handler is the one pending.
LEMMA Pended ==
  ASSUME OneWorker, Ready, NEW w \in Workers, Busy(w)
  PROVE  PendingBar[Client(w)] = Req(w) /\ PendingBar[Client(w)] # NoObj
<1>1. Client(w) \in Clients /\ Req(w) # NoObj
  BY Served DEF Busy
<1>2. QED  BY <1>1, BarsNext DEF PendingAt, Serves, Busy

\* The reasons to refuse.
LEMMA Reasons ==
  ASSUME OneWorker, Ready, NEW w \in Workers, Busy(w)
  PROVE  /\ Req(w).path \notin DOMAIN FilesBar /\ ~(Req(w).op = "OPEN" /\ Req(w).create)
              => Atomic!Reason(Client(w), "FNF")
         /\ Req(w).op = "OPEN" /\ Req(w).path \in DOMAIN FilesBar
              /\ FilesBar[Req(w).path].owner # NoClient
              => Atomic!Reason(Client(w), "ALREADY")
         /\ Req(w).op # "OPEN" /\ Req(w).path \in DOMAIN FilesBar
              /\ FilesBar[Req(w).path].owner # Client(w)
              => Atomic!Reason(Client(w), "LOCKED")
         /\ \/ Req(w).op = "OTHER"
            \/ Req(w).op \in {"WRITE", "APPEND"} /\ Req(w).data = <<>>
            \/ Req(w).op \in {"WRITE", "APPEND"}
                  /\ Atomic!BytesOf(FilesBar) + Len(Req(w).data) > MaxBytes
            \/ /\ Req(w).op = "OPEN" /\ Req(w).create
               /\ \/ Atomic!Cardinality(DOMAIN FilesBar) = MaxFiles
                  \/ Atomic!BytesOf(FilesBar) = MaxBytes
              => Atomic!Reason(Client(w), "FAILURE")
  BY Pended DEF Atomic!Reason, Atomic!Present, Atomic!NoClient, NoClient

\* A refusal.
LEMMA Refused ==
  ASSUME OneWorker, Ready, NEW w \in Workers, Busy(w), UNCHANGED FilesBar,
         NEW k \in {"FNF", "ALREADY", "LOCKED", "FAILURE"},
         Atomic!Decide(Client(w), k, <<>>), Atomic!Reason(Client(w), k)
  PROVE  Implemented
<1>1. Client(w) \in Clients
  BY Served DEF Busy
<1>2. Atomic!Refuse(Client(w))
  BY Pended DEF Atomic!Refuse
<1>3. QED  BY <1>1, <1>2 DEF Implemented, Atomic!Next

\* A step of a handler that is none of the store.
LEMMA Quietly ==
  ASSUME OneWorker, NEW w \in Workers, Busy(w), Busy(w)', frame'[w].req = frame[w].req,
         UNCHANGED <<alive, FilesBar>>, OthersUntold(w)
  PROVE  Implemented
  BY SilentBars DEF Implemented

\* A client that has gone leaves its request.
LEMMA Abandoned ==
  ASSUME OneWorker, Ready, NEW w \in Workers, Busy(w), ~alive[Client(w)], Return(w),
         UNCHANGED <<alive, out, FilesBar>>
  PROVE  Implemented
<1>1. Client(w) \in Clients /\ TypeOK
  BY Served DEF Busy
<1>2. Atomic!Abandon(Client(w))
  BY <1>1, GoneBars
<1>3. QED  BY <1>1, <1>2 DEF Implemented, Atomic!Next

\* A file is opened, and the lookup before it.
LEMMA OpenFoundImplements ==
  ASSUME OneWorker, Ready, Ready', NEW w \in Workers, OpenFound(w)
  PROVE  Implemented
<1> DEFINE c == Client(w)
           f == File(w)
           p == Req(w).path
<1>1. pc[w] = "OpenFound" /\ Busy(w) /\ UNCHANGED <<table, alive>> /\ Req(w).op = "OPEN"
  BY DEF OpenFound, Busy, Decided, Ready, RInv, SeenAt, Asked, OpenAt
<1>2. /\ TypeOK /\ FilesSeen /\ FilesSeen' /\ Req(w) # NoObj /\ c \in Clients /\ c # Evicted
  BY <1>1, Served, FilesNext, FileServerAssumption DEF Ready, Evicted
<1>3. /\ f \in Stored /\ f \in Seen /\ obj[f].path = p /\ p \in DOMAIN FilesBar
      /\ FilesBar[p].data = obj[f].data /\ FilesBar[p].owner = obj[f].client
  BY <1>1, <1>2, TheirFile DEF NamedLabels, Ready
<1>4. PendingBar[c] = Req(w) /\ PendingBar[c] # NoObj
  BY <1>1, Pended
<1>5. CASE Grantable(f)
  <2>1. obj' = [obj EXCEPT ![f].client = c] /\ Reply(w, "SUCCESS")
    BY <1>5 DEF OpenFound
  <2>2. Atomic!Decide(c, "SUCCESS", <<>>)
    BY <1>1, <1>2, <2>1, ReplyBars
  <2>3. /\ Stored' = Stored /\ Stored \subseteq Objs /\ f \in Objs
        /\ obj'[f].path = p /\ obj'[f].data = obj[f].data /\ obj'[f].client = c
        /\ \A o \in Objs : o # f => obj'[o] = obj[o]
    BY <1>1, <1>2, <1>3, <2>1, TableObjs DEF Stored, TypeOK, FileData
  <2>4. Seen' = Seen
    BY <1>2, <1>3, <2>3 DEF Seen
  <2> DEFINE g == [data |-> obj'[f].data, owner |-> obj'[f].client]
  <2>5. FilesBar[p] = [data |-> obj[f].data, owner |-> obj[f].client]
    BY <1>2, <1>3 DEF FilesSeen
  <2>6. FilesBar' = [q \in DOMAIN FilesBar \cup {p} |-> IF q = p THEN g ELSE FilesBar[q]]
    <3>1. \A o \in Seen : o # f => obj'[o] = obj[o]
      BY <2>3 DEF Seen
    <3>2. g = [data |-> obj'[f].data, owner |-> obj'[f].client]
      OBVIOUS
    <3> HIDE DEF g
    <3>3. FilesBar' = [q \in DOMAIN FilesBar |-> IF q = p THEN g ELSE FilesBar[q]]
      BY <1>2, <1>3, <2>3, <2>4, <3>1, <3>2, FileChanged
    <3>4. DOMAIN FilesBar = DOMAIN FilesBar \cup {p}
      BY <1>3
    <3>5. QED  BY <3>3, <3>4
  <2>9. [FilesBar[p] EXCEPT !.owner = c] = g
    BY <2>3, <2>5
  <2>7. Atomic!Open(c)
    BY <1>1, <1>2, <1>3, <1>4, <1>5, <2>2, <2>6, <2>9
       DEF Atomic!Open, Atomic!Asks, Atomic!Present, Atomic!Put, Atomic!NoClient, NoClient,
           Grantable
  <2>8. QED  BY <1>2, <2>7 DEF Implemented, Atomic!Next
<1>6. CASE ~Grantable(f)
  <2>1. UNCHANGED <<table, obj>> /\ Reply(w, "ALREADY")
    BY <1>1, <1>6 DEF OpenFound
  <2>2. Atomic!Decide(c, "ALREADY", <<>>)
    BY <1>1, <1>2, <2>1, ReplyBars
  <2>3. Atomic!Reason(c, "ALREADY")
    BY <1>1, <1>3, <1>6, Reasons DEF Grantable
  <2>4. QED  BY <1>1, <2>1, <2>2, <2>3, Refused, StoreStays
<1>7. QED  BY <1>5, <1>6

\* A file is created: it is decided when it enters the table.
LEMMA OpenInsertImplements ==
  ASSUME OneWorker, Ready, Ready', NEW w \in Workers, OpenInsert(w)
  PROVE  Implemented
<1> DEFINE c == Client(w)
           f == File(w)
           p == Req(w).path
<1>1. /\ pc[w] = "OpenInsert" /\ Busy(w) /\ UNCHANGED alive
      /\ Req(w).op = "OPEN" /\ Req(w).create
  BY DEF OpenInsert, Busy, Decided, Ready, RInv, SeenAt, Asked, OpenAt
<1>2. /\ TypeOK /\ FilesSeen /\ FilesSeen' /\ Req(w) # NoObj /\ c \in Clients
      /\ c # Evicted /\ p \in Paths
  BY <1>1, Served, FilesNext, FileServerAssumption DEF Ready, Evicted
<1>3. f \in Objs /\ ~FilesFull /\ currFiles < MaxFiles
  <2>1. f \in Objs
    BY <1>1 DEF Ready, IInv, LocalsOK, LocalsAt, FileUse, Labels, File
  <2>2. currFiles < MaxFiles /\ currFiles \in Nat
    BY <1>1 DEF Ready, IInv, Room, TypeOK
  <2>3. QED  BY <2>1, <2>2, FileServerAssumption DEF FilesFull
<1>4. /\ obj' = [obj EXCEPT ![f].path = p] /\ table' = Inserted(f)
      /\ frame' = [frame EXCEPT ![w].tmp = (currBytes + Size(f)) % SizeMod]
      /\ Goto(w, "OpenStore") /\ UNCHANGED out
  BY <1>3 DEF OpenInsert
<1>5. f \notin Stored /\ obj[f].data = <<>> /\ obj[f].client = c
  BY <1>1 DEF Ready, OInv, AtWorker, HeapStored, CInv, CountsAt, Fresh, RInv, SeenAt, Mine
<1>6. /\ obj'[f].path = p /\ obj'[f].data = <<>> /\ obj'[f].client = c
      /\ \A o \in Stored : obj'[o] = obj[o]
  BY <1>2, <1>3, <1>4, <1>5, TableObjs DEF TypeOK, FileData, Stored
<1>7. Stored' = Stored \cup {f}
  BY <1>2, <1>3, <1>4, InsertedEntries DEF TypeOK, Stored
<1>8. Seen = Stored /\ Seen' = Seen \cup {f} /\ f \notin Seen
  <2>1. Seen = Stored
    BY <1>1, AllSeen DEF Ready
  <2>2. QED  BY <2>1, <1>2, <1>5, <1>6, <1>7 DEF Seen
<1>9. p \notin DOMAIN FilesBar
  <2>1. NoEntry(p)
    BY <1>1 DEF Ready, OInv, AtWorker, Absent
  <2>2. \A o \in Stored : obj[o].path # p
    BY <2>1 DEF NoEntry, Stored, ToSet
  <2>3. QED  BY <1>2, <1>8, <2>2 DEF FilesSeen
<1>10. Atomic!Cardinality(DOMAIN FilesBar) < MaxFiles
  BY <1>2, <1>3, <1>8, NumberSeen DEF Ready
<1>11. PendingBar[c] = Req(w) /\ PendingBar[c] # NoObj
  BY <1>1, Pended
<1>12. pc'[w] = "OpenStore" /\ frame'[w].req = frame[w].req
  BY <1>2, <1>4 DEF TypeOK, Frame, Goto
<1>13. Atomic!Decide(c, "SUCCESS", <<>>)
  BY <1>1, <1>2, <1>4, <1>12, DecidedBars DEF OthersUntold
<1> DEFINE g == [data |-> <<>>, owner |-> c]
<1>14. g = [data |-> obj'[f].data, owner |-> obj'[f].client]
  BY <1>6
<1>15. FilesBar' = [q \in DOMAIN FilesBar \cup {p} |-> IF q = p THEN g ELSE FilesBar[q]]
  <2>1. \A o \in Seen : obj'[o] = obj[o]
    BY <1>6, <1>8
  <2>2. f \notin Seen /\ Seen' = Seen \cup {f} /\ obj'[f].path = p
    BY <1>6, <1>8
  <2> HIDE DEF f, p, g
  <2>3. QED  BY <1>2, <1>9, <1>14, <2>1, <2>2, FileAdded
<1>16. Atomic!Open(c)
  BY <1>1, <1>9, <1>10, <1>11, <1>13, <1>15
     DEF Atomic!Open, Atomic!Asks, Atomic!Present, Atomic!Put
<1>17. QED  BY <1>2, <1>16 DEF Implemented, Atomic!Next

\* A file is closed.
LEMMA CloseFoundImplements ==
  ASSUME OneWorker, Ready, Ready', NEW w \in Workers, CloseFound(w)
  PROVE  Implemented
<1> DEFINE c == Client(w)
           f == File(w)
           p == Req(w).path
<1>1. pc[w] = "CloseFound" /\ Busy(w) /\ UNCHANGED <<table, alive>> /\ Req(w).op = "CLOSE"
  BY DEF CloseFound, Busy, Decided, Ready, RInv, SeenAt, Asked
<1>2. /\ TypeOK /\ FilesSeen /\ FilesSeen' /\ c \in Clients /\ c # Evicted
      /\ NoClient # Evicted
  BY <1>1, Served, FilesNext, FileServerAssumption DEF Ready, Evicted, NoClient
<1>3. /\ f \in Stored /\ f \in Seen /\ obj[f].path = p /\ p \in DOMAIN FilesBar
      /\ FilesBar[p].owner = obj[f].client
  BY <1>1, <1>2, TheirFile DEF NamedLabels, Ready
<1>4. PendingBar[c] = Req(w) /\ PendingBar[c] # NoObj
  BY <1>1, Pended
<1>5. CASE obj[f].client = c
  <2>1. obj' = [obj EXCEPT ![f].client = NoClient] /\ Reply(w, "SUCCESS")
    BY <1>5 DEF CloseFound
  <2>2. Atomic!Decide(c, "SUCCESS", <<>>)
    BY <1>1, <1>2, <2>1, ReplyBars
  <2>3. /\ Stored' = Stored /\ Stored \subseteq Objs /\ f \in Objs
        /\ obj'[f].path = p /\ obj'[f].data = obj[f].data /\ obj'[f].client = NoClient
        /\ \A o \in Objs : o # f => obj'[o] = obj[o]
    BY <1>1, <1>2, <1>3, <2>1, TableObjs DEF Stored, TypeOK, FileData
  <2>4. Seen' = Seen
    BY <1>2, <1>3, <2>3 DEF Seen
  <2> DEFINE g == [FilesBar[p] EXCEPT !.owner = NoClient]
  <2>5. g = [data |-> obj'[f].data, owner |-> obj'[f].client]
    <3>1. FilesBar[p] = [data |-> obj[f].data, owner |-> obj[f].client]
      BY <1>2, <1>3 DEF FilesSeen
    <3>2. QED  BY <2>3, <3>1
  <2>6. FilesBar' = [q \in DOMAIN FilesBar |-> IF q = p THEN g ELSE FilesBar[q]]
    <3>1. \A o \in Seen : o # f => obj'[o] = obj[o]
      BY <2>3 DEF Seen
    <3> HIDE DEF g
    <3>2. QED  BY <1>2, <1>3, <2>3, <2>4, <2>5, <3>1, FileChanged
  <2>7. FilesBar' = [FilesBar EXCEPT ![p].owner = NoClient]
    BY <1>2, <2>6 DEF FilesSeen
  <2>8. Atomic!Close(c)
    BY <1>1, <1>3, <1>4, <1>5, <2>2, <2>7
       DEF Atomic!Close, Atomic!Asks, Atomic!Owned, Atomic!Present, Atomic!NoClient, NoClient
  <2>9. QED  BY <1>2, <2>8 DEF Implemented, Atomic!Next
<1>6. CASE obj[f].client # c
  <2>1. UNCHANGED <<table, obj>> /\ Reply(w, "LOCKED")
    BY <1>1, <1>6 DEF CloseFound
  <2>2. Atomic!Decide(c, "LOCKED", <<>>)
    BY <1>1, <1>2, <2>1, ReplyBars
  <2>3. Atomic!Reason(c, "LOCKED")
    BY <1>1, <1>3, <1>6, Reasons
  <2>4. QED  BY <1>1, <2>1, <2>2, <2>3, Refused, StoreStays
<1>7. QED  BY <1>5, <1>6

\* A file is read: it is decided when the confirmation is sent.
LEMMA ReadFoundImplements ==
  ASSUME OneWorker, Ready, Ready', NEW w \in Workers, ReadFound(w)
  PROVE  Implemented
<1> DEFINE c == Client(w)
           f == File(w)
           p == Req(w).path
<1>1. pc[w] = "ReadFound" /\ Busy(w) /\ UNCHANGED <<table, obj, alive>> /\ Req(w).op = "READ"
  BY DEF ReadFound, Busy, Decided, Ready, RInv, SeenAt, Asked
<1>2. TypeOK /\ FilesSeen /\ c \in Clients /\ UNCHANGED FilesBar
  BY <1>1, Served, StoreStays
<1>3. /\ f \in Stored /\ p \in DOMAIN FilesBar /\ FilesBar[p].data = obj[f].data
      /\ FilesBar[p].owner = obj[f].client
  BY <1>1, <1>2, TheirFile DEF NamedLabels, Ready
<1>4. PendingBar[c] = Req(w) /\ PendingBar[c] # NoObj
  BY <1>1, Pended
<1>5. CASE obj[f].client \notin {0, c}
  <2>1. Reply(w, "LOCKED")
    BY <1>5 DEF ReadFound
  <2>2. Atomic!Decide(c, "LOCKED", <<>>)
    BY <1>1, <1>2, <2>1, ReplyBars
  <2>3. Atomic!Reason(c, "LOCKED")
    BY <1>1, <1>3, <1>5, Reasons
  <2>4. QED  BY <1>1, <1>2, <2>2, <2>3, Refused
<1>6. CASE obj[f].client \in {0, c} /\ alive[c]
  <2>1. Send(w, Code("SUCCESS")) /\ Goto(w, "ReadSend") /\ UNCHANGED frame
    BY <1>6 DEF ReadFound
  <2>2. obj[f].client = c
    <3>1. f \in Objs
      BY <1>2, <1>3, TableObjs DEF Stored
    <3>2. obj[f].client \in Clients \cup {NoClient, Evicted}
      BY <1>2, <3>1 DEF TypeOK, FileData
    <3>3. QED  BY <1>6, <3>2, FileServerAssumption DEF NoClient, Evicted
  <2>3. pc'[w] = "ReadSend" /\ frame'[w].req = frame[w].req
    BY <1>2, <2>1 DEF Goto, TypeOK
  <2>4. OthersUntold(w)
    BY <1>2, <2>1, Untold
  <2> DEFINE d == FilesBar[p].data
  <2>5. d = IF pc'[w] = "ReadSend" THEN obj'[frame'[w].ptr].data ELSE <<>>
    BY <1>1, <1>3, <2>1, <2>3 DEF File
  <2> HIDE DEF d
  <2>6. Atomic!Decide(c, "SUCCESS", d)
    BY <1>1, <1>2, <2>3, <2>4, <2>5, DecidedBars
  <2>7. Atomic!Read(c)
    BY <1>1, <1>2, <1>3, <1>4, <2>2, <2>6
       DEF d, Atomic!Read, Atomic!Asks, Atomic!Owned, Atomic!Present
  <2>8. QED  BY <1>2, <2>7 DEF Implemented, Atomic!Next
<1>7. CASE obj[f].client \in {0, c} /\ ~alive[c]
  <2>1. Return(w) /\ UNCHANGED out
    BY <1>7 DEF ReadFound, Send
  <2>2. QED  BY <1>1, <1>2, <1>7, <2>1, Abandoned
<1>8. QED  BY <1>5, <1>6, <1>7

\* The contents of the file follow the confirmation.
LEMMA ReadSendImplements ==
  ASSUME OneWorker, Ready, NEW w \in Workers, ReadSend(w)
  PROVE  Implemented
<1> DEFINE c == Client(w)
           f == File(w)
           d == obj[f].data
           s == out[c]
<1>1. /\ pc[w] = "ReadSend" /\ Decided(w) /\ Return(w) /\ UNCHANGED <<table, obj, alive>>
  BY DEF ReadSend, Decided
<1>2. TypeOK /\ c \in Clients /\ UNCHANGED FilesBar
  BY <1>1, Served, StoreStays
<1>3. f \in Objs /\ f \in heap
  BY <1>1, FileServerAssumption
     DEF Ready, IInv, LocalsOK, LocalsAt, FileUse, Labels, File, OInv, AtWorker, Points
<1>4. Send(w, DataMsg(d))
  BY <1>3 DEF ReadSend
<1>5. OthersUntold(w)
  BY <1>2, <1>4, Untold
<1>6. ASSUME alive[c] PROVE Verdict(out'[c]) = Confirmed(w)
  <2>1. out'[c] = s \o DataMsg(d)
    BY <1>2, <1>4, <1>6 DEF Send, TypeOK
  <2>2. s \in Seq(Message) /\ s # <<>> /\ Last(s).code = "SUCCESS"
    BY <1>1, <1>2, <1>6 DEF TypeOK, Ready, RInv, SeenAt, Answered
  <2>3. Confirmed(w) = [code |-> "SUCCESS", data |-> d]
    BY <1>1 DEF Confirmed
  <2> HIDE DEF s, d
  <2>4. CASE d = <<>>
    <3>1. s \o DataMsg(d) = s
      BY <2>2, <2>4 DEF DataMsg
    <3>2. Verdict(s) = [code |-> "SUCCESS", data |-> <<>>]
      BY <2>2 DEF Verdict
    <3>3. QED  BY <2>1, <2>3, <2>4, <3>1, <3>2
  <2>5. CASE d # <<>>
    <3> DEFINE m == [code |-> "DATA", path |-> NoPath, data |-> d]
               t == Append(s, m)
    <3>1. s \o DataMsg(d) = t
      BY <2>2, <2>5 DEF DataMsg
    <3>2. Len(t) = Len(s) + 1 /\ t[Len(s) + 1] = m /\ t # <<>> /\ Len(s) \in Nat
      BY <2>2
    <3> HIDE DEF t, m
    <3>3. Last(t) = m
      BY <3>2 DEF Last
    <3>4. Verdict(t) = [code |-> "SUCCESS", data |-> d]
      BY <3>2, <3>3 DEF Verdict, m
    <3>5. QED  BY <2>1, <2>3, <3>1, <3>4
  <2>6. QED  BY <2>4, <2>5
<1>7. UNCHANGED <<PendingBar, LastBar>>
  BY <1>1, <1>2, <1>5, <1>6, FinishBars
<1>8. QED  BY <1>1, <1>2, <1>7 DEF Implemented

\* The answer to a creation or a removal that has been made.
LEMMA StoreImplements ==
  ASSUME OneWorker, Ready, NEW w \in Workers, OpenStore(w) \/ RemoveStore(w)
  PROVE  Implemented
<1> DEFINE c == Client(w)
           s == out[c]
           m == [code |-> "SUCCESS", path |-> NoPath, data |-> <<>>]
<1>1. /\ pc[w] \in {"OpenStore", "RemoveStore"} /\ Decided(w) /\ Reply(w, "SUCCESS")
      /\ UNCHANGED <<table, obj, alive>>
  BY DEF OpenStore, RemoveStore, Decided
<1>2. TypeOK /\ c \in Clients /\ UNCHANGED FilesBar
  BY <1>1, Served, StoreStays
<1>3. OthersUntold(w) /\ Return(w)
  BY <1>1, <1>2, Untold DEF Reply
<1>4. ASSUME alive[c] PROVE Verdict(out'[c]) = Confirmed(w)
  <2>1. out'[c] = s \o Code("SUCCESS")
    BY <1>1, <1>2, <1>4 DEF Reply, Send, TypeOK
  <2>2. s \in Seq(Message)
    BY <1>2 DEF TypeOK
  <2>3. Confirmed(w) = [code |-> "SUCCESS", data |-> <<>>]
    BY <1>1 DEF Confirmed
  <2> HIDE DEF s
  <2> DEFINE t == Append(s, m)
  <2>4. s \o Code("SUCCESS") = t
    BY <2>2 DEF Code
  <2>5. Len(t) = Len(s) + 1 /\ t[Len(s) + 1] = m /\ t # <<>> /\ Len(s) \in Nat
    BY <2>2
  <2> HIDE DEF t, m
  <2>6. Last(t) = m
    BY <2>5 DEF Last
  <2>7. Verdict(t) = [code |-> "SUCCESS", data |-> <<>>]
    BY <2>5, <2>6 DEF Verdict, m
  <2>8. QED  BY <2>1, <2>3, <2>4, <2>7
<1>5. UNCHANGED <<PendingBar, LastBar>>
  BY <1>1, <1>2, <1>3, <1>4, FinishBars
<1>6. QED  BY <1>1, <1>2, <1>5 DEF Implemented

\* The room there is, as the clients see it.
LEMMA RoomSeen ==
  ASSUME OneWorker, Ready, NEW w \in Workers, pc[w] \notin {"idle", "EvictUnlink"}
  PROVE  /\ Atomic!BytesOf(FilesBar) = StoredBytes
         /\ Atomic!Cardinality(DOMAIN FilesBar) = currFiles
<1>1. TypeOK /\ FilesSeen /\ Seen = Stored
  BY Served, AllSeen DEF Ready
<1>2. QED  BY <1>1, BytesSeen, NumberSeen DEF Ready

\* The write does not fit.
LEMMA TooLarge ==
  ASSUME OneWorker, Ready, NEW w \in Workers, Busy(w), pc[w] # "EvictUnlink",
         Req(w).op \in {"WRITE", "APPEND"}, StoredBytes + Len(Req(w).data) > MaxBytes
  PROVE  Atomic!Reason(Client(w), "FAILURE")
<1>1. Atomic!BytesOf(FilesBar) = StoredBytes
  BY RoomSeen DEF Busy
<1>2. PendingBar[Client(w)] = Req(w)
  BY Pended
<1> DEFINE n == Atomic!BytesOf(FilesBar)
<1>3. n + Len(Req(w).data) > MaxBytes
  BY <1>1
<1> HIDE DEF n
<1>4. QED  BY <1>2, <1>3 DEF Atomic!Reason, n

\* A file is not created when the storage is full.
LEMMA OpenCreateImplements ==
  ASSUME OneWorker, Ready, Ready', NEW w \in Workers, OpenCreate(w)
  PROVE  Implemented
<1> DEFINE c == Client(w)
<1>1. /\ pc[w] = "OpenCreate" /\ Busy(w) /\ UNCHANGED <<table, alive>>
      /\ Req(w).op = "OPEN" /\ Req(w).create
  BY DEF OpenCreate, Busy, Decided, Ready, RInv, SeenAt, Asked, OpenAt, store
<1>2. TypeOK /\ FilesSeen /\ FilesSeen' /\ c \in Clients
  BY <1>1, Served, FilesNext DEF Ready
<1>3. CASE NoRoom /\ Reply(w, "FAILURE") /\ UNCHANGED store
  <2>1. Atomic!Decide(c, "FAILURE", <<>>)
    BY <1>1, <1>2, <1>3, ReplyBars
  <2>2. MaxFiles \in Nat /\ currFiles \in Nat /\ currBytes \in Nat /\ MaxBytes \in Nat
    BY <1>2, Numbers, FileServerAssumption DEF TypeOK
  <2>3. currBytes = StoredBytes /\ currBytes <= MaxBytes
    BY <1>1 DEF Ready, CInv, CountsAt, Counted
  <2>4. currFiles = MaxFiles \/ StoredBytes = MaxBytes
    BY <1>3, <2>2, <2>3 DEF NoRoom, FilesFull, BytesAvailable
  <2>5. Atomic!Reason(c, "FAILURE")
    BY <1>1, <2>4, RoomSeen, Reasons
  <2>6. UNCHANGED FilesBar
    BY <1>3, StoreStays DEF store
  <2>7. QED  BY <1>1, <2>1, <2>5, <2>6, Refused
<1>4. CASE ~(NoRoom /\ Reply(w, "FAILURE") /\ UNCHANGED store)
  <2>1. PICK o \in Objs \ heap :
          /\ obj' = [obj EXCEPT ![o] = [Unused EXCEPT !.client = Client(w)]]
          /\ frame' = [frame EXCEPT ![w].ptr = o] /\ Goto(w, "OpenInsert") /\ UNCHANGED out
    BY <1>4 DEF OpenCreate, Mallocable
  <2>2. /\ heap = Stored /\ Stored' = Stored /\ Stored \subseteq Objs
    BY <1>1, <1>2, TableObjs DEF Ready, OInv, AtWorker, HeapStored, Stored
  <2>3. \A x \in Stored : obj'[x] = obj[x]
    BY <1>2, <2>1, <2>2 DEF TypeOK
  <2>4. Seen' = Seen /\ \A x \in Seen : obj'[x] = obj[x]
    BY <2>2, <2>3 DEF Seen
  <2>5. UNCHANGED FilesBar
    BY <1>2, <2>4, SeenStays
  <2>6. frame'[w].req = frame[w].req /\ pc'[w] = "OpenInsert"
    BY <1>2, <2>1 DEF TypeOK, Frame, Goto
  <2>7. Busy(w)' /\ OthersUntold(w)
    BY <2>1, <2>6 DEF Busy, Decided, OthersUntold
  <2>8. QED  BY <1>1, <2>5, <2>6, <2>7, Quietly
<1>5. QED  BY <1>3, <1>4

\* An eviction does not start, for the write does not fit.
LEMMA EvictStartImplements ==
  ASSUME OneWorker, Ready, NEW w \in Workers, EvictStart(w)
  PROVE  Implemented
<1> DEFINE c == Client(w)
<1>1. /\ pc[w] = "EvictStart" /\ Busy(w) /\ UNCHANGED <<table, obj, alive>>
      /\ Req(w).op \in {"WRITE", "APPEND"}
  BY DEF EvictStart, Busy, Decided, Ready, RInv, SeenAt, Asked, WriteAt, WriteLabels, EvictLabels
<1>2. TypeOK /\ c \in Clients /\ UNCHANGED FilesBar
  BY <1>1, Served, StoreStays
<1>3. CASE Reply(w, "FAILURE")
  <2>1. Atomic!Decide(c, "FAILURE", <<>>)
    BY <1>1, <1>2, <1>3, ReplyBars
  <2>2. /\ BytesAvailable < Len(Req(w).data) /\ currBytes = StoredBytes
        /\ currBytes <= MaxBytes
    BY <1>1 DEF Ready, CInv, CountsAt, Short, Counted
  <2>3. currBytes \in Nat /\ MaxBytes \in Nat /\ Len(Req(w).data) \in Nat
    BY <1>2, Numbers
  <2>4. StoredBytes + Len(Req(w).data) > MaxBytes
    BY <2>2, <2>3 DEF BytesAvailable
  <2>5. Atomic!Reason(c, "FAILURE")
    BY <1>1, <2>4, TooLarge
  <2>6. QED  BY <1>1, <1>2, <2>1, <2>5, Refused
<1>4. CASE ~Reply(w, "FAILURE")
  <2>1. PICK n : /\ frame' = [frame EXCEPT ![w].need = n, ![w].todo = ToSet(table)]
                 /\ Goto(w, "EvictAsk") /\ Send(w, Code("EVICT"))
    BY <1>4 DEF EvictStart
  <2>2. frame'[w].req = frame[w].req /\ pc'[w] = "EvictAsk"
    BY <1>2, <2>1 DEF TypeOK, Frame, Goto
  <2>3. Busy(w)' /\ OthersUntold(w)
    BY <1>2, <2>1, <2>2, Untold DEF Busy, Decided
  <2>4. QED  BY <1>1, <1>2, <2>2, <2>3, Quietly
<1>5. QED  BY <1>3, <1>4

\* A victim is marked: from now on it is gone.
LEMMA EvictTakeImplements ==
  ASSUME OneWorker, Ready, Ready', NEW w \in Workers, EvictTake(w)
  PROVE  Implemented
<1> DEFINE c == Client(w)
           f == File(w)
           p == Req(w).path
<1>1. /\ pc[w] = "Evict" /\ Busy(w) /\ UNCHANGED <<table, alive>> /\ frame[w].need # 0
      /\ Req(w).op \in {"WRITE", "APPEND"}
  BY DEF EvictTake, Busy, Decided, Ready, RInv, SeenAt, Asked, WriteAt, WriteLabels, EvictLabels
<1>2. /\ TypeOK /\ FilesSeen /\ FilesSeen' /\ c \in Clients /\ c # Evicted
      /\ NoClient # Evicted
  BY <1>1, Served, FilesNext, FileServerAssumption DEF Ready, Evicted, NoClient
<1>3. PICK o \in frame[w].todo :
        /\ Evictable(o, c) /\ obj' = [obj EXCEPT ![o].client = Evicted]
        /\ frame' = [frame EXCEPT ![w].todo = @ \ {o}, ![w].vic = o,
                                  ![w].need = StillNeeded(@, o)]
        /\ UNCHANGED out \/ \E ms : Send(w, ms)
  BY DEF EvictTake
<1>4. /\ f \in Stored /\ obj[f].path = p /\ p \in DOMAIN FilesBar
      /\ FilesBar[p].owner = obj[f].client /\ obj[f].client = c
  BY <1>1, <1>2, TheirFile
     DEF Ready, NamedLabels, OwnedLabels, WriteLabels, EvictLabels, OInv, AtWorker, Owned
<1>5. Seen = Stored /\ heap = Stored /\ Stored \subseteq Objs
  BY <1>1, <1>2, AllSeen, TableObjs DEF Ready, OInv, AtWorker, HeapStored, Stored
<1>6. /\ o \in Seen /\ o # f /\ obj[o].client \in {NoClient, c}
  <2>1. mutex[f] = w /\ w # NoWorker
    BY <1>1, FileServerAssumption
       DEF Ready, OInv, AtWorker, Held, WriteLabels, EvictLabels
  <2>2. QED  BY <1>3, <1>5, <2>1 DEF Evictable
<1>7. /\ obj'[o].client = Evicted /\ \A x \in Objs : x # o => obj'[x] = obj[x]
  BY <1>2, <1>3, <1>5, <1>6 DEF TypeOK, FileData
<1>8. Seen' = Seen \ {o} /\ \A x \in Seen : x # o => obj'[x] = obj[x]
  <2>1. Stored' = Stored
    BY <1>1 DEF Stored
  <2>2. QED  BY <2>1, <1>5, <1>7 DEF Seen
<1> DEFINE v == obj[o].path
<1>9. /\ v \in DOMAIN FilesBar /\ FilesBar' = [q \in DOMAIN FilesBar \ {v} |-> FilesBar[q]]
  <2>1. v = obj[o].path
    OBVIOUS
  <2> HIDE DEF v
  <2>2. QED  BY <1>2, <1>6, <1>8, <2>1, FileDropped
<1>10. v # p /\ FilesBar[v].owner = obj[o].client
  <2>1. FilesBar[v] = [data |-> obj[o].data, owner |-> obj[o].client]
    BY <1>2, <1>6 DEF FilesSeen
  <2>2. \A x, y \in Stored : obj[x].path = obj[y].path => x = y
    BY <1>2 DEF FilesSeen
  <2>3. v # p
    BY <1>4, <1>5, <1>6, <2>2
  <2>4. QED  BY <2>1, <2>3
<1>11. PendingBar[c] = Req(w) /\ PendingBar[c] # NoObj
  BY <1>1, Pended
<1>12. Atomic!BytesOf(FilesBar) + Len(Req(w).data) > MaxBytes
  <2>1. StoredBytes + Len(Req(w).data) = MaxBytes + frame[w].need
    BY <1>1 DEF Ready, CInv, CountsAt, Freeing, Unfreed
  <2>2. MaxBytes \in Nat /\ frame[w].need \in Nat
    BY <1>2, Numbers
  <2>3. QED  BY <1>1, <2>1, <2>2, RoomSeen
<1>13. frame'[w].req = frame[w].req /\ pc'[w] = "EvictUnlink"
  BY <1>2, <1>3 DEF EvictTake, Goto, TypeOK, Frame
<1>14. Busy(w)' /\ OthersUntold(w)
  BY <1>2, <1>3, <1>13, Untold DEF Busy, Decided
<1>15. UNCHANGED <<PendingBar, LastBar>>
  BY <1>1, <1>13, <1>14, SilentBars
<1> HIDE DEF v
<1>16. Atomic!Evict(c)
  BY <1>1, <1>4, <1>6, <1>9, <1>10, <1>11, <1>12, <1>15
     DEF Atomic!Evict, Atomic!Asks, Atomic!Owned, Atomic!Present, Atomic!Drop, Atomic!NoClient,
         NoClient
<1>17. QED  BY <1>2, <1>16 DEF Implemented, Atomic!Next

\* An eviction ends: the write fits, or is refused.
LEMMA EvictEndImplements ==
  ASSUME OneWorker, Ready, NEW w \in Workers, EvictEnd(w)
  PROVE  Implemented
<1> DEFINE c == Client(w)
<1>1. /\ pc[w] = "Evict" /\ Busy(w) /\ UNCHANGED <<table, obj, alive>>
      /\ Req(w).op \in {"WRITE", "APPEND"}
  BY DEF EvictEnd, Busy, Decided, Ready, RInv, SeenAt, Asked, WriteAt, WriteLabels, EvictLabels
<1>2. TypeOK /\ c \in Clients /\ UNCHANGED FilesBar
  BY <1>1, Served, StoreStays
<1>3. CASE frame[w].need = 0 /\ alive[c]
  <2>1. Send(w, Code("SUCCESS")) /\ Goto(w, "WriteData") /\ UNCHANGED frame
    BY <1>3 DEF EvictEnd
  <2>2. pc'[w] = "WriteData"
    BY <1>2, <2>1 DEF TypeOK, Goto
  <2>3. Busy(w)' /\ OthersUntold(w)
    BY <1>2, <2>1, <2>2, Untold DEF Busy, Decided
  <2>4. QED  BY <1>1, <1>2, <2>1, <2>3, Quietly
<1>4. CASE frame[w].need # 0
  <2>1. Send(w, Code("FAILURE") \o Code("FAILURE")) /\ Return(w)
    BY <1>4 DEF EvictEnd
  <2>2. Code("FAILURE") \in Seq(Message)
    BY CodeTyped DEF Codes
  <2>3. Atomic!Decide(c, "FAILURE", <<>>)
    BY <1>1, <1>2, <2>1, <2>2, AnswerBars
  <2>4. StoredBytes + Len(Req(w).data) = MaxBytes + frame[w].need
    BY <1>1, <1>4 DEF Ready, CInv, CountsAt, Freeing, Unfreed
  <2>5. MaxBytes \in Nat /\ frame[w].need \in Nat
    BY <1>2, Numbers
  <2>6. StoredBytes + Len(Req(w).data) > MaxBytes
    BY <1>4, <2>4, <2>5
  <2>7. Atomic!Reason(c, "FAILURE")
    BY <1>1, <2>6, TooLarge
  <2>8. QED  BY <1>1, <1>2, <2>3, <2>7, Refused
<1>5. CASE frame[w].need = 0 /\ ~alive[c]
  <2>1. Return(w) /\ UNCHANGED out
    BY <1>5 DEF EvictEnd, Send
  <2>2. QED  BY <1>1, <1>2, <1>5, <2>1, Abandoned
<1>6. QED  BY <1>3, <1>4, <1>5

\* The assignments that leave a handler its request.
LEMMA SameReq ==
  ASSUME TypeOK, NEW w \in Workers, NEW v,
         \/ frame' = frame
         \/ frame' = [frame EXCEPT ![w].ptr = v]
         \/ frame' = [frame EXCEPT ![w].tmp = v]
         \/ frame' = [frame EXCEPT ![w].back = v]
         \/ frame' = [frame EXCEPT ![w].todo = v]
         \/ \E n : frame' = [frame EXCEPT ![w].todo = v, ![w].need = n]
  PROVE  frame'[w].req = frame[w].req
  BY DEF TypeOK, Frame

\* It goes on without a decision.
LEMMA GoesOn ==
  ASSUME OneWorker, TypeOK, NEW w \in Workers, Busy(w), UNCHANGED <<table, obj, alive>>,
         frame'[w].req = frame[w].req,
         pc'[w] \notin {"idle", "OpenStore", "RemoveStore", "ReadSend"},
         UNCHANGED out \/ \E ms : Send(w, ms)
  PROVE  Implemented
<1>1. Busy(w)'
  BY DEF Busy, Decided
<1>2. OthersUntold(w)
  BY Untold
<1>3. UNCHANGED FilesBar
  BY StoreStays
<1>4. QED  BY <1>1, <1>2, <1>3, Quietly

\* A path that the lookup does not find is not there for the clients.
LEMMA NotThere ==
  ASSUME TypeOK, FilesSeen, NEW p, Newest(p) = {}
  PROVE  p \notin DOMAIN FilesBar
<1>1. NoEntry(p)
  BY NothingNewest DEF TypeOK
<1>2. \A o \in Seen : obj[o].path # p
  BY <1>1 DEF NoEntry, Seen, Stored, ToSet
<1>3. QED  BY <1>2 DEF FilesSeen

\* Then the request is refused.
LEMMA NotFound ==
  ASSUME OneWorker, Ready, NEW w \in Workers, Busy(w), UNCHANGED <<table, obj, alive>>,
         Newest(Req(w).path) = {}, ~(Req(w).op = "OPEN" /\ Req(w).create), Reply(w, "FNF")
  PROVE  Implemented
<1>1. TypeOK /\ FilesSeen /\ Client(w) \in Clients
  BY Served DEF Busy
<1>2. Req(w).path \notin DOMAIN FilesBar
  BY <1>1, NotThere
<1>3. Atomic!Decide(Client(w), "FNF", <<>>)
  BY <1>1, ReplyBars
<1>4. Atomic!Reason(Client(w), "FNF")
  BY <1>2, Reasons
<1>5. QED  BY <1>3, <1>4, Refused, StoreStays

\* The lookups: a file that is there is opened, closed, read, written or
\* removed by a later step, and one that is not is refused by this one.
LEMMA LookupImplements ==
  ASSUME OneWorker, Ready, NEW w \in Workers,
         OpenLookup(w) \/ CloseLookup(w) \/ ReadLookup(w) \/ WriteLock(w) \/ RemoveLock(w)
  PROVE  Implemented
<1>1. /\ pc[w] \in {"Open", "Close", "Read", "Write", "Remove"}
      /\ UNCHANGED <<table, obj, alive>>
  BY DEF OpenLookup, CloseLookup, ReadLookup, Find, WriteLock, RemoveLock, store
<1>2. TypeOK /\ Busy(w)
  BY <1>1, Served DEF Busy, Decided
<1>3. ASSUME NEW i, frame' = [frame EXCEPT ![w].ptr = table[i]],
             NEW l \in {"OpenFound", "CloseFound", "ReadFound", "WriteOwner", "RemoveOwner"},
             Goto(w, l), UNCHANGED out
      PROVE  Implemented
  <2>1. pc'[w] = l
    BY <1>2, <1>3 DEF Goto, TypeOK
  <2>2. frame'[w].req = frame[w].req
    BY <1>2, <1>3, SameReq
  <2>3. QED  BY <1>1, <1>2, <1>3, <2>1, <2>2, GoesOn
<1>4. ASSUME Goto(w, "OpenCreate"), UNCHANGED <<frame, out>> PROVE Implemented
  <2>1. pc'[w] = "OpenCreate"
    BY <1>2, <1>4 DEF Goto, TypeOK
  <2>2. QED  BY <1>1, <1>2, <1>4, <2>1, GoesOn
<1>5. ASSUME Newest(Req(w).path) = {}, Reply(w, "FNF"), pc[w] = "Open" => ~Req(w).create
      PROVE  Implemented
  <2>1. ~(Req(w).op = "OPEN" /\ Req(w).create)
    BY <1>1, <1>5 DEF Ready, RInv, SeenAt, Asked, WriteAt, RemovingAt
  <2>2. QED  BY <1>1, <1>2, <1>5, <2>1, NotFound
<1>6. QED
  BY <1>1, <1>3, <1>4, <1>5
     DEF OpenLookup, CloseLookup, ReadLookup, Find, WriteLock, RemoveLock

\* Who does not have the file open may not write or remove it.
LEMMA OwnerImplements ==
  ASSUME OneWorker, Ready, NEW w \in Workers, WriteOwner(w) \/ RemoveOwner(w)
  PROVE  Implemented
<1> DEFINE c == Client(w)
           f == File(w)
           p == Req(w).path
<1>1. /\ pc[w] \in {"WriteOwner", "RemoveOwner"} /\ Busy(w)
      /\ UNCHANGED <<table, obj, alive>> /\ Req(w).op # "OPEN"
  BY DEF WriteOwner, RemoveOwner, Busy, Decided, Ready, RInv, SeenAt, Asked, WriteAt,
         RemovingAt
<1>2. TypeOK /\ FilesSeen /\ c \in Clients /\ UNCHANGED FilesBar
  BY <1>1, Served, StoreStays
<1>3. CASE obj[f].client = c
  <2>1. UNCHANGED <<frame, out>> /\ (Goto(w, "WriteLen") \/ Goto(w, "RemoveUnlink"))
    BY <1>3 DEF WriteOwner, RemoveOwner, MayRemove
  <2>2. pc'[w] \in {"WriteLen", "RemoveUnlink"}
    BY <1>2, <2>1 DEF Goto, TypeOK
  <2>3. QED  BY <1>1, <1>2, <2>1, <2>2, GoesOn
<1>4. CASE obj[f].client # c
  <2>1. Reply(w, "LOCKED")
    BY <1>4 DEF WriteOwner, RemoveOwner, MayRemove
  <2>2. p \in DOMAIN FilesBar /\ FilesBar[p].owner = obj[f].client
    BY <1>1, <1>2, TheirFile DEF NamedLabels, Ready
  <2>3. Atomic!Decide(c, "LOCKED", <<>>)
    BY <1>1, <1>2, <2>1, ReplyBars
  <2>4. Atomic!Reason(c, "LOCKED")
    BY <1>1, <1>4, <2>2, Reasons
  <2>5. QED  BY <1>1, <1>2, <2>3, <2>4, Refused
<1>5. QED  BY <1>3, <1>4

\* The steps of a handler that only prepare, or that end it because its client
\* has gone.
LEMMA PrepareImplements ==
  ASSUME OneWorker, Ready, NEW w \in Workers,
         \/ ReadNLock(w) \/ ReadNFile(w) \/ WriteLen(w) \/ WriteLoad(w) \/ WriteBroken(w)
         \/ EvictAsk(w) \/ EvictSkip(w) \/ EvictAbort(w) \/ EvictStore(w)
  PROVE  Implemented
<1>1. /\ pc[w] \in {"ReadN", "ReadNFile", "WriteLen", "WriteData", "WriteLoad",
                    "EvictAsk", "Evict", "EvictStore"}
      /\ UNCHANGED <<table, obj, alive>>
  BY DEF ReadNLock, ReadNFile, WriteLen, WriteLoad, WriteBroken, EvictAsk, EvictSkip,
         EvictAbort, EvictStore, store
<1>2. TypeOK /\ Busy(w) /\ UNCHANGED FilesBar
  BY <1>1, Served, StoreStays DEF Busy, Decided
<1>3. ASSUME frame'[w].req = frame[w].req, UNCHANGED out \/ \E ms : Send(w, ms),
             \/ pc' = pc
             \/ \E l \in {"ReadNFile", "EvictStart", "WriteData", "WriteStore", "Evict"} :
                  Goto(w, l)
      PROVE  Implemented
  <2>1. pc'[w] \notin {"idle", "OpenStore", "RemoveStore", "ReadSend"}
    BY <1>1, <1>2, <1>3 DEF Goto, TypeOK
  <2>2. QED  BY <1>1, <1>2, <1>3, <2>1, GoesOn
<1>4. ASSUME Return(w), ~alive[Client(w)], UNCHANGED out PROVE Implemented
  BY <1>1, <1>2, <1>4, Abandoned
<1>5. CASE ReadNLock(w)
  <2>1. frame'[w].req = frame[w].req
    BY <1>2, <1>5, SameReq DEF ReadNLock
  <2>2. QED  BY <1>3, <1>5, <2>1 DEF ReadNLock
<1>6. CASE ReadNFile(w)
  <2>1. CASE Return(w) /\ ~alive[Client(w)] /\ UNCHANGED out
    BY <1>4, <2>1
  <2>2. CASE ~(Return(w) /\ ~alive[Client(w)] /\ UNCHANGED out)
    <3>1. PICK v : \/ frame' = [frame EXCEPT ![w].todo = v]
                   \/ \E n : frame' = [frame EXCEPT ![w].todo = v, ![w].need = n]
      BY <1>2, <1>6, <2>2 DEF ReadNFile, TypeOK, Frame
    <3>2. pc' = pc /\ (UNCHANGED out \/ \E ms : Send(w, ms))
      BY <1>6, <2>2 DEF ReadNFile
    <3>3. frame'[w].req = frame[w].req
      BY <1>2, <3>1, SameReq
    <3>4. QED  BY <1>3, <3>2, <3>3
  <2>3. QED  BY <2>1, <2>2
<1>7. CASE WriteLen(w)
  BY <1>3, <1>4, <1>7 DEF WriteLen
<1>8. CASE WriteLoad(w)
  <2>1. frame'[w].req = frame[w].req
    BY <1>2, <1>8, SameReq DEF WriteLoad
  <2>2. QED  BY <1>3, <1>8, <2>1 DEF WriteLoad
<1>9. CASE WriteBroken(w) \/ EvictAbort(w)
  BY <1>4, <1>9 DEF WriteBroken, EvictAbort
<1>10. CASE EvictAsk(w)
  <2>1. frame'[w].req = frame[w].req
    BY <1>2, <1>10, SameReq DEF EvictAsk
  <2>2. QED  BY <1>3, <1>10, <2>1 DEF EvictAsk
<1>11. CASE EvictSkip(w)
  <2>1. frame'[w].req = frame[w].req
    BY <1>2, <1>11 DEF EvictSkip, TypeOK, Frame
  <2>2. QED  BY <1>3, <1>11, <2>1 DEF EvictSkip
<1>12. CASE EvictStore(w)
  BY <1>3, <1>12 DEF EvictStore
<1>13. QED  BY <1>5, <1>6, <1>7, <1>8, <1>9, <1>10, <1>11, <1>12

\* The files have been read.
LEMMA ReadNEndImplements ==
  ASSUME OneWorker, Ready, NEW w \in Workers, ReadNEnd(w)
  PROVE  Implemented
<1>1. /\ pc[w] = "ReadNFile" /\ Busy(w) /\ UNCHANGED <<table, obj, alive>>
      /\ Req(w).op = "READN" /\ Reply(w, "END")
  BY DEF ReadNEnd, Busy, Decided, Ready, RInv, SeenAt, Asked
<1>2. TypeOK /\ Client(w) \in Clients /\ UNCHANGED FilesBar
  BY <1>1, Served, StoreStays
<1>3. Atomic!Decide(Client(w), "END", <<>>)
  BY <1>1, <1>2, ReplyBars
<1>4. PendingBar[Client(w)] = Req(w) /\ PendingBar[Client(w)] # NoObj
  BY <1>1, Pended
<1>5. Atomic!ReadN(Client(w))
  BY <1>1, <1>2, <1>3, <1>4 DEF Atomic!ReadN, Atomic!Asks
<1>6. QED  BY <1>2, <1>5 DEF Implemented, Atomic!Next

\* An unknown request is refused; lockFile and unlockFile are ignored.
LEMMA NothingImplements ==
  ASSUME OneWorker, Ready, NEW w \in Workers, ServeNothing(w)
  PROVE  Implemented
<1> DEFINE c == Client(w)
<1>1. /\ pc[w] = "Nothing" /\ Busy(w) /\ UNCHANGED <<table, obj, alive>> /\ Return(w)
      /\ Req(w).op \in {"LOCK", "UNLOCK", "OTHER"} /\ out[c] = <<>>
  BY DEF ServeNothing, Busy, Decided, Ready, RInv, SeenAt, Asked, Answered, store
<1>2. TypeOK /\ c \in Clients /\ UNCHANGED FilesBar
  BY <1>1, Served, StoreStays
<1>3. PendingBar[c] = Req(w) /\ PendingBar[c] # NoObj
  BY <1>1, Pended
<1>4. CASE Req(w).op = "OTHER"
  <2>1. Reply(w, "FAILURE")
    BY <1>4 DEF ServeNothing, Reply
  <2>2. Atomic!Decide(c, "FAILURE", <<>>)
    BY <1>1, <1>2, <2>1, ReplyBars
  <2>3. Atomic!Reason(c, "FAILURE")
    BY <1>3, <1>4 DEF Atomic!Reason
  <2>4. QED  BY <1>1, <1>2, <2>2, <2>3, Refused
<1>5. CASE Req(w).op # "OTHER"
  <2>1. UNCHANGED out /\ pc'[w] = "idle"
    BY <1>1, <1>2, <1>5 DEF ServeNothing, Return, TypeOK
  <2>2. ~Busy(w)' /\ \A d : ~Serves(w, d)'
    BY <2>1 DEF Busy, Serves
  <2>3. PendingBar' = [PendingBar EXCEPT ![c] = NoObj]
    BY <1>1, <2>2, NoMorePending
  <2>4. ASSUME NEW d \in Clients PROVE LastAt(w)'[d] = LastAt(w)[d]
    <3>1. CASE Serves(w, d)
      <4>1. out'[d] = <<>>
        BY <1>1, <2>1, <3>1 DEF Serves
      <4>2. QED  BY <1>1, <2>2, <3>1, <4>1 DEF LastAt
    <3>2. CASE ~Serves(w, d)
      BY <1>1, <2>1, <2>2, <3>2 DEF LastAt
    <3>3. QED  BY <3>1, <3>2
  <2>5. LastAt(w)' = LastAt(w)
    BY <2>4 DEF LastAt
  <2>6. UNCHANGED LastBar
    BY <2>5, BarsNext
  <2>7. Atomic!Ignore(c)
    BY <1>1, <1>2, <1>3, <1>5, <2>3, <2>6 DEF Atomic!Ignore, Atomic!Asks
  <2>8. QED  BY <1>2, <2>7 DEF Implemented, Atomic!Next
<1>6. QED  BY <1>4, <1>5

\* The victim, which was marked, leaves the table: nobody sees it go.
LEMMA EvictUnlinkImplements ==
  ASSUME OneWorker, Ready, Ready', NEW w \in Workers, EvictUnlink(w)
  PROVE  Implemented
<1>1. PICK i \in DOMAIN table :
        obj[table[i]].path = obj[frame[w].vic].path /\ Unlink(w, i)
  BY DEF EvictUnlink, Newest
<1>2. /\ pc[w] = "EvictUnlink" /\ Busy(w) /\ Goto(w, "EvictStore")
      /\ UNCHANGED <<obj, alive, out>>
  BY DEF EvictUnlink, Busy, Decided
<1>3. TypeOK /\ FilesSeen /\ FilesSeen'
  BY <1>2, Served, FilesNext DEF Ready
<1>4. table[i] = frame[w].vic /\ obj[frame[w].vic].client = Evicted
  BY <1>1, <1>2 DEF Ready, OInv, AtWorker, VictimMarked, UniquePaths, Stored, ToSet
<1>5. Stored' = Stored \ {frame[w].vic}
  BY <1>1, <1>3, <1>4, UnlinkedStored DEF TypeOK, Ready, OInv, Unlink, Stored
<1>6. Seen' = Seen /\ \A o \in Seen : obj'[o] = obj[o]
  BY <1>2, <1>4, <1>5 DEF Seen
<1>7. UNCHANGED FilesBar
  BY <1>3, <1>6, SeenStays
<1>8. frame'[w].req = frame[w].req /\ pc'[w] = "EvictStore"
  BY <1>1, <1>2, <1>3, SameReq DEF Unlink, Goto, TypeOK
<1>9. Busy(w)' /\ OthersUntold(w)
  BY <1>2, <1>8 DEF Busy, Decided, OthersUntold
<1>10. QED  BY <1>2, <1>7, <1>8, <1>9, Quietly

\* Of the bytes of a write none has arrived.
LEMMA GarbleBars ==
  ASSUME OneWorker, Ready, NEW w \in Workers, Busy(w), Busy(w)', ~alive[Client(w)],
         Req(w).op \in {"WRITE", "APPEND"}, UNCHANGED <<alive, out, FilesBar>>,
         frame' = [frame EXCEPT ![w].req.data = [k \in DOMAIN Req(w).data |-> 0]]
  PROVE  Atomic!Garble(Client(w))
<1> DEFINE c == Client(w)
           r == [Req(w) EXCEPT !.data = [k \in DOMAIN @ |-> 0]]
<1>1. TypeOK /\ c \in Clients /\ Req(w) \in Request
  BY Served DEF Busy
<1>2. frame'[w].req = r
  BY <1>1 DEF TypeOK, Frame, Req
<1>3. r.client = c
  BY <1>1 DEF Request, Client, Req
<1> HIDE DEF r
<1>4. ASSUME NEW d \in Clients PROVE Serves(w, d)' = Serves(w, d)
  BY <1>2, <1>3 DEF Serves, Busy, Client
<1>5. ASSUME NEW d \in Clients
      PROVE  PendingAt(w)'[d] = [PendingAt(w) EXCEPT ![c] = r][d]
  <2>1. CASE d = c
    <3>1. Serves(w, d)' /\ Serves(w, d)
      BY <1>4, <2>1 DEF Serves, Busy
    <3>2. PendingAt(w)'[d] = r
      BY <1>2, <3>1 DEF PendingAt, Req
    <3>3. [PendingAt(w) EXCEPT ![c] = r][d] = r
      BY <2>1 DEF PendingAt
    <3>4. QED  BY <3>2, <3>3
  <2>2. CASE d # c
    <3>1. ~Serves(w, d)' /\ ~Serves(w, d)
      BY <1>4, <2>2 DEF Serves
    <3>2. QED  BY <2>2, <3>1 DEF PendingAt
  <2>3. QED  BY <2>1, <2>2
<1>6. PendingAt(w)' = [PendingAt(w) EXCEPT ![c] = r]
  BY <1>5 DEF PendingAt
<1>7. PendingBar' = [PendingBar EXCEPT ![c] = r]
  BY <1>6, BarsNext
<1>8. PendingBar[c] = Req(w) /\ PendingBar[c] # NoObj
  BY Pended
<1>9. PendingBar' = [PendingBar EXCEPT ![c].data = [k \in DOMAIN @ |-> 0]]
  BY <1>7, <1>8 DEF r
<1>10. ASSUME NEW d \in Clients PROVE LastAt(w)'[d] = LastAt(w)[d]
  <2>1. CASE d = c
    BY <2>1 DEF LastAt
  <2>2. CASE d # c
    <3>1. ~Serves(w, d)' /\ ~Serves(w, d)
      BY <1>4, <2>2 DEF Serves
    <3>2. QED  BY <3>1 DEF LastAt
  <2>3. QED  BY <2>1, <2>2
<1>11. LastAt(w)' = LastAt(w)
  BY <1>10 DEF LastAt
<1>12. UNCHANGED LastBar
  BY <1>11, BarsNext
<1>13. QED  BY <1>8, <1>9, <1>12 DEF Atomic!Garble, Atomic!Asks

\* The bytes of a write arrive, or what is left of them; an empty write is
\* refused, and no other is for want of room.
LEMMA WriteDataImplements ==
  ASSUME OneWorker, Ready, NEW w \in Workers, WriteData(w)
  PROVE  Implemented
<1> DEFINE c == Client(w)
<1>1. /\ pc[w] = "WriteData" /\ Busy(w) /\ UNCHANGED <<table, obj, alive>>
      /\ Req(w).op \in {"WRITE", "APPEND"}
  BY DEF WriteData, Busy, Decided, Ready, RInv, SeenAt, Asked, WriteAt, WriteLabels
<1>2. TypeOK /\ c \in Clients /\ UNCHANGED FilesBar /\ Req(w) \in Request
  BY <1>1, Served, StoreStays
<1>3. PICK d \in Incoming(w) :
        IF Fits(w, d)
        THEN /\ frame' = [frame EXCEPT ![w].req.data = d] /\ Goto(w, "WriteLoad")
             /\ UNCHANGED out
        ELSE Reply(w, "FAILURE")
  BY DEF WriteData
<1>4. CASE Fits(w, d)
  <2>1. pc'[w] = "WriteLoad" /\ Busy(w)' /\ UNCHANGED out
    BY <1>2, <1>3, <1>4 DEF Goto, TypeOK, Busy, Decided
  <2>2. CASE d = Req(w).data
    <3>1. frame'[w].req = frame[w].req
      <4>1. frame'[w].req = [Req(w) EXCEPT !.data = d]
        BY <1>2, <1>3, <1>4 DEF TypeOK, Frame, Req
      <4>2. [Req(w) EXCEPT !.data = d] = Req(w)
        BY <1>2, <2>2 DEF Request
      <4>3. QED  BY <4>1, <4>2 DEF Req
    <3>2. QED  BY <1>1, <1>2, <2>1, <3>1, GoesOn
  <2>3. CASE d # Req(w).data
    <3>1. ~alive[c] /\ d = [k \in DOMAIN Req(w).data |-> 0]
      BY <2>3 DEF Incoming
    <3>2. frame' = [frame EXCEPT ![w].req.data = [k \in DOMAIN Req(w).data |-> 0]]
      BY <1>3, <1>4, <3>1
    <3>3. Atomic!Garble(c)
      BY <1>1, <1>2, <2>1, <3>1, <3>2, GarbleBars
    <3>4. QED  BY <1>2, <3>3 DEF Implemented, Atomic!Next
  <2>4. QED  BY <2>2, <2>3
<1>5. CASE ~Fits(w, d)
  <2>1. Reply(w, "FAILURE")
    BY <1>3, <1>5
  <2>2. d = <<>>
    BY <1>1, <1>5, RoomPromised DEF PromiseKept, Ready
  <2>3. Len(d) = Len(Req(w).data) /\ Req(w).data \in Seq(Bytes)
    BY <1>2, IncomingLength, Served, <1>1
  <2>4. Req(w).data = <<>>
    BY <2>2, <2>3
  <2>5. Atomic!Decide(c, "FAILURE", <<>>)
    BY <1>1, <1>2, <2>1, ReplyBars
  <2>6. PendingBar[c] = Req(w)
    BY <1>1, Pended
  <2>7. Atomic!Reason(c, "FAILURE")
    BY <1>1, <2>4, <2>6 DEF Atomic!Reason
  <2>8. QED  BY <1>1, <1>2, <2>5, <2>7, Refused
<1>6. QED  BY <1>4, <1>5

\* The bytes are stored.
LEMMA WriteStoreImplements ==
  ASSUME OneWorker, Ready, Ready', NEW w \in Workers, WriteStore(w)
  PROVE  Implemented
<1> DEFINE c == Client(w)
           f == File(w)
           p == Req(w).path
           n == Written(w, Req(w).data)
<1>1. /\ pc[w] = "WriteStore" /\ Busy(w) /\ UNCHANGED <<table, alive>>
      /\ Req(w).op \in {"WRITE", "APPEND"} /\ Reply(w, "SUCCESS")
      /\ obj' = [obj EXCEPT ![f].data = n]
  BY DEF WriteStore, Busy, Decided, Ready, RInv, SeenAt, Asked, WriteAt, WriteLabels
<1>2. TypeOK /\ TypeOK' /\ FilesSeen /\ FilesSeen' /\ c \in Clients
  BY <1>1, Served, FilesNext DEF Ready, IInv
<1>3. /\ f \in Stored /\ f \in Seen /\ obj[f].path = p /\ p \in DOMAIN FilesBar
      /\ FilesBar[p].data = obj[f].data /\ FilesBar[p].owner = obj[f].client
      /\ obj[f].client = c
  BY <1>1, <1>2, TheirFile DEF NamedLabels, OwnedLabels, WriteLabels, Ready, OInv, AtWorker, Owned
<1>4. PendingBar[c] = Req(w) /\ PendingBar[c] # NoObj
  BY <1>1, Pended
<1>5. Atomic!Decide(c, "SUCCESS", <<>>)
  BY <1>1, <1>2, ReplyBars
<1> HIDE DEF n
<1>6. /\ Stored' = Stored /\ Stored \subseteq Objs /\ f \in Objs
      /\ obj'[f].path = p /\ obj'[f].data = n /\ obj'[f].client = obj[f].client
      /\ \A o \in Objs : o # f => obj'[o] = obj[o]
  BY <1>1, <1>2, <1>3, TableObjs DEF Stored, TypeOK, FileData
<1>7. Seen' = Seen /\ Seen = Stored
  <2>1. Seen = Stored
    BY <1>1, AllSeen DEF Ready
  <2>2. QED  BY <1>3, <1>6, <2>1 DEF Seen
<1> DEFINE g == [data |-> n, owner |-> obj[f].client]
<1>8. g = [data |-> obj'[f].data, owner |-> obj'[f].client]
  BY <1>6
<1>9. FilesBar' = [q \in DOMAIN FilesBar |-> IF q = p THEN g ELSE FilesBar[q]]
  <2>1. \A o \in Seen : o # f => obj'[o] = obj[o]
    BY <1>6 DEF Seen
  <2> HIDE DEF g
  <2>2. QED  BY <1>2, <1>3, <1>6, <1>7, <1>8, <2>1, FileChanged
<1>10. FilesBar' = [FilesBar EXCEPT ![p].data = n]
  <2>1. FilesBar[p] = [data |-> obj[f].data, owner |-> obj[f].client]
    BY <1>2, <1>3 DEF FilesSeen
  <2>2. [FilesBar[p] EXCEPT !.data = n] = g
    BY <2>1
  <2> HIDE DEF g
  <2>3. QED  BY <1>2, <1>9, <2>2 DEF FilesSeen
<1>11. n = IF PendingBar[c].op = "WRITE" THEN PendingBar[c].data
           ELSE FilesBar[p].data \o PendingBar[c].data
  BY <1>3, <1>4 DEF n, Written
<1>12. Atomic!BytesOf(FilesBar') <= MaxBytes
  <2>1. Seen' = Stored'
    BY <1>6, <1>7
  <2>2. Atomic!BytesOf(FilesBar') = StoredBytes'
    BY <1>2, <2>1, BytesSeenNext
  <2>3. StoredBytes' <= MaxBytes
    BY DEF Ready, CInv
  <2>4. QED  BY <2>2, <2>3
<1>13. FilesBar' = [FilesBar EXCEPT ![PendingBar[c].path].data =
                      IF PendingBar[c].op = "WRITE" THEN PendingBar[c].data
                      ELSE @ \o PendingBar[c].data]
  BY <1>3, <1>4, <1>10, <1>11
<1>14. Atomic!Write(c)
  BY <1>1, <1>3, <1>4, <1>5, <1>12, <1>13
     DEF Atomic!Write, Atomic!Asks, Atomic!Owned, Atomic!Present
<1>15. QED  BY <1>2, <1>14 DEF Implemented, Atomic!Next

\* A removal is decided when the file the freed key spells leaves the table, or
\* when that key spells none.
LEMMA RemoveImplements ==
  ASSUME OneWorker, Ready, Ready', NEW w \in Workers, RemoveUnlink(w) \/ RemoveMissed(w)
  PROVE  Implemented
<1> DEFINE c == Client(w)
           f == File(w)
           p == Req(w).path
<1>1. /\ pc[w] = "RemoveUnlink" /\ Busy(w) /\ UNCHANGED <<obj, alive>>
      /\ Req(w).op = "REMOVE"
  BY DEF RemoveUnlink, RemoveMissed, Busy, Decided, Ready, RInv, SeenAt, Asked, RemovingAt
<1>2. TypeOK /\ FilesSeen /\ FilesSeen' /\ c \in Clients
  BY <1>1, Served, FilesNext DEF Ready, IInv
<1>3. p \in DOMAIN FilesBar /\ FilesBar[p].owner = c
  BY <1>1, <1>2, TheirFile DEF NamedLabels, OwnedLabels, Ready, OInv, AtWorker, Owned
<1>4. PendingBar[c] = Req(w) /\ PendingBar[c] # NoObj
  BY <1>1, Pended
<1>5. ASSUME \/ UNCHANGED FilesBar
             \/ \E q \in DOMAIN FilesBar : FilesBar' = Atomic!Drop(q),
             Atomic!Decide(c, "SUCCESS", <<>>)
      PROVE  Implemented
  <2>1. Atomic!Remove(c)
    BY <1>1, <1>3, <1>4, <1>5 DEF Atomic!Remove, Atomic!Asks, Atomic!Owned, Atomic!Present
  <2>2. QED  BY <1>2, <2>1 DEF Implemented, Atomic!Next
<1>6. CASE RemoveMissed(w)
  <2>1. UNCHANGED <<table, obj, alive>> /\ Reply(w, "SUCCESS")
    BY <1>6 DEF RemoveMissed
  <2>2. UNCHANGED FilesBar
    BY <2>1, StoreStays
  <2>3. Atomic!Decide(c, "SUCCESS", <<>>)
    BY <1>1, <1>2, <2>1, ReplyBars
  <2>4. QED  BY <1>5, <2>2, <2>3
<1>7. CASE RemoveUnlink(w)
  <2>1. PICK i \in DOMAIN table :
          /\ table' = Unlinked(i)
          /\ frame' = [frame EXCEPT ![w].tmp = Lowered(Size(table[i]))]
    <3>1. PICK key \in FreedKey : \E i \in Victims(w, key) : Unlink(w, i)
      BY <1>7 DEF RemoveUnlink
    <3>2. Victims(w, key) \subseteq DOMAIN table
      BY DEF Victims, Newest
    <3>3. QED  BY <3>1, <3>2 DEF Unlink
  <2> DEFINE g == table[i]
             q == obj[g].path
  <2>3. Goto(w, "RemoveStore") /\ UNCHANGED out
    BY <1>7 DEF RemoveUnlink
  <2>4. g \in Stored
    BY <2>1 DEF Stored, ToSet
  <2>5. Stored' = Stored \ {g}
    BY <1>2, <2>1, UnlinkedStored DEF TypeOK, Ready, OInv, Stored
  <2>6. g \in Seen /\ Seen' = Seen \ {g}
    BY <1>1, <2>4, <2>5, AllSeen DEF Seen, Ready
  <2>7. \E r \in DOMAIN FilesBar : FilesBar' = Atomic!Drop(r)
    <3>1. q = obj[g].path /\ \A o \in Seen : o # g => obj'[o] = obj[o]
      BY <1>1
    <3> HIDE DEF g, q
    <3>2. q \in DOMAIN FilesBar /\ FilesBar' = [r \in DOMAIN FilesBar \ {q} |-> FilesBar[r]]
      BY <1>2, <2>6, <3>1, FileDropped
    <3>3. FilesBar' = Atomic!Drop(q)
      BY <3>2 DEF Atomic!Drop
    <3>4. QED  BY <3>2, <3>3, Zenon
  <2>8. frame'[w].req = frame[w].req /\ pc'[w] = "RemoveStore"
    <3>1. PICK v : frame' = [frame EXCEPT ![w].tmp = v]
      BY <2>1
    <3>2. frame'[w].req = frame[w].req
      BY <1>2, <3>1, SameReq
    <3>3. QED  BY <1>2, <2>3, <3>2 DEF Goto, TypeOK
  <2>9. OthersUntold(w)
    BY <2>3 DEF OthersUntold
  <2>10. Atomic!Decide(c, "SUCCESS", <<>>)
    BY <1>1, <1>2, <2>8, <2>9, DecidedBars
  <2>11. QED  BY <1>5, <2>7, <2>10, Zenon
<1>8. QED  BY <1>6, <1>7 DEF RemoveUnlink, RemoveMissed

-----------------------------------------------------------------------------
(* The specification.                                                      *)

\* One step for each action of a handler.
LEMMA HandleImplements ==
  ASSUME OneWorker, Ready, Ready', NEW w \in Workers, Handle(w)
  PROVE  Implemented
<1>1. ASSUME \/ OpenLookup(w) \/ CloseLookup(w) \/ ReadLookup(w) \/ WriteLock(w)
             \/ RemoveLock(w)
      PROVE  Implemented
  BY <1>1, LookupImplements
<1>2. ASSUME WriteOwner(w) \/ RemoveOwner(w) PROVE Implemented
  BY <1>2, OwnerImplements
<1>3. ASSUME \/ ReadNLock(w) \/ ReadNFile(w) \/ WriteLen(w) \/ WriteLoad(w)
             \/ WriteBroken(w) \/ EvictAsk(w) \/ EvictSkip(w) \/ EvictAbort(w)
             \/ EvictStore(w)
      PROVE  Implemented
  BY <1>3, PrepareImplements
<1>4. ASSUME OpenStore(w) \/ RemoveStore(w) PROVE Implemented
  BY <1>4, StoreImplements
<1>5. ASSUME RemoveUnlink(w) \/ RemoveMissed(w) PROVE Implemented
  BY <1>5, RemoveImplements
<1>6. /\ OpenFound(w) => Implemented
      /\ OpenCreate(w) => Implemented
      /\ OpenInsert(w) => Implemented
      /\ CloseFound(w) => Implemented
      /\ ReadFound(w) => Implemented
      /\ ReadSend(w) => Implemented
      /\ ReadNEnd(w) => Implemented
      /\ ServeNothing(w) => Implemented
  BY OpenFoundImplements, OpenCreateImplements, OpenInsertImplements, CloseFoundImplements,
     ReadFoundImplements, ReadSendImplements, ReadNEndImplements, NothingImplements
<1>7. /\ EvictStart(w) => Implemented
      /\ EvictTake(w) => Implemented
      /\ EvictUnlink(w) => Implemented
      /\ EvictEnd(w) => Implemented
      /\ WriteData(w) => Implemented
      /\ WriteStore(w) => Implemented
  BY EvictStartImplements, EvictTakeImplements, EvictUnlinkImplements, EvictEndImplements,
     WriteDataImplements, WriteStoreImplements
<1>8. QED  BY <1>1, <1>2, <1>3, <1>4, <1>5, <1>6, <1>7 DEF Handle

\* A request is received: from now on it is pending.
LEMMA ReceiveImplements ==
  ASSUME OneWorker, Ready, NEW w \in Workers, Receive(w)
  PROVE  Implemented
<1>1. PICK r \in Requests :
        /\ alive[r.client] /\ Goto(w, Entry(r.op))
        /\ frame' = [frame EXCEPT ![w].req = r]
        /\ out' = [out EXCEPT ![r.client] = <<>>]
  BY DEF Receive
<1>2. pc[w] = "idle" /\ UNCHANGED <<table, obj, alive>> /\ TypeOK
  BY DEF Receive, store, Ready, IInv
<1> DEFINE c == r.client
<1>3. r.op \in Ops /\ c \in Clients /\ r # NoObj
  BY FileServerAssumption, RefinementAssumption DEF Request
<1>4. frame'[w].req = r /\ pc'[w] = Entry(r.op) /\ c \in Clients
  BY <1>1, <1>2, <1>3 DEF TypeOK, Frame, Goto
<1>5. pc'[w] # "idle" /\ Busy(w)' /\ Client(w)' = c
  BY <1>3, <1>4 DEF Busy, Decided, Entry, Ops, Client
<1>6. \A d : ~Serves(w, d)
  BY <1>2 DEF Serves
<1>7. ASSUME NEW d PROVE Serves(w, d)' <=> d = c
  BY <1>5 DEF Serves
<1> HIDE DEF c
<1>8. PendingBar = [d \in Clients |-> NoObj]
  BY <1>6, BarsNext DEF PendingAt
<1>9. PendingBar' = [d \in Clients |-> IF d = c THEN r ELSE NoObj]
  <2>1. ASSUME NEW d \in Clients
        PROVE  PendingAt(w)'[d] = IF d = c THEN r ELSE NoObj
    BY <1>4, <1>5, <1>7 DEF PendingAt, Req
  <2>2. PendingAt(w)' = [d \in Clients |-> IF d = c THEN r ELSE NoObj]
    BY <2>1 DEF PendingAt
  <2>3. QED  BY <2>2, BarsNext
<1>10. LastBar' = [LastBar EXCEPT ![c] = Verdict(<<>>)]
  <2>1. ASSUME NEW d \in Clients
        PROVE  LastAt(w)'[d] = [LastAt(w) EXCEPT ![c] = Verdict(<<>>)][d]
    <3>1. CASE d = c
      <4>1. alive'[d] /\ Serves(w, d)'
        BY <1>1, <1>2, <1>7, <3>1 DEF c
      <4>2. LastAt(w)'[d] = Verdict(<<>>)
        BY <1>5, <4>1 DEF LastAt
      <4>3. QED  BY <1>4, <3>1, <4>2 DEF LastAt, c
    <3>2. CASE d # c
      <4>1. out'[d] = out[d] /\ ~Serves(w, d)' /\ ~Serves(w, d)
        BY <1>1, <1>2, <1>6, <1>7, <3>2 DEF TypeOK, c
      <4>2. QED  BY <1>2, <3>2, <4>1 DEF LastAt
    <3>3. QED  BY <3>1, <3>2
  <2>2. LastAt(w)' = [LastAt(w) EXCEPT ![c] = Verdict(<<>>)]
    BY <2>1 DEF LastAt
  <2>3. QED  BY <2>2, BarsNext
<1>11. UNCHANGED FilesBar
  BY <1>2, StoreStays
<1>12. alive[c] /\ c \in Clients /\ r.client = c
  BY <1>1, <1>3 DEF c
<1>13. PendingBar' = [PendingBar EXCEPT ![c] = r] /\ PendingBar'[c] = r
  BY <1>8, <1>9, <1>12
<1>14. Atomic!Call(c)
  <2>1. LastBar' = [LastBar EXCEPT ![c] = Atomic!NoAnswer]
    BY <1>10 DEF Verdict, Atomic!NoAnswer
  <2>2. PendingBar[c] = NoObj
    BY <1>8, <1>12
  <2>3. QED  BY <1>2, <1>11, <1>12, <1>13, <2>1, <2>2 DEF Atomic!Call
<1>15. QED  BY <1>12, <1>14 DEF Implemented, Atomic!Next

\* Clients come and go.
LEMMA ClientImplements ==
  ASSUME TypeOK, NEW c \in Clients, Die(c) \/ Reconnect(c)
  PROVE  Implemented
<1>1. UNCHANGED <<table, obj, pc, frame>>
  BY DEF Die, Reconnect, store
<1>2. UNCHANGED FilesBar
  BY <1>1, StoreStays
<1>3. ASSUME NEW d PROVE Server(d)' = Server(d)
  BY <1>1 DEF Server, Client
<1>4. ASSUME NEW w PROVE Decided(w)' = Decided(w) /\ Req(w)' = Req(w) /\ File(w)' = File(w)
  BY <1>1 DEF Decided, Req, File
<1>5. UNCHANGED PendingBar
  BY <1>3, <1>4 DEF PendingBar
<1> DEFINE told(d) == LET w == CHOOSE v \in Server(d) : TRUE
                      IN IF ~Decided(w) THEN [code |-> "NONE", data |-> <<>>]
                         ELSE [code |-> "SUCCESS",
                               data |-> IF pc[w] = "ReadSend" THEN obj[File(w)].data
                                        ELSE <<>>]
           lst(d) == IF ~alive[d] THEN Verdict(<<>>)
                     ELSE IF Server(d) = {} THEN Verdict(out[d]) ELSE told(d)
<1>6. LastBar = [d \in Clients |-> lst(d)] /\ LastBar' = [d \in Clients |-> lst(d)']
  BY DEF LastBar
<1>7. ASSUME NEW d PROVE told(d)' = told(d)
  BY <1>1, <1>3, <1>4
<1>8. ASSUME NEW d, alive'[d] = alive[d], out'[d] = out[d] PROVE lst(d)' = lst(d)
  <2> HIDE DEF told
  <2>1. QED  BY <1>3, <1>7, <1>8
<1>9. \A d : ~alive[d] => lst(d) = Verdict(<<>>)
  OBVIOUS
<1>10. \A d : ~alive'[d] => lst(d)' = Verdict(<<>>)
  BY DEF Verdict
<1>11. \A d : alive'[d] /\ Server(d)' = {} => lst(d)' = Verdict(out'[d])
  BY DEF Verdict
<1> HIDE DEF lst, told
<1>12. CASE Die(c)
  <2>1. alive[c] /\ alive' = [alive EXCEPT ![c] = FALSE] /\ out' = out
    BY <1>12 DEF Die
  <2>2. ~alive'[c] /\ \A d \in Clients : d # c => alive'[d] = alive[d]
    BY <2>1 DEF TypeOK
  <2>3. LastBar' = [LastBar EXCEPT ![c] = Verdict(<<>>)]
    <3>1. lst(c)' = Verdict(<<>>)
      BY <1>10, <2>2
    <3>2. \A d \in Clients : d # c => lst(d)' = lst(d)
      BY <1>8, <2>1, <2>2
    <3>3. QED  BY <1>6, <3>1, <3>2
  <2>4. Atomic!Leave(c)
    BY <1>2, <1>5, <2>1, <2>3 DEF Atomic!Leave, Atomic!NoAnswer, Verdict
  <2>5. QED  BY <2>4 DEF Implemented, Atomic!Next
<1>13. CASE Reconnect(c)
  <2>1. /\ ~alive[c] /\ alive' = [alive EXCEPT ![c] = TRUE]
        /\ out' = [out EXCEPT ![c] = <<>>]
    BY <1>13 DEF Reconnect
  <2>2. Server(c) = {}
    BY <1>13 DEF Reconnect, InService, Server
  <2>3. /\ alive'[c] /\ out'[c] = <<>>
        /\ \A d \in Clients : d # c => alive'[d] = alive[d] /\ out'[d] = out[d]
    BY <2>1 DEF TypeOK
  <2>4. UNCHANGED LastBar
    <3>1. lst(c) = Verdict(<<>>)
      BY <1>9, <2>1
    <3>2. lst(c)' = Verdict(<<>>)
      BY <1>3, <1>11, <2>2, <2>3
    <3>3. \A d \in Clients : d # c => lst(d)' = lst(d)
      BY <1>8, <2>3
    <3>4. QED  BY <1>6, <3>1, <3>2, <3>3
  <2>5. PendingBar[c] = NoObj
    BY <2>2 DEF PendingBar
  <2>6. Atomic!Return(c)
    BY <1>2, <1>5, <2>1, <2>4, <2>5 DEF Atomic!Return
  <2>7. QED  BY <2>6 DEF Implemented, Atomic!Next
<1>14. QED  BY <1>12, <1>13

\* Every step of the handlers is a step of the store, or none.
LEMMA NextImplements ==
  ASSUME OneWorker, Ready, Ready', [Next]_vars
  PROVE  [Atomic!Next]_(Atomic!vars)
<1>1. ASSUME NEW w \in Workers, Receive(w) \/ Handle(w) PROVE Implemented
  BY <1>1, ReceiveImplements, HandleImplements
<1>2. ASSUME NEW c \in Clients, Die(c) \/ Reconnect(c) PROVE Implemented
  BY <1>2, ClientImplements DEF Ready, IInv
<1>3. ASSUME UNCHANGED vars PROVE Implemented
  BY <1>3
     DEF vars, Implemented, FilesBar, Newest, PendingBar, LastBar, Server, Decided, Client,
         Req, File
<1>4. Implemented
  BY <1>1, <1>2, <1>3 DEF Next
<1>5. QED  BY <1>4 DEF Implemented, Atomic!vars

\* Nothing is stored, asked or answered.
LEMMA InitImplements == Init => Atomic!Init
<1> SUFFICES ASSUME Init PROVE Atomic!Init
  OBVIOUS
<1>1. FilesBar = [p \in {} |-> NoObj]
  <2>1. \A p : Newest(p) = {}
    BY DEF Init, Newest
  <2> DEFINE at(p) == CHOOSE x \in {table[i] : i \in Newest(p)} : TRUE
             seen == {p \in Paths : \E o \in {table[i] : i \in Newest(p)} :
                                      obj[o].client # Evicted}
  <2>2. FilesBar = [p \in seen |-> [data |-> obj[at(p)].data, owner |-> obj[at(p)].client]]
    BY DEF FilesBar
  <2>3. seen = {}
    BY <2>1
  <2> HIDE DEF seen, at
  <2>4. QED  BY <2>2, <2>3
<1>2. \A c : Server(c) = {}
  BY DEF Init, Server
<1>3. PendingBar = [c \in Clients |-> NoObj]
  BY <1>2 DEF PendingBar
<1>4. LastBar = [c \in Clients |-> Atomic!NoAnswer]
  <2>1. \A c \in Clients : alive[c] /\ out[c] = <<>>
    BY DEF Init
  <2>2. Verdict(<<>>) = Atomic!NoAnswer
    BY DEF Verdict, Atomic!NoAnswer
  <2> HIDE DEF Init
  <2>3. QED  BY <1>2, <2>1, <2>2 DEF LastBar
<1>5. QED  BY <1>1, <1>3, <1>4 DEF Init, Atomic!Init

\* One worker, whatever the freed key of a removal spells: the handlers implement
\* the atomic store, for any clients, paths, requests and limits.
THEOREM ImplementsAtomicStoreCorrect ==
  ASSUME OneWorker
  PROVE  Spec => ImplementsAtomicStore
<1>1. Init => Atomic!Init
  BY InitImplements
<1>2. OneWorker /\ Ready /\ Ready' /\ [Next]_vars
        => [Atomic!Next]_(Atomic!vars)
  BY NextImplements
<1>3. IInv /\ OInv /\ CInv /\ RInv => Ready
  BY DEF Ready
<1>4. QED
  BY <1>1, <1>2, <1>3, OneWorker, InvCorrect, OInvCorrect,
     CInvCorrect, RInvCorrect, PTL DEF Spec, ImplementsAtomicStore, Atomic!Spec
=============================================================================
