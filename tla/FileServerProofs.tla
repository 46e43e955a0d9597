-------------------------- MODULE FileServerProofs --------------------------
(***************************************************************************)
(* Proofs about the request handlers, for any number of workers, clients,  *)
(* paths and requests: types, the count of files and the mutexes, and then *)
(* what the handlers of several workers may rely on while the others run:  *)
(* the file that a client has open is its own.                             *)
(***************************************************************************)
EXTENDS FileServerProps, SequenceTheorems, WellFoundedInduction, TLAPS

\* Where a handler uses its file.
FileUse == Labels \ {"idle", "Nothing", "Open", "OpenCreate", "Close", "Read",
                     "ReadN", "ReadNFile", "Write", "Remove"}

\* What the locals of a handler that is at l hold.
LocalsAt(l, f) ==
  /\ l # "idle" => f.req \in Request
  /\ l \in FileUse => f.ptr \in Objs
  /\ l = "EvictUnlink" => f.vic \in Objs

LocalsOK == \A w \in Workers : LocalsAt(pc[w], frame[w])

\* storage->mutex is held by whoever is between its lock and unlock.
Exclusive == \A w \in Workers : pc[w] \in StorageLabels => storMutex = w

\* The room found by openFile is still there when it inserts.
Room == \A w \in Workers : pc[w] = "OpenInsert" => currFiles < MaxFiles

IInv == TypeOK /\ LocalsOK /\ Exclusive /\ FileCount /\ Room

-----------------------------------------------------------------------------
(* Operators of the model.                                                 *)

\* Arithmetic on size_t wraps around (server.c, file_utils.c): the result
\* is in its range.
LEMMA ModRange ==
  ASSUME NEW n \in Int
  PROVE  n % SizeMod \in 0..(SizeMod - 1)
  BY FileServerAssumption

\* The bytes of a stored file are bytes, and their number is a natural.
LEMMA SizeTyped ==
  ASSUME TypeOK, NEW o \in Objs
  PROVE  obj[o].data \in Seq(Bytes) /\ Size(o) \in Nat
  BY DEF TypeOK, FileData, Size

\* The table holds pointers to file objects.
LEMMA TableObjs ==
  ASSUME TypeOK
  PROVE  /\ ToSet(table) \in SUBSET Objs
         /\ \A i \in DOMAIN table : table[i] \in Objs
  BY DEF TypeOK, ToSet

\* curr_bytes += n stays in the range of size_t (file_utils.c:111).
LEMMA RaisedTyped ==
  ASSUME TypeOK, NEW n \in Int
  PROVE  (currBytes + n) % SizeMod \in 0..(SizeMod - 1)
<1>1. currBytes + n \in Int
  BY FileServerAssumption DEF TypeOK
<1>2. QED  BY <1>1, ModRange

\* curr_bytes -= n stays in the range of size_t (fu_remove_file).
LEMMA LoweredTyped ==
  ASSUME TypeOK, NEW n \in Nat
  PROVE  Lowered(n) \in 0..(SizeMod - 1)
<1>1. currBytes - n \in Int
  BY FileServerAssumption DEF TypeOK
<1>2. QED  BY <1>1, ModRange DEF Lowered

\* The bytes available are never negative.
LEMMA AvailableTyped == ASSUME TypeOK PROVE BytesAvailable \in Nat
  BY FileServerAssumption DEF TypeOK, BytesAvailable

\* bytes_to_free is never negative in server_evict.
LEMMA StillNeededTyped ==
  ASSUME TypeOK, NEW o \in Objs, NEW n \in Nat
  PROVE  StillNeeded(n, o) \in Nat
  BY SizeTyped DEF StillNeeded

\* fu_writefile and fu_append: the new contents are bytes and the new
\* curr_bytes is a size_t.
LEMMA WrittenTyped ==
  ASSUME TypeOK, NEW w \in Workers, File(w) \in Objs, NEW d \in Seq(Bytes)
  PROVE  /\ Written(w, d) \in Seq(Bytes)
         /\ NewBytes(w, d) \in 0..(SizeMod - 1)
<1>1. Written(w, d) \in Seq(Bytes)
  BY SizeTyped DEF Written
<1>2. currBytes + Len(Written(w, d)) - Size(File(w)) \in Int
  BY <1>1, SizeTyped, FileServerAssumption DEF TypeOK
<1>3. QED  BY <1>1, <1>2, ModRange DEF NewBytes

\* What server_writeFile reads from the socket is bytes, at the end of the
\* stream too.
LEMMA IncomingTyped ==
  ASSUME NEW w \in Workers, Req(w) \in Request
  PROVE  Incoming(w) \subseteq Seq(Bytes)
<1>1. Req(w).data \in Seq(Bytes)
  BY DEF Request
<1>2. [k \in DOMAIN Req(w).data |-> 0] \in Seq(Bytes)
  BY <1>1, FileServerAssumption
<1>3. QED  BY <1>1, <1>2 DEF Incoming

-----------------------------------------------------------------------------
(* The locals of the handlers.                                             *)

\* The locals of an idle worker have their types.
LEMMA NoFrameTyped == NoFrame \in Frame
  BY FileServerAssumption DEF NoFrame, Frame

\* Setting one local of a handler to a value of its type keeps the frame
\* well typed.
LEMMA FrameFields ==
  ASSUME NEW f \in Frame
  PROVE  /\ \A r \in Request : [f EXCEPT !.req = r] \in Frame
         /\ \A o \in Objs : [f EXCEPT !.ptr = o] \in Frame
         /\ \A T \in SUBSET Objs : [f EXCEPT !.todo = T] \in Frame
         /\ \A n \in Nat : [f EXCEPT !.need = n] \in Frame
         /\ \A n \in 0..(SizeMod - 1) : [f EXCEPT !.tmp = n] \in Frame
         /\ \A b \in BOOLEAN : [f EXCEPT !.back = b] \in Frame
         /\ \A o \in Objs : [f EXCEPT !.vic = o] \in Frame
         /\ f.todo \in SUBSET Objs /\ f.need \in Nat
         /\ f.tmp \in 0..(SizeMod - 1) /\ f.back \in BOOLEAN
         /\ f.ptr \in Objs \cup {NoObj}
  BY DEF Frame

\* The step of a handler leaves every worker's locals as its place needs.
LocalsKept == /\ pc' \in [Workers -> Labels]
              /\ frame' \in [Workers -> Frame]
              /\ LocalsOK'

\* A worker that moves to l with locals that suit l leaves the locals of
\* every worker as they should be.
LEMMA LocalsMove ==
  ASSUME TypeOK, LocalsOK, NEW w \in Workers, NEW l \in Labels,
         NEW f \in Frame, LocalsAt(l, f),
         pc' = [pc EXCEPT ![w] = l], frame' = [frame EXCEPT ![w] = f]
  PROVE  LocalsKept
  BY DEF TypeOK, LocalsOK, LocalsKept

\* The same when its handler returns.
LEMMA LocalsReturn ==
  ASSUME TypeOK, LocalsOK, NEW w \in Workers, Return(w)
  PROVE  LocalsKept
  BY NoFrameTyped, LocalsMove DEF Return, LocalsAt, Labels, FileUse

\* The same when it moves and keeps its locals.
LEMMA LocalsGoto ==
  ASSUME TypeOK, LocalsOK, NEW w \in Workers, NEW l \in Labels, Goto(w, l),
         UNCHANGED frame, LocalsAt(l, frame[w])
  PROVE  LocalsKept
<1>1. frame' = [frame EXCEPT ![w] = frame[w]] /\ frame[w] \in Frame
  BY DEF TypeOK
<1>2. QED  BY <1>1, LocalsMove DEF Goto

\* The same when it keeps the request and the file and sets other locals.
LEMMA LocalsScratch ==
  ASSUME TypeOK, LocalsOK, NEW w \in Workers, NEW l \in Labels,
         l \notin {"idle", "EvictUnlink"}, pc[w] # "idle",
         l \in FileUse => pc[w] \in FileUse, Goto(w, l),
         NEW f \in Frame, f.req = frame[w].req, f.ptr = frame[w].ptr,
         frame' = [frame EXCEPT ![w] = f]
  PROVE  LocalsKept
<1>1. LocalsAt(l, f)
  BY DEF TypeOK, LocalsOK, LocalsAt
<1>2. QED  BY <1>1, LocalsMove DEF Goto

\* The same when hu_get or malloc gives it a file.
LEMMA LocalsPtr ==
  ASSUME TypeOK, LocalsOK, NEW w \in Workers, NEW l \in Labels,
         l \notin {"idle", "EvictUnlink"}, pc[w] # "idle", Goto(w, l),
         NEW o \in Objs, frame' = [frame EXCEPT ![w].ptr = o]
  PROVE  LocalsKept
<1>0. frame[w] \in Frame /\ LocalsAt(pc[w], frame[w])
  BY DEF TypeOK, LocalsOK
<1> DEFINE f == [frame[w] EXCEPT !.ptr = o]
<1>1. f \in Frame /\ LocalsAt(l, f)
  BY <1>0, FrameFields DEF LocalsAt, Frame
<1>2. QED  BY <1>1, LocalsMove DEF Goto

\* The same when it loads the new value of curr_bytes.
LEMMA LocalsTmp ==
  ASSUME TypeOK, LocalsOK, NEW w \in Workers, NEW l \in Labels,
         l \notin {"idle", "EvictUnlink"}, pc[w] # "idle",
         l \in FileUse => pc[w] \in FileUse, Goto(w, l),
         NEW n \in 0..(SizeMod - 1), frame' = [frame EXCEPT ![w].tmp = n]
  PROVE  LocalsKept
<1>0. frame[w] \in Frame /\ LocalsAt(pc[w], frame[w])
  BY DEF TypeOK, LocalsOK
<1> DEFINE f == [frame[w] EXCEPT !.tmp = n]
<1>1. f \in Frame /\ f.req = frame[w].req /\ f.ptr = frame[w].ptr
  BY <1>0, FrameFields DEF Frame
<1>2. QED  BY <1>1, LocalsScratch

\* The same when it sets or shortens the list of files to visit.
LEMMA LocalsTodo ==
  ASSUME TypeOK, LocalsOK, NEW w \in Workers, NEW l \in Labels,
         l \notin {"idle", "EvictUnlink"}, pc[w] # "idle",
         l \in FileUse => pc[w] \in FileUse, Goto(w, l),
         NEW T \in SUBSET Objs, NEW n \in Nat,
         \/ frame' = [frame EXCEPT ![w].todo = T]
         \/ frame' = [frame EXCEPT ![w].todo = T, ![w].need = n]
  PROVE  LocalsKept
<1>0. frame[w] \in Frame /\ LocalsAt(pc[w], frame[w])
  BY DEF TypeOK, LocalsOK
<1> DEFINE f == [frame[w] EXCEPT !.todo = T]
           g == [frame[w] EXCEPT !.todo = T, !.need = n]
<1>1. f \in Frame /\ f.req = frame[w].req /\ f.ptr = frame[w].ptr
  BY <1>0, FrameFields DEF Frame
<1>2. g \in Frame /\ g.req = frame[w].req /\ g.ptr = frame[w].ptr
  BY <1>0, FrameFields, ZenonT(60) DEF Frame
<1>3. frame' = [frame EXCEPT ![w] = f] \/ frame' = [frame EXCEPT ![w] = g]
  BY DEF TypeOK
<1>4. QED  BY <1>1, <1>2, <1>3, LocalsScratch

\* Every step of every handler uses a file and a request that it has, and
\* keeps its locals typed: one step per action.
LEMMA LocalsStep ==
  ASSUME TypeOK, LocalsOK, NEW w \in Workers, Receive(w) \/ Handle(w)
  PROVE  LocalsKept
<1>0. /\ pc \in [Workers -> Labels] /\ frame \in [Workers -> Frame]
      /\ frame[w] \in Frame /\ LocalsAt(pc[w], frame[w])
      /\ table \in Seq(Objs) /\ obj \in [Objs -> FileData]
      /\ currBytes \in 0..(SizeMod - 1)
      /\ Requests \subseteq Request /\ MaxBytes \in Nat /\ SizeMod \in Nat \ {0}
  BY FileServerAssumption DEF TypeOK, LocalsOK
<1>r. Return(w) => LocalsKept
  BY LocalsReturn
<1>g. \A l \in Labels :
         Goto(w, l) /\ frame' = frame /\ LocalsAt(l, frame[w]) => LocalsKept
  BY LocalsGoto
<1>p. ASSUME NEW l \in Labels, l \notin {"idle", "EvictUnlink"},
             pc[w] # "idle", Goto(w, l),
             NEW o \in Objs, frame' = [frame EXCEPT ![w].ptr = o]
      PROVE  LocalsKept
  BY <1>p, LocalsPtr
<1>t. ASSUME NEW l \in Labels, l \notin {"idle", "EvictUnlink"},
             pc[w] # "idle", l \in FileUse => pc[w] \in FileUse, Goto(w, l),
             NEW n \in 0..(SizeMod - 1), frame' = [frame EXCEPT ![w].tmp = n]
      PROVE  LocalsKept
  BY <1>t, LocalsTmp
<1>d. ASSUME NEW l \in Labels, l \notin {"idle", "EvictUnlink"},
             pc[w] # "idle", l \in FileUse => pc[w] \in FileUse, Goto(w, l),
             NEW T \in SUBSET Objs, NEW n \in Nat,
             \/ frame' = [frame EXCEPT ![w].todo = T]
             \/ frame' = [frame EXCEPT ![w].todo = T, ![w].need = n]
      PROVE  LocalsKept
  BY <1>d, LocalsTodo
<1>1. ASSUME Receive(w) PROVE LocalsKept
  <2>1. PICK r \in Requests :
           /\ Goto(w, Entry(r.op))
           /\ frame' = [frame EXCEPT ![w].req = r]
    BY <1>1 DEF Receive
  <2> DEFINE f == [frame[w] EXCEPT !.req = r]
  <2>2. f \in Frame /\ f.req = r /\ r \in Request
    BY <1>0, FrameFields DEF Frame
  <2>3. Entry(r.op) \in Labels \ (FileUse \cup {"idle", "EvictUnlink"})
    BY DEF Entry, Labels, FileUse
  <2>4. QED  BY <2>1, <2>2, <2>3, LocalsMove DEF LocalsAt, Goto
<1>2. ASSUME ServeNothing(w) PROVE LocalsKept
  BY <1>2, <1>r DEF ServeNothing, Reply
<1>3. ASSUME OpenLookup(w) PROVE LocalsKept
  BY <1>3, <1>0, <1>r, <1>p, <1>g
     DEF OpenLookup, Reply, Labels, Newest, FileUse, LocalsAt
<1>4. ASSUME OpenFound(w) PROVE LocalsKept
  BY <1>4, <1>r DEF OpenFound, Reply
<1>5. ASSUME OpenCreate(w) PROVE LocalsKept
  BY <1>5, <1>0, <1>r, <1>p DEF OpenCreate, Reply, Labels, Mallocable
<1>6. ASSUME OpenInsert(w) PROVE LocalsKept
  <2>1. CASE FilesFull
    BY <1>6, <2>1, <1>r DEF OpenInsert, Reply
  <2>2. CASE ~FilesFull
    <3>1. File(w) \in Objs
      BY <1>6, <1>0 DEF OpenInsert, LocalsAt, FileUse, Labels, File
    <3>2. (currBytes + Size(File(w))) % SizeMod \in 0..(SizeMod - 1)
      BY <3>1, <1>0, RaisedTyped, SizeTyped
    <3>3. QED  BY <1>6, <2>2, <3>2, <1>0, <1>t DEF OpenInsert, Labels, FileUse
  <2>3. QED  BY <2>1, <2>2
<1>7. ASSUME OpenStore(w) PROVE LocalsKept
  BY <1>7, <1>r DEF OpenStore, Reply
<1>8. ASSUME CloseLookup(w) PROVE LocalsKept
  BY <1>8, <1>0, <1>r, <1>p DEF CloseLookup, Reply, Labels, Find, Newest
<1>9. ASSUME CloseFound(w) PROVE LocalsKept
  BY <1>9, <1>r DEF CloseFound, Reply
<1>10. ASSUME ReadLookup(w) PROVE LocalsKept
  BY <1>10, <1>0, <1>r, <1>p DEF ReadLookup, Reply, Labels, Find, Newest
<1>11. ASSUME ReadFound(w) PROVE LocalsKept
  BY <1>11, <1>0, <1>r, <1>g DEF ReadFound, Reply, Labels, FileUse, LocalsAt
<1>12. ASSUME ReadSend(w) PROVE LocalsKept
  BY <1>12, <1>r DEF ReadSend, Reply
<1>13. ASSUME ReadNLock(w) PROVE LocalsKept
  <2>1. Req(w).n \in Nat
    BY <1>13, <1>0 DEF ReadNLock, LocalsAt, Request, Req
  <2>2. QED  BY <1>13, <2>1, <1>0, <1>d, TableObjs
     DEF ReadNLock, Labels, FileUse
<1>14. ASSUME ReadNFile(w) PROVE LocalsKept
  <2>1. PICK o \in frame[w].todo :
          \/ frame' = [frame EXCEPT ![w].todo = @ \ {o}] /\ UNCHANGED pc
          \/ /\ frame' = [frame EXCEPT ![w].todo = @ \ {o}, ![w].need = @ - 1]
             /\ UNCHANGED pc
          \/ Return(w)
    BY <1>14, <1>0 DEF ReadNFile
  <2>2. /\ pc[w] = "ReadNFile" /\ frame[w].need \in Nat \ {0}
        /\ frame[w].todo \in SUBSET Objs
    BY <1>14, <1>0, FrameFields DEF ReadNFile
  <2>3. frame[w].todo \ {o} \in SUBSET Objs /\ frame[w].need - 1 \in Nat
    BY <2>2
  <2>4. UNCHANGED pc => Goto(w, "ReadNFile")
    BY <2>2, <1>0 DEF Goto
  <2>5. QED
    BY <2>1, <2>2, <2>3, <2>4, <1>d, <1>r DEF Labels, FileUse
<1>15. ASSUME ReadNEnd(w) PROVE LocalsKept
  BY <1>15, <1>r DEF ReadNEnd, Reply
<1>16. ASSUME WriteLock(w) PROVE LocalsKept
  BY <1>16, <1>0, <1>r, <1>p DEF WriteLock, Reply, Labels, Newest
<1>17. ASSUME WriteOwner(w) PROVE LocalsKept
  BY <1>17, <1>0, <1>r, <1>g DEF WriteOwner, Reply, Labels, FileUse, LocalsAt
<1>18. ASSUME WriteLen(w) PROVE LocalsKept
  BY <1>18, <1>0, <1>r, <1>g DEF WriteLen, Reply, Labels, FileUse, LocalsAt
<1>19. ASSUME EvictStart(w) PROVE LocalsKept
  <2> DEFINE need == (Len(Req(w).data) - BytesAvailable) % SizeMod
  <2>1. need \in Nat
    <3>1. Len(Req(w).data) \in Nat
      BY <1>19, <1>0 DEF EvictStart, LocalsAt, Request, Req
    <3>2. Len(Req(w).data) - BytesAvailable \in Int
      BY <3>1, AvailableTyped
    <3>3. need \in 0..(SizeMod - 1)
      BY <3>2, ModRange
    <3>4. QED  BY <3>3, <1>0
  <2>2. \/ Return(w)
        \/ /\ frame' = [frame EXCEPT ![w].todo = ToSet(table), ![w].need = need]
           /\ Goto(w, "EvictAsk")
    BY <1>19, <1>0 DEF EvictStart, Reply, Frame
  <2>3. pc[w] = "EvictStart"
    BY <1>19 DEF EvictStart
  <2> HIDE DEF need
  <2>4. QED
    BY <2>1, <2>2, <2>3, <1>r, <1>d, TableObjs DEF Labels, FileUse
<1>20. ASSUME EvictAsk(w) PROVE LocalsKept
  <2>1. PICK b \in BOOLEAN : frame' = [frame EXCEPT ![w].back = b]
    <3>1. pc[w] = "EvictAsk" /\ Req(w).back \in BOOLEAN
      BY <1>20, <1>0 DEF EvictAsk, LocalsAt, Request, Req
    <3>2. QED  BY <1>20, <3>1 DEF EvictAsk
  <2> DEFINE f == [frame[w] EXCEPT !.back = b]
  <2>2. f \in Frame /\ f.req = frame[w].req /\ f.ptr = frame[w].ptr
    BY <1>0, FrameFields DEF Frame
  <2>3. QED
    BY <1>20, <2>1, <2>2, LocalsScratch, ZenonT(60) DEF EvictAsk, Labels, FileUse
<1>21. ASSUME EvictSkip(w) PROVE LocalsKept
  <2>1. PICK o \in frame[w].todo : frame' = [frame EXCEPT ![w].todo = @ \ {o}]
    BY <1>21 DEF EvictSkip
  <2>2. frame[w].todo \ {o} \in SUBSET Objs
    BY <1>0, FrameFields
  <2>3. Goto(w, "Evict") /\ pc[w] = "Evict"
    BY <1>21, <1>0 DEF EvictSkip, Goto
  <2>4. QED  BY <2>1, <2>2, <2>3, <1>d DEF Labels, FileUse
<1>22. ASSUME EvictTake(w) PROVE LocalsKept
  <2>1. PICK o \in frame[w].todo :
          frame' = [frame EXCEPT ![w].todo = @ \ {o}, ![w].vic = o,
                                 ![w].need = StillNeeded(@, o)]
    BY <1>22 DEF EvictTake
  <2>2. o \in Objs /\ frame[w].todo \ {o} \in SUBSET Objs
    BY <1>0, FrameFields
  <2>3. StillNeeded(frame[w].need, o) \in Nat
    BY <2>2, <1>0, FrameFields, StillNeededTyped
  <2> DEFINE f == [frame[w] EXCEPT !.todo = @ \ {o}, !.vic = o,
                                   !.need = StillNeeded(@, o)]
  <2>4. f \in Frame /\ f.req = frame[w].req /\ f.ptr = frame[w].ptr /\ f.vic = o
    BY <2>2, <2>3, <1>0 DEF Frame
  <2>5. frame' = [frame EXCEPT ![w] = f]
    BY <2>1, <1>0 DEF Frame
  <2>6. LocalsAt("EvictUnlink", f)
    BY <1>22, <1>0, <2>2, <2>4 DEF EvictTake, LocalsAt, Labels, FileUse
  <2> HIDE DEF f
  <2>7. QED  BY <1>22, <2>4, <2>5, <2>6, LocalsMove DEF EvictTake, Goto, Labels
<1>23. ASSUME EvictAbort(w) PROVE LocalsKept
  BY <1>23, <1>r DEF EvictAbort, Reply
<1>24. ASSUME EvictUnlink(w) PROVE LocalsKept
  <2>1. PICK j \in DOMAIN table : Unlink(w, j)
    BY <1>24 DEF EvictUnlink, Victims, Newest
  <2>2. Lowered(Size(table[j])) \in 0..(SizeMod - 1)
    BY TableObjs, SizeTyped, LoweredTyped
  <2>3. QED  BY <1>24, <2>1, <2>2, <1>0, <1>t
     DEF EvictUnlink, Unlink, Labels, FileUse
<1>25. ASSUME EvictStore(w) PROVE LocalsKept
  BY <1>25, <1>0, <1>r, <1>g DEF EvictStore, Reply, Labels, FileUse, LocalsAt
<1>26. ASSUME EvictEnd(w) PROVE LocalsKept
  BY <1>26, <1>0, <1>r, <1>g DEF EvictEnd, Reply, Labels, FileUse, LocalsAt
<1>27. ASSUME WriteData(w) PROVE LocalsKept
  <2>1. pc[w] = "WriteData" /\ Req(w) \in Request /\ File(w) \in Objs
    BY <1>27, <1>0 DEF WriteData, LocalsAt, FileUse, Labels, Req, File
  <2>2. PICK d \in Incoming(w) :
          \/ frame' = [frame EXCEPT ![w].req.data = d] /\ Goto(w, "WriteLoad")
          \/ Return(w)
    BY <1>27 DEF WriteData, Reply
  <2> DEFINE f == [frame[w] EXCEPT !.req = [frame[w].req EXCEPT !.data = d]]
  <2>3. [frame[w].req EXCEPT !.data = d] \in Request
    BY <2>1, IncomingTyped DEF Request, Req
  <2>4. f \in Frame /\ f.req \in Request /\ f.ptr \in Objs
    BY <2>1, <2>3, <1>0, FrameFields DEF Frame, File
  <2>5. LocalsAt("WriteLoad", f)
    BY <2>4 DEF LocalsAt
  <2>6. Return(w) \/ frame' = [frame EXCEPT ![w] = f]
    BY <2>2
  <2> HIDE DEF f
  <2>7. QED  BY <2>2, <2>4, <2>5, <2>6, <1>r, LocalsMove DEF Goto, Labels
<1>28. ASSUME WriteBroken(w) PROVE LocalsKept
  BY <1>28, <1>r DEF WriteBroken, Reply
<1>29. ASSUME WriteLoad(w) PROVE LocalsKept
  <2>1. pc[w] = "WriteLoad" /\ Req(w) \in Request /\ File(w) \in Objs
    BY <1>29, <1>0 DEF WriteLoad, LocalsAt, FileUse, Labels, Req, File
  <2>2. NewBytes(w, Req(w).data) \in 0..(SizeMod - 1)
    BY <2>1, WrittenTyped DEF Request
  <2>3. QED  BY <1>29, <2>1, <2>2, <1>t DEF WriteLoad, Labels, FileUse
<1>30. ASSUME WriteStore(w) PROVE LocalsKept
  BY <1>30, <1>r DEF WriteStore, Reply
<1>31. ASSUME RemoveLock(w) PROVE LocalsKept
  BY <1>31, <1>0, <1>r, <1>p DEF RemoveLock, Reply, Labels, Newest
<1>32. ASSUME RemoveOwner(w) PROVE LocalsKept
  BY <1>32, <1>0, <1>r, <1>g DEF RemoveOwner, Reply, Labels, FileUse, LocalsAt
<1>33. ASSUME RemoveUnlink(w) PROVE LocalsKept
  <2>1. PICK j \in DOMAIN table : Unlink(w, j)
    BY <1>33 DEF RemoveUnlink, Victims, Newest
  <2>2. Lowered(Size(table[j])) \in 0..(SizeMod - 1)
    BY TableObjs, SizeTyped, LoweredTyped
  <2>3. QED  BY <1>33, <2>1, <2>2, <1>0, <1>t
     DEF RemoveUnlink, Unlink, Labels, FileUse
<1>34. ASSUME RemoveStore(w) PROVE LocalsKept
  BY <1>34, <1>r DEF RemoveStore, Reply
<1>35. ASSUME RemoveMissed(w) PROVE LocalsKept
  BY <1>35, <1>r DEF RemoveMissed, Reply
<1>q. QED
  BY <1>1, <1>2, <1>3, <1>4, <1>5, <1>6, <1>7, <1>8, <1>9, <1>10, <1>11,
     <1>12, <1>13, <1>14, <1>15, <1>16, <1>17, <1>18, <1>19, <1>20, <1>21,
     <1>22, <1>23, <1>24, <1>25, <1>26, <1>27, <1>28, <1>29, <1>30, <1>31,
     <1>32, <1>33, <1>34, <1>35
     DEF Handle

-----------------------------------------------------------------------------
(* The table, curr_files and storage->mutex.                               *)

\* hu_remove takes exactly one entry out.
LEMMA UnlinkedTable ==
  ASSUME table \in Seq(Objs), NEW i \in DOMAIN table
  PROVE  Unlinked(i) \in Seq(Objs) /\ Len(Unlinked(i)) = Len(table) - 1
  BY DEF Unlinked, RemoveAt

\* hu_insert puts exactly one entry in.
LEMMA InsertedTable ==
  ASSUME table \in Seq(Objs), NEW o \in Objs
  PROVE  Inserted(o) \in Seq(Objs) /\ Len(Inserted(o)) = Len(table) + 1
  BY DEF Inserted

\* What the holder of storage->mutex protects.
Control == Exclusive /\ FileCount /\ Room

ControlKept == /\ Control'
               /\ table' \in Seq(Objs)
               /\ currFiles' \in Nat
               /\ storMutex' \in Workers \cup {NoWorker}

\* Every step of every handler keeps the mutual exclusion of the regions
\* under storage->mutex, curr_files equal to the number of entries, and
\* the room that openFile found: one step per action.
LEMMA ControlStep ==
  ASSUME TypeOK, LocalsOK, Control, NEW w \in Workers,
         Receive(w) \/ Handle(w)
  PROVE  ControlKept
<1>0. /\ pc \in [Workers -> Labels] /\ table \in Seq(Objs)
      /\ currFiles \in Nat /\ storMutex \in Workers \cup {NoWorker}
      /\ MaxFiles \in Nat /\ NoWorker \notin Workers
  BY FileServerAssumption DEF TypeOK
<1> USE <1>0 DEF Control, ControlKept, Exclusive, FileCount, Room
<1>1. ASSUME Receive(w) PROVE ControlKept
  BY <1>1
     DEF Receive, store, Goto, Entry,
         Labels, StorageLabels, EvictLabels
<1>2. ASSUME ServeNothing(w) PROVE ControlKept
  BY <1>2
     DEF ServeNothing, store, Return,
         Labels, StorageLabels, EvictLabels
<1>3. ASSUME OpenLookup(w) PROVE ControlKept
  BY <1>3
     DEF OpenLookup, store, Goto, Reply, Return,
         Labels, StorageLabels, EvictLabels
<1>4. ASSUME OpenFound(w) PROVE ControlKept
  BY <1>4
     DEF OpenFound, Reply, Return,
         Labels, StorageLabels, EvictLabels
<1>5. ASSUME OpenCreate(w) PROVE ControlKept
  BY <1>5
     DEF OpenCreate, store, Goto, Reply, Return, NoRoom, FilesFull,
         Labels, StorageLabels, EvictLabels
<1>6. ASSUME OpenInsert(w) PROVE ControlKept
  <2>1. File(w) \in Objs
    BY <1>6 DEF OpenInsert, LocalsOK, LocalsAt, FileUse, Labels, File
  <2>2. QED
    BY <1>6, <2>1, InsertedTable
       DEF OpenInsert, Goto, Reply, Return, FilesFull,
           Labels, StorageLabels, EvictLabels
<1>7. ASSUME OpenStore(w) PROVE ControlKept
  BY <1>7
     DEF OpenStore, Reply, Return,
         Labels, StorageLabels, EvictLabels
<1>8. ASSUME CloseLookup(w) PROVE ControlKept
  BY <1>8
     DEF CloseLookup, store, Find, Goto, Reply, Return,
         Labels, StorageLabels, EvictLabels
<1>9. ASSUME CloseFound(w) PROVE ControlKept
  BY <1>9
     DEF CloseFound, Reply, Return,
         Labels, StorageLabels, EvictLabels
<1>10. ASSUME ReadLookup(w) PROVE ControlKept
  BY <1>10
     DEF ReadLookup, store, Find, Goto, Reply, Return,
         Labels, StorageLabels, EvictLabels
<1>11. ASSUME ReadFound(w) PROVE ControlKept
  BY <1>11
     DEF ReadFound, Goto, Reply, Return,
         Labels, StorageLabels, EvictLabels
<1>12. ASSUME ReadSend(w) PROVE ControlKept
  BY <1>12
     DEF ReadSend, Return,
         Labels, StorageLabels, EvictLabels
<1>13. ASSUME ReadNLock(w) PROVE ControlKept
  BY <1>13
     DEF ReadNLock, Goto,
         Labels, StorageLabels, EvictLabels
<1>14. ASSUME ReadNFile(w) PROVE ControlKept
  BY <1>14
     DEF ReadNFile, Return,
         Labels, StorageLabels, EvictLabels
<1>15. ASSUME ReadNEnd(w) PROVE ControlKept
  BY <1>15
     DEF ReadNEnd, Reply, Return,
         Labels, StorageLabels, EvictLabels
<1>16. ASSUME WriteLock(w) PROVE ControlKept
  BY <1>16
     DEF WriteLock, Goto, Reply, Return,
         Labels, StorageLabels, EvictLabels
<1>17. ASSUME WriteOwner(w) PROVE ControlKept
  BY <1>17
     DEF WriteOwner, Goto, Reply, Return,
         Labels, StorageLabels, EvictLabels
<1>18. ASSUME WriteLen(w) PROVE ControlKept
  BY <1>18
     DEF WriteLen, Goto, Return, ReleaseBoth,
         Labels, StorageLabels, EvictLabels
<1>19. ASSUME EvictStart(w) PROVE ControlKept
  BY <1>19
     DEF EvictStart, Goto, Reply, Return, ReleaseBoth,
         Labels, StorageLabels, EvictLabels
<1>20. ASSUME EvictAsk(w) PROVE ControlKept
  BY <1>20
     DEF EvictAsk, store, Goto,
         Labels, StorageLabels, EvictLabels
<1>21. ASSUME EvictSkip(w) PROVE ControlKept
  BY <1>21
     DEF EvictSkip, store,
         Labels, StorageLabels, EvictLabels
<1>22. ASSUME EvictTake(w) PROVE ControlKept
  BY <1>22
     DEF EvictTake, Goto,
         Labels, StorageLabels, EvictLabels
<1>23. ASSUME EvictAbort(w) PROVE ControlKept
  BY <1>23
     DEF EvictAbort, Return,
         Labels, StorageLabels, EvictLabels
<1>24. ASSUME EvictUnlink(w) PROVE ControlKept
  BY <1>24, UnlinkedTable
     DEF EvictUnlink, Goto, Unlink, Newest,
         Labels, StorageLabels, EvictLabels
<1>25. ASSUME EvictStore(w) PROVE ControlKept
  BY <1>25
     DEF EvictStore, Goto,
         Labels, StorageLabels, EvictLabels
<1>26. ASSUME EvictEnd(w) PROVE ControlKept
  BY <1>26
     DEF EvictEnd, Goto, Return, ReleaseBoth,
         Labels, StorageLabels, EvictLabels
<1>27. ASSUME WriteData(w) PROVE ControlKept
  BY <1>27
     DEF WriteData, Goto, Reply, Return,
         Labels, StorageLabels, EvictLabels
<1>28. ASSUME WriteBroken(w) PROVE ControlKept
  BY <1>28
     DEF WriteBroken, Return,
         Labels, StorageLabels, EvictLabels
<1>29. ASSUME WriteLoad(w) PROVE ControlKept
  BY <1>29
     DEF WriteLoad, store, Goto,
         Labels, StorageLabels, EvictLabels
<1>30. ASSUME WriteStore(w) PROVE ControlKept
  BY <1>30
     DEF WriteStore, Reply, Return,
         Labels, StorageLabels, EvictLabels
<1>31. ASSUME RemoveLock(w) PROVE ControlKept
  BY <1>31
     DEF RemoveLock, Goto, Reply, Return,
         Labels, StorageLabels, EvictLabels
<1>32. ASSUME RemoveOwner(w) PROVE ControlKept
  BY <1>32
     DEF RemoveOwner, Goto, Reply, Return,
         Labels, StorageLabels, EvictLabels
<1>33. ASSUME RemoveUnlink(w) PROVE ControlKept
  BY <1>33, UnlinkedTable
     DEF RemoveUnlink, Goto, Unlink, Newest, Victims,
         Labels, StorageLabels, EvictLabels
<1>34. ASSUME RemoveStore(w) PROVE ControlKept
  BY <1>34
     DEF RemoveStore, Reply, Return,
         Labels, StorageLabels, EvictLabels
<1>35. ASSUME RemoveMissed(w) PROVE ControlKept
  BY <1>35
     DEF RemoveMissed, Reply, Return,
         Labels, StorageLabels, EvictLabels
<1>q. QED
  BY <1>1, <1>2, <1>3, <1>4, <1>5, <1>6, <1>7, <1>8, <1>9, <1>10, <1>11,
     <1>12, <1>13, <1>14, <1>15, <1>16, <1>17, <1>18, <1>19, <1>20, <1>21,
     <1>22, <1>23, <1>24, <1>25, <1>26, <1>27, <1>28, <1>29, <1>30, <1>31,
     <1>32, <1>33, <1>34, <1>35 DEF Handle

-----------------------------------------------------------------------------
(* File objects, their mutexes and curr_bytes.                             *)

\* Locking and unlocking the mutex of a file, freed or not.
LEMMA LockingTyped ==
  ASSUME TypeOK, NEW w \in Workers, NEW o \in Objs
  PROVE  /\ LockedBy(w, o) \in [Objs -> Workers \cup {NoWorker}]
         /\ Unlocked(o) \in [Objs -> Workers \cup {NoWorker}]
  BY DEF TypeOK, LockedBy, Unlocked

\* The fields of file objects that handlers set.
\* The handlers set the fields of a file object to values of their types.
LEMMA FieldsTyped ==
  ASSUME TypeOK, NEW o \in Objs
  PROVE  /\ \A c \in Clients \cup {NoClient, Evicted} :
               [obj EXCEPT ![o].client = c] \in [Objs -> FileData]
         /\ \A p \in Paths : [obj EXCEPT ![o].path = p] \in [Objs -> FileData]
         /\ \A d \in Seq(Bytes) :
               [obj EXCEPT ![o].data = d] \in [Objs -> FileData]
         /\ \A c \in Clients :
               [obj EXCEPT ![o] = [Unused EXCEPT !.client = c]]
                 \in [Objs -> FileData]
<1>1. obj \in [Objs -> FileData] /\ obj[o] \in FileData
  BY DEF TypeOK
<1>2. \A c \in Clients \cup {NoClient, Evicted} :
        [obj[o] EXCEPT !.client = c] \in FileData
  BY <1>1 DEF FileData
<1>3. \A p \in Paths : [obj[o] EXCEPT !.path = p] \in FileData
  BY <1>1 DEF FileData
<1>4. \A d \in Seq(Bytes) : [obj[o] EXCEPT !.data = d] \in FileData
  BY <1>1 DEF FileData
<1>5. \A c \in Clients : [Unused EXCEPT !.client = c] \in FileData
  <2>1. Unused \in [path : Paths \cup {NoPath}, data : Seq(Bytes),
                    client : {NoClient}]
    BY DEF Unused
  <2>2. QED  BY <2>1 DEF FileData
<1>6. QED  BY <1>1, <1>2, <1>3, <1>4, <1>5

StorageKept == /\ obj' \in [Objs -> FileData]
               /\ heap' \subseteq Objs
               /\ mutex' \in [Objs -> Workers \cup {NoWorker}]
               /\ currBytes' \in 0..(SizeMod - 1)
               /\ alive' \in [Clients -> BOOLEAN]
               /\ nreq' \in Nat

\* Every step of every handler keeps the types of the file objects, of
\* their mutexes and of curr_bytes: one step per action.
LEMMA StorageStep ==
  ASSUME TypeOK, LocalsOK, NEW w \in Workers, Receive(w) \/ Handle(w)
  PROVE  StorageKept
<1>0. /\ obj \in [Objs -> FileData] /\ heap \subseteq Objs
      /\ mutex \in [Objs -> Workers \cup {NoWorker}]
      /\ currBytes \in 0..(SizeMod - 1)
      /\ alive \in [Clients -> BOOLEAN] /\ nreq \in Nat
      /\ table \in Seq(Objs)
  BY DEF TypeOK
<1>1. /\ pc[w] # "idle" => /\ Req(w) \in Request /\ Client(w) \in Clients
                           /\ Req(w).path \in Paths
                           /\ Req(w).data \in Seq(Bytes)
      /\ pc[w] \in FileUse => File(w) \in Objs
      /\ frame[w].todo \in SUBSET Objs /\ frame[w].tmp \in 0..(SizeMod - 1)
  BY FrameFields DEF TypeOK, LocalsOK, LocalsAt, Request, Req, Client, File
<1> USE DEF StorageKept
<1>2. ASSUME Receive(w) PROVE StorageKept
  BY <1>2, <1>0, <1>1
     DEF Receive, store, FileUse, Labels
<1>3. ASSUME ServeNothing(w) PROVE StorageKept
  BY <1>3, <1>0, <1>1
     DEF ServeNothing, store, FileUse, Labels
<1>4. ASSUME OpenLookup(w) PROVE StorageKept
  BY <1>4, <1>0, <1>1
     DEF OpenLookup, store, Reply, FileUse, Labels
<1>5. ASSUME OpenFound(w) PROVE StorageKept
  BY <1>5, <1>0, <1>1, FieldsTyped
     DEF OpenFound, Reply, FileUse, Labels
<1>6. ASSUME OpenCreate(w) PROVE StorageKept
  BY <1>6, <1>0, <1>1, FieldsTyped, SMTT(30)
     DEF OpenCreate, store, Reply, Mallocable, FileUse, Labels
<1>7. ASSUME OpenInsert(w) PROVE StorageKept
  <2>1. File(w) \in Objs /\ Req(w).path \in Paths
    BY <1>7, <1>1 DEF OpenInsert, FileUse, Labels
  <2>2. obj' \in [Objs -> FileData]
    BY <1>7, <1>0, <2>1, FieldsTyped DEF OpenInsert
  <2>3. QED  BY <1>7, <1>0, <2>2 DEF OpenInsert, Reply
<1>8. ASSUME OpenStore(w) PROVE StorageKept
  BY <1>8, <1>0, <1>1
     DEF OpenStore, Reply, FileUse, Labels
<1>9. ASSUME CloseLookup(w) PROVE StorageKept
  BY <1>9, <1>0, <1>1
     DEF CloseLookup, store, Find, Reply, FileUse, Labels
<1>10. ASSUME CloseFound(w) PROVE StorageKept
  <2>1. File(w) \in Objs
    BY <1>10, <1>1 DEF CloseFound, FileUse, Labels
  <2>2. obj' \in [Objs -> FileData]
    <3>1. [obj EXCEPT ![File(w)].client = NoClient] \in [Objs -> FileData]
      BY <2>1, FieldsTyped
    <3>2. QED  BY <1>10, <1>0, <3>1 DEF CloseFound
  <2>3. QED  BY <1>10, <1>0, <2>2 DEF CloseFound, Reply
<1>11. ASSUME ReadLookup(w) PROVE StorageKept
  BY <1>11, <1>0, <1>1
     DEF ReadLookup, store, Find, Reply, FileUse, Labels
<1>12. ASSUME ReadFound(w) PROVE StorageKept
  BY <1>12, <1>0, <1>1, LockingTyped
     DEF ReadFound, Reply, FileUse, Labels
<1>13. ASSUME ReadSend(w) PROVE StorageKept
  BY <1>13, <1>0, <1>1, LockingTyped
     DEF ReadSend, FileUse, Labels
<1>14. ASSUME ReadNLock(w) PROVE StorageKept
  BY <1>14, <1>0, <1>1
     DEF ReadNLock, FileUse, Labels
<1>15. ASSUME ReadNFile(w) PROVE StorageKept
  BY <1>15, <1>0, <1>1
     DEF ReadNFile, FileUse, Labels
<1>16. ASSUME ReadNEnd(w) PROVE StorageKept
  BY <1>16, <1>0, <1>1
     DEF ReadNEnd, Reply, FileUse, Labels
<1>17. ASSUME WriteLock(w) PROVE StorageKept
  BY <1>17, <1>0, <1>1
     DEF WriteLock, Reply, FileUse, Labels
<1>18. ASSUME WriteOwner(w) PROVE StorageKept
  BY <1>18, <1>0, <1>1, LockingTyped
     DEF WriteOwner, Reply, FileUse, Labels
<1>19. ASSUME WriteLen(w) PROVE StorageKept
  BY <1>19, <1>0, <1>1, LockingTyped
     DEF WriteLen, ReleaseBoth, FileUse, Labels
<1>20. ASSUME EvictStart(w) PROVE StorageKept
  BY <1>20, <1>0, <1>1, LockingTyped
     DEF EvictStart, Reply, ReleaseBoth, FileUse, Labels
<1>21. ASSUME EvictAsk(w) PROVE StorageKept
  BY <1>21, <1>0, <1>1
     DEF EvictAsk, store, FileUse, Labels
<1>22. ASSUME EvictSkip(w) PROVE StorageKept
  BY <1>22, <1>0, <1>1
     DEF EvictSkip, store, FileUse, Labels
<1>23. ASSUME EvictTake(w) PROVE StorageKept
  <2>1. PICK o \in frame[w].todo : obj' = [obj EXCEPT ![o].client = Evicted]
    BY <1>23 DEF EvictTake
  <2>2. obj' \in [Objs -> FileData]
    BY <1>1, <2>1, FieldsTyped
  <2>3. QED  BY <1>23, <1>0, <2>2 DEF EvictTake
<1>24. ASSUME EvictAbort(w) PROVE StorageKept
  BY <1>24, <1>0, <1>1, LockingTyped
     DEF EvictAbort, FileUse, Labels
<1>25. ASSUME EvictUnlink(w) PROVE StorageKept
  BY <1>25, <1>0, <1>1
     DEF EvictUnlink, Unlink, FileUse, Labels
<1>26. ASSUME EvictStore(w) PROVE StorageKept
  BY <1>26, <1>0, <1>1
     DEF EvictStore, FileUse, Labels
<1>27. ASSUME EvictEnd(w) PROVE StorageKept
  BY <1>27, <1>0, <1>1, LockingTyped
     DEF EvictEnd, ReleaseBoth, FileUse, Labels
<1>28. ASSUME WriteData(w) PROVE StorageKept
  BY <1>28, <1>0, <1>1, LockingTyped
     DEF WriteData, Reply, FileUse, Labels
<1>29. ASSUME WriteBroken(w) PROVE StorageKept
  BY <1>29, <1>0, <1>1, LockingTyped
     DEF WriteBroken, FileUse, Labels
<1>30. ASSUME WriteLoad(w) PROVE StorageKept
  BY <1>30, <1>0, <1>1
     DEF WriteLoad, store, FileUse, Labels
<1>31. ASSUME WriteStore(w) PROVE StorageKept
  <2>1. File(w) \in Objs /\ Req(w).data \in Seq(Bytes)
    BY <1>31, <1>1 DEF WriteStore, FileUse, Labels
  <2>2. obj' \in [Objs -> FileData]
    BY <1>31, <2>1, WrittenTyped, FieldsTyped DEF WriteStore
  <2>3. QED  BY <1>31, <1>0, <1>1, <2>1, <2>2, LockingTyped DEF WriteStore
<1>32. ASSUME RemoveLock(w) PROVE StorageKept
  BY <1>32, <1>0, <1>1
     DEF RemoveLock, Reply, FileUse, Labels
<1>33. ASSUME RemoveOwner(w) PROVE StorageKept
  BY <1>33, <1>0, <1>1
     DEF RemoveOwner, Reply, FileUse, Labels
<1>34. ASSUME RemoveUnlink(w) PROVE StorageKept
  BY <1>34, <1>0, <1>1
     DEF RemoveUnlink, Unlink, FileUse, Labels
<1>35. ASSUME RemoveStore(w) PROVE StorageKept
  BY <1>35, <1>0, <1>1
     DEF RemoveStore, Reply, FileUse, Labels
<1>36. ASSUME RemoveMissed(w) PROVE StorageKept
  BY <1>36, <1>0, <1>1
     DEF RemoveMissed, Reply, FileUse, Labels
<1>q. QED
  BY <1>2, <1>3, <1>4, <1>5, <1>6, <1>7, <1>8, <1>9, <1>10, <1>11, <1>12,
     <1>13, <1>14, <1>15, <1>16, <1>17, <1>18, <1>19, <1>20, <1>21, <1>22,
     <1>23, <1>24, <1>25, <1>26, <1>27, <1>28, <1>29, <1>30, <1>31, <1>32,
     <1>33, <1>34, <1>35, <1>36 DEF Handle

-----------------------------------------------------------------------------
(* What the clients are sent.                                              *)

\* An answer is a message.
LEMMA CodeTyped ==
  ASSUME NEW k \in Codes
  PROVE  Code(k) \in Seq(Message)
  BY DEF Code, Message

\* server_send_path sends messages.
LEMMA PathTyped ==
  ASSUME NEW p \in Paths \cup {NoPath}
  PROVE  PathMsg(p) \in Seq(Message)
  BY DEF PathMsg, Message, Codes

\* server_send_data sends messages.
LEMMA DataTyped ==
  ASSUME NEW d \in Seq(Bytes)
  PROVE  DataMsg(d) \in Seq(Message)
<1>1. CASE d = <<>>
  BY <1>1 DEF DataMsg
<1>2. CASE d # <<>>
  <2>1. [code |-> "DATA", path |-> NoPath, data |-> d] \in Message
    BY DEF Message, Codes
  <2>2. QED  BY <1>2, <2>1 DEF DataMsg
<1>3. QED  BY <1>1, <1>2

\* What a client is sent of a file, when it is read or evicted, is made of
\* messages.
LEMMA FileSent ==
  ASSUME TypeOK, NEW o \in Objs
  PROVE  /\ DataMsg(obj[o].data) \in Seq(Message)
         /\ PathMsg(obj[o].path) \o DataMsg(obj[o].data) \in Seq(Message)
         /\ Code("EVICT") \o PathMsg(obj[o].path) \o DataMsg(obj[o].data)
              \in Seq(Message)
<1>1. obj[o].path \in Paths \cup {NoPath}
  BY DEF TypeOK, FileData
<1>2. Code("EVICT") \in Seq(Message)
  BY CodeTyped DEF Codes
<1>3. /\ PathMsg(obj[o].path) \in Seq(Message)
      /\ DataMsg(obj[o].data) \in Seq(Message)
  BY <1>1, SizeTyped, PathTyped, DataTyped
<1>4. QED  BY <1>2, <1>3

\* A send appends messages to what the client has received, or nothing.
LEMMA SendTyped ==
  ASSUME TypeOK, NEW w \in Workers, Client(w) \in Clients,
         NEW ms \in Seq(Message), Send(w, ms)
  PROVE  out' \in [Clients -> Seq(Message)]
  BY DEF TypeOK, Send

\* Every step of every handler sends messages only: one step per action.
LEMMA OutStep ==
  ASSUME TypeOK, LocalsOK, NEW w \in Workers, Receive(w) \/ Handle(w)
  PROVE  out' \in [Clients -> Seq(Message)]
<1>0. /\ out \in [Clients -> Seq(Message)]
      /\ pc[w] # "idle" => Client(w) \in Clients
      /\ frame[w].todo \in SUBSET Objs
  BY FrameFields DEF TypeOK, LocalsOK, LocalsAt, Request, Client
<1>s. ASSUME pc[w] # "idle", NEW k \in Codes, Send(w, Code(k))
      PROVE  out' \in [Clients -> Seq(Message)]
  BY <1>s, <1>0, CodeTyped, SendTyped
<1>1. ASSUME Receive(w) PROVE out' \in [Clients -> Seq(Message)]
  <2>1. PICK r \in Request : out' = [out EXCEPT ![r.client] = <<>>]
    BY <1>1, FileServerAssumption DEF Receive
  <2>2. QED  BY <2>1, <1>0 DEF Request
<1>2. ASSUME ServeNothing(w) PROVE out' \in [Clients -> Seq(Message)]
  BY <1>2, <1>0, <1>s DEF ServeNothing, store, Codes
<1>3. ASSUME OpenLookup(w) PROVE out' \in [Clients -> Seq(Message)]
  BY <1>3, <1>0, <1>s DEF OpenLookup, store, Reply, Codes
<1>4. ASSUME OpenFound(w) PROVE out' \in [Clients -> Seq(Message)]
  BY <1>4, <1>0, <1>s DEF OpenFound, Reply, Codes
<1>5. ASSUME OpenCreate(w) PROVE out' \in [Clients -> Seq(Message)]
  BY <1>5, <1>0, <1>s DEF OpenCreate, store, Reply, Codes
<1>6. ASSUME OpenInsert(w) PROVE out' \in [Clients -> Seq(Message)]
  BY <1>6, <1>0, <1>s DEF OpenInsert, Reply, Codes
<1>7. ASSUME OpenStore(w) PROVE out' \in [Clients -> Seq(Message)]
  BY <1>7, <1>0, <1>s DEF OpenStore, Reply, Codes
<1>8. ASSUME CloseLookup(w) PROVE out' \in [Clients -> Seq(Message)]
  BY <1>8, <1>0, <1>s DEF CloseLookup, store, Find, Reply, Codes
<1>9. ASSUME CloseFound(w) PROVE out' \in [Clients -> Seq(Message)]
  BY <1>9, <1>0, <1>s DEF CloseFound, Reply, Codes
<1>10. ASSUME ReadLookup(w) PROVE out' \in [Clients -> Seq(Message)]
  BY <1>10, <1>0, <1>s DEF ReadLookup, store, Find, Reply, Codes
<1>11. ASSUME ReadFound(w) PROVE out' \in [Clients -> Seq(Message)]
  BY <1>11, <1>0, <1>s DEF ReadFound, Reply, Codes
<1>12. ASSUME ReadSend(w) PROVE out' \in [Clients -> Seq(Message)]
  <2>1. pc[w] # "idle" /\ File(w) \in Objs
    BY <1>12 DEF ReadSend, LocalsOK, LocalsAt, FileUse, Labels, File
  <2>2. QED  BY <1>12, <1>0, <2>1, FileSent, SendTyped DEF ReadSend
<1>13. ASSUME ReadNLock(w) PROVE out' \in [Clients -> Seq(Message)]
  BY <1>13, <1>0 DEF ReadNLock
<1>14. ASSUME ReadNFile(w) PROVE out' \in [Clients -> Seq(Message)]
  <2>1. PICK o \in frame[w].todo :
          \/ UNCHANGED out
          \/ Send(w, PathMsg(obj[o].path) \o DataMsg(obj[o].data))
    BY <1>14 DEF ReadNFile
  <2>2. pc[w] # "idle" /\ o \in Objs
    BY <1>14, <1>0 DEF ReadNFile
  <2>3. QED  BY <1>0, <2>1, <2>2, FileSent, SendTyped
<1>15. ASSUME ReadNEnd(w) PROVE out' \in [Clients -> Seq(Message)]
  BY <1>15, <1>0, <1>s DEF ReadNEnd, Reply, Codes
<1>16. ASSUME WriteLock(w) PROVE out' \in [Clients -> Seq(Message)]
  BY <1>16, <1>0, <1>s DEF WriteLock, Reply, Codes
<1>17. ASSUME WriteOwner(w) PROVE out' \in [Clients -> Seq(Message)]
  BY <1>17, <1>0, <1>s DEF WriteOwner, Reply, Codes
<1>18. ASSUME WriteLen(w) PROVE out' \in [Clients -> Seq(Message)]
  BY <1>18, <1>0, <1>s DEF WriteLen, Codes
<1>19. ASSUME EvictStart(w) PROVE out' \in [Clients -> Seq(Message)]
  BY <1>19, <1>0, <1>s DEF EvictStart, Reply, Codes
<1>20. ASSUME EvictAsk(w) PROVE out' \in [Clients -> Seq(Message)]
  BY <1>20, <1>0 DEF EvictAsk, store
<1>21. ASSUME EvictSkip(w) PROVE out' \in [Clients -> Seq(Message)]
  BY <1>21, <1>0 DEF EvictSkip, store
<1>22. ASSUME EvictTake(w) PROVE out' \in [Clients -> Seq(Message)]
  <2>1. PICK o \in frame[w].todo :
          \/ UNCHANGED out
          \/ Send(w, Code("EVICT") \o PathMsg(obj[o].path)
                       \o DataMsg(obj[o].data))
    BY <1>22 DEF EvictTake
  <2>2. pc[w] # "idle" /\ o \in Objs
    BY <1>22, <1>0 DEF EvictTake
  <2>3. QED  BY <1>0, <2>1, <2>2, FileSent, SendTyped
<1>23. ASSUME EvictAbort(w) PROVE out' \in [Clients -> Seq(Message)]
  BY <1>23, <1>0 DEF EvictAbort
<1>24. ASSUME EvictUnlink(w) PROVE out' \in [Clients -> Seq(Message)]
  BY <1>24, <1>0 DEF EvictUnlink
<1>25. ASSUME EvictStore(w) PROVE out' \in [Clients -> Seq(Message)]
  BY <1>25, <1>0 DEF EvictStore
<1>26. ASSUME EvictEnd(w) PROVE out' \in [Clients -> Seq(Message)]
  <2>1. Code("FAILURE") \o Code("FAILURE") \in Seq(Message)
    BY CodeTyped DEF Codes
  <2>2. pc[w] # "idle"
    BY <1>26 DEF EvictEnd
  <2>3. QED  BY <1>26, <1>0, <1>s, <2>1, <2>2, SendTyped DEF EvictEnd, Codes
<1>27. ASSUME WriteData(w) PROVE out' \in [Clients -> Seq(Message)]
  BY <1>27, <1>0, <1>s DEF WriteData, Reply, Codes
<1>28. ASSUME WriteBroken(w) PROVE out' \in [Clients -> Seq(Message)]
  BY <1>28, <1>0 DEF WriteBroken
<1>29. ASSUME WriteLoad(w) PROVE out' \in [Clients -> Seq(Message)]
  BY <1>29, <1>0 DEF WriteLoad, store
<1>30. ASSUME WriteStore(w) PROVE out' \in [Clients -> Seq(Message)]
  BY <1>30, <1>0, <1>s DEF WriteStore, Reply, Codes
<1>31. ASSUME RemoveLock(w) PROVE out' \in [Clients -> Seq(Message)]
  BY <1>31, <1>0, <1>s DEF RemoveLock, Reply, Codes
<1>32. ASSUME RemoveOwner(w) PROVE out' \in [Clients -> Seq(Message)]
  BY <1>32, <1>0, <1>s DEF RemoveOwner, Reply, Codes
<1>33. ASSUME RemoveUnlink(w) PROVE out' \in [Clients -> Seq(Message)]
  BY <1>33, <1>0 DEF RemoveUnlink
<1>34. ASSUME RemoveStore(w) PROVE out' \in [Clients -> Seq(Message)]
  BY <1>34, <1>0, <1>s DEF RemoveStore, Reply, Codes
<1>35. ASSUME RemoveMissed(w) PROVE out' \in [Clients -> Seq(Message)]
  BY <1>35, <1>0, <1>s DEF RemoveMissed, Reply, Codes
<1>q. QED
  BY <1>1, <1>2, <1>3, <1>4, <1>5, <1>6, <1>7, <1>8, <1>9, <1>10, <1>11,
     <1>12, <1>13, <1>14, <1>15, <1>16, <1>17, <1>18, <1>19, <1>20, <1>21,
     <1>22, <1>23, <1>24, <1>25, <1>26, <1>27, <1>28, <1>29, <1>30, <1>31,
     <1>32, <1>33, <1>34, <1>35 DEF Handle

-----------------------------------------------------------------------------
(* The inductive invariant and what follows from it.                       *)

\* The server starts in the inductive invariant.
THEOREM InitInv == Init => IInv
  BY NoFrameTyped, FileServerAssumption
     DEF Init, IInv, TypeOK, LocalsOK, LocalsAt, Exclusive, FileCount, Room,
         Labels, StorageLabels, EvictLabels, FileUse, FileData, Unused

\* Clients come and go without touching what the handlers rely on.
LEMMA ClientStep ==
  ASSUME IInv, NEW c \in Clients, Die(c) \/ Reconnect(c)
  PROVE  IInv'
<1>1. UNCHANGED <<table, obj, heap, mutex, storMutex, currFiles, currBytes,
                  pc, frame, nreq>>
  BY DEF Die, Reconnect, store
<1>2. alive' \in [Clients -> BOOLEAN] /\ out' \in [Clients -> Seq(Message)]
  <2>1. /\ alive \in [Clients -> BOOLEAN] /\ out \in [Clients -> Seq(Message)]
        /\ <<>> \in Seq(Message)
    BY DEF IInv, TypeOK
  <2>2. QED  BY <2>1 DEF Die, Reconnect
<1>3. TypeOK'
  BY <1>1, <1>2 DEF IInv, TypeOK
<1>4. LocalsOK' /\ Exclusive' /\ FileCount' /\ Room'
  BY <1>1 DEF IInv, LocalsOK, LocalsAt, Exclusive, FileCount, Room
<1>5. QED  BY <1>3, <1>4 DEF IInv

\* No step of any worker or client leaves the inductive invariant.
THEOREM NextInv == IInv /\ [Next]_vars => IInv'
<1> SUFFICES ASSUME IInv, [Next]_vars PROVE IInv'
  OBVIOUS
<1>1. ASSUME NEW w \in Workers, Receive(w) \/ Handle(w) PROVE IInv'
  <2>1. LocalsKept
    BY <1>1, LocalsStep DEF IInv
  <2>2. ControlKept
    BY <1>1, ControlStep DEF IInv, Control
  <2>3. StorageKept /\ out' \in [Clients -> Seq(Message)]
    BY <1>1, StorageStep, OutStep DEF IInv
  <2>4. TypeOK'
    BY <2>1, <2>2, <2>3 DEF TypeOK, LocalsKept, ControlKept, StorageKept
  <2>5. QED  BY <2>1, <2>2, <2>4 DEF IInv, LocalsKept, ControlKept, Control
<1>2. ASSUME NEW c \in Clients, Die(c) \/ Reconnect(c) PROVE IInv'
  BY <1>2, ClientStep
<1>3. CASE UNCHANGED vars
  BY <1>3
     DEF IInv, TypeOK, LocalsOK, LocalsAt, Exclusive, FileCount, Room, vars
<1>4. QED  BY <1>1, <1>2, <1>3 DEF Next

\* The inductive invariant holds in every reachable state, for any number
\* of workers, clients and files and for any limits.
THEOREM InvCorrect == Spec => []IInv
  BY InitInv, NextInv, PTL DEF Spec

\* Every variable of the storage and every local of a handler keeps its
\* type; curr_bytes stays in the range of size_t.
THEOREM TypeCorrect == Spec => []TypeOK
<1>1. IInv => TypeOK
  BY DEF IInv
<1>2. QED  BY <1>1, InvCorrect, PTL

\* curr_files is the number of files in the table and never exceeds
\* FILECAPACITY, although openFile tests the limit in one step and inserts
\* in another (server.c:748-767) and evictions and removals run meanwhile.
THEOREM FileCountCorrect == Spec => []FileCount
<1>1. IInv => FileCount
  BY DEF IInv
<1>2. QED  BY <1>1, InvCorrect, PTL

\* fu_add_file never refuses the file that openFile made room for, so the
\* second free of the new object (file_utils.c:102-114, server.c:761) is
\* never reached.
THEOREM NoDoubleFreeCorrect == Spec => []NoDoubleFree
<1>1. IInv => NoDoubleFree
  BY FileServerAssumption DEF IInv, Room, NoDoubleFree, FilesFull, TypeOK
<1>2. QED  BY <1>1, InvCorrect, PTL

-----------------------------------------------------------------------------
(* Which handlers return with a mutex locked.                              *)

\* What ReturnsClean says of a worker that returns.
Clean(w) ==
  /\ pc[w] \in StorageLabels /\ storMutex' = w => pc[w] = "WriteOwner"
  /\ pc[w] \in FileLabels /\ File(w) \in heap => mutex'[File(w)] # w

\* Where a handler has acquired nothing yet, or has given it back.
Unlocking == Labels \ (StorageLabels \cup FileLabels)

\* A return from a place where nothing is acquired is clean.
LEMMA CleanBare ==
  ASSUME NEW w \in Workers, pc[w] \in Unlocking
  PROVE  Clean(w)
  BY DEF Unlocking, Clean

\* So is one that unlocks both mutexes, or the one there is to unlock.
LEMMA CleanUnlocked ==
  ASSUME TypeOK, NEW w \in Workers,
         pc[w] \in StorageLabels => storMutex' = NoWorker,
         pc[w] \in FileLabels => mutex' = Unlocked(File(w))
  PROVE  Clean(w)
<1>1. heap \subseteq Objs /\ mutex \in [Objs -> Workers \cup {NoWorker}]
  BY DEF TypeOK
<1>2. w # NoWorker
  BY FileServerAssumption
<1>3. pc[w] \in FileLabels /\ File(w) \in heap => mutex'[File(w)] = NoWorker
  BY <1>1 DEF Unlocked
<1>4. QED  BY <1>2, <1>3 DEF Clean

\* A step of a handler moves its own worker only.
LEMMA OthersStay ==
  ASSUME TypeOK, NEW v \in Workers, Receive(v) \/ Handle(v),
         NEW w \in Workers, w # v
  PROVE  pc'[w] = pc[w]
<1>0. pc \in [Workers -> Labels]
  BY DEF TypeOK
<1>1. \/ pc' = pc
      \/ \E l : Goto(v, l)
      \/ Return(v)
  <2>1. Receive(v) \/ ServeNothing(v) \/ OpenLookup(v) \/ OpenFound(v) \/ OpenCreate(v)
          \/ OpenInsert(v) \/ OpenStore(v) \/ CloseLookup(v) \/ CloseFound(v) =>
        (\E l : Goto(v, l)) \/ Return(v)
    BY DEF Receive, ServeNothing, OpenLookup, OpenFound, OpenCreate, OpenInsert,
           OpenStore, CloseLookup, CloseFound, Find, Reply
  <2>2. ReadLookup(v) \/ ReadFound(v) \/ ReadSend(v) \/ ReadNLock(v) \/ ReadNEnd(v) =>
        (\E l : Goto(v, l)) \/ Return(v)
    BY DEF ReadLookup, ReadFound, ReadSend, ReadNLock, ReadNEnd, Find, Reply
  <2>3. ReadNFile(v) \/ EvictSkip(v) => pc' = pc \/ Return(v)
    BY DEF ReadNFile, EvictSkip
  <2>4. WriteLock(v) \/ WriteOwner(v) \/ WriteLen(v) \/ WriteData(v) \/ WriteBroken(v)
          \/ WriteLoad(v) \/ WriteStore(v) =>
        (\E l : Goto(v, l)) \/ Return(v)
    BY DEF WriteLock, WriteOwner, WriteLen, WriteData, WriteBroken, WriteLoad,
           WriteStore, Reply
  <2>5. EvictStart(v) \/ EvictAsk(v) \/ EvictTake(v) \/ EvictAbort(v) \/ EvictUnlink(v)
          \/ EvictStore(v) \/ EvictEnd(v) =>
        (\E l : Goto(v, l)) \/ Return(v)
    BY DEF EvictStart, EvictAsk, EvictTake, EvictAbort, EvictUnlink, EvictStore,
           EvictEnd, Reply
  <2>6. RemoveLock(v) \/ RemoveOwner(v) \/ RemoveUnlink(v) \/ RemoveStore(v)
          \/ RemoveMissed(v) =>
        (\E l : Goto(v, l)) \/ Return(v)
    BY DEF RemoveLock, RemoveOwner, RemoveUnlink, RemoveStore, RemoveMissed, Reply
  <2>7. QED  BY <2>1, <2>2, <2>3, <2>4, <2>5, <2>6 DEF Handle
<1>2. QED  BY <1>0, <1>1 DEF Goto, Return

\* A handler that returns to a client that is there returns clean: one step
\* for each place it returns from with a mutex acquired.
LEMMA CleanStep ==
  ASSUME IInv, NEW w \in Workers, Receive(w) \/ Handle(w), Returns(w),
         alive[Client(w)]
  PROVE  Clean(w)
<1>0. /\ TypeOK /\ pc \in [Workers -> Labels] /\ NoWorker \notin Workers
      /\ pc[w] # "idle" /\ pc'[w] = "idle"
  BY FileServerAssumption DEF IInv, TypeOK, Returns
<1>u. ASSUME pc[w] \in StorageLabels => storMutex' = NoWorker,
             pc[w] \in FileLabels => mutex' = Unlocked(File(w))
      PROVE  Clean(w)
  BY <1>u, <1>0, CleanUnlocked
<1> USE DEF StorageLabels, FileLabels, EvictLabels, Labels
<1>1. ASSUME \/ ServeNothing(w) \/ OpenLookup(w) \/ OpenFound(w) \/ OpenCreate(w)
             \/ CloseLookup(w) \/ CloseFound(w) \/ ReadLookup(w) \/ ReadFound(w)
             \/ ReadNLock(w) \/ WriteLock(w) \/ RemoveLock(w)
      PROVE  Clean(w)
  <2>1. pc[w] \in Unlocking
    BY <1>1
       DEF ServeNothing, OpenLookup, OpenFound, OpenCreate, CloseLookup, CloseFound,
           ReadLookup, ReadFound, ReadNLock, WriteLock, RemoveLock, Find, Unlocking
  <2>2. QED  BY <2>1, CleanBare
<1>2. ~ReadNFile(w)
  BY <1>0 DEF ReadNFile
<1>3. ~(EvictAsk(w) \/ EvictSkip(w) \/ EvictTake(w) \/ EvictUnlink(w) \/ EvictStore(w))
  BY <1>0 DEF EvictAsk, EvictSkip, EvictTake, EvictUnlink, EvictStore, Goto
<1>4. ~(Receive(w) \/ WriteLoad(w) \/ RemoveUnlink(w))
  BY <1>0 DEF Receive, WriteLoad, RemoveUnlink, Goto
<1>5. ~(EvictAbort(w) \/ WriteBroken(w))
  BY DEF EvictAbort, WriteBroken
<1>6. ~WriteLen(w)
  BY <1>0 DEF WriteLen, Goto
<1>7. ASSUME OpenInsert(w) \/ OpenStore(w) \/ ReadNEnd(w) PROVE Clean(w)
  BY <1>7, <1>0, <1>u DEF OpenInsert, OpenStore, ReadNEnd, Goto
<1>8. ASSUME ReadSend(w) PROVE Clean(w)
  BY <1>8, <1>u DEF ReadSend
<1>9. ASSUME WriteOwner(w) PROVE Clean(w)
  BY <1>9 DEF WriteOwner, Clean
<1>10. ASSUME EvictStart(w) \/ EvictEnd(w) PROVE Clean(w)
  BY <1>10, <1>0, <1>u DEF EvictStart, EvictEnd, ReleaseBoth, Goto
<1>11. ASSUME WriteData(w) \/ WriteStore(w) PROVE Clean(w)
  BY <1>11, <1>0, <1>u DEF WriteData, WriteStore, Goto
<1>12. ASSUME RemoveOwner(w) \/ RemoveStore(w) \/ RemoveMissed(w) PROVE Clean(w)
  BY <1>12, <1>0, <1>u DEF RemoveOwner, RemoveStore, RemoveMissed, Goto
<1>13. QED
  BY <1>1, <1>2, <1>3, <1>4, <1>5, <1>6, <1>7, <1>8, <1>9, <1>10, <1>11, <1>12
     DEF Handle

\* A handler returns with a mutex locked in two cases only: a write or append
\* refused because another client has the file (server.c:964-968) and a client
\* that has gone away; every other return releases what it acquired.
THEOREM ReturnsCleanCorrect == Spec => ReturnsClean
<1> DEFINE Body == \A w \in Workers : Returns(w) /\ alive[Client(w)] => Clean(w)
<1>1. IInv /\ [Next]_vars => Body
  <2> SUFFICES ASSUME IInv, [Next]_vars, NEW w \in Workers, Returns(w), alive[Client(w)]
               PROVE  Clean(w)
    OBVIOUS
  <2>1. ASSUME NEW v \in Workers, Receive(v) \/ Handle(v) PROVE Clean(w)
    <3>1. v = w
      BY <2>1, OthersStay DEF IInv, Returns
    <3>2. QED  BY <2>1, <3>1, CleanStep
  <2>2. ASSUME NEW c \in Clients, Die(c) \/ Reconnect(c) PROVE Clean(w)
    BY <2>2 DEF Die, Reconnect, Returns
  <2>3. CASE UNCHANGED vars
    BY <2>3 DEF vars, Returns
  <2>4. QED  BY <2>1, <2>2, <2>3 DEF Next
<1>2. Body => [\A w \in Workers :
       Returns(w) /\ alive[Client(w)] =>
         /\ pc[w] \in StorageLabels /\ storMutex' = w => pc[w] = "WriteOwner"
         /\ pc[w] \in FileLabels /\ File(w) \in heap => mutex'[File(w)] # w
      ]_vars
  BY DEF Clean
<1> HIDE DEF Body
<1>3. QED  BY <1>1, <1>2, InvCorrect, PTL DEF Spec, ReturnsClean

-----------------------------------------------------------------------------
(* The file that a client has open.                                        *)

\* No entry of the table has the path.
NoEntry(p) == \A i \in DOMAIN table : obj[table[i]].path # p

\* Where a handler writes its file, which it has locked.
WriteLabels == EvictLabels \cup {"WriteLen", "WriteData", "WriteLoad", "WriteStore"}

-----------------------------------------------------------------------------
(* Entries of the table.                                                   *)

\* A set of natural numbers that is not empty has a least element.
LEMMA LeastNat ==
  ASSUME NEW T \in SUBSET Nat, T # {}
  PROVE  \E x \in T : \A y \in T : x <= y
<1> DEFINE R == {p \in Nat \X Nat : p[1] < p[2]}
<1>1. IsWellFoundedOn(R, Nat)
  BY NatLessThanWellFounded DEF OpToRel
<1> HIDE DEF R
<1>2. PICK x \in T : \A y \in T : <<y, x>> \notin R
  BY <1>1, WFMin
<1>3. \A y \in T : ~(y < x)
  BY <1>2 DEF R
<1>4. QED  BY <1>3

\* hu_get finds nothing only when there is nothing: an entry with the path
\* implies a first one (hash_utils.c:126).
LEMMA NothingNewest ==
  ASSUME table \in Seq(Objs), NEW p, Newest(p) = {}
  PROVE  NoEntry(p)
<1> SUFFICES ASSUME ~NoEntry(p) PROVE FALSE
  OBVIOUS
<1> DEFINE T == {i \in DOMAIN table : obj[table[i]].path = p}
<1>1. T # {} /\ T \in SUBSET Nat /\ DOMAIN table = 1..Len(table) /\ Len(table) \in Nat
  BY DEF NoEntry
<1>2. PICK x \in T : \A y \in T : x <= y
  BY <1>1, LeastNat
<1>3. \A j \in 1..(x - 1) : j \in DOMAIN table /\ j \notin T
  BY <1>1, <1>2
<1>4. x \in Newest(p)
  BY <1>3 DEF Newest
<1>5. QED  BY <1>4

\* hu_remove leaves every entry but one, in its place or the one before.
LEMMA UnlinkedEntries ==
  ASSUME table \in Seq(Objs), NEW i \in DOMAIN table
  PROVE  /\ DOMAIN Unlinked(i) = 1..(Len(table) - 1)
         /\ \A j \in 1..(Len(table) - 1) :
              Unlinked(i)[j] = IF j < i THEN table[j] ELSE table[j + 1]
<1> DEFINE n == Len(table)
           s == SubSeq(table, 1, i - 1)
           t == SubSeq(table, i + 1, n)
<1>1. i \in 1..n /\ n \in Nat /\ \A k \in 1..n : table[k] \in Objs
  OBVIOUS
<1>2. /\ s \in Seq(Objs) /\ Len(s) = i - 1
      /\ \A j \in 1..(i - 1) : s[j] = table[j]
  BY <1>1, SubSeqProperties
<1>3. /\ t \in Seq(Objs) /\ Len(t) = n - i
      /\ \A j \in 1..(n - i) : t[j] = table[i + j]
  BY <1>1, SubSeqProperties
<1> HIDE DEF n, s, t
<1>4. /\ s \o t \in Seq(Objs) /\ Len(s \o t) = n - 1
      /\ \A j \in 1..(n - 1) : (s \o t)[j] = IF j <= i - 1 THEN s[j] ELSE t[j - (i - 1)]
  <2>1. /\ s \o t \in Seq(Objs) /\ Len(s \o t) = Len(s) + Len(t)
        /\ \A j \in 1..(Len(s) + Len(t)) :
             (s \o t)[j] = IF j <= Len(s) THEN s[j] ELSE t[j - Len(s)]
    BY <1>2, <1>3, ConcatProperties
  <2>2. Len(s) + Len(t) = n - 1
    BY <1>1, <1>2, <1>3
  <2>3. QED  BY <1>2, <2>1, <2>2
<1>5. ASSUME NEW j \in 1..(n - 1)
      PROVE  (s \o t)[j] = IF j < i THEN table[j] ELSE table[j + 1]
  <2>1. CASE j < i
    <3>1. j \in 1..(i - 1) /\ j <= i - 1
      BY <1>1, <2>1
    <3>2. QED  BY <1>2, <1>4, <2>1, <3>1
  <2>2. CASE ~(j < i)
    <3> DEFINE m == j - (i - 1)
    <3>1. m \in 1..(n - i) /\ i + m = j + 1 /\ ~(j <= i - 1)
      BY <1>1, <2>2
    <3>2. (s \o t)[j] = t[m]
      BY <1>4, <3>1
    <3>3. t[m] = table[i + m]
      BY <1>3, <3>1
    <3>4. QED  BY <2>2, <3>1, <3>2, <3>3
  <2>3. QED  BY <2>1, <2>2
<1>6. Unlinked(i) = s \o t
  BY DEF Unlinked, RemoveAt, n, s, t
<1>7. DOMAIN (s \o t) = 1..(n - 1)
  BY <1>4
<1>8. QED  BY <1>5, <1>6, <1>7 DEF n

\* When no path is stored twice, taking an entry out takes its file out.
LEMMA UnlinkedStored ==
  ASSUME table \in Seq(Objs), UniquePaths, NEW i \in DOMAIN table
  PROVE  /\ ToSet(Unlinked(i)) = Stored \ {table[i]}
         /\ \A j, k \in DOMAIN Unlinked(i) :
              obj[Unlinked(i)[j]].path = obj[Unlinked(i)[k]].path => j = k
<1> DEFINE t == Unlinked(i)
           at(j) == IF j < i THEN j ELSE j + 1
<1>1. /\ DOMAIN table = 1..Len(table) /\ Len(table) \in Nat /\ i \in 1..Len(table)
      /\ DOMAIN t = 1..(Len(table) - 1)
      /\ \A j \in DOMAIN t : t[j] = table[at(j)] /\ at(j) \in DOMAIN table /\ at(j) # i
  BY UnlinkedEntries
<1>2. \A j, k \in DOMAIN t : at(j) = at(k) => j = k
  BY <1>1
<1>3. \A m \in DOMAIN table : m # i => \E j \in DOMAIN t : at(j) = m
  <2> TAKE m \in DOMAIN table
  <2>1. CASE m < i
    BY <1>1, <2>1
  <2>2. CASE m > i
    <3>1. m - 1 \in DOMAIN t /\ at(m - 1) = m
      BY <1>1, <2>2
    <3>2. QED  BY <3>1
  <2>3. QED  BY <1>1, <2>1, <2>2
<1>4. \A m, n \in DOMAIN table : obj[table[m]].path = obj[table[n]].path => m = n
  BY DEF UniquePaths
<1> HIDE DEF t, at
<1>5. ToSet(t) = Stored \ {table[i]}
  BY <1>1, <1>3, <1>4 DEF ToSet, Stored
<1>6. \A j, k \in DOMAIN t : obj[t[j]].path = obj[t[k]].path => j = k
  BY <1>1, <1>2, <1>4
<1>7. QED  BY <1>5, <1>6 DEF t

\* hu_insert puts a file before the entries that are there.
LEMMA InsertedEntries ==
  ASSUME table \in Seq(Objs), NEW o \in Objs
  PROVE  /\ DOMAIN Inserted(o) = 1..(Len(table) + 1)
         /\ Inserted(o)[1] = o
         /\ \A j \in 1..Len(table) : Inserted(o)[j + 1] = table[j]
         /\ ToSet(Inserted(o)) = Stored \cup {o}
<1>1. /\ DOMAIN Inserted(o) = 1..(Len(table) + 1) /\ Inserted(o)[1] = o
      /\ \A j \in 2..(Len(table) + 1) : Inserted(o)[j] = table[j - 1]
      /\ DOMAIN table = 1..Len(table) /\ Len(table) \in Nat
  BY DEF Inserted
<1>2. \A j \in 1..Len(table) : j + 1 \in 2..(Len(table) + 1) /\ (j + 1) - 1 = j
  BY <1>1
<1>3. \A j \in 1..Len(table) : Inserted(o)[j + 1] = table[j]
  BY <1>1, <1>2
<1>4. \A j \in DOMAIN Inserted(o) :
        j = 1 \/ (j - 1 \in DOMAIN table /\ Inserted(o)[j] = table[j - 1])
  BY <1>1
<1>5. \A j \in DOMAIN table : j + 1 \in DOMAIN Inserted(o)
  BY <1>1
<1>6. 1 \in DOMAIN Inserted(o)
  BY <1>1
<1>7. ToSet(Inserted(o)) = Stored \cup {o}
  BY <1>1, <1>3, <1>4, <1>5, <1>6 DEF ToSet, Stored
<1>8. QED  BY <1>1, <1>3, <1>7

-----------------------------------------------------------------------------
(* Steps that leave the table and the paths of its files as they are.      *)

PathsStay == /\ UNCHANGED <<table, heap>>
             /\ \A o \in Objs : obj'[o].path = obj[o].path

\* What is stored, and under which paths, is then what it was.
LEMMA EntriesStay ==
  ASSUME TypeOK, UniquePaths, PathsStay
  PROVE  /\ UniquePaths' /\ Stored' = Stored
         /\ \A p : NoEntry(p) => NoEntry(p)'
<1>1. \A i \in DOMAIN table : obj'[table[i]].path = obj[table[i]].path
  BY TableObjs DEF PathsStay
<1>2. QED  BY <1>1 DEF PathsStay, UniquePaths, Stored, ToSet, NoEntry

\* Setting the client or the data of a file leaves the paths as they are.
LEMMA FieldsKeepPaths ==
  ASSUME TypeOK, UNCHANGED <<table, heap>>, NEW f \in Objs,
         \/ obj' = obj
         \/ \E c : obj' = [obj EXCEPT ![f].client = c]
         \/ \E d : obj' = [obj EXCEPT ![f].data = d]
  PROVE  PathsStay
  BY ZenonT(60) DEF TypeOK, FileData, PathsStay

\* A handler goes on with the same request and the same file.
SameJob(w) == /\ frame'[w].ptr = frame[w].ptr
              /\ frame'[w].req.path = frame[w].req.path
              /\ frame'[w].req.client = frame[w].req.client

-----------------------------------------------------------------------------
(* What a handler relies on.                                               *)

\* The file that is written is locked, so that it is not a victim.
Held(w) == pc[w] \in WriteLabels => mutex[File(w)] = w

\* Where a handler has seen, and nobody can have changed it since, that its
\* file is stored and open by its client, or stored under its path.
HadLabels  == WriteLabels \cup {"ReadSend", "OpenStore", "RemoveUnlink"}
FoundLabels == WriteLabels \cup {"OpenStore", "WriteOwner", "RemoveOwner", "RemoveUnlink"}

\* The path about to be created is not there, and its creator is the only one
\* who may create it.
Creates(w) ==
  /\ pc[w] \in {"Open", "OpenCreate", "OpenInsert"} =>
       Req(w) \in Requests /\ Req(w).op = "OPEN"
  /\ pc[w] \in {"OpenCreate", "OpenInsert"} => Req(w).create /\ NoEntry(Req(w).path)

\* The object that openFile has made is its own.
Makes(w) ==
  pc[w] = "OpenInsert" => File(w) \in heap \ Stored /\ obj[File(w)].client = Client(w)

\* A file that was found without a mutex may have gone, but not when it is
\* open by the client.
Finds(w) ==
  pc[w] \in {"ReadFound", "CloseFound"} /\ obj[File(w)].client = Client(w)
    => File(w) \in Stored

Has(w) == pc[w] \in HadLabels => File(w) \in Stored /\ obj[File(w)].client = Client(w)
Knows(w) == pc[w] \in FoundLabels => File(w) \in Stored /\ obj[File(w)].path = Req(w).path

\* The victim of an eviction is still stored, and marked.
Marks(w) ==
  pc[w] = "EvictUnlink" =>
    frame[w].vic \in Stored /\ obj[frame[w].vic].client = Evicted

Relies(w) == /\ Creates(w) /\ Makes(w) /\ Finds(w) /\ Has(w) /\ Knows(w)
             /\ Held(w) /\ Marks(w)

\* A client is served by one worker at a time.
Apart ==
  \A v, w \in Workers : v # w /\ pc[v] # "idle" /\ pc[w] # "idle" => Client(v) # Client(w)

\* What is allocated is stored or about to be.
Allocated ==
  /\ Stored \subseteq heap
  /\ \A o \in heap \ Stored : \E w \in Workers : pc[w] = "OpenInsert" /\ o = File(w)

SInv == UniquePaths /\ Apart /\ Allocated /\ \A w \in Workers : Relies(w)

-----------------------------------------------------------------------------
(* What a step of one worker leaves to the others.                         *)

\* It takes no file from the client of another, gives none to it and unlocks
\* none of it; it stores nothing but what it was asked to create, and without
\* storage->mutex it removes nothing.
Mild(w) ==
  /\ \A o \in heap : obj[o].client \in Clients \ {Client(w)} =>
       /\ o \in heap' /\ (o \in Stored' <=> o \in Stored)
       /\ obj'[o].client = obj[o].client /\ obj'[o].path = obj[o].path
       /\ mutex[o] # NoWorker => mutex'[o] = mutex[o]
  /\ \A o \in Objs : obj'[o].client \in {obj[o].client, NoClient, Evicted, Client(w)}
  /\ \A o \in Stored' : \/ o \in Stored /\ obj'[o].path = obj[o].path
                        \/ pc[w] = "OpenInsert" /\ obj'[o].path = Req(w).path
  /\ storMutex # w => \A o \in Stored : /\ o \in Stored' /\ obj'[o].path = obj[o].path
                                        /\ obj[o].client = Evicted => obj'[o].client = Evicted

\* The others keep their places and their locals.
Own(w) == \A v \in Workers \ {w} : pc'[v] = pc[v] /\ frame'[v] = frame[v]

\* The clients of handlers are clients, and no client is a mark.
LEMMA TheirClients ==
  ASSUME IInv, NEW w \in Workers, pc[w] # "idle"
  PROVE  /\ Client(w) \in Clients /\ Client(w) \notin {NoClient, Evicted}
         /\ Req(w) \in Request /\ Req(w).path \in Paths
<1>1. Req(w) \in Request
  BY DEF IInv, LocalsOK, LocalsAt, Req
<1>2. Client(w) \in Clients /\ Req(w).path \in Paths
  BY <1>1 DEF Request, Req, Client
<1>3. QED  BY <1>1, <1>2, FileServerAssumption DEF NoClient, Evicted

\* Then what another relies on stays.
LEMMA OthersRely ==
  ASSUME Undisputed, IInv, SInv, NEW w \in Workers, NEW v \in Workers, v # w,
         pc[w] # "idle", Mild(w), Own(w)
  PROVE  Relies(v)'
<1>0. /\ pc'[v] = pc[v] /\ frame'[v] = frame[v] /\ Relies(v)
      /\ UNCHANGED <<Req(v), Client(v), File(v)>>
  BY DEF Own, SInv, Req, Client, File
<1>1. pc[v] # "idle" => Client(v) \in Clients \ {Client(w)} /\ Client(v) \notin {NoClient, Evicted}
  BY TheirClients DEF SInv, Apart
<1>2. pc[v] \in StorageLabels => storMutex # w
  BY DEF IInv, Exclusive
<1>3. Stored \subseteq heap /\ heap \subseteq Objs /\ (pc[v] \in FileUse => File(v) \in Objs)
  BY DEF SInv, Allocated, IInv, TypeOK, LocalsOK, LocalsAt, File
<1> USE DEF WriteLabels, EvictLabels
<1>4. Creates(v)'
  <2>1. ASSUME pc[v] \in {"OpenCreate", "OpenInsert"} PROVE NoEntry(Req(v).path)'
    <3>1. \A o \in Stored : obj[o].path # Req(v).path
      BY <1>0, <2>1 DEF Relies, Creates, NoEntry, Stored, ToSet
    <3>2. pc[w] = "OpenInsert" => Req(w).path # Req(v).path
      <4>1. Relies(w) /\ Relies(v)
        BY DEF SInv
      <4>2. Client(v) # Client(w)
        BY <1>1, <2>1
      <4>3. OwnPaths
        BY DEF Undisputed, OneWorker
      <4>4. QED  BY <2>1, <4>1, <4>2, <4>3 DEF Relies, Creates, OwnPaths, Client, Req
    <3>3. \A o \in Stored' : obj'[o].path # Req(v).path
      BY <3>1, <3>2 DEF Mild
    <3>4. QED  BY <1>0, <3>3 DEF NoEntry, Stored, ToSet
  <2>2. QED  BY <1>0, <2>1 DEF Relies, Creates
<1>5. Makes(v)'
  BY <1>0, <1>1 DEF Relies, Makes, Mild
<1>6. Finds(v)'
  <2> SUFFICES ASSUME pc[v] \in {"ReadFound", "CloseFound"}, obj'[File(v)].client = Client(v)
               PROVE  File(v) \in Stored'
    BY <1>0 DEF Finds
  <2>1. File(v) \in Objs
    BY <1>3 DEF FileUse, Labels
  <2>2. obj[File(v)].client = Client(v)
    BY <1>1, <2>1 DEF Mild
  <2>3. File(v) \in Stored
    BY <1>0, <2>2 DEF Relies, Finds
  <2>4. QED  BY <1>1, <1>3, <2>2, <2>3 DEF Mild
<1>7. Has(v)'
  BY <1>0, <1>1, <1>3 DEF Relies, Has, HadLabels, Mild
<1>8. Knows(v)'
  <2>1. CASE pc[v] \in HadLabels
    BY <1>0, <1>1, <1>3, <2>1 DEF Relies, Has, Knows, HadLabels, Mild
  <2>2. CASE pc[v] \notin HadLabels
    BY <1>0, <1>2, <2>2 DEF Relies, Knows, HadLabels, FoundLabels, StorageLabels, Mild
  <2>3. QED  BY <2>1, <2>2
<1>9. Held(v)'
  <2> SUFFICES ASSUME pc[v] \in WriteLabels PROVE mutex'[File(v)] = v
    BY <1>0 DEF Held
  <2>1. File(v) \in Stored /\ obj[File(v)].client = Client(v) /\ mutex[File(v)] = v
    BY <1>0 DEF Relies, Has, Held, HadLabels
  <2>2. v # NoWorker
    BY FileServerAssumption
  <2>3. QED  BY <1>1, <1>3, <2>1, <2>2 DEF Mild
<1>10. Marks(v)'
  BY <1>0, <1>2 DEF Relies, Marks, StorageLabels, Mild
<1>11. QED  BY <1>4, <1>5, <1>6, <1>7, <1>8, <1>9, <1>10 DEF Relies

Moved(w) == SInv' /\ Mild(w)

\* So the invariant is kept when the worker that moves can rely on its own.
LEMMA TheMover ==
  ASSUME Undisputed, IInv, SInv, NEW w \in Workers, pc[w] # "idle", Mild(w), Own(w),
         pc'[w] # "idle" => frame'[w].req.client = Client(w),
         Relies(w)', UniquePaths', Allocated'
  PROVE  Moved(w)
<1>1. \A v \in Workers : Relies(v)'
  BY OthersRely
<1>2. Apart'
  <2> SUFFICES ASSUME NEW u \in Workers, NEW v \in Workers, u # v,
                      pc'[u] # "idle", pc'[v] # "idle"
               PROVE  frame'[u].req.client # frame'[v].req.client
    BY DEF Apart, Client
  <2>1. \A x \in {u, v} : pc[x] # "idle" /\ frame'[x].req.client = Client(x)
    BY DEF Own, Client
  <2>2. QED  BY <2>1 DEF SInv, Apart
<1>3. QED  BY <1>1, <1>2 DEF SInv, Moved

-----------------------------------------------------------------------------
(* Steps that leave the table as it is.                                    *)

\* The mutexes of files that are open by other clients stay as they are.
Polite(w) ==
  \A o \in heap :
    obj[o].client \in Clients \ {Client(w)} /\ mutex[o] # NoWorker => mutex'[o] = mutex[o]

\* A handler locks a mutex that is free, or unlocks that of its client's file.
LEMMA MutexPolite ==
  ASSUME IInv, SInv, NEW w \in Workers, pc[w] # "idle",
         \/ mutex' = mutex
         \/ CanLock(File(w)) /\ mutex' = LockedBy(w, File(w))
         \/ pc[w] \in HadLabels /\ mutex' = Unlocked(File(w))
  PROVE  Polite(w)
<1>1. mutex \in [Objs -> Workers \cup {NoWorker}] /\ heap \subseteq Objs
  BY DEF IInv, TypeOK
<1>2. CASE mutex' = mutex
  BY <1>2 DEF Polite
<1>3. CASE CanLock(File(w)) /\ mutex' = LockedBy(w, File(w))
  BY <1>1, <1>3 DEF Polite, CanLock, LockedBy
<1>4. CASE pc[w] \in HadLabels /\ mutex' = Unlocked(File(w))
  <2>1. obj[File(w)].client = Client(w)
    BY <1>4 DEF SInv, Relies, Has
  <2>2. QED  BY <1>1, <1>4, <2>1 DEF Polite, Unlocked
<1>5. QED  BY <1>2, <1>3, <1>4

\* An idle worker relies on nothing.
LEMMA IdleRelies ==
  ASSUME NEW w \in Workers, pc'[w] = "idle"
  PROVE  Relies(w)'
  BY DEF Relies, Creates, Makes, Finds, Has, Knows, Held, Marks, HadLabels, FoundLabels,
         WriteLabels, EvictLabels

\* Only the fields of files change.
LEMMA FieldsStep ==
  ASSUME Undisputed, IInv, SInv, NEW w \in Workers, pc[w] \notin {"idle", "OpenInsert"},
         Own(w), PathsStay, Polite(w),
         \A o \in Objs : obj'[o].client \in {obj[o].client, NoClient, Evicted, Client(w)},
         \A o \in heap : obj[o].client \in Clients \ {Client(w)} => obj'[o].client = obj[o].client,
         storMutex # w => \A o \in Stored : obj[o].client = Evicted => obj'[o].client = Evicted,
         pc'[w] # "idle" => frame'[w].req.client = Client(w),
         Relies(w)'
  PROVE  Moved(w)
<1>1. UniquePaths' /\ Stored' = Stored /\ UNCHANGED heap /\ heap \subseteq Objs
  BY EntriesStay DEF IInv, SInv, PathsStay, TypeOK
<1>2. \A o \in heap : obj'[o].path = obj[o].path
  BY <1>1 DEF PathsStay
<1>3. Stored \subseteq heap
  BY DEF SInv, Allocated
<1>4. Mild(w)
  BY <1>1, <1>2, <1>3 DEF Mild, Polite
<1>5. Allocated'
  <2>1. ASSUME NEW o \in heap \ Stored
        PROVE  \E v \in Workers : pc'[v] = "OpenInsert" /\ o = frame'[v].ptr
    <3>1. PICK v \in Workers : pc[v] = "OpenInsert" /\ o = File(v)
      BY DEF SInv, Allocated
    <3>2. v \in Workers \ {w}
      BY <3>1
    <3>3. QED  BY <3>1, <3>2 DEF Own, File
  <2>2. QED  BY <1>1, <1>3, <2>1 DEF Allocated, File
<1>6. QED  BY <1>1, <1>4, <1>5, TheMover

\* No file changes.
LEMMA FilesStep ==
  ASSUME Undisputed, IInv, SInv, NEW w \in Workers, pc[w] \notin {"idle", "OpenInsert"},
         Own(w), UNCHANGED <<table, heap, obj>>, Polite(w),
         pc'[w] # "idle" => frame'[w].req.client = Client(w),
         Relies(w)'
  PROVE  Moved(w)
<1>1. PathsStay
  BY DEF PathsStay
<1>2. QED  BY <1>1, FieldsStep

\* A handler returns.
LEMMA ReturnsStep ==
  ASSUME Undisputed, IInv, SInv, NEW w \in Workers, pc[w] \notin {"idle", "OpenInsert"},
         Own(w), UNCHANGED <<table, heap, obj>>, Polite(w), Return(w)
  PROVE  Moved(w)
<1>1. pc'[w] = "idle"
  BY DEF IInv, TypeOK, Return
<1>2. QED  BY <1>1, IdleRelies, FilesStep

\* A handler goes on with its file.
LEMMA GoesOnStep ==
  ASSUME Undisputed, IInv, SInv, NEW w \in Workers, pc[w] \notin {"idle", "OpenInsert"},
         Own(w), UNCHANGED <<table, heap, obj>>, Polite(w), SameJob(w),
         pc'[w] \notin {"Open", "OpenCreate", "OpenInsert", "EvictUnlink", "ReadFound",
                        "CloseFound"},
         pc'[w] \in HadLabels => File(w) \in Stored /\ obj[File(w)].client = Client(w),
         pc'[w] \in FoundLabels => pc[w] \in FoundLabels,
         pc'[w] \in WriteLabels => mutex'[File(w)] = w
  PROVE  Moved(w)
<1>1. Stored' = Stored
  BY DEF Stored
<1>2. Creates(w)' /\ Makes(w)' /\ Finds(w)' /\ Marks(w)'
  BY DEF Creates, Makes, Finds, Marks
<1>3. Has(w)' /\ Held(w)'
  BY <1>1 DEF Has, Held, SameJob, File, Client
<1>4. Knows(w)'
  BY <1>1 DEF SInv, Relies, Knows, SameJob, File, Req
<1>5. Relies(w)'
  BY <1>2, <1>3, <1>4 DEF Relies
<1>6. frame'[w].req.client = Client(w)
  BY DEF SameJob, Client
<1>7. QED  BY <1>5, <1>6, FilesStep

\* hu_get gives the handler a file.
LEMMA FoundFileStep ==
  ASSUME Undisputed, IInv, SInv, NEW w \in Workers, pc[w] \notin {"idle", "OpenInsert"},
         Own(w), UNCHANGED <<table, heap, obj, mutex>>,
         NEW i \in Newest(Req(w).path), frame' = [frame EXCEPT ![w].ptr = table[i]],
         pc'[w] \in {"OpenFound", "CloseFound", "ReadFound", "WriteOwner", "RemoveOwner"}
  PROVE  Moved(w)
<1>1. Stored' = Stored
  BY DEF Stored
<1>2. frame'[w].ptr = table[i] /\ frame'[w].req = frame[w].req
  BY DEF IInv, TypeOK, Frame
<1>3. table[i] \in Stored /\ obj[table[i]].path = Req(w).path
  BY DEF Newest, Stored, ToSet
<1>4. Creates(w)' /\ Makes(w)' /\ Has(w)' /\ Held(w)' /\ Marks(w)'
  BY DEF Creates, Makes, Has, Held, Marks, HadLabels, WriteLabels, EvictLabels
<1>5. Finds(w)' /\ Knows(w)'
  BY <1>1, <1>2, <1>3 DEF Finds, Knows, File, Req
<1>6. Relies(w)'
  BY <1>4, <1>5 DEF Relies
<1>7. frame'[w].req.client = Client(w) /\ Polite(w)
  BY <1>2, MutexPolite DEF Client
<1>8. QED  BY <1>6, <1>7, FilesStep

\* openFile did not find the path: it is not there (server.c:708).
LEMMA NotThereStep ==
  ASSUME Undisputed, IInv, SInv, NEW w \in Workers, pc[w] = "Open", Own(w),
         Newest(Req(w).path) = {}, Req(w).create, Goto(w, "OpenCreate"),
         UNCHANGED <<table, heap, obj, mutex, frame>>
  PROVE  Moved(w)
<1>1. pc'[w] = "OpenCreate"
  BY DEF IInv, TypeOK, Goto
<1>2. NoEntry(Req(w).path)
  BY NothingNewest DEF IInv, TypeOK
<1>3. Creates(w)'
  BY <1>2 DEF SInv, Relies, Creates, NoEntry, Req
<1>4. Makes(w)' /\ Finds(w)' /\ Has(w)' /\ Knows(w)' /\ Held(w)' /\ Marks(w)'
  BY <1>1
     DEF Makes, Finds, Has, Knows, Held, Marks, HadLabels, FoundLabels, WriteLabels,
         EvictLabels
<1>5. Relies(w)'
  BY <1>3, <1>4 DEF Relies
<1>6. frame'[w].req.client = Client(w) /\ Polite(w)
  BY MutexPolite DEF Client
<1>7. QED  BY <1>5, <1>6, FilesStep

\* A file that nobody has is given to the client, whether or not it is still
\* stored (server.c:722); a file is given back by who has it (server.c:803).
LEMMA GiveStep ==
  ASSUME Undisputed, IInv, SInv, NEW w \in Workers,
         pc[w] \in {"OpenFound", "CloseFound"}, Own(w), Return(w),
         UNCHANGED <<table, heap, mutex>>,
         NEW c, obj' = [obj EXCEPT ![File(w)].client = c],
         \/ obj[File(w)].client = NoClient /\ c = Client(w)
         \/ obj[File(w)].client = Client(w) /\ c = NoClient
  PROVE  Moved(w)
<1>1. pc'[w] = "idle" /\ File(w) \in Objs /\ obj \in [Objs -> FileData] /\ TypeOK
  BY DEF IInv, TypeOK, Return, LocalsOK, LocalsAt, FileUse, Labels, File
<1>2. PathsStay
  BY <1>1, FieldsKeepPaths
<1>3. \A o \in Objs : obj'[o].client = IF o = File(w) THEN c ELSE obj[o].client
  BY <1>1 DEF FileData
<1>4. heap \subseteq Objs /\ Stored \subseteq Objs /\ Client(w) \notin {NoClient, Evicted}
      /\ NoClient \notin Clients /\ NoClient # Evicted
  BY <1>1, TableObjs, TheirClients, FileServerAssumption DEF TypeOK, Stored, NoClient, Evicted
<1>5. Polite(w)
  BY MutexPolite
<1>6. QED  BY <1>1, <1>2, <1>3, <1>4, <1>5, IdleRelies, FieldsStep

\* The bytes of a file are replaced by who has it.
LEMMA StoreBytesStep ==
  ASSUME Undisputed, IInv, SInv, NEW w \in Workers, WriteStore(w), Own(w)
  PROVE  Moved(w)
<1>1. /\ pc[w] = "WriteStore" /\ Return(w) /\ UNCHANGED <<table, heap>>
      /\ obj' = [obj EXCEPT ![File(w)].data = Written(w, Req(w).data)]
      /\ mutex' = Unlocked(File(w))
  BY DEF WriteStore, Reply
<1>2. pc'[w] = "idle" /\ File(w) \in Objs /\ obj \in [Objs -> FileData] /\ TypeOK
  BY <1>1 DEF IInv, TypeOK, Return, LocalsOK, LocalsAt, FileUse, Labels, File
<1>3. PathsStay
  BY <1>1, <1>2, FieldsKeepPaths
<1>4. \A o \in Objs : obj'[o].client = obj[o].client
  BY <1>1, <1>2 DEF FileData
<1>5. heap \subseteq Objs /\ Stored \subseteq Objs
  BY <1>2, TableObjs DEF TypeOK, Stored
<1>6. Polite(w)
  BY <1>1, MutexPolite DEF HadLabels, WriteLabels
<1>7. QED  BY <1>1, <1>2, <1>3, <1>4, <1>5, <1>6, IdleRelies, FieldsStep

\* The victim of an eviction is stored, and not the file that is written,
\* which is locked, nor one that another client has open.
LEMMA VictimStep ==
  ASSUME Undisputed, IInv, SInv, NEW w \in Workers, EvictTake(w), Own(w)
  PROVE  Moved(w)
<1>1. PICK o \in frame[w].todo :
        /\ Evictable(o, Client(w)) /\ obj' = [obj EXCEPT ![o].client = Evicted]
        /\ frame' = [frame EXCEPT ![w].todo = @ \ {o}, ![w].vic = o,
                                  ![w].need = StillNeeded(@, o)]
  BY DEF EvictTake
<1>2. /\ pc[w] = "Evict" /\ pc'[w] = "EvictUnlink" /\ UNCHANGED <<table, heap, mutex>>
      /\ TypeOK /\ obj \in [Objs -> FileData] /\ heap \subseteq Objs
  BY DEF EvictTake, Goto, IInv, TypeOK
<1>3. o \in Objs /\ o \in heap /\ mutex[o] = NoWorker /\ obj[o].client \in {NoClient, Client(w)}
  BY <1>1, <1>2 DEF Evictable
<1>4. storMutex = w
  BY <1>2 DEF IInv, Exclusive, StorageLabels, EvictLabels
<1>5. o \in Stored
  <2>1. \A v \in Workers : pc[v] # "OpenInsert"
    BY <1>2, <1>4 DEF IInv, Exclusive, StorageLabels
  <2>2. QED  BY <1>3, <2>1 DEF SInv, Allocated
<1>6. File(w) \in Stored /\ mutex[File(w)] = w /\ w # NoWorker
  BY <1>2, FileServerAssumption
     DEF SInv, Relies, Has, Held, HadLabels, WriteLabels, EvictLabels
<1>7. o # File(w)
  BY <1>3, <1>6
<1>8. PathsStay
  BY <1>1, <1>2, <1>3, FieldsKeepPaths
<1>9. \A f \in Objs : obj'[f].client = IF f = o THEN Evicted ELSE obj[f].client
  BY <1>1, <1>2 DEF FileData
<1>10. /\ frame'[w].ptr = frame[w].ptr /\ frame'[w].req = frame[w].req
       /\ frame'[w].vic = o
  BY <1>1, <1>2 DEF TypeOK, Frame
<1>11. Stored' = Stored /\ Stored \subseteq Objs /\ NoClient \notin Clients
  BY <1>2, TableObjs, FileServerAssumption DEF Stored, NoClient
<1>12. Creates(w)' /\ Makes(w)' /\ Finds(w)' /\ Marks(w)'
  BY <1>2, <1>3, <1>5, <1>9, <1>10, <1>11 DEF Creates, Makes, Finds, Marks
<1>13. Has(w)' /\ Knows(w)' /\ Held(w)'
  BY <1>2, <1>6, <1>7, <1>8, <1>9, <1>10, <1>11
     DEF SInv, Relies, Has, Knows, Held, HadLabels, FoundLabels, WriteLabels, EvictLabels,
         PathsStay, File, Req, Client
<1>14. Relies(w)' /\ frame'[w].req.client = Client(w) /\ Polite(w)
  BY <1>2, <1>10, <1>12, <1>13, MutexPolite DEF Relies, Client
<1>15. QED  BY <1>2, <1>3, <1>4, <1>8, <1>9, <1>11, <1>14, FieldsStep

-----------------------------------------------------------------------------
(* Steps that change the table.                                            *)

\* malloc gives openFile an object that nobody uses.
LEMMA MallocStep ==
  ASSUME Undisputed, IInv, SInv, NEW w \in Workers, pc[w] = "OpenCreate", Own(w),
         storMutex = NoWorker, NEW o \in Objs \ heap, heap' = heap \cup {o},
         obj' = [obj EXCEPT ![o] = [Unused EXCEPT !.client = Client(w)]],
         mutex' = [mutex EXCEPT ![o] = NoWorker],
         frame' = [frame EXCEPT ![w].ptr = o], Goto(w, "OpenInsert"), table' = table
  PROVE  Moved(w)
<1>1. /\ TypeOK /\ obj \in [Objs -> FileData] /\ heap \subseteq Objs
      /\ mutex \in [Objs -> Workers \cup {NoWorker}] /\ w # NoWorker
  BY FileServerAssumption DEF IInv, TypeOK
<1>2. pc'[w] = "OpenInsert" /\ frame'[w].ptr = o /\ frame'[w].req = frame[w].req
  BY <1>1 DEF TypeOK, Frame, Goto
<1>3. Stored' = Stored /\ Stored \subseteq heap /\ o \notin Stored
  BY DEF Stored, SInv, Allocated
<1>4. obj'[o].client = Client(w) /\ \A f \in Objs \ {o} : obj'[f] = obj[f]
  BY <1>1 DEF Unused
<1>5. \A f \in heap : f \in Objs \ {o} /\ mutex'[f] = mutex[f]
  BY <1>1
<1>6. Mild(w)
  BY <1>1, <1>3, <1>4, <1>5 DEF Mild
<1>7. UniquePaths'
  <2>1. \A i \in DOMAIN table : table[i] \in Stored
    BY DEF Stored, ToSet
  <2>2. \A i \in DOMAIN table : obj'[table[i]] = obj[table[i]]
    <3> TAKE i \in DOMAIN table
    <3>1. table[i] \in Objs \ {o}
      BY <1>3, <1>5, <2>1
    <3>2. QED  BY <1>4, <3>1
  <2>3. \A i, j \in DOMAIN table : obj[table[i]].path = obj[table[j]].path => i = j
    BY DEF SInv, UniquePaths
  <2>4. \A i, j \in DOMAIN table : obj'[table[i]].path = obj'[table[j]].path => i = j
    <3> TAKE i, j \in DOMAIN table
    <3>1. obj'[table[i]] = obj[table[i]] /\ obj'[table[j]] = obj[table[j]]
      BY <2>2
    <3>2. QED  BY <2>3, <3>1, ZenonT(60)
  <2>5. QED  BY <2>4 DEF UniquePaths
<1>8. Allocated'
  <2>1. ASSUME NEW f \in heap' \ Stored'
        PROVE  \E v \in Workers : pc'[v] = "OpenInsert" /\ f = frame'[v].ptr
    <3>1. CASE f = o
      BY <1>2, <3>1
    <3>2. CASE f # o
      <4>1. PICK v \in Workers : pc[v] = "OpenInsert" /\ f = File(v)
        BY <1>3, <2>1, <3>2 DEF SInv, Allocated
      <4>2. v \in Workers \ {w}
        BY <4>1
      <4>3. QED  BY <4>1, <4>2 DEF Own, File
    <3>3. QED  BY <3>1, <3>2
  <2>2. QED  BY <1>3, <2>1 DEF Allocated, File
<1>9. Creates(w)'
  <2>1. NoEntry(Req(w).path)'
    <3>1. \A f \in Stored : obj[f].path # Req(w).path
      BY DEF SInv, Relies, Creates, NoEntry, Stored, ToSet
    <3>2. \A f \in Stored' : obj'[f].path # Req(w).path
      BY <1>3, <1>4, <1>5, <3>1
    <3>3. QED  BY <1>2, <3>2 DEF NoEntry, Stored, ToSet, Req
  <2>2. QED  BY <1>2, <2>1 DEF SInv, Relies, Creates, Req
<1>10. Makes(w)'
  BY <1>2, <1>3, <1>4 DEF Makes, File, Client
<1>11. Finds(w)' /\ Has(w)' /\ Knows(w)' /\ Held(w)' /\ Marks(w)'
  BY <1>2
     DEF Finds, Has, Knows, Held, Marks, HadLabels, FoundLabels, WriteLabels, EvictLabels
<1>12. Relies(w)' /\ frame'[w].req.client = Client(w)
  BY <1>2, <1>9, <1>10, <1>11 DEF Relies, Client
<1>13. QED  BY <1>6, <1>7, <1>8, <1>12, TheMover

\* The new file enters the table, under a path that is still not there.
LEMMA EnterStep ==
  ASSUME Undisputed, IInv, SInv, NEW w \in Workers, OpenInsert(w), Own(w)
  PROVE  Moved(w)
<1> DEFINE f == File(w)
           p == Req(w).path
<1>1. /\ pc[w] = "OpenInsert" /\ pc'[w] = "OpenStore" /\ table' = Inserted(f)
      /\ UNCHANGED <<heap, mutex>> /\ obj' = [obj EXCEPT ![f].path = p]
      /\ frame' = [frame EXCEPT ![w].tmp = (currBytes + Size(f)) % SizeMod]
  <2>1. pc[w] = "OpenInsert" /\ ~FilesFull
    BY FileServerAssumption DEF OpenInsert, IInv, Room, FilesFull, TypeOK
  <2>2. QED  BY <2>1 DEF OpenInsert, Goto, IInv, TypeOK
<1>2. /\ TypeOK /\ obj \in [Objs -> FileData] /\ heap \subseteq Objs /\ f \in Objs
      /\ table \in Seq(Objs) /\ storMutex = w
  BY <1>1 DEF IInv, TypeOK, LocalsOK, LocalsAt, FileUse, Labels, Exclusive, StorageLabels, File
<1>3. /\ f \in heap /\ f \notin Stored /\ obj[f].client = Client(w) /\ Stored \subseteq heap
      /\ \A o \in Stored : obj[o].path # p
  BY <1>1 DEF SInv, Relies, Makes, Creates, NoEntry, Allocated, Stored, ToSet
<1>4. Stored' = Stored \cup {f}
  BY <1>1, <1>2, InsertedEntries DEF Stored
<1>5. /\ obj'[f].path = p /\ obj'[f].client = Client(w)
      /\ \A o \in Objs \ {f} : obj'[o] = obj[o]
  BY <1>1, <1>2, <1>3 DEF FileData
<1>6. frame'[w].ptr = f /\ frame'[w].req = frame[w].req
  BY <1>1, <1>2 DEF TypeOK, Frame, File
<1>7. Mild(w)
  BY <1>1, <1>2, <1>3, <1>4, <1>5 DEF Mild
<1>8. UniquePaths'
  <2> DEFINE N == Len(table)
  <2>1. /\ DOMAIN table = 1..N /\ N \in Nat /\ DOMAIN table' = 1..(N + 1) /\ table'[1] = f
        /\ \A j \in 1..N : table'[j + 1] = table[j]
    BY <1>1, <1>2, InsertedEntries
  <2>2. \A i \in 1..(N + 1) : i = 1 \/ (i - 1 \in 1..N /\ table'[i] = table[i - 1])
    <3> TAKE i \in 1..(N + 1)
    <3>1. i = 1 \/ (i - 1 \in 1..N /\ (i - 1) + 1 = i)
      BY <2>1
    <3>2. QED  BY <2>1, <3>1
  <2>3. \A j \in 1..N : table[j] \in Stored /\ obj'[table[j]] = obj[table[j]]
    BY <1>2, <1>3, <1>5, <2>1, TableObjs DEF Stored, ToSet
  <2>4. \A i, j \in 1..N : obj[table[i]].path = obj[table[j]].path => i = j
    BY <2>1 DEF SInv, UniquePaths
  <2> SUFFICES ASSUME NEW i \in 1..(N + 1), NEW j \in 1..(N + 1),
                      obj'[table'[i]].path = obj'[table'[j]].path
               PROVE  i = j
    BY <2>1 DEF UniquePaths
  <2> HIDE DEF N, f, p
  <2>5. CASE i = 1 \/ j = 1
    BY <1>3, <1>5, <2>1, <2>2, <2>3, <2>5
  <2>6. CASE i # 1 /\ j # 1
    <3>1. i - 1 \in 1..N /\ j - 1 \in 1..N /\ table'[i] = table[i - 1]
          /\ table'[j] = table[j - 1]
      BY <2>2, <2>6
    <3>2. obj[table[i - 1]].path = obj[table[j - 1]].path
      BY <2>3, <3>1
    <3>3. i - 1 = j - 1
      BY <2>4, <3>1, <3>2
    <3>4. QED  BY <2>1, <3>3
  <2>7. QED  BY <2>5, <2>6
<1>9. Allocated'
  <2>1. ASSUME NEW o \in heap' \ Stored' PROVE FALSE
    <3>1. PICK v \in Workers : pc[v] = "OpenInsert" /\ o = File(v)
      BY <1>1, <1>4, <2>1 DEF SInv, Allocated
    <3>2. v = w
      BY <1>2, <3>1 DEF IInv, Exclusive, StorageLabels
    <3>3. QED  BY <1>4, <2>1, <3>1, <3>2
  <2>2. QED  BY <1>1, <1>3, <1>4, <2>1 DEF Allocated
<1>10. Has(w)' /\ Knows(w)'
  BY <1>4, <1>5, <1>6 DEF Has, Knows, File, Req, Client
<1>11. Creates(w)' /\ Makes(w)' /\ Finds(w)' /\ Held(w)' /\ Marks(w)'
  BY <1>1 DEF Creates, Makes, Finds, Held, Marks, WriteLabels, EvictLabels
<1>12. Relies(w)' /\ frame'[w].req.client = Client(w)
  BY <1>6, <1>10, <1>11 DEF Relies, Client
<1>13. QED  BY <1>1, <1>7, <1>8, <1>9, <1>12, TheMover

\* A file that is marked, or open by the client, leaves the table.
LEMMA LeaveStep ==
  ASSUME Undisputed, IInv, SInv, NEW w \in Workers, NEW i \in DOMAIN table,
         pc[w] \notin {"idle", "OpenInsert"}, Own(w), storMutex = w, UNCHANGED <<obj, mutex>>,
         table' = Unlinked(i), heap' = heap \ {table[i]},
         obj[table[i]].client \in {Evicted, Client(w)}
  PROVE  Mild(w) /\ UniquePaths' /\ Allocated' /\ Stored' = Stored \ {table[i]}
<1>1. UniquePaths' /\ Stored' = Stored \ {table[i]}
  <2>1. table \in Seq(Objs) /\ UniquePaths
    BY DEF IInv, TypeOK, SInv
  <2>2. /\ ToSet(table') = Stored \ {table[i]}
        /\ \A j, k \in DOMAIN table' :
             obj[table'[j]].path = obj[table'[k]].path => j = k
    BY <2>1, UnlinkedStored
  <2>3. QED  BY <2>2 DEF UniquePaths, Stored
<1>2. Evicted \notin Clients
  BY FileServerAssumption DEF Evicted
<1>3. Mild(w)
  BY <1>1, <1>2 DEF Mild
<1>4. Allocated'
  <2>1. ASSUME NEW o \in heap' \ Stored'
        PROVE  \E v \in Workers : pc'[v] = "OpenInsert" /\ o = frame'[v].ptr
    <3>1. PICK v \in Workers : pc[v] = "OpenInsert" /\ o = File(v)
      BY <1>1, <2>1 DEF SInv, Allocated
    <3>2. v \in Workers \ {w}
      BY <3>1
    <3>3. QED  BY <3>1, <3>2 DEF Own, File
  <2>2. QED  BY <1>1, <2>1 DEF SInv, Allocated, File
<1>5. QED  BY <1>1, <1>3, <1>4

\* The entry that is unlinked for a victim is the victim's.
LEMMA VictimGoesStep ==
  ASSUME Undisputed, IInv, SInv, NEW w \in Workers, EvictUnlink(w), Own(w)
  PROVE  Moved(w)
<1>1. PICK i \in DOMAIN table :
        /\ obj[table[i]].path = obj[frame[w].vic].path
        /\ table' = Unlinked(i) /\ heap' = heap \ {table[i]}
        /\ frame' = [frame EXCEPT ![w].tmp = Lowered(Size(table[i]))]
  BY DEF EvictUnlink, Unlink, Newest
<1>2. /\ pc[w] = "EvictUnlink" /\ pc'[w] = "EvictStore" /\ UNCHANGED <<obj, mutex>>
      /\ storMutex = w
  BY DEF EvictUnlink, Goto, IInv, TypeOK, Exclusive, StorageLabels, EvictLabels
<1>3. frame[w].vic \in Stored /\ obj[frame[w].vic].client = Evicted
  BY <1>2 DEF SInv, Relies, Marks
<1>4. table[i] = frame[w].vic
  BY <1>1, <1>3 DEF SInv, UniquePaths, Stored, ToSet
<1>5. Mild(w) /\ UniquePaths' /\ Allocated' /\ Stored' = Stored \ {table[i]}
  BY <1>1, <1>2, <1>3, <1>4, LeaveStep
<1>6. frame'[w].ptr = frame[w].ptr /\ frame'[w].req = frame[w].req
  BY <1>1 DEF IInv, TypeOK, Frame
<1>7. File(w) \in Stored /\ obj[File(w)].client = Client(w) /\ Client(w) # Evicted
  BY <1>2, TheirClients DEF SInv, Relies, Has, HadLabels, WriteLabels, EvictLabels
<1>8. File(w) \in Stored'
  BY <1>3, <1>4, <1>5, <1>7
<1>9. Has(w)' /\ Knows(w)' /\ Held(w)'
  BY <1>2, <1>6, <1>7, <1>8
     DEF SInv, Relies, Has, Knows, Held, HadLabels, FoundLabels, WriteLabels, EvictLabels,
         File, Req, Client
<1>10. Creates(w)' /\ Makes(w)' /\ Finds(w)' /\ Marks(w)'
  BY <1>2 DEF Creates, Makes, Finds, Marks
<1>11. Relies(w)' /\ frame'[w].req.client = Client(w)
  BY <1>6, <1>9, <1>10 DEF Relies, Client
<1>12. QED  BY <1>2, <1>5, <1>11, TheMover

\* removeFile removes the file that its client has open, if any.
LEMMA RemovedStep ==
  ASSUME Undisputed, "other" \notin FreedKey, IInv, SInv, NEW w \in Workers,
         RemoveUnlink(w), Own(w)
  PROVE  Moved(w)
<1>1. PICK i \in DOMAIN table :
        /\ obj[table[i]].path = Req(w).path
        /\ table' = Unlinked(i) /\ heap' = heap \ {table[i]}
        /\ frame' = [frame EXCEPT ![w].tmp = Lowered(Size(table[i]))]
  <2>1. PICK key \in FreedKey : \E i \in Victims(w, key) : Unlink(w, i)
    BY DEF RemoveUnlink
  <2>2. Victims(w, key) \subseteq Newest(Req(w).path)
    BY <2>1 DEF Victims
  <2>3. QED  BY <2>1, <2>2 DEF Unlink, Newest
<1>2. /\ pc[w] = "RemoveUnlink" /\ pc'[w] = "RemoveStore" /\ UNCHANGED <<obj, mutex>>
      /\ storMutex = w
  BY DEF RemoveUnlink, Goto, IInv, TypeOK, Exclusive, StorageLabels
<1>3. File(w) \in Stored /\ obj[File(w)].path = Req(w).path /\ obj[File(w)].client = Client(w)
  BY <1>2 DEF SInv, Relies, Has, Knows, HadLabels, FoundLabels
<1>4. table[i] = File(w)
  BY <1>1, <1>3 DEF SInv, UniquePaths, Stored, ToSet
<1>5. Mild(w) /\ UniquePaths' /\ Allocated'
  BY <1>1, <1>2, <1>3, <1>4, LeaveStep
<1>6. frame'[w].req = frame[w].req
  BY <1>1 DEF IInv, TypeOK, Frame
<1>7. Relies(w)'
  BY <1>2
     DEF Relies, Creates, Makes, Finds, Has, Knows, Held, Marks, HadLabels, FoundLabels,
         WriteLabels, EvictLabels
<1>8. QED  BY <1>2, <1>5, <1>6, <1>7, TheMover DEF Client

\* A step of a worker's handler leaves the others where they are.
LEMMA OwnStep ==
  ASSUME TypeOK, NEW w \in Workers, Receive(w) \/ Handle(w)
  PROVE  Own(w)
<1>1. \A v \in Workers \ {w} : pc'[v] = pc[v]
  BY OthersStay
<1>2. frame' = frame \/ \E f : frame' = [frame EXCEPT ![w] = f]
  <2>1. Receive(w) \/ ServeNothing(w) \/ OpenLookup(w) \/ OpenFound(w) \/ OpenCreate(w)
          \/ OpenInsert(w) \/ OpenStore(w) \/ CloseLookup(w) \/ CloseFound(w)
          \/ ReadLookup(w) \/ ReadFound(w) \/ ReadSend(w) =>
        frame' = frame \/ \E f : frame' = [frame EXCEPT ![w] = f]
    BY DEF Receive, ServeNothing, OpenLookup, OpenFound, OpenCreate, OpenInsert,
           OpenStore, CloseLookup, CloseFound, ReadLookup, ReadFound, ReadSend, Find,
           Reply, Return
  <2>2. ReadNLock(w) \/ ReadNFile(w) \/ ReadNEnd(w) \/ WriteLock(w) \/ WriteOwner(w)
          \/ WriteLen(w) \/ WriteData(w) \/ WriteBroken(w) \/ WriteLoad(w) \/ WriteStore(w) =>
        frame' = frame \/ \E f : frame' = [frame EXCEPT ![w] = f]
    BY DEF ReadNLock, ReadNFile, ReadNEnd, WriteLock, WriteOwner, WriteLen, WriteData,
           WriteBroken, WriteLoad, WriteStore, Reply, Return
  <2>3. EvictStart(w) \/ EvictAsk(w) \/ EvictSkip(w) \/ EvictTake(w) \/ EvictAbort(w)
          \/ EvictUnlink(w) \/ EvictStore(w) \/ EvictEnd(w) =>
        frame' = frame \/ \E f : frame' = [frame EXCEPT ![w] = f]
    BY DEF EvictStart, EvictAsk, EvictSkip, EvictTake, EvictAbort, EvictUnlink,
           EvictStore, EvictEnd, Unlink, Reply, Return
  <2>4. RemoveLock(w) \/ RemoveOwner(w) \/ RemoveUnlink(w) \/ RemoveStore(w)
          \/ RemoveMissed(w) =>
        frame' = frame \/ \E f : frame' = [frame EXCEPT ![w] = f]
    BY DEF RemoveLock, RemoveOwner, RemoveUnlink, RemoveStore, RemoveMissed, Unlink,
           Reply, Return
  <2>5. QED  BY <2>1, <2>2, <2>3, <2>4 DEF Handle
<1>3. \A v \in Workers \ {w} : frame'[v] = frame[v]
  BY <1>2 DEF TypeOK
<1>4. QED  BY <1>1, <1>3 DEF Own

\* Every step of a handler is a step of a worker that is not idle.
LEMMA HandleBusy ==
  ASSUME NEW w \in Workers, Handle(w)
  PROVE  pc[w] # "idle"
<1>1. ServeNothing(w) \/ OpenLookup(w) \/ OpenFound(w) \/ OpenCreate(w) \/ OpenInsert(w)
        \/ OpenStore(w) \/ CloseLookup(w) \/ CloseFound(w) \/ ReadLookup(w) \/ ReadFound(w)
        \/ ReadSend(w) \/ ReadNLock(w) \/ ReadNFile(w) \/ ReadNEnd(w) => pc[w] # "idle"
  BY DEF ServeNothing, OpenLookup, OpenFound, OpenCreate, OpenInsert, OpenStore,
         CloseLookup, CloseFound, ReadLookup, ReadFound, ReadSend, ReadNLock, ReadNFile,
         ReadNEnd, Find
<1>2. WriteLock(w) \/ WriteOwner(w) \/ WriteLen(w) \/ WriteData(w) \/ WriteBroken(w)
        \/ WriteLoad(w) \/ WriteStore(w) \/ EvictStart(w) \/ EvictAsk(w) \/ EvictSkip(w)
        \/ EvictTake(w) \/ EvictAbort(w) \/ EvictUnlink(w) \/ EvictStore(w)
        \/ EvictEnd(w) => pc[w] # "idle"
  BY DEF WriteLock, WriteOwner, WriteLen, WriteData, WriteBroken, WriteLoad, WriteStore,
         EvictStart, EvictAsk, EvictSkip, EvictTake, EvictAbort, EvictUnlink, EvictStore,
         EvictEnd
<1>3. RemoveLock(w) \/ RemoveOwner(w) \/ RemoveUnlink(w) \/ RemoveStore(w)
        \/ RemoveMissed(w) => pc[w] # "idle"
  BY DEF RemoveLock, RemoveOwner, RemoveUnlink, RemoveStore, RemoveMissed
<1>4. QED  BY <1>1, <1>2, <1>3 DEF Handle

\* What the others rely on depends on the storage and on their locals only.
LEMMA RelyingStays ==
  ASSUME UNCHANGED <<table, heap, obj, mutex>>, NEW v \in Workers,
         pc'[v] = pc[v], frame'[v] = frame[v], Relies(v)
  PROVE  Relies(v)'
<1>1. Stored' = Stored /\ UNCHANGED <<Req(v), Client(v), File(v)>>
  BY DEF Stored, Req, Client, File
<1>2. Creates(v)' /\ Makes(v)' /\ Finds(v)'
  BY <1>1 DEF Relies, Creates, NoEntry, Makes, Finds
<1>3. Has(v)' /\ Knows(v)' /\ Held(v)' /\ Marks(v)'
  BY <1>1 DEF Relies, Has, Knows, Held, Marks
<1>4. QED  BY <1>2, <1>3 DEF Relies

\* A worker takes a request of a client that no other worker is serving.
LEMMA TakesStep ==
  ASSUME IInv, SInv, NEW w \in Workers, Receive(w)
  PROVE  SInv'
<1>1. PICK r \in Requests :
        /\ ~InService(r.client) /\ Goto(w, Entry(r.op))
        /\ frame' = [frame EXCEPT ![w].req = r]
  BY DEF Receive
<1>2. Own(w) /\ UNCHANGED <<table, heap, obj, mutex>> /\ pc[w] = "idle"
  BY OwnStep DEF Receive, store, IInv
<1>3. pc'[w] = Entry(r.op) /\ frame'[w].req = r /\ r \in Request
  BY <1>1, FileServerAssumption DEF IInv, TypeOK, Frame, Goto
<1>4. Stored' = Stored /\ UniquePaths'
  BY <1>2 DEF SInv, Stored, UniquePaths
<1>5. \A v \in Workers \ {w} : Relies(v)'
  BY <1>2, RelyingStays DEF SInv, Own
<1>6. Relies(w)'
  <2>1. pc'[w] \in {"Open", "Close", "Read", "ReadN", "Write", "Remove", "Nothing"}
        /\ (pc'[w] = "Open" => r.op = "OPEN")
    BY <1>3 DEF Entry, Request, Ops
  <2>2. Creates(w)'
    BY <1>3, <2>1 DEF Creates, Req
  <2>3. QED
    BY <2>1, <2>2
       DEF Relies, Makes, Finds, Has, Knows, Held, Marks, HadLabels, FoundLabels,
           WriteLabels, EvictLabels
<1>7. Apart'
  <2> SUFFICES ASSUME NEW u \in Workers, NEW v \in Workers, u # v,
                      pc'[u] # "idle", pc'[v] # "idle"
               PROVE  frame'[u].req.client # frame'[v].req.client
    BY DEF Apart, Client
  <2>1. \A x \in {u, v} \ {w} : pc[x] # "idle" /\ frame'[x].req.client = Client(x)
                               /\ Client(x) # r.client
    BY <1>1, <1>2 DEF Own, Client, InService
  <2>2. CASE w \in {u, v}
    BY <1>3, <2>1, <2>2
  <2>3. CASE w \notin {u, v}
    BY <2>1, <2>3 DEF SInv, Apart
  <2>4. QED  BY <2>2, <2>3
<1>8. Allocated'
  <2>1. ASSUME NEW o \in heap' \ Stored'
        PROVE  \E v \in Workers : pc'[v] = "OpenInsert" /\ o = frame'[v].ptr
    <3>1. PICK v \in Workers : pc[v] = "OpenInsert" /\ o = File(v)
      BY <1>2, <1>4, <2>1 DEF SInv, Allocated
    <3>2. v \in Workers \ {w}
      BY <1>2, <3>1
    <3>3. QED  BY <1>2, <3>1, <3>2 DEF Own, File
  <2>2. QED  BY <1>2, <1>4, <2>1 DEF SInv, Allocated, File
<1>9. QED  BY <1>4, <1>5, <1>6, <1>7, <1>8 DEF SInv

\* One step for each action of a handler: one that has seen that the file is its
\* client's reads, writes or removes it; one that has seen that it is not returns.
LEMMA HandleShared ==
  ASSUME Undisputed, "other" \notin FreedKey, IInv, SInv, NEW w \in Workers, Handle(w)
  PROVE  Moved(w)
<1>0. /\ TypeOK /\ pc \in [Workers -> Labels] /\ frame \in [Workers -> Frame]
      /\ mutex \in [Objs -> Workers \cup {NoWorker}] /\ heap \subseteq Objs
      /\ Own(w)
  BY OwnStep DEF IInv, TypeOK
<1>1. \A l : Goto(w, l) => pc'[w] = l
  BY <1>0 DEF Goto
<1>2. frame' = frame => SameJob(w)
  BY DEF SameJob
<1>3. /\ pc[w] \in HadLabels => File(w) \in Stored /\ obj[File(w)].client = Client(w)
      /\ pc[w] \in WriteLabels => mutex[File(w)] = w
      /\ File(w) \in Stored => File(w) \in heap
  BY DEF SInv, Relies, Has, Held, Allocated
<1>4. WriteLabels \subseteq HadLabels /\ WriteLabels \subseteq FoundLabels
  BY DEF HadLabels, FoundLabels
<1>m. ASSUME \/ mutex' = mutex
             \/ CanLock(File(w)) /\ mutex' = LockedBy(w, File(w))
             \/ pc[w] \in HadLabels /\ mutex' = Unlocked(File(w)),
             pc[w] # "idle"
      PROVE  Polite(w)
  BY <1>m, MutexPolite
<1>r. ASSUME Return(w), pc[w] \notin {"idle", "OpenInsert"}, UNCHANGED <<table, heap, obj>>,
             Polite(w)
      PROVE  Moved(w)
  BY <1>r, <1>0, ReturnsStep
<1>f. ASSUME UNCHANGED <<table, heap, obj, mutex>>, pc[w] \notin {"idle", "OpenInsert"},
             NEW i \in Newest(Req(w).path), frame' = [frame EXCEPT ![w].ptr = table[i]],
             pc'[w] \in {"OpenFound", "CloseFound", "ReadFound", "WriteOwner", "RemoveOwner"}
      PROVE  Moved(w)
  BY <1>f, <1>0, FoundFileStep
<1>g. ASSUME SameJob(w), pc[w] \notin {"idle", "OpenInsert"}, UNCHANGED <<table, heap, obj>>,
             Polite(w),
             pc'[w] \notin {"Open", "OpenCreate", "OpenInsert", "EvictUnlink", "ReadFound",
                            "CloseFound"},
             pc'[w] \in HadLabels => File(w) \in Stored /\ obj[File(w)].client = Client(w),
             pc'[w] \in FoundLabels => pc[w] \in FoundLabels,
             pc'[w] \in WriteLabels => mutex'[File(w)] = w
      PROVE  Moved(w)
  BY <1>g, <1>0, GoesOnStep
<1>k. ASSUME SameJob(w), pc[w] \in WriteLabels, UNCHANGED <<table, heap, obj, mutex>>,
             pc'[w] \in WriteLabels \ {"EvictUnlink"}
      PROVE  Moved(w)
  <2>1. pc[w] \notin {"idle", "OpenInsert"}
        /\ pc'[w] \notin {"Open", "OpenCreate", "OpenInsert", "EvictUnlink", "ReadFound",
                          "CloseFound"}
    BY <1>k DEF WriteLabels, EvictLabels
  <2>2. QED  BY <1>k, <2>1, <1>3, <1>4, <1>m, <1>g
<1> USE DEF WriteLabels, EvictLabels
<1>10. ASSUME ServeNothing(w) \/ OpenStore(w) \/ ReadNEnd(w) \/ RemoveStore(w)
              \/ RemoveMissed(w)
       PROVE  Moved(w)
  BY <1>10, <1>m, <1>r
     DEF ServeNothing, OpenStore, ReadNEnd, RemoveStore, RemoveMissed, Reply, store
<1>11. ASSUME ReadSend(w) \/ WriteBroken(w) PROVE Moved(w)
  BY <1>11, <1>m, <1>r DEF ReadSend, WriteBroken, HadLabels
<1>12. ASSUME EvictAbort(w) PROVE Moved(w)
  <2>1. PICK o \in frame[w].todo :
          Evictable(o, Client(w)) /\ mutex' = [Unlocked(File(w)) EXCEPT ![o] = w]
    BY <1>12 DEF EvictAbort
  <2>2. pc[w] = "Evict" /\ Return(w) /\ UNCHANGED <<table, heap, obj>>
    BY <1>12 DEF EvictAbort
  <2>3. obj[File(w)].client = Client(w)
    BY <2>2, <1>3 DEF HadLabels
  <2>4. Polite(w)
    BY <1>0, <2>1, <2>3 DEF Polite, Unlocked, Evictable
  <2>5. QED  BY <2>2, <2>4, <1>r
<1>13. ASSUME OpenLookup(w) PROVE Moved(w)
  <2>1. CASE Return(w)
    BY <1>13, <2>1, <1>m, <1>r DEF OpenLookup, store
  <2>2. CASE Goto(w, "OpenFound") /\ ~Return(w)
    BY <1>13, <2>2, <1>0, <1>1, <1>f DEF OpenLookup, store, Goto, Reply
  <2>3. CASE /\ Newest(Req(w).path) = {} /\ Req(w).create /\ Goto(w, "OpenCreate")
             /\ frame' = frame
    BY <1>13, <2>3, <1>0, NotThereStep DEF OpenLookup, store
  <2>4. QED  BY <1>13, <2>1, <2>2, <2>3 DEF OpenLookup, Reply
<1>14. ASSUME OpenFound(w) PROVE Moved(w)
  <2>1. /\ pc[w] = "OpenFound" /\ Return(w) /\ UNCHANGED <<table, heap, mutex>>
        /\ \/ /\ obj[File(w)].client = NoClient
              /\ obj' = [obj EXCEPT ![File(w)].client = Client(w)]
           \/ obj' = obj
    BY <1>14 DEF OpenFound, Grantable, Reply
  <2>2. CASE obj' = obj
    BY <2>1, <2>2, <1>m, <1>r
  <2>3. CASE obj' # obj
    BY <2>1, <2>3, <1>0, GiveStep
  <2>4. QED  BY <2>2, <2>3
<1>15. ASSUME CloseFound(w) PROVE Moved(w)
  <2>1. /\ pc[w] = "CloseFound" /\ Return(w) /\ UNCHANGED <<table, heap, mutex>>
        /\ \/ /\ obj[File(w)].client = Client(w)
              /\ obj' = [obj EXCEPT ![File(w)].client = NoClient]
           \/ obj' = obj
    BY <1>15 DEF CloseFound, Reply
  <2>2. CASE obj' = obj
    BY <2>1, <2>2, <1>m, <1>r
  <2>3. CASE obj' # obj
    BY <2>1, <2>3, <1>0, GiveStep
  <2>4. QED  BY <2>2, <2>3
<1>16. ASSUME OpenCreate(w) PROVE Moved(w)
  <2>1. CASE Return(w) /\ UNCHANGED store
    BY <1>16, <2>1, <1>m, <1>r DEF OpenCreate, store
  <2>2. CASE ~(Return(w) /\ UNCHANGED store)
    <3>1. PICK o \in Mallocable :
            /\ heap' = heap \cup {o} /\ table' = table /\ storMutex = NoWorker
            /\ obj' = [obj EXCEPT ![o] = [Unused EXCEPT !.client = Client(w)]]
            /\ mutex' = [mutex EXCEPT ![o] = NoWorker]
            /\ frame' = [frame EXCEPT ![w].ptr = o] /\ Goto(w, "OpenInsert")
            /\ pc[w] = "OpenCreate"
      BY <1>16, <2>2 DEF OpenCreate, Reply
    <3>2. o \in Objs \ heap
      BY DEF Mallocable
    <3>3. QED  BY <3>1, <3>2, <1>0, MallocStep
  <2>3. QED  BY <2>1, <2>2
<1>17. ASSUME OpenInsert(w) PROVE Moved(w)
  BY <1>17, <1>0, EnterStep
<1>18. ASSUME CloseLookup(w) \/ ReadLookup(w) PROVE Moved(w)
  <2>1. CASE Return(w)
    BY <1>18, <2>1, <1>m, <1>r DEF CloseLookup, ReadLookup, Find, store
  <2>2. CASE ~Return(w)
    BY <1>18, <2>2, <1>0, <1>1, <1>f DEF CloseLookup, ReadLookup, Find, store, Reply
  <2>3. QED  BY <2>1, <2>2
<1>19. ASSUME ReadFound(w) PROVE Moved(w)
  <2>1. pc[w] = "ReadFound" /\ UNCHANGED <<table, heap, obj>> /\ CanLock(File(w))
        /\ (mutex' = mutex \/ mutex' = LockedBy(w, File(w)))
    BY <1>19 DEF ReadFound
  <2>2. Polite(w)
    BY <2>1, <1>m
  <2>3. CASE Return(w)
    BY <2>1, <2>2, <2>3, <1>r
  <2>4. CASE ~Return(w)
    <3>1. obj[File(w)].client \in {0, Client(w)} /\ Goto(w, "ReadSend") /\ frame' = frame
      BY <1>19, <2>4 DEF ReadFound, Reply
    <3>2. File(w) \in Objs
      BY <2>1 DEF IInv, LocalsOK, LocalsAt, File, FileUse, Labels
    <3>3. obj[File(w)].client # 0
      <4>1. obj[File(w)].client \in Clients \cup {NoClient, Evicted}
        BY <1>0, <3>2 DEF TypeOK, FileData
      <4>2. 0 \notin Clients \cup {NoClient, Evicted}
        BY FileServerAssumption DEF NoClient, Evicted
      <4>3. QED  BY <4>1, <4>2
    <3>4. obj[File(w)].client = Client(w) /\ File(w) \in Stored
      BY <2>1, <3>1, <3>3 DEF SInv, Relies, Finds
    <3>5. QED  BY <2>1, <2>2, <3>1, <3>4, <1>1, <1>2, <1>g DEF FoundLabels
  <2>5. QED  BY <2>3, <2>4
<1>20. ASSUME ReadNLock(w) PROVE Moved(w)
  <2>1. SameJob(w)
    BY <1>20, <1>0 DEF ReadNLock, SameJob, Frame
  <2>2. QED
    BY <1>20, <2>1, <1>1, <1>m, <1>g DEF ReadNLock, HadLabels, FoundLabels
<1>21. ASSUME ReadNFile(w) PROVE Moved(w)
  <2>1. CASE Return(w)
    BY <1>21, <2>1, <1>m, <1>r DEF ReadNFile
  <2>2. CASE ~Return(w)
    <3>1. PICK o : /\ pc' = pc
                   /\ \/ frame' = [frame EXCEPT ![w].todo = @ \ {o}]
                      \/ frame' = [[frame EXCEPT ![w].todo = @ \ {o}] EXCEPT ![w].need = @ - 1]
      BY <1>21, <2>2 DEF ReadNFile
    <3>2. SameJob(w)
      BY <3>1, <1>0 DEF SameJob, Frame
    <3>3. QED
      BY <1>21, <3>1, <3>2, <1>m, <1>g DEF ReadNFile, HadLabels, FoundLabels
  <2>3. QED  BY <2>1, <2>2
<1>22. ASSUME WriteLock(w) \/ RemoveLock(w) PROVE Moved(w)
  <2>1. CASE Return(w)
    BY <1>22, <2>1, <1>m, <1>r DEF WriteLock, RemoveLock
  <2>2. CASE ~Return(w)
    BY <1>22, <2>2, <1>1, <1>f DEF WriteLock, RemoveLock, Reply
  <2>3. QED  BY <2>1, <2>2
<1>23. ASSUME WriteOwner(w) PROVE Moved(w)
  <2>1. pc[w] = "WriteOwner" /\ UNCHANGED <<table, heap, obj>> /\ CanLock(File(w))
    BY <1>23 DEF WriteOwner
  <2>2. File(w) \in Stored
    BY <2>1 DEF SInv, Relies, Knows, FoundLabels
  <2>3. CASE obj[File(w)].client = Client(w)
    <3>1. mutex' = LockedBy(w, File(w)) /\ pc'[w] = "WriteLen" /\ frame' = frame
      BY <1>23, <2>3, <1>1 DEF WriteOwner
    <3>2. mutex'[File(w)] = w
      BY <1>0, <1>3, <2>2, <3>1 DEF LockedBy
    <3>3. Polite(w)
      BY <2>1, <3>1, <1>m
    <3>4. QED  BY <2>1, <2>2, <2>3, <3>1, <3>2, <3>3, <1>2, <1>g DEF FoundLabels
  <2>4. CASE obj[File(w)].client # Client(w)
    BY <1>23, <2>4, <1>m, <1>r DEF WriteOwner, Reply
  <2>5. QED  BY <2>3, <2>4
<1>24. ASSUME WriteLen(w) PROVE Moved(w)
  <2>1. pc[w] = "WriteLen" /\ UNCHANGED <<table, heap, obj>>
        /\ (mutex' = mutex \/ mutex' = Unlocked(File(w)))
    BY <1>24 DEF WriteLen, ReleaseBoth
  <2>2. CASE Return(w)
    BY <2>1, <2>2, <1>m, <1>r DEF HadLabels
  <2>3. CASE (Goto(w, "EvictStart") \/ Goto(w, "WriteData")) /\ UNCHANGED <<frame, mutex>>
    BY <2>1, <2>3, <1>1, <1>2, <1>k
  <2>4. QED  BY <1>24, <2>2, <2>3 DEF WriteLen
<1>25. ASSUME EvictStart(w) PROVE Moved(w)
  <2>1. pc[w] = "EvictStart" /\ UNCHANGED <<table, heap, obj>>
        /\ (mutex' = mutex \/ mutex' = Unlocked(File(w)))
    BY <1>25 DEF EvictStart, ReleaseBoth
  <2>2. CASE Return(w)
    BY <2>1, <2>2, <1>m, <1>r DEF HadLabels
  <2>3. CASE ~Return(w)
    <3>1. SameJob(w) /\ pc'[w] = "EvictAsk" /\ mutex' = mutex
      BY <1>25, <2>3, <1>0, <1>1, ZenonT(60) DEF EvictStart, Reply, SameJob, Frame
    <3>2. QED  BY <2>1, <3>1, <1>k
  <2>4. QED  BY <2>2, <2>3
<1>26. ASSUME EvictAsk(w) \/ EvictSkip(w) \/ EvictStore(w) PROVE Moved(w)
  <2>1. SameJob(w) /\ UNCHANGED <<table, heap, obj, mutex>>
    BY <1>26, <1>0 DEF EvictAsk, EvictSkip, EvictStore, SameJob, Frame, store
  <2>2. pc[w] \in EvictLabels /\ pc'[w] = "Evict"
    BY <1>26, <1>1 DEF EvictAsk, EvictSkip, EvictStore
  <2>3. QED  BY <2>1, <2>2, <1>k
<1>27. ASSUME EvictTake(w) PROVE Moved(w)
  BY <1>27, <1>0, VictimStep
<1>28. ASSUME EvictUnlink(w) PROVE Moved(w)
  BY <1>28, <1>0, VictimGoesStep
<1>29. ASSUME EvictEnd(w) PROVE Moved(w)
  <2>1. pc[w] = "Evict" /\ UNCHANGED <<table, heap, obj>>
        /\ (mutex' = mutex \/ mutex' = Unlocked(File(w)))
    BY <1>29 DEF EvictEnd, ReleaseBoth
  <2>2. CASE Return(w)
    BY <2>1, <2>2, <1>m, <1>r DEF HadLabels
  <2>3. CASE ~Return(w)
    <3>1. pc'[w] = "WriteData" /\ UNCHANGED <<mutex, frame>>
      BY <1>29, <2>3, <1>1 DEF EvictEnd
    <3>2. QED  BY <2>1, <3>1, <1>2, <1>k
  <2>4. QED  BY <2>2, <2>3
<1>30. ASSUME WriteData(w) PROVE Moved(w)
  <2>1. pc[w] = "WriteData" /\ UNCHANGED <<table, heap, obj>>
        /\ (mutex' = mutex \/ mutex' = Unlocked(File(w)))
    BY <1>30 DEF WriteData
  <2>2. CASE Return(w)
    BY <2>1, <2>2, <1>m, <1>r DEF HadLabels
  <2>3. CASE ~Return(w)
    <3>1. PICK d \in Incoming(w) : frame' = [frame EXCEPT ![w].req.data = d]
      BY <1>30, <2>3 DEF WriteData, Reply
    <3>2. SameJob(w)
      BY <3>1, <1>0, FrameFields DEF SameJob
    <3>3. pc'[w] = "WriteLoad" /\ mutex' = mutex
      BY <1>30, <2>3, <1>1 DEF WriteData, Reply
    <3>4. QED  BY <2>1, <3>2, <3>3, <1>k
  <2>4. QED  BY <2>2, <2>3
<1>31. ASSUME WriteLoad(w) PROVE Moved(w)
  <2>1. SameJob(w)
    BY <1>31, <1>0 DEF WriteLoad, SameJob, Frame
  <2>2. pc'[w] = "WriteStore" /\ pc[w] = "WriteLoad"
        /\ UNCHANGED <<table, heap, obj, mutex>>
    BY <1>31, <1>1 DEF WriteLoad, store
  <2>3. QED  BY <2>1, <2>2, <1>k
<1>32. ASSUME WriteStore(w) PROVE Moved(w)
  BY <1>32, <1>0, StoreBytesStep
<1>33. ASSUME RemoveOwner(w) PROVE Moved(w)
  <2>1. pc[w] = "RemoveOwner" /\ UNCHANGED <<table, heap, obj, mutex>>
    BY <1>33 DEF RemoveOwner
  <2>2. CASE MayRemove(w)
    <3>1. pc'[w] = "RemoveUnlink" /\ frame' = frame /\ obj[File(w)].client = Client(w)
      BY <1>33, <2>2, <1>1 DEF RemoveOwner, MayRemove
    <3>2. File(w) \in Stored
      BY <2>1 DEF SInv, Relies, Knows, FoundLabels
    <3>3. QED  BY <2>1, <3>1, <3>2, <1>2, <1>m, <1>g DEF FoundLabels
  <2>3. CASE ~MayRemove(w)
    BY <1>33, <2>1, <2>3, <1>m, <1>r DEF RemoveOwner, Reply
  <2>4. QED  BY <2>2, <2>3
<1>34. ASSUME RemoveUnlink(w) PROVE Moved(w)
  BY <1>34, <1>0, RemovedStep
<1>35. QED
  BY <1>10, <1>11, <1>12, <1>13, <1>14, <1>15, <1>16, <1>17, <1>18, <1>19, <1>20,
     <1>21, <1>22, <1>23, <1>24, <1>25, <1>26, <1>27, <1>28, <1>29, <1>30, <1>31,
     <1>32, <1>33, <1>34
     DEF Handle

-----------------------------------------------------------------------------
(* The theorems.                                                           *)

\* Nothing is stored and no handler runs.
LEMMA InitSInv == Init => SInv
  BY FileServerAssumption
     DEF Init, SInv, UniquePaths, Apart, Allocated, Relies, Creates, Makes, Finds, Has, Knows,
         Held, Marks, HadLabels, FoundLabels, WriteLabels, EvictLabels, Stored, ToSet

\* SInv is inductive, relative to what FileServerProofs proves.
LEMMA NextSInv ==
  ASSUME Undisputed, "other" \notin FreedKey, IInv, SInv, [Next]_vars
  PROVE  SInv'
<1>1. ASSUME NEW w \in Workers, Receive(w) PROVE SInv'
  BY <1>1, TakesStep
<1>2. ASSUME NEW w \in Workers, Handle(w) PROVE SInv'
  BY <1>2, HandleShared DEF Moved
<1>3. ASSUME \/ \E c \in Clients : Die(c) \/ Reconnect(c)
             \/ UNCHANGED vars
      PROVE  SInv'
  <2>1. UNCHANGED <<table, obj, heap, mutex, pc, frame>>
    BY <1>3 DEF Die, Reconnect, store, vars
  <2>2. \A v \in Workers : Relies(v)'
    BY <2>1, RelyingStays DEF SInv
  <2>3. UniquePaths' /\ Apart' /\ Allocated'
    BY <2>1 DEF SInv, UniquePaths, Apart, Allocated, Stored, Client, File
  <2>4. QED  BY <2>2, <2>3 DEF SInv
<1>4. QED  BY <1>1, <1>2, <1>3 DEF Next

\* The invariant holds throughout.
LEMMA SInvCorrect ==
  ASSUME Undisputed, "other" \notin FreedKey
  PROVE  Spec => []SInv
<1>1. Undisputed /\ "other" \notin FreedKey /\ IInv /\ SInv /\ [Next]_vars => SInv'
  BY NextSInv
<1>2. QED  BY <1>1, InitSInv, InvCorrect, PTL DEF Spec

\* However many workers there are, no path is stored twice and the file that is
\* written is the writer's, when no two clients create the same path and the
\* freed key of removeFile spells no other path.
THEOREM OneOwnerCorrect ==
  ASSUME Undisputed, "other" \notin FreedKey
  PROVE  Spec => []OneOwner
<1>1. SInv => OneOwner
  BY DEF SInv, OneOwner, WriterOwns, Writing, Relies, Has, Knows, HadLabels, FoundLabels,
         WriteLabels
<1>2. QED  BY <1>1, SInvCorrect, PTL

\* However many workers there are, a client that is not being served keeps what
\* it has open: the others close, remove and evict only what they may.
THEOREM OwnershipKeptCorrect ==
  ASSUME Undisputed, "other" \notin FreedKey
  PROVE  Spec => OwnershipKept
<1> DEFINE Body == \A o \in ToSet(table) :
                     LET c == obj[o].client
                     IN c \in Clients /\ ~(o \in ToSet(table') /\ obj'[o].client = c)
                          => InService(c)
<1>1. IInv /\ SInv /\ Undisputed /\ "other" \notin FreedKey /\ [Next]_vars => Body
  <2> SUFFICES ASSUME IInv, SInv, Undisputed, "other" \notin FreedKey, [Next]_vars,
                      NEW o \in Stored, obj[o].client \in Clients,
                      ~(o \in Stored' /\ obj'[o].client = obj[o].client)
               PROVE  InService(obj[o].client)
    BY DEF Stored
  <2>1. ASSUME NEW w \in Workers, Handle(w) PROVE InService(obj[o].client)
    <3>1. Mild(w) /\ o \in heap
      BY <2>1, HandleShared DEF Moved, SInv, Allocated
    <3>2. obj[o].client = Client(w)
      BY <3>1 DEF Mild
    <3>3. pc[w] # "idle"
      BY <2>1, HandleBusy
    <3>4. QED  BY <3>2, <3>3 DEF InService
  <2>2. ASSUME \/ \E w \in Workers : Receive(w)
               \/ \E c \in Clients : Die(c) \/ Reconnect(c)
               \/ UNCHANGED vars
        PROVE  InService(obj[o].client)
    <3>1. UNCHANGED <<table, obj>>
      BY <2>2 DEF Receive, Die, Reconnect, store, vars
    <3>2. QED  BY <3>1 DEF Stored
  <2>3. QED  BY <2>1, <2>2 DEF Next
<1>2. Body => [\A o \in ToSet(table) :
       LET c == obj[o].client
       IN c \in Clients /\ ~(o \in ToSet(table') /\ obj'[o].client = c)
            => InService(c) \/ \E w \in Workers : pc[w] = "RemoveUnlink"]_vars
  OBVIOUS
<1> HIDE DEF Body
<1>3. QED  BY <1>1, <1>2, InvCorrect, SInvCorrect, PTL DEF Spec, OwnershipKept

=============================================================================
