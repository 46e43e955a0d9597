----------------------------- MODULE FileServer -----------------------------
(***************************************************************************)
(* The request handlers of server.c running over the shared file storage   *)
(* of file_utils.c.  Every worker thread runs one handler at a time; the   *)
(* handlers share the hash table of files, the two counters of the storage *)
(* and two kinds of mutex: the storage's and one per file.                 *)
(*                                                                         *)
(* A step is what a worker does between two points where another thread    *)
(* can see or change what it uses: acquiring a mutex, reading shared state *)
(* without one, or exchanging bytes with the client.  `x += y` on a shared *)
(* counter is a load and a store.  A file object is a heap slot: freeing   *)
(* it leaves its fields as they are, and a pointer to it may outlive it.   *)
(***************************************************************************)
EXTENDS Integers, Sequences, FiniteSets, FiniteSetsExt, SequencesExt

CONSTANTS
  Workers,      \* the NWORKERS worker threads
  Clients,      \* file descriptors of the connected clients
  Mortal,       \* the clients that may disconnect at any moment
  Paths,        \* names of files
  Bytes,        \* what a byte of a file can be; 0 is what calloc leaves
  Objs,         \* heap slots that can hold a u_file_data
  MaxFiles,     \* storage->max_files (FILECAPACITY)
  MaxBytes,     \* storage->max_bytes (CAPACITY)
  SizeMod,      \* 2^w, w the width of size_t
  Requests,     \* the requests clients send
  FreedKey,     \* what the freed key of server_removeFile can spell
  ReuseSlots,   \* may malloc return a slot that held another file?
  MaxRequests,  \* bound: requests served in one behaviour
  NoWorker, NoObj, NoPath

NoClient == -1   \* file->client of a file nobody has open
Evicted  == -2   \* file->client of a file server_evict is about to unlink

Ops == {"OPEN", "CLOSE", "READ", "READN", "WRITE", "APPEND", "LOCK",
        "UNLOCK", "REMOVE", "OTHER"}

Codes == {"SUCCESS", "FAILURE", "EVICT", "FNF", "LOCKED", "ALREADY",
          "PATH", "DATA", "END"}

(* A request as the worker and its handler read it from the socket: the    *)
(* opcode, the path and O_CREATE, the bytes that follow a write, the N of  *)
(* readNFiles and whether the client asks for evicted files to be returned. *)
Request == [client : Clients, op : Ops, path : Paths, create : BOOLEAN,
            data : Seq(Bytes), n : Nat, back : BOOLEAN]

ASSUME FileServerAssumption ==
  /\ Clients \subseteq Nat \ {0}
  /\ Mortal \subseteq Clients
  /\ Bytes \subseteq Nat /\ 0 \in Bytes
  /\ IsFiniteSet(Objs) /\ NoObj \notin Objs
  /\ NoWorker \notin Workers /\ NoPath \notin Paths
  /\ MaxFiles \in Nat \ {0} /\ MaxBytes \in Nat \ {0}
  /\ SizeMod \in Nat \ {0} /\ MaxBytes < SizeMod
  /\ Requests \subseteq Request
  /\ \A r \in Requests : Len(r.data) < SizeMod   \* a length is a size_t
  /\ FreedKey \subseteq {"intact", "lost", "other"} /\ FreedKey # {}
  /\ ReuseSlots \in BOOLEAN
  /\ MaxRequests \in Nat

VARIABLES
  table,      \* the hash table's entries, the newest first
  obj,        \* the fields of every heap slot
  heap,       \* the slots that are allocated
  mutex,      \* file->mutex: the worker that holds it, or NoWorker
  storMutex,  \* storage->mutex
  currFiles,  \* storage->curr_files
  currBytes,  \* storage->curr_bytes
  pc,         \* where each worker is; "idle" between two requests
  frame,      \* the handler's locals
  out,        \* what the server has sent to each client for its last request
  alive,      \* is the client's end of the socket open?
  nreq        \* requests served so far

store == <<table, obj, heap, mutex, storMutex, currFiles, currBytes>>
vars  == <<table, obj, heap, mutex, storMutex, currFiles, currBytes,
           pc, frame, out, alive, nreq>>

-----------------------------------------------------------------------------
(* Shapes of the state.                                                    *)

Unused == [path |-> NoPath, data |-> <<>>, client |-> NoClient]

NoFrame == [req  |-> [client |-> 0, op |-> "OTHER", path |-> NoPath,
                      create |-> FALSE, data |-> <<>>, n |-> 0,
                      back |-> FALSE],
            ptr  |-> NoObj, vic |-> NoObj, todo |-> {}, need |-> 0,
            tmp  |-> 0, back |-> FALSE]

Init ==
  /\ table = <<>>
  /\ obj = [o \in Objs |-> Unused]
  /\ heap = {}
  /\ mutex = [o \in Objs |-> NoWorker]
  /\ storMutex = NoWorker
  /\ currFiles = 0 /\ currBytes = 0
  /\ pc = [w \in Workers |-> "idle"]
  /\ frame = [w \in Workers |-> NoFrame]
  /\ out = [c \in Clients |-> <<>>]
  /\ alive = [c \in Clients |-> TRUE]
  /\ nreq = 0

-----------------------------------------------------------------------------
(* The storage of file_utils.c and its hash table.                         *)

NewestButLast(p) == {i \in 1..(Len(table) - 1) : obj[table[i]].path = p}

\* Positions of the entry hu_get finds: new entries go before equal keys.
Newest(p) == {i \in DOMAIN table :
                /\ obj[table[i]].path = p
                /\ \A j \in 1..(i - 1) : obj[table[j]].path # p}

\* hu_insert, and hu_remove of the entry at position i.
Inserted(o) == <<o>> \o table
Unlinked(i) == RemoveAt(table, i)

Size(o) == Len(obj[o].data)

\* What fu_evict_files adds up before it lets an eviction begin.
StoredBytes == MapThenSumSet(Size, ToSet(table))

BytesAvailable == IF currBytes > MaxBytes THEN 0 ELSE MaxBytes - currBytes

FilesFullLate == MaxFiles - currFiles < 0

FilesFull == MaxFiles - currFiles = 0

NoRoomBytesOnly == BytesAvailable = 0

\* server_openFile refuses to create when either resource is used up.
NoRoom == BytesAvailable = 0 \/ FilesFull

\* malloc: some free slot, a used one only where the allocator recycles.
Mallocable == {o \in Objs \ heap : ReuseSlots \/ obj[o].path = NoPath}

-----------------------------------------------------------------------------
(* Mutexes.  Locking or unlocking the mutex of a freed file fails with     *)
(* EINVAL, which the macros of thread_utils.h report and ignore; a mutex   *)
(* of an allocated file can be unlocked by a thread that does not hold it. *)

CanLock(o) == o \in heap => mutex[o] = NoWorker

LockedBy(w, o) == IF o \in heap THEN [mutex EXCEPT ![o] = w] ELSE mutex

Unlocked(o) == IF o \in heap THEN [mutex EXCEPT ![o] = NoWorker] ELSE mutex

-----------------------------------------------------------------------------
(* Talking to the client, and moving through a handler.                    *)

Req(w)    == frame[w].req
Client(w) == frame[w].req.client
File(w)   == frame[w].ptr

Code(k) == <<[code |-> k, path |-> NoPath, data |-> <<>>]>>

\* server_send_path, and server_send_data, which sends nothing for no bytes.
PathMsg(p) == <<[code |-> "PATH", path |-> p, data |-> <<>>]>>
DataMsg(d) == IF d = <<>> THEN <<>>
              ELSE <<[code |-> "DATA", path |-> NoPath, data |-> d]>>

\* A write to a socket whose other end is closed fails and sends nothing.
Send(w, ms) == out' = IF alive[Client(w)]
                        THEN [out EXCEPT ![Client(w)] = @ \o ms]
                        ELSE out

Goto(w, label) == pc' = [pc EXCEPT ![w] = label]

\* A handler returns: its locals are gone.
Return(w) == /\ pc' = [pc EXCEPT ![w] = "idle"]
             /\ frame' = [frame EXCEPT ![w] = NoFrame]

Reply(w, k) == Send(w, Code(k)) /\ Return(w)

Entry(op) == CASE op = "OPEN"               -> "Open"
               [] op = "CLOSE"              -> "Close"
               [] op = "READ"               -> "Read"
               [] op = "READN"              -> "ReadN"
               [] op \in {"WRITE","APPEND"} -> "Write"
               [] op = "REMOVE"             -> "Remove"
               [] OTHER                     -> "Nothing"

\* The dispatcher gives a client to one worker at a time.
InService(c) == \E w \in Workers : pc[w] # "idle" /\ Client(w) = c

(* server_worker reads a request, serve dispatches it and the handler      *)
(* reads the path that follows.                                            *)
Receive(w) ==
  /\ pc[w] = "idle" /\ nreq < MaxRequests
  /\ \E r \in Requests :
       /\ alive[r.client] /\ ~InService(r.client)
       /\ Goto(w, Entry(r.op))
       /\ frame' = [frame EXCEPT ![w].req = r]
       /\ out' = [out EXCEPT ![r.client] = <<>>]
  /\ nreq' = nreq + 1
  /\ UNCHANGED <<store, alive>>

(* lockFile and unlockFile return without answering; an unknown opcode is  *)
(* answered with a failure.                                                *)
ServeNothing(w) ==
  /\ pc[w] = "Nothing"
  /\ IF Req(w).op = "OTHER" THEN Send(w, Code("FAILURE")) ELSE UNCHANGED out
  /\ Return(w)
  /\ UNCHANGED <<store, alive, nreq>>

-----------------------------------------------------------------------------
(* server_openFile.  The lookup is made without storage->mutex; only the   *)
(* insertion of a new file holds it.                                       *)

OpenLookup(w) ==
  /\ pc[w] = "Open"
  /\ \/ \E i \in Newest(Req(w).path) :
          /\ frame' = [frame EXCEPT ![w].ptr = table[i]]
          /\ Goto(w, "OpenFound")
          /\ UNCHANGED out
     \/ /\ Newest(Req(w).path) = {} /\ ~Req(w).create
        /\ Reply(w, "FNF")
     \/ /\ Newest(Req(w).path) = {} /\ Req(w).create
        /\ Goto(w, "OpenCreate")
        /\ UNCHANGED <<frame, out>>
  /\ UNCHANGED <<store, alive, nreq>>

Grantable(o) == obj[o].client = NoClient

\* The file was there: it is granted unless someone has it or is evicting it.
OpenFound(w) ==
  /\ pc[w] = "OpenFound" /\ CanLock(File(w))
  /\ IF Grantable(File(w))
       THEN /\ obj' = [obj EXCEPT ![File(w)].client = Client(w)]
            /\ Reply(w, "SUCCESS")
       ELSE /\ Reply(w, "ALREADY")
            /\ UNCHANGED obj
  /\ UNCHANGED <<table, heap, mutex, storMutex, currFiles, currBytes,
                 alive, nreq>>

\* The file was not there: the new object, and the two limits.
OpenCreate(w) ==
  /\ pc[w] = "OpenCreate" /\ storMutex = NoWorker
  /\ \/ /\ NoRoom
        /\ Reply(w, "FAILURE")
        /\ UNCHANGED store
     \/ /\ ~NoRoom
        /\ storMutex' = w
        /\ \E o \in Mallocable :
             /\ heap' = heap \cup {o}
             /\ obj' = [obj EXCEPT ![o] = [Unused EXCEPT !.client = Client(w)]]
             /\ mutex' = [mutex EXCEPT ![o] = NoWorker]
             /\ frame' = [frame EXCEPT ![w].ptr = o]
        /\ Goto(w, "OpenInsert")
        /\ UNCHANGED <<table, currFiles, currBytes, out>>
  /\ UNCHANGED <<alive, nreq>>

\* fu_add_file tests the room again; if it refused, the object would be
\* freed by it and a second time by server_openFile.
OpenInsert(w) ==
  /\ pc[w] = "OpenInsert"
  /\ \/ /\ FilesFull
        /\ heap' = heap \ {File(w)}
        /\ storMutex' = NoWorker
        /\ Reply(w, "FAILURE")
        /\ UNCHANGED <<table, obj, currFiles>>
     \/ /\ ~FilesFull
        /\ obj' = [obj EXCEPT ![File(w)].path = Req(w).path]
        /\ table' = Inserted(File(w))
        /\ currFiles' = currFiles + 1
        /\ frame' = [frame EXCEPT
                       ![w].tmp = (currBytes + Size(File(w))) % SizeMod]
        /\ Goto(w, "OpenStore")
        /\ UNCHANGED <<heap, storMutex, out>>
  /\ UNCHANGED <<mutex, currBytes, alive, nreq>>

\* Mutant: the storage's mutex is not given back.
OpenStoreLocked(w) ==
  /\ pc[w] = "OpenStore"
  /\ currBytes' = frame[w].tmp
  /\ Reply(w, "SUCCESS")
  /\ UNCHANGED <<table, obj, heap, mutex, storMutex, currFiles, alive, nreq>>

OpenStore(w) ==
  /\ pc[w] = "OpenStore"
  /\ currBytes' = frame[w].tmp
  /\ storMutex' = NoWorker
  /\ Reply(w, "SUCCESS")
  /\ UNCHANGED <<table, obj, heap, mutex, currFiles, alive, nreq>>

-----------------------------------------------------------------------------
(* server_closeFile and server_readFile: a lookup without storage->mutex,  *)
(* then the file's mutex.                                                  *)

Find(w, here, next) ==
  /\ pc[w] = here
  /\ \/ \E i \in Newest(Req(w).path) :
          /\ frame' = [frame EXCEPT ![w].ptr = table[i]]
          /\ Goto(w, next)
          /\ UNCHANGED out
     \/ /\ Newest(Req(w).path) = {}
        /\ Reply(w, "FNF")
  /\ UNCHANGED <<store, alive, nreq>>

CloseLookup(w) == Find(w, "Close", "CloseFound")

CloseFound(w) ==
  /\ pc[w] = "CloseFound" /\ CanLock(File(w))
  /\ IF obj[File(w)].client = Client(w)
       THEN /\ obj' = [obj EXCEPT ![File(w)].client = NoClient]
            /\ Reply(w, "SUCCESS")
       ELSE /\ Reply(w, "LOCKED")
            /\ UNCHANGED obj
  /\ UNCHANGED <<table, heap, mutex, storMutex, currFiles, currBytes,
                 alive, nreq>>

ReadLookup(w) == Find(w, "Read", "ReadFound")

\* The confirmation goes out under the file's mutex; when it cannot be sent
\* the handler returns with the mutex still locked.
ReadFound(w) ==
  /\ pc[w] = "ReadFound" /\ CanLock(File(w))
  /\ IF obj[File(w)].client \notin {0, Client(w)}
       THEN /\ Reply(w, "LOCKED")
            /\ UNCHANGED mutex
       ELSE /\ mutex' = LockedBy(w, File(w))
            /\ Send(w, Code("SUCCESS"))
            /\ IF alive[Client(w)]
                 THEN Goto(w, "ReadSend") /\ UNCHANGED frame
                 ELSE Return(w)
  /\ UNCHANGED <<table, obj, heap, storMutex, currFiles, currBytes,
                 alive, nreq>>

\* Freed memory still holds the bytes, or the allocator has cleared them.
ReadSend(w) ==
  /\ pc[w] = "ReadSend"
  /\ \/ Send(w, DataMsg(obj[File(w)].data))
     \/ File(w) \notin heap /\ UNCHANGED out
  /\ mutex' = Unlocked(File(w))
  /\ Return(w)
  /\ UNCHANGED <<table, obj, heap, storMutex, currFiles, currBytes,
                 alive, nreq>>

-----------------------------------------------------------------------------
(* server_readNFiles: up to n files, whoever has them open, under the      *)
(* storage's mutex; a file whose mutex is taken or that is empty is passed *)
(* over.  The order of the buckets is left open.                           *)

ReadNLock(w) ==
  /\ pc[w] = "ReadN" /\ storMutex = NoWorker
  /\ storMutex' = w
  /\ frame' = [frame EXCEPT ![w].todo = ToSet(table), ![w].need = Req(w).n]
  /\ Goto(w, "ReadNFile")
  /\ UNCHANGED <<table, obj, heap, mutex, currFiles, currBytes,
                 out, alive, nreq>>

ReadNFile(w) ==
  /\ pc[w] = "ReadNFile" /\ frame[w].need # 0
  /\ \E o \in frame[w].todo :
       LET more == [frame EXCEPT ![w].todo = @ \ {o}]
           sent == mutex[o] = NoWorker /\ obj[o].data # <<>>
       IN \/ /\ ~sent
             /\ frame' = more
             /\ UNCHANGED <<storMutex, pc, out>>
          \/ /\ sent /\ alive[Client(w)]
             /\ Send(w, PathMsg(obj[o].path) \o DataMsg(obj[o].data))
             /\ frame' = [more EXCEPT ![w].need = @ - 1]
             /\ UNCHANGED <<storMutex, pc>>
          \/ /\ sent /\ ~alive[Client(w)]
             /\ storMutex' = NoWorker
             /\ Return(w)
             /\ UNCHANGED out
  /\ UNCHANGED <<table, obj, heap, mutex, currFiles, currBytes, alive, nreq>>

ReadNEnd(w) ==
  /\ pc[w] = "ReadNFile" /\ (frame[w].need = 0 \/ frame[w].todo = {})
  /\ storMutex' = NoWorker
  /\ Reply(w, "END")
  /\ UNCHANGED <<table, obj, heap, mutex, currFiles, currBytes, alive, nreq>>

-----------------------------------------------------------------------------
(* fu_remove_file, called with storage->mutex held: the entry at position  *)
(* i leaves the table, its object is freed and the counters are lowered.   *)
(* The result is stored in curr_bytes by the next step.                    *)

LoweredSigned(n) == currBytes - n

Lowered(n) == (currBytes - n) % SizeMod

Unlink(w, i) ==
  /\ table' = Unlinked(i)
  /\ heap' = heap \ {table[i]}
  /\ currFiles' = currFiles - 1
  /\ frame' = [frame EXCEPT
                 ![w].tmp = Lowered(Size(table[i]))]

-----------------------------------------------------------------------------
(* server_writeFile and server_appendToFile: storage->mutex, then the      *)
(* file's; the former is released before the data is read and stored.      *)

WriteLock(w) ==
  /\ pc[w] = "Write" /\ storMutex = NoWorker
  /\ \/ \E i \in Newest(Req(w).path) :
          /\ storMutex' = w
          /\ frame' = [frame EXCEPT ![w].ptr = table[i]]
          /\ Goto(w, "WriteOwner")
          /\ UNCHANGED out
     \/ /\ Newest(Req(w).path) = {}
        /\ Reply(w, "FNF")
        /\ UNCHANGED storMutex
  /\ UNCHANGED <<table, obj, heap, mutex, currFiles, currBytes, alive, nreq>>

\* The refusal unlocks the file and not the storage.
WriteOwner(w) ==
  /\ pc[w] = "WriteOwner" /\ CanLock(File(w))
  /\ IF obj[File(w)].client = Client(w)
       THEN /\ mutex' = LockedBy(w, File(w))
            /\ Goto(w, "WriteLen")
            /\ UNCHANGED <<frame, out>>
       ELSE /\ Reply(w, "LOCKED")
            /\ UNCHANGED mutex
  /\ UNCHANGED <<table, obj, heap, storMutex, currFiles, currBytes,
                 alive, nreq>>

ReleaseFileOnly(w) == mutex' = Unlocked(File(w)) /\ UNCHANGED storMutex

ReleaseBoth(w) == /\ mutex' = Unlocked(File(w))
                  /\ storMutex' = NoWorker

\* The client announces the length.  If it is gone, either the read finds
\* the end of the stream and the handler returns with both mutexes locked,
\* or a length arrived first and the answer to it is what fails.
WriteLen(w) ==
  /\ pc[w] = "WriteLen"
  /\ \/ /\ alive[Client(w)] /\ BytesAvailable < Len(Req(w).data)
        /\ Goto(w, "EvictStart")
        /\ UNCHANGED <<frame, out, mutex, storMutex>>
     \/ /\ alive[Client(w)] /\ BytesAvailable >= Len(Req(w).data)
        /\ Send(w, Code("SUCCESS"))
        /\ storMutex' = NoWorker
        /\ Goto(w, "WriteData")
        /\ UNCHANGED <<frame, mutex>>
     \/ /\ ~alive[Client(w)]
        /\ ReleaseBoth(w) \/ UNCHANGED <<mutex, storMutex>>
        /\ Return(w)
        /\ UNCHANGED out
  /\ UNCHANGED <<table, obj, heap, currFiles, currBytes, alive, nreq>>

-----------------------------------------------------------------------------
(* server_evict, run with both mutexes of the write held.                  *)

\* bytes_to_free, from a second reading of the bytes available.  Without
\* enough bytes stored, the file being written included, it does not start.
EvictStart(w) ==
  /\ pc[w] = "EvictStart"
  /\ LET need == (Len(Req(w).data) - BytesAvailable) % SizeMod
     IN IF StoredBytes >= need /\ alive[Client(w)]
          THEN /\ Send(w, Code("EVICT"))
               /\ frame' = [frame EXCEPT ![w].need = need,
                                         ![w].todo = ToSet(table)]
               /\ Goto(w, "EvictAsk")
               /\ UNCHANGED <<mutex, storMutex>>
          ELSE /\ ReleaseBoth(w)
               /\ Reply(w, "FAILURE")
  /\ UNCHANGED <<table, obj, heap, currFiles, currBytes, alive, nreq>>

\* server_get_len returns an uninitialised length when the client is gone.
EvictAsk(w) ==
  /\ pc[w] = "EvictAsk"
  /\ \E b \in IF alive[Client(w)] THEN {Req(w).back} ELSE BOOLEAN :
       frame' = [frame EXCEPT ![w].back = b]
  /\ Goto(w, "Evict")
  /\ UNCHANGED <<store, out, alive, nreq>>

EvictableUnlocked(o, c) == o \in heap /\ obj[o].client \in {NoClient, c}

EvictableOpen(o, c) == o \in heap /\ mutex[o] = NoWorker

Evictable(o, c) == /\ o \in heap /\ mutex[o] = NoWorker
                   /\ obj[o].client \in {NoClient, c}

NothingNeeded(need, o) == 0

\* bytes_to_free after o, never below zero.
StillNeeded(need, o) == IF Size(o) > need THEN 0 ELSE need - Size(o)

EvictSkip(w) ==
  /\ pc[w] = "Evict" /\ frame[w].need # 0
  /\ \E o \in frame[w].todo :
       /\ ~Evictable(o, Client(w))
       /\ frame' = [frame EXCEPT ![w].todo = @ \ {o}]
  /\ UNCHANGED <<store, pc, out, alive, nreq>>

\* The victim is sent back if the client wants it and marked for whoever
\* already holds a pointer to it.  The order of the victims is left open.
EvictTake(w) ==
  /\ pc[w] = "Evict" /\ frame[w].need # 0
  /\ \E o \in frame[w].todo :
       /\ Evictable(o, Client(w))
       /\ frame[w].back => alive[Client(w)]
       /\ IF frame[w].back
            THEN Send(w, Code("EVICT") \o PathMsg(obj[o].path)
                         \o DataMsg(obj[o].data))
            ELSE UNCHANGED out
       /\ obj' = [obj EXCEPT ![o].client = Evicted]
       /\ frame' = [frame EXCEPT ![w].todo = @ \ {o}, ![w].vic = o,
                                 ![w].need = StillNeeded(@, o)]
  /\ Goto(w, "EvictUnlink")
  /\ UNCHANGED <<table, heap, mutex, storMutex, currFiles, currBytes,
                 alive, nreq>>

\* The client is gone: the victim's mutex stays locked, the others do not.
EvictAbort(w) ==
  /\ pc[w] = "Evict" /\ frame[w].need # 0
  /\ frame[w].back /\ ~alive[Client(w)]
  /\ \E o \in frame[w].todo :
       /\ Evictable(o, Client(w))
       /\ mutex' = [Unlocked(File(w)) EXCEPT ![o] = w]
  /\ storMutex' = NoWorker
  /\ Return(w)
  /\ UNCHANGED <<table, obj, heap, currFiles, currBytes, out, alive, nreq>>

\* fu_remove_file goes by the victim's path, not by the victim.
EvictUnlink(w) ==
  /\ pc[w] = "EvictUnlink"
  /\ \E i \in Newest(obj[frame[w].vic].path) : Unlink(w, i)
  /\ Goto(w, "EvictStore")
  /\ UNCHANGED <<obj, mutex, storMutex, currBytes, out, alive, nreq>>

EvictStore(w) ==
  /\ pc[w] = "EvictStore"
  /\ currBytes' = frame[w].tmp
  /\ Goto(w, "Evict")
  /\ UNCHANGED <<table, obj, heap, mutex, storMutex, currFiles, frame,
                 out, alive, nreq>>

\* Too little freed: server_evict answers FAILURE and so does its caller.
EvictEnd(w) ==
  /\ pc[w] = "Evict" /\ (frame[w].need = 0 \/ frame[w].todo = {})
  /\ IF frame[w].need = 0 /\ alive[Client(w)]
       THEN /\ Send(w, Code("SUCCESS"))
            /\ storMutex' = NoWorker
            /\ Goto(w, "WriteData")
            /\ UNCHANGED <<mutex, frame>>
       ELSE /\ ReleaseBoth(w)
            /\ Send(w, Code("FAILURE") \o Code("FAILURE"))
            /\ Return(w)
  /\ UNCHANGED <<table, obj, heap, currFiles, currBytes, alive, nreq>>

-----------------------------------------------------------------------------
(* The rest of a write: the data, then fu_writefile, without storage->mutex *)

\* file->data after the write of d, and curr_bytes with the difference.
Written(w, d) == IF Req(w).op = "WRITE" THEN d ELSE obj[File(w)].data \o d

NewBytesAdded(w, d) == (currBytes + Len(d)) % SizeMod

NewBytesKept(w, d) == currBytes

NewBytes(w, d) == (currBytes + Len(Written(w, d)) - Size(File(w))) % SizeMod

Fits(w, d) == d # <<>> /\ NewBytes(w, d) <= MaxBytes

\* At the end of the stream the calloc'ed buffer is left as it is.
Incoming(w) == {Req(w).data} \cup
               (IF alive[Client(w)] THEN {}
                ELSE {[k \in DOMAIN Req(w).data |-> 0]})

WriteData(w) ==
  /\ pc[w] = "WriteData"
  /\ \E d \in Incoming(w) :
       IF Fits(w, d)
         THEN /\ frame' = [frame EXCEPT ![w].req.data = d]
              /\ Goto(w, "WriteLoad")
              /\ UNCHANGED <<mutex, out>>
         ELSE /\ mutex' = Unlocked(File(w))
              /\ Reply(w, "FAILURE")
  /\ UNCHANGED <<table, obj, heap, storMutex, currFiles, currBytes,
                 alive, nreq>>

\* The read itself fails.
WriteBroken(w) ==
  /\ pc[w] = "WriteData" /\ ~alive[Client(w)]
  /\ mutex' = Unlocked(File(w))
  /\ Return(w)
  /\ UNCHANGED <<table, obj, heap, storMutex, currFiles, currBytes, out,
                 alive, nreq>>

WriteLoad(w) ==
  /\ pc[w] = "WriteLoad"
  /\ frame' = [frame EXCEPT ![w].tmp = NewBytes(w, Req(w).data)]
  /\ Goto(w, "WriteStore")
  /\ UNCHANGED <<store, out, alive, nreq>>

WriteStore(w) ==
  /\ pc[w] = "WriteStore"
  /\ currBytes' = frame[w].tmp
  /\ obj' = [obj EXCEPT ![File(w)].data = Written(w, Req(w).data)]
  /\ mutex' = Unlocked(File(w))
  /\ Reply(w, "SUCCESS")
  /\ UNCHANGED <<table, heap, storMutex, currFiles, alive, nreq>>

-----------------------------------------------------------------------------
(* server_removeFile frees the path it was given and then passes it to     *)
(* fu_remove_file, whose result it ignores.  The freed key still spells    *)
(* the path, spells nothing stored, or spells some other stored path.      *)

RemoveLock(w) ==
  /\ pc[w] = "Remove" /\ storMutex = NoWorker
  /\ \/ \E i \in Newest(Req(w).path) :
          /\ storMutex' = w
          /\ frame' = [frame EXCEPT ![w].ptr = table[i]]
          /\ Goto(w, "RemoveOwner")
          /\ UNCHANGED out
     \/ /\ Newest(Req(w).path) = {}
        /\ Reply(w, "FNF")
        /\ UNCHANGED storMutex
  /\ UNCHANGED <<table, obj, heap, mutex, currFiles, currBytes, alive, nreq>>

MayRemove(w) == obj[File(w)].client = Client(w)

RemoveOwner(w) ==
  /\ pc[w] = "RemoveOwner" /\ CanLock(File(w))
  /\ IF MayRemove(w)
       THEN /\ Goto(w, "RemoveUnlink")
            /\ UNCHANGED <<frame, out, storMutex>>
       ELSE /\ Reply(w, "LOCKED")
            /\ storMutex' = NoWorker
  /\ UNCHANGED <<table, obj, heap, mutex, currFiles, currBytes, alive, nreq>>

\* The entry hu_get finds under the freed key.
Victims(w, key) ==
  CASE key = "intact" -> Newest(Req(w).path)
    [] key = "other"  -> UNION {Newest(p) : p \in Paths \ {Req(w).path}}
    [] OTHER          -> {}

RemoveUnlink(w) ==
  /\ pc[w] = "RemoveUnlink"
  /\ \E key \in FreedKey : \E i \in Victims(w, key) : Unlink(w, i)
  /\ Goto(w, "RemoveStore")
  /\ UNCHANGED <<obj, mutex, storMutex, currBytes, out, alive, nreq>>

RemoveStore(w) ==
  /\ pc[w] = "RemoveStore"
  /\ currBytes' = frame[w].tmp
  /\ storMutex' = NoWorker
  /\ Reply(w, "SUCCESS")
  /\ UNCHANGED <<table, obj, heap, mutex, currFiles, alive, nreq>>

\* Nothing was found under the freed key; the answer is the same.
RemoveMissed(w) ==
  /\ pc[w] = "RemoveUnlink"
  /\ \E key \in FreedKey : Victims(w, key) = {}
  /\ storMutex' = NoWorker
  /\ Reply(w, "SUCCESS")
  /\ UNCHANGED <<table, obj, heap, mutex, currFiles, currBytes, alive, nreq>>

-----------------------------------------------------------------------------
(* A client's process ends; later its descriptor number is given to the    *)
(* next connection.  Nothing of this reaches the storage.                  *)

Die(c) ==
  /\ c \in Mortal /\ alive[c]
  /\ alive' = [alive EXCEPT ![c] = FALSE]
  /\ UNCHANGED <<store, pc, frame, out, nreq>>

Reconnect(c) ==
  /\ ~alive[c] /\ ~InService(c)
  /\ alive' = [alive EXCEPT ![c] = TRUE]
  /\ out' = [out EXCEPT ![c] = <<>>]
  /\ UNCHANGED <<store, pc, frame, nreq>>

-----------------------------------------------------------------------------
Handle(w) ==
  \/ ServeNothing(w)
  \/ OpenLookup(w)  \/ OpenFound(w)  \/ OpenCreate(w)
  \/ OpenInsert(w)  \/ OpenStore(w)
  \/ CloseLookup(w) \/ CloseFound(w)
  \/ ReadLookup(w)  \/ ReadFound(w)  \/ ReadSend(w)
  \/ ReadNLock(w)   \/ ReadNFile(w)  \/ ReadNEnd(w)
  \/ WriteLock(w)   \/ WriteOwner(w) \/ WriteLen(w)
  \/ EvictStart(w)  \/ EvictAsk(w)   \/ EvictSkip(w)  \/ EvictTake(w)
  \/ EvictAbort(w)  \/ EvictUnlink(w) \/ EvictStore(w) \/ EvictEnd(w)
  \/ WriteData(w)   \/ WriteBroken(w) \/ WriteLoad(w) \/ WriteStore(w)
  \/ RemoveLock(w)  \/ RemoveOwner(w) \/ RemoveUnlink(w)
  \/ RemoveStore(w) \/ RemoveMissed(w)

Next == \/ \E w \in Workers : Receive(w) \/ Handle(w)
        \/ \E c \in Clients : Die(c) \/ Reconnect(c)

Spec == Init /\ [][Next]_vars

-----------------------------------------------------------------------------
(* The type invariant: what each variable holds.                           *)

Labels == {"idle", "Nothing", "Open", "OpenFound", "OpenCreate", "OpenInsert",
           "OpenStore", "Close", "CloseFound", "Read", "ReadFound",
           "ReadSend", "ReadN", "ReadNFile", "Write", "WriteOwner",
           "WriteLen", "WriteData", "WriteLoad", "WriteStore", "EvictStart",
           "EvictAsk", "Evict", "EvictUnlink", "EvictStore", "Remove",
           "RemoveOwner", "RemoveUnlink", "RemoveStore"}

FileData == [path : Paths \cup {NoPath}, data : Seq(Bytes),
             client : Clients \cup {NoClient, Evicted}]

Frame == [req : Request \cup {NoFrame.req},
          ptr : Objs \cup {NoObj}, vic : Objs \cup {NoObj},
          todo : SUBSET Objs, need : Nat,
          tmp : 0..(SizeMod - 1), back : BOOLEAN]

Message == [code : Codes, path : Paths \cup {NoPath}, data : Seq(Bytes)]

(* Every variable of server_infos' storage and every local of a handler    *)
(* keeps its type; in particular the counters of the storage, curr_bytes   *)
(* modulo the width of size_t, never become negative.                      *)
TypeOK ==
  /\ table \in Seq(Objs)
  /\ obj \in [Objs -> FileData]
  /\ heap \subseteq Objs
  /\ mutex \in [Objs -> Workers \cup {NoWorker}]
  /\ storMutex \in Workers \cup {NoWorker}
  /\ currFiles \in Nat
  /\ currBytes \in 0..(SizeMod - 1)
  /\ pc \in [Workers -> Labels]
  /\ frame \in [Workers -> Frame]
  /\ out \in [Clients -> Seq(Message)]
  /\ alive \in [Clients -> BOOLEAN]
  /\ nreq \in Nat
=============================================================================
