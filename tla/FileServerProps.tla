-------------------------- MODULE FileServerProps --------------------------
(***************************************************************************)
(* What the request handlers of FileServer must guarantee.  Each property  *)
(* names the deployments it is claimed for: NWORKERS = 1 (config.txt,      *)
(* test1.sh), or several workers (test2.sh) under stated conditions.       *)
(***************************************************************************)
EXTENDS FileServer

OneWorker == \A v, w \in Workers : v = w

\* Each client creates paths of its own, and uses any.
OwnPaths ==
  \A r, s \in Requests :
    r.op = "OPEN" /\ s.op = "OPEN" /\ r.create /\ s.create /\ r.path = s.path
      => r.client = s.client

\* No two workers ever create the same path.
Undisputed == OneWorker \/ OwnPaths

Stored == ToSet(table)

Quiet == \A w \in Workers : pc[w] = "idle"

\* Where the code has acquired the storage's mutex, and its file's.
EvictLabels   == {"EvictStart", "EvictAsk", "Evict", "EvictUnlink",
                  "EvictStore"}
StorageLabels == EvictLabels \cup
                 {"OpenInsert", "OpenStore", "ReadNFile", "WriteOwner",
                  "WriteLen", "RemoveOwner", "RemoveUnlink", "RemoveStore"}
FileLabels    == EvictLabels \cup
                 {"ReadSend", "WriteLen", "WriteData", "WriteLoad",
                  "WriteStore"}

Writing == {w \in Workers : pc[w] \in {"WriteData", "WriteLoad", "WriteStore"}}

-----------------------------------------------------------------------------
(* Any number of workers.  The number that FILECAPACITY is tested against  *)
(* is the number of files in the table, and that never exceeds the limit,  *)
(* although the limit is tested in one step and the file inserted in       *)
(* another: openFile and both callers of fu_remove_file hold the storage's *)
(* mutex throughout (server.c:748-767).                                    *)
FileCount ==
  /\ currFiles = Len(table)
  /\ Len(table) <= MaxFiles

(* Any number of workers.  fu_add_file never refuses after server_openFile *)
(* found room: the refusal would free the new object twice                 *)
(* (file_utils.c:102-114 and server.c:761).                                *)
NoDoubleFree == \A w \in Workers : pc[w] = "OpenInsert" => ~FilesFull

(* One worker.  Between two requests curr_bytes is the number of bytes     *)
(* stored: whatever sequence of creations, overwrites, appends, evictions  *)
(* and removals came before, complete or cut short by the client.          *)
AccountingExact == Quiet => currBytes = StoredBytes

(* CAPACITY bounds what the server stores (server_settings_rules.txt:5).   *)
(* It holds for one worker; run two_writers refutes it for two.            *)
CapacityKept == StoredBytes <= MaxBytes

(* One worker.  A client that was told to send its bytes, with or without  *)
(* an eviction first, is not refused for lack of room by fu_writefile      *)
(* (file_utils.c:361): the eviction freed as much as the write needs.      *)
PromiseKept ==
  \A w \in Workers : pc[w] = "WriteData" =>
    \A d \in Incoming(w) : d # <<>> => Fits(w, d)

(* No path is stored twice.  The second entry would hide the first from    *)
(* every lookup.  One worker; or several, when no two clients create the   *)
(* same path: the lookup and the insertion of openFile are not atomic.     *)
UniquePaths ==
  \A i, j \in DOMAIN table : obj[table[i]].path = obj[table[j]].path => i = j

(* From the announcement of a write to its end its file stays stored, open *)
(* by the writer and under the path it asked for, although the storage's   *)
(* mutex is released halfway (server.c:1000) and other workers evict,      *)
(* open, close and remove meanwhile.                                       *)
WriterOwns ==
  \A w \in Writing :
    /\ File(w) \in Stored
    /\ obj[File(w)].client = Client(w)
    /\ obj[File(w)].path = Req(w).path

(* No path is stored twice, and from the announcement of a write to its    *)
(* end the writer's file is stored and is the writer's                     *)
(* (server.c:708, 1000), when the clients create different paths.          *)
OneOwner == UniquePaths /\ WriterOwns

(* One worker.  No handler uses a file object that has been freed: the     *)
(* pointer it keeps in its locals is to an allocated slot.                 *)
NoDangling ==
  \A w \in Workers :
    File(w) # NoObj /\ pc[w] \notin {"RemoveStore"} => File(w) \in heap

(* A client loses a file it has open only while it is itself being served: *)
(* no request of another client closes or evicts it.  A removal may: it    *)
(* goes by a path that was freed (server.c:1194), and that may spell the   *)
(* path of any file.                                                       *)
OwnershipKept ==
  [][\A o \in ToSet(table) :
       LET c == obj[o].client
       IN c \in Clients /\ ~(o \in ToSet(table') /\ obj'[o].client = c)
            => InService(c) \/ \E w \in Workers : pc[w] = "RemoveUnlink"]_vars

Returns(w) == pc[w] # "idle" /\ pc'[w] = "idle"

(* A handler returns with a mutex locked in two cases only: a write or     *)
(* append refused because another client has the file (server.c:964-968,   *)
(* the storage's mutex stays locked) and a client that has gone away.      *)
(* Every other return of every handler releases what it acquired.          *)
ReturnsClean ==
  [][\A w \in Workers :
       Returns(w) /\ alive[Client(w)] =>
         /\ pc[w] \in StorageLabels /\ storMutex' = w => pc[w] = "WriteOwner"
         /\ pc[w] \in FileLabels /\ File(w) \in heap => mutex'[File(w)] # w
      ]_vars
=============================================================================
