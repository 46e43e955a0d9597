# Verification of LSO_Baldini

`server.exe` (src/src/server.c) stores files in memory for the clients that
connect to its AF_UNIX socket. A dispatcher thread polls the connections and
hands each readable one to a worker; the worker reads one request, runs its
handler over the shared storage and gives the connection back to the
dispatcher. `client.exe` (client.c over serverapi.c) sends the requests.

This directory holds TLA+ models of the server and the client, TLC configurations that check
them on small instances and proofs that TLAPS checks for every instance.

    tlc -workers 2 -config OneWorker.cfg MCFileServer      # one run
    tlapm FileServerProofs.tla                             # the proofs

## Inventory

| Component | Source | State | Operations |
|---|---|---|---|
| Request handlers | src/server.c:307-1420 | locals of each worker | open, close, read, readN, write, append, remove, lock, unlock, evict |
| File storage | libs/LSO_LIB/file_utils.c | `max_*`, `curr_files`, `curr_bytes`, storage mutex; one `u_file_data` per file: data, `client`, mutex, use count | alloc, add, get, remove, write, append, list to evict |
| Eviction | file_utils.c:523-579, server.c:1221-1296 | the array of victims, bytes still needed | order, choose, send, remove |
| Hash table | libs/LSO_LIB/hash_utils.c, string_utils.c | buckets of (key, file), in order | insert, get, remove |
| Dispatcher, workers | src/server.c:127-305, 423-470 | `workers_clients`, one lock and condition per worker, `server_quit`, `server_hu` | poll, accept, assign_client, server_worker, signal handler, join |
| Poll array | src/poll_utils.c | slots, `len`, `empty` | add, remove, isempty, isfull |
| Start-up, settings | src/server.c:20-126, 535-600 | `server_settings` | parse config.txt |
| Client API | src/serverapi.c | the socket, the message in progress, the time left to connect | openConnection, openFile, readFile, readNFiles, writeFile, appendToFile, lockFile, unlockFile, closeFile, removeFile, closeConnection |
| Client driver | src/client.c, dir_utils.c | `client_conf`, the lists of files and directories, the working directory | command line, directory walk |
| Containers, wrappers | libs/LSO_LIB/{list,array,mem,string,thread}_utils.c | - | - |

Interaction. Handlers call the storage directly and share it without a
monitor: some lookups run without `storage->mutex`, some fields are used after
it was released, and a file object is freed by `fu_remove_file` whoever still
points to it. Handlers talk to their client in the middle of an operation, with
mutexes held. The dispatcher and the workers share the poll array without any
lock. A client and the server exchange operations, lengths, paths and data over
one stream with nothing that marks where a message begins; each side knows from
the calls before what the next bytes mean.

What is hard: interleavings of handlers (lookup/insert, lookup/lock,
test/update of `curr_bytes`), eviction of files that others are about to use,
error paths that return with mutexes held when a client disappears, unsigned
counters, the ownership of a file by a descriptor number that is reused, the
unsynchronised poll array, exchanges that leave the two ends of a stream out of
step, strings compared over the shorter length, and the retries of a connection
against a deadline. PROJECT.json lists every hazard at its line with
the properties that cover it, or why none does yet.

What makes each component correct:

* handlers - an open file belongs to one client and only its requests write,
  close or remove it; what a client is told is what happened; every mutex taken
  is released; every request is answered;
* storage - `curr_files` and `curr_bytes` are what is stored and stay within
  FILECAPACITY and CAPACITY; a path is stored once; no freed object is used;
* dispatcher - a client that is handed to a worker is read, a request that is
  taken up is answered before the server ends, the array never underflows, and
  the server stops when it is told to;
* eviction - it ends, removes no more than it needs and nothing that is open,
  and fails only for need;
* table - every stored file is found under its own path;
* settings - a line that follows the rules counts;
* client API - both ends agree on what the next bytes mean, every call ends and
  returns 0 exactly when the server carried it out;
* client - it sends and asks only for what the command line says, gives up in time,
  closes the connection it has, and sends each file of a directory once.

## Modules

| Module | What it is |
|---|---|
| `FileServer` | the handlers of server.c over file_utils.c and hash_utils.c |
| `FileServerProps` | the properties of `FileServer` |
| `AtomicStore` | what the server promises: every request takes effect at once |
| `FileServerRefinement` | the mapping under which `FileServer` implements it |
| `FileServerProofs` | proofs for any number of workers: types, file count, room, the mutexes a handler returns with; when their clients create different paths, who has which file, and what a handler may rely on while others run |
| `OneWorkerProofs` | proofs for one worker: what is allocated, the bytes counted and stored, and that it implements `AtomicStore` |
| `DataLemmas` | facts about strings, ordered lists and sums that several proofs use |
| `MCFileServer` | sets of requests and small constants for TLC |
| `Dispatcher` | the dispatcher, the workers, the poll array, signals; its properties |
| `DispatcherProofs` | proofs that the array never underflows and that no request is cut off, in every schedule |
| `Protocol` | one client and the server over a socket, call by call, read by read |
| `ProtocolProofs` | proofs that the two ends agree on what the bytes mean |
| `HashTable` | the buckets of hash_utils.c under the comparison of string_utils.c |
| `FileMap` | the map from paths to files that `HashTable` implements |
| `PrefixOrder` | su_string_compare and the ordered lists of list_utils.c |
| `EvictSelect` | fu_evict_files and the loop of server_evict, among other workers |
| `LibraryProofs` | proofs about both: that a file is found by its path, of the map, of what an eviction removes and why it fails |
| `Settings` | the reader of config.txt and init_server_infos |
| `SettingsProofs` | proofs, for every file, that lines count and that the start ends |
| `OpenConnection` | openConnection and a server that comes and goes |
| `DirWalk` | the walk of `-w` |
| `Client` | parseargs and main, composed of `OpenConnection` and `DirWalk` |
| `ClientProofs` | proofs about the command line, the connection and the walk |
| `MC...` | requests, calls, paths, lines, schedules and small constants for TLC |

The modules meet where the components do. The handler a worker runs is one step
of `Dispatcher`, which ends or, once a mutex was left locked, may wait for ever;
`FileServer` has its inside and assumes that a connection is in one handler at a
time, which the races of the poll array can break (see `Dispatcher` below). `FileServer` takes a
request and its answers as messages; `Protocol` has the bytes of that exchange
and takes the storage's answers as choices. `FileServer` visits victims in any
order and compares keys exactly; `EvictSelect` has the order, `HashTable` the
comparison. `Client` joins the three phases of main over one socket and one
working directory; what its calls do on the wire is `Protocol`.

### How FileServer corresponds to the code

`table` is the hash table, newest entry first; `obj`, `heap` are the file
objects and which of them are allocated; `mutex[o]` is `file->mutex`;
`storMutex`, `currFiles`, `currBytes` are the fields of the storage;
`pc`, `frame` are each worker's place in its handler and its locals; `out` is
what each client was sent for its last request.

A handler is a sequence of actions named after it: `OpenLookup` is the
`fu_getfile` of `server_openFile`, `OpenFound` and `OpenCreate`, `OpenInsert`,
`OpenStore` its two branches, and so on. A new action begins where another
thread can see or change what the handler uses: at a lock, at an unprotected
read of shared state, between the load and the store of `curr_bytes += n`, at
an exchange with the client. Two writers may therefore lose an update, and a
pointer may outlive its object: `File(w)` is then a slot outside `heap`, whose
fields are still there (glibc does not clear them) and whose mutex can be
neither locked nor unlocked (EINVAL, printed and ignored by thread_utils.h).

Abstractions, all of them deliberate:

* a lookup is one step: the walk along a bucket is not interleaved with an
  insertion or a removal, and keys are compared exactly (`su_string_compare`
  compares over the shorter length: module `HashTable`);
* the victims of an eviction are visited in any order, which includes the order
  of the code's qsort; `fu_evict_files` is the test that decides whether the
  eviction starts (`EvictSelect` has both);
* the path of a request is read together with the opcode; a client that dies
  while it is being read is one that dies after;
* a write reads the announced bytes, or, at the end of the stream, the zeros of
  the calloc'ed buffer; reads that return a proper part are in `Protocol`;
* locking flags (`O_LOCK`, `lockFile`) are ignored by the code and by the model;
* `server_removeFile` frees its path before using it: the constant `FreedKey`
  says what the freed memory may still spell;
* `ReuseSlots` says whether malloc may return a slot that held another file: it
  may in every run that must pass;
* the new object of `openFile` is allocated where the storage is locked
  (`OpenCreate`), not just before, and the loads and stores that `fu_writefile`
  makes of a file it has locked are one step with the store of `curr_bytes`.
  Nobody else sees the difference.

### How Dispatcher corresponds to the code

`arr`, `len`, `empty` are the poll array, `clientOf[w]` is `workers_clients[w]`
and `locked[w]` says whether worker `w` holds its `worker_locks`; `quit`, `hu`
are `server_quit`, `server_hu`; `at`, `loc` are every thread's place and locals,
`scan` the index of the dispatcher's loop. `conn`, `backlog` are the sockets:
which descriptors are open, whether the peer is still there, what is to be read.

`Loop`, `Poll`, `Scan...`, `Assign`, `Assigned`, `ScanNext` are
`server_dispatcher` and `assign_client`; `Top`, `Wait`, `Read`, `Serve`, `Mark`,
`Free` are `server_worker`. A handler (`Serve`) returns, and leaves `stuck` TRUE
when it left a mutex of the storage locked (server.c:966, 972); from then on any
handler may instead wait for ever (`Block`). A request that reads as 0
(server.c:245) is neither served nor its client put back (`dropped`). The poll array is used without a lock, so `pu_add`
and `pu_remove` are as many steps as they load `arr->len`: the Makefile
compiles without optimisation, and `len++` is a load and a store. The wait of
`assign_client` for a free worker is its guard; the timed wait of a worker,
whose deadline of one second after the epoch is long past, is a poll for a
client.

Left out: signals after the first (the handler thread takes one), errors of
`accept` and `poll`. When the array fills between the test of `pu_add` and its
write, the write goes behind the array: what it does there is not followed, and
the thread stops before it.

### How Protocol corresponds to the code

`c2s`, `s2c` are the two directions of the socket as units of four bytes (an
`s_message` is one, a `size_t` two), each marked with what it is and the call it
belongs to; `cOut`, `sOut` what an end has yet to write before it reads again.
The actions of the client are the calls of serverapi.c and their reads, those of
the server `server_worker` and the handlers with every read and answer. What the
storage answers is a choice, for others share it. A read takes what is there up
to what it asks for. A unit read as something it is not is taken for whatever
it could spell (`Spells`, `Answers`, `Lengths`); `sapi_get_response` at the end
of the stream leaves its answer uninitialised, which is a choice as well.

`trouble` collects the circumstances that part the two ends, as they happen:
`lockFile` or `unlockFile`; a write of nothing; a write longer than what arrives
in one read; an empty file sent to the client; one longer than what arrives in
one read; a write or append that is refused before its length is read; an
eviction for `writeFile`; an eviction for `appendToFile` whose files are not
wanted; a failed eviction; a removal that finds another file than it was asked
for, or none, under the path it freed (server.c:1194, 1214); and an append that
makes a file longer than 4 MB, for which `mu_realloc` ends the server
(mem_utils.c:30). These are eleven; the end of the server's process from outside
is one more, which `Returns` is about. `InStep`, `Truthful` and `Survives` say
that there are no others.

### How HashTable, EvictSelect and Settings correspond

`HashTable`: `table[b]` is a bucket from its head; `hu_index` is any assignment
of keys to buckets. `Lookup` and `Insert` are the two steps of `openFile`;
`RemoveFile` and `Evict` remove by the path a client names or by the victim's.
`FileMap` is the map it implements: a removal drops one file, one that equals
the path asked for as far as the shorter of the two goes.

`EvictSelect`: `fu_evict_files` sorts (qsort, unstable: any order that agrees
with `fu_evict_compare`). A turn of the loop of `server_evict` is `Pass`, or
`Choose` (the mutex of the file is free, nobody has it open), `Mark` (it has been
sent, is marked, and its mutex given back) and `Take` (`fu_remove_file`); `GiveUp`
is a client that has gone. `OtherUses`, `OtherLocks`, `OtherUnlocks` are what other workers
do meanwhile under the mutex of a file or under none.

`Settings`: the file is a sequence of lexemes; `Comment`, `EmptyLine`,
`LastLine`, `Setting` are a turn of the loop of `init_server_settings`, with the
fscanf of `get_setting` that goes over newlines, and `Stored` the widths.

### How Client corresponds to the code

`argv`, `optind`, `conf` are getopt and `client_conf`: `Operand`, `ParseExit`,
`Verbose`, `Value`, `ParseEnd` are a turn of the loop of `parseargs`. Then main
calls, in this order and whatever each returns, `openConnection` (module
`OpenConnection`: `remaining` is `remaining_time` in milliseconds, `server` what
connect meets), `write_nfiles_from_dir` (module `DirWalk`: `filelist`,
`dirlist`, the working directory `cwd`, and `left`, which is `nfiles` and
`nfilepaths`; `filestat` is what the last stat that succeeded found, and `Links`
are links that lead nowhere, for which it fails), `readNFiles` and, when it was told of a connection,
`closeConnection`. The phases share the socket - files are stored over a
connection only, also over one that main was not told of - and the options.
The sleeps of `write_files_list` and what becomes of the server after
`openConnection` has returned are left out; `Protocol` has its end.

## Runs

Twelve runs, each over several properties. Deadlock is checked in none: every
model ends, at a bound or because the program does, and where the code can hang
a liveness property says so.

### FileServer

Every instance has two clients (descriptors 4 and 5), two paths, bytes 0, 1, 2,
FILECAPACITY 2, CAPACITY 2 bytes, size_t of 3 bits. With two paths of up to two
bytes in a store of two bytes and two files every refusal, an eviction of a
victim, an eviction that frees too little and both full conditions occur; two
victims do not, for one of the two files is being written (`EvictSelect` has
three files). With several workers three file objects let an evicted and a new
file coexist; one worker needs no more than two. `MaxRequests`
bounds the requests of a behaviour: five are enough to create, open and fill
two files and evict one.

| Run | Instance | What it shows |
|---|---|---|
| `one_worker` | 1 worker, 5 requests, all operations, any freed key, slots recycled, client 5 dies and reconnects | the byte count is exact, CAPACITY is respected, a promise to store is kept, paths are unique, no freed object is used, nobody loses an open file to another client but by a removal, mutexes are released except in the two cases `ReturnsClean` names; the handlers implement `AtomicStore` |
| `sharing` | 2 workers, each client creates its own path; any 4 requests, a write or removal and an open, or 5 of clients that write only what they have open; of two idle workers, which are alike, always the same one takes a request; slots recycled, a freed key that is intact or spells no path | a path is stored once and a writer keeps its file through an announced write; every request of disciplined clients is served |
| `racing` | 2 workers, 6 requests, both create the same paths, any freed key, slots recycled, client 5 dies | types, exact file count, no double free |
| `two_writers` | 2 workers | refutes CAPACITY: `curr_bytes` is updated without the mutex |

`AtomicStore` has the fault the code handles: a client may go away at any
moment (`Leave`), which leaves its request undecided or decided unheard
(`Abandon`), may turn the rest of a write into zeros (`Garble`), and must leave
no other trace; it may come back with its descriptor (`Return`). What it cannot
promise is a removal: `server_removeFile` looks up, removes and answers by a path
it has freed. C says nothing of what that memory spells, so a removal that was
confirmed may have removed the file, another one or none, and `Remove` says no
more than that: it is confirmed to the owner and takes one file away at most. The
refinement shows that the handlers do no worse with one worker.

A write refused because the file belongs to another client returns with
`storage->mutex` locked (server.c:964-968), and then everybody waits.
`ReturnsClean` names this case, the disciplined clients of `sharing` exclude it
and show that nothing else blocks. Fairness there: weak fairness of each
worker's next step, a thread that can run does, and a mutex that stays free is
acquired. Clients are not assumed fair beyond having sent what their request
announces.

With two workers the handlers do not implement `AtomicStore`: a client can be
told ALREADY for a file that an eviction has just marked, two creations of
the same path may both succeed, and an open may be granted on another file, when
the one it found was evicted and malloc gave its memory to that other
(server.c:708-738). `UniquePaths`, `CapacityKept`,
`AccountingExact`, `PromiseKept` and `NoDangling` are likewise claimed for one
worker, `UniquePaths` also for several when clients create different paths.

### Dispatcher

Descriptors 4 and 5, listening socket 3, two connections; two slots of the poll
array have room for one of them, three for both. Three requests allow one
connection to be handed over, given back and handed over again while another is
served. Every interleaving of the dispatcher and the workers is checked.

| Run | Instance | What it shows |
|---|---|---|
| `pool` | 1 or 2 workers, 2 descriptors, 2 or 3 slots, 2 connections, 3 requests or 1 | pu_remove never takes from an empty array; the server ends only when every request taken up is answered; with one worker SIGHUP does not end it while the worker has a client |
| `ending` | 1 worker and 2 connections, or 2 workers and 1; 8 slots, 1 request | unless the server halts: the dispatcher polls again and again, a client handed over is read, SIGINT ends the server |

What is not claimed. The poll array is used without a lock, and under
interleavings that the code allows it breaks: a worker that gives its client
back before the dispatcher has taken it out (server.c:173-176) makes the
dispatcher take out the new entry, so that the client is never polled again, or
stays in the array and is handed to a second worker; two concurrent `len++` lose
one; a slot is tested by one thread and filled by another. All of this
is in `Spec`. No text of the repository says that it cannot happen, and nothing in
the code orders the two threads, so neither a run nor a theorem assumes that they
are ordered: the properties are those that survive. `NoUnderrun` is the one that
is least evident: no lost update ever makes `pu_remove` take from an array of
length 0, which would write before the array and wrap `len` around.

That SIGHUP ends the server cannot be claimed, for a lost entry may keep it from
ending. That it does not end the server while a client is served holds with one
worker: `empty` is one flag for all, set by each that is done, and with two the
dispatcher may leave while the second is still serving. `NoneCutOff` holds then
as well: the dispatcher joins the workers.

Halting. Two things stop the server for good, and `InterruptEnds` and `GoesOn`
name both: a handler waits for a mutex that another left locked (`Blocked`,
server.c:964-968), or `assign_client` looks for a worker when all have left, with
a client that none has served (`Deserted`, server.c:200 and 415).

Fairness. `FairSpec`: weak fairness of the dispatcher and of each worker, which
are threads of their own, and of the clients' disconnecting, without which a
worker waits in `read` for a request for ever, as it should. Nothing is assumed
of signals or of requests; a handler that may block is not assumed to return.

### Protocol

| Run | Instance | What it shows |
|---|---|---|
| `talk` | any call after any call, files of up to 3 units, 2 units to a read, 2 files to a readNFiles or an eviction; the server may stop at any moment; up to 3 calls, and a short one more after `lockFile` or a write has parted the ends | outside the eleven named circumstances both ends are in step between two calls, a call returns 0 exactly when the server carried it out, and nothing ends but `readNFiles`' client; every call ends, also when the server stops |
| `evicting_write` | two writes | refutes that a write for which files were evicted is carried out: writeFile still looks at the old answer (serverapi.c:602) |

Three calls are one that puts something in the way, one that trips over it and
one that shows the next call starting clean. Fairness: each end's next step.

### The others

| Run | Instance | What it shows |
|---|---|---|
| `table` | 5 words of up to 3 letters that begin with each other, 2 buckets, every assignment, 3 files, one opener | each file is found by its own path, the table implements `FileMap` |
| `evict_order` | every storage of 3 files of up to 2 bytes, 2 steps of other workers | what is removed is just enough, a failure is for need, what is open stays although the victim's mutex is given back before it is removed, the eviction ends |
| `config` | every file of up to 3 of 18 lines, with or without a last newline | the stored numbers have their width, a line that follows the rules counts, the reading ends |
| `client` | every command line of up to 3 tokens and 24 whole ones, 9 intervals, a server that turns twice, flat and nested directories, one with a link that leads nowhere | main sends and asks only for what it was told, waits no longer than abstime and one interval, closes the connection it was told of and no other, sends every file of a flat directory once; openConnection and the walk end but for the two cases below |

Two buckets suffice for a collision and its absence; three lines let one be
swallowed by the one before it and count for the one after; a directory with
names that begin with each other is what the lists of the walk could confuse.
With two threads in `openFile` (`Openers` of two) `FindsOwn` fails: a word and
one it begins with are both inserted, and a removal may take the wrong one.

Fairness: `EvictSelect`, `Settings` and `Client` have one thread that takes its
next step; the server of `Client` may stay away for ever.

## Where the code does otherwise

`two_writers` and `evicting_write` refute what the repository's texts say. The
models show more that no run of its own is spent on; most of it is behind an
exception that a property names.

* `-l`, `-u`: the server neither reads the path nor answers (server.c:1153);
  `lockFile` waits for ever. main calls neither: it carries out none of the
  lists of `-W`, `-r`, `-l`, `-u`, `-c` (client.c:31-34), which the help offers.
* `-R 0` and `-w dirname,0` do nothing; the help says all files (client.c:62,
  66-67). `AskedFor` does not decide between the two: what the number 0 asks for
  is left out of it. `-R` without a number is refused, `-w` without one crashes
  (client.c:52, 82).
* `readNFiles` takes the end marker for an error and ends the process
  (serverapi.c:478-483).
* `removeFile` answers SUCCESS after looking up a path it has freed
  (server.c:1194, 1214).
* A client in service is not in the poll array: more than CLIENT_MAX are
  accepted, although it is the "Maximum number of connected clients"
  (server_settings_rules.txt:9), and the one that then finds no room is dropped
  (server.c:158, 257).
* A client that sends a request of 0 is neither served nor polled again
  (server.c:245).
* Appends that each arrive whole end the server when the file passes 4 MB
  (file_utils.c:369, mem_utils.c:30).
* A connection made after the last sleep is reported as none (serverapi.c:320).
* Without `-t`, or with a negative one, `openConnection` tries for ever.
* A relative `-w` directory is walked and its files are not found
  (dir_utils.c:39); a directory of directories only is walked for ever
  (client.c:241); a link that leads nowhere is taken for what was found before it
  (dir_utils.c:56).
* A path that begins with a stored one, or the other way round, in the same
  bucket, is taken for it (string_utils.c:133).
* A setting without a value takes the next line's word, a comment's too
  (server.c:546); CAPACITY 4096 is 0 (server.c:560).
* SIGINT while a worker has just been assigned a client: the worker leaves at
  server.c:200 without serving it. With one worker and two clients
  `assign_client` then finds the only worker neither locked nor free
  (server.c:415-419), goes round for ever, and the server does not end.

## Proofs

Everything here holds for any sets of workers, clients, paths, requests, keys,
files and objects and for any limits. It is proved from the assumptions that
the modules make of their constants and from what a theorem states before
PROVE.

| Module | Theorem | Assumes | Shows |
|---|---|---|---|
| `FileServerProofs` | `TypeCorrect` | | `TypeOK` |
| | `FileCountCorrect` | | `FileCount` |
| | `NoDoubleFreeCorrect` | | `NoDoubleFree` |
| | `ReturnsCleanCorrect` | | `ReturnsClean` |
| | `OneOwnerCorrect` | own paths; `"other" \notin FreedKey` | `OneOwner` |
| | `OwnershipKeptCorrect` | own paths; `"other" \notin FreedKey` | `OwnershipKept` |
| `OneWorkerProofs` | `UniquePathsCorrect` | one worker | `UniquePaths` |
| | `NoDanglingCorrect` | one worker | `NoDangling` |
| | `WriterOwnsCorrect` | one worker | `WriterOwns` |
| | `AccountingExactCorrect` | exactly one worker | `AccountingExact` |
| | `CapacityKeptCorrect` | one worker | `CapacityKept` |
| | `PromiseKeptCorrect` | one worker | `PromiseKept` |
| | `ImplementsAtomicStoreCorrect` | one worker | `ImplementsAtomicStore` |
| `DispatcherProofs` | `NoUnderrunCorrect` | | `NoUnderrun` |
| | `NoneCutOffCorrect` | | `NoneCutOff` |
| | `ShutdownServesCorrect` | | `ShutdownServes`, which speaks of one worker |
| `ProtocolProofs` | `AlwaysAgreed` | | `Conversation` |
| | `InStepCorrect` | | `InStep` |
| | `TruthfulCorrect` | | `Truthful` |
| | `SurvivesCorrect` | | `Survives` |
| `LibraryProofs` | `FindsOwnCorrect` | one opener | `FindsOwn` |
| | `IsMapCorrect` | one opener | `IsMap` |
| | `EndsRightCorrect` | | `EndsRight` |
| | `FailsForNeedCorrect` | | `FailsForNeed` |
| | `LeavesOpenCorrect` | | `LeavesOpen` |
| | `EvictionDescends` | | each step of an eviction leaves less to do, none of the others more |
| `SettingsProofs` | `SettingsTyped` | | `TypeOK` |
| | `EveryLineCounts` | | `LinesCount` |
| | `StartDescends` | | each step of the start leaves less to do |
| `ClientProofs` | `InTimeCorrect` | | `InTime` |
| | `ToldCorrect` | | `Told` |
| | `AskedForCorrect` | | `AskedFor` |
| | `AllSentCorrect` | | `AllSent` |

"One worker" and "one opener" are the settings that config.txt and the tests
use and the conditions under which the runs check the same properties: with
two, TLC finds each of these properties violated. "Own paths" is `Undisputed`:
there is one worker, or no path is created by two clients; any number of workers
serve them, and they may open, read, evict and remove each other's files. TLC
finds a path stored twice when two clients may create it. `FreedKey` is what the
memory may still spell that `server_removeFile` has freed before it uses it. C
says nothing of that, and the theorems for one worker hold for whatever it is.
With several workers `"other"` is left out: a removal that takes another path
for its own may take the file away from under a writer (`OneOwner`), or leave a
handler of a third client with it (`Relies`, on which `OwnershipKept` rests). Two
assumptions about constants serve the refinement only: the length of what is
written is a `size_t` (in `FileServerAssumption`), and the mark for "no request"
is no request (`RefinementAssumption`).

**Any number of workers.** `FileCount` is not inductive: the insertion of a new
file relies on the room that `server_openFile` saw one step earlier. The
invariant `IInv` adds

* `Room`: a worker about to insert still has room for one file;
* `Exclusive`: a worker between lock and unlock of `storage->mutex` is the one
  that holds it - so no other insertion can use up that room;
* `LocalsOK`: a handler that uses its file, its victim or its request has one.

Each of the lemmas `LocalsStep`, `ControlStep`, `StorageStep`, `OutStep`
establishes a part of `IInv'` with one step per action of the model; `NextInv`
puts them together and `InvCorrect` closes the induction. `ReturnsClean` follows
from the places a handler returns from: `CleanStep` goes through those where
something is locked.

**One worker.** The invariant `OInv` says what the worker may rely on, place by
place: the path that `openFile` did not find is still not there when it inserts
(`Absent`); what is allocated is what is stored, but for the object about to be
inserted (`HeapStored`); the file of a handler is allocated, is the one its
request names and is open by its client (`Points`, `Named`, `Owned`); the file
that is written is locked (`Held`), which is what keeps an eviction from taking
it, and the victim is stored and marked (`VictimMarked`). Uniqueness and the rest
need each other: that the entry `fu_remove_file` finds under the victim's path is
the victim's (`EvictUnlinkStep`) follows from `UniquePaths`, and that nothing is
inserted twice from a lookup that finds nothing only when nothing is there
(`NothingNewest`, by the least position that has the path). `OInv` does not
depend on what the freed key of `removeFile` finds, nor on whether malloc
recycles.

**Several workers.** A file that a handler has found may be evicted, closed or
removed by another before the handler locks it, and nearly everything `OInv`
says of it fails. What does not is what its client has: a file with a client is
closed, evicted and, unless the freed key spells another path, removed for that
client only, so the file of a writer is
kept by being the client's, not by the mutexes its handler holds. `SInv` says
this place by place (`Relies`): a handler that tested the client of its file
may rely on it (`Has`), and on its path (`Knows`); one that found a file knows
that it was given that path (`Finds`); one about to insert knows that the path
it did not find is still not there (`Creates`), for no other worker creates
that path (`Undisputed`); and an eviction keeps its mark (`Marks`). The rest is
`Apart` - a client is served by one worker at a time - and `Allocated`, `UniquePaths`. `Mild` is what a step of
one worker leaves to all the others: no file of another client is touched,
none is added but the one it was asked to create, and none is removed without
`storage->mutex`. `OthersRely` shows that the other workers may go on relying on
what they did, `TheMover` that nothing else is needed, and `HandleShared` goes
through the actions: each is mild, and its worker may rely on what its new place
says. One worker is a special case: `OneWorkerProofs` starts from `SInv`'s
lemmas about the table.

**The bytes.** `curr_bytes` is wrong for a while in every operation that changes
it: the code loads it, computes and stores it later. `CInv` says by how much,
place by place. `Counted`: between the two halves of `fu_remove_file` the value
about to be stored is the right one, everywhere else `curr_bytes` is. `Pending`:
what a creation or a write is about to store is the old count with the file
replaced. `Short` and `Freeing`: an eviction starts for want of room, and
`bytes_to_free` is at every turn what is still missing, zero only when the write
fits. `Promised`: from the answer to the end of the write there is room for what
was announced, whatever of it arrives. No counter wraps: `NewBytesExact` and
`LoweredCounts` show that the additions and subtractions modulo `SizeMod` are
those of the integers.

The sums of bytes are `MapThenSumSet` of the community modules, a recursion over
finite sets. `DataLemmas` proves that it does not depend on the order (`AddsExists`,
`AddsIsSum`) and how it changes with an element more, less or changed
(`SumAdd`, `SumRemove`, `SumChange`). As a theorem with an operator for a
parameter cannot be used, induction over finite sets is made by a least set for
which a statement fails (`SubsetsWellFounded`, `SetInduction`).

**The refinement.** `ImplementsAtomicStore` needs `IInv`, `OInv`, `CInv` and
`RInv`: a stored file has a path (`Entered`), the place of a handler tells the
operation it was asked for (`Asked`), the object being made is its client's
(`Mine`), what the client has been sent so far (`Answered`), and the only
stored file that is marked is the victim about to be unlinked (`Marked`). The
lemmas `Bars...` say what a step does to `PendingBar` and `LastBar`, the lemmas
`File...` what it does to `FilesBar`; then one lemma for each action says which
step of `AtomicStore` it is:

| Actions of `FileServer` | Step of `AtomicStore` |
|---|---|
| `Receive`, `Die`, `Reconnect` | `Call`, `Leave`, `Return` |
| `OpenFound`, `OpenInsert` | `Open` or, when refused, `Refuse` |
| `CloseFound` | `Close` or `Refuse` |
| `ReadFound`, `ReadNEnd` | `Read` or `Refuse`, `ReadN` |
| `WriteData`, `WriteStore` | `Garble` when the client has gone, `Write` |
| `EvictTake` | `Evict` |
| `RemoveUnlink` | `Remove` |
| a refusal anywhere (`...NotFound`, `OpenCreate`, `EvictStart`, `EvictEnd`) | `Refuse` |
| any of them when the client has gone | `Abandon` or a stutter |
| all the others | a stutter |

`NextImplements` goes through them. What a refusal needs is the hard part: that
the storage is full for the abstract store when it is for the code follows from
`NumberSeen` and `BytesSeen`, by the sums.

**The dispatcher.** Nothing orders the threads, so the invariant cannot say which
descriptors are in the array. What it does say is what each thread still knows of
the length when the others have changed it (`Lengths`): only the dispatcher
lowers `len`, and what a worker stores, however old, is at least 1. What is left
is an array of length 0 that is not empty for `pu_isempty`, because a client is
in service: `pu_remove` then looks at the first place all the same, and must not
find the descriptor there. On SIGHUP the dispatcher asks for the listening socket
at every turn, and `ListenFirst` says that it is in the first place or nowhere
and that, while it is there, `len` and every length loaded for a store leave it
inside the array. There is one
lemma for the places of each part (`AddArray`, `RemoveArray`, `ScanArray`,
`WorkArray`, `OutsideArray`), with one step for each action. `JobsInv` is about
the clients: a request that was taken up has a worker that serves it (`Serving`),
only a worker that was spawned has one (`Crewed`), the dispatcher ends when all
are gone (`AllGone`), and with one worker `empty` is false as long as it has a
client (`EmptyTrue`), but for the moment between the handover and the store.

**The conversation.** `InStep`, `Truthful` and `Survives` speak of one call;
what makes them true is that at every moment, in the middle of a read as well,
both ends would parse what is under way in the same manner. `Conversation` says
this for as long as `trouble` is empty. It follows the data through the socket:
`Carried(s, out, ms)` holds when the messages `ms` are what is in the stream `s`,
one after the other, followed by those of `out`, which are still to be written.
Writing one, announcing one and reading a whole one keep this in a known way
(`CarryWrite`, `CarrySay`, `CarryRead`). `CarryRead` says that a stream with
anything in it begins with a whole message: a read that asks for the length of
that message takes it and no part of the next, and all that is left to show is
that each end asks for what the other sent. `Heard` is what a message does to
the client at one place of a call, `Chain` the places a list of messages leads
it through. At any time one end talks (`Talk`): nobody, between two calls
(`Resting`); the client, whose words are what the place of the server calls for,
with nothing on its way back (`Asking`); or the server, and the `Chain` from the
client's `Place` by the messages under way ends where the server is (`Fits`).
There is one lemma for each action (`...Agrees`), and `StaysAgreed` puts them
together. The theorems cover any number of calls, any lengths of paths, files and
writes, and every order in which the two ends write and read; the run has three
calls and two or three units. They are about `Spec` and hold for the run's
`TalkSpec`, whose steps are among its own. What they leave out is what `trouble`
collects, the circumstances listed under "How Protocol corresponds to the code":
among them writes and files that do not arrive in one read, and the removal that
missed its file: `Truthful` says of `removeFile` only that 0 is right as long as
the freed path is what it was.

**The eviction.** `EInv`: `rest` is what is missing of `need` after the bytes of
the files removed or about to be (`Remaining`), every removed file was passed and
marked (`Passed`), the last one removed was needed (`LastNeeded`), and as long as
no other worker moves none that might be taken was left behind (`NoneLost`). The
victim is nobody else's from its choice to its removal because of its mutex
first and then, when that has been given back, because of its mark (`Kept`): that
is what `LeavesOpen` rests on. The order of the victims matters for none of this.
`EvictionDescends` is the safety half of `EvictionEnds`: `StepsLeft` is a natural
number, 0 only at an end (`StepsLeftTyped`), that every step of the eviction
lowers and no step of the other workers raises.

**The table.** `su_string_compare` is not an order: a word equals each that it
begins with, which is not transitive. `Precedes` is what it decides otherwise - a
first difference - and that is transitive; a bucket is increasing by it
(`Increasing`), which says also that no key in it begins with another. Then
there is one place where a lookup, an insertion and a removal stop
(`Navigated`, `StopsAtEqual`), insertion and removal keep the order
(`BucketInsert`, `BucketRemove`), and what a lookup finds under a stored file's
own key is that file (`HitIs`, `OwnFound`). `IsMap` reads the map off the
buckets (`MapReads`); a removal by a path that only begins like a stored one is
`FileMap`'s removal of that one.

**The settings.** The file is any number of any lines, of any lexemes
(`SettingsAssumption` says what a line is: only a word names a setting, numbers
have no sign, two runs of blanks do not meet). `FlattenSeq` puts the lines
together; its recursive function is shown to exist by induction on the number of
lines (`JoinsExists`), and `Lays` to say where each line begins in the text
(`LaysMore`, `Flattened`), `Starts` and `EndOf` being these places. The reader
knows no lines, it only has `pos`. `SInv` says that between two turns `pos` is
where a line begins or at the end (`AtLine`: `SkipIs`, server_skipline passes
over no beginning of a line), that what no line so far names is as it was at
first (`Unset`, which is what makes a name written over the old characters the
new name and nothing more), and that each line that counts and begins before
`pos` has its value in the settings (`Counted`). The step that matters is the
fscanf of `get_setting`, which goes over newlines: if the line where it ends up
follows the rules, there was nothing but blanks between, so the line it came
from is unfinished and so are the lines between (`NothingBetween`), and the
line was not promised to count (`NoneSwallowed`). `StartDescends` is the safety
half of `StartEnds`: `Rank`, a natural number, is less after each step.

**The client.** The time slept and `remaining_time` add up to at most `abstime`
(`Budget`), a server that was there from the start is met by the first attempt
(`FirstTry`), and the socket follows what main was told (`Connected`).

`WInv` follows the walk of `-w`. Each member of `client_conf` that main acts on
comes from a token behind its option (`LineRead`); what was sent, what is in the
list and what is left add up to the number given (`Counted`); every path that is
met lies below the directory that was named (`Within`). For a directory that
holds only files `FlatWalk` says in every phase that the names still to be read,
the list and what was sent make up the directory, and `Distinct` that no path
comes twice: that is where the lists need a lemma (`ListInserted`), for
`lu_insert` keeps an element that equals one of the list, as those do that begin
with another. `FlatNames` - what lies below such a directory is what `readdir`
returns - needs the file tree to be one (`TreeAssumption`).

Every safety property that a run checks is proved. Only model-checked is
liveness, which is out of this prover's reach: `Served` of `FileServer`,
`InterruptEnds`, `GoesOn` and `HandedIsRead` of `Dispatcher`, `Returns` of
`Protocol`, `EvictionEnds`, `StartEnds`, and `GivesUp` and `WalkEnds` of
`Client`.

## Not modelled

* fu_file_read, fu_file_write, fu_ensure_path: input and output of whole files.
* au_remove, au_extends, au_shrinks and the searches of array_utils.c, and the
  client's functions for its lists: nothing in the program calls them.
* The growing strings of string_utils.c and the wrappers of libc: what they are
  used for is part of the operation that uses them.
* tester.c and the TEST tree: scratch programs that the server does not link.
* Logging and printing, everywhere. Failures of socket, bind, listen and poll,
  but for their effect on the start of the server.

## Plan

1. A weaker abstract store that several workers implement, with the refinement
   checked for two.
2. `Dispatcher` with the handlers of `FileServer` inside, for one worker: what a
   client sees of a shutdown in the middle of its request.
3. Theorems: that the calls of `Protocol` and the handlers of `FileServer`
   descend as the start of the server does.
