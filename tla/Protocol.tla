------------------------------ MODULE Protocol ------------------------------
(***************************************************************************)
(* The conversation of one client of serverapi.c with the server over one  *)
(* stream socket.  Nothing on the wire is framed: both ends agree, or not, *)
(* on how many bytes come next.  A stream is a sequence of units, 4 bytes  *)
(* each: an s_message is one unit, a size_t two, a path and a file as many *)
(* as they have.  read() takes what is there, up to what it is asked for,  *)
(* and waits only when nothing is.                                         *)
(*                                                                         *)
(* What the storage answers is a choice: other clients share it.  An end   *)
(* that reads units meant for something else takes them for what they      *)
(* could spell.  `trouble` collects, as they happen, the circumstances     *)
(* under which the two ends part; the properties say that there are no     *)
(* others.                                                                 *)
(***************************************************************************)
EXTENDS Integers, Sequences, SequencesExt, FiniteSets

CONSTANTS
  Calls,       \* the calls of the API the client makes
  MaxCalls,    \* bound: calls in one behaviour
  PathLen,     \* units of a path
  MaxData,     \* bound: units of a file
  MaxFiles,    \* bound: files sent by one readNFiles or one eviction
  Chunk,       \* units of the longest write that arrives in one piece
  Long,        \* a length read from bytes that are no length
  CanStop      \* may the server's process end at any moment?

Ops == {"OPEN", "CLOSE", "READ", "READN", "WRITE", "APPEND", "LOCK",
        "UNLOCK", "REMOVE", "OTHER"}
Codes == {"SUCCESS", "FAILURE", "EVICT", "FNF", "LOCKED", "ALREADY"}

\* A call: its operation, the units of its data, whether dirname is given
\* for files to be stored, the N of readNFiles.
Call == [op : Ops \ {"OTHER"}, size : Nat, dir : BOOLEAN, n : Nat]

ASSUME ProtocolAssumption ==
  /\ Calls \subseteq Call
  /\ MaxCalls \in Nat \ {0} /\ PathLen \in Nat \ {0}
  /\ MaxData \in Nat \ {0} /\ MaxFiles \in Nat /\ Chunk \in Nat \ {0}
  /\ Long \in Nat /\ Long > MaxData /\ Long > PathLen
  /\ \A c \in Calls : c.size < Long /\ c.n < Long
  /\ CanStop \in BOOLEAN

VARIABLES
  c2s, s2c,    \* units in the socket, towards the server and the client
  cOut, sOut,  \* what either end has yet to write before it reads again
  client,      \* the client: its call, where it is in it, what it returned
  server,      \* the server: where it is, for which request
  ncalls,      \* the number of the current call
  done,        \* calls the server carried out as they were asked
  trouble      \* circumstances met that part the two ends

vars == <<c2s, s2c, cOut, sOut, client, server, ncalls, done, trouble>>

-----------------------------------------------------------------------------
(* Units and messages.  `of` is the call a unit belongs to.                *)

Unit(is, v) == [is |-> is, v |-> v, of |-> ncalls]
Request(op, len) == <<Unit(op, len)>>
Len8(n) == <<Unit("num", n), Unit("hi", 0)>>
Path == [i \in 1..PathLen |-> Unit("path", 0)]
Data(n) == [i \in 1..n |-> Unit("data", 0)]
Code(c) == <<Unit(c, 0)>>

\* A write longer than a chunk arrives in pieces.
Pieces(m) == IF Len(m) > Chunk
             THEN <<SubSeq(m, 1, Chunk), SubSeq(m, Chunk + 1, Len(m))>>
             ELSE <<m>>

\* A file as both ends send it: its length, then its bytes; server_send_data
\* sends nothing of an empty one.
File(n) == IF n = 0 THEN <<>> ELSE <<Len8(n)>> \o Pieces(Data(n))

AtMost(stream, n) == IF n < Len(stream) THEN n ELSE Len(stream)
Taken(stream, n) == SubSeq(stream, 1, AtMost(stream, n))
Left(stream, n) == SubSeq(stream, AtMost(stream, n) + 1, Len(stream))

\* The requests a unit spells: the operation and the length of what follows.
\* A flag is no operation; any other length or text may be any, and data of
\* zeros none.
Spells(u) ==
  IF u.is \in Ops THEN {[op |-> u.is, len |-> u.v]}
  ELSE IF u.is \in {"num", "hi"} /\ u.v = 0 THEN {[op |-> "NONE", len |-> 0]}
  ELSE IF u.is = "num" /\ u.v = 1 THEN {[op |-> "OTHER", len |-> 0]}
  ELSE {r \in [op : Ops \cup {"NONE"}, len : {0, Long}] :
          r.op = "NONE" => u.is = "data" /\ r.len = 0}

\* The answers a unit may be taken for, and the lengths two units are.
Answers(u) ==
  IF u.is \in Codes THEN {u.is}
  ELSE IF u.is \in {"num", "hi"} /\ u.v = 0 THEN {"SUCCESS"}
  ELSE {"SUCCESS", "EVICT", "FAILURE"}
IsLength(m) == Len(m) = 2 /\ m[1].is = "num" /\ m[2].is = "hi"
Lengths(m) == IF IsLength(m) THEN {m[1].v} ELSE {0, 1, Long}

-----------------------------------------------------------------------------
(* The state.                                                              *)

NoCall == [op |-> "OTHER", size |-> 0, dir |-> FALSE, n |-> 0]

\* The server between two requests.
Polling == [at |-> "poll", op |-> "OTHER", of |-> 0, ok |-> TRUE, need |-> 0,
            back |-> FALSE, files |-> 0, freed |-> FALSE, held |-> FALSE]

Init ==
  /\ c2s = <<>> /\ s2c = <<>> /\ cOut = <<>> /\ sOut = <<>>
  /\ client = [call |-> NoCall, at |-> "idle", need |-> 0, ret |-> 0]
  /\ server = Polling
  /\ ncalls = 1 /\ done = {} /\ trouble = {}

Up == server.at # "down"

\* What a call meets by what it asks for.
Risks(call) ==
  {t \in {"lock", "empty write", "long write"} :
     \/ t = "lock" /\ call.op \in {"LOCK", "UNLOCK"}
     \/ t = "empty write" /\ call.op = "WRITE" /\ call.size = 0
     \/ t = "long write" /\ call.size > Chunk}

\* What a file of n units meets on its way to the client.
FileRisks(n) ==
  {t \in {"empty file", "long file"} :
     \/ t = "empty file" /\ n = 0
     \/ t = "long file" /\ n > Chunk}

-----------------------------------------------------------------------------
(* The client's calls: each writes what it has to say, then reads.         *)

Start(call, messages, at, ret) ==
  /\ client.at = "idle" /\ ncalls <= MaxCalls
  /\ client' = [client EXCEPT !.call = call, !.at = at, !.ret = ret]
  /\ cOut' = messages
  /\ trouble' = trouble \cup Risks(call)
  /\ UNCHANGED <<c2s, s2c, sOut, server, ncalls, done>>

\* A call that names a file and waits for one answer.
PathCall(call) == Start(call, <<Request(call.op, PathLen), Path>>, "answer", 0)

openFile(call)   == call.op = "OPEN"   /\ PathCall(call)
closeFile(call)  == call.op = "CLOSE"  /\ PathCall(call)
removeFile(call) == call.op = "REMOVE" /\ PathCall(call)
lockFile(call)   == call.op = "LOCK"   /\ PathCall(call)
unlockFile(call) == call.op = "UNLOCK" /\ PathCall(call)
readFile(call)   == call.op = "READ"   /\ PathCall(call)

readNFiles(call) ==
  /\ call.op = "READN"
  /\ \/ call.n = 0 /\ Start(call, <<>>, "ret", 0)
     \/ call.n > 0 /\ ~call.dir /\ Start(call, <<>>, "ret", -1)
     \/ call.n > 0 /\ call.dir
        /\ Start(call, <<Request("READN", call.n)>>, "plen", 0)

WriteRequest(call) == <<Request(call.op, PathLen), Path, Len8(call.size)>>

\* The file to be written is read first: when it cannot be, nothing is asked.
writeFile(call) ==
  /\ call.op = "WRITE"
  /\ \/ Start(call, <<>>, "ret", -1)
     \/ Start(call, WriteRequest(call), "answer", 0)

appendToFile(call) ==
  /\ call.op = "APPEND"
  /\ \/ call.size = 0 /\ Start(call, <<>>, "ret", 0)
     \/ call.size > 0 /\ Start(call, WriteRequest(call), "answer", 0)

\* One write() of the client; without a reader it kills the client.
ClientWrite ==
  /\ cOut # <<>> /\ client.at # "gone"
  /\ IF Up
     THEN /\ c2s' = c2s \o Head(cOut) /\ cOut' = Tail(cOut)
          /\ UNCHANGED client
     ELSE client' = [client EXCEPT !.at = "gone"] /\ UNCHANGED <<c2s, cOut>>
  /\ UNCHANGED <<s2c, sOut, server, ncalls, done, trouble>>

Return ==
  /\ client.at = "ret" /\ cOut = <<>>
  /\ client' = [client EXCEPT !.at = "idle", !.call = NoCall, !.ret = 0]
  /\ ncalls' = ncalls + 1
  /\ UNCHANGED <<c2s, s2c, cOut, sOut, server, done, trouble>>

-----------------------------------------------------------------------------
(* The client's reads.                                                     *)

At(at, need) == [client EXCEPT !.at = at, !.need = need]
Ret(code) == [client EXCEPT !.at = "ret", !.need = 0,
                            !.ret = IF code = "SUCCESS" THEN 0 ELSE -1]
Gone == At("gone", 0)

\* The client, at a read of n units, takes them, becomes c and has out to say.
Waiting(at) == client.at = at /\ cOut = <<>> /\ (s2c # <<>> \/ ~Up)
Reads(n, c, out) ==
  /\ s2c' = Left(s2c, n) /\ client' = c /\ cOut' = out
  /\ UNCHANGED <<c2s, sOut, server, ncalls, done, trouble>>

\* sapi_get_response: with nothing to read, message is left as it was.
Response == IF s2c = <<>> THEN {"SUCCESS", "EVICT", "FAILURE"}
            ELSE Answers(Head(s2c))

PathAnswered ==
  /\ Waiting("answer")
  /\ client.call.op \in {"OPEN", "CLOSE", "REMOVE", "LOCK", "UNLOCK"}
  /\ \E m \in Response : Reads(1, Ret(m), <<>>)

ReadAnswered ==
  /\ Waiting("answer") /\ client.call.op = "READ"
  /\ \E m \in Response :
       Reads(1, IF m = "SUCCESS" THEN At("dlen", 0) ELSE Ret(m), <<>>)

\* writeFile goes on only when m is SUCCESS: after an eviction it is EVICT.
WriteAnswered ==
  /\ Waiting("answer") /\ client.call.op = "WRITE"
  /\ \E m \in Response :
       CASE m = "SUCCESS" /\ client.call.size > 0 ->
              Reads(1, At("final", 0), Pieces(Data(client.call.size)))
         [] m = "SUCCESS" /\ client.call.size = 0 ->
              Reads(1, Ret("FAILURE"), <<>>)
         [] m = "EVICT" /\ client.call.dir ->
              Reads(1, At("more", 0), <<Len8(1), Len8(1)>>)
         [] m = "EVICT" /\ ~client.call.dir ->
              Reads(1, Ret(m), <<Len8(0)>>)
         [] OTHER -> Reads(1, Ret(m), <<>>)

\* The answer that the files are wanted is given twice, as in writeFile.
AppendAnsweredTwice ==
  /\ Waiting("answer") /\ client.call.op = "APPEND"
  /\ \E m \in Response :
       LET data == Pieces(Data(client.call.size)) IN
       CASE m = "SUCCESS" -> Reads(1, At("final", 0), data)
         [] m = "EVICT" /\ client.call.dir ->
              Reads(1, At("more", 0), <<Len8(1), Len8(1)>>)
         [] m = "EVICT" /\ ~client.call.dir ->
              Reads(1, At("final", 0), <<Len8(0)>> \o data)
         [] OTHER -> Reads(1, Ret(m), <<>>)

AppendAnswered ==
  /\ Waiting("answer") /\ client.call.op = "APPEND"
  /\ \E m \in Response :
       LET data == Pieces(Data(client.call.size)) IN
       CASE m = "SUCCESS" -> Reads(1, At("final", 0), data)
         [] m = "EVICT" /\ client.call.dir ->
              Reads(1, At("more", 0), <<Len8(1)>>)
         [] m = "EVICT" /\ ~client.call.dir ->
              Reads(1, At("final", 0), <<Len8(0)>> \o data)
         [] OTHER -> Reads(1, Ret(m), <<>>)

\* The answer is read and not looked at.
FinalUnseen ==
  Waiting("final") /\ \E m \in Response : Reads(1, Ret("SUCCESS"), <<>>)

Final ==
  /\ Waiting("final")
  /\ \E m \in Response : Reads(1, Ret(m), <<>>)

\* The loop of sapi_evict, which returns 0 at any answer but EVICT.
sapi_evict ==
  /\ Waiting("more")
  /\ \E m \in Response :
       CASE m = "EVICT" -> Reads(1, At("plen", 0), <<>>)
         [] m # "EVICT" /\ client.call.op = "APPEND" ->
              Reads(1, At("final", 0), Pieces(Data(client.call.size)))
         [] OTHER -> Reads(1, Ret("EVICT"), <<>>)

\* An empty path ends sapi_evict with an error and readNFiles' process;
\* so does a length above what mem_utils allocates.
sapi_get_path ==
  \/ /\ Waiting("plen")
     /\ \E n \in (IF s2c = <<>> THEN {0} ELSE Lengths(Taken(s2c, 2))) :
          \/ n > 0 /\ Reads(2, At("path", n), <<>>)
          \/ /\ n = 0
             /\ Reads(2, IF client.call.op = "READN" THEN Gone
                         ELSE Ret("FAILURE"), <<>>)
          \/ n = Long /\ Reads(2, Gone, <<>>)
  \/ Waiting("path") /\ Reads(client.need, At("dlen", 0), <<>>)

\* After a file: the next one, or the end of readFile.
AfterFile(code) ==
  CASE client.call.op = "READ"  -> Ret(code)
    [] client.call.op = "READN" -> At("plen", 0)
    [] OTHER -> At("more", 0)

sapi_get_data ==
  \/ /\ Waiting("dlen")
     /\ \E n \in Lengths(Taken(s2c, 2)) :
          \/ n > 0 /\ Reads(2, At("data", n), <<>>)
          \/ n = 0 /\ Reads(2, AfterFile("FAILURE"), <<>>)
          \/ n = Long /\ Reads(2, Gone, <<>>)
  \/ Waiting("data") /\ Reads(client.need, AfterFile("SUCCESS"), <<>>)

-----------------------------------------------------------------------------
(* The server: the worker that reads a request and its handler.            *)

Serving(at) == server.at = at /\ sOut = <<>>
Idle == [Polling EXCEPT !.held = server.held]

\* The handler takes n units, becomes s and has out to say; `won` when the
\* request it was sent is thereby carried out.
Takes(n, s, out, won, risks) ==
  /\ c2s' = Left(c2s, n) /\ server' = s /\ sOut' = out
  /\ done' = IF won THEN done \cup {server.of} ELSE done
  /\ trouble' = trouble \cup risks
  /\ UNCHANGED <<s2c, cOut, client, ncalls>>
Answer(c, won, risks) == Takes(server.need, Idle, <<Code(c)>>, won, risks)

\* Are the next n units what the client sent for them, of this request?
Meant(is, n) ==
  /\ server.ok /\ Len(c2s) >= n
  /\ \A i \in 1..n : c2s[i].is = is /\ c2s[i].of = server.of

\* A request that is zero leaves the client out of the poll array for good;
\* lockFile and unlockFile neither read the path nor answer.
server_worker ==
  /\ Serving("poll") /\ c2s # <<>>
  /\ \E r \in Spells(Head(c2s)) :
       LET s == [Idle EXCEPT !.op = r.op, !.need = r.len, !.of = Head(c2s).of,
                             !.ok = Head(c2s).is \in Ops]
           Become(at) == Takes(1, [s EXCEPT !.at = at], <<>>, FALSE, {})
       IN CASE r.op = "NONE"  -> Become("dropped")
            [] r.op = "OTHER" -> Takes(1, Idle, <<Code("FAILURE")>>, FALSE, {})
            [] r.op \in {"LOCK", "UNLOCK"} -> Takes(1, Idle, <<>>, FALSE, {})
            [] r.op = "READN" -> Become("files")
            [] OTHER -> Become("path")

\* server_get_path: an empty path is not waited for.
GotPath(ops) ==
  Serving("path") /\ server.op \in ops /\ (server.need = 0 \/ c2s # <<>>)
PathMeant == server.need = PathLen /\ Meant("path", PathLen)

server_openFile ==
  /\ GotPath({"OPEN"})
  /\ \E c \in {"SUCCESS", "FNF", "ALREADY", "FAILURE"} :
       /\ c = "FAILURE" => ~server.held
       /\ Answer(c, c = "SUCCESS" /\ PathMeant, {})

\* LOCKED is answered and the handler goes on.
server_closeFile_on ==
  /\ GotPath({"CLOSE"})
  /\ \/ Answer("SUCCESS", PathMeant, {}) \/ Answer("FNF", FALSE, {})
     \/ Takes(server.need, Idle, <<Code("LOCKED"), Code("SUCCESS")>>, FALSE, {})

server_closeFile ==
  /\ GotPath({"CLOSE"})
  /\ \E c \in {"SUCCESS", "FNF", "LOCKED"} :
       Answer(c, c = "SUCCESS" /\ PathMeant, {})

\* fu_remove_file gets the path that was freed, which may have become another
\* one, and what it returns is not looked at: the file may stay.
server_removeFile ==
  /\ GotPath({"REMOVE"}) /\ ~server.held
  /\ \/ \E c \in {"SUCCESS", "FNF", "LOCKED"} :
          Answer(c, c = "SUCCESS" /\ PathMeant, {})
     \/ Answer("SUCCESS", FALSE, {"freed path"})

server_readFile ==
  /\ GotPath({"READ"})
  /\ \/ \E c \in {"FNF", "LOCKED"} : Answer(c, FALSE, {})
     \/ \E n \in 0..MaxData :
          Takes(server.need, Idle, <<Code("SUCCESS")>> \o File(n),
                PathMeant, FileRisks(n))

\* No end marker after the last file asked for.
server_readNFiles_open ==
  /\ Serving("files") /\ ~server.held
  /\ \/ /\ server.need > 0 /\ server.files < MaxFiles
        /\ \E n \in 1..MaxData :
             Takes(0, [server EXCEPT !.need = @ - 1, !.files = @ + 1],
                   <<Len8(PathLen), Path>> \o File(n), FALSE, FileRisks(n))
     \/ Takes(0, Idle, IF server.need = 0 THEN <<>> ELSE <<Len8(0)>>,
              server.ok, {})

\* Files without data, and files a worker is busy with, are passed over.
server_readNFiles ==
  /\ Serving("files") /\ ~server.held
  /\ \/ /\ server.need > 0 /\ server.files < MaxFiles
        /\ \E n \in 1..MaxData :
             Takes(0, [server EXCEPT !.need = @ - 1, !.files = @ + 1],
                   <<Len8(PathLen), Path>> \o File(n), FALSE, FileRisks(n))
     \/ Takes(0, Idle, <<Len8(0)>>, server.ok, {})

\* A refused write answers before it reads the length the client has sent; for
\* a file the client has not open it also leaves the storage mutex locked.
server_writeFile ==
  /\ GotPath({"WRITE", "APPEND"}) /\ ~server.held
  /\ \/ Answer("FNF", FALSE, {"refused write"})
     \/ Takes(server.need, [Idle EXCEPT !.held = TRUE], <<Code("LOCKED")>>,
              FALSE, {"refused write"})
     \/ Takes(server.need, [server EXCEPT !.at = "len", !.ok = PathMeant],
              <<>>, FALSE, {})

\* A length cut short makes the handler return with both mutexes locked.
WriteLen ==
  /\ Serving("len") /\ c2s # <<>>
  /\ LET good == IsLength(Taken(c2s, 2)) /\ server.ok
                 /\ c2s[1].of = server.of
         Then(at, n, code, risks) ==
           Takes(2, [server EXCEPT !.at = at, !.need = n, !.ok = good],
                 <<Code(code)>>, FALSE, risks)
     IN \/ /\ Len(c2s) = 1
           /\ Takes(2, [Idle EXCEPT !.held = TRUE], <<Code("FAILURE")>>,
                    FALSE, {})
        \/ /\ Len(c2s) > 1
           /\ \E n \in Lengths(Taken(c2s, 2)) :
                \/ Then("data", n, "SUCCESS", {})
                \/ n > 0 /\ Takes(2, Idle, <<Code("FAILURE")>>, FALSE, {})
                \/ n > 0 /\ Then("ask", n, "EVICT",
                                 IF server.op = "WRITE" THEN {"evicting write"}
                                 ELSE {})

EvictAsk ==
  /\ Serving("ask") /\ c2s # <<>>
  /\ \E n \in Lengths(Taken(c2s, 2)) :
       Takes(2, [server EXCEPT !.at = "evict", !.back = n # 0], <<>>, FALSE,
             IF server.op = "APPEND" /\ n = 0 THEN {"evicting append"} ELSE {})

EvictFile ==
  /\ Serving("evict") /\ server.files < MaxFiles
  /\ \E n \in 0..MaxData :
       Takes(0, [server EXCEPT !.files = @ + 1, !.freed = @ \/ n > 0],
             IF server.back
             THEN <<Code("EVICT"), Len8(PathLen), Path>> \o File(n) ELSE <<>>,
             FALSE, IF server.back THEN FileRisks(n) ELSE {})

\* server_evict answers FAILURE, and so does its caller.
EvictEnd ==
  /\ Serving("evict")
  /\ \/ /\ server.freed
        /\ Takes(0, [server EXCEPT !.at = "data"], <<Code("SUCCESS")>>,
                 FALSE, {})
     \/ Takes(0, Idle, <<Code("FAILURE"), Code("FAILURE")>>, FALSE,
              {"failed eviction"})

\* Nothing to write, or the room is gone since: fu_writefile fails.
WriteData ==
  /\ Serving("data") /\ (server.need = 0 \/ c2s # <<>>)
  /\ \/ server.need > 0
        /\ Answer("SUCCESS", Meant("data", server.need), {})
     \/ Answer("FAILURE", FALSE, {})

ServerWrite ==
  /\ sOut # <<>>
  /\ s2c' = s2c \o Head(sOut) /\ sOut' = Tail(sOut)
  /\ UNCHANGED <<c2s, cOut, client, server, ncalls, done, trouble>>

Ended == server' = [Polling EXCEPT !.at = "down"] /\ sOut' = <<>>

\* mem_utils ends the process that asks it for more than it gives: a path or
\* data of that length, or a file that an append makes that long.
TooLong ==
  /\ Serving(server.at) /\ server.at \in {"path", "data"}
  /\ server.need = Long /\ Ended
  /\ UNCHANGED <<c2s, s2c, cOut, client, ncalls, done, trouble>>

TooLarge ==
  /\ Serving("data") /\ server.op = "APPEND" /\ c2s # <<>>
  /\ c2s' = Left(c2s, server.need) /\ Ended
  /\ trouble' = trouble \cup {"large file"}
  /\ UNCHANGED <<s2c, cOut, client, ncalls, done>>

Stop ==
  /\ CanStop /\ Up /\ Ended /\ trouble' = trouble \cup {"stop"}
  /\ UNCHANGED <<c2s, s2c, cOut, client, ncalls, done>>

-----------------------------------------------------------------------------
ApiCall(call) ==
  \/ openFile(call) \/ closeFile(call) \/ removeFile(call) \/ lockFile(call)
  \/ unlockFile(call) \/ readFile(call) \/ readNFiles(call)
  \/ writeFile(call) \/ appendToFile(call)

ClientStep ==
  \/ ClientWrite \/ Return \/ PathAnswered \/ ReadAnswered \/ WriteAnswered
  \/ AppendAnswered \/ Final \/ sapi_evict \/ sapi_get_path \/ sapi_get_data

ServerStep ==
  \/ server_worker \/ server_openFile \/ server_closeFile
  \/ server_removeFile \/ server_readFile \/ server_readNFiles
  \/ server_writeFile \/ WriteLen \/ EvictAsk \/ EvictFile \/ EvictEnd
  \/ WriteData \/ ServerWrite \/ TooLong \/ TooLarge

Next == (\E call \in Calls : ApiCall(call)) \/ ClientStep \/ ServerStep \/ Stop

Spec == Init /\ [][Next]_vars
FairSpec == Spec /\ WF_vars(ClientStep) /\ WF_vars(ServerStep)

-----------------------------------------------------------------------------
(* Properties.                                                             *)

Units == [is : Ops \cup Codes \cup {"num", "hi", "path", "data"},
          v : 0..Long, of : 1..(MaxCalls + 1)]

TypeOK ==
  /\ c2s \in Seq(Units) /\ s2c \in Seq(Units)
  /\ cOut \in Seq(Seq(Units)) /\ sOut \in Seq(Seq(Units))
  /\ client.at \in {"idle", "answer", "final", "more", "plen", "path",
                    "dlen", "data", "ret", "gone"}
  /\ client.need \in 0..Long /\ client.ret \in {0, -1}
  /\ server.at \in {"poll", "path", "files", "len", "ask", "evict", "data",
                    "dropped", "down"}
  /\ server.need \in 0..Long /\ server.files \in 0..MaxFiles
  /\ ncalls \in 1..(MaxCalls + 1) /\ done \subseteq 1..MaxCalls

\* Between two calls that met none of the listed circumstances nothing is
\* left in the socket, the server waits for a request and holds no mutex:
\* the next call starts in step.
InStep ==
  client.at = "idle" /\ trouble = {} =>
    /\ c2s = <<>> /\ s2c = <<>> /\ sOut = <<>>
    /\ server.at = "poll" /\ ~server.held

\* A call returns 0 exactly when the server carried out that very call: a
\* write with all of its bytes, a read with the file on its way.
Truthful ==
  client.at = "ret" /\ trouble = {} =>
    \/ client.ret = 0 <=> ncalls \in done
    \/ client.call.op = "READN" /\ client.call.n = 0
    \/ client.call.op = "APPEND" /\ client.call.size = 0

\* No legal conversation ends a process or makes the server forget the
\* client, but for readNFiles, which takes its end marker for an error.
Survives ==
  trouble = {} => /\ server.at \notin {"down", "dropped"}
                  /\ client.at = "gone" => client.call.op = "READN"

\* Client and server never wait for each other: every call ends, also when
\* the server's process does.
Returns ==
  client.at # "idle" ~>
    client.at \in {"idle", "gone"} \/ ~(trouble \subseteq {"stop", "large file"})

-----------------------------------------------------------------------------
(* What the client's help says of the calls, and the code does otherwise.  *)

\* A write the server evicted files for is not given up (client.c:64).
EvictionServesWrite ==
  client.at = "ret" /\ client.call.op = "WRITE" /\ server.at = "data"
    /\ server.freed /\ server.of = ncalls => client.ret = 0
=============================================================================
