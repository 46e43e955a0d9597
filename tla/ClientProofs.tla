---------------------------- MODULE ClientProofs ----------------------------
(***************************************************************************)
(* Proofs about the client, for every command line, interval and tree of   *)
(* directories and for every coming and going of the server.               *)
(***************************************************************************)
EXTENDS Client, DataLemmas

\* The value of -t is a number; every command line fills in all of
\* client_conf.
ConfTyped ==
  /\ DOMAIN conf = {"server_socket_filename", "folder_to_write", "folder_filecount",
                     "writeback_foldername", "read_filecount", "folder_destination",
                     "connection_timer", "verbose", "lists"}
  /\ conf.connection_timer \in Int /\ conf.folder_filecount \in Int

\* Types of what the proofs reason about.
DialTyped ==
  /\ waited \in Nat /\ remaining \in Int /\ turns \in Nat
  /\ dial \in {"call", "connect", "sleep", "returned"}
  /\ socket \in {"none", "open", "connected", "closed"}
  /\ ret \in {0, -1}

\* main calls openConnection once, after parseargs and before the rest.
Phases ==
  /\ at = "parse" => dial = "call"
  /\ at \in {"write", "read", "close"} => dial = "returned"
  /\ dial = "call" => waited = 0 /\ socket = "none"
  /\ dial # "returned" => ret = 0 /\ socket \in {"none", "open"}

\* The time spent sleeping and remaining_time add up to abstime at most; an
\* interval below zero does not make it sleep.
Budget ==
  /\ dial \in {"connect", "sleep"} =>
       IF Interval(conf.connection_timer) < 0 THEN waited = 0
       ELSE remaining + waited <= AbsTime
  /\ dial = "sleep" => remaining > 0

\* A server that was there from the start is met by the first attempt.
FirstTry ==
  turns = 0 /\ server = "up" =>
    dial # "sleep" /\ (dial = "connect" => remaining = AbsTime)

\* The socket of a connection that main was told of, until main ends.
Connected ==
  /\ dial = "returned" /\ ret = 0 => socket \in {"connected", "closed"}
  /\ socket = "closed" <=> (at = "ended" /\ dial = "returned" /\ ret = 0)

\* What was sent is a sequence, and empty before the walk.
SentTyped ==
  /\ sent \in Seq({sent[n] : n \in DOMAIN sent})
  /\ dial # "returned" \/ at \in {"parse", "connect"} => sent = <<>>

IInv == /\ ConfTyped /\ DialTyped /\ Phases /\ Budget /\ FirstTry
        /\ Connected /\ SentTyped /\ InTime /\ Told

-----------------------------------------------------------------------------
(* Operators of the model.                                                 *)

\* tv_sec and tv_nsec (serverapi.c:287): nanosleep refuses exactly the
\* intervals below zero.
LEMMA IntervalSign ==
  ASSUME NEW msec \in Int
  PROVE  /\ Interval(msec) \in Int
         /\ Quot(msec, 1000) \in Int
         /\ Quot(msec, 1000) < 0 <=> Interval(msec) < 0
<1>1. CASE msec >= 0
  <2>1. Quot(msec, 1000) = msec \div 1000 /\ msec \div 1000 \in Nat
    BY <1>1 DEF Quot
  <2>2. Rem(msec, 1000) \in 0..999
    BY <1>1, <2>1 DEF Rem
  <2>3. QED  BY <2>1, <2>2, SMTT(30) DEF Interval
<1>2. CASE msec < 0
  <2> DEFINE q == (-msec) \div 1000
  <2>1. q \in Nat /\ 1000 * q <= -msec /\ -msec < 1000 * q + 1000
    BY <1>2
  <2>2. Quot(msec, 1000) = -q /\ Rem(msec, 1000) = msec + 1000 * q
    BY <1>2, <2>1 DEF Quot, Rem
  <2> HIDE DEF q
  <2>3. QED  BY <1>2, <2>1, <2>2 DEF Interval
<1>3. QED  BY <1>1, <1>2

\* What a value on the command line changes in client_conf.
LEMMA ValueTaken ==
  ASSUME ConfTyped, Value
  PROVE  /\ DOMAIN conf' = DOMAIN conf
         /\ \/ /\ conf'.folder_to_write = conf.folder_to_write
               /\ conf'.folder_filecount = conf.folder_filecount
            \/ /\ Current = Word("-w") /\ Len(argv[optind + 1]) = 2
               /\ conf'.folder_to_write = Word(argv[optind + 1][1])
               /\ conf'.folder_filecount = Number(Word(argv[optind + 1][2]))
         /\ \/ conf'.read_filecount = conf.read_filecount
            \/ Current = Word("-R") /\ conf'.read_filecount = Number(argv[optind + 1])
         /\ \/ conf'.folder_destination = conf.folder_destination
            \/ Current = Word("-d") /\ conf'.folder_destination = argv[optind + 1]
         /\ \/ conf'.connection_timer = conf.connection_timer
            \/ conf'.connection_timer = Number(argv[optind + 1])
<1> DEFINE optarg == argv[optind + 1]
<1>1. CASE conf' = conf
  BY <1>1
<1>2. CASE /\ Current = Word("-w") => Len(optarg) = 2
           /\ conf' =
               CASE Current = Word("-f") -> [conf EXCEPT !.server_socket_filename = optarg]
                 [] Current = Word("-w") -> [conf EXCEPT !.folder_to_write = Word(optarg[1]),
                                              !.folder_filecount = Number(Word(optarg[2]))]
                 [] Current = Word("-D") -> [conf EXCEPT !.writeback_foldername = optarg]
                 [] Current = Word("-R") -> [conf EXCEPT !.read_filecount = Number(optarg)]
                 [] Current = Word("-d") -> [conf EXCEPT !.folder_destination = optarg]
                 [] Current = Word("-t") -> [conf EXCEPT !.connection_timer = Number(optarg)]
                 [] OTHER -> [conf EXCEPT !.lists[Current] = @ \cup {Word(x) : x \in ToSet(optarg)}]
  <2> HIDE DEF optarg
  <2> USE DEF ConfTyped, Word
  <2>1. CASE Current = Word("-f")
    <3>1. conf' = [conf EXCEPT !.server_socket_filename = optarg]
      BY <1>2, <2>1
    <3>2. QED  BY <3>1
  <2>2. CASE Current = Word("-w")
    <3>1. conf' = [conf EXCEPT !.folder_to_write = Word(optarg[1]),
                               !.folder_filecount = Number(Word(optarg[2]))]
      BY <1>2, <2>2
    <3>2. QED  BY <1>2, <2>2, <3>1 DEF optarg
  <2>3. CASE Current = Word("-D")
    <3>1. conf' = [conf EXCEPT !.writeback_foldername = optarg]
      BY <1>2, <2>3
    <3>2. QED  BY <3>1
  <2>4. CASE Current = Word("-R")
    <3>1. conf' = [conf EXCEPT !.read_filecount = Number(optarg)]
      BY <1>2, <2>4
    <3>2. QED  BY <2>4, <3>1 DEF optarg
  <2>5. CASE Current = Word("-d")
    <3>1. conf' = [conf EXCEPT !.folder_destination = optarg]
      BY <1>2, <2>5
    <3>2. QED  BY <2>5, <3>1 DEF optarg
  <2>6. CASE Current = Word("-t")
    <3>1. conf' = [conf EXCEPT !.connection_timer = Number(optarg)]
      BY <1>2, <2>6
    <3>2. QED  BY <3>1 DEF optarg
  <2>7. CASE Current \notin {Word(o) : o \in {"-f", "-w", "-D", "-R", "-d", "-t"}}
    <3>1. PICK v : conf' = [conf EXCEPT !.lists = v]
      BY <1>2, <2>7
    <3>2. QED  BY <3>1
  <2>8. QED  BY <2>1, <2>2, <2>3, <2>4, <2>5, <2>6, <2>7
<1>3. QED  BY <1>1, <1>2 DEF Value

\* A file more in what was sent: the ones before it are what they were.
LEMMA SentOneMore ==
  ASSUME sent \in Seq({sent[n] : n \in DOMAIN sent}), NEW e,
         sent' = Append(sent, e)
  PROVE  /\ sent' \in Seq({sent'[n] : n \in DOMAIN sent'})
         /\ \A n \in DOMAIN sent' : sent'[n] = e \/ (n \in DOMAIN sent /\ sent'[n] = sent[n])
<1> DEFINE S == {sent[n] : n \in DOMAIN sent} \cup {e}
<1>1. sent \in Seq(S)
  BY SeqMonotonic
<1>2. /\ sent' \in Seq(S) /\ Len(sent') = Len(sent) + 1
      /\ \A i \in 1..Len(sent) : sent'[i] = sent[i]
      /\ sent'[Len(sent) + 1] = e
  BY <1>1, AppendProperties
<1>3. DOMAIN sent' = 1..Len(sent') /\ DOMAIN sent = 1..Len(sent) /\ Len(sent) \in Nat
  BY <1>1, <1>2
<1>4. \A n \in DOMAIN sent' : sent'[n] = e \/ (n \in DOMAIN sent /\ sent'[n] = sent[n])
  BY <1>2, <1>3
<1>5. sent' \in Seq({sent'[n] : n \in DOMAIN sent'})
  BY <1>2, <1>3, SeqDef
<1>6. QED  BY <1>4, <1>5

\* Until openConnection is called, in parseargs or at an end of it.
Undialled ==
  /\ ConfTyped /\ DialTyped /\ at \notin {"write", "read", "close"}
  /\ dial = "call" /\ waited = 0 /\ ret = 0 /\ socket = "none" /\ sent = <<>>

\* Nothing else is needed for the invariant then.
LEMMA BeforeDial == Undialled => IInv
<1> SUFFICES ASSUME Undialled PROVE IInv
  OBVIOUS
<1> USE DEF Undialled
<1>1. Phases /\ Budget /\ FirstTry /\ Connected /\ Told
  BY DEF Phases, Budget, FirstTry, Connected, Told
<1>2. InTime
  <2>1. Interval(conf.connection_timer) \in Int
    BY IntervalSign DEF ConfTyped
  <2>2. QED  BY <2>1, ClientAssumption DEF InTime
<1>3. SentTyped
  BY EmptySeq DEF SentTyped
<1>4. QED  BY <1>1, <1>2, <1>3 DEF IInv

-----------------------------------------------------------------------------
(* The inductive invariant.                                                *)

\* The client starts in the inductive invariant.
LEMMA InitInv == Init => IInv
<1> SUFFICES ASSUME Init PROVE IInv
  OBVIOUS
<1>1. ConfTyped /\ DialTyped
  BY ClientAssumption DEF Init, DialInit, ConfTyped, DialTyped
<1>2. QED  BY <1>1, BeforeDial DEF Undialled, Init, DialInit, WalkInit

\* A turn of the loop of parseargs keeps it: the interval may change, but
\* nothing has been waited for.
LEMMA ParseStep ==
  ASSUME IInv, Operand \/ ParseExit \/ Verbose \/ Value \/ ParseEnd
  PROVE  IInv'
<1>1. at = "parse" /\ UNCHANGED <<dialVars, walkVars>>
  BY DEF Operand, ParseExit, Verbose, Value, ParseEnd, Parsing, Elsewhere
<1>2. at' \notin {"write", "read", "close"}
  BY <1>1 DEF Operand, ParseExit, Verbose, Value, ParseEnd
<1>3. DialTyped' /\ dial' = "call" /\ waited' = 0 /\ ret' = 0 /\ sent' = <<>>
  BY <1>1 DEF IInv, DialTyped, Phases, SentTyped, dialVars, walkVars
<1>4. socket' = "none"
  BY <1>1 DEF IInv, Phases, dialVars
<1>5. ConfTyped'
  <2>1. \A t : Number(t) \in Int
    BY ClientAssumption DEF Number
  <2>2. CASE conf' = conf
    BY <2>2 DEF IInv, ConfTyped
  <2>3. CASE Verbose
    BY <2>3 DEF Verbose, IInv, ConfTyped
  <2>4. CASE Value
    BY <2>1, <2>4, ValueTaken DEF IInv, ConfTyped
  <2>5. QED  BY <2>2, <2>3, <2>4 DEF Operand, ParseExit, ParseEnd
<1>6. Undialled'
  BY <1>2, <1>3, <1>4, <1>5 DEF Undialled
<1>7. Undialled' => IInv'
  BY BeforeDial, PTL
<1>8. QED  BY <1>6, <1>7

\* An attempt to connect and the sleep after it.
LEMMA DialStep ==
  ASSUME IInv, Connecting
  PROVE  IInv'
<1> DEFINE msec == conf.connection_timer
<1>0. /\ at = "connect" /\ UNCHANGED <<mainVars, walkVars>>
      /\ UNCHANGED <<argv, optind, conf, asked, at, sent>>
  BY DEF Connecting, mainVars, walkVars
<1>1. ConfTyped' /\ msec \in Int
  BY <1>0 DEF IInv, ConfTyped
<1>2. /\ Interval(msec) \in Int /\ Quot(msec, 1000) \in Int
      /\ Quot(msec, 1000) < 0 <=> Interval(msec) < 0
  BY <1>1, IntervalSign
<1>3. sent = <<>> /\ SentTyped'
  BY <1>0 DEF IInv, SentTyped
<1>4. CASE openConnection(conf.server_socket_filename # NULL)
  BY <1>0, <1>1, <1>2, <1>3, <1>4, ClientAssumption
     DEF IInv, ConfTyped, openConnection, Return, DialTyped, Phases, Budget, FirstTry,
         Connected, InTime, Told
<1>5. CASE Connect
  BY <1>0, <1>1, <1>2, <1>3, <1>5, ClientAssumption
     DEF IInv, Connect, Return, DialTyped, Phases, Budget, FirstTry,
         Connected, InTime, Told
<1>6. CASE Fail
  BY <1>0, <1>1, <1>2, <1>3, <1>6, ClientAssumption
     DEF IInv, Fail, Return, DialTyped, Phases, Budget, FirstTry,
         Connected, InTime, Told
<1>7. CASE Sleep(msec)
  <2> DEFINE i == Interval(msec)
  <2>1. /\ dial = "sleep" /\ dial' = "connect" /\ conf' = conf
        /\ UNCHANGED <<server, turns, socket, ret, at, sent>>
    BY <1>0, <1>7 DEF Sleep
  <2>2. /\ waited \in Nat /\ remaining \in Int /\ remaining > 0
        /\ i < 0 => waited = 0
        /\ i >= 0 => remaining + waited <= AbsTime
    BY <1>2, <2>1 DEF IInv, DialTyped, Budget
  <2>3. /\ waited' = IF i < 0 THEN waited ELSE waited + i
        /\ remaining' \in Int /\ remaining' <= remaining - i
    BY <1>2, <1>7, <2>2, ClientAssumption DEF Sleep, Least
  <2>4. DialTyped'
    BY <1>2, <2>1, <2>2, <2>3 DEF IInv, DialTyped
  <2>5. Budget'
    <3>1. IF i < 0 THEN waited' = 0 ELSE remaining' + waited' <= AbsTime
      BY <1>2, <2>2, <2>3, ClientAssumption
    <3>2. QED  BY <2>1, <3>1 DEF Budget
  <2>6. InTime'
    <3>1. waited' < AbsTime + (IF i > 0 THEN i ELSE 1)
      BY <1>2, <2>2, <2>3, ClientAssumption
    <3>2. socket' # "connected"
      BY <2>1 DEF IInv, Phases
    <3>3. QED  BY <2>1, <3>1, <3>2 DEF InTime
  <2>7. QED
    BY <1>1, <1>3, <2>1, <2>4, <2>5, <2>6
       DEF IInv, Phases, FirstTry, Connected, Told
<1>8. QED  BY <1>4, <1>5, <1>6, <1>7 DEF Connecting

\* The walk sends over the connection there is, or is refused.
LEMMA WalkStep ==
  ASSUME IInv, Writing
  PROVE  IInv'
<1>0. /\ at = "write" /\ dial = "returned"
      /\ UNCHANGED <<conf, at, server, turns, remaining, socket, waited, dial, ret>>
  BY DEF IInv, Phases, Writing, mainVars, dialVars
<1>1. ConfTyped' /\ DialTyped' /\ Phases' /\ Budget' /\ FirstTry' /\ Connected' /\ InTime'
  BY <1>0
     DEF IInv, ConfTyped, DialTyped, Phases, Budget, FirstTry, Connected, InTime
<1>2. CASE SendFile(socket = "connected")
  <2>1. PICK how : /\ socket # "connected" => how = "refused"
                   /\ sent' = Append(sent, [path |-> Head(filelist), how |-> how])
    BY <1>2 DEF SendFile
  <2>2. /\ sent' \in Seq({sent'[n] : n \in DOMAIN sent'})
        /\ \A n \in DOMAIN sent' :
             \/ sent'[n] = [path |-> Head(filelist), how |-> how]
             \/ n \in DOMAIN sent /\ sent'[n] = sent[n]
    BY <2>1, SentOneMore DEF IInv, SentTyped
  <2>3. SentTyped'
    BY <1>0, <2>2 DEF SentTyped
  <2>4. Told'
    BY <1>0, <2>1, <2>2 DEF IInv, Told
  <2>5. QED  BY <1>1, <2>3, <2>4 DEF IInv
<1>3. CASE UNCHANGED sent
  BY <1>0, <1>1, <1>3 DEF IInv, SentTyped, Told
<1>4. QED
  BY <1>2, <1>3
     DEF Writing, write_nfiles_from_dir, Enter, ReadEntry, Found, ReadEnd, Leave, Finish

\* main goes on to the next phase, whatever the one before it returned.
LEMMA PhaseStep ==
  ASSUME IInv, GoOn \/ Written \/ readNFiles
  PROVE  IInv'
<1>1. /\ dial = "returned" /\ at \in {"connect", "write", "read"}
      /\ at' \in {"write", "read", "close", "failed"}
      /\ UNCHANGED <<conf, server, turns, remaining, socket, waited, dial, ret, sent>>
  BY DEF IInv, Phases, GoOn, Written, readNFiles, Elsewhere, dialVars, walkVars
<1>2. QED
  BY <1>1
     DEF IInv, ConfTyped, DialTyped, Phases, Budget, FirstTry, Connected,
         SentTyped, InTime, Told

\* main closes the connection it was told of, and no other.
LEMMA CloseStep ==
  ASSUME IInv, CloseEnd
  PROVE  IInv'
<1>1. /\ dial = "returned" /\ at = "close" /\ at' = "ended"
      /\ socket' = IF ret = 0 THEN "closed" ELSE socket
      /\ UNCHANGED <<conf, server, turns, remaining, waited, dial, ret, sent>>
  BY DEF IInv, Phases, CloseEnd, closeConnection, dialVars, walkVars
<1>2. socket # "closed"
  BY <1>1 DEF IInv, Connected
<1>3. ret = 0 => socket = "connected"
  BY <1>1 DEF IInv, Told
<1>4. QED
  BY <1>1, <1>2, <1>3
     DEF IInv, ConfTyped, DialTyped, Phases, Budget, FirstTry, Connected,
         SentTyped, InTime, Told

\* The server comes or goes: the first attempt is no longer the only one.
LEMMA TurnStep ==
  ASSUME IInv, ServerTurn
  PROVE  IInv'
<1>1. /\ dial # "returned" /\ turns' = turns + 1
      /\ UNCHANGED <<conf, at, remaining, socket, waited, dial, ret, sent>>
  BY DEF ServerTurn, Turn, mainVars, walkVars
<1>2. turns' \in Nat /\ turns' > 0
  BY <1>1 DEF IInv, DialTyped
<1>3. ret = 0
  BY <1>1 DEF IInv, Phases
<1>4. QED
  BY <1>1, <1>2, <1>3
     DEF IInv, ConfTyped, DialTyped, Phases, Budget, FirstTry, Connected,
         SentTyped, InTime, Told

\* No step of the client or the server leaves the inductive invariant.
LEMMA NextInv == IInv /\ [Next]_vars => IInv'
<1> SUFFICES ASSUME IInv, [Next]_vars PROVE IInv'
  OBVIOUS
<1>1. CASE Main
  BY <1>1, ParseStep, DialStep, WalkStep, PhaseStep, CloseStep DEF Main
<1>2. CASE ServerTurn
  BY <1>2, TurnStep
<1>3. CASE UNCHANGED vars
  BY <1>3
     DEF vars, mainVars, dialVars, walkVars, IInv, ConfTyped, DialTyped, Phases,
         Budget, FirstTry, Connected, SentTyped, InTime, Told
<1>4. QED  BY <1>1, <1>2, <1>3 DEF Next

\* The invariant holds in every reachable state.
THEOREM InvCorrect == Spec => []IInv
  BY InitInv, NextInv, PTL DEF Spec

\* Whatever the interval and whatever the server does, openConnection
\* (serverapi.c:274) sleeps less than abstime and one interval more, and tells
\* of a connection only when it slept less than abstime.
THEOREM InTimeCorrect == Spec => []InTime
<1>1. IInv => InTime
  BY DEF IInv
<1>2. QED  BY <1>1, InvCorrect, PTL

\* main has the connection it was told of until it closes it, closes no other
\* and stores files over one only; a server that was there from the start is
\* not missed (client.c:19, serverapi.c:305).
THEOREM ToldCorrect == Spec => []Told
<1>1. IInv => Told
  BY DEF IInv
<1>2. QED  BY <1>1, InvCorrect, PTL

-----------------------------------------------------------------------------
(* The command line and the walk of -w: the invariant.                     *)

\* What main asks for was read from the command line (parseargs), and with -h
\* as the first option it does nothing.
LineRead ==
  /\ argv \in CommandLines /\ optind \in Nat \ {0}
  /\ conf.folder_to_write # NULL =>
       \E n \in 1..(Len(argv) - 1) :
         /\ argv[n] = Word("-w") /\ Len(argv[n + 1]) = 2
         /\ conf.folder_to_write = Word(argv[n + 1][1])
         /\ conf.folder_filecount = Number(Word(argv[n + 1][2]))
  /\ conf.read_filecount # 0 => Gives(Word("-R"), Given)
  /\ conf.folder_destination # NULL => Gives(Word("-d"), Named)
  /\ asked => /\ conf.read_filecount # 0 /\ conf.folder_destination # NULL
              /\ at \in {"close", "ended", "failed"}
  /\ argv # <<>> /\ argv[1] = Word("-h") =>
       /\ optind = 1 /\ at \in {"parse", "ended", "failed"}
       /\ ~asked /\ socket = "none" /\ step = "idle"

\* Types and phases of the walk.
WalkTyped ==
  /\ filelist \in Seq(Strings) /\ dirlist \in Seq(Strings)
  /\ curr \in Strings /\ cwd \in Strings /\ unread \subseteq Strings \ {<<>>} /\ left \in Int
  /\ at \in {"parse", "connect"} => step = "idle"
  /\ step \in {"walk", "read", "send"} => at = "write" /\ Dirname # <<>>
  /\ step = "idle" => sent = <<>> /\ dirlist = <<>>
  /\ step \notin {"read", "send"} => filelist = <<>>

\* What was sent, what is in the list and what is still asked for.
Counted ==
  /\ step \in {"walk", "read", "send"} \/ sent # <<>> =>
       Len(sent) + Len(filelist) + left = conf.folder_filecount
  /\ step = "read" \/ filelist # <<>> \/ sent # <<>> => left >= 0

\* The walk stays below the directory that was named.
Within ==
  /\ conf.folder_to_write = NULL => sent = <<>>
  /\ \A p \in ToSet(filelist) \cup Sent : Below(Dirname, p)
  /\ \A d \in ToSet(dirlist) : d = Dirname \/ Below(Dirname, d)
  /\ step \in {"read", "send"} => curr = Dirname \/ Below(Dirname, curr)

\* No path is sent or listed twice.
Unrepeated(list) == \A i, j \in DOMAIN list : list[i] = list[j] => i = j
Distinct ==
  /\ Unrepeated(filelist)
  /\ \A i, j \in DOMAIN sent : sent[i].path = sent[j].path => i = j
  /\ \A i \in DOMAIN sent : sent[i].path \notin ToSet(filelist)

\* The walk of a directory without directories: its files are still to be
\* read, in the list, or sent.
FlatWalk ==
  /\ step = "walk" => \/ dirlist = <<Dirname>> /\ sent = <<>>
                      \/ dirlist = <<>> /\ (Sent = In(Dirname) \/ left = 0)
  /\ step \in {"read", "send"} => dirlist = <<Dirname>> /\ curr = Dirname
  /\ step = "read" =>
       /\ cwd = Dirname /\ sent = <<>> /\ unread \subseteq Names(Dirname)
       /\ \A name \in unread : InDir(Dirname, name) \notin ToSet(filelist)
       /\ ToSet(filelist) \cup {InDir(Dirname, name) : name \in unread} = In(Dirname)
  /\ step = "send" => ToSet(filelist) \cup Sent = In(Dirname) \/ left = 0
  /\ step = "done" /\ conf.folder_filecount > 0 =>
       Sent = In(Dirname) \/ Len(sent) = conf.folder_filecount

WInv == LineRead /\ WalkTyped /\ Counted /\ Within /\ (Flat => Distinct /\ FlatWalk)

-----------------------------------------------------------------------------
(* Paths.                                                                  *)

\* A path and its characters.
LEMMA Characters ==
  ASSUME NEW p \in Strings
  PROVE  /\ Len(p) \in Nat /\ DOMAIN p = 1..Len(p) /\ \A i \in 1..Len(p) : p[i] \in Nat
         /\ p = <<>> <=> Len(p) = 0
  BY DEF Strings

\* A path is below a directory when it begins with it and goes on behind a
\* slash.
LEMMA BelowIs ==
  ASSUME NEW dir \in Strings, NEW p \in Strings
  PROVE  Below(dir, p) <=> /\ Len(p) > Len(dir) + 1 /\ p[Len(dir) + 1] = Slash
                           /\ \A i \in 1..Len(dir) : p[i] = dir[i]
<1> DEFINE m == Len(dir) + 1
<1>1. /\ Len(dir) \in Nat /\ Len(p) \in Nat /\ Slash \in Nat
      /\ dir \in Seq(Nat) /\ p \in Seq(Nat)
  BY DEF Strings, Slash
<1>2. /\ Append(dir, Slash) \in Seq(Nat) /\ Len(Append(dir, Slash)) = m
      /\ \A i \in 1..Len(dir) : Append(dir, Slash)[i] = dir[i]
      /\ Append(dir, Slash)[m] = Slash
  BY <1>1, AppendProperties
<1>3. CASE Len(p) > m
  <2>1. /\ SubSeq(p, 1, m) \in Seq(Nat) /\ Len(SubSeq(p, 1, m)) = m
        /\ \A i \in 1..m : SubSeq(p, 1, m)[i] = p[i]
    BY <1>1, <1>3, Parts
  <2>2. SubSeq(p, 1, m) = Append(dir, Slash) <=>
          \A i \in 1..m : p[i] = Append(dir, Slash)[i]
    BY <1>1, <1>2, <2>1, SeqEqual
  <2>3. (\A i \in 1..m : p[i] = Append(dir, Slash)[i]) <=>
          p[m] = Slash /\ \A i \in 1..Len(dir) : p[i] = dir[i]
    <3>1. \A i : i \in 1..m <=> i \in 1..Len(dir) \/ i = m
      BY <1>1
    <3>2. QED  BY <1>2, <3>1
  <2>4. QED  BY <1>3, <2>2, <2>3 DEF Below
<1>4. CASE ~(Len(p) > m)
  BY <1>4 DEF Below
<1>5. QED  BY <1>3, <1>4

\* The path of a name in a directory.
LEMMA Joined ==
  ASSUME NEW dir \in Strings, NEW name \in Strings
  PROVE  /\ InDir(dir, name) \in Strings
         /\ Len(InDir(dir, name)) = Len(dir) + 1 + Len(name)
         /\ \A i \in 1..Len(dir) : InDir(dir, name)[i] = dir[i]
         /\ InDir(dir, name)[Len(dir) + 1] = Slash
         /\ \A i \in 1..Len(name) : InDir(dir, name)[Len(dir) + 1 + i] = name[i]
<1> DEFINE u == dir \o <<Slash>>
<1>1. /\ Len(dir) \in Nat /\ Len(name) \in Nat /\ dir \in Seq(Nat) /\ name \in Seq(Nat)
      /\ <<Slash>> \in Seq(Nat) /\ Len(<<Slash>>) = 1 /\ <<Slash>>[1] = Slash
  BY DEF Strings, Slash
<1>2. /\ u \in Seq(Nat) /\ Len(u) = Len(dir) + 1
      /\ \A i \in 1..(Len(dir) + 1) : u[i] = IF i <= Len(dir) THEN dir[i] ELSE <<Slash>>[i - Len(dir)]
  BY <1>1, ConcatProperties
<1>3. u[Len(dir) + 1] = Slash /\ \A i \in 1..Len(dir) : u[i] = dir[i]
  <2> HIDE DEF u
  <2>1. Len(dir) + 1 \in 1..(Len(dir) + 1) /\ ~(Len(dir) + 1 <= Len(dir))
        /\ Len(dir) + 1 - Len(dir) = 1
    BY <1>1
  <2>2. \A i \in 1..Len(dir) : i \in 1..(Len(dir) + 1) /\ i <= Len(dir)
    BY <1>1
  <2>3. u[Len(dir) + 1] = Slash
    <3>1. u[Len(dir) + 1] = <<Slash>>[Len(dir) + 1 - Len(dir)]
      BY <1>2, <2>1
    <3>2. QED  BY <1>1, <2>1, <3>1
  <2>4. \A i \in 1..Len(dir) : u[i] = dir[i]
    BY <1>2, <2>2
  <2>5. QED  BY <2>3, <2>4
<1>u. u \in Seq(Nat) /\ name \in Seq(Nat)
  BY <1>1, <1>2
<1> HIDE DEF u
<1>4. /\ u \o name \in Seq(Nat) /\ Len(u \o name) = Len(u) + Len(name)
      /\ \A i \in 1..(Len(u) + Len(name)) :
           (u \o name)[i] = IF i <= Len(u) THEN u[i] ELSE name[i - Len(u)]
  BY <1>u, ConcatProperties
<1>5. \A i \in 1..(Len(dir) + 1) : (u \o name)[i] = u[i]
  BY <1>1, <1>2, <1>4
<1>6. ASSUME NEW i \in 1..Len(name) PROVE (u \o name)[Len(dir) + 1 + i] = name[i]
  <2>1. Len(dir) \in Nat /\ Len(name) \in Nat /\ Len(u) = Len(dir) + 1
    BY <1>1, <1>2
  <2>2. /\ Len(dir) + 1 + i \in 1..(Len(u) + Len(name))
        /\ ~(Len(dir) + 1 + i <= Len(u)) /\ Len(dir) + 1 + i - Len(u) = i
    BY <2>1
  <2> DEFINE k == Len(dir) + 1 + i
  <2>3. k \in 1..(Len(u) + Len(name)) /\ ~(k <= Len(u)) /\ k - Len(u) = i
    BY <2>2
  <2> HIDE DEF k
  <2>4. (u \o name)[k] = name[k - Len(u)]
    BY <1>4, <2>3
  <2>5. QED  BY <2>3, <2>4 DEF k
<1>7. InDir(dir, name) = u \o name
  BY DEF InDir, u
<1>8. \A i \in 1..Len(dir) : i \in 1..(Len(dir) + 1)
  BY <1>1
<1>9. Len(dir) + 1 \in 1..(Len(dir) + 1)
  BY <1>1
<1>10. QED  BY <1>2, <1>3, <1>4, <1>5, <1>6, <1>7, <1>8, <1>9 DEF Strings

\* A name in a directory below another, or in that one, is below that one.
LEMMA BelowJoined ==
  ASSUME NEW dir \in Strings, NEW sub \in Strings, NEW name \in Strings, name # <<>>,
         sub = dir \/ Below(dir, sub)
  PROVE  Below(dir, InDir(sub, name))
<1> DEFINE p == InDir(sub, name)
<1>1. /\ p \in Strings /\ Len(p) = Len(sub) + 1 + Len(name) /\ p[Len(sub) + 1] = Slash
      /\ \A i \in 1..Len(sub) : p[i] = sub[i]
  BY Joined
<1>2. Len(dir) \in Nat /\ Len(sub) \in Nat /\ Len(name) \in Nat /\ Len(name) # 0
  BY Characters
<1> HIDE DEF p
<1>3. CASE sub = dir
  BY <1>1, <1>2, <1>3, BelowIs DEF p
<1>4. CASE Below(dir, sub)
  <2>1. /\ Len(sub) > Len(dir) + 1 /\ sub[Len(dir) + 1] = Slash
        /\ \A i \in 1..Len(dir) : sub[i] = dir[i]
    BY <1>4, BelowIs
  <2>2. \A i \in 1..(Len(dir) + 1) : i \in 1..Len(sub)
    BY <1>2, <2>1
  <2>3. /\ Len(p) > Len(dir) + 1 /\ Len(dir) + 1 \in 1..(Len(dir) + 1)
        /\ \A i \in 1..Len(dir) : i \in 1..(Len(dir) + 1)
    BY <1>1, <1>2, <2>1
  <2>4. p[Len(dir) + 1] = Slash /\ \A i \in 1..Len(dir) : p[i] = dir[i]
    BY <1>1, <2>1, <2>2, <2>3
  <2>5. QED  BY <1>1, <2>3, <2>4, BelowIs DEF p
<1>5. QED  BY <1>3, <1>4

\* Two names in a directory have two paths.
LEMMA JoinedApart ==
  ASSUME NEW dir \in Strings, NEW m \in Strings, NEW n \in Strings, InDir(dir, m) = InDir(dir, n)
  PROVE  m = n
<1>1. Len(dir) \in Nat /\ Len(m) \in Nat /\ Len(n) \in Nat
  BY Characters
<1>2. Len(m) = Len(n)
  BY <1>1, Joined
<1>3. ASSUME NEW i \in 1..Len(m) PROVE m[i] = n[i]
  <2>1. InDir(dir, m)[Len(dir) + 1 + i] = m[i]
    BY Joined
  <2>2. i \in 1..Len(n)
    BY <1>2
  <2>3. InDir(dir, n)[Len(dir) + 1 + i] = n[i]
    BY <2>2, Joined
  <2>4. QED  BY <2>1, <2>3
<1>4. QED  BY <1>2, <1>3, SeqEqual DEF Strings

\* Paths of directories and files.
LEMMA PathsAre ==
  /\ \A p \in Entries \cup {Home} : p \in Strings /\ p # <<>> /\ Head(p) = Slash
  /\ Dirs \subseteq Entries /\ Files \subseteq Entries /\ Dirs \cap Files = {}
  BY ClientAssumption DEF Strings, Entries

\* What readdir returns of a directory.
LEMMA NamesAre ==
  ASSUME NEW dir \in Strings, NEW name \in Names(dir)
  PROVE  /\ name \in Strings /\ name # <<>> /\ InDir(dir, name) \in Entries
         /\ \A i \in 1..Len(name) : name[i] # Slash
<1>1. PICK p \in Entries : name = SubSeq(p, Len(dir) + 2, Len(p))
  BY DEF Names
<1>2. name # <<>> /\ InDir(dir, name) \in Entries
      /\ \A i \in DOMAIN name : name[i] # Slash
  BY DEF Names
<1>3. p \in Strings /\ Len(p) \in Nat /\ Len(dir) \in Nat
  BY PathsAre, Characters
<1>4. Len(dir) + 2 \in 1..(Len(p) + 1)
  <2>1. CASE Len(dir) + 2 > Len(p) + 1
    <3>1. SubSeq(p, Len(dir) + 2, Len(p)) = <<>>
      BY <1>3, <2>1 DEF Strings
    <3>2. QED  BY <1>1, <1>2, <3>1
  <2>2. QED  BY <1>3, <2>1
<1>5. name \in Strings
  BY <1>1, <1>3, <1>4, Parts DEF Strings
<1>6. QED  BY <1>2, <1>5, Characters

\* What lies below a directory without directories are the files readdir
\* finds in it.
LEMMA FlatNames ==
  ASSUME NEW dir \in Dirs, In(dir) \subseteq Files
  PROVE  /\ In(dir) = {InDir(dir, name) : name \in Names(dir)}
         /\ \A name \in Names(dir) : InDir(dir, name) \in Files
<1>1. dir \in Strings /\ Len(dir) \in Nat
  BY PathsAre, Characters
<1>2. ASSUME NEW name \in Names(dir)
      PROVE  InDir(dir, name) \in In(dir) /\ InDir(dir, name) \in Files
  <2>1. InDir(dir, name) \in In(dir)
    BY <1>1, NamesAre, BelowJoined DEF In
  <2>2. QED  BY <2>1
<1>3. ASSUME NEW p \in In(dir)
      PROVE  \E name \in Names(dir) : p = InDir(dir, name)
  <2> DEFINE name == SubSeq(p, Len(dir) + 2, Len(p))
             n == Len(p) - (Len(dir) + 2) + 1
  <2>1. /\ p \in Entries /\ p \in Strings /\ Len(p) \in Nat
        /\ Len(p) > Len(dir) + 1 /\ p[Len(dir) + 1] = Slash
        /\ \A i \in 1..Len(dir) : p[i] = dir[i]
    BY <1>1, PathsAre, BelowIs, Characters DEF In
  <2>2. Len(dir) + 2 \in 1..(Len(p) + 1) /\ n \in Nat /\ n # 0
    BY <1>1, <2>1
  <2>3. /\ name \in Strings /\ Len(name) = n
        /\ \A j \in 1..n : name[j] = p[(Len(dir) + 2) + j - 1]
    BY <2>1, <2>2, Parts DEF Strings
  <2> HIDE DEF name
  <2>4. InDir(dir, name) = p
    <3>1. /\ InDir(dir, name) \in Strings
          /\ Len(InDir(dir, name)) = Len(dir) + 1 + Len(name)
          /\ \A i \in 1..Len(dir) : InDir(dir, name)[i] = dir[i]
          /\ InDir(dir, name)[Len(dir) + 1] = Slash
          /\ \A i \in 1..Len(name) : InDir(dir, name)[Len(dir) + 1 + i] = name[i]
      BY <1>1, <2>3, Joined
    <3>2. Len(InDir(dir, name)) = Len(p)
      BY <1>1, <2>1, <2>3, <3>1
    <3>3. ASSUME NEW i \in 1..Len(p) PROVE InDir(dir, name)[i] = p[i]
      <4>1. CASE i <= Len(dir) + 1
        BY <1>1, <2>1, <3>1, <4>1
      <4>2. CASE i > Len(dir) + 1
        <5> DEFINE j == i - (Len(dir) + 1)
        <5>1. j \in 1..n /\ Len(dir) + 1 + j = i /\ (Len(dir) + 2) + j - 1 = i
          BY <1>1, <2>1, <4>2
        <5> HIDE DEF j
        <5>2. InDir(dir, name)[i] = name[j]
          BY <2>3, <3>1, <5>1
        <5>3. name[j] = p[i]
          BY <2>3, <5>1
        <5>4. QED  BY <5>2, <5>3
      <4>3. QED  BY <1>1, <4>1, <4>2
    <3>4. QED  BY <2>1, <3>1, <3>2, <3>3, SeqEqual DEF Strings
  <2>5. ASSUME NEW j \in 1..n, name[j] = Slash PROVE FALSE
    <3> DEFINE i == (Len(dir) + 2) + j - 1
    <3>1. i \in (Len(dir) + 2)..Len(p)
      BY <1>1, <2>1
    <3>2. p[i] = Slash
      BY <2>3, <2>5
    <3>3. SubSeq(p, 1, i - 1) \in In(dir) \cap Dirs
      BY <3>1, <3>2, TreeAssumption
    <3>4. QED  BY <3>3, PathsAre
  <2>6. name # <<>> /\ DOMAIN name = 1..n
    BY <2>2, <2>3, Characters
  <2>7. name \in Names(dir)
    BY <2>1, <2>4, <2>5, <2>6 DEF Names, name
  <2>8. QED  BY <2>4, <2>7
<1>4. QED  BY <1>2, <1>3
-----------------------------------------------------------------------------
(* Lists of paths.                                                         *)

\* lu_insert puts a path in, wherever that is.
LEMMA ListInserted ==
  ASSUME NEW list \in Seq(Strings), NEW x \in Strings
  PROVE  /\ lu_insert(list, x) \in Seq(Strings)
         /\ Len(lu_insert(list, x)) = Len(list) + 1
         /\ ToSet(lu_insert(list, x)) = ToSet(list) \cup {x}
         /\ Unrepeated(list) /\ x \notin ToSet(list) => Unrepeated(lu_insert(list, x))
<1> DEFINE i == lu_navigate(list, x)
           new == lu_insert(list, x)
           n == Len(list)
<1>1. i \in 1..(n + 1) /\ n \in Nat
  BY Navigated
<1> HIDE DEF i
<1>2. new = InsertAt(list, i, x)
  BY DEF lu_insert, i
<1> HIDE DEF new
<1>3. /\ new \in Seq(Strings) /\ Len(new) = n + 1
      /\ \A j \in 1..(n + 1) :
           new[j] = IF j < i THEN list[j] ELSE IF j = i THEN x ELSE list[j - 1]
  <2>1. /\ InsertAt(list, i, x) \in Seq(Strings) /\ Len(InsertAt(list, i, x)) = Len(list) + 1
        /\ \A j \in 1..(Len(list) + 1) :
             InsertAt(list, i, x)[j] =
               IF j < i THEN list[j] ELSE IF j = i THEN x ELSE list[j - 1]
    BY <1>1, InsertedAt
  <2>2. QED  BY <1>2, <2>1
<1>4. ToSet(new) = ToSet(list) \cup {x}
  <2>1. ASSUME NEW j \in 1..(n + 1) PROVE new[j] \in ToSet(list) \cup {x}
    <3>1. j < i => j \in 1..n
      BY <1>1
    <3>2. ~(j < i) /\ j # i => j - 1 \in 1..n
      BY <1>1
    <3>3. QED  BY <1>3, <3>1, <3>2, InList
  <2>2. ASSUME NEW j \in 1..n PROVE list[j] \in ToSet(new)
    <3>1. CASE j < i
      <4>1. j \in 1..(n + 1)
        BY <1>1
      <4>2. new[j] = list[j]
        BY <1>3, <3>1, <4>1
      <4>3. QED  BY <1>3, <4>1, <4>2, InList
    <3>2. CASE ~(j < i)
      <4>1. j + 1 \in 1..(n + 1) /\ ~(j + 1 < i) /\ j + 1 # i /\ (j + 1) - 1 = j
        BY <1>1, <3>2
      <4>2. new[j + 1] = list[j]
        BY <1>3, <4>1
      <4>3. QED  BY <1>3, <4>1, <4>2, InList
    <3>3. QED  BY <3>1, <3>2
  <2>3. x \in ToSet(new)
    <3>1. new[i] = x
      BY <1>1, <1>3
    <3>2. QED  BY <1>1, <1>3, <3>1, InList
  <2>4. QED  BY <1>3, <2>1, <2>2, <2>3, InList
<1>5. ASSUME Unrepeated(list), x \notin ToSet(list) PROVE Unrepeated(new)
  <2>0. DOMAIN new = 1..(n + 1) /\ DOMAIN list = 1..n
    BY <1>3, InList
  <2>1. SUFFICES ASSUME NEW j \in 1..(n + 1), NEW k \in 1..(n + 1), new[j] = new[k], j < k
                 PROVE FALSE
    BY <2>0 DEF Unrepeated
  <2>2. \A h \in 1..n : list[h] # x
    BY <1>5, InList
  <2>3. /\ j < i => j \in 1..n
        /\ ~(j < i) /\ j # i => j - 1 \in 1..n
        /\ k < i => k \in 1..n
        /\ ~(k < i) /\ k # i => k - 1 \in 1..n
    BY <1>1
  <2>4. \A g, h \in 1..n : list[g] = list[h] => g = h
    BY <1>5, <2>0 DEF Unrepeated
  <2>5. CASE j < i /\ k < i
    BY <1>3, <2>1, <2>3, <2>4, <2>5
  <2>6. CASE j = i \/ k = i
    BY <1>1, <1>3, <2>1, <2>2, <2>3, <2>6
  <2>7. CASE j < i /\ ~(k < i) /\ k # i
    <3>1. list[j] = list[k - 1]
      BY <1>3, <2>1, <2>7
    <3>2. j = k - 1
      BY <2>3, <2>4, <2>7, <3>1
    <3>3. QED  BY <1>1, <2>7, <3>2
  <2>8. CASE ~(j < i) /\ j # i
    <3>1. ~(k < i) /\ k # i
      BY <1>1, <2>1, <2>8
    <3>2. list[j - 1] = list[k - 1]
      BY <1>3, <2>1, <2>8, <3>1
    <3>3. j - 1 = k - 1
      BY <2>3, <2>4, <2>8, <3>1, <3>2
    <3>4. QED  BY <2>1, <3>3
  <2>9. QED  BY <2>5, <2>6, <2>7, <2>8
<1>6. QED  BY <1>3, <1>4, <1>5 DEF new

\* lu_remove leaves some of what there was.
LEMMA ListRemoved ==
  ASSUME NEW list \in Seq(Strings), NEW x \in Strings
  PROVE  lu_remove(list, x) \in Seq(Strings) /\ ToSet(lu_remove(list, x)) \subseteq ToSet(list)
<1> DEFINE i == lu_navigate(list, x)
           new == RemoveAt(list, i)
           n == Len(list)
<1>1. CASE i <= n
  <2>1. i \in 1..n /\ n \in Nat
    BY <1>1, Navigated
  <2>2. /\ new \in Seq(Strings) /\ Len(new) = n - 1
        /\ \A j \in 1..(n - 1) : new[j] = IF j < i THEN list[j] ELSE list[j + 1]
    <3> HIDE DEF i
    <3>1. QED  BY <2>1, RemovedAt
  <2> HIDE DEF i, new
  <2>3. ASSUME NEW j \in 1..(n - 1) PROVE new[j] \in ToSet(list)
    <3>1. j \in 1..n /\ j + 1 \in 1..n
      BY <2>1
    <3>2. QED  BY <2>2, <3>1, InList
  <2>4. ToSet(new) \subseteq ToSet(list)
    BY <2>2, <2>3, InList
  <2>5. QED  BY <2>2, <2>4 DEF lu_remove, new, i
<1>2. CASE ~(i <= n)
  BY <1>2 DEF lu_remove, Holds
<1>3. QED  BY <1>1, <1>2

\* The only element is removed.
LEMMA SoleRemoved ==
  ASSUME NEW x \in Strings
  PROVE  lu_remove(<<x>>, x) = <<>>
<1> DEFINE list == <<x>>
           i == lu_navigate(list, x)
<1>1. list \in Seq(Strings) /\ Len(list) = 1 /\ list[1] = x
  OBVIOUS
<1> HIDE DEF list
<1>2. /\ i \in 1..(Len(list) + 1) /\ \A j \in 1..(i - 1) : Precedes(list[j], x)
  BY <1>1, Navigated
<1>3. i = 1
  <2>1. i = 2 => Precedes(x, x)
    BY <1>1, <1>2
  <2>2. ~Precedes(x, x)
    <3>1. su_string_compare(x, x) = 0
      BY EqualSymmetric
    <3>2. QED  BY <3>1, Compared
  <2>3. QED  BY <1>1, <1>2, <2>1, <2>2
<1> HIDE DEF i
<1>4. su_string_compare(x, list[i]) = 0
  BY <1>1, <1>3, EqualSymmetric
<1>5. lu_remove(list, x) = RemoveAt(list, i)
  BY <1>1, <1>3, <1>4 DEF lu_remove, Holds, i
<1>6. RemoveAt(list, i) \in Seq(Strings) /\ Len(RemoveAt(list, i)) = 0
  <2>1. i \in 1..Len(list)
    BY <1>1, <1>3
  <2>2. /\ RemoveAt(list, i) \in Seq(Strings)
        /\ Len(RemoveAt(list, i)) = Len(list) - 1
    BY <1>1, <2>1, RemovedAt
  <2>3. QED  BY <1>1, <2>2
<1>7. QED  BY <1>5, <1>6, EmptySeq DEF list

\* What is behind the first element of a list.
LEMMA ListTail ==
  ASSUME NEW list \in Seq(Strings), list # <<>>
  PROVE  /\ Head(list) \in Strings /\ Tail(list) \in Seq(Strings)
         /\ Len(list) = Len(Tail(list)) + 1
         /\ ToSet(list) = {Head(list)} \cup ToSet(Tail(list))
         /\ Unrepeated(list) => Unrepeated(Tail(list)) /\ Head(list) \notin ToSet(Tail(list))
<1> DEFINE tail == Tail(list)
           n == Len(list)
<1>1. /\ n \in Nat /\ n # 0 /\ tail \in Seq(Strings) /\ Len(tail) = n - 1
      /\ \A j \in 1..(n - 1) : tail[j] = list[j + 1]
      /\ Head(list) = list[1] /\ list[1] \in Strings
  BY HeadTailProperties, EmptySeq
<1> HIDE DEF tail
<1>2. \A j \in 1..(n - 1) : j + 1 \in 1..n /\ j + 1 # 1
  BY <1>1
<1>3. ToSet(list) = {list[1]} \cup ToSet(tail)
  <2>1. \A j \in 1..(n - 1) : tail[j] \in ToSet(list)
    BY <1>1, <1>2, InList
  <2>2. ASSUME NEW j \in 1..n PROVE list[j] \in {list[1]} \cup ToSet(tail)
    <3>1. CASE j = 1
      BY <3>1
    <3>2. CASE j # 1
      <4>1. j - 1 \in 1..(n - 1) /\ (j - 1) + 1 = j
        BY <1>1, <3>2
      <4>2. tail[j - 1] = list[j]
        BY <1>1, <4>1
      <4>3. QED  BY <1>1, <4>1, <4>2, InList
    <3>3. QED  BY <3>1, <3>2
  <2>3. 1 \in 1..n
    BY <1>1
  <2>4. QED  BY <1>1, <2>1, <2>2, <2>3, InList
<1>4. ASSUME Unrepeated(list) PROVE Unrepeated(tail) /\ list[1] \notin ToSet(tail)
  <2>1. \A g, h \in 1..n : list[g] = list[h] => g = h
    BY <1>4, InList DEF Unrepeated
  <2>2. \A j \in 1..(n - 1) : tail[j] # list[1]
    BY <1>1, <1>2, <2>1
  <2>3. \A j, k \in 1..(n - 1) : tail[j] = tail[k] => j = k
    <3>1. SUFFICES ASSUME NEW j \in 1..(n - 1), NEW k \in 1..(n - 1), tail[j] = tail[k]
                   PROVE j = k
      OBVIOUS
    <3>2. j + 1 = k + 1
      BY <1>1, <1>2, <2>1, <3>1
    <3>3. QED  BY <1>1, <3>2
  <2>4. QED  BY <1>1, <2>2, <2>3, InList DEF Unrepeated
<1>5. QED  BY <1>1, <1>3, <1>4 DEF tail

\* A sequence of different values has as many of them as places.
LEMMA CountUnrepeated ==
  ASSUME NEW S, NEW list \in Seq(S),
         NEW v, v \in [DOMAIN list -> {v[i] : i \in DOMAIN list}],
         \A i, j \in DOMAIN list : v[i] = v[j] => i = j
  PROVE  Cardinality({v[i] : i \in DOMAIN list}) = Len(list)
<1> DEFINE T == {v[i] : i \in DOMAIN list}
<1>1. DOMAIN list = 1..Len(list) /\ Len(list) \in Nat
  BY InList
<1>2. v \in Bijection(1..Len(list), T)
  BY <1>1 DEF Bijection, Injection, Surjection, IsInjective
<1>3. ExistsBijection(1..Len(list), T)
  BY <1>2 DEF ExistsBijection
<1>4. QED  BY <1>1, <1>3, FS_CountingElements
-----------------------------------------------------------------------------
(* The command line and the walk of -w: every step keeps the invariant.    *)

\* Before the walk there is nothing to say of it.
LEMMA BeforeWalk ==
  WalkTyped /\ step = "idle" => Counted /\ Within /\ Distinct /\ FlatWalk
<1> SUFFICES ASSUME WalkTyped, step = "idle" PROVE Counted /\ Within /\ Distinct /\ FlatWalk
  OBVIOUS
<1>1. sent = <<>> /\ filelist = <<>> /\ dirlist = <<>> /\ Sent = {}
      /\ ToSet(filelist) = {} /\ ToSet(dirlist) = {}
  BY DEF WalkTyped, Sent, ToSet
<1>2. Counted /\ Within
  BY <1>1 DEF Counted, Within
<1>3. Distinct
  BY <1>1 DEF Distinct, Unrepeated
<1>4. FlatWalk
  BY DEF FlatWalk
<1>5. QED  BY <1>2, <1>3, <1>4

\* The client starts with nothing read.
LEMMA WInit == Init => WInv
<1> SUFFICES ASSUME Init PROVE WInv
  OBVIOUS
<1>1. LineRead
  BY DEF Init, DialInit, WalkInit, LineRead
<1>2. WalkTyped /\ step = "idle"
  <2>1. Home \in Strings /\ <<>> \in Seq(Strings) /\ <<>> \in Strings
    BY PathsAre, EmptySeq DEF Strings
  <2>2. QED  BY <2>1 DEF Init, WalkInit, WalkTyped
<1>3. QED  BY <1>1, <1>2, BeforeWalk DEF WInv

\* parseargs: a value is the token after its option, and -h in the first place
\* is where it stops.
LEMMA WParse ==
  ASSUME IInv, WInv, Operand \/ ParseExit \/ Verbose \/ Value \/ ParseEnd
  PROVE  WInv'
<1>1. /\ at = "parse" /\ UNCHANGED <<dialVars, walkVars>> /\ asked' = asked /\ argv' = argv
      /\ at' \in {"parse", "connect", "ended", "failed", "crashed"}
      /\ optind \in Nat \ {0} /\ argv \in CommandLines
  BY DEF Operand, ParseExit, Verbose, Value, ParseEnd, Parsing, Elsewhere, WInv, LineRead
<1>2. step = "idle" /\ UNCHANGED <<socket, step, cwd, curr, unread, left, filelist, dirlist, sent>>
  BY <1>1 DEF WInv, WalkTyped, dialVars, walkVars
<1>3. WalkTyped'
  BY <1>1, <1>2 DEF WInv, WalkTyped
<1>4. (Counted /\ Within /\ Distinct /\ FlatWalk)'
  <2>1. (WalkTyped /\ step = "idle" => Counted /\ Within /\ Distinct /\ FlatWalk)'
    BY BeforeWalk, PTL
  <2>2. QED  BY <1>2, <1>3, <2>1
<1>5. Len(argv) \in Nat
  BY <1>1, ClientAssumption
<1>6. ~asked
  BY <1>1 DEF WInv, LineRead
<1>7. LineRead'
  <2>1. CASE Value
    <3> DEFINE optarg == argv[optind + 1]
    <3>1. /\ optind \in 1..(Len(argv) - 1) /\ optind' = optind + 2 /\ Current = argv[optind]
      BY <1>1, <1>5, <2>1 DEF Value, Parsing, Current
    <3>2. /\ \/ conf'.folder_to_write = conf.folder_to_write
                /\ conf'.folder_filecount = conf.folder_filecount
             \/ /\ argv[optind] = Word("-w") /\ Len(optarg) = 2
                /\ conf'.folder_to_write = Word(optarg[1])
                /\ conf'.folder_filecount = Number(Word(optarg[2]))
          /\ \/ conf'.read_filecount = conf.read_filecount
             \/ argv[optind] = Word("-R") /\ conf'.read_filecount = Number(optarg)
          /\ \/ conf'.folder_destination = conf.folder_destination
             \/ argv[optind] = Word("-d") /\ conf'.folder_destination = optarg
      BY <2>1, <3>1, ValueTaken DEF IInv
    <3>3. optind' \in Nat \ {0}
      BY <1>1, <3>1
    <3>4. ASSUME conf'.folder_to_write # NULL
          PROVE  \E n \in 1..(Len(argv) - 1) :
                   /\ argv[n] = Word("-w") /\ Len(argv[n + 1]) = 2
                   /\ conf'.folder_to_write = Word(argv[n + 1][1])
                   /\ conf'.folder_filecount = Number(Word(argv[n + 1][2]))
      BY <3>1, <3>2, <3>4 DEF WInv, LineRead
    <3>5. conf'.read_filecount # 0 => Gives(Word("-R"), Given)
      BY <3>1, <3>2 DEF WInv, LineRead, Gives, Given
    <3>6. conf'.folder_destination # NULL => Gives(Word("-d"), Named)
      BY <3>1, <3>2 DEF WInv, LineRead, Gives, Named
    <3>7. argv[1] # Word("-h")
      <4>1. Current # Word("-h")
        BY <2>1 DEF Value, WithValue, ListOptions, Word
      <4>2. argv # <<>>
        BY <3>1, <1>5
      <4>3. QED  BY <3>1, <4>1, <4>2 DEF WInv, LineRead
    <3>8. QED
      BY <1>1, <1>6, <3>3, <3>4, <3>5, <3>6, <3>7 DEF LineRead, Gives
  <2>2. CASE ~Value
    <3>1. /\ conf'.folder_to_write = conf.folder_to_write
          /\ conf'.folder_filecount = conf.folder_filecount
          /\ conf'.read_filecount = conf.read_filecount
          /\ conf'.folder_destination = conf.folder_destination
      BY <2>2 DEF Operand, ParseExit, Verbose, ParseEnd, IInv, ConfTyped
    <3>2. optind' \in Nat \ {0}
      BY <1>1, <2>2 DEF Operand, ParseExit, Verbose, ParseEnd
    <3>3. ASSUME argv # <<>>, argv[1] = Word("-h")
          PROVE  optind' = 1 /\ at' \in {"parse", "ended", "failed"}
      <4>1. optind = 1 /\ Current = Word("-h")
        BY <3>3 DEF WInv, LineRead, Current
      <4>2. ~Operand
        BY <4>1 DEF Operand, Options, Bare
      <4>3. ~Verbose
        BY <4>1 DEF Verbose, Word
      <4>4. ~ParseEnd
        <5>1. Len(argv) # 0
          BY <1>1, <3>3, ClientAssumption
        <5>2. QED  BY <1>5, <4>1, <5>1 DEF ParseEnd
      <4>5. QED  BY <2>2, <4>1, <4>2, <4>3, <4>4 DEF ParseExit
    <3>4. QED
      BY <1>1, <1>2, <1>6, <3>1, <3>2, <3>3 DEF WInv, LineRead, Gives
  <2>3. QED  BY <2>1, <2>2
<1>8. QED  BY <1>3, <1>4, <1>7 DEF WInv

\* openConnection, and a server that comes or goes: nothing of the walk.
LEMMA WDial ==
  ASSUME IInv, WInv, Connecting \/ ServerTurn
  PROVE  WInv'
<1>1. at = "connect" /\ UNCHANGED <<argv, optind, conf, asked, at>> /\ UNCHANGED walkVars
  BY DEF Connecting, ServerTurn, mainVars
<1>2. step = "idle" /\ UNCHANGED <<step, cwd, curr, unread, left, filelist, dirlist, sent>>
  BY <1>1 DEF WInv, WalkTyped, walkVars
<1>3. WalkTyped'
  BY <1>1, <1>2 DEF WInv, WalkTyped
<1>4. LineRead'
  BY <1>1, <1>2 DEF WInv, LineRead, Gives
<1>5. (WalkTyped /\ step = "idle" => Counted /\ Within /\ Distinct /\ FlatWalk)'
  BY BeforeWalk, PTL
<1>6. QED  BY <1>2, <1>3, <1>4, <1>5 DEF WInv

\* main goes on, asks for files when both options were there, and closes.
LEMMA WPhase ==
  ASSUME IInv, WInv, GoOn \/ Written \/ readNFiles \/ CloseEnd
  PROVE  WInv'
<1>1. /\ at \in {"connect", "write", "read", "close"} /\ UNCHANGED <<argv, optind, conf>>
      /\ at' \in {"write", "read", "close", "ended", "failed"} /\ UNCHANGED walkVars
  BY DEF GoOn, Written, readNFiles, CloseEnd, Elsewhere
<1>2. UNCHANGED <<step, cwd, curr, unread, left, filelist, dirlist, sent>>
  BY <1>1 DEF walkVars
<1>3. WalkTyped'
  <2>1. at = "write" /\ at' # "write" => step \notin {"walk", "read", "send"}
    BY DEF GoOn, Written, readNFiles, CloseEnd
  <2>2. at # "write" => step \notin {"walk", "read", "send"}
    BY DEF WInv, WalkTyped
  <2>3. step \in {"walk", "read", "send"} => at' = "write" /\ Dirname' # <<>>
    BY <1>1, <2>1, <2>2 DEF WInv, WalkTyped, Dirname
  <2>4. QED  BY <1>1, <1>2, <2>3 DEF WInv, WalkTyped
<1>4. LineRead'
  <2>1. ~(argv # <<>> /\ argv[1] = Word("-h"))
    BY <1>1 DEF WInv, LineRead
  <2>2. asked' => /\ conf.read_filecount # 0 /\ conf.folder_destination # NULL
                  /\ at' \in {"close", "ended", "failed"}
    BY DEF GoOn, Written, readNFiles, CloseEnd, WInv, LineRead
  <2>3. QED  BY <1>1, <2>1, <2>2 DEF WInv, LineRead, Gives
<1>5. (Counted /\ Within /\ (Flat => Distinct /\ FlatWalk))'
  BY <1>1, <1>2
     DEF WInv, Counted, Within, Flat, Distinct, FlatWalk, Sent, Dirname, PathOf
<1>6. QED  BY <1>3, <1>4, <1>5 DEF WInv

\* The walk: what the command line gave it is left alone.
LEMMA WriteKeeps ==
  ASSUME IInv, WInv, Writing
  PROVE  /\ LineRead' /\ at' = at /\ at = "write" /\ conf' = conf /\ UNCHANGED <<asked, argv>>
         /\ Dirname' = Dirname /\ Dirname \in Strings /\ Flat' = Flat
         /\ conf.folder_to_write = NULL => Dirname = <<>>
         /\ conf.folder_filecount \in Int /\ Len(sent) \in Nat
<1>1. at = "write" /\ UNCHANGED <<argv, optind, conf, asked, at>> /\ UNCHANGED socket
  BY DEF Writing, mainVars, dialVars
<1>2. LineRead'
  BY <1>1 DEF WInv, LineRead, Gives
<1>3. Dirname' = Dirname /\ Flat' = Flat
  BY <1>1 DEF Dirname, PathOf, Flat
<1>4. Dirname \in Strings
  <2>1. CASE conf.folder_to_write = NULL
    BY <2>1, EmptySeq DEF Dirname, PathOf, Strings
  <2>2. CASE conf.folder_to_write # NULL
    <3>1. argv \in CommandLines
      BY DEF WInv, LineRead
    <3>2. PICK n \in 1..(Len(argv) - 1) :
            Len(argv[n + 1]) = 2 /\ conf.folder_to_write = Word(argv[n + 1][1])
      BY <2>2 DEF WInv, LineRead
    <3>3. Len(argv) \in Nat /\ argv \in Seq(ToSet(argv))
      BY <3>1, ClientAssumption
    <3>4. n + 1 \in 1..Len(argv)
      BY <3>2, <3>3
    <3>5. argv[n + 1] \in ToSet(argv)
      BY <3>3, <3>4, InList
    <3>6. conf.folder_to_write \in DOMAIN Paths
      BY <3>1, <3>2, <3>5, ClientAssumption DEF Word
    <3>7. QED  BY <2>2, <3>6, ClientAssumption DEF Dirname, PathOf, Strings
  <2>3. QED  BY <2>1, <2>2
<1>5. conf.folder_to_write = NULL => Dirname = <<>>
  BY DEF Dirname, PathOf
<1>6. conf.folder_filecount \in Int /\ Len(sent) \in Nat
  BY InList DEF IInv, ConfTyped, SentTyped
<1>7. QED  BY <1>1, <1>2, <1>3, <1>4, <1>5, <1>6

\* The rest of the invariant.
WalkInv == WalkTyped /\ Counted /\ Within /\ (Flat => Distinct /\ FlatWalk)

\* The walk begins, or there is nothing to walk.
LEMMA WBegin ==
  ASSUME IInv, WInv, Writing,
         write_nfiles_from_dir(PathOf(conf.folder_to_write), conf.folder_filecount)
  PROVE  WalkInv'
<1>1. /\ step = "idle" /\ sent = <<>> /\ filelist = <<>> /\ dirlist = <<>>
      /\ UNCHANGED <<cwd, curr, unread, filelist, sent>>
  BY DEF WInv, WalkTyped, write_nfiles_from_dir
<1>2. /\ at' = at /\ at = "write" /\ conf' = conf /\ Dirname' = Dirname /\ Dirname \in Strings
      /\ conf.folder_filecount \in Int /\ Flat' = Flat
      /\ conf.folder_to_write = NULL => Dirname = <<>>
  BY WriteKeeps
<1>3. Sent' = {} /\ ToSet(filelist') = {} /\ ToSet(<<>>) = {}
  BY <1>1 DEF Sent, ToSet
<1>4. CASE Dirname = <<>> \/ conf.folder_filecount = 0
  <2>1. step' = "done" /\ left' = left /\ dirlist' = <<>>
    BY <1>1, <1>4 DEF write_nfiles_from_dir, Dirname
  <2>2. WalkTyped' /\ Counted' /\ Within'
    BY <1>1, <1>2, <1>3, <2>1 DEF WInv, WalkTyped, Counted, Within
  <2>3. Distinct'
    BY <1>1, <1>3 DEF Distinct, Unrepeated
  <2>4. ASSUME Flat PROVE FlatWalk'
    <3>1. Dirname # <<>>
      BY <2>4, PathsAre DEF Flat
    <3>2. QED  BY <1>2, <1>4, <2>1, <3>1 DEF FlatWalk
  <2>5. QED  BY <1>2, <2>2, <2>3, <2>4 DEF WalkInv
<1>5. CASE ~(Dirname = <<>> \/ conf.folder_filecount = 0)
  <2>1. /\ step' = "walk" /\ left' = conf.folder_filecount
        /\ dirlist' = lu_insert(<<>>, Dirname)
    BY <1>1, <1>5 DEF write_nfiles_from_dir, Dirname
  <2>3. /\ dirlist' \in Seq(Strings) /\ Len(dirlist') = 1
        /\ ToSet(dirlist') = {Dirname}
    <3>1. /\ lu_insert(filelist, Dirname) \in Seq(Strings)
          /\ Len(lu_insert(filelist, Dirname)) = Len(filelist) + 1
          /\ ToSet(lu_insert(filelist, Dirname)) = ToSet(filelist) \cup {Dirname}
      BY <1>2, ListInserted DEF WInv, WalkTyped
    <3>2. ToSet(filelist) = {} /\ Len(filelist) = 0
      BY <1>1, <1>3
    <3>3. lu_insert(filelist, Dirname) = dirlist'
      BY <1>1, <2>1
    <3>4. QED  BY <3>1, <3>2, <3>3
  <2>4. dirlist' = <<Dirname>>
    <3>1. dirlist'[1] \in ToSet(dirlist')
      BY <2>3, InList
    <3>2. QED  BY <2>3, <3>1
  <2>5. WalkTyped'
    BY <1>1, <1>2, <1>5, <2>1, <2>3 DEF WInv, WalkTyped
  <2>6. Counted'
    BY <1>1, <1>2, <2>1 DEF Counted
  <2>7. Within'
    BY <1>1, <1>2, <1>3, <2>1, <2>3 DEF Within
  <2>8. Distinct'
    BY <1>1, <1>3 DEF Distinct, Unrepeated
  <2>9. FlatWalk'
    BY <1>1, <1>2, <2>1, <2>4 DEF FlatWalk
  <2>10. QED  BY <2>5, <2>6, <2>7, <2>8, <2>9 DEF WalkInv
<1>6. QED  BY <1>4, <1>5

\* The first directory of the list is entered, or not found.
LEMMA WEnter ==
  ASSUME IInv, WInv, Writing, Enter
  PROVE  WalkInv'
<1>1. /\ step = "walk" /\ dirlist # <<>> /\ left > 0 /\ curr' = Head(dirlist)
      /\ UNCHANGED <<left, filelist, sent>>
  BY DEF Enter
<1>2. /\ at' = at /\ at = "write" /\ conf' = conf /\ Dirname' = Dirname /\ Dirname \in Strings
      /\ Flat' = Flat
  BY WriteKeeps
<1>3. Sent' = Sent /\ filelist = <<>> /\ ToSet(filelist) = {} /\ left \in Int
  BY <1>1 DEF Sent, ToSet, WInv, WalkTyped
<1>4. /\ dirlist \in Seq(Strings) /\ Head(dirlist) \in Strings
      /\ Head(dirlist) \in ToSet(dirlist)
  BY <1>1, ListTail DEF WInv, WalkTyped
<1>5. Head(dirlist) = Dirname \/ Below(Dirname, Head(dirlist))
  BY <1>4 DEF WInv, Within
<1>6. CASE Resolve(Head(dirlist)) \in Dirs
  <2> DEFINE dir == Resolve(Head(dirlist))
  <2>1. cwd' = dir /\ unread' = Names(dir) /\ step' = "read" /\ dirlist' = dirlist
    BY <1>6 DEF Enter
  <2>2. dir \in Strings
    BY <1>6, PathsAre
  <2> HIDE DEF dir
  <2>3. unread' \subseteq Strings \ {<<>>}
    BY <2>1, <2>2, NamesAre
  <2>4. WalkTyped'
    BY <1>1, <1>2, <1>4, <2>1, <2>2, <2>3 DEF WInv, WalkTyped
  <2>5. Counted'
    BY <1>1, <1>2, <1>3, <2>1 DEF WInv, Counted
  <2>6. Within'
    BY <1>1, <1>2, <1>3, <1>5, <2>1 DEF WInv, Within
  <2>7. ASSUME Flat PROVE Distinct' /\ FlatWalk'
    <3>1. Dirname \in Dirs /\ Head(Dirname) = Slash /\ In(Dirname) \subseteq Files
      BY <2>7, PathsAre DEF Flat
    <3>2. dirlist = <<Dirname>> /\ sent = <<>>
      BY <1>1, <2>7 DEF WInv, FlatWalk
    <3>3. Head(dirlist) = Dirname
      BY <1>2, <3>2
    <3>4. dir = Dirname
      BY <3>1, <3>3 DEF dir, Resolve
    <3>5. In(Dirname) = {InDir(Dirname, name) : name \in Names(Dirname)}
      BY <3>1, FlatNames
    <3>6. Distinct'
      BY <1>1, <1>3, <2>7 DEF WInv, Distinct
    <3>7. FlatWalk'
      BY <1>1, <1>2, <1>3, <2>1, <3>2, <3>3, <3>4, <3>5 DEF FlatWalk
    <3>8. QED  BY <3>6, <3>7
  <2>8. QED  BY <1>2, <2>4, <2>5, <2>6, <2>7 DEF WalkInv
<1>7. CASE Resolve(Head(dirlist)) \notin Dirs
  <2>1. step' = "failed" /\ dirlist' = <<>> /\ UNCHANGED <<cwd, unread>>
    BY <1>7 DEF Enter
  <2>2. ToSet(dirlist') = {}
    BY <2>1 DEF ToSet
  <2>3. WalkTyped'
    BY <1>1, <1>2, <1>4, <2>1 DEF WInv, WalkTyped
  <2>4. Counted'
    BY <1>1, <1>2, <2>1 DEF WInv, Counted
  <2>5. Within'
    BY <1>1, <1>2, <1>3, <2>1, <2>2 DEF WInv, Within
  <2>6. ASSUME Flat PROVE Distinct' /\ FlatWalk'
    BY <1>1, <1>3, <2>1, <2>6 DEF WInv, Distinct, FlatWalk
  <2>7. QED  BY <1>2, <2>3, <2>4, <2>5, <2>6 DEF WalkInv
<1>8. QED  BY <1>6, <1>7

\* readdir returns a name: a directory is noted, a file listed and counted.
LEMMA WFound ==
  ASSUME IInv, WInv, Writing, step = "read", left > 0, NEW name \in unread, Found(name)
  PROVE  WalkInv'
<1>1. unread' = unread \ {name} /\ UNCHANGED <<step, cwd, curr, sent>>
  BY DEF Found
<1>2. /\ at' = at /\ at = "write" /\ conf' = conf /\ Dirname' = Dirname /\ Dirname \in Strings
      /\ Flat' = Flat /\ conf.folder_filecount \in Int /\ Len(sent) \in Nat
  BY WriteKeeps
<1>3. /\ Sent' = Sent /\ left \in Int /\ filelist \in Seq(Strings) /\ dirlist \in Seq(Strings)
      /\ curr \in Strings /\ cwd \in Strings /\ name \in Strings /\ Len(filelist) \in Nat
  BY <1>1, InList DEF Sent, WInv, WalkTyped
<1> DEFINE path == InDir(curr, name)
<1>4. path \in Strings
  BY <1>3, Joined
<1>5. name # <<>> => Below(Dirname, path)
  BY <1>2, <1>3, BelowJoined DEF WInv, Within
<1>6. name # <<>>
  BY DEF WInv, WalkTyped
<1> HIDE DEF path
<1>7. CASE filestat' = "dir"
  <2>1. dirlist' = lu_insert(dirlist, path) /\ UNCHANGED <<left, filelist>>
    BY <1>7 DEF Found, path
  <2>2. dirlist' \in Seq(Strings) /\ ToSet(dirlist') = ToSet(dirlist) \cup {path}
    BY <1>3, <1>4, <2>1, ListInserted
  <2>3. WalkTyped'
    BY <1>1, <1>2, <2>1, <2>2 DEF WInv, WalkTyped
  <2>4. Counted'
    BY <1>1, <1>2, <2>1 DEF WInv, Counted
  <2>5. Within'
    BY <1>1, <1>2, <1>3, <1>5, <1>6, <2>1, <2>2 DEF WInv, Within
  <2>6. ~Flat
    <3>1. SUFFICES ASSUME Flat PROVE FALSE
      OBVIOUS
    <3>2. cwd = Dirname /\ name \in Names(Dirname)
      BY <3>1 DEF WInv, FlatWalk
    <3>3. InDir(cwd, name) \in Files /\ InDir(cwd, name) \notin Dirs
      BY <3>1, <3>2, FlatNames, PathsAre DEF Flat
    <3>4. filestat' \in {"file"}
      BY <3>3 DEF Found, Stat
    <3>5. QED  BY <1>7, <3>4
  <2>7. QED  BY <1>2, <2>3, <2>4, <2>5, <2>6 DEF WalkInv
<1>8. CASE filestat' = "file"
  <2>1. filelist' = lu_insert(filelist, path) /\ left' = left - 1 /\ dirlist' = dirlist
    BY <1>8 DEF Found, path
  <2>2. /\ filelist' \in Seq(Strings) /\ Len(filelist') = Len(filelist) + 1
        /\ ToSet(filelist') = ToSet(filelist) \cup {path}
        /\ Unrepeated(filelist) /\ path \notin ToSet(filelist) => Unrepeated(filelist')
    BY <1>3, <1>4, <2>1, ListInserted
  <2>3. WalkTyped'
    BY <1>1, <1>2, <1>3, <2>1, <2>2 DEF WInv, WalkTyped
  <2>4. Counted'
    <3>1. Len(sent) + Len(filelist) + left = conf.folder_filecount
      BY DEF WInv, Counted
    <3>2. Len(sent) + Len(filelist') + left' = conf.folder_filecount /\ left' >= 0
      BY <1>2, <1>3, <2>1, <2>2, <3>1
    <3>3. QED  BY <1>1, <1>2, <3>2 DEF Counted
  <2>5. Within'
    BY <1>1, <1>2, <1>3, <1>5, <1>6, <2>1, <2>2 DEF WInv, Within
  <2>6. ASSUME Flat PROVE Distinct' /\ FlatWalk'
    <3>1. /\ cwd = Dirname /\ curr = Dirname /\ sent = <<>> /\ dirlist = <<Dirname>>
          /\ unread \subseteq Names(Dirname)
          /\ \A nam \in unread : InDir(Dirname, nam) \notin ToSet(filelist)
          /\ ToSet(filelist) \cup {InDir(Dirname, nam) : nam \in unread} = In(Dirname)
          /\ Unrepeated(filelist)
      BY <2>6 DEF WInv, FlatWalk, Distinct
    <3>2. path = InDir(Dirname, name)
      BY <3>1 DEF path
    <3>3. Distinct'
      BY <1>1, <2>2, <3>1, <3>2 DEF Distinct
    <3>4. ASSUME NEW nam \in unread' PROVE InDir(Dirname, nam) \notin ToSet(filelist')
      <4>1. nam \in unread /\ nam # name /\ nam \in Strings
        BY <1>1, <3>4 DEF WInv, WalkTyped
      <4>2. InDir(Dirname, nam) # InDir(Dirname, name)
        BY <1>2, <1>3, <4>1, JoinedApart
      <4>3. QED  BY <2>2, <3>1, <3>2, <4>1, <4>2
    <3>5. ToSet(filelist') \cup {InDir(Dirname, nam) : nam \in unread'} = In(Dirname)
      BY <1>1, <2>2, <3>1, <3>2
    <3>6. FlatWalk'
      BY <1>1, <1>2, <2>1, <3>1, <3>4, <3>5 DEF FlatWalk
    <3>7. QED  BY <3>3, <3>6
  <2>7. QED  BY <1>2, <2>3, <2>4, <2>5, <2>6 DEF WalkInv
<1>9. CASE filestat' \notin {"dir", "file"}
  <2>1. UNCHANGED <<left, filelist, dirlist>>
    BY <1>9 DEF Found
  <2>2. WalkTyped' /\ Counted' /\ Within'
    BY <1>1, <1>2, <1>3, <2>1 DEF WInv, WalkTyped, Counted, Within
  <2>3. ~Flat
    <3>1. SUFFICES ASSUME Flat PROVE FALSE
      OBVIOUS
    <3>2. cwd = Dirname /\ name \in Names(Dirname)
      BY <3>1 DEF WInv, FlatWalk
    <3>3. InDir(cwd, name) \in Files /\ InDir(cwd, name) \notin Dirs
      BY <3>1, <3>2, FlatNames, PathsAre DEF Flat
    <3>4. filestat' \in {"file"}
      BY <3>3 DEF Found, Stat
    <3>5. QED  BY <1>9, <3>4
  <2>4. QED  BY <1>2, <2>2, <2>3 DEF WalkInv
<1>10. QED  BY <1>7, <1>8, <1>9

\* readdir is at its end, or enough names were read.
LEMMA WReadEnd ==
  ASSUME IInv, WInv, Writing, ReadEnd
  PROVE  WalkInv'
<1>1. /\ step = "read" /\ (left = 0 \/ unread = {}) /\ step' = "send" /\ unread' = {}
      /\ UNCHANGED <<cwd, curr, left, filelist, dirlist, sent>>
  BY DEF ReadEnd
<1>2. at' = at /\ at = "write" /\ conf' = conf /\ Dirname' = Dirname /\ Flat' = Flat
  BY WriteKeeps
<1>3. Sent' = Sent
  BY <1>1 DEF Sent
<1>4. WalkTyped'
  BY <1>1, <1>2 DEF WInv, WalkTyped
<1>5. Counted'
  BY <1>1, <1>2 DEF WInv, Counted
<1>6. Within'
  BY <1>1, <1>2, <1>3 DEF WInv, Within
<1>7. ASSUME Flat PROVE Distinct' /\ FlatWalk'
  <2>1. /\ dirlist = <<Dirname>> /\ curr = Dirname /\ sent = <<>>
        /\ ToSet(filelist) \cup {InDir(Dirname, nam) : nam \in unread} = In(Dirname)
    BY <1>1, <1>7 DEF WInv, FlatWalk
  <2>2. Sent = {}
    BY <2>1 DEF Sent
  <2>3. ToSet(filelist) \cup Sent = In(Dirname) \/ left = 0
    BY <1>1, <2>1, <2>2
  <2>4. Distinct'
    BY <1>1, <1>7 DEF WInv, Distinct
  <2>5. FlatWalk'
    BY <1>1, <1>2, <1>3, <2>1, <2>3 DEF FlatWalk
  <2>6. QED  BY <2>4, <2>5
<1>8. QED  BY <1>2, <1>4, <1>5, <1>6, <1>7 DEF WalkInv

\* A file of the list is sent.
LEMMA WSend ==
  ASSUME IInv, WInv, Writing, SendFile(socket = "connected")
  PROVE  WalkInv'
<1>1. /\ step = "send" /\ filelist # <<>> /\ filelist' = Tail(filelist)
      /\ UNCHANGED <<step, cwd, curr, unread, left, dirlist>>
  BY DEF SendFile
<1>2. /\ at' = at /\ at = "write" /\ conf' = conf /\ Dirname' = Dirname /\ Flat' = Flat
      /\ conf.folder_filecount \in Int /\ Len(sent) \in Nat
  BY WriteKeeps
<1>3. filelist \in Seq(Strings) /\ left \in Int
  BY DEF WInv, WalkTyped
<1>4. /\ Head(filelist) \in Strings /\ filelist' \in Seq(Strings)
      /\ Len(filelist) = Len(filelist') + 1 /\ Len(filelist') \in Nat
      /\ ToSet(filelist) = {Head(filelist)} \cup ToSet(filelist')
      /\ Unrepeated(filelist) => Unrepeated(filelist') /\ Head(filelist) \notin ToSet(filelist')
  BY <1>1, <1>3, ListTail
<1>5. PICK e : e.path = Head(filelist) /\ sent' = Append(sent, e)
  BY DEF SendFile
<1>6. /\ Len(sent') = Len(sent) + 1 /\ DOMAIN sent = 1..Len(sent) /\ DOMAIN sent' = 1..(Len(sent) + 1)
      /\ \A i \in 1..Len(sent) : sent'[i] = sent[i]
      /\ sent'[Len(sent) + 1] = e
  <2> DEFINE S == {sent[n] : n \in DOMAIN sent} \cup {e}
  <2>1. sent \in Seq(S) /\ e \in S
    BY SeqMonotonic DEF IInv, SentTyped
  <2> HIDE DEF S
  <2>2. /\ Append(sent, e) \in Seq(S) /\ Len(Append(sent, e)) = Len(sent) + 1
        /\ \A i \in 1..Len(sent) : Append(sent, e)[i] = sent[i]
        /\ Append(sent, e)[Len(sent) + 1] = e
    BY <2>1, AppendProperties
  <2>3. QED  BY <1>2, <1>5, <2>1, <2>2, InList
<1>7. \A i : i \in 1..(Len(sent) + 1) <=> i \in 1..Len(sent) \/ i = Len(sent) + 1
  BY <1>2
<1>8. Sent' = Sent \cup {Head(filelist)}
  BY <1>5, <1>6, <1>7 DEF Sent
<1>9. WalkTyped'
  BY <1>1, <1>2, <1>4 DEF WInv, WalkTyped
<1>10. Counted'
  <2>1. Len(sent) + Len(filelist) + left = conf.folder_filecount /\ left >= 0
    BY <1>1 DEF WInv, Counted
  <2>2. Len(sent') + Len(filelist') + left = conf.folder_filecount
    BY <1>2, <1>3, <1>4, <1>6, <2>1
  <2>3. QED  BY <1>1, <1>2, <2>1, <2>2 DEF Counted
<1>11. Within'
  <2>1. conf.folder_to_write # NULL
    BY <1>1 DEF WInv, WalkTyped, Dirname, PathOf
  <2>2. ToSet(filelist') \cup Sent' = ToSet(filelist) \cup Sent
    BY <1>4, <1>8
  <2>3. QED  BY <1>1, <1>2, <2>1, <2>2 DEF WInv, Within
<1>12. ASSUME Flat PROVE Distinct' /\ FlatWalk'
  <2>1. /\ Unrepeated(filelist) /\ \A i \in DOMAIN sent : sent[i].path \notin ToSet(filelist)
        /\ \A i, j \in DOMAIN sent : sent[i].path = sent[j].path => i = j
    BY <1>12 DEF WInv, Distinct
  <2>2. \A i \in 1..Len(sent) : sent[i].path # Head(filelist)
    BY <1>4, <1>6, <2>1
  <2>3. \A i, j \in DOMAIN sent' : sent'[i].path = sent'[j].path => i = j
    BY <1>5, <1>6, <1>7, <2>1, <2>2
  <2>4. \A i \in DOMAIN sent' : sent'[i].path \notin ToSet(filelist')
    BY <1>4, <1>5, <1>6, <1>7, <2>1
  <2>5. Distinct'
    BY <1>4, <2>1, <2>3, <2>4 DEF Distinct
  <2>6. ToSet(filelist') \cup Sent' = ToSet(filelist) \cup Sent
    BY <1>4, <1>8
  <2>7. FlatWalk'
    BY <1>1, <1>2, <1>12, <2>6 DEF WInv, FlatWalk
  <2>8. QED  BY <2>5, <2>7
<1>13. QED  BY <1>2, <1>9, <1>10, <1>11, <1>12 DEF WalkInv

\* The directory is taken off the list.
LEMMA WLeave ==
  ASSUME IInv, WInv, Writing, Leave
  PROVE  WalkInv'
<1>1. /\ step = "send" /\ filelist = <<>> /\ step' = "walk" /\ dirlist' = lu_remove(dirlist, curr)
      /\ UNCHANGED <<cwd, curr, unread, left, filelist, sent>>
  BY DEF Leave
<1>2. /\ at' = at /\ at = "write" /\ conf' = conf /\ Dirname' = Dirname /\ Flat' = Flat
      /\ Dirname \in Strings
  BY WriteKeeps
<1>3. Sent' = Sent /\ ToSet(filelist) = {}
  BY <1>1 DEF Sent, ToSet
<1>4. dirlist' \in Seq(Strings) /\ ToSet(dirlist') \subseteq ToSet(dirlist)
  BY <1>1, ListRemoved DEF WInv, WalkTyped
<1>5. WalkTyped'
  BY <1>1, <1>2, <1>4 DEF WInv, WalkTyped
<1>6. Counted'
  BY <1>1, <1>2 DEF WInv, Counted
<1>7. Within'
  BY <1>1, <1>2, <1>3, <1>4 DEF WInv, Within
<1>8. ASSUME Flat PROVE Distinct' /\ FlatWalk'
  <2>1. dirlist = <<Dirname>> /\ curr = Dirname
        /\ (ToSet(filelist) \cup Sent = In(Dirname) \/ left = 0)
    BY <1>1, <1>8 DEF WInv, FlatWalk
  <2>2. dirlist' = <<>>
    BY <1>1, <1>2, <2>1, SoleRemoved
  <2>3. Distinct'
    BY <1>1, <1>8 DEF WInv, Distinct
  <2>4. FlatWalk'
    BY <1>1, <1>2, <1>3, <2>1, <2>2 DEF FlatWalk
  <2>5. QED  BY <2>3, <2>4
<1>9. QED  BY <1>2, <1>5, <1>6, <1>7, <1>8 DEF WalkInv

\* The walk ends, with no directory left or enough files sent.
LEMMA WFinish ==
  ASSUME IInv, WInv, Writing, Finish
  PROVE  WalkInv'
<1>1. /\ step = "walk" /\ (dirlist = <<>> \/ left <= 0) /\ step' = "done" /\ dirlist' = <<>>
      /\ UNCHANGED <<cwd, curr, unread, left, filelist, sent>>
  BY DEF Finish
<1>2. /\ at' = at /\ at = "write" /\ conf' = conf /\ Dirname' = Dirname /\ Flat' = Flat
      /\ conf.folder_filecount \in Int /\ Len(sent) \in Nat
  BY WriteKeeps
<1>3. Sent' = Sent /\ filelist = <<>> /\ ToSet(<<>>) = {} /\ left \in Int
  BY <1>1 DEF Sent, WInv, WalkTyped, ToSet
<1>4. WalkTyped'
  BY <1>1, <1>2 DEF WInv, WalkTyped
<1>5. Counted'
  BY <1>1, <1>2, <1>3 DEF WInv, Counted
<1>6. Within'
  BY <1>1, <1>2, <1>3 DEF WInv, Within
<1>7. ASSUME Flat PROVE Distinct' /\ FlatWalk'
  <2>1. Len(sent) + 0 + left = conf.folder_filecount
    BY <1>1, <1>3 DEF WInv, Counted
  <2>2. \/ dirlist = <<Dirname>> /\ sent = <<>>
        \/ dirlist = <<>> /\ (Sent = In(Dirname) \/ left = 0)
    BY <1>1, <1>7 DEF WInv, FlatWalk
  <2>3. conf.folder_filecount > 0 => Sent = In(Dirname) \/ Len(sent) = conf.folder_filecount
    <3>1. CASE dirlist = <<Dirname>> /\ sent = <<>>
      <4>1. left <= 0 /\ Len(sent) = 0
        BY <1>1, <3>1
      <4>2. QED  BY <1>2, <1>3, <2>1, <4>1
    <3>2. CASE dirlist = <<>> /\ (Sent = In(Dirname) \/ left = 0)
      BY <1>2, <2>1, <3>2
    <3>3. QED  BY <2>2, <3>1, <3>2
  <2>4. Distinct'
    BY <1>1, <1>7 DEF WInv, Distinct
  <2>5. FlatWalk'
    BY <1>1, <1>2, <1>3, <2>3 DEF FlatWalk
  <2>6. QED  BY <2>4, <2>5
<1>8. QED  BY <1>2, <1>4, <1>5, <1>6, <1>7 DEF WalkInv

\* A turn of the loops of write_nfiles_from_dir keeps the invariant.
LEMMA WWrite ==
  ASSUME IInv, WInv, Writing
  PROVE  WInv'
<1>1. WalkInv'
  BY WBegin, WEnter, WFound, WReadEnd, WSend, WLeave, WFinish DEF Writing, ReadEntry
<1>2. LineRead'
  BY WriteKeeps
<1>3. QED  BY <1>1, <1>2 DEF WalkInv, WInv

\* No step leaves the invariant.
LEMMA WNext == IInv /\ WInv /\ [Next]_vars => WInv'
<1> SUFFICES ASSUME IInv, WInv, [Next]_vars PROVE WInv'
  OBVIOUS
<1>1. CASE Main
  BY <1>1, WParse, WDial, WWrite, WPhase DEF Main
<1>2. CASE ServerTurn
  BY <1>2, WDial
<1>3. CASE UNCHANGED vars
  <2>1. /\ UNCHANGED <<argv, optind, conf, asked, at, socket>>
        /\ UNCHANGED <<step, cwd, curr, unread, left, filelist, dirlist, sent>>
    BY <1>3 DEF vars, mainVars, dialVars, walkVars
  <2>2. Dirname' = Dirname /\ Sent' = Sent /\ Flat' = Flat
    BY <2>1 DEF Dirname, PathOf, Sent, Flat
  <2>3. LineRead'
    BY <2>1 DEF WInv, LineRead, Gives
  <2>4. WalkTyped' /\ Counted' /\ Within'
    BY <2>1, <2>2 DEF WInv, WalkTyped, Counted, Within
  <2>5. Flat => Distinct' /\ FlatWalk'
    BY <2>1, <2>2 DEF WInv, Distinct, FlatWalk
  <2>6. QED  BY <2>2, <2>3, <2>4, <2>5 DEF WInv
<1>4. QED  BY <1>1, <1>2, <1>3 DEF Next

\* The invariant of the walk holds in every reachable state.
LEMMA WInvCorrect == Spec => [](IInv /\ WInv)
<1>1. Init => IInv /\ WInv
  BY InitInv, WInit
<1>2. IInv /\ WInv /\ [Next]_vars => (IInv /\ WInv)'
  BY NextInv, WNext
<1>3. QED  BY <1>1, <1>2, PTL DEF Spec

\* main (client.c:11) sends files only of a directory the command line names,
\* no more of them than a positive number given with it, asks for files only
\* when told to and where to put them, and does nothing when the first option
\* is -h.
THEOREM AskedForCorrect == Spec => []AskedFor
<1>1. IInv /\ WInv => AskedFor
  <2> SUFFICES ASSUME IInv, WInv PROVE AskedFor
    OBVIOUS
  <2>1. ASSUME sent # <<>>
        PROVE  \E n \in 1..(Len(argv) - 1) :
                 /\ argv[n] = Word("-w") /\ Len(argv[n + 1]) = 2
                 /\ Number(Word(argv[n + 1][2])) > 0 =>
                      Len(sent) <= Number(Word(argv[n + 1][2]))
                 /\ \A p \in Sent : Below(Paths[Word(argv[n + 1][1])], p)
    <3>1. conf.folder_to_write # NULL
      BY <2>1 DEF WInv, Within
    <3>2. PICK n \in 1..(Len(argv) - 1) :
            /\ argv[n] = Word("-w") /\ Len(argv[n + 1]) = 2
            /\ conf.folder_to_write = Word(argv[n + 1][1])
            /\ conf.folder_filecount = Number(Word(argv[n + 1][2]))
      BY <3>1 DEF WInv, LineRead
    <3>3. Len(sent) \in Nat /\ Len(filelist) \in Nat /\ left \in Int /\ conf.folder_filecount \in Int
      BY InList DEF IInv, ConfTyped, SentTyped, WInv, WalkTyped
    <3>4. Len(sent) + Len(filelist) + left = conf.folder_filecount /\ left >= 0
      BY <2>1 DEF WInv, Counted
    <3>5. Len(sent) <= conf.folder_filecount
      BY <3>3, <3>4
    <3>6. Dirname = Paths[Word(argv[n + 1][1])]
      BY <3>1, <3>2 DEF Dirname, PathOf
    <3>7. \A p \in Sent : Below(Dirname, p)
      BY DEF WInv, Within
    <3>8. QED  BY <3>2, <3>5, <3>6, <3>7
  <2>2. asked => Gives(Word("-R"), Given) /\ Gives(Word("-d"), Named)
    BY DEF WInv, LineRead, Gives, Given
  <2>3. asked \/ socket # "none" \/ step # "idle" => argv = <<>> \/ argv[1] # Word("-h")
    BY DEF WInv, LineRead
  <2>4. QED  BY <2>1, <2>2, <2>3 DEF AskedFor, Gives
<1>2. QED  BY <1>1, WInvCorrect, PTL

\* Every file counted against nfiles is in the list of its directory or was
\* sent, once; of a directory that has nothing but files all are sent, or
\* nfiles of them, in whatever way their names begin (client.c:226).
THEOREM AllSentCorrect == Spec => []AllSent
<1>1. IInv /\ WInv => AllSent
  <2> SUFFICES ASSUME IInv, WInv PROVE AllSent
    OBVIOUS
  <2>1. step \in {"walk", "read", "send"} =>
          Len(sent) + Len(filelist) + left = conf.folder_filecount
    BY DEF WInv, Counted
  <2>2. ASSUME step = "done", Flat, conf.folder_filecount > 0
        PROVE  /\ Cardinality(Sent) = Len(sent)
               /\ Sent = In(Dirname) \/ Len(sent) = conf.folder_filecount
    <3> DEFINE v == [i \in DOMAIN sent |-> sent[i].path]
    <3>1. /\ v \in [DOMAIN sent -> {v[i] : i \in DOMAIN sent}]
          /\ \A i, j \in DOMAIN sent : v[i] = v[j] => i = j
      BY <2>2 DEF WInv, Distinct
    <3>2. Sent = {v[i] : i \in DOMAIN sent}
      BY DEF Sent
    <3> HIDE DEF v
    <3>3. Cardinality(Sent) = Len(sent)
      BY <3>1, <3>2, CountUnrepeated DEF IInv, SentTyped
    <3>4. QED  BY <2>2, <3>3 DEF WInv, FlatWalk
  <2>3. QED  BY <2>1, <2>2 DEF AllSent
<1>2. QED  BY <1>1, WInvCorrect, PTL
=============================================================================
