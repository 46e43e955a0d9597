------------------------------- MODULE Client -------------------------------
(***************************************************************************)
(* The client from its command line to its end: parseargs, openConnection, *)
(* the walk of -w, readNFiles for -R, closeConnection.  main looks at the  *)
(* outcome of openConnection only to decide whether it closes: without a   *)
(* connection it walks and asks all the same.                              *)
(***************************************************************************)
EXTENDS OpenConnection, DirWalk

CONSTANTS
  CommandLines, \* the command lines, sequences of tokens
  Counts,       \* the numbers among the tokens: a function from tokens to Int
  Paths         \* the paths among them: a function from tokens to sequences

ASSUME ClientAssumption ==
  /\ AbsTime \in Nat \ {0} /\ MaxTurns \in Nat
  /\ MaxRemaining \in Nat /\ MaxRemaining > AbsTime
  /\ \A p \in Entries \cup {Home} : p \in Seq(Nat) \ {<<>>} /\ Head(p) = Slash
  /\ Dirs \cap Files = {} /\ (Dirs \cup Files) \cap Links = {} /\ Home \notin Entries
  /\ \A token \in DOMAIN Counts : Counts[token] \in Int
  /\ \A token \in DOMAIN Paths : Paths[token] \in Seq(Nat)
  /\ \A line \in CommandLines :
       /\ line \in Seq(ToSet(line))
       /\ \A token \in ToSet(line) : Len(token) = 2 => <<token[1]>> \in DOMAIN Paths

\* A value "dirname,n" is a pair; every other token is one word.
Pair(d, n) == <<d, n>>
Word(t) == <<t>>
Number(t) == IF t \in DOMAIN Counts THEN Counts[t] ELSE 0

Bare == {Word("-h"), Word("-p")}
ListOptions == {Word(o) : o \in {"-W", "-r", "-l", "-u", "-c"}}
WithValue == ListOptions \cup {Word(o) : o \in {"-f", "-w", "-D", "-R", "-d", "-t"}}
Unknown == Word("-x")
Options == Bare \cup WithValue \cup {Unknown}

NULL == <<>>

VARIABLES
  argv, optind,
  conf,      \* client_conf
  asked,     \* has readNFiles asked the server?
  at         \* "parse", "connect", "write", "read", "close", "ended",
             \* "failed" or "crashed"

mainVars == <<argv, optind, conf, asked, at>>
vars == <<mainVars, dialVars, walkVars>>
Elsewhere == UNCHANGED <<dialVars, walkVars>>

Init ==
  /\ argv \in CommandLines /\ optind = 1
  /\ conf = [server_socket_filename |-> NULL, folder_to_write |-> NULL,
             folder_filecount |-> 0, writeback_foldername |-> NULL,
             read_filecount |-> 0, folder_destination |-> NULL,
             connection_timer |-> 0, verbose |-> FALSE,
             lists |-> [o \in ListOptions |-> {}]]
  /\ asked = FALSE /\ at = "parse"
  /\ DialInit /\ WalkInit

Parsing == at = "parse" /\ optind <= Len(argv)
Current == argv[optind]

\* getopt goes over what is no option.
Operand ==
  /\ Parsing /\ Current \notin Options /\ optind' = optind + 1
  /\ UNCHANGED <<argv, conf, asked, at>> /\ Elsewhere

\* -h, an option that there is not, or the last one without its value.
ParseExit ==
  /\ Parsing
  /\ \/ Current = Word("-h") /\ at' = "ended"
     \/ /\ Current = Unknown \/ (Current \in WithValue /\ optind = Len(argv))
        /\ at' = "failed"
  /\ UNCHANGED <<argv, optind, conf, asked>> /\ Elsewhere

Verbose ==
  /\ Parsing /\ Current = Word("-p")
  /\ conf' = [conf EXCEPT !.verbose = TRUE] /\ optind' = optind + 1
  /\ UNCHANGED <<argv, asked, at>> /\ Elsewhere

\* The value is the next token, whatever it is; -w needs a comma in it, since
\* strtol is given what strtok finds behind it.
Value ==
  /\ Parsing /\ Current \in WithValue /\ optind < Len(argv)
  /\ LET optarg == argv[optind + 1] IN
       \/ /\ Current = Word("-w") /\ Len(optarg) = 1
          /\ at' = "crashed" /\ UNCHANGED conf
       \/ /\ Current = Word("-w") => Len(optarg) = 2
          /\ conf' =
               CASE Current = Word("-f") -> [conf EXCEPT !.server_socket_filename = optarg]
                 [] Current = Word("-w") -> [conf EXCEPT !.folder_to_write = Word(optarg[1]),
                                              !.folder_filecount = Number(Word(optarg[2]))]
                 [] Current = Word("-D") -> [conf EXCEPT !.writeback_foldername = optarg]
                 [] Current = Word("-R") -> [conf EXCEPT !.read_filecount = Number(optarg)]
                 [] Current = Word("-d") -> [conf EXCEPT !.folder_destination = optarg]
                 [] Current = Word("-t") -> [conf EXCEPT !.connection_timer = Number(optarg)]
                 [] OTHER -> [conf EXCEPT !.lists[Current] = @ \cup {Word(x) : x \in ToSet(optarg)}]
          /\ UNCHANGED at
  /\ optind' = optind + 2
  /\ UNCHANGED <<argv, asked>> /\ Elsewhere

ParseEnd ==
  /\ at = "parse" /\ optind > Len(argv) /\ at' = "connect"
  /\ UNCHANGED <<argv, optind, conf, asked>> /\ Elsewhere

Connecting ==
  /\ at = "connect" /\ UNCHANGED <<mainVars, walkVars>>
  /\ \/ openConnection(conf.server_socket_filename # NULL)
     \/ Connect \/ Fail \/ Sleep(conf.connection_timer)

\* openConnection has returned, with or without a connection.
GoOn ==
  /\ at = "connect" /\ dial = "returned" /\ at' = "write"
  /\ UNCHANGED <<argv, optind, conf, asked>> /\ Elsewhere

PathOf(token) == IF token = NULL THEN <<>> ELSE Paths[token]

Writing ==
  /\ at = "write" /\ UNCHANGED <<mainVars, dialVars>>
  /\ \/ write_nfiles_from_dir(PathOf(conf.folder_to_write), conf.folder_filecount)
     \/ Enter \/ ReadEntry \/ ReadEnd
     \/ SendFile(socket = "connected")
     \/ Leave \/ Finish

\* main does not look at what the walk returns.
Written ==
  /\ at = "write" /\ step \in {"done", "failed"} /\ at' = "read"
  /\ UNCHANGED <<argv, optind, conf, asked>> /\ Elsewhere

\* Mutant: || in place of the two tests.
readNFilesAnywhere ==
  /\ at = "read"
  /\ \/ /\ conf.read_filecount = 0 /\ conf.folder_destination = NULL
        /\ at' = "close" /\ UNCHANGED asked
     \/ /\ conf.read_filecount # 0 \/ conf.folder_destination # NULL
        /\ asked' = (socket # "none")
        /\ at' = "close" \/ (socket = "connected" /\ at' = "failed")
  /\ UNCHANGED <<argv, optind, conf>> /\ Elsewhere

\* Over a connection it ends the process at the end marker, unless it fails
\* before.
readNFiles ==
  /\ at = "read"
  /\ \/ /\ conf.read_filecount = 0 \/ conf.folder_destination = NULL
        /\ at' = "close" /\ UNCHANGED asked
     \/ /\ conf.read_filecount # 0 /\ conf.folder_destination # NULL
        /\ asked' = (socket # "none")
        /\ at' = "close" \/ (socket = "connected" /\ at' = "failed")
  /\ UNCHANGED <<argv, optind, conf>> /\ Elsewhere

CloseEnd ==
  /\ at = "close" /\ at' = "ended"
  /\ IF ret = 0 THEN closeConnection ELSE UNCHANGED dialVars
  /\ UNCHANGED <<argv, optind, conf, asked, walkVars>>

ServerTurn == at = "connect" /\ Turn /\ UNCHANGED <<mainVars, walkVars>>

Main ==
  \/ Operand \/ ParseExit \/ Verbose \/ Value \/ ParseEnd \/ Connecting \/ GoOn
  \/ Writing \/ Written \/ readNFiles \/ CloseEnd
Next == Main \/ ServerTurn
Spec == Init /\ [][Next]_vars /\ WF_vars(Main)

-----------------------------------------------------------------------------
(* Properties.                                                             *)

\* Types, of the command line, the connection and the walk (client_conf; the
\* locals of openConnection and write_nfiles_from_dir).
TypeOK ==
  /\ argv \in CommandLines /\ optind \in 1..(Len(argv) + 1)
  /\ conf.read_filecount \in Int /\ conf.folder_filecount \in Int
  /\ asked \in BOOLEAN
  /\ at \in {"parse", "connect", "write", "read", "close", "ended", "failed", "crashed"}
  /\ DialTypeOK /\ WalkTypeOK

\* Does the command line give the option such a value?
Gives(option, value(_)) ==
  \E n \in 1..(Len(argv) - 1) : argv[n] = option /\ value(argv[n + 1])

Given(t) == TRUE
Named(t) == t # NULL
Sent == {sent[n].path : n \in DOMAIN sent}
Below(dir, p) ==
  Len(p) > Len(dir) + 1 /\ SubSeq(p, 1, Len(dir) + 1) = Append(dir, Slash)

\* main (client.c:11) sends files only of a directory the command line names,
\* no more of them than a positive number given with it, asks for files only
\* when told to and where to put them, and does nothing when the first option
\* is -h.  What the number 0 stands for is left out: the help (client.c:62, 67)
\* takes it for all files, the code for none.
AskedFor ==
  /\ sent # <<>> => Gives(Word("-w"), LAMBDA t :
       /\ Len(t) = 2
       /\ Number(Word(t[2])) > 0 => Len(sent) <= Number(Word(t[2]))
       /\ \A p \in Sent : Below(Paths[Word(t[1])], p))
  /\ asked => Gives(Word("-R"), Given) /\ Gives(Word("-d"), Named)
  /\ asked \/ socket # "none" \/ step # "idle" => argv = <<>> \/ argv[1] # Word("-h")

\* Whatever the interval, openConnection (serverapi.c:274) sleeps less than
\* abstime and one interval more, and tells of a connection only when it slept
\* less than abstime.
InTime ==
  LET msec == conf.connection_timer IN
  /\ waited < AbsTime + (IF Interval(msec) > 0 THEN Interval(msec) ELSE 1)
  /\ ret = 0 /\ socket = "connected" => waited < AbsTime

\* Told of a connection main has one until it closes it, and it closes that
\* one before it ends; files are stored over a connection only; a server that
\* was there from the start is not missed (client.c:19, serverapi.c:305).
Told ==
  /\ dial = "returned" /\ ret = 0 /\ at # "ended" => socket = "connected"
  /\ at = "ended" => (dial = "returned" /\ ret = 0 <=> socket = "closed")
  /\ dial = "returned" /\ socket \in {"none", "open"} =>
       \A n \in DOMAIN sent : sent[n].how = "refused"
  /\ ret = -1 => turns > 0 \/ server # "up" \/ socket = "none"

\* openConnection returns, unless the interval is not positive and there is no
\* server for ever: an interval of 0, which is what it is without -t, is tried
\* again and again (serverapi.c:305).
GivesUp ==
  at = "connect" ~>
    \/ at # "connect"
    \/ Interval(conf.connection_timer) <= 0 /\ [](server \in {"absent", "deaf"})

Dirname == PathOf(conf.folder_to_write)
In(dir) == {p \in Entries : Below(dir, p)}
Flat == Dirname \in Dirs /\ In(Dirname) \subseteq Files

\* What lies deeper below a directory lies in a directory below it.
ASSUME TreeAssumption ==
  \A dir \in Dirs : \A p \in In(dir) : \A i \in (Len(dir) + 2)..Len(p) :
    p[i] = Slash => SubSeq(p, 1, i - 1) \in In(dir) \cap Dirs

\* Every file counted against nfiles is in the list of its directory or was
\* sent, once: none is dropped by the list, none sent with the next directory.
\* The files of a directory that has nothing else are sent once each, all of
\* them or nfiles, also those whose names begin with another's (client.c:226).
AllSent ==
  /\ step \in {"walk", "read", "send"} =>
       Len(sent) + Len(filelist) + left = conf.folder_filecount
  /\ step = "done" /\ Flat /\ conf.folder_filecount > 0 =>
       /\ Cardinality(Sent) = Len(sent)
       /\ Sent = In(Dirname) \/ Len(sent) = conf.folder_filecount

\* The walk ends, unless it comes to a directory that has nothing but
\* directories, or links taken for some: lu_remove takes one of those for it
\* (client.c:241).
OnlyDirs(dir) ==
  Names(dir) # {} /\ \A name \in Names(dir) : InDir(dir, name) \in Dirs \cup Links
WalkEnds == at = "write" ~> at # "write" \/ (cwd \in Dirs /\ OnlyDirs(cwd))
=============================================================================
