------------------------------ MODULE Settings ------------------------------
(***************************************************************************)
(* The start of the server: init_server_settings reads config.txt and      *)
(* init_server_infos makes the server's state from what was read.  The     *)
(* file is a sequence of lexemes: words, runs of blanks, commas,           *)
(* semicolons and equal signs, and newlines.                               *)
(***************************************************************************)
EXTENDS Integers, Sequences, SequencesExt

CONSTANTS
  Lines,      \* the lines a file is made of, as sequences of lexemes
  MaxLines    \* bound: lines of a file

\* A word that starts with "#", one that is a number, and any other; chars
\* stands for its characters and key for the setting it names, if any.
Word(key, chars) == [sort |-> "word", key |-> key, num |-> 0, chars |-> chars]
Number(n) == [sort |-> "number", key |-> "none", num |-> n, chars |-> <<0>>]
Hash == [sort |-> "hash", key |-> "none", num |-> 0, chars |-> <<1>>]
Sep == [sort |-> "sep", key |-> "none", num |-> 0, chars |-> <<>>]
NL == [sort |-> "nl", key |-> "none", num |-> 0, chars |-> <<>>]

NumberKeys == {"NWORKERS", "CAPACITY", "CLIENT_MAX", "FILECAPACITY"}
NameKeys == {"SOCKET_NAME", "LOGFILE_NAME"}
MaxName == 63

\* What a line is made of: only a word names a setting, and a run of blanks
\* ends where something else begins.
Lexeme == [sort : {"word", "number", "hash", "sep"}, num : Nat, chars : Seq(Nat),
           key : NumberKeys \cup NameKeys \cup {"none"}]
IsLine(l) ==
  /\ l \in Seq(Lexeme)
  /\ \A p \in DOMAIN l :
       /\ l[p].key # "none" => l[p].sort = "word"
       /\ l[p].sort = "sep" => l[p] = Sep /\ (p > 1 => l[p - 1].sort # "sep")

ASSUME SettingsAssumption == MaxLines \in Nat /\ \A l \in Lines : IsLine(l)

VARIABLES
  lines,     \* the file: its lines,
  ends,      \* and whether the last one ends with a newline
  pos,       \* the next lexeme
  eof,       \* feof
  setts,     \* the settings
  infos,     \* what init_server_infos makes of them
  at         \* "read", "init", "running" or "exit"

vars == <<lines, ends, pos, eof, setts, infos, at>>

File ==
  LET text == FlattenSeq([i \in DOMAIN lines |-> Append(lines[i], NL)])
  IN  IF ends \/ text = <<>> THEN text ELSE Front(text)

Sort(p) == File[p].sort
IsWord(p) == p <= Len(File) /\ Sort(p) \notin {"sep", "nl"}

\* The first place from p on that has none of the sorts.
After(p, sorts) ==
  CHOOSE q \in p..(Len(File) + 1) :
    /\ q <= Len(File) => Sort(q) \notin sorts
    /\ \A r \in p..(q - 1) : Sort(r) \in sorts

AnyButNL == {"word", "number", "hash", "sep"}

\* To the end of the line and past it; feof when there is no newline.
SkipLine(p) ==
  LET q == After(p, AnyButNL)
  IN  pos' = IF q > Len(File) THEN q ELSE q + 1

server_skipline(p) ==
  SkipLine(p) /\ eof' = (After(p, AnyButNL) > Len(File))

\* Mutant: an n_workers as wide as the number.
StoredWide(key, n) == IF key = "CAPACITY" THEN n % (2^12) ELSE n

\* n_workers is an unsigned short; CAPACITY is shifted into an int of 32 bits,
\* here in megabytes.
Stored(key, n) ==
  CASE key = "NWORKERS" -> n % (2^16)
    [] key = "CAPACITY" -> n % (2^12)
    [] OTHER -> n

\* fread puts the characters over those that are there.
Over(old, new) == new \o SubSeq(old, Len(new) + 1, Len(old))

Init ==
  /\ lines \in UNION {[1..n -> Lines] : n \in 0..MaxLines}
  /\ ends \in BOOLEAN
  /\ pos = 1 /\ eof = FALSE /\ at = "read" /\ infos = <<>>
  /\ setts = [k \in NumberKeys \cup NameKeys |->
                IF k \in NumberKeys THEN 0 ELSE <<>>]

Comment ==
  /\ at = "read" /\ ~eof /\ pos <= Len(File) /\ Sort(pos) = "hash"
  /\ server_skipline(pos)
  /\ UNCHANGED <<lines, ends, setts, infos, at>>

\* Mutant: the case of the newline has no break.
EmptyLineOn ==
  /\ at = "read" /\ ~eof /\ pos <= Len(File) /\ Sort(pos) = "nl"
  /\ server_skipline(After(pos, {"sep", "nl"}))
  /\ UNCHANGED <<lines, ends, setts, infos, at>>

EmptyLine ==
  /\ at = "read" /\ ~eof /\ pos <= Len(File) /\ Sort(pos) = "nl"
  /\ pos' = pos + 1
  /\ UNCHANGED <<lines, ends, eof, setts, infos, at>>

\* Mutant: fseek goes back, which clears feof, and nothing is read.
LastLineBack ==
  /\ at = "read" /\ ~eof /\ pos > Len(File)
  /\ at' = IF File = <<>> THEN "exit" ELSE at
  /\ UNCHANGED <<lines, ends, pos, eof, setts, infos>>

\* fgetc has no character: fseek goes back to the last one, a newline, as if
\* it began a line, and fails when there is none.
LastLine ==
  /\ at = "read" /\ ~eof /\ pos > Len(File)
  /\ eof' = TRUE /\ at' = IF File = <<>> THEN "exit" ELSE at
  /\ UNCHANGED <<lines, ends, pos, setts, infos>>

\* server_readword, get_setting and server_skipline: the word may be empty,
\* and what parts it from the value may go over lines.
Setting ==
  /\ at = "read" /\ ~eof /\ pos <= Len(File) /\ Sort(pos) \notin {"hash", "nl"}
  /\ LET key == IF IsWord(pos) THEN File[pos].key ELSE "none"
         value == After(IF IsWord(pos) THEN pos + 1 ELSE pos, {"sep", "nl"})
         set(v) == setts' = [setts EXCEPT ![key] = v]
     IN  \/ /\ \/ key = "none" \/ value > Len(File)
               \/ key \in NumberKeys /\ value <= Len(File) /\ Sort(value) # "number"
            /\ server_skipline(value) /\ UNCHANGED <<setts, at>>
         \/ /\ value <= Len(File) /\ key \in NumberKeys /\ Sort(value) = "number"
            /\ set(Stored(key, File[value].num))
            /\ server_skipline(value + 1) /\ UNCHANGED at
         \/ /\ value <= Len(File) /\ key \in NameKeys
            /\ Len(File[value].chars) <= MaxName
            /\ set(Over(setts[key], File[value].chars))
            /\ server_skipline(value + 1) /\ UNCHANGED at
         \/ /\ value <= Len(File) /\ key \in NameKeys
            /\ Len(File[value].chars) > MaxName
            /\ at' = "exit" /\ UNCHANGED <<pos, eof, setts>>
  /\ UNCHANGED <<lines, ends, infos>>

ReadEnd ==
  /\ at = "read" /\ eof /\ at' = "init"
  /\ UNCHANGED <<lines, ends, pos, eof, setts, infos>>

\* An array of 8 bytes an element that mu_calloc gives: up to 4 MB.
MaxArray == 2^19

\* init_server_infos; the socket may not be made.  Without room for a file or
\* a byte there is no storage.
init_server_infos ==
  /\ at = "init"
  /\ LET files == setts["FILECAPACITY"]
         bytes == setts["CAPACITY"]
     IN  \/ /\ setts["CLIENT_MAX"] <= MaxArray
            /\ files = 0 \/ bytes = 0 \/ files \div 4 + 1 <= MaxArray
            /\ infos' = [n_workers |-> setts["NWORKERS"],
                         maxlen |-> setts["CLIENT_MAX"],
                         storage |-> IF files = 0 \/ bytes = 0 THEN <<0, 0>>
                                     ELSE <<files, bytes>>]
            /\ at' = "running"
         \/ at' = "exit" /\ UNCHANGED infos
  /\ UNCHANGED <<lines, ends, pos, eof, setts>>

Next == Comment \/ EmptyLine \/ LastLine \/ Setting \/ ReadEnd \/ init_server_infos
Spec == Init /\ [][Next]_vars
FairSpec == Spec /\ WF_vars(Next)

-----------------------------------------------------------------------------
(* Properties.                                                             *)

TypeOK ==
  /\ at \in {"read", "init", "running", "exit"} /\ eof \in BOOLEAN
  /\ pos \in 1..(Len(File) + 1)
  /\ setts["NWORKERS"] \in 0..(2^16 - 1) /\ setts["CAPACITY"] \in 0..(2^12 - 1)
  /\ \A k \in NumberKeys : setts[k] \in Nat
  /\ \A k \in NameKeys : Len(setts[k]) <= MaxName
  /\ at = "running" => infos.maxlen <= MaxArray

\* A line that follows the rules: a setting at its start, then its value.
Follows(line) ==
  /\ Len(line) >= 3 /\ line[2].sort = "sep"
  /\ \/ line[1].key \in NumberKeys /\ line[3].sort = "number"
     \/ line[1].key \in NameKeys /\ line[3].sort = "word"

\* A line whose value is looked for in the lines that follow: it has nothing
\* after its first word, or nothing at all but blanks.
Unfinished(line) ==
  \/ line = <<Sep>>
  \/ line # <<>> /\ line[1].sort \notin {"hash", "sep"} /\ Len(line) <= 2

Names(line, key) == line # <<>> /\ line[1].key = key

\* Every line that follows the rules counts, whatever the rest of the file
\* has: unless its setting is named again, or the line before it that is not
\* empty is unfinished.
LinesCount ==
  at \in {"init", "running"} =>
    \A n \in DOMAIN lines :
      /\ Follows(lines[n])
      /\ \A m \in DOMAIN lines \ {n} : ~Names(lines[m], lines[n][1].key)
      /\ \A m \in 1..(n - 1) :
           Unfinished(lines[m]) =>
             \E o \in (m + 1)..(n - 1) : lines[o] # <<>> /\ ~Unfinished(lines[o])
      => LET key == lines[n][1].key IN
           setts[key] = IF key \in NumberKeys THEN Stored(key, lines[n][3].num)
                        ELSE lines[n][3].chars

\* The file is read to its end, or the server does not start.
StartEnds == <>(at \in {"running", "exit"})
=============================================================================
