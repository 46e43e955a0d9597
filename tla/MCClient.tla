------------------------------ MODULE MCClient ------------------------------
(* Command lines, directories and numbers for the runs of Client.  0 is    *)
(* "/"; "flat" holds files of which one begins with another, "nested" a    *)
(* directory in a directory, the name of one the beginning of the other's; *)
(* "hollow" has only a directory, "linked" a link to nowhere and a file;   *)
(* "near" is given from where the client is started.                       *)
EXTENDS Client, TLC

home == <<0, 9>>
flat == <<0, 1>>
nested == <<0, 2>>
inner == <<0, 2, 0, 3>>
below == <<0, 9, 0, 1>>
hollow == <<0, 4>>
lone == <<0, 4, 0, 1>>
linked == <<0, 6>>

SomeDirs == {flat, nested, inner, below, hollow, lone, linked}
SomeFiles ==
  {InDir(flat, n) : n \in {<<1>>, <<1, 2>>, <<2>>}}
    \cup {InDir(nested, <<4>>), InDir(nested, <<3, 1>>)}
    \cup {InDir(inner, <<1>>), InDir(inner, <<1, 1>>)} \cup {InDir(below, <<1>>), InDir(lone, <<1>>)}
    \cup {InDir(linked, <<2>>), InDir(linked, <<3>>)}
SomeLinks == {InDir(linked, <<1>>)}

SomePaths ==
  Word("flat") :> flat @@ Word("nested") :> nested @@ Word("near") :> <<1>> @@ Word("hollow") :> hollow @@
  Word("linked") :> linked @@  Word("nowhere") :> <<0, 5>>

Negative == "-1500" :> -1500 @@ "-1000" :> -1000 @@ "-200" :> -200
Positive == "100" :> 100 @@ "200" :> 200 @@ "250" :> 250 @@ "500" :> 500 @@ "1200" :> 1200
Times == Negative @@ Positive
Numbers == Times @@ "0" :> 0 @@ "2" :> 2 @@ "4" :> 4 @@ "-1" :> -1
SomeCounts == [t \in {Word(n) : n \in DOMAIN Numbers} |-> Numbers[t[1]]]

Tokens ==
  {Word(o) : o \in {"-f", "-w", "-R", "-d", "-D", "-t", "-W", "-h", "-p", "-x", "flat", "2"}}
    \cup {Pair("flat", "2"), Pair("flat", "0")}
Short == UNION {[1..n -> Tokens] : n \in 0..3}

Opt(o, t) == <<Word(o), t>>
Server == Opt("-f", Word("flat"))
Walks == {Opt("-w", Pair(dir, n)) : dir \in {"flat", "nested", "near", "hollow", "linked", "nowhere"}, n \in {"2", "4"}}
Patience == {Server \o Opt("-t", Word(n)) : n \in DOMAIN Times}
Sends == {Server \o Opt("-t", Word("200")) \o w : w \in Walks}
Whole ==
  {Server \o Opt("-w", Pair("flat", n)) \o Opt("-R", Word(r)) \o Opt("-d", Word("near")) :
     n \in {"-1", "2"}, r \in {"-1", "0", "2"}}
Halves == {Server \o Opt("-R", Word("2")), Server \o Opt("-d", Word("near"))}
Lines == Short \cup Patience \cup Sends \cup Whole \cup Halves
=============================================================================
