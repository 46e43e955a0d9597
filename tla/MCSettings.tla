----------------------------- MODULE MCSettings -----------------------------
(* Lines for the runs of Settings.                                         *)
EXTENDS Settings

Key(k) == Word(k, <<2, 3>>)
Name(chars) == Word("none", chars)
Long == Name([i \in 1..64 |-> 5])

SomeLines ==
  {<<>>, <<Hash>>, <<Hash, Sep, Key("NWORKERS"), Sep, Number(7)>>, <<Sep>>,
   <<Key("NWORKERS"), Sep, Number(4)>>, <<Key("NWORKERS"), Sep, Number(65537)>>,
   <<Key("NWORKERS"), Sep>>, <<Sep, Key("NWORKERS"), Sep, Number(2)>>,
   <<Key("CAPACITY"), Sep, Number(2048), Sep, Hash>>, <<Key("CAPACITY"), Sep, Name(<<4>>)>>,
   <<Key("FILECAPACITY"), Sep, Number(9)>>, <<Key("CLIENT_MAX"), Sep, Number(600000)>>,
   <<Key("SOCKET_NAME"), Sep, Name(<<4>>)>>, <<Key("SOCKET_NAME"), Sep>>,
   <<Key("SOCKET_NAME"), Sep, Name(<<5, 6>>)>>, <<Key("LOGFILE_NAME"), Sep, Long>>,
   <<Name(<<4>>), Sep, Number(3)>>, <<Number(8)>>}
=============================================================================
