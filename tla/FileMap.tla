------------------------------ MODULE FileMap ------------------------------
(***************************************************************************)
(* What the server takes its table of files for: a map from paths to file  *)
(* objects, in which a path is put when it is absent, and from which a     *)
(* removal drops one file and no other.  Which one is less than hoped for: *)
(* one whose path equals the one asked for as far as the shorter goes.     *)
(***************************************************************************)
EXTENDS PrefixOrder

CONSTANTS Keys, Objects, None
VARIABLES
  files,  \* the object of each path
  asked   \* the path of the last removal

vars == <<files, asked>>

Init == files = [k \in Keys |-> None] /\ asked = None

Put(k, o) ==
  /\ files[k] = None
  /\ files' = [files EXCEPT ![k] = o]
  /\ UNCHANGED asked

Drop(k, a) ==
  /\ files[k] # None /\ su_string_compare(k, a) = 0
  /\ files' = [files EXCEPT ![k] = None]
  /\ asked' = a

Next == \E k \in Keys : \/ \E o \in Objects : Put(k, o)
                        \/ \E a \in Keys : Drop(k, a)

Spec == Init /\ [][Next]_vars
=============================================================================
