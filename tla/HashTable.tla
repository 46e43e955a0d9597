----------------------------- MODULE HashTable -----------------------------
(***************************************************************************)
(* The hash table of hash_utils.c with the comparison it is given, as      *)
(* file_utils.c uses it: buckets are lists kept in the order of            *)
(* su_string_compare, under which a path equals every path it begins with. *)
(* openFile looks a path up and, when it is absent, inserts it in a later  *)
(* step; an eviction removes a file by the file's own path.                *)
(***************************************************************************)
EXTENDS PrefixOrder, FiniteSets

CONSTANTS
  Keys,      \* paths
  NEntries,  \* table.n_entries: the number of buckets
  Openers,   \* the threads that may be inside openFile at once
  MaxFiles,  \* storage->max_files
  Objects,   \* bound: the file objects of one behaviour
  None

ASSUME HashTableAssumption ==
  /\ \A k \in Keys : k \in Seq(Nat)
  /\ NEntries \in Nat \ {0} /\ MaxFiles \in Nat
  /\ None \notin Objects /\ None \notin Keys /\ IsFiniteSet(Objects)

VARIABLES
  index,    \* hu_index: the bucket of each key, fixed by hu_hash_string
  table,    \* the buckets
  opening,  \* the path each opener found absent
  asked     \* the path of the last removal

vars == <<index, table, opening, asked>>

Entries == UNION {ToSet(table[b]) : b \in DOMAIN table}
Fresh == Objects \ {e.obj : e \in Entries}
KeysOf(list) == [i \in DOMAIN list |-> list[i].key]

\* >= 0 in the loop: stops behind the elements that equal the key.
hu_navigate_behind(list, key) ==
  CHOOSE i \in 1..(Len(list) + 1) :
    /\ \A j \in 1..(i - 1) : su_string_compare(key, list[j].key) >= 0
    /\ i <= Len(list) => su_string_compare(key, list[i].key) < 0

hu_navigate_list(list, key) == lu_navigate(KeysOf(list), key)

\* The entry hu_get and hu_remove stop at, if it equals the key.
Hit(key) ==
  LET list == table[index[key]]
      i == hu_navigate_list(list, key)
  IN IF i <= Len(list) /\ su_string_compare(key, list[i].key) = 0
     THEN {list[i]} ELSE {}

hu_insert(key, obj) ==
  LET list == table[index[key]]
  IN table' = [table EXCEPT ![index[key]] =
                 InsertAt(list, hu_navigate_list(list, key),
                          [key |-> key, obj |-> obj])]

\* What follows the item is not linked again.
hu_remove_tail(key) ==
  LET list == table[index[key]]
  IN table' = [table EXCEPT ![index[key]] =
                 SubSeq(list, 1, hu_navigate_list(list, key) - 1)]

hu_remove(key) ==
  LET list == table[index[key]]
  IN table' = [table EXCEPT ![index[key]] =
                 RemoveAt(list, hu_navigate_list(list, key))]

-----------------------------------------------------------------------------
Init ==
  /\ index \in [Keys -> 0..(NEntries - 1)]
  /\ table = [b \in 0..(NEntries - 1) |-> <<>>]
  /\ opening = [t \in Openers |-> None]
  /\ asked = None

\* server_openFile finds the path, or something it takes for it, or nothing.
Lookup(t, key) ==
  /\ opening[t] = None
  /\ Hit(key) = {}
  /\ opening' = [opening EXCEPT ![t] = key]
  /\ UNCHANGED <<index, table, asked>>

\* fu_add_file, or server_openFile when the storage is full.
Insert(t) ==
  /\ opening[t] # None
  /\ IF Cardinality(Entries) < MaxFiles /\ Fresh # {}
     THEN hu_insert(opening[t], CHOOSE o \in Fresh : TRUE)
     ELSE UNCHANGED table
  /\ opening' = [opening EXCEPT ![t] = None]
  /\ UNCHANGED <<index, asked>>

\* By the path a client names or by that of a victim.
fu_remove_file(key) ==
  /\ Hit(key) # {}
  /\ hu_remove(key)
  /\ asked' = key
  /\ UNCHANGED <<index, opening>>

RemoveFile(key) == key \in Keys /\ fu_remove_file(key)
Evict(e) == e \in Entries /\ fu_remove_file(e.key)

Next ==
  \/ \E t \in Openers : Insert(t) \/ \E key \in Keys : Lookup(t, key)
  \/ \E key \in Keys : RemoveFile(key)
  \/ \E e \in Entries : Evict(e)

Spec == Init /\ [][Next]_vars

-----------------------------------------------------------------------------
(* Properties.                                                             *)

Entry == [key : Keys, obj : Objects]

TypeOK ==
  /\ index \in [Keys -> 0..(NEntries - 1)]
  /\ \A b \in 0..(NEntries - 1) : table[b] \in Seq(Entry)
  /\ opening \in [Openers -> Keys \cup {None}]
  /\ asked \in Keys \cup {None}
  /\ Cardinality(Entries) <= MaxFiles

\* Every stored file is found under its own path: an eviction, which removes
\* its victim by the victim's path, removes that file and no other (server.c:1276).
FindsOwn == \A e \in Entries : Hit(e.key) = {e}

\* The table implements the map of FileMap: no step loses a file, stores one
\* twice or drops one that the path asked for does not equal.
Stored(key) == {e \in Entries : e.key = key}
Map == INSTANCE FileMap WITH
  files <- [k \in Keys |-> IF Stored(k) = {} THEN None
                           ELSE (CHOOSE e \in Stored(k) : TRUE).obj]
IsMap == Map!Spec
=============================================================================
