---------------------------- MODULE MCHashTable ----------------------------
(* Paths for the runs of HashTable.                                        *)
EXTENDS HashTable, TLC

\* Words of one to three letters, most of which begin with another.
Words == {<<1>>, <<2>>, <<1, 1>>, <<1, 2>>, <<1, 2, 1>>}
=============================================================================
