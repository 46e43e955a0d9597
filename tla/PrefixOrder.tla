---------------------------- MODULE PrefixOrder ----------------------------
(***************************************************************************)
(* The comparison of string_utils.c and the ordered lists of list_utils.c  *)
(* that are built on it.  A string is a sequence of numbers, one for each  *)
(* character.  Strings are compared over the length of the shorter one:    *)
(* one that begins with the other equals it.                               *)
(***************************************************************************)
EXTENDS Integers, Sequences, SequencesExt, FiniteSetsExt

Shorter(a, b) == IF Len(a) < Len(b) THEN Len(a) ELSE Len(b)
DiffersAt(a, b) == {i \in 1..Shorter(a, b) : a[i] # b[i]}

su_string_compare(a, b) ==
  IF DiffersAt(a, b) = {} THEN 0
  ELSE LET i == CHOOSE i \in DiffersAt(a, b) :
                  \A j \in DiffersAt(a, b) : i <= j
       IN a[i] - b[i]

\* Where lu_navigate stops: at the first element that is not below x.
lu_navigate(list, x) ==
  CHOOSE i \in 1..(Len(list) + 1) :
    /\ \A j \in 1..(i - 1) : su_string_compare(x, list[j]) > 0
    /\ i <= Len(list) => su_string_compare(x, list[i]) <= 0

Holds(list, x) ==
  LET i == lu_navigate(list, x)
  IN i <= Len(list) /\ su_string_compare(x, list[i]) = 0

\* An element that equals one of the list is not inserted again.
lu_insert_new(list, x) ==
  IF Holds(list, x) THEN list ELSE InsertAt(list, lu_navigate(list, x), x)

lu_insert(list, x) == InsertAt(list, lu_navigate(list, x), x)

lu_remove(list, x) ==
  IF Holds(list, x) THEN RemoveAt(list, lu_navigate(list, x)) ELSE list
=============================================================================
