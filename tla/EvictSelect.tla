---------------------------- MODULE EvictSelect ----------------------------
(***************************************************************************)
(* One eviction: fu_evict_files orders the files of the storage and tests  *)
(* whether they are large enough together, server_evict goes through them  *)
(* in that order.  The storage mutex keeps files from coming and going.    *)
(* It does not keep the other workers from what they do under the mutex of *)
(* a file, writing and closing, or under none, counting a use.             *)
(***************************************************************************)
EXTENDS Integers, Sequences, SequencesExt, FiniteSets, FiniteSetsExt

CONSTANTS
  Files,     \* the files stored
  Written,   \* the one the client writes: its handler holds the mutex of it
  MaxLen, MaxNeed,   \* bounds: bytes, bytes to free
  Uses,      \* bound: the values data_info has
  MaxMoves   \* bound: steps of other workers during the eviction

ASSUME EvictSelectAssumption ==
  /\ IsFiniteSet(Files) /\ Written \in Files
  /\ MaxLen \in Nat /\ Uses \subseteq Nat /\ MaxNeed \in Nat \ {0}
  /\ MaxMoves \in Nat

VARIABLES
  len, uses,   \* data_len and data_info of every file
  owner,       \* who has it open: "none", "self" or "other"
  held,        \* the files whose mutex a thread holds
  need,        \* bytes_to_free, as server_evict was asked
  rest,        \* bytes_to_free, as it decreases
  evict_arr,   \* the files in the order in which they are tried
  i,           \* the next one
  taken,       \* the files removed, in order
  at, moves

evict_vars == <<len, uses, owner, held, need, rest, evict_arr, i, taken, at, moves>>

Total(files) == MapThenSumSet(LAMBDA f : len[f], files)

\* The most used first, and the larger of two used as much.
fu_evict_compare(f, g) ==
  IF uses[f] = uses[g] THEN len[g] - len[f] ELSE uses[g] - uses[f]

Orders ==
  {o \in SetToSeqs(Files) :
     \A m, n \in DOMAIN o : m < n => fu_evict_compare(o[m], o[n]) <= 0}

\* The loop of fu_evict_files over all the files, open ones included.
LargeEnough == Total(Files) >= need

EvictInit ==
  /\ len \in [Files -> 0..MaxLen] /\ uses \in [Files -> Uses]
  /\ owner \in [Files -> {"none", "self", "other"}]
  /\ owner[Written] = "self"
  /\ held \in {h \in SUBSET Files : Written \in h}
  /\ need \in 1..MaxNeed /\ rest = need
  /\ evict_arr = <<>> /\ i = 1 /\ taken = <<>> /\ at = "start" /\ moves = 0

\* A use counted while qsort compares can leave the files in any order.
fu_evict_files ==
  /\ at = "start"
  /\ IF LargeEnough
     THEN /\ at' = "loop"
          /\ \/ evict_arr' \in Orders /\ UNCHANGED moves
             \/ /\ moves < MaxMoves /\ moves' = moves + 1
                /\ evict_arr' \in SetToSeqs(Files)
     ELSE at' = "refused" /\ UNCHANGED <<evict_arr, moves>>
  /\ UNCHANGED <<len, uses, owner, held, need, rest, i, taken>>

\* Mutant: the loop goes on after enough was removed.
LookingOn == at = "loop" /\ i <= Len(evict_arr)
Looking == at = "loop" /\ rest > 0 /\ i <= Len(evict_arr)
MayTake(f) == f \notin held /\ owner[f] # "other"
Lessened(n, f) == IF len[f] > n THEN 0 ELSE n - len[f]

\* pthread_mutex_trylock succeeds and the file may go: it is sent with its
\* mutex held.
Choose ==
  /\ Looking /\ MayTake(evict_arr[i])
  /\ held' = held \cup {evict_arr[i]} /\ at' = "sending"
  /\ UNCHANGED <<len, uses, owner, need, rest, evict_arr, i, taken, moves>>

\* The client does not take an answer, the one before the loop or the one with
\* a file: server_evict returns, and leaves that file locked.
GiveUp ==
  /\ at = "sending" \/ (at = "loop" /\ i = 1)
  /\ at' = "left"
  /\ UNCHANGED <<len, uses, owner, held, need, rest, evict_arr, i, taken, moves>>

\* Mutant: the file is not marked.
Unlock ==
  /\ at = "sending" /\ at' = "removing"
  /\ rest' = Lessened(rest, evict_arr[i])
  /\ held' = held \ {evict_arr[i]}
  /\ UNCHANGED <<len, uses, owner, need, evict_arr, i, taken, moves>>

\* The mark, client = -2, outlasts the mutex: nobody can open the file now.
Mark ==
  /\ at = "sending" /\ at' = "removing"
  /\ rest' = Lessened(rest, evict_arr[i])
  /\ owner' = [owner EXCEPT ![evict_arr[i]] = "evicted"]
  /\ held' = held \ {evict_arr[i]}
  /\ UNCHANGED <<len, uses, need, evict_arr, i, taken, moves>>

\* fu_remove_file, without the mutex of the file.
Take ==
  /\ at = "removing" /\ at' = "loop"
  /\ taken' = Append(taken, evict_arr[i]) /\ i' = i + 1
  /\ UNCHANGED <<len, uses, owner, held, need, rest, evict_arr, moves>>

\* Mutant: a file in use ends the loop.
PassAll ==
  /\ Looking /\ ~MayTake(evict_arr[i])
  /\ i' = Len(evict_arr) + 1
  /\ UNCHANGED <<len, uses, owner, held, need, rest, evict_arr, taken, at, moves>>

\* Mutant: a file in use is tried until it is free.
PassNone ==
  /\ Looking /\ ~MayTake(evict_arr[i])
  /\ UNCHANGED evict_vars

Pass ==
  /\ Looking /\ ~MayTake(evict_arr[i])
  /\ i' = i + 1
  /\ UNCHANGED <<len, uses, owner, held, need, rest, evict_arr, taken, at, moves>>

Finish ==
  /\ at = "loop" /\ (rest = 0 \/ i > Len(evict_arr))
  /\ at' = IF rest = 0 THEN "served" ELSE "failed"
  /\ UNCHANGED <<len, uses, owner, held, need, rest, evict_arr, i, taken, moves>>

\* fu_getfile of server_readFile, outside every mutex.
OtherUses(f) ==
  /\ moves < MaxMoves /\ f \notin ToSet(taken)
  /\ uses[f] + 1 \in Uses /\ uses' = [uses EXCEPT ![f] = @ + 1]
  /\ moves' = moves + 1
  /\ UNCHANGED <<len, owner, held, need, rest, evict_arr, i, taken, at>>

\* A handler that found the file before the eviction locks it.
OtherLocks(f) ==
  /\ moves < MaxMoves /\ f \notin held \cup ToSet(taken)
  /\ held' = held \cup {f} /\ moves' = moves + 1
  /\ UNCHANGED <<len, uses, owner, need, rest, evict_arr, i, taken, at>>

\* data_info &= O_LOCK, and O_LOCK is 2.
Masked(n) == IF n % 4 >= 2 THEN 2 ELSE 0

Sending == IF at = "sending" THEN {evict_arr[i]} ELSE {}

\* The end of a handler that has the mutex: the file is as it was, or opened,
\* which may mask its uses, or closed, or has got a length in fu_writefile.
OtherUnlocks(f) ==
  /\ moves < MaxMoves /\ f \in held \ ({Written} \cup Sending)
  /\ held' = held \ {f} /\ moves' = moves + 1
  /\ \/ UNCHANGED <<len, uses, owner>>
     \/ /\ owner[f] = "none" /\ owner' = [owner EXCEPT ![f] = "other"]
        /\ \E n \in {uses[f], Masked(uses[f])} : uses' = [uses EXCEPT ![f] = n]
        /\ UNCHANGED len
     \/ /\ owner[f] = "other" /\ owner' = [owner EXCEPT ![f] = "none"]
        /\ UNCHANGED <<len, uses>>
     \/ /\ owner[f] = "other" /\ UNCHANGED <<uses, owner>>
        /\ \E n \in 1..MaxLen : len' = [len EXCEPT ![f] = n]
  /\ UNCHANGED <<need, rest, evict_arr, i, taken, at>>

Evicting ==
  fu_evict_files \/ Choose \/ GiveUp \/ Mark \/ Take \/ Pass \/ Finish

EvictNext ==
  \/ Evicting
  \/ \E f \in Files : OtherUses(f) \/ OtherLocks(f) \/ OtherUnlocks(f)

EvictSpec == EvictInit /\ [][EvictNext]_evict_vars
EvictFairSpec == EvictSpec /\ WF_evict_vars(Evicting)

-----------------------------------------------------------------------------
(* Properties.                                                             *)

EvictTypeOK ==
  /\ len \in [Files -> 0..MaxLen] /\ uses \in [Files -> Uses \cup {0, 2}]
  /\ owner \in [Files -> {"none", "self", "other", "evicted"}] /\ held \subseteq Files
  /\ need \in 1..MaxNeed /\ rest \in 0..MaxNeed
  /\ i \in 1..(Cardinality(Files) + 1) /\ moves \in 0..MaxMoves
  /\ at \in {"start", "loop", "sending", "removing", "refused", "served", "failed", "left"}

\* An eviction is served exactly when what it removed is enough (server.c:1246),
\* and no file is removed once enough was: without the last one it was not.
EndsRight ==
  /\ at = "served" => Total(ToSet(taken)) >= need
  /\ at = "failed" => Total(ToSet(taken)) < need
  /\ taken # <<>> => Total(ToSet(Front(taken))) < need

\* With no other worker about, an eviction fails only when the files that may
\* be taken are together too small: the order does not lose any.
FailsForNeed ==
  at = "failed" /\ moves = 0 => Total({f \in Files : MayTake(f)}) < need

\* The file being written, and one that another client has open, stay: nobody
\* opens a file between the test of its owner, under its mutex, and its removal,
\* which comes after the mutex was given back (server.c:1251 and 1276).
LeavesOpen ==
  [][ \A f \in ToSet(taken') \ ToSet(taken) :
        f # Written /\ owner[f] # "other" ]_evict_vars

\* Other workers cannot keep an eviction from ending.
EvictionEnds == <>(at \in {"refused", "served", "failed", "left"})
=============================================================================
