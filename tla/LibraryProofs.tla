---------------------------- MODULE LibraryProofs ----------------------------
(***************************************************************************)
(* Proofs about the two data structures of the storage: the hash table,    *)
(* for any paths, any number of buckets and any way of hashing, when one   *)
(* thread at a time is inside openFile; and one eviction, for any number   *)
(* of files, of any sizes and uses, and any steps of the other workers.    *)
(***************************************************************************)
EXTENDS HashTable, EvictSelect, DataLemmas

-----------------------------------------------------------------------------
(* The hash table.                                                         *)

OneOpener == \A s, t \in Openers : s = t

\* The keys of a bucket increase, no two of them being equal.
Increasing(list) ==
  \A j, k \in DOMAIN list : j < k => Precedes(list[j].key, list[k].key)

\* What each variable holds.
Types ==
  /\ index \in [Keys -> 0..(NEntries - 1)]
  /\ table \in [0..(NEntries - 1) -> Seq(Entry)]
  /\ opening \in [Openers -> Keys \cup {None}]

\* Every bucket is in order and holds the keys that are hashed to it.
Buckets ==
  \A b \in 0..(NEntries - 1) :
    Increasing(table[b]) /\ \A e \in ToSet(table[b]) : index[e.key] = b

\* The path that openFile did not find equals no key of its bucket.
Unequal(key) == \A e \in ToSet(table[index[key]]) : su_string_compare(key, e.key) # 0
StillAbsent == \A t \in Openers : opening[t] # None => Unequal(opening[t])

HInv == Types /\ Buckets /\ StillAbsent

-----------------------------------------------------------------------------
(* A bucket.                                                               *)

\* Paths are strings.
LEMMA KeyStrings == \A k \in Keys : k \in Strings
  BY HashTableAssumption DEF Strings

\* An entry has a path and an object.
LEMMA EntryFields == \A e \in Entry : e.key \in Keys /\ e.key \in Strings /\ e.obj \in Objects
  BY KeyStrings DEF Entry

\* No two entries of a bucket that is in order are equal.
LEMMA Distinct ==
  ASSUME NEW list \in Seq(Entry), Increasing(list),
         NEW j \in 1..Len(list), NEW k \in 1..Len(list),
         su_string_compare(list[j].key, list[k].key) = 0
  PROVE  j = k
<1>1. list[j].key \in Strings /\ list[k].key \in Strings
  BY InList, EntryFields
<1>2. ~(j < k)
  <2>1. SUFFICES ASSUME j < k PROVE FALSE
    OBVIOUS
  <2>2. Precedes(list[j].key, list[k].key)
    BY <2>1, InList DEF Increasing
  <2>3. su_string_compare(list[j].key, list[k].key) < 0
    BY <1>1, <2>2, Compared
  <2>4. QED  BY <2>3
<1>3. ~(k < j)
  <2>1. SUFFICES ASSUME k < j PROVE FALSE
    OBVIOUS
  <2>2. Precedes(list[k].key, list[j].key)
    BY <2>1, InList DEF Increasing
  <2>3. su_string_compare(list[j].key, list[k].key) > 0
    BY <1>1, <2>2, Compared
  <2>4. QED  BY <2>3
<1>4. QED  BY <1>2, <1>3

\* Where hu_navigate stops in a bucket.
LEMMA Stops ==
  ASSUME NEW list \in Seq(Entry), NEW key \in Keys
  PROVE  /\ hu_navigate_list(list, key) \in 1..(Len(list) + 1)
         /\ \A j \in 1..(hu_navigate_list(list, key) - 1) : Precedes(list[j].key, key)
         /\ hu_navigate_list(list, key) <= Len(list) =>
              su_string_compare(key, list[hu_navigate_list(list, key)].key) <= 0
<1> DEFINE s == KeysOf(list)
           n == Len(list)
<1>1. n \in Nat /\ DOMAIN list = 1..n /\ \A j \in 1..n : list[j].key \in Strings
  BY InList, EntryFields
<1>2. s \in Seq(Strings) /\ Len(s) = n /\ \A j \in 1..n : s[j] = list[j].key
  BY <1>1 DEF KeysOf
<1>3. hu_navigate_list(list, key) = lu_navigate(s, key)
  BY DEF hu_navigate_list
<1> HIDE DEF s, n
<1>4. /\ lu_navigate(s, key) \in 1..(n + 1)
      /\ \A j \in 1..(lu_navigate(s, key) - 1) : Precedes(s[j], key)
      /\ lu_navigate(s, key) <= n => su_string_compare(key, s[lu_navigate(s, key)]) <= 0
  BY <1>2, KeyStrings, Navigated
<1> DEFINE p == lu_navigate(s, key)
<1> HIDE DEF p
<1>5. /\ p \in 1..(n + 1) /\ \A j \in 1..(p - 1) : Precedes(s[j], key)
      /\ p <= n => su_string_compare(key, s[p]) <= 0
  BY <1>4 DEF p
<1>6. \A j \in 1..(p - 1) : j \in 1..n
  BY <1>1, <1>5
<1>7. p <= n => p \in 1..n
  BY <1>1, <1>5
<1>8. /\ p \in 1..(n + 1) /\ \A j \in 1..(p - 1) : Precedes(list[j].key, key)
      /\ p <= n => su_string_compare(key, list[p].key) <= 0
  BY <1>2, <1>5, <1>6, <1>7
<1>9. QED  BY <1>3, <1>8 DEF p, n

\* If an entry of an ordered bucket equals the path, hu_navigate stops at one
\* that does.
LEMMA StopsAtEqual ==
  ASSUME NEW list \in Seq(Entry), Increasing(list), NEW key \in Keys,
         NEW m \in 1..Len(list), su_string_compare(key, list[m].key) = 0
  PROVE  /\ hu_navigate_list(list, key) \in 1..Len(list)
         /\ hu_navigate_list(list, key) <= m
         /\ su_string_compare(key, list[hu_navigate_list(list, key)].key) = 0
<1> DEFINE p == hu_navigate_list(list, key)
<1>1. /\ p \in 1..(Len(list) + 1) /\ \A j \in 1..(p - 1) : Precedes(list[j].key, key)
      /\ p <= Len(list) => su_string_compare(key, list[p].key) <= 0
  BY Stops
<1> HIDE DEF p
<1>2. key \in Strings /\ \A j \in 1..Len(list) : list[j].key \in Strings
  BY KeyStrings, InList, EntryFields
<1>3. ~(m < p)
  <2>1. SUFFICES ASSUME m < p PROVE FALSE
    OBVIOUS
  <2>2. Precedes(list[m].key, key)
    BY <1>1, <2>1
  <2>3. su_string_compare(key, list[m].key) > 0
    BY <1>2, <2>2, Compared
  <2>4. QED  BY <2>3
<1>4. p \in 1..Len(list) /\ p <= m /\ su_string_compare(key, list[p].key) <= 0
  BY <1>1, <1>3
<1>5. su_string_compare(key, list[p].key) = 0
  <2>1. SUFFICES ASSUME su_string_compare(key, list[p].key) # 0 PROVE FALSE
    OBVIOUS
  <2>2. su_string_compare(key, list[p].key) < 0
    BY <1>2, <1>4, <2>1, Compared
  <2>3. Precedes(key, list[p].key) /\ p < m
    BY <1>2, <1>4, <2>2, Compared
  <2>4. Precedes(list[p].key, list[m].key)
    BY <1>4, <2>3, InList DEF Increasing
  <2>5. Precedes(key, list[m].key)
    BY <1>2, <1>4, <2>3, <2>4, BelowTransitive
  <2>6. su_string_compare(key, list[m].key) < 0
    BY <1>2, <2>5, Compared
  <2>7. QED  BY <2>6
<1>6. QED  BY <1>4, <1>5 DEF p

\* By its own path hu_navigate stops at the entry itself.
LEMMA StopsAtOwn ==
  ASSUME NEW list \in Seq(Entry), Increasing(list), NEW m \in 1..Len(list)
  PROVE  /\ hu_navigate_list(list, list[m].key) = m
         /\ su_string_compare(list[m].key, list[m].key) = 0
<1> DEFINE key == list[m].key
           p == hu_navigate_list(list, key)
<1>1. key \in Keys /\ key \in Strings /\ \A j \in 1..Len(list) : list[j].key \in Strings
  BY InList, EntryFields
<1>2. su_string_compare(key, key) = 0
  BY <1>1, EqualSymmetric
<1>3. p \in 1..Len(list) /\ su_string_compare(key, list[p].key) = 0
  BY <1>1, <1>2, StopsAtEqual
<1> HIDE DEF p
<1>4. m = p
  BY <1>3, Distinct
<1>5. QED  BY <1>2, <1>4 DEF p

\* Removing an entry leaves the others, in order.
LEMMA BucketRemove ==
  ASSUME NEW list \in Seq(Entry), Increasing(list), NEW p \in 1..Len(list)
  PROVE  /\ RemoveAt(list, p) \in Seq(Entry) /\ Increasing(RemoveAt(list, p))
         /\ ToSet(RemoveAt(list, p)) = ToSet(list) \ {list[p]}
<1> DEFINE r == RemoveAt(list, p)
           n == Len(list)
           P(j) == IF j < p THEN j ELSE j + 1
<1>1. /\ r \in Seq(Entry) /\ Len(r) = n - 1 /\ n \in Nat
      /\ \A j \in 1..(n - 1) : r[j] = IF j < p THEN list[j] ELSE list[j + 1]
  BY RemovedAt, InList
<1> HIDE DEF r
<1>2. /\ \A j \in 1..(n - 1) : r[j] = list[P(j)] /\ P(j) \in 1..n /\ P(j) # p
      /\ \A j, k \in 1..(n - 1) : j < k => P(j) < P(k)
      /\ \A m \in 1..n : m # p => \E j \in 1..(n - 1) : P(j) = m
  <2>1. \A j \in 1..(n - 1) : r[j] = list[P(j)]
    BY <1>1
  <2>2. \A j \in 1..(n - 1) : P(j) \in 1..n /\ P(j) # p
    BY <1>1
  <2>3. \A j, k \in 1..(n - 1) : j < k => P(j) < P(k)
    BY <1>1
  <2>4. ASSUME NEW m \in 1..n, m # p PROVE \E j \in 1..(n - 1) : P(j) = m
    <3>1. CASE m < p
      <4>1. m \in 1..(n - 1) /\ P(m) = m
        BY <1>1, <3>1
      <4>2. QED  BY <4>1
    <3>2. CASE p < m
      <4>1. m - 1 \in 1..(n - 1) /\ P(m - 1) = m
        BY <1>1, <3>2
      <4>2. QED  BY <4>1
    <3>3. m < p \/ p < m
      BY <1>1, <2>4
    <3>4. QED  BY <3>1, <3>2, <3>3
  <2>5. QED  BY <2>1, <2>2, <2>3, <2>4
<1> HIDE DEF P, n
<1>3. DOMAIN r = 1..(n - 1) /\ DOMAIN list = 1..n
  BY <1>1, InList DEF n
<1>4. Increasing(r)
  BY <1>2, <1>3 DEF Increasing
<1>5. \A m \in 1..n : list[m] = list[p] => m = p
  <2>1. ASSUME NEW m \in 1..n, list[m] = list[p] PROVE m = p
    <3>1. su_string_compare(list[m].key, list[p].key) = 0
      BY <2>1, EqualSymmetric, InList, EntryFields DEF n
    <3>2. QED  BY <2>1, <3>1, Distinct DEF n
  <2>2. QED  BY <2>1
<1>6. ASSUME NEW e PROVE e \in ToSet(r) <=> e \in ToSet(list) /\ e # list[p]
  <2>1. e \in ToSet(r) <=> \E j \in 1..(n - 1) : r[j] = e
    BY <1>1, InList DEF n
  <2>2. e \in ToSet(list) <=> \E m \in 1..n : list[m] = e
    BY InList DEF n
  <2>3. ASSUME NEW j \in 1..(n - 1), r[j] = e
        PROVE  (\E m \in 1..n : list[m] = e) /\ e # list[p]
    BY <1>2, <1>5, <2>3
  <2>4. ASSUME NEW m \in 1..n, list[m] = e, e # list[p]
        PROVE  \E j \in 1..(n - 1) : r[j] = e
    BY <1>2, <2>4
  <2>5. QED  BY <2>1, <2>2, <2>3, <2>4
<1>7. ToSet(r) = ToSet(list) \ {list[p]}
  BY <1>6
<1>8. QED  BY <1>1, <1>4, <1>7 DEF r

\* Inserting a path that equals none, where hu_navigate stops, keeps the order.
LEMMA BucketInsert ==
  ASSUME NEW list \in Seq(Entry), Increasing(list), NEW e \in Entry,
         \A f \in ToSet(list) : su_string_compare(e.key, f.key) # 0
  PROVE  LET r == InsertAt(list, hu_navigate_list(list, e.key), e)
         IN /\ r \in Seq(Entry) /\ Increasing(r)
            /\ ToSet(r) = ToSet(list) \cup {e}
<1> DEFINE n == Len(list)
           p == hu_navigate_list(list, e.key)
           r == InsertAt(list, p, e)
<1>1. e.key \in Keys /\ e.key \in Strings
  BY EntryFields
<1>2. /\ p \in 1..(n + 1) /\ \A j \in 1..(p - 1) : Precedes(list[j].key, e.key)
      /\ p <= n => su_string_compare(e.key, list[p].key) <= 0
  BY <1>1, Stops
<1> HIDE DEF p
<1>3. /\ r \in Seq(Entry) /\ Len(r) = n + 1 /\ n \in Nat
      /\ \A j \in 1..(n + 1) :
           r[j] = IF j < p THEN list[j] ELSE IF j = p THEN e ELSE list[j - 1]
  BY <1>2, InsertedAt, InList
<1> HIDE DEF r
<1>4. /\ DOMAIN r = 1..(n + 1) /\ DOMAIN list = 1..n
      /\ \A j \in 1..n : list[j] \in ToSet(list) /\ list[j].key \in Strings
  BY <1>3, InList, EntryFields
<1> HIDE DEF n
<1>5. ASSUME NEW m \in p..n PROVE Precedes(e.key, list[m].key)
  <2>1. p \in 1..n /\ m \in 1..n /\ p <= m /\ p <= n
    BY <1>2, <1>3
  <2>2. su_string_compare(e.key, list[p].key) < 0
    BY <1>1, <1>2, <1>4, <2>1, Compared
  <2>3. Precedes(e.key, list[p].key)
    BY <1>1, <1>4, <2>1, <2>2, Compared
  <2>4. CASE p = m
    BY <2>3, <2>4
  <2>5. CASE p < m
    <3>1. Precedes(list[p].key, list[m].key)
      BY <1>4, <2>1, <2>5 DEF Increasing
    <3>2. QED  BY <1>1, <1>4, <2>1, <2>3, <3>1, BelowTransitive
  <2>6. QED  BY <2>1, <2>4, <2>5
<1>6. Increasing(r)
  <2>1. SUFFICES ASSUME NEW j \in 1..(n + 1), NEW k \in 1..(n + 1), j < k
                 PROVE  Precedes(r[j].key, r[k].key)
    BY <1>4 DEF Increasing
  <2>2. CASE k < p
    <3>1. r[j] = list[j] /\ r[k] = list[k] /\ j \in 1..n /\ k \in 1..n
      BY <1>2, <1>3, <2>1, <2>2
    <3>2. QED  BY <1>4, <2>1, <3>1 DEF Increasing
  <2>3. CASE k = p
    <3>1. r[j] = list[j] /\ r[k] = e /\ j \in 1..(p - 1)
      BY <1>2, <1>3, <2>1, <2>3
    <3>2. QED  BY <1>2, <3>1
  <2>4. CASE k > p /\ j < p
    <3>1. r[j] = list[j] /\ r[k] = list[k - 1] /\ j \in 1..n /\ k - 1 \in 1..n /\ j < k - 1
      BY <1>2, <1>3, <2>1, <2>4
    <3>2. QED  BY <1>4, <3>1 DEF Increasing
  <2>5. CASE j = p
    <3>1. r[j] = e /\ r[k] = list[k - 1] /\ k - 1 \in p..n
      BY <1>2, <1>3, <2>1, <2>5
    <3>2. QED  BY <1>5, <3>1
  <2>6. CASE j > p
    <3>1. /\ r[j] = list[j - 1] /\ r[k] = list[k - 1]
          /\ j - 1 \in 1..n /\ k - 1 \in 1..n /\ j - 1 < k - 1
      BY <1>2, <1>3, <2>1, <2>6
    <3>2. QED  BY <1>4, <3>1 DEF Increasing
  <2>7. QED  BY <1>2, <1>3, <2>1, <2>2, <2>3, <2>4, <2>5, <2>6
<1>7. ASSUME NEW f PROVE f \in ToSet(r) <=> f \in ToSet(list) \/ f = e
  <2>1. f \in ToSet(r) <=> \E j \in 1..(n + 1) : r[j] = f
    BY <1>3, InList
  <2>2. f \in ToSet(list) <=> \E m \in 1..n : list[m] = f
    BY InList DEF n
  <2>3. ASSUME NEW j \in 1..(n + 1), r[j] = f
        PROVE  (\E m \in 1..n : list[m] = f) \/ f = e
    <3>1. j < p => j \in 1..n /\ r[j] = list[j]
      BY <1>2, <1>3
    <3>2. j > p => j - 1 \in 1..n /\ r[j] = list[j - 1]
      BY <1>2, <1>3
    <3>3. j = p => r[j] = e
      BY <1>2, <1>3
    <3>4. QED  BY <1>2, <1>3, <2>3, <3>1, <3>2, <3>3
  <2>4. ASSUME NEW m \in 1..n PROVE \E j \in 1..(n + 1) : r[j] = list[m]
    <3>1. CASE m < p
      <4>1. m \in 1..(n + 1) /\ r[m] = list[m]
        BY <1>2, <1>3, <3>1
      <4>2. QED  BY <4>1
    <3>2. CASE ~(m < p)
      <4>1. m + 1 \in 1..(n + 1) /\ r[m + 1] = list[m]
        BY <1>2, <1>3, <3>2
      <4>2. QED  BY <4>1
    <3>3. QED  BY <3>1, <3>2
  <2>5. p \in 1..(n + 1) /\ r[p] = e
    BY <1>2, <1>3
  <2>6. QED  BY <2>1, <2>2, <2>3, <2>4, <2>5
<1>8. ToSet(r) = ToSet(list) \cup {e}
  BY <1>7
<1>9. QED  BY <1>3, <1>6, <1>8 DEF r, p

-----------------------------------------------------------------------------
(* The invariant.                                                          *)

\* The bucket of a path.
LEMMA BucketOf ==
  ASSUME HInv, NEW key \in Keys
  PROVE  /\ index[key] \in 0..(NEntries - 1)
         /\ table[index[key]] \in Seq(Entry) /\ Increasing(table[index[key]])
  BY DEF HInv, Types, Buckets

\* A stored file is in the bucket of its own path.
LEMMA Found ==
  ASSUME HInv, NEW e
  PROVE  /\ e \in Entries <=> e \in Entry /\ e \in ToSet(table[index[e.key]])
         /\ e \in Entry => index[e.key] \in 0..(NEntries - 1)
<1>1. e \in Entry => index[e.key] \in 0..(NEntries - 1)
  BY BucketOf, EntryFields
<1>2. e \in Entries <=> \E b \in 0..(NEntries - 1) : e \in ToSet(table[b])
  BY DEF HInv, Types, Entries
<1>3. ASSUME NEW b \in 0..(NEntries - 1), e \in ToSet(table[b])
      PROVE  e \in Entry /\ index[e.key] = b
  <2>1. table[b] \in Seq(Entry) /\ index[e.key] = b
    BY <1>3 DEF HInv, Types, Buckets
  <2>2. QED  BY <1>3, <2>1, InList
<1>4. QED  BY <1>1, <1>2, <1>3

\* hu_get finds a file that equals the path if there is one.
LEMMA HitIs ==
  ASSUME HInv, NEW key \in Keys
  PROVE  /\ Hit(key) = {} => Unequal(key)
         /\ Hit(key) # {} =>
              /\ hu_navigate_list(table[index[key]], key) \in 1..Len(table[index[key]])
              /\ su_string_compare(key,
                   table[index[key]][hu_navigate_list(table[index[key]], key)].key) = 0
<1> DEFINE list == table[index[key]]
           p == hu_navigate_list(list, key)
<1>1. list \in Seq(Entry) /\ Increasing(list) /\ Len(list) \in Nat
  BY BucketOf, InList
<1>2. Hit(key) = IF p <= Len(list) /\ su_string_compare(key, list[p].key) = 0
                 THEN {list[p]} ELSE {}
  BY DEF Hit
<1>3. p \in 1..(Len(list) + 1)
  BY <1>1, Stops
<1>4. ASSUME NEW e \in ToSet(list), su_string_compare(key, e.key) = 0 PROVE Hit(key) # {}
  <2>1. PICK m \in 1..Len(list) : list[m] = e
    BY <1>1, InList
  <2>2. p \in 1..Len(list) /\ su_string_compare(key, list[p].key) = 0
    BY <1>1, <1>4, <2>1, StopsAtEqual
  <2> HIDE DEF p, list
  <2>3. p <= Len(list)
    BY <1>1, <2>2
  <2>4. QED  BY <1>2, <2>2, <2>3
<1> HIDE DEF p
<1>5. Hit(key) = {} => Unequal(key)
  BY <1>4 DEF Unequal
<1>6. Hit(key) # {} => p \in 1..Len(list) /\ su_string_compare(key, list[p].key) = 0
  BY <1>1, <1>2, <1>3
<1>7. QED  BY <1>5, <1>6 DEF p

\* The invariant gives FindsOwn.
LEMMA OwnFound == HInv => FindsOwn
<1> SUFFICES ASSUME HInv, NEW e \in Entries PROVE Hit(e.key) = {e}
  BY DEF FindsOwn
<1> DEFINE list == table[index[e.key]]
<1>1. e \in Entry /\ e \in ToSet(list) /\ e.key \in Keys
  BY Found, EntryFields
<1>2. list \in Seq(Entry) /\ Increasing(list) /\ Len(list) \in Nat
  BY <1>1, BucketOf, InList
<1> HIDE DEF list
<1>3. PICK m \in 1..Len(list) : list[m] = e
  BY <1>1, <1>2, InList
<1>4. hu_navigate_list(list, e.key) = m /\ su_string_compare(e.key, e.key) = 0
  BY <1>2, <1>3, StopsAtOwn
<1>5. m <= Len(list)
  BY <1>2, <1>3
<1>6. QED  BY <1>3, <1>4, <1>5 DEF Hit, list

\* The empty table satisfies the invariant.
LEMMA HInit == Init => HInv
<1> SUFFICES ASSUME Init PROVE HInv
  OBVIOUS
<1>1. <<>> \in Seq(Entry) /\ Increasing(<<>>) /\ ToSet(<<>>) = {}
  BY DEF Increasing, ToSet
<1>2. Types
  BY <1>1 DEF Init, Types
<1>3. \A b \in 0..(NEntries - 1) : table[b] = <<>>
  BY DEF Init
<1>4. Buckets
  BY <1>1, <1>3 DEF Buckets
<1>5. StillAbsent
  BY DEF Init, StillAbsent
<1>6. QED  BY <1>2, <1>4, <1>5 DEF HInv

\* A bucket is replaced by one that is in order and holds keys of its own.
LEMMA BucketReplaced ==
  ASSUME HInv, NEW b \in 0..(NEntries - 1), NEW r \in Seq(Entry), Increasing(r),
         \A e \in ToSet(r) : index[e.key] = b,
         table' = [table EXCEPT ![b] = r], UNCHANGED index
  PROVE  /\ table' \in [0..(NEntries - 1) -> Seq(Entry)] /\ Buckets'
         /\ table'[b] = r /\ \A c \in 0..(NEntries - 1) : c # b => table'[c] = table[c]
<1>1. /\ table' \in [0..(NEntries - 1) -> Seq(Entry)]
      /\ table'[b] = r /\ \A c \in 0..(NEntries - 1) : c # b => table'[c] = table[c]
  BY DEF HInv, Types
<1>2. ASSUME NEW c \in 0..(NEntries - 1)
      PROVE  Increasing(table'[c]) /\ \A e \in ToSet(table'[c]) : index'[e.key] = c
  <2>1. CASE c = b
    BY <1>1, <2>1
  <2>2. CASE c # b
    BY <1>1, <2>2 DEF HInv, Buckets
  <2>3. QED  BY <2>1, <2>2
<1>3. Buckets'
  BY <1>2 DEF Buckets
<1>4. QED  BY <1>1, <1>3

\* What hu_insert does with a path that equals none of its bucket.
LEMMA Inserted ==
  ASSUME HInv, NEW key \in Keys, NEW obj \in Objects, Unequal(key),
         hu_insert(key, obj), UNCHANGED index
  PROVE  /\ table' \in [0..(NEntries - 1) -> Seq(Entry)] /\ Buckets'
         /\ ToSet(table'[index[key]]) =
              ToSet(table[index[key]]) \cup {[key |-> key, obj |-> obj]}
         /\ \A c \in 0..(NEntries - 1) : c # index[key] => table'[c] = table[c]
<1> DEFINE list == table[index[key]]
           e == [key |-> key, obj |-> obj]
           r == InsertAt(list, hu_navigate_list(list, key), e)
<1>1. /\ index[key] \in 0..(NEntries - 1) /\ list \in Seq(Entry) /\ Increasing(list)
      /\ \A f \in ToSet(list) : index[f.key] = index[key]
  BY BucketOf DEF HInv, Buckets
<1>2. e \in Entry /\ e.key = key /\ \A f \in ToSet(list) : su_string_compare(e.key, f.key) # 0
  BY DEF Entry, Unequal
<1>3. table' = [table EXCEPT ![index[key]] = r]
  BY DEF hu_insert
<1> HIDE DEF list, e
<1>4. r \in Seq(Entry) /\ Increasing(r) /\ ToSet(r) = ToSet(list) \cup {e}
  BY <1>1, <1>2, BucketInsert
<1> HIDE DEF r
<1>5. \A f \in ToSet(r) : index[f.key] = index[key]
  BY <1>1, <1>2, <1>4
<1>6. /\ table' \in [0..(NEntries - 1) -> Seq(Entry)] /\ Buckets'
      /\ table'[index[key]] = r
      /\ \A c \in 0..(NEntries - 1) : c # index[key] => table'[c] = table[c]
  BY <1>1, <1>3, <1>4, <1>5, BucketReplaced
<1>7. QED  BY <1>4, <1>6 DEF list, e

\* What hu_remove does with a path that hu_get finds something for.
LEMMA Dropped ==
  ASSUME HInv, NEW key \in Keys, fu_remove_file(key)
  PROVE  /\ table' \in [0..(NEntries - 1) -> Seq(Entry)] /\ Buckets'
         /\ \A c \in 0..(NEntries - 1) : c # index[key] => table'[c] = table[c]
         /\ \E e \in ToSet(table[index[key]]) :
              /\ su_string_compare(key, e.key) = 0
              /\ ToSet(table'[index[key]]) = ToSet(table[index[key]]) \ {e}
<1> DEFINE list == table[index[key]]
           p == hu_navigate_list(list, key)
           r == RemoveAt(list, p)
<1>1. /\ index[key] \in 0..(NEntries - 1) /\ list \in Seq(Entry) /\ Increasing(list)
      /\ \A f \in ToSet(list) : index[f.key] = index[key]
  BY BucketOf DEF HInv, Buckets
<1>2. p \in 1..Len(list) /\ su_string_compare(key, list[p].key) = 0
  BY HitIs DEF fu_remove_file
<1>3. table' = [table EXCEPT ![index[key]] = r] /\ UNCHANGED index
  BY DEF hu_remove, fu_remove_file
<1> HIDE DEF list, p
<1>4. r \in Seq(Entry) /\ Increasing(r) /\ ToSet(r) = ToSet(list) \ {list[p]}
  BY <1>1, <1>2, BucketRemove
<1>5. list[p] \in ToSet(list)
  BY <1>1, <1>2, InList
<1> HIDE DEF r
<1>6. \A f \in ToSet(r) : index[f.key] = index[key]
  BY <1>1, <1>4
<1>7. /\ table' \in [0..(NEntries - 1) -> Seq(Entry)] /\ Buckets'
      /\ table'[index[key]] = r
      /\ \A c \in 0..(NEntries - 1) : c # index[key] => table'[c] = table[c]
  BY <1>1, <1>3, <1>4, <1>6, BucketReplaced
<1>8. QED  BY <1>2, <1>4, <1>5, <1>7 DEF list

\* Every step keeps the invariant when one thread opens at a time.
LEMMA HStep ==
  ASSUME OneOpener, HInv, [Next]_vars
  PROVE  HInv'
<1>1. ASSUME NEW t \in Openers, NEW key \in Keys, Lookup(t, key)
      PROVE  HInv'
  <2>1. Unequal(key) /\ UNCHANGED <<index, table>>
    BY <1>1, HitIs DEF Lookup
  <2>2. /\ opening' = [opening EXCEPT ![t] = key]
        /\ opening \in [Openers -> Keys \cup {None}]
    BY <1>1 DEF Lookup, HInv, Types
  <2>3. Types'
    BY <2>1, <2>2 DEF HInv, Types
  <2>4. Buckets'
    BY <2>1 DEF HInv, Buckets
  <2>5. ASSUME NEW s \in Openers, opening'[s] # None
        PROVE  \A e \in ToSet(table'[index'[opening'[s]]]) :
                 su_string_compare(opening'[s], e.key) # 0
    <3>1. opening'[s] = key
      BY <2>2 DEF OneOpener
    <3>2. QED  BY <2>1, <3>1 DEF Unequal
  <2>6. StillAbsent'
    BY <2>5 DEF StillAbsent, Unequal
  <2>7. QED  BY <2>3, <2>4, <2>6 DEF HInv
<1>2. ASSUME NEW t \in Openers, Insert(t)
      PROVE  HInv'
  <2>1. opening[t] \in Keys /\ Unequal(opening[t])
    BY <1>2 DEF Insert, HInv, Types, StillAbsent
  <2>2. /\ opening' = [opening EXCEPT ![t] = None] /\ UNCHANGED index
        /\ opening \in [Openers -> Keys \cup {None}]
    BY <1>2 DEF Insert, HInv, Types
  <2>3. table' \in [0..(NEntries - 1) -> Seq(Entry)] /\ Buckets'
    <3>1. CASE UNCHANGED table
      BY <2>2, <3>1 DEF HInv, Types, Buckets
    <3>2. CASE ~UNCHANGED table
      <4>1. /\ hu_insert(opening[t], CHOOSE o \in Fresh : TRUE)
            /\ (CHOOSE o \in Fresh : TRUE) \in Objects
        BY <1>2, <3>2 DEF Insert, Fresh
      <4>2. QED  BY <2>1, <2>2, <4>1, Inserted
    <3>3. QED  BY <3>1, <3>2
  <2>4. Types'
    BY <2>2, <2>3 DEF HInv, Types
  <2>5. \A s \in Openers : opening'[s] = None
    BY <2>2 DEF OneOpener
  <2>6. StillAbsent'
    BY <2>5 DEF StillAbsent, Unequal
  <2>7. QED  BY <2>3, <2>4, <2>6 DEF HInv
<1>3. ASSUME NEW key \in Keys, fu_remove_file(key)
      PROVE  HInv'
  <2>1. /\ table' \in [0..(NEntries - 1) -> Seq(Entry)] /\ Buckets'
        /\ \A c \in 0..(NEntries - 1) : c # index[key] => table'[c] = table[c]
        /\ \E e \in ToSet(table[index[key]]) :
             ToSet(table'[index[key]]) = ToSet(table[index[key]]) \ {e}
    BY <1>3, Dropped
  <2>2. UNCHANGED <<index, opening>>
    BY <1>3 DEF fu_remove_file
  <2>3. Types'
    BY <2>1, <2>2 DEF HInv, Types
  <2>4. ASSUME NEW s \in Openers, opening'[s] # None
        PROVE  \A e \in ToSet(table'[index'[opening'[s]]]) :
                 su_string_compare(opening'[s], e.key) # 0
    <3>1. opening[s] \in Keys /\ opening'[s] = opening[s] /\ Unequal(opening[s])
      BY <2>2, <2>4 DEF HInv, Types, StillAbsent
    <3>2. index[opening[s]] \in 0..(NEntries - 1)
      BY <3>1, BucketOf
    <3>3. ToSet(table'[index[opening[s]]]) \subseteq ToSet(table[index[opening[s]]])
      BY <2>1, <3>2
    <3>4. QED  BY <2>2, <3>1, <3>3 DEF Unequal
  <2>5. StillAbsent'
    BY <2>4 DEF StillAbsent, Unequal
  <2>6. QED  BY <2>1, <2>3, <2>5 DEF HInv
<1>4. ASSUME NEW key \in Keys, RemoveFile(key)
      PROVE  HInv'
  BY <1>3, <1>4 DEF RemoveFile
<1>5. ASSUME NEW e \in Entries, Evict(e)
      PROVE  HInv'
  <2>1. e.key \in Keys /\ fu_remove_file(e.key)
    BY <1>5, Found, EntryFields DEF Evict
  <2>2. QED  BY <1>3, <2>1
<1>6. CASE UNCHANGED vars
  BY <1>6 DEF vars, HInv, Types, Buckets, StillAbsent, Unequal
<1>7. QED  BY <1>1, <1>2, <1>4, <1>5, <1>6 DEF Next

\* The invariant holds throughout.
LEMMA HInvCorrect ==
  ASSUME OneOpener
  PROVE  Spec => []HInv
<1>1. HInv /\ [Next]_vars => HInv'
  BY HStep
<1>2. QED  BY <1>1, HInit, PTL DEF Spec

\* Every stored file is found under its own path, so that an eviction by its
\* victim's path (server.c:1276) removes the victim: for any paths, however
\* they begin with one another, and any way of hashing them.
THEOREM FindsOwnCorrect ==
  ASSUME OneOpener
  PROVE  Spec => []FindsOwn
<1>1. Spec => []HInv
  BY HInvCorrect
<1>2. QED  BY <1>1, OwnFound, PTL

-----------------------------------------------------------------------------
(* The map of FileMap.                                                     *)

\* The map that the table stands for.
filesNow == [k \in Keys |-> IF Stored(k) = {} THEN None
                            ELSE (CHOOSE e \in Stored(k) : TRUE).obj]

\* The stored files, each in the bucket of its path, and what the map says of
\* a path.
InBuckets == Entries = {e \in Entry : e \in ToSet(table[index[e.key]])}
Reads ==
  \A k \in Keys :
    /\ filesNow[k] = None <=> \A e \in Entries : e.key # k
    /\ \A e \in Entries : e.key = k => filesNow[k] = e.obj

\* The invariant gives both.
LEMMA MapReads == HInv => InBuckets /\ Reads
<1> SUFFICES ASSUME HInv PROVE InBuckets /\ Reads
  OBVIOUS
<1>1. InBuckets
  BY Found DEF InBuckets
<1>2. ASSUME NEW e \in Entries, NEW f \in Entries, e.key = f.key
      PROVE  e = f
  <2> DEFINE list == table[index[e.key]]
  <2>1. /\ e \in Entry /\ f \in Entry /\ e \in ToSet(list) /\ f \in ToSet(list)
        /\ list \in Seq(Entry) /\ Increasing(list)
    BY <1>2, Found, EntryFields, BucketOf
  <2> HIDE DEF list
  <2>2. PICK j \in 1..Len(list) : list[j] = e
    BY <2>1, InList
  <2>3. PICK k \in 1..Len(list) : list[k] = f
    BY <2>1, InList
  <2>4. su_string_compare(e.key, f.key) = 0
    BY <1>2, <2>1, EntryFields, EqualSymmetric
  <2>5. j = k
    BY <2>1, <2>2, <2>3, <2>4, Distinct
  <2>6. QED  BY <2>2, <2>3, <2>5
<1>3. \A e \in Entries : e.obj \in Objects
  BY Found, EntryFields
<1>4. ASSUME NEW k \in Keys
      PROVE  /\ filesNow[k] = None <=> \A e \in Entries : e.key # k
             /\ \A e \in Entries : e.key = k => filesNow[k] = e.obj
  <2>1. CASE Stored(k) = {}
    BY <2>1 DEF filesNow, Stored
  <2>2. CASE Stored(k) # {}
    <3> DEFINE c == CHOOSE e \in Stored(k) : TRUE
    <3>1. c \in Stored(k) /\ filesNow[k] = c.obj
      BY <2>2 DEF filesNow
    <3> HIDE DEF c
    <3>2. c \in Entries /\ c.key = k
      BY <3>1 DEF Stored
    <3>3. filesNow[k] # None
      BY <1>3, <3>1, <3>2, HashTableAssumption
    <3>4. QED  BY <1>2, <3>1, <3>2, <3>3
  <2>3. QED  BY <2>1, <2>2
<1>5. QED  BY <1>1, <1>4 DEF Reads

\* An insertion is a Put.
LEMMA InsertIsPut ==
  ASSUME OneOpener, HInv, HInv', NEW t \in Openers, Insert(t)
  PROVE  [Map!Next]_(Map!vars)
<1> DEFINE k == opening[t]
           o == CHOOSE x \in Fresh : TRUE
           e == [key |-> k, obj |-> o]
<1>1. k \in Keys /\ Unequal(k) /\ UNCHANGED <<index, asked>>
  BY DEF Insert, HInv, Types, StillAbsent
<1>2. CASE UNCHANGED table
  <2>1. filesNow' = filesNow
    BY <1>2 DEF filesNow, Stored, Entries
  <2>2. QED  BY <1>1, <2>1 DEF Map!vars, filesNow
<1>3. CASE ~UNCHANGED table
  <2>1. hu_insert(k, o) /\ o \in Objects
    BY <1>3 DEF Insert, Fresh
  <2> HIDE DEF k, o
  <2>2. /\ ToSet(table'[index[k]]) = ToSet(table[index[k]]) \cup {e}
        /\ \A c \in 0..(NEntries - 1) : c # index[k] => table'[c] = table[c]
    BY <1>1, <2>1, Inserted
  <2>3. e \in Entry /\ e.key = k /\ e.obj = o
    BY <1>1, <2>1 DEF Entry
  <2>4. InBuckets /\ Reads /\ InBuckets' /\ Reads'
    BY MapReads, PTL
  <2>5. \A f \in Entry : index[f.key] \in 0..(NEntries - 1)
    BY BucketOf, EntryFields
  <2> HIDE DEF e
  <2>6. Entries' = Entries \cup {e}
    <3>1. ASSUME NEW f \in Entry
          PROVE  f \in ToSet(table'[index[f.key]]) <=>
                   f \in ToSet(table[index[f.key]]) \/ f = e
      <4>1. CASE index[f.key] = index[k]
        BY <2>2, <4>1
      <4>2. CASE index[f.key] # index[k]
        BY <2>2, <2>3, <2>5, <4>2
      <4>3. QED  BY <4>1, <4>2
    <3>2. Entries' = {f \in Entry : f \in ToSet(table'[index[f.key]])}
      BY <1>1, <2>4 DEF InBuckets
    <3>3. QED  BY <2>3, <2>4, <3>1, <3>2 DEF InBuckets
  <2>7. \A f \in Entries : f.key # k
    <3>1. SUFFICES ASSUME NEW f \in Entries, f.key = k PROVE FALSE
      OBVIOUS
    <3>2. f \in ToSet(table[index[k]])
      BY <3>1, Found
    <3>3. su_string_compare(k, f.key) # 0
      BY <1>1, <3>2 DEF Unequal
    <3>4. QED  BY <1>1, <3>1, <3>3, KeyStrings, EqualSymmetric
  <2>8. filesNow[k] = None
    BY <1>1, <2>4, <2>7 DEF Reads
  <2>9. \A x \in Keys : filesNow'[x] = IF x = k THEN o ELSE filesNow[x]
    <3>1. filesNow'[k] = o
      BY <1>1, <2>3, <2>4, <2>6 DEF Reads
    <3>2. ASSUME NEW x \in Keys, x # k PROVE filesNow'[x] = filesNow[x]
      <4>1. CASE \E f \in Entries : f.key = x
        BY <2>4, <2>6, <4>1 DEF Reads
      <4>2. CASE \A f \in Entries : f.key # x
        <5>1. \A f \in Entries' : f.key # x
          BY <2>3, <2>6, <3>2, <4>2
        <5>2. filesNow'[x] = None /\ filesNow[x] = None
          BY <2>4, <4>2, <5>1 DEF Reads
        <5>3. QED  BY <5>2
      <4>3. QED  BY <4>1, <4>2
    <3>3. QED  BY <3>1, <3>2
  <2>10. filesNow' = [filesNow EXCEPT ![k] = o]
    BY <2>9 DEF filesNow
  <2>11. Map!Put(k, o)
    BY <1>1, <2>8, <2>10 DEF Map!Put, filesNow
  <2>12. QED  BY <1>1, <2>1, <2>11 DEF Map!Next
<1>4. QED  BY <1>2, <1>3

\* A removal is a Drop of one file, whose path equals the one asked for.
LEMMA RemovalIsDrop ==
  ASSUME HInv, HInv', NEW key \in Keys, fu_remove_file(key)
  PROVE  Map!Next
<1>1. PICK e \in ToSet(table[index[key]]) :
        /\ su_string_compare(key, e.key) = 0
        /\ ToSet(table'[index[key]]) = ToSet(table[index[key]]) \ {e}
  BY Dropped
<1>2. /\ \A c \in 0..(NEntries - 1) : c # index[key] => table'[c] = table[c]
      /\ UNCHANGED index /\ asked' = key
  BY Dropped DEF fu_remove_file
<1>3. index[key] \in 0..(NEntries - 1) /\ index[e.key] = index[key] /\ e \in Entry
  <2>1. /\ index[key] \in 0..(NEntries - 1) /\ table[index[key]] \in Seq(Entry)
        /\ index[e.key] = index[key]
    BY <1>1, BucketOf DEF HInv, Buckets
  <2>2. QED  BY <1>1, <2>1, InList
<1>4. e \in Entries /\ e.key \in Keys
  BY <1>1, <1>3, Found, EntryFields
<1>5. InBuckets /\ Reads /\ InBuckets' /\ Reads'
  BY MapReads, PTL
<1>6. \A f \in Entry : index[f.key] \in 0..(NEntries - 1)
  BY BucketOf, EntryFields
<1>7. Entries' = Entries \ {e}
  <2>1. ASSUME NEW f \in Entry
        PROVE  f \in ToSet(table'[index[f.key]]) <=>
                 f \in ToSet(table[index[f.key]]) /\ f # e
    <3>1. CASE index[f.key] = index[key]
      BY <1>1, <3>1
    <3>2. CASE index[f.key] # index[key]
      BY <1>2, <1>3, <1>6, <3>2
    <3>3. QED  BY <3>1, <3>2
  <2>2. Entries' = {f \in Entry : f \in ToSet(table'[index[f.key]])}
    BY <1>2, <1>5 DEF InBuckets
  <2>3. QED  BY <1>5, <2>1, <2>2 DEF InBuckets
<1>8. filesNow[e.key] # None
  BY <1>4, <1>5 DEF Reads
<1>9. ASSUME NEW f \in Entries, f.key = e.key PROVE f = e
  <2> DEFINE list == table[index[key]]
  <2>1. /\ f \in ToSet(list) /\ list \in Seq(Entry) /\ Increasing(list)
        /\ f \in Entry
    BY <1>3, <1>9, Found, BucketOf
  <2>2. su_string_compare(e.key, f.key) = 0
    BY <1>3, <1>9, EntryFields, EqualSymmetric
  <2>3. e \in ToSet(list)
    BY <1>1
  <2> HIDE DEF list
  <2>4. PICK j \in 1..Len(list) : list[j] = e
    BY <2>1, <2>3, InList
  <2>5. PICK k \in 1..Len(list) : list[k] = f
    BY <2>1, InList
  <2>6. j = k
    BY <2>1, <2>2, <2>4, <2>5, Distinct
  <2>7. QED  BY <2>4, <2>5, <2>6
<1>10. \A x \in Keys : filesNow'[x] = IF x = e.key THEN None ELSE filesNow[x]
  <2>1. filesNow'[e.key] = None
    BY <1>4, <1>5, <1>7, <1>9 DEF Reads
  <2>2. ASSUME NEW x \in Keys, x # e.key PROVE filesNow'[x] = filesNow[x]
    <3>1. CASE \E f \in Entries : f.key = x
      BY <1>5, <1>7, <2>2, <3>1 DEF Reads
    <3>2. CASE \A f \in Entries : f.key # x
      <4>1. filesNow'[x] = None /\ filesNow[x] = None
        BY <1>5, <1>7, <3>2 DEF Reads
      <4>2. QED  BY <4>1
    <3>3. QED  BY <3>1, <3>2
  <2>3. QED  BY <2>1, <2>2
<1>11. filesNow' = [filesNow EXCEPT ![e.key] = None]
  BY <1>10 DEF filesNow
<1>12. Map!su_string_compare(e.key, key) = 0
  <2>1. su_string_compare(e.key, key) = 0
    BY <1>1, <1>4, KeyStrings, EqualSymmetric
  <2>2. Map!su_string_compare(e.key, key) = su_string_compare(e.key, key)
    BY DEF su_string_compare, DiffersAt, Shorter,
           Map!su_string_compare, Map!DiffersAt, Map!Shorter
  <2>3. QED  BY <2>1, <2>2
<1>13. Map!Drop(e.key, key)
  BY <1>2, <1>8, <1>11, <1>12 DEF Map!Drop, filesNow
<1>14. QED  BY <1>4, <1>13 DEF Map!Next

\* The table implements the map: no step loses a file, stores one twice or
\* drops one whose path does not equal the one asked for (hash_utils.c:152).
THEOREM IsMapCorrect ==
  ASSUME OneOpener
  PROVE  Spec => IsMap
<1>1. Init => Map!Init
  <2> SUFFICES ASSUME Init PROVE Map!Init
    OBVIOUS
  <2>1. \A b \in DOMAIN table : ToSet(table[b]) = {}
    BY DEF Init, ToSet
  <2>2. Entries = {}
    BY <2>1 DEF Entries
  <2>3. \A k \in Keys : Stored(k) = {}
    BY <2>2 DEF Stored
  <2>4. QED  BY <2>3 DEF Map!Init, Init
<1>2. HInv /\ HInv' /\ [Next]_vars => [Map!Next]_(Map!vars)
  <2> SUFFICES ASSUME HInv, HInv', [Next]_vars PROVE [Map!Next]_(Map!vars)
    OBVIOUS
  <2>1. ASSUME UNCHANGED <<table, asked>> PROVE UNCHANGED Map!vars
    BY <2>1 DEF Map!vars, Stored, Entries
  <2>2. ASSUME NEW t \in Openers, NEW key \in Keys, Lookup(t, key)
        PROVE  [Map!Next]_(Map!vars)
    BY <2>1, <2>2 DEF Lookup
  <2>3. ASSUME NEW t \in Openers, Insert(t)
        PROVE  [Map!Next]_(Map!vars)
    BY <2>3, InsertIsPut
  <2>4. ASSUME NEW key \in Keys, RemoveFile(key)
        PROVE  [Map!Next]_(Map!vars)
    BY <2>4, RemovalIsDrop DEF RemoveFile
  <2>5. ASSUME NEW e \in Entries, Evict(e)
        PROVE  [Map!Next]_(Map!vars)
    <3>1. e.key \in Keys /\ fu_remove_file(e.key)
      BY <2>5, Found, EntryFields DEF Evict
    <3>2. QED  BY <3>1, RemovalIsDrop
  <2>6. CASE UNCHANGED vars
    BY <2>1, <2>6 DEF vars
  <2>7. QED  BY <2>2, <2>3, <2>4, <2>5, <2>6 DEF Next
<1>3. Spec => []HInv
  BY HInvCorrect
<1>4. QED  BY <1>1, <1>2, <1>3, PTL DEF Spec, IsMap, Map!Spec

-----------------------------------------------------------------------------
(* An eviction.                                                            *)

Removed == ToSet(taken)

\* What each variable holds; the counters by what bounds them.
EvictTypes ==
  /\ len \in [Files -> Nat] /\ owner \in [Files -> {"none", "self", "other", "evicted"}]
  /\ held \subseteq Files /\ need \in Nat /\ rest \in Nat
  /\ taken \in Seq(Files) /\ moves \in Nat
  /\ at \in {"start", "loop", "sending", "removing", "refused", "served", "failed", "left"}

\* The loop goes over all the files, each once.
Order ==
  /\ at = "start" => taken = <<>> /\ i = 1 /\ evict_arr = <<>>
  /\ at = "refused" => taken = <<>>
  /\ at \notin {"start", "refused"} => evict_arr \in SetToSeqs(Files)
  /\ at \in {"sending", "removing"} => i <= Len(evict_arr)
  /\ i \in 1..(Len(evict_arr) + 1)

\* What was removed has been passed, and keeps its mark; the file written is
\* locked throughout.
Passed ==
  /\ \A f \in Removed : owner[f] = "evicted" /\ \E j \in 1..(i - 1) : f = evict_arr[j]
  /\ Written \in held

\* The file chosen is kept by its mutex, then by its mark.
Kept ==
  /\ at = "sending" => owner[evict_arr[i]] # "other" /\ rest > 0
  /\ at = "removing" => owner[evict_arr[i]] = "evicted"
  /\ at \in {"sending", "removing"} => evict_arr[i] # Written

\* What is removed or about to be.
Gone == Removed \cup (IF at = "removing" THEN {evict_arr[i]} ELSE {})

\* What is left to remove.
Remaining ==
  rest = IF Sum(len, Gone) >= need THEN 0 ELSE need - Sum(len, Gone)

\* The last file was needed.
LastNeeded ==
  /\ taken # <<>> => Sum(len, ToSet(Front(taken))) < need
  /\ at = "removing" => Sum(len, Removed) < need

\* As long as the eviction is alone it has removed every file that it passed
\* and might take.
NoneLost ==
  moves = 0 => \A j \in 1..(i - 1) : MayTake(evict_arr[j]) => evict_arr[j] \in Removed

Ended ==
  /\ at = "served" => rest = 0
  /\ at = "failed" => rest > 0 /\ i = Len(evict_arr) + 1

EInv == /\ EvictTypes /\ Order /\ Passed /\ Kept /\ Remaining /\ LastNeeded /\ NoneLost
        /\ Ended

-----------------------------------------------------------------------------
(* Sequences and sums.                                                     *)

\* A file removed is added to those removed.
LEMMA Appended ==
  ASSUME NEW s \in Seq(Files), NEW f \in Files
  PROVE  /\ Append(s, f) \in Seq(Files) /\ Append(s, f) # <<>>
         /\ ToSet(Append(s, f)) = ToSet(s) \cup {f}
         /\ Front(Append(s, f)) = s
<1> DEFINE t == Append(s, f)
<1>1. /\ t \in Seq(Files) /\ Len(t) = Len(s) + 1 /\ t[Len(s) + 1] = f
      /\ \A j \in 1..Len(s) : t[j] = s[j]
      /\ DOMAIN t = 1..(Len(s) + 1) /\ DOMAIN s = 1..Len(s) /\ Len(s) \in Nat
  OBVIOUS
<1>2. t # <<>>
  BY <1>1
<1>3. \A j \in 1..(Len(s) + 1) : j \in 1..Len(s) \/ j = Len(s) + 1
  BY <1>1
<1>4. ToSet(t) = ToSet(s) \cup {f}
  BY <1>1, <1>3 DEF ToSet
<1>5. Front(t) = s
  BY <1>1 DEF Front
<1>6. QED  BY <1>1, <1>2, <1>4, <1>5

\* The lengths of files add up to a natural number.
LEMMA SumTyped ==
  ASSUME EvictTypes, NEW T \in SUBSET Files
  PROVE  Sum(len, T) \in Nat /\ IsFiniteSet(T)
<1>1. IsFiniteSet(T) /\ \A f \in T : len[f] \in Nat
  BY FS_Subset, EvictSelectAssumption DEF EvictTypes
<1>2. QED  BY <1>1, SumNat

\* One more file makes the sum larger by its length.
LEMMA SumMore ==
  ASSUME EvictTypes, NEW T \in SUBSET Files, NEW f \in Files, f \notin T
  PROVE  Sum(len, T \cup {f}) = Sum(len, T) + len[f] /\ len[f] \in Nat
<1>1. IsFiniteSet(T) /\ (\A g \in T \cup {f} : len[g] \in Int) /\ len[f] \in Nat
  BY SumTyped DEF EvictTypes
<1>2. Sum(len, T \cup {f}) = len[f] + Sum(len, T)
  BY <1>1, SumAdd
<1>3. QED  BY <1>1, <1>2, SumTyped

\* Total is that sum.
LEMMA TotalIsSum == \A T : Total(T) = Sum(len, T)
  BY DEF Total, Sum

\* qsort's array holds every file.
LEMMA AllOrdered ==
  ASSUME NEW o \in SetToSeqs(Files)
  PROVE  /\ Len(o) = Cardinality(Files) /\ DOMAIN o = 1..Len(o) /\ Len(o) \in Nat
         /\ \A j \in DOMAIN o : o[j] \in Files
         /\ \A j, k \in DOMAIN o : o[j] = o[k] => j = k
         /\ \A f \in Files : \E j \in DOMAIN o : o[j] = f
<1> DEFINE n == Cardinality(Files)
<1>1. n \in Nat /\ IsFiniteSet(Files)
  BY FS_CardinalityType, EvictSelectAssumption
<1>2. /\ o \in [1..n -> Files] /\ \A j, k \in 1..n : o[j] = o[k] => j = k
  BY DEF SetToSeqs
<1>3. o \in Injection(1..n, Files)
  BY <1>2 DEF Injection, IsInjective
<1>4. Cardinality(1..n) = n
  BY <1>1, FS_Interval
<1>5. o \in Surjection(1..n, Files)
  BY <1>1, <1>3, <1>4, FS_Injection
<1>6. o \in Seq(Files) /\ Len(o) = n
  BY <1>1, <1>2
<1>7. \A f \in Files : \E j \in 1..n : o[j] = f
  BY <1>5 DEF Surjection
<1>8. QED  BY <1>1, <1>2, <1>6, <1>7

-----------------------------------------------------------------------------
(* The steps.                                                              *)

\* Nothing is removed yet.
LEMMA InitEInv == EvictInit => EInv
<1> SUFFICES ASSUME EvictInit PROVE EInv
  OBVIOUS
<1>1. EvictTypes
  BY EvictSelectAssumption DEF EvictInit, EvictTypes
<1>2. Removed = {} /\ Gone = {} /\ Sum(len, {}) = 0
  BY SumEmpty DEF EvictInit, Removed, Gone, ToSet
<1>3. Order /\ Passed /\ Kept /\ LastNeeded /\ NoneLost /\ Ended
  BY <1>2 DEF EvictInit, Order, Passed, Kept, LastNeeded, NoneLost, Ended
<1>4. Remaining
  BY <1>2, EvictSelectAssumption DEF EvictInit, Remaining
<1>5. QED  BY <1>1, <1>3, <1>4 DEF EInv

\* The files are ordered.
LEMMA OrderStep ==
  ASSUME EInv, fu_evict_files
  PROVE  EInv'
<1>1. /\ at = "start" /\ taken = <<>> /\ i = 1 /\ Removed = {}
      /\ UNCHANGED <<len, uses, owner, held, need, rest, i, taken>>
  BY DEF EInv, Order, fu_evict_files, Removed, ToSet
<1>2. moves' \in Nat
  BY DEF fu_evict_files, EInv, EvictTypes
<1>3. \/ at' = "loop" /\ evict_arr' \in SetToSeqs(Files)
      \/ at' = "refused" /\ evict_arr' = <<>>
  BY <1>1 DEF fu_evict_files, Orders, EInv, Order
<1>4. EvictTypes'
  BY <1>1, <1>2, <1>3 DEF EInv, EvictTypes
<1>5. Order'
  BY <1>1, <1>3, AllOrdered DEF Order
<1>6. /\ Removed' = Removed /\ Gone' = Gone
      /\ Passed' /\ Kept' /\ LastNeeded' /\ NoneLost' /\ Ended'
  BY <1>1, <1>3 DEF EInv, Passed, Kept, LastNeeded, NoneLost, Ended, Removed, Gone
<1>7. Remaining'
  BY <1>1, <1>6 DEF EInv, Remaining
<1>8. QED  BY <1>4, <1>5, <1>6, <1>7 DEF EInv

\* The next file of the array, which has not been removed and is none of those
\* that were passed.
LEMMA NextFile ==
  ASSUME EInv, at \in {"loop", "sending", "removing"}, i <= Len(evict_arr)
  PROVE  /\ evict_arr[i] \in Files /\ i \in Nat /\ i \in DOMAIN evict_arr
         /\ DOMAIN evict_arr = 1..Len(evict_arr) /\ Len(evict_arr) \in Nat
         /\ evict_arr[i] \notin Removed
         /\ \A j \in 1..(i - 1) : evict_arr[j] # evict_arr[i]
         /\ i + 1 \in 1..(Len(evict_arr) + 1)
<1>1. /\ evict_arr \in SetToSeqs(Files) /\ i \in 1..(Len(evict_arr) + 1)
      /\ i <= Len(evict_arr)
  BY DEF EInv, Order
<1>2. /\ i \in DOMAIN evict_arr /\ DOMAIN evict_arr = 1..Len(evict_arr)
      /\ Len(evict_arr) \in Nat /\ i \in Nat /\ i + 1 \in 1..(Len(evict_arr) + 1)
  BY <1>1, AllOrdered
<1>3. evict_arr[i] \in Files /\ \A j \in 1..(i - 1) : evict_arr[j] # evict_arr[i]
  <2>1. \A j \in 1..(i - 1) : j \in DOMAIN evict_arr /\ j # i
    BY <1>1, <1>2
  <2>2. QED  BY <1>1, <1>2, <2>1, AllOrdered
<1>4. evict_arr[i] \notin Removed
  BY <1>3 DEF EInv, Passed
<1>5. QED  BY <1>2, <1>3, <1>4

\* The files removed are files.
LEMMA RemovedFiles == EInv => Removed \in SUBSET Files /\ EvictTypes
  BY DEF EInv, EvictTypes, Removed, ToSet

\* A file is locked, to be sent.
LEMMA ChooseStep ==
  ASSUME EInv, Choose
  PROVE  EInv'
<1>0. /\ at = "loop" /\ rest > 0 /\ i <= Len(evict_arr) /\ at' = "sending"
      /\ evict_arr[i] \notin held /\ owner[evict_arr[i]] # "other"
      /\ held' = held \cup {evict_arr[i]}
      /\ UNCHANGED <<len, owner, need, rest, evict_arr, i, taken, moves>>
  BY DEF Choose, Looking, MayTake
<1>1. evict_arr[i] \in Files
  BY <1>0, NextFile
<1>2. Removed' = Removed /\ Gone' = Gone
  BY <1>0 DEF Removed, Gone
<1>3. EvictTypes' /\ Order' /\ Passed' /\ Kept' /\ Ended'
  BY <1>0, <1>1, <1>2 DEF EInv, EvictTypes, Order, Passed, Kept, Ended
<1>4. Remaining' /\ LastNeeded'
  BY <1>0, <1>2 DEF EInv, Remaining, LastNeeded
<1>5. NoneLost'
  BY <1>0, <1>2 DEF EInv, NoneLost, MayTake
<1>6. QED  BY <1>3, <1>4, <1>5 DEF EInv

\* The client is gone.
LEMMA GiveUpStep ==
  ASSUME EInv, GiveUp
  PROVE  EInv'
<1>0. /\ at \in {"sending", "loop"} /\ at' = "left"
      /\ UNCHANGED <<len, owner, held, need, rest, evict_arr, i, taken, moves>>
  BY DEF GiveUp
<1>1. Removed' = Removed /\ Gone' = Gone
  BY <1>0 DEF Removed, Gone
<1>2. EvictTypes' /\ Order' /\ Passed' /\ Kept' /\ Ended'
  BY <1>0, <1>1 DEF EInv, EvictTypes, Order, Passed, Kept, Ended
<1>3. Remaining' /\ LastNeeded' /\ NoneLost'
  BY <1>0, <1>1 DEF EInv, Remaining, LastNeeded, NoneLost, MayTake
<1>4. QED  BY <1>2, <1>3 DEF EInv

\* The file is marked and given back: what is left to remove is less by it.
LEMMA MarkStep ==
  ASSUME EInv, Mark
  PROVE  EInv'
<1> DEFINE f == evict_arr[i]
<1>0. /\ at = "sending" /\ at' = "removing" /\ rest' = Lessened(rest, f)
      /\ owner' = [owner EXCEPT ![f] = "evicted"] /\ held' = held \ {f}
      /\ UNCHANGED <<len, need, evict_arr, i, taken, moves>>
  BY DEF Mark
<1>1. i <= Len(evict_arr) /\ f # Written /\ rest > 0
  BY <1>0 DEF EInv, Order, Kept
<1>2. /\ f \in Files /\ f \notin Removed
      /\ \A j \in 1..(i - 1) : evict_arr[j] # f
  BY <1>0, <1>1, NextFile
<1>3. f' = f
  BY <1>0
<1> HIDE DEF f
<1>4. Removed' = Removed /\ Gone = Removed /\ Gone' = Removed \cup {f}
  BY <1>0 DEF Removed, Gone, f
<1>5. /\ Sum(len, Removed \cup {f}) = Sum(len, Removed) + len[f] /\ len[f] \in Nat
      /\ Sum(len, Removed) \in Nat
  BY <1>2, RemovedFiles, SumMore, SumTyped
<1>6. /\ need \in Nat /\ rest \in Nat /\ Sum(len, Removed) < need
      /\ rest = need - Sum(len, Removed)
  BY <1>1, <1>4, <1>5 DEF EInv, Remaining, EvictTypes
<1>7. /\ rest' \in Nat
      /\ rest' = IF Sum(len, Removed \cup {f}) >= need THEN 0
                 ELSE need - Sum(len, Removed \cup {f})
  BY <1>0, <1>5, <1>6 DEF Lessened
<1>8. EvictTypes' /\ Order'
  BY <1>0, <1>2, <1>7 DEF EInv, EvictTypes, Order
<1>9. Passed' /\ Kept'
  <2>1. \A g \in Removed : owner'[g] = "evicted"
    BY <1>0, <1>2 DEF EInv, Passed, EvictTypes
  <2>2. owner'[f] = "evicted"
    BY <1>0, <1>2 DEF EInv, EvictTypes
  <2>3. QED
    BY <1>0, <1>1, <1>3, <1>4, <2>1, <2>2 DEF EInv, Passed, Kept, f
<1>10. Remaining' /\ LastNeeded'
  BY <1>0, <1>4, <1>6, <1>7 DEF EInv, Remaining, LastNeeded
<1>11. NoneLost'
  <2>1. ASSUME NEW j \in 1..(i - 1) PROVE MayTake(evict_arr[j])' => MayTake(evict_arr[j])
    BY <1>0, <1>2, <2>1 DEF MayTake, EInv, EvictTypes
  <2>2. QED  BY <1>0, <1>4, <2>1 DEF EInv, NoneLost
<1>12. Ended'
  BY <1>0 DEF Ended
<1>13. QED  BY <1>8, <1>9, <1>10, <1>11, <1>12 DEF EInv

\* The file is removed.
LEMMA TakeStep ==
  ASSUME EInv, Take
  PROVE  EInv'
<1> DEFINE f == evict_arr[i]
<1>0. /\ at = "removing" /\ at' = "loop"
      /\ taken' = Append(taken, f) /\ i' = i + 1
      /\ UNCHANGED <<len, owner, held, need, rest, evict_arr, moves>>
  BY DEF Take
<1>1. i <= Len(evict_arr) /\ owner[f] = "evicted"
  BY <1>0 DEF EInv, Order, Kept
<1>2. /\ f \in Files /\ i \in Nat /\ i + 1 \in 1..(Len(evict_arr) + 1)
      /\ i \in 1..i /\ (i + 1) - 1 = i
      /\ \A j \in 1..((i + 1) - 1) : j = i \/ j \in 1..(i - 1)
  BY <1>0, <1>1, NextFile
<1> HIDE DEF f
<1>3. /\ taken' \in Seq(Files) /\ taken' # <<>> /\ Front(taken') = taken
      /\ Removed' = Removed \cup {f}
  BY <1>0, <1>2, Appended DEF EInv, EvictTypes, Removed
<1>4. Gone = Removed \cup {f} /\ Gone' = Gone
  BY <1>0, <1>3 DEF Gone, f
<1>5. EvictTypes' /\ Order' /\ Kept' /\ Ended'
  BY <1>0, <1>2, <1>3 DEF EInv, EvictTypes, Order, Kept, Ended
<1>6. Passed'
  <2>1. \A g \in Removed \cup {f} : \E j \in 1..i : g = evict_arr[j]
    BY <1>2 DEF EInv, Passed, f
  <2>2. QED  BY <1>0, <1>1, <1>2, <1>3, <2>1 DEF EInv, Passed
<1>7. Remaining'
  BY <1>0, <1>4 DEF EInv, Remaining
<1>8. LastNeeded'
  BY <1>0, <1>3 DEF EInv, LastNeeded, Removed
<1>9. NoneLost'
  BY <1>0, <1>2, <1>3 DEF EInv, NoneLost, MayTake, f
<1>10. QED  BY <1>5, <1>6, <1>7, <1>8, <1>9 DEF EInv

\* A file in use is passed over.
LEMMA PassStep ==
  ASSUME EInv, Pass
  PROVE  EInv'
<1>0. /\ Looking /\ at = "loop" /\ ~MayTake(evict_arr[i]) /\ i' = i + 1
      /\ UNCHANGED <<len, owner, held, need, rest, evict_arr, taken, at, moves>>
  BY DEF Pass, Looking
<1>1. /\ i \in Nat /\ i + 1 \in 1..(Len(evict_arr) + 1)
      /\ \A j \in 1..((i + 1) - 1) : j = i \/ j \in 1..(i - 1)
      /\ \A j \in 1..(i - 1) : j \in 1..((i + 1) - 1)
  BY <1>0, NextFile DEF Looking
<1>2. Removed' = Removed /\ Gone' = Gone
  BY <1>0 DEF Removed, Gone
<1>3. EvictTypes' /\ Order' /\ Kept' /\ Ended'
  BY <1>0, <1>1 DEF EInv, EvictTypes, Order, Kept, Ended
<1>4. Passed' /\ NoneLost'
  BY <1>0, <1>1, <1>2 DEF EInv, Passed, NoneLost, MayTake
<1>5. Remaining' /\ LastNeeded'
  BY <1>0, <1>2 DEF EInv, Remaining, LastNeeded
<1>6. QED  BY <1>3, <1>4, <1>5 DEF EInv

\* The loop ends.
LEMMA FinishStep ==
  ASSUME EInv, Finish
  PROVE  EInv'
<1>0. /\ at = "loop" /\ (rest = 0 \/ i > Len(evict_arr))
      /\ at' = IF rest = 0 THEN "served" ELSE "failed"
      /\ UNCHANGED <<len, owner, held, need, rest, evict_arr, i, taken, moves>>
  BY DEF Finish
<1>1. evict_arr \in SetToSeqs(Files) /\ rest \in Nat /\ i \in 1..(Len(evict_arr) + 1)
  BY <1>0 DEF EInv, Order, EvictTypes
<1>2. Len(evict_arr) \in Nat
  BY <1>1, AllOrdered
<1>3. Ended'
  BY <1>0, <1>1, <1>2 DEF Ended
<1>4. Removed' = Removed /\ Gone' = Gone
  BY <1>0 DEF Removed, Gone
<1>5. EvictTypes' /\ Order' /\ Passed' /\ Kept'
  BY <1>0, <1>4 DEF EInv, EvictTypes, Order, Passed, Kept
<1>6. Remaining' /\ LastNeeded' /\ NoneLost'
  BY <1>0, <1>4 DEF EInv, Remaining, LastNeeded, NoneLost, MayTake
<1>7. QED  BY <1>3, <1>5, <1>6 DEF EInv

\* What another worker does is neither about the file that is being sent nor,
\* whatever it locks, changes a file that has the mark.
LEMMA OtherStep ==
  ASSUME EInv, NEW f \in Files, OtherUses(f) \/ OtherLocks(f) \/ OtherUnlocks(f)
  PROVE  EInv'
<1>0. /\ UNCHANGED <<need, rest, evict_arr, i, taken, at>> /\ moves' = moves + 1
      /\ Removed' = Removed /\ Gone' = Gone
  BY DEF OtherUses, OtherLocks, OtherUnlocks, Removed, Gone
<1>t. /\ len \in [Files -> Nat] /\ owner \in [Files -> {"none", "self", "other", "evicted"}]
      /\ held \subseteq Files /\ moves \in Nat /\ Written \in held
  BY DEF EInv, EvictTypes, Passed
<1>l. \/ len' = len
      \/ owner[f] = "other" /\ \E n \in 1..MaxLen : len' = [len EXCEPT ![f] = n]
  BY DEF OtherUses, OtherLocks, OtherUnlocks
<1>o. \/ owner' = owner
      \/ /\ owner[f] \in {"none", "other"} /\ f \notin Sending
         /\ \E c \in {"none", "other"} : owner' = [owner EXCEPT ![f] = c]
  BY DEF OtherUses, OtherLocks, OtherUnlocks
<1>h. \/ held' = held
      \/ held' = held \cup {f}
      \/ f # Written /\ held' = held \ {f}
  BY DEF OtherUses, OtherLocks, OtherUnlocks
<1>1. len' \in [Files -> Nat]
  BY <1>t, <1>l, EvictSelectAssumption
<1>2. owner' \in [Files -> {"none", "self", "other", "evicted"}]
  BY <1>t, <1>o
<1>3. held' \subseteq Files /\ moves' \in Nat /\ moves' # 0 /\ Written \in held'
  BY <1>0, <1>t, <1>h
<1>4. \A g \in Files : owner[g] = "evicted" => len'[g] = len[g] /\ owner'[g] = "evicted"
  BY <1>t, <1>l, <1>o
<1>5. EvictTypes' /\ Order' /\ Ended' /\ NoneLost'
  BY <1>0, <1>1, <1>2, <1>3 DEF EInv, EvictTypes, Order, Ended, NoneLost
<1>6. Removed \in SUBSET Files /\ Gone \in SUBSET Files
  <2>1. at = "removing" => evict_arr[i] \in Files
    BY NextFile DEF EInv, Order
  <2>2. QED  BY <2>1, RemovedFiles DEF Gone
<1>7. Passed'
  BY <1>0, <1>3, <1>4, <1>6 DEF EInv, Passed
<1>8. Kept'
  <2>1. ASSUME at \in {"sending", "removing"} PROVE evict_arr[i] \in Files
    BY <2>1, NextFile DEF EInv, Order
  <2>2. CASE at = "sending"
    <3>1. Sending = {evict_arr[i]} /\ owner[evict_arr[i]] # "other"
      BY <2>2 DEF Sending, EInv, Kept
    <3>2. owner'[evict_arr[i]] # "other"
      BY <1>t, <1>o, <2>1, <2>2, <3>1
    <3>3. QED  BY <1>0, <2>2, <3>2 DEF EInv, Kept
  <2>3. CASE at = "removing"
    BY <1>0, <1>4, <2>1, <2>3 DEF EInv, Kept
  <2>4. QED  BY <1>0, <2>2, <2>3 DEF Kept
<1>9. \A g \in Gone : owner[g] = "evicted"
  BY DEF EInv, Passed, Kept, Gone
<1>10. \A T \in SUBSET Gone : Sum(len', T) = Sum(len, T)
  <2>1. ASSUME NEW T \in SUBSET Gone PROVE Sum(len', T) = Sum(len, T)
    <3>1. \A g \in T : len'[g] = len[g]
      BY <1>4, <1>6, <1>9
    <3>2. T \in SUBSET Files
      BY <1>6
    <3>3. IsFiniteSet(T) /\ \A g \in T : len[g] \in Nat
      BY <3>2, RemovedFiles, SumTyped DEF EvictTypes
    <3>4. QED  BY <3>1, <3>3, SumSame
  <2>2. QED  BY <2>1
<1>11. /\ Removed \in SUBSET Gone /\ Gone \in SUBSET Gone
       /\ ToSet(Front(taken)) \in SUBSET Gone
  BY DEF EInv, EvictTypes, Removed, Gone, ToSet, Front
<1>12. Remaining' /\ LastNeeded'
  BY <1>0, <1>10, <1>11 DEF EInv, Remaining, LastNeeded
<1>13. QED  BY <1>5, <1>7, <1>8, <1>12 DEF EInv

\* EInv is inductive.
LEMMA NextEInv == EInv /\ [EvictNext]_evict_vars => EInv'
<1> SUFFICES ASSUME EInv, [EvictNext]_evict_vars PROVE EInv'
  OBVIOUS
<1>1. CASE UNCHANGED evict_vars
  <2>1. UNCHANGED <<len, owner, held, need, rest, evict_arr, i, taken, at, moves>>
    BY <1>1 DEF evict_vars
  <2>2. Removed' = Removed /\ Gone' = Gone
    BY <2>1 DEF Removed, Gone
  <2>3. QED
    BY <2>1, <2>2
       DEF EInv, EvictTypes, Order, Passed, Kept, Remaining, LastNeeded, NoneLost, Ended,
           MayTake
<1>2. QED
  BY <1>1, OrderStep, ChooseStep, GiveUpStep, MarkStep, TakeStep, PassStep, FinishStep,
     OtherStep DEF EvictNext, Evicting

\* The invariant holds throughout.
LEMMA EInvCorrect == EvictFairSpec => []EInv
  BY InitEInv, NextEInv, PTL DEF EvictFairSpec, EvictSpec

-----------------------------------------------------------------------------
(* The theorems.                                                           *)

\* An eviction is served exactly when what it removed is enough, and it removes
\* no file after enough was: the other workers write and close only files that
\* are not removed.
THEOREM EndsRightCorrect == EvictFairSpec => []EndsRight
<1>1. ASSUME EInv PROVE EndsRight
  <2>1. Removed \in SUBSET Files /\ need \in Nat /\ EvictTypes
    BY <1>1 DEF EInv, EvictTypes, Removed, ToSet
  <2>2. Sum(len, Removed) \in Nat
    BY <2>1, SumTyped
  <2>3. at \in {"served", "failed"} => Gone = Removed
    BY DEF Gone
  <2>4. /\ at = "served" => Sum(len, Removed) >= need
        /\ at = "failed" => Sum(len, Removed) < need
    BY <1>1, <2>1, <2>2, <2>3 DEF EInv, Ended, Remaining
  <2>5. QED
    BY <1>1, <2>4, TotalIsSum DEF EInv, EndsRight, LastNeeded, Removed
<1>2. QED  BY <1>1, EInvCorrect, PTL

\* With no other worker about, an eviction fails only for want of files: the
\* order of the array loses none of them.
THEOREM FailsForNeedCorrect == EvictFairSpec => []FailsForNeed
<1>1. ASSUME EInv, at = "failed", moves = 0
      PROVE  Total({f \in Files : MayTake(f)}) < need
  <2> DEFINE M == {f \in Files : MayTake(f)}
  <2>1. Removed \in SUBSET Files /\ need \in Nat /\ EvictTypes
    BY <1>1 DEF EInv, EvictTypes, Removed, ToSet
  <2>2. Sum(len, Removed) \in Nat /\ Sum(len, Removed) < need
    BY <1>1, <2>1, SumTyped DEF EInv, Ended, Remaining, Gone
  <2>3. evict_arr \in SetToSeqs(Files) /\ i = Len(evict_arr) + 1
    BY <1>1 DEF EInv, Order, Ended
  <2>4. \A f \in Files : \E j \in 1..(i - 1) : evict_arr[j] = f
    BY <2>3, AllOrdered
  <2>5. M \in SUBSET Removed
    BY <1>1, <2>4 DEF EInv, NoneLost
  <2>6. M \in SUBSET Files
    OBVIOUS
  <2> HIDE DEF M
  <2>7. Sum(len, M) \in Nat
    BY <2>1, <2>6, SumTyped
  <2>8. IsFiniteSet(Removed) /\ \A f \in Removed : len[f] \in Nat
    BY <2>1, SumTyped DEF EvictTypes
  <2>9. Sum(len, M) <= Sum(len, Removed)
    BY <2>5, <2>8, SumPart
  <2>10. Total(M) = Sum(len, M)
    BY TotalIsSum
  <2>11. Total(M) < need
    BY <2>1, <2>2, <2>7, <2>9, <2>10
  <2>12. QED  BY <2>11 DEF M
<1>2. EInv => FailsForNeed
  BY <1>1 DEF FailsForNeed
<1>3. QED  BY <1>2, EInvCorrect, PTL

\* No eviction removes the file being written or one that another client has
\* open, whatever the other workers do between the test of the owner, under the
\* mutex of the file, and the removal, which comes after the mutex was given
\* back: the mark that the file got under its mutex keeps them from opening it.
THEOREM LeavesOpenCorrect == EvictFairSpec => LeavesOpen
<1> DEFINE Body == \A f \in ToSet(taken') \ ToSet(taken) : f # Written /\ owner[f] # "other"
<1>1. ASSUME EInv, [EvictNext]_evict_vars PROVE Body
  <2>1. CASE Take
    <3>1. taken' = Append(taken, evict_arr[i]) /\ at = "removing"
      BY <2>1 DEF Take
    <3>2. evict_arr[i] # Written /\ owner[evict_arr[i]] = "evicted"
      BY <1>1, <3>1 DEF EInv, Kept
    <3>3. evict_arr[i] \in Files
      BY <1>1, <3>1, NextFile DEF EInv, Order
    <3>4. ToSet(taken') = ToSet(taken) \cup {evict_arr[i]}
      BY <1>1, <3>1, <3>3, Appended DEF EInv, EvictTypes
    <3>5. QED  BY <3>2, <3>4
  <2>2. CASE ~Take
    <3>1. taken' = taken
      BY <1>1, <2>2
         DEF EvictNext, Evicting, fu_evict_files, Choose, GiveUp, Mark, Pass, Finish,
             OtherUses, OtherLocks, OtherUnlocks, evict_vars
    <3>2. QED  BY <3>1
  <2>3. QED  BY <2>1, <2>2
<1>2. EInv /\ [EvictNext]_evict_vars => Body
  BY <1>1
<1> HIDE DEF Body
<1>3. EInv /\ [EvictNext]_evict_vars => [Body]_evict_vars
  BY <1>2
<1>4. EvictFairSpec => [][Body]_evict_vars
  BY <1>3, EInvCorrect, PTL DEF EvictFairSpec, EvictSpec
<1>5. QED  BY <1>4 DEF Body, LeavesOpen

\* What an eviction still has to do: a number for each state, 0 once it ended.
StepsLeft ==
  CASE at = "start" -> 3 * Cardinality(Files) + 2
    [] at = "loop" -> 3 * (Cardinality(Files) + 1 - i) + 1
    [] at = "sending" -> 3 * (Cardinality(Files) + 1 - i)
    [] at = "removing" -> 3 * (Cardinality(Files) + 1 - i) - 1
    [] OTHER -> 0
Over == at \in {"refused", "served", "failed", "left"}

\* What is left is a natural number, and 0 only at the end.
LEMMA StepsLeftTyped == EInv => StepsLeft \in Nat /\ (StepsLeft = 0 <=> Over)
<1> SUFFICES ASSUME EInv
    PROVE  StepsLeft \in Nat /\ (StepsLeft = 0 <=> Over)
  OBVIOUS
<1>1. Cardinality(Files) \in Nat
  BY FS_CardinalityType, EvictSelectAssumption
<1>2. CASE at = "start"
  BY <1>1, <1>2 DEF StepsLeft, Over
<1>3. CASE at \in {"loop", "sending", "removing"}
  <2>1. evict_arr \in SetToSeqs(Files) /\ i \in 1..(Len(evict_arr) + 1)
    BY <1>3 DEF EInv, Order
  <2>2. i \in 1..(Cardinality(Files) + 1) /\ Len(evict_arr) = Cardinality(Files)
    BY <2>1, AllOrdered
  <2>3. at # "loop" => i <= Cardinality(Files)
    BY <1>3, <2>2 DEF EInv, Order
  <2>4. QED  BY <1>1, <1>3, <2>2, <2>3 DEF StepsLeft, Over
<1>4. CASE Over
  BY <1>4 DEF StepsLeft, Over
<1>5. QED  BY <1>2, <1>3, <1>4 DEF EInv, EvictTypes, Over

\* Every step of the eviction itself brings its end nearer, and no step of the
\* other workers, which lock, write, open and close files meanwhile, moves it
\* away: the loop of server_evict tries each file at most once, whether it is
\* taken or passed over.  With the fairness of the thread this is why it ends.
THEOREM EvictionDescends ==
  EvictFairSpec => [][StepsLeft' <= StepsLeft /\ (Evicting => StepsLeft' < StepsLeft)]_evict_vars
<1> DEFINE Body == StepsLeft' <= StepsLeft /\ (Evicting => StepsLeft' < StepsLeft)
<1>0. EInv' => (StepsLeft \in Nat)'
  BY StepsLeftTyped, PTL
<1>1. ASSUME EInv, EInv', EvictNext PROVE Body
  <2>0. StepsLeft \in Nat /\ StepsLeft' \in Nat /\ Cardinality(Files) \in Nat
    BY <1>0, <1>1, StepsLeftTyped, FS_CardinalityType, EvictSelectAssumption
  <2>i. i \in Int
    BY <1>1 DEF EInv, Order
  <2>1. CASE fu_evict_files
    <3>1. at = "start" /\ i = 1 /\ i' = 1 /\ at' \in {"loop", "refused"}
      BY <1>1, <2>1 DEF fu_evict_files, EInv, Order
    <3>2. StepsLeft' < StepsLeft
      BY <2>0, <3>1 DEF StepsLeft
    <3>3. QED  BY <2>0, <3>2
  <2>2. CASE Choose \/ Mark
    <3>1. /\ (at = "loop" /\ at' = "sending") \/ (at = "sending" /\ at' = "removing")
          /\ i' = i
      BY <2>2 DEF Choose, Mark, Looking
    <3>2. StepsLeft' < StepsLeft
      BY <2>0, <2>i, <3>1 DEF StepsLeft
    <3>3. QED  BY <2>0, <3>2
  <2>3. CASE Take \/ Pass
    <3>1. at \in {"loop", "removing"} /\ at' = "loop" /\ i' = i + 1
      BY <2>3 DEF Take, Pass, Looking
    <3>2. StepsLeft' < StepsLeft
      BY <2>0, <2>i, <3>1 DEF StepsLeft
    <3>3. QED  BY <2>0, <3>2
  <2>4. CASE GiveUp \/ Finish
    <3>1. at \in {"loop", "sending"} /\ at' \in {"served", "failed", "left"}
      BY <2>4 DEF GiveUp, Finish
    <3>2. StepsLeft # 0
      BY <1>1, <3>1, StepsLeftTyped DEF Over
    <3>3. StepsLeft' = 0
      BY <3>1 DEF StepsLeft
    <3>4. QED  BY <2>0, <3>2, <3>3
  <2>5. ASSUME NEW f \in Files, OtherUses(f) \/ OtherLocks(f) \/ OtherUnlocks(f), ~Evicting
        PROVE  Body
    <3>1. at' = at /\ i' = i
      BY <2>5 DEF OtherUses, OtherLocks, OtherUnlocks
    <3>2. QED  BY <2>0, <2>5, <3>1 DEF StepsLeft
  <2>6. QED
    BY <1>1, <2>1, <2>2, <2>3, <2>4, <2>5 DEF EvictNext, Evicting
<1>2. EInv /\ EInv' /\ [EvictNext]_evict_vars => [Body]_evict_vars
  BY <1>1
<1> HIDE DEF Body
<1>3. EvictFairSpec => [][Body]_evict_vars
  BY <1>2, EInvCorrect, PTL DEF EvictFairSpec, EvictSpec
<1>4. QED  BY <1>3 DEF Body
=============================================================================
