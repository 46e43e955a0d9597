----------------------------- MODULE DataLemmas -----------------------------
(***************************************************************************)
(* Facts about the data of the models, used by the proofs about them:      *)
(* strings and ordered lists (PrefixOrder), and sums.                      *)
(*                                                                         *)
(* MapThenSumSet, the sum of a function's values over a finite set, is     *)
(* well defined, whatever order the elements are taken in, and changes     *)
(* with the set and with the values as a sum does.                         *)
(*                                                                         *)
(* An induction over finite sets is made by taking a smallest set of those *)
(* for which a statement fails.                                            *)
(***************************************************************************)
EXTENDS PrefixOrder, FiniteSets, SequenceTheorems, FiniteSetTheorems,
        WellFoundedInduction, TLAPS

Strings == Seq(Nat)

\* a comes before b: they differ where both have a character, and where they
\* first do a has the smaller one.
Precedes(a, b) ==
  \E p \in 1..Shorter(a, b) : a[p] < b[p] /\ \A q \in 1..(p - 1) : a[q] = b[q]

Sum(v, S) == MapThenSumSet(LAMBDA x : v[x], S)

\* The recursion by which the sum over every subset of S is defined.
Pick(s) == CHOOSE x \in s : TRUE
Adds(v, S, g) ==
  g = [s \in SUBSET S |-> IF s = {} THEN 0 ELSE v[Pick(s)] + g[s \ {Pick(s)}]]

-----------------------------------------------------------------------------
(* The recursion defines a function, and only one.                         *)

\* The proper subsets of a finite set's subsets are well founded.
LEMMA SubsetsWellFounded ==
  ASSUME NEW S, IsFiniteSet(S)
  PROVE  IsWellFoundedOn(StrictSubsetOrdering(S), SUBSET S)
<1>1. SUBSET S \subseteq {T \in SUBSET S : IsFiniteSet(T)}
  BY FS_Subset
<1>2. IsWellFoundedOn(StrictSubsetOrdering(S), {T \in SUBSET S : IsFiniteSet(T)})
  BY FS_StrictSubsetOrderingWellFounded DEF FiniteSubsetsOf
<1>3. QED  BY <1>1, <1>2, IsWellFoundedOnSubset

\* Induction over the subsets of a finite set: a set that contains every s of
\* which it contains all the proper subsets contains them all.
LEMMA SetInduction ==
  ASSUME NEW S, IsFiniteSet(S), NEW Good,
         ASSUME NEW s \in SUBSET S, \A t \in SUBSET s : t # s => t \in Good
         PROVE  s \in Good
  PROVE  SUBSET S \subseteq Good
<1> DEFINE Bad == (SUBSET S) \ Good
<1> SUFFICES ASSUME Bad # {} PROVE FALSE
  OBVIOUS
<1>1. IsWellFoundedOn(StrictSubsetOrdering(S), SUBSET S)
  BY SubsetsWellFounded
<1>2. Bad \subseteq SUBSET S
  OBVIOUS
<1>3. PICK s \in Bad : \A t \in Bad : ~(<<t, s>> \in StrictSubsetOrdering(S))
  <2> HIDE DEF Bad
  <2>1. QED  BY <1>1, <1>2, WFMin
<1>4. ASSUME NEW t \in SUBSET s, t # s PROVE t \in Good
  <2>1. <<t, s>> \in StrictSubsetOrdering(S)
    BY <1>4 DEF StrictSubsetOrdering
  <2>2. QED  BY <1>3, <2>1
<1>5. QED  BY <1>4

\* Induction over the natural numbers.
LEMMA NatSetInduction ==
  ASSUME NEW Good, 0 \in Good,
         ASSUME NEW n \in Nat, n \in Good PROVE n + 1 \in Good
  PROVE  Nat \subseteq Good
<1> DEFINE R == {p \in Nat \X Nat : p[1] < p[2]}
           Bad == Nat \ Good
<1> SUFFICES ASSUME Bad # {} PROVE FALSE
  OBVIOUS
<1>1. IsWellFoundedOn(R, Nat)
  BY NatLessThanWellFounded DEF OpToRel
<1>2. PICK n \in Bad : \A m \in Bad : <<m, n>> \notin R
  <2> HIDE DEF R
  <2>1. Bad \subseteq Nat
    OBVIOUS
  <2> HIDE DEF Bad
  <2>2. QED  BY <1>1, <2>1, WFMin
<1>3. n - 1 \in Nat /\ (n - 1) + 1 = n
  OBVIOUS
<1>4. n - 1 \in Bad
  BY <1>3
<1>5. <<n - 1, n>> \in R
  BY <1>3
<1>6. QED  BY <1>2, <1>4, <1>5

\* What is picked from a set is in it.
LEMMA PickIn ==
  ASSUME NEW s, s # {}
  PROVE  Pick(s) \in s
  BY DEF Pick

\* The function exists: it is built from the smaller sets to the larger.
LEMMA AddsExists ==
  ASSUME NEW v, NEW S, IsFiniteSet(S)
  PROVE  \E g : Adds(v, S, g)
<1> DEFINE Upto(n) == {s \in SUBSET S : Cardinality(s) <= n}
           Built(n, g) ==
             g = [s \in Upto(n) |-> IF s = {} THEN 0
                                    ELSE v[Pick(s)] + g[s \ {Pick(s)}]]
           Good == {n \in Nat : \E g : Built(n, g)}
<1>1. \A s \in SUBSET S : IsFiniteSet(s) /\ Cardinality(s) \in Nat
                          /\ Cardinality(s) <= Cardinality(S)
  BY FS_Subset, FS_CardinalityType
<1>2. \A s \in SUBSET S : s # {} => Cardinality(s \ {Pick(s)}) = Cardinality(s) - 1
  BY <1>1, PickIn, FS_RemoveElement
<1>3. 0 \in Good
  <2>1. \A s \in Upto(0) : s = {}
    BY <1>1, FS_EmptySet
  <2>2. Built(0, [s \in Upto(0) |-> 0])
    BY <2>1
  <2>3. QED  BY <2>2
<1>4. ASSUME NEW n \in Nat, n \in Good PROVE n + 1 \in Good
  <2>1. PICK g : Built(n, g)
    BY <1>4
  <2> DEFINE h == [s \in Upto(n + 1) |->
                     IF Cardinality(s) <= n THEN g[s]
                     ELSE v[Pick(s)] + g[s \ {Pick(s)}]]
  <2>2. \A s \in Upto(n) : s \in Upto(n + 1) /\ h[s] = g[s]
    BY <1>1
  <2>3. ASSUME NEW s \in Upto(n + 1), s # {}
        PROVE  h[s] = v[Pick(s)] + h[s \ {Pick(s)}]
    <3>1. s \ {Pick(s)} \in Upto(n)
      BY <1>1, <1>2, <2>3
    <3>2. h[s \ {Pick(s)}] = g[s \ {Pick(s)}]
      BY <2>2, <3>1
    <3>3. CASE Cardinality(s) <= n
      <4>1. s \in Upto(n) /\ h[s] = g[s]
        BY <3>3
      <4>2. g[s] = v[Pick(s)] + g[s \ {Pick(s)}]
        BY <2>1, <2>3, <4>1
      <4>3. QED  BY <3>2, <4>1, <4>2
    <3>4. CASE ~(Cardinality(s) <= n)
      BY <3>2, <3>4
    <3>5. QED  BY <3>3, <3>4
  <2>4. {} \in Upto(n) /\ h[{}] = 0
    <3>1. {} \in Upto(n)
      BY FS_EmptySet
    <3>2. g[{}] = 0
      BY <2>1, <3>1
    <3>3. QED  BY <2>2, <3>1, <3>2
  <2> DEFINE k == [s \in Upto(n + 1) |-> IF s = {} THEN 0
                                         ELSE v[Pick(s)] + h[s \ {Pick(s)}]]
  <2>5. \A s \in Upto(n + 1) : h[s] = k[s]
    BY <2>3, <2>4
  <2> DEFINE D == Upto(n + 1)
  <2>6. h = k
    <3>1. h = [s \in D |-> h[s]] /\ k = [s \in D |-> k[s]]
      OBVIOUS
    <3> HIDE DEF h, k, D
    <3>2. \A s \in D : h[s] = k[s]
      BY <2>5 DEF D
    <3>3. QED  BY <3>1, <3>2
  <2>7. Built(n + 1, h)
    BY <2>6
  <2>8. \E f : Built(n + 1, f)
    <3> HIDE DEF h, Built
    <3>1. QED  BY <2>7
  <2> HIDE DEF Built
  <2>9. QED  BY <2>8
<1>5. Nat \subseteq Good
  <2> HIDE DEF Good
  <2>1. QED  BY <1>3, <1>4, NatSetInduction
<1>6. Cardinality(S) \in Nat
  BY FS_CardinalityType
<1>7. PICK g : Built(Cardinality(S), g)
  BY <1>5, <1>6
<1>8. Upto(Cardinality(S)) = SUBSET S
  BY <1>1
<1>9. Adds(v, S, g)
  BY <1>7, <1>8 DEF Adds
<1>10. QED  BY <1>9

\* Every such function agrees on every subset with the sum over it.
LEMMA AddsIsSum ==
  ASSUME NEW v, NEW S, IsFiniteSet(S), NEW g, Adds(v, S, g), NEW T \in SUBSET S
  PROVE  g[T] = Sum(v, T)
<1>1. IsFiniteSet(T)
  BY FS_Subset
<1> DEFINE h == CHOOSE f : Adds(v, T, f)
<1>2. Sum(v, T) = h[T]
  BY DEF Sum, MapThenSumSet, MapThenFoldSet, Adds, Pick
<1>3. Adds(v, T, h)
  <2>1. \E f : Adds(v, T, f)
    BY <1>1, AddsExists
  <2>2. QED  BY <2>1
<1> HIDE DEF h
<1> DEFINE Good == {s \in SUBSET T : g[s] = h[s]}
<1>4. ASSUME NEW s \in SUBSET T, \A t \in SUBSET s : t # s => t \in Good
      PROVE  s \in Good
  <2>1. CASE s = {}
    BY <1>3, <2>1 DEF Adds
  <2>2. CASE s # {}
    <3> DEFINE r == s \ {Pick(s)}
    <3>1. r \subseteq s /\ r # s
      BY <2>2, PickIn
    <3>2. g[r] = h[r]
      BY <1>4, <3>1
    <3>3. g[s] = v[Pick(s)] + g[r] /\ h[s] = v[Pick(s)] + h[r]
      BY <1>3, <2>2 DEF Adds
    <3>4. QED  BY <3>2, <3>3
  <2>3. QED  BY <2>1, <2>2
<1>5. SUBSET T \subseteq Good
  <2> HIDE DEF Good
  <2>1. QED  BY <1>1, <1>4, SetInduction
<1>6. QED  BY <1>2, <1>5

-----------------------------------------------------------------------------
(* What the sum over a set is.                                             *)

\* Nothing adds up to nothing.
LEMMA SumEmpty ==
  ASSUME NEW v
  PROVE  Sum(v, {}) = 0
<1>1. PICK g : Adds(v, {}, g)
  BY FS_EmptySet, AddsExists
<1>2. g[{}] = 0
  BY <1>1 DEF Adds
<1>3. QED  BY <1>1, <1>2, FS_EmptySet, AddsIsSum

\* The equation of the recursion.
LEMMA SumPick ==
  ASSUME NEW v, NEW S, IsFiniteSet(S), S # {}
  PROVE  Sum(v, S) = v[Pick(S)] + Sum(v, S \ {Pick(S)})
<1>1. PICK g : Adds(v, S, g)
  BY AddsExists
<1>2. g[S] = v[Pick(S)] + g[S \ {Pick(S)}]
  BY <1>1 DEF Adds
<1>3. S \in SUBSET S /\ S \ {Pick(S)} \in SUBSET S
  OBVIOUS
<1>4. \A T \in SUBSET S : g[T] = Sum(v, T)
  BY <1>1, AddsIsSum
<1>5. QED  BY <1>2, <1>3, <1>4

\* Integers add up to an integer.
LEMMA SumInt ==
  ASSUME NEW v, NEW S, IsFiniteSet(S), \A x \in S : v[x] \in Int
  PROVE  Sum(v, S) \in Int
<1> DEFINE Good == {s \in SUBSET S : Sum(v, s) \in Int}
<1>1. ASSUME NEW s \in SUBSET S, \A t \in SUBSET s : t # s => t \in Good
      PROVE  s \in Good
  <2>1. CASE s = {}
    BY <2>1, SumEmpty
  <2>2. CASE s # {}
    <3>1. IsFiniteSet(s) /\ Pick(s) \in s
      BY <2>2, PickIn, FS_Subset
    <3>2. s \ {Pick(s)} \in Good /\ v[Pick(s)] \in Int
      BY <1>1, <3>1
    <3>3. Sum(v, s) = v[Pick(s)] + Sum(v, s \ {Pick(s)})
      BY <2>2, <3>1, SumPick
    <3>4. QED  BY <3>2, <3>3
  <2>3. QED  BY <2>1, <2>2
<1>2. SUBSET S \subseteq Good
  <2> HIDE DEF Good
  <2>1. QED  BY <1>1, SetInduction
<1>3. QED  BY <1>2

\* Naturals add up to a natural.
LEMMA SumNat ==
  ASSUME NEW v, NEW S, IsFiniteSet(S), \A x \in S : v[x] \in Nat
  PROVE  Sum(v, S) \in Nat
<1> DEFINE Good == {s \in SUBSET S : Sum(v, s) \in Nat}
<1>1. ASSUME NEW s \in SUBSET S, \A t \in SUBSET s : t # s => t \in Good
      PROVE  s \in Good
  <2>1. CASE s = {}
    BY <2>1, SumEmpty
  <2>2. CASE s # {}
    <3>1. IsFiniteSet(s) /\ Pick(s) \in s
      BY <2>2, PickIn, FS_Subset
    <3>2. s \ {Pick(s)} \in Good /\ v[Pick(s)] \in Nat
      BY <1>1, <3>1
    <3>3. Sum(v, s) = v[Pick(s)] + Sum(v, s \ {Pick(s)})
      BY <2>2, <3>1, SumPick
    <3>4. QED  BY <3>2, <3>3
  <2>3. QED  BY <2>1, <2>2
<1>2. SUBSET S \subseteq Good
  <2> HIDE DEF Good
  <2>1. QED  BY <1>1, SetInduction
<1>3. QED  BY <1>2

\* Any element can be taken out first.
LEMMA SumRemove ==
  ASSUME NEW v, NEW S, IsFiniteSet(S), \A x \in S : v[x] \in Int, NEW y \in S
  PROVE  Sum(v, S) = v[y] + Sum(v, S \ {y})
<1> DEFINE Good == {s \in SUBSET S : \A x \in s : Sum(v, s) = v[x] + Sum(v, s \ {x})}
<1>1. ASSUME NEW s \in SUBSET S, \A t \in SUBSET s : t # s => t \in Good, NEW x \in s
      PROVE  Sum(v, s) = v[x] + Sum(v, s \ {x})
  <2> DEFINE p == Pick(s)
             r == (s \ {x}) \ {p}
  <2>1. p \in s /\ s # {} /\ IsFiniteSet(s)
    BY PickIn, FS_Subset
  <2>2. Sum(v, s) = v[p] + Sum(v, s \ {p})
    BY <2>1, SumPick
  <2>3. CASE p = x
    BY <2>2, <2>3
  <2>4. CASE p # x
    <3>1. s \ {p} \in Good /\ s \ {x} \in Good
      BY <1>1, <2>1
    <3>2. Sum(v, s \ {p}) = v[x] + Sum(v, (s \ {p}) \ {x})
      BY <2>4, <3>1
    <3>3. Sum(v, s \ {x}) = v[p] + Sum(v, r)
      BY <2>1, <2>4, <3>1
    <3>4. (s \ {p}) \ {x} = r
      OBVIOUS
    <3>5. v[x] \in Int /\ v[p] \in Int
      BY <2>1
    <3>6. Sum(v, r) \in Int
      <4>1. r \in SUBSET S /\ IsFiniteSet(r)
        BY FS_Subset
      <4>2. QED  BY <4>1, SumInt
    <3> HIDE DEF p, r
    <3>7. Sum(v, (s \ {p}) \ {x}) = Sum(v, r)
      BY <3>4
    <3>8. QED  BY <2>2, <3>2, <3>3, <3>5, <3>6, <3>7
  <2>5. QED  BY <2>3, <2>4
<1>2. SUBSET S \subseteq Good
  <2>1. ASSUME NEW s \in SUBSET S, \A t \in SUBSET s : t # s => t \in Good
        PROVE  s \in Good
    BY <1>1, <2>1
  <2> HIDE DEF Good
  <2>2. QED  BY <2>1, SetInduction
<1>3. QED  BY <1>2

\* An element that is added adds its value.
LEMMA SumAdd ==
  ASSUME NEW v, NEW S, IsFiniteSet(S), NEW y, y \notin S,
         \A x \in S \cup {y} : v[x] \in Int
  PROVE  Sum(v, S \cup {y}) = v[y] + Sum(v, S)
<1>1. IsFiniteSet(S \cup {y}) /\ (S \cup {y}) \ {y} = S
  BY FS_AddElement
<1>2. QED  BY <1>1, SumRemove

\* On the whole set.
LEMMA AddsIsSumHere ==
  ASSUME NEW v, NEW S, IsFiniteSet(S), NEW g, Adds(v, S, g)
  PROVE  g[S] = Sum(v, S)
<1>1. S \in SUBSET S
  OBVIOUS
<1>2. QED  BY <1>1, AddsIsSum

\* Only the values on the set count.
LEMMA SumSame ==
  ASSUME NEW S, IsFiniteSet(S), NEW u, NEW v, \A x \in S : u[x] = v[x]
  PROVE  Sum(u, S) = Sum(v, S)
<1>1. PICK g : Adds(u, S, g)
  BY AddsExists
<1>2. \A s \in SUBSET S : s # {} => u[Pick(s)] = v[Pick(s)]
  BY PickIn
<1>3. Adds(v, S, g)
  BY <1>1, <1>2 DEF Adds
<1>4. g[S] = Sum(u, S)
  BY <1>1, AddsIsSumHere
<1>5. g[S] = Sum(v, S)
  BY <1>3, AddsIsSumHere
<1>6. QED  BY <1>4, <1>5

\* When one value changes the sum changes by as much.
LEMMA SumChange ==
  ASSUME NEW S, IsFiniteSet(S), NEW y \in S, NEW u, NEW v,
         \A x \in S : u[x] \in Int /\ v[x] \in Int,
         \A x \in S \ {y} : u[x] = v[x]
  PROVE  Sum(v, S) = Sum(u, S) - u[y] + v[y]
<1>1. Sum(u, S) = u[y] + Sum(u, S \ {y}) /\ Sum(v, S) = v[y] + Sum(v, S \ {y})
  BY SumRemove
<1>2. IsFiniteSet(S \ {y})
  BY FS_RemoveElement
<1>3. Sum(u, S \ {y}) = Sum(v, S \ {y}) /\ Sum(u, S \ {y}) \in Int
  BY <1>2, SumSame, SumInt
<1>4. QED  BY <1>1, <1>3

\* Naturals over a set are no less than over a part of it.
LEMMA SumPart ==
  ASSUME NEW v, NEW S, IsFiniteSet(S), \A x \in S : v[x] \in Nat, NEW T \in SUBSET S
  PROVE  Sum(v, T) <= Sum(v, S)
<1> DEFINE Good == {s \in SUBSET S : T \subseteq s => Sum(v, T) <= Sum(v, s)}
<1>1. Sum(v, T) \in Nat
  BY FS_Subset, SumNat
<1>2. ASSUME NEW s \in SUBSET S, \A t \in SUBSET s : t # s => t \in Good
      PROVE  s \in Good
  <2>1. CASE s = T \/ ~(T \subseteq s)
    BY <1>1, <2>1
  <2>2. CASE s # T /\ T \subseteq s
    <3>1. PICK x \in s : x \notin T
      BY <2>2
    <3>2. s \ {x} \in Good
      BY <1>2, <3>1
    <3>3. Sum(v, T) <= Sum(v, s \ {x})
      BY <2>2, <3>1, <3>2
    <3>4. IsFiniteSet(s)
      BY FS_Subset
    <3>5. Sum(v, s) = v[x] + Sum(v, s \ {x}) /\ v[x] \in Nat
      BY <3>4, SumRemove
    <3>6. Sum(v, s \ {x}) \in Nat
      BY <3>4, FS_RemoveElement, SumNat
    <3>7. QED  BY <1>1, <3>3, <3>5, <3>6
  <2>3. QED  BY <2>1, <2>2
<1>3. SUBSET S \subseteq Good
  <2> HIDE DEF Good
  <2>1. QED  BY <1>2, SetInduction
<1>4. QED  BY <1>3

\* No value is larger than the sum.
LEMMA SumElement ==
  ASSUME NEW v, NEW S, IsFiniteSet(S), \A x \in S : v[x] \in Nat, NEW y \in S
  PROVE  v[y] <= Sum(v, S)
<1>1. Sum(v, S) = v[y] + Sum(v, S \ {y})
  BY SumRemove
<1>2. Sum(v, S \ {y}) \in Nat
  BY FS_RemoveElement, SumNat
<1>3. QED  BY <1>1, <1>2

-----------------------------------------------------------------------------
(* Elements under other names.                                             *)

\* As many different names as elements.
LEMMA NamesFinite ==
  ASSUME NEW S, IsFiniteSet(S), NEW f, \A x, y \in S : f[x] = f[y] => x = y
  PROVE  IsFiniteSet({f[x] : x \in S}) /\ Cardinality({f[x] : x \in S}) = Cardinality(S)
<1> DEFINE T == {f[x] : x \in S}
           h == [x \in S |-> f[x]]
<1>1. h \in Bijection(S, T)
  BY DEF Bijection, Injection, Surjection, IsInjective
<1>2. ExistsBijection(S, T)
  BY <1>1 DEF ExistsBijection
<1>3. QED  BY <1>2, FS_Bijection

\* The values add up to the same sum.
LEMMA SumNames ==
  ASSUME NEW S, IsFiniteSet(S), NEW f, \A x, y \in S : f[x] = f[y] => x = y,
         NEW u, NEW v, \A x \in S : u[x] \in Int /\ u[x] = v[f[x]]
  PROVE  Sum(u, S) = Sum(v, {f[x] : x \in S})
<1> DEFINE N(s) == {f[x] : x \in s}
           Good == {s \in SUBSET S : Sum(u, s) = Sum(v, N(s))}
<1>1. ASSUME NEW s \in SUBSET S, \A t \in SUBSET s : t # s => t \in Good
      PROVE  s \in Good
  <2>1. CASE s = {}
    <3>1. N({}) = {}
      OBVIOUS
    <3>2. QED  BY <2>1, <3>1, SumEmpty
  <2>2. CASE s # {}
    <3> DEFINE p == Pick(s)
               r == s \ {p}
    <3>1. IsFiniteSet(s) /\ p \in s
      BY <2>2, PickIn, FS_Subset
    <3>2. IsFiniteSet(r) /\ r \in SUBSET S
      BY <3>1, FS_RemoveElement
    <3>3. r \in SUBSET s /\ r # s
      BY <3>1
    <3> HIDE DEF p, r
    <3>4. Sum(u, r) = Sum(v, N(r))
      BY <1>1, <3>3
    <3>5. Sum(u, s) = u[p] + Sum(u, r)
      BY <2>2, <3>1, SumPick DEF p, r
    <3>6. N(s) = N(r) \cup {f[p]} /\ f[p] \notin N(r)
      BY <3>1 DEF r
    <3>7. IsFiniteSet(N(r))
      BY <3>2, NamesFinite
    <3>8. \A y \in N(r) \cup {f[p]} : v[y] \in Int
      BY <3>1, <3>2
    <3> HIDE DEF N
    <3>9. Sum(v, N(r) \cup {f[p]}) = v[f[p]] + Sum(v, N(r))
      BY <3>6, <3>7, <3>8, SumAdd
    <3>10. Sum(u, s) = Sum(v, N(s))
      BY <3>1, <3>4, <3>5, <3>6, <3>9
    <3>11. QED  BY <3>10
  <2>3. QED  BY <2>1, <2>2
<1>2. SUBSET S \subseteq Good
  <2> HIDE DEF Good
  <2>1. QED  BY <1>1, SetInduction
<1>3. QED  BY <1>2

-----------------------------------------------------------------------------
(* The comparison.                                                         *)

\* A set of natural numbers that is not empty has a least element.
LEMMA LeastOf ==
  ASSUME NEW T \in SUBSET Nat, T # {}
  PROVE  \E x \in T : \A y \in T : x <= y
<1> DEFINE R == {p \in Nat \X Nat : p[1] < p[2]}
<1>1. IsWellFoundedOn(R, Nat)
  BY NatLessThanWellFounded DEF OpToRel
<1> HIDE DEF R
<1>2. PICK x \in T : \A y \in T : <<y, x>> \notin R
  BY <1>1, WFMin
<1>3. \A y \in T : ~(y < x)
  BY <1>2 DEF R
<1>4. QED  BY <1>3

\* su_string_compare tells what comes before what, or that one string begins
\* with the other (string_utils.c:30).
LEMMA Compared ==
  ASSUME NEW a \in Strings, NEW b \in Strings
  PROVE  /\ su_string_compare(a, b) \in Int
         /\ su_string_compare(a, b) < 0 <=> Precedes(a, b)
         /\ su_string_compare(a, b) > 0 <=> Precedes(b, a)
         /\ su_string_compare(a, b) = 0 <=> DiffersAt(a, b) = {}
<1> DEFINE n == Shorter(a, b)
<1>1. /\ n \in Nat /\ Shorter(b, a) = n
      /\ \A p \in 1..n : a[p] \in Nat /\ b[p] \in Nat
  BY DEF Shorter, Strings
<1>2. DiffersAt(a, b) = {p \in 1..n : a[p] # b[p]}
  BY DEF DiffersAt
<1>3. CASE DiffersAt(a, b) = {}
  <2>1. \A p \in 1..n : a[p] = b[p]
    BY <1>2, <1>3
  <2>2. ~Precedes(a, b) /\ ~Precedes(b, a)
    BY <1>1, <2>1 DEF Precedes
  <2>3. QED  BY <1>3, <2>2 DEF su_string_compare
<1>4. CASE DiffersAt(a, b) # {}
  <2> DEFINE i == CHOOSE x \in DiffersAt(a, b) : \A y \in DiffersAt(a, b) : x <= y
  <2>1. \E x \in DiffersAt(a, b) : \A y \in DiffersAt(a, b) : x <= y
    BY <1>1, <1>2, <1>4, LeastOf
  <2>2. i \in DiffersAt(a, b) /\ \A y \in DiffersAt(a, b) : i <= y
    BY <2>1
  <2>3. su_string_compare(a, b) = a[i] - b[i]
    BY <1>4 DEF su_string_compare
  <2> HIDE DEF i, n
  <2>4. /\ i \in 1..n /\ a[i] # b[i] /\ a[i] \in Nat /\ b[i] \in Nat
        /\ \A q \in 1..(i - 1) : q \in 1..n /\ a[q] = b[q]
    BY <1>1, <1>2, <2>2
  <2>5. \A p \in 1..n : p < i \/ p = i \/ (p > i /\ i \in 1..(p - 1))
    BY <1>1, <2>4
  <2>6. Precedes(a, b) <=> a[i] < b[i]
    BY <1>1, <2>4, <2>5 DEF Precedes, n
  <2>7. Precedes(b, a) <=> b[i] < a[i]
    BY <1>1, <2>4, <2>5 DEF Precedes, n
  <2>8. QED  BY <1>4, <2>3, <2>4, <2>6, <2>7
<1>5. QED  BY <1>3, <1>4

\* Equal is symmetric, and a string equals itself.
LEMMA EqualSymmetric ==
  ASSUME NEW a \in Strings, NEW b \in Strings
  PROVE  /\ su_string_compare(a, b) = 0 <=> su_string_compare(b, a) = 0
         /\ su_string_compare(a, a) = 0
<1>1. \A x \in Strings : Len(x) \in Nat
  BY DEF Strings
<1>2. DiffersAt(a, b) = DiffersAt(b, a) /\ DiffersAt(a, a) = {}
  BY <1>1 DEF DiffersAt, Shorter
<1>3. QED  BY <1>2, Compared

\* Equal is not transitive, but coming before is.
LEMMA BelowTransitive ==
  ASSUME NEW a \in Strings, NEW b \in Strings, NEW c \in Strings, Precedes(a, b), Precedes(b, c)
  PROVE  Precedes(a, c)
<1>1. PICK p \in 1..Shorter(a, b) : a[p] < b[p] /\ \A q \in 1..(p - 1) : a[q] = b[q]
  BY DEF Precedes
<1>2. PICK r \in 1..Shorter(b, c) : b[r] < c[r] /\ \A q \in 1..(r - 1) : b[q] = c[q]
  BY DEF Precedes
<1>3. /\ Len(a) \in Nat /\ Len(b) \in Nat /\ Len(c) \in Nat
      /\ p \in 1..Len(a) /\ p \in 1..Len(b) /\ r \in 1..Len(b) /\ r \in 1..Len(c)
      /\ a[p] \in Nat /\ b[p] \in Nat /\ b[r] \in Nat /\ c[r] \in Nat
  <2>1. Len(a) \in Nat /\ Len(b) \in Nat /\ Len(c) \in Nat
    BY DEF Strings
  <2>2. p \in 1..Len(a) /\ p \in 1..Len(b) /\ r \in 1..Len(b) /\ r \in 1..Len(c)
    BY <1>1, <1>2, <2>1 DEF Shorter
  <2>3. /\ \A j \in 1..Len(a) : a[j] \in Nat
        /\ \A j \in 1..Len(b) : b[j] \in Nat
        /\ \A j \in 1..Len(c) : c[j] \in Nat
    BY DEF Strings
  <2>4. QED  BY <2>1, <2>2, <2>3
<1>4. CASE p < r
  <2>1. b[p] = c[p] /\ p \in 1..Shorter(a, c) /\ \A q \in 1..(p - 1) : b[q] = c[q]
    BY <1>2, <1>3, <1>4 DEF Shorter
  <2>2. QED  BY <1>1, <2>1 DEF Precedes
<1>5. CASE r < p
  <2>1. a[r] = b[r] /\ r \in 1..Shorter(a, c) /\ \A q \in 1..(r - 1) : a[q] = b[q]
    BY <1>1, <1>3, <1>5 DEF Shorter
  <2>2. QED  BY <1>2, <2>1 DEF Precedes
<1>6. CASE p = r
  <2>1. p \in 1..Shorter(a, c) /\ a[p] < c[p]
    BY <1>1, <1>2, <1>3, <1>6 DEF Shorter
  <2>2. QED  BY <1>1, <1>2, <1>6, <2>1 DEF Precedes
<1>7. QED  BY <1>3, <1>4, <1>5, <1>6

-----------------------------------------------------------------------------
(* Lists.                                                                  *)

\* The elements before a position and those from it on.
LEMMA Parts ==
  ASSUME NEW S, NEW s \in Seq(S), NEW m \in 0..Len(s), NEW n \in 1..(Len(s) + 1)
  PROVE  /\ SubSeq(s, 1, m) \in Seq(S) /\ Len(SubSeq(s, 1, m)) = m
         /\ \A j \in 1..m : SubSeq(s, 1, m)[j] = s[j]
         /\ SubSeq(s, n, Len(s)) \in Seq(S) /\ Len(SubSeq(s, n, Len(s))) = Len(s) - n + 1
         /\ \A j \in 1..(Len(s) - n + 1) : SubSeq(s, n, Len(s))[j] = s[n + j - 1]
  BY SubSeqProperties

\* What is left of a list without one element, in its order.
LEMMA RemovedAt ==
  ASSUME NEW S, NEW s \in Seq(S), NEW i \in 1..Len(s)
  PROVE  /\ RemoveAt(s, i) \in Seq(S) /\ Len(RemoveAt(s, i)) = Len(s) - 1
         /\ \A j \in 1..(Len(s) - 1) :
              RemoveAt(s, i)[j] = IF j < i THEN s[j] ELSE s[j + 1]
<1> DEFINE u == SubSeq(s, 1, i - 1)
           v == SubSeq(s, i + 1, Len(s))
           n == Len(s)
<1>1. n \in Nat /\ i \in 1..n /\ i - 1 \in 0..n /\ i + 1 \in 1..(n + 1)
  OBVIOUS
<1>2. /\ u \in Seq(S) /\ Len(u) = i - 1 /\ \A j \in 1..(i - 1) : u[j] = s[j]
      /\ v \in Seq(S) /\ Len(v) = n - (i + 1) + 1
      /\ \A j \in 1..(n - (i + 1) + 1) : v[j] = s[(i + 1) + j - 1]
  BY <1>1, Parts
<1> HIDE DEF u, v, n
<1>3. /\ u \o v \in Seq(S) /\ Len(u \o v) = Len(u) + Len(v)
      /\ \A j \in 1..(Len(u) + Len(v)) :
           (u \o v)[j] = IF j <= Len(u) THEN u[j] ELSE v[j - Len(u)]
  BY <1>2, ConcatProperties
<1>4. Len(u) + Len(v) = n - 1
  BY <1>1, <1>2
<1>5. ASSUME NEW j \in 1..(n - 1)
      PROVE  (u \o v)[j] = IF j < i THEN s[j] ELSE s[j + 1]
  <2>1. CASE j < i
    BY <1>1, <1>2, <1>3, <1>4, <2>1
  <2>2. CASE ~(j < i)
    <3> DEFINE m == j - (i - 1)
    <3>1. m \in 1..(n - (i + 1) + 1) /\ (i + 1) + m - 1 = j + 1 /\ ~(j <= i - 1)
      BY <1>1, <2>2
    <3>2. (u \o v)[j] = v[m]
      BY <1>2, <1>3, <1>4, <3>1
    <3>3. v[m] = s[(i + 1) + m - 1]
      BY <1>2, <3>1
    <3>4. QED  BY <2>2, <3>1, <3>2, <3>3
  <2>3. QED  BY <2>1, <2>2
<1>6. RemoveAt(s, i) = u \o v
  BY DEF RemoveAt, u, v
<1>7. QED  BY <1>3, <1>4, <1>5, <1>6 DEF n

\* A list with one more element.
LEMMA InsertedAt ==
  ASSUME NEW S, NEW s \in Seq(S), NEW i \in 1..(Len(s) + 1), NEW e \in S
  PROVE  /\ InsertAt(s, i, e) \in Seq(S) /\ Len(InsertAt(s, i, e)) = Len(s) + 1
         /\ \A j \in 1..(Len(s) + 1) :
              InsertAt(s, i, e)[j] =
                IF j < i THEN s[j] ELSE IF j = i THEN e ELSE s[j - 1]
<1> DEFINE u == SubSeq(s, 1, i - 1)
           v == SubSeq(s, i, Len(s))
           n == Len(s)
           x == u \o <<e>>
<1>1. n \in Nat /\ i \in 1..(n + 1) /\ i - 1 \in 0..n
  OBVIOUS
<1>2. /\ u \in Seq(S) /\ Len(u) = i - 1 /\ \A j \in 1..(i - 1) : u[j] = s[j]
      /\ v \in Seq(S) /\ Len(v) = n - i + 1
      /\ \A j \in 1..(n - i + 1) : v[j] = s[i + j - 1]
  BY <1>1, Parts
<1>e. <<e>> \in Seq(S) /\ Len(<<e>>) = 1 /\ <<e>>[1] = e
  OBVIOUS
<1> HIDE DEF u, v, n
<1>3. /\ x \in Seq(S) /\ Len(x) = Len(u) + 1
      /\ \A j \in 1..(Len(u) + 1) :
           x[j] = IF j <= Len(u) THEN u[j] ELSE <<e>>[j - Len(u)]
  <2> HIDE DEF x
  <2>1. /\ u \o <<e>> \in Seq(S) /\ Len(u \o <<e>>) = Len(u) + Len(<<e>>)
        /\ \A j \in 1..(Len(u) + Len(<<e>>)) :
             (u \o <<e>>)[j] = IF j <= Len(u) THEN u[j] ELSE <<e>>[j - Len(u)]
    BY <1>2, <1>e, ConcatProperties
  <2>2. QED  BY <1>e, <2>1 DEF x
<1>4. Len(x) = i /\ x[i] = e /\ \A j \in 1..(i - 1) : x[j] = s[j]
  <2> HIDE DEF x
  <2>1. Len(x) = i /\ i \in 1..(Len(u) + 1) /\ ~(i <= Len(u)) /\ i - Len(u) = 1
    BY <1>1, <1>2, <1>3
  <2>2. x[i] = e
    BY <1>3, <2>1, <1>e
  <2>3. \A j \in 1..(i - 1) : j \in 1..(Len(u) + 1) /\ j <= Len(u)
    BY <1>1, <1>2
  <2>4. \A j \in 1..(i - 1) : x[j] = s[j]
    BY <1>2, <1>3, <2>3
  <2>5. QED  BY <2>1, <2>2, <2>4
<1> HIDE DEF x
<1>5. /\ x \o v \in Seq(S) /\ Len(x \o v) = Len(x) + Len(v)
      /\ \A j \in 1..(Len(x) + Len(v)) :
           (x \o v)[j] = IF j <= Len(x) THEN x[j] ELSE v[j - Len(x)]
  BY <1>2, <1>3, ConcatProperties
<1>6. Len(x) + Len(v) = n + 1
  BY <1>1, <1>2, <1>4
<1>7. ASSUME NEW j \in 1..(n + 1)
      PROVE  (x \o v)[j] = IF j < i THEN s[j] ELSE IF j = i THEN e ELSE s[j - 1]
  <2>1. CASE j <= i
    BY <1>1, <1>4, <1>5, <1>6, <2>1
  <2>2. CASE ~(j <= i)
    <3> DEFINE m == j - i
    <3>1. m \in 1..(n - i + 1) /\ i + m - 1 = j - 1
      BY <1>1, <2>2
    <3>2. (x \o v)[j] = v[m]
      BY <1>4, <1>5, <1>6, <2>2
    <3>3. v[m] = s[i + m - 1]
      BY <1>2, <3>1
    <3>4. QED  BY <1>1, <2>2, <3>1, <3>2, <3>3
  <2>3. QED  BY <2>1, <2>2
<1>8. InsertAt(s, i, e) = x \o v
  BY DEF InsertAt, x, u, v
<1>9. QED  BY <1>5, <1>6, <1>7, <1>8 DEF n

\* lu_navigate stops at the first element that is not below (list_utils.c).
LEMMA Navigated ==
  ASSUME NEW s \in Seq(Strings), NEW x \in Strings
  PROVE  /\ lu_navigate(s, x) \in 1..(Len(s) + 1)
         /\ \A j \in 1..(lu_navigate(s, x) - 1) : Precedes(s[j], x)
         /\ lu_navigate(s, x) <= Len(s) =>
              su_string_compare(x, s[lu_navigate(s, x)]) <= 0
<1> DEFINE n == Len(s)
           P(i) == /\ \A j \in 1..(i - 1) : su_string_compare(x, s[j]) > 0
                   /\ i <= Len(s) => su_string_compare(x, s[i]) <= 0
           T == {i \in 1..n : su_string_compare(x, s[i]) <= 0} \cup {n + 1}
<1>1. n \in Nat /\ \A j \in 1..n : s[j] \in Strings
  OBVIOUS
<1>2. T \in SUBSET Nat /\ T # {}
  BY <1>1
<1>3. PICK i \in T : \A y \in T : i <= y
  <2> HIDE DEF T
  <2>1. QED  BY <1>2, LeastOf
<1>4. i \in 1..(n + 1) /\ P(i)
  <2>1. i \in 1..(n + 1)
    BY <1>1, <1>3
  <2>2. ASSUME NEW j \in 1..(i - 1) PROVE su_string_compare(x, s[j]) > 0
    <3>1. j \in 1..n /\ j < i
      BY <1>1, <2>1
    <3>2. j \notin T
      BY <1>3, <3>1, <2>1, <1>1
    <3>3. su_string_compare(x, s[j]) \in Int
      BY <1>1, <3>1, Compared
    <3>4. QED  BY <3>1, <3>2, <3>3
  <2>3. i <= Len(s) => su_string_compare(x, s[i]) <= 0
    BY <1>1, <1>3
  <2>4. QED  BY <2>1, <2>2, <2>3
<1>5. lu_navigate(s, x) = CHOOSE k \in 1..(n + 1) : P(k)
  BY DEF lu_navigate
<1> HIDE DEF P
<1>6. lu_navigate(s, x) \in 1..(n + 1) /\ P(lu_navigate(s, x))
  BY <1>4, <1>5
<1>7. \A j \in 1..(lu_navigate(s, x) - 1) : j \in 1..n
  BY <1>1, <1>6
<1>8. QED  BY <1>1, <1>6, <1>7, Compared DEF P

\* The elements of a list, by their places.
LEMMA InList ==
  ASSUME NEW S, NEW s \in Seq(S)
  PROVE  /\ \A e : e \in ToSet(s) <=> \E j \in 1..Len(s) : s[j] = e
         /\ DOMAIN s = 1..Len(s) /\ Len(s) \in Nat /\ \A j \in 1..Len(s) : s[j] \in S
  BY DEF ToSet
=============================================================================
