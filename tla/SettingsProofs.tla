-------------------------- MODULE SettingsProofs --------------------------
(***************************************************************************)
(* Proofs about the reading of config.txt, for any file: any lines, of any *)
(* lexemes, in any order, with and without a newline at the end.           *)
(***************************************************************************)
EXTENDS Settings, DataLemmas

-----------------------------------------------------------------------------
(* Lines one after the other.                                              *)

\* st[k] is where the k-th of the sequences s begins in their concatenation t.
Lays(st, t, s, n) ==
  /\ st \in [1..(n + 1) -> 1..(Len(t) + 1)] /\ st[1] = 1 /\ Len(t) = st[n + 1] - 1
  /\ \A k \in 1..n : /\ st[k + 1] = st[k] + Len(s[k])
                     /\ \A j \in 1..Len(s[k]) : t[st[k] + j - 1] = s[k][j]
  /\ \A k \in 1..n, l \in 1..(n + 1) : k < l => st[k] + Len(s[k]) <= st[l]

\* Places in a sequence that lies in another.
LEMMA PlaceIn ==
  ASSUME NEW a \in Nat, a >= 1, NEW l \in Nat, NEW T \in Nat, a + l <= T + 1, NEW j \in 1..l
  PROVE  a + j - 1 \in 1..T
  OBVIOUS

\* And back: the place in the inner sequence of one of its places in the outer one.
LEMMA PlaceOf ==
  ASSUME NEW a \in Nat, NEW l \in Nat, NEW p \in Nat, a <= p, p < a + l
  PROVE  p - a + 1 \in 1..l /\ a + (p - a + 1) - 1 = p
  OBVIOUS

\* A place of a sequence that ends before b lies before b.
LEMMA PlaceBefore ==
  ASSUME NEW a \in Nat, NEW l \in Nat, NEW b \in Nat, NEW f \in Nat, a + l < b,
         NEW j \in 1..l, f <= a + j - 1
  PROVE  a + j - 1 \in f..(b - 1)
  OBVIOUS

\* g[i] is the concatenation of the first i of the sequences s.
Joins(g, s, n) == g = [i \in 1..n |-> IF i = 1 THEN s[i] ELSE g[i - 1] \o s[i]]

\* The function that FlattenSeq computes exists.
LEMMA JoinsExists ==
  ASSUME NEW s, NEW n \in Nat
  PROVE  \E g : Joins(g, s, n)
<1> DEFINE Good == {m \in Nat : \E g : Joins(g, s, m)}
<1>1. 0 \in Good
  <2>1. Joins([i \in 1..0 |-> 0], s, 0)
    BY DEF Joins
  <2>2. QED  BY <2>1
<1>2. ASSUME NEW m \in Nat, m \in Good PROVE m + 1 \in Good
  <2>1. PICK g : Joins(g, s, m)
    BY <1>2
  <2> DEFINE E(i) == IF i = 1 THEN s[i] ELSE g[i - 1] \o s[i]
             h == [i \in 1..(m + 1) |-> E(i)]
             D == 1..(m + 1)
  <2>2. \A i \in 1..m : h[i] = g[i]
    <3>1. \A i \in 1..m : g[i] = E(i)
      <4> HIDE DEF E
      <4>1. g = [i \in 1..m |-> E(i)]
        BY <2>1 DEF Joins, E
      <4>2. QED  BY <4>1
    <3>2. \A i \in 1..m : h[i] = E(i)
      OBVIOUS
    <3>3. QED  BY <3>1, <3>2
  <2>3. \A i \in 1..(m + 1) : i # 1 => i - 1 \in 1..m
    OBVIOUS
  <2>4. \A i \in 1..(m + 1) : E(i) = IF i = 1 THEN s[i] ELSE h[i - 1] \o s[i]
    BY <2>2, <2>3
  <2>5. h = [i \in 1..(m + 1) |-> IF i = 1 THEN s[i] ELSE h[i - 1] \o s[i]]
    <3>1. h = [i \in D |-> E(i)]
      OBVIOUS
    <3> DEFINE G(i) == IF i = 1 THEN s[i] ELSE h[i - 1] \o s[i]
    <3>2. \A i \in D : E(i) = G(i)
      BY <2>4
    <3> HIDE DEF E, G, D, h
    <3>3. h = [i \in D |-> G(i)]
      BY <3>1, <3>2
    <3>4. QED  BY <3>3 DEF G, D
  <2> HIDE DEF h
  <2>6. Joins(h, s, m + 1)
    BY <2>5 DEF Joins
  <2>7. QED  BY <2>6
<1> HIDE DEF Good
<1>3. n \in Good
  BY <1>1, <1>2, NatSetInduction
<1>4. QED  BY <1>3 DEF Good

\* FlattenSeq is the last value of such a function.
LEMMA FlattenIs ==
  ASSUME NEW s, Len(s) \in Nat, Len(s) # 0
  PROVE  \E g : Joins(g, s, Len(s)) /\ FlattenSeq(s) = g[Len(s)]
<1> DEFINE g == CHOOSE h : Joins(h, s, Len(s))
<1>1. Joins(g, s, Len(s))
  BY JoinsExists
<1>2. FlattenSeq(s) = g[Len(s)]
  BY DEF FlattenSeq, Joins
<1>3. QED  BY <1>1, <1>2

\* One sequence more.
LEMMA LaysMore ==
  ASSUME NEW S, NEW s, NEW m \in Nat, \A k \in 1..(m + 1) : s[k] \in Seq(S),
         NEW t \in Seq(S), NEW st, Lays(st, t, s, m)
  PROVE  \E ut : Lays(ut, t \o s[m + 1], s, m + 1)
<1> SUFFICES ASSUME NEW q \in Nat, q = m + 1 PROVE \E ut : Lays(ut, t \o s[q], s, q)
  OBVIOUS
<1> DEFINE x == s[q]
           u == t \o x
           ut == [k \in 1..(q + 1) |-> IF k <= q THEN st[k] ELSE st[q] + Len(x)]
<1>1. x \in Seq(S) /\ \A k \in 1..q : Len(s[k]) \in Nat
  OBVIOUS
<1>2. /\ u \in Seq(S) /\ Len(u) = Len(t) + Len(x) /\ Len(t) \in Nat /\ Len(x) \in Nat
      /\ \A j \in 1..Len(t) : u[j] = t[j]
      /\ \A j \in 1..Len(x) : u[Len(t) + j] = x[j]
  <2> HIDE DEF x
  <2>1. QED  BY <1>1
<1>3. /\ st \in [1..q -> 1..(Len(t) + 1)] /\ st[1] = 1 /\ Len(t) = st[q] - 1
      /\ \A k \in 1..m : /\ st[k + 1] = st[k] + Len(s[k])
                         /\ \A j \in 1..Len(s[k]) : t[st[k] + j - 1] = s[k][j]
      /\ \A k \in 1..m, l \in 1..q : k < l => st[k] + Len(s[k]) <= st[l]
  BY DEF Lays
<1>a. \A k \in 1..m, l \in 1..q : k < l => st[k] + Len(s[k]) <= st[l]
  BY <1>3
<1>4. \A k \in 1..q : st[k] \in Nat /\ st[k] >= 1 /\ st[k] <= Len(t) + 1
  BY <1>2, <1>3
<1>5. Len(s[q]) = Len(x) /\ \A j \in 1..Len(x) : s[q][j] = x[j]
  OBVIOUS
<1>6. /\ DOMAIN ut = 1..(q + 1) /\ ut = [k \in 1..(q + 1) |-> ut[k]]
      /\ \A k \in 1..q : ut[k] = st[k]
      /\ ut[q + 1] = st[q] + Len(x)
  OBVIOUS
<1> HIDE DEF ut, u, x
<1>q. /\ q \in 1..q /\ 1 \in 1..q /\ st[q] = Len(t) + 1 /\ ut[q] = Len(t) + 1
      /\ ut[q + 1] = Len(u) + 1
  <2>1. q \in 1..q /\ 1 \in 1..q
    OBVIOUS
  <2>2. st[q] \in Nat /\ Len(t) = st[q] - 1 /\ ut[q] = st[q]
    BY <1>3, <1>4, <1>6, <2>1
  <2>3. st[q] = Len(t) + 1
    BY <1>2, <2>2
  <2>4. ut[q + 1] = (Len(t) + 1) + Len(x)
    BY <1>6, <2>3
  <2>5. (Len(t) + 1) + Len(x) = Len(u) + 1
    BY <1>2
  <2>6. QED  BY <2>1, <2>2, <2>3, <2>4, <2>5
<1>7. ut \in [1..(q + 1) -> 1..(Len(u) + 1)]
  <2>1. \A k \in 1..q : ut[k] \in 1..(Len(u) + 1)
    <3> SUFFICES ASSUME NEW k \in 1..q PROVE ut[k] \in 1..(Len(u) + 1)
      OBVIOUS
    <3>1. ut[k] = st[k] /\ st[k] \in Nat /\ st[k] >= 1 /\ st[k] <= Len(t) + 1
      BY <1>4, <1>6
    <3>2. QED  BY <1>2, <3>1
  <2>3. ut[q + 1] \in 1..(Len(u) + 1)
    BY <1>2, <1>q
  <2>4. \A k \in 1..(q + 1) : k \in 1..q \/ k = q + 1
    OBVIOUS
  <2>5. \A k \in 1..(q + 1) : ut[k] \in 1..(Len(u) + 1)
    BY <2>1, <2>3, <2>4
  <2>6. QED  BY <1>6, <2>5
<1>8. ut[1] = 1 /\ Len(u) = ut[q + 1] - 1
  <2>1. ut[1] = st[1] /\ st[1] = 1
    BY <1>3, <1>6, <1>q
  <2>2. Len(u) = (Len(u) + 1) - 1
    BY <1>2
  <2>3. QED  BY <1>q, <2>1, <2>2
<1>9. ASSUME NEW k \in 1..q
      PROVE  /\ ut[k + 1] = ut[k] + Len(s[k])
             /\ \A j \in 1..Len(s[k]) : u[ut[k] + j - 1] = s[k][j]
  <2>1. CASE k = q
    <3>1. ut[k] = Len(t) + 1 /\ ut[k + 1] = ut[k] + Len(s[k])
      <4>1. Len(u) + 1 = (Len(t) + 1) + Len(x)
        BY <1>2
      <4>2. QED  BY <1>5, <1>q, <2>1, <4>1
    <3>2. \A j \in 1..Len(x) : ut[k] + j - 1 = Len(t) + j
      BY <1>2, <3>1
    <3>3. \A j \in 1..Len(x) : u[ut[k] + j - 1] = x[j]
      BY <1>2, <3>2
    <3>4. QED  BY <1>5, <2>1, <3>1, <3>3
  <2>2. CASE k # q
    <3>1. k \in 1..m /\ k + 1 \in 1..q
      BY <2>2
    <3>2. ut[k] = st[k] /\ ut[k + 1] = st[k + 1] /\ st[k + 1] = st[k] + Len(s[k])
      BY <1>3, <1>6, <3>1
    <3>3. Len(s[k]) \in Nat /\ st[k] \in Nat /\ st[k] >= 1 /\ st[k + 1] <= Len(t) + 1
      BY <1>1, <1>4, <3>1
    <3>4. \A j \in 1..Len(s[k]) : st[k] + j - 1 \in 1..Len(t)
      BY <1>2, <3>2, <3>3, PlaceIn
    <3>5. \A j \in 1..Len(s[k]) : u[st[k] + j - 1] = t[st[k] + j - 1]
      BY <1>2, <3>4
    <3>6. \A j \in 1..Len(s[k]) : t[st[k] + j - 1] = s[k][j]
      BY <1>3, <3>1
    <3>7. QED  BY <3>2, <3>5, <3>6
  <2>3. QED  BY <2>1, <2>2
<1>10. ASSUME NEW k \in 1..q, NEW l \in 1..(q + 1), k < l
       PROVE  ut[k] + Len(s[k]) <= ut[l]
  <2>1. CASE l = k + 1
    <3>1. ut[k + 1] = ut[k] + Len(s[k]) /\ ut[k] \in Nat
      BY <1>4, <1>6, <1>9
    <3>2. QED  BY <1>1, <2>1, <3>1
  <2>2. CASE l # k + 1
    <3>1. k \in 1..m /\ k < q
      BY <2>2, <1>10
    <3>2. CASE l \in 1..q
      <4>1. st[k] + Len(s[k]) <= st[l]
        BY <1>a, <1>10, <3>1, <3>2
      <4>2. ut[k] = st[k] /\ ut[l] = st[l]
        BY <1>6, <3>2
      <4>3. QED  BY <4>1, <4>2
    <3>3. CASE l = q + 1
      <4>1. st[k] + Len(s[k]) <= st[q]
        BY <1>a, <1>q, <3>1
      <4>2. ut[k] = st[k] /\ ut[l] = st[q] + Len(x) /\ st[q] \in Nat /\ st[k] \in Nat /\ Len(s[k]) \in Nat
        BY <1>1, <1>4, <1>6, <1>q, <3>1, <3>3
      <4>3. Len(x) \in Nat
        BY <1>2
      <4>4. st[q] <= st[q] + Len(x)
        BY <4>2, <4>3
      <4>5. QED  BY <4>1, <4>2, <4>3, <4>4
    <3>4. QED  BY <3>2, <3>3
  <2>3. QED  BY <2>1, <2>2
<1>11. Lays(ut, u, s, q)
  BY <1>7, <1>8, <1>9, <1>10 DEF Lays
<1>12. QED  BY <1>11 DEF u, x

\* Sequences in their concatenation: where each begins, and that its elements
\* follow one another there.
LEMMA Flattened ==
  ASSUME NEW S, NEW s, NEW n \in Nat, n # 0, Len(s) = n, \A k \in 1..n : s[k] \in Seq(S)
  PROVE  FlattenSeq(s) \in Seq(S) /\ \E st : Lays(st, FlattenSeq(s), s, n)
<1>1. PICK g : Joins(g, s, n) /\ FlattenSeq(s) = g[n]
  BY FlattenIs
<1>2. \A i \in 1..n : g[i] = IF i = 1 THEN s[i] ELSE g[i - 1] \o s[i]
  <2> DEFINE E(i) == IF i = 1 THEN s[i] ELSE g[i - 1] \o s[i]
  <2>1. g = [i \in 1..n |-> E(i)]
    BY <1>1 DEF Joins
  <2> HIDE DEF E
  <2>2. \A i \in 1..n : g[i] = E(i)
    BY <2>1
  <2>3. QED  BY <2>2 DEF E
<1> DEFINE Laid(m) == g[m] \in Seq(S) /\ \E st : Lays(st, g[m], s, m)
           Good == {m \in Nat : m \in 1..n => Laid(m)}
<1>3. 0 \in Good
  OBVIOUS
<1>4. ASSUME NEW m \in Nat, m \in Good PROVE m + 1 \in Good
  <2> SUFFICES ASSUME m + 1 \in 1..n PROVE Laid(m + 1)
    OBVIOUS
  <2>1. CASE m = 0
    <3>1. Lays([k \in 1..1 |-> 1], <<>>, s, 0) /\ <<>> \in Seq(S)
      BY DEF Lays
    <3>2. \E st : Lays(st, <<>> \o s[0 + 1], s, 0 + 1)
      <4>1. \A k \in 1..(0 + 1) : s[k] \in Seq(S)
        BY <2>1
      <4>2. 0 \in Nat
        OBVIOUS
      <4> HIDE DEF Laid
      <4>3. QED  BY <3>1, <4>1, <4>2, LaysMore
    <3>3. g[m + 1] = s[m + 1] /\ s[m + 1] \in Seq(S) /\ <<>> \o s[m + 1] = s[m + 1] /\ m + 1 = 0 + 1
      BY <1>2, <2>1
    <3>4. QED  BY <3>2, <3>3
  <2>2. CASE m # 0
    <3>1. m \in 1..n /\ (m + 1) - 1 = m /\ m + 1 # 1
      BY <2>2
    <3>2. g[m] \in Seq(S) /\ \E st : Lays(st, g[m], s, m)
      BY <1>4, <3>1
    <3>3. \A k \in 1..(m + 1) : s[k] \in Seq(S)
      OBVIOUS
    <3>4. g[m + 1] = g[m] \o s[m + 1]
      BY <1>2, <3>1
    <3>5. \E st : Lays(st, g[m] \o s[m + 1], s, m + 1)
      BY <3>2, <3>3, LaysMore
    <3>6. g[m + 1] \in Seq(S)
      BY <3>2, <3>3, <3>4
    <3>7. QED  BY <3>4, <3>5, <3>6
  <2>3. QED  BY <2>1, <2>2
<1> HIDE DEF Good, Laid
<1>5. n \in Good
  BY <1>3, <1>4, NatSetInduction
<1>6. Laid(n)
  BY <1>5 DEF Good
<1>7. QED  BY <1>1, <1>6 DEF Laid

-----------------------------------------------------------------------------
(* The text of a file and its lines.                                       *)

Typed == lines \in Seq(Lines) /\ ends \in BOOLEAN

N == Len(lines)
Ended == [k \in DOMAIN lines |-> Append(lines[k], NL)]

\* Where each line begins, and where it ends: at its newline, or at the end of
\* the file.
Starts == CHOOSE st : Lays(st, FlattenSeq(Ended), Ended, N)
EndOf(k) == Starts[k] + Len(lines[k])

Lexemes == Lexeme \cup {NL}

\* A line is made of lexemes, none of which is a newline.
LEMMA LineTyped ==
  ASSUME Typed, NEW k \in 1..N
  PROVE  /\ lines[k] \in Lines /\ IsLine(lines[k]) /\ lines[k] \in Seq(Lexeme)
         /\ Len(lines[k]) \in Nat /\ DOMAIN lines[k] = 1..Len(lines[k])
         /\ \A j \in 1..Len(lines[k]) : lines[k][j] \in Lexeme /\ lines[k][j].sort \in AnyButNL
<1>1. lines[k] \in Lines
  BY DEF Typed, N
<1>2. IsLine(lines[k])
  BY <1>1, SettingsAssumption
<1>3. lines[k] \in Seq(Lexeme)
  BY <1>2 DEF IsLine
<1>4. \A x \in Lexeme : x.sort \in AnyButNL
  BY DEF Lexeme, AnyButNL
<1>5. QED  BY <1>1, <1>2, <1>3, <1>4

\* A line with its newline.
LEMMA EndedTyped ==
  ASSUME Typed
  PROVE  /\ N \in Nat /\ DOMAIN lines = 1..N /\ Len(Ended) = N
         /\ \A k \in 1..N : /\ Ended[k] \in Seq(Lexemes) /\ Len(Ended[k]) = Len(lines[k]) + 1
                            /\ \A j \in 1..Len(lines[k]) : Ended[k][j] = lines[k][j]
                            /\ Ended[k][Len(lines[k]) + 1] = NL
<1>1. N \in Nat /\ DOMAIN lines = 1..N
  BY DEF Typed, N
<1>2. Ended = [k \in 1..N |-> Append(lines[k], NL)]
  BY <1>1 DEF Ended
<1>3. Len(Ended) = N
  <2> DEFINE X == {Append(lines[k], NL) : k \in 1..N}
  <2>1. Ended \in [1..N -> X]
    BY <1>2
  <2> HIDE DEF X
  <2>2. Ended \in Seq(X)
    BY <1>1, <2>1, IsASeq
  <2>3. QED  BY <1>1, <2>1, <2>2, LenProperties
<1>4. ASSUME NEW k \in 1..N
      PROVE  /\ Ended[k] \in Seq(Lexemes) /\ Len(Ended[k]) = Len(lines[k]) + 1
             /\ \A j \in 1..Len(lines[k]) : Ended[k][j] = lines[k][j]
             /\ Ended[k][Len(lines[k]) + 1] = NL
  <2>1. Ended[k] = Append(lines[k], NL) /\ lines[k] \in Seq(Lexemes) /\ NL \in Lexemes
    BY <1>2, LineTyped DEF Lexemes
  <2> DEFINE l == lines[k]
             c == NL
  <2>2. l \in Seq(Lexemes) /\ c \in Lexemes
    BY <2>1
  <2> HIDE DEF l, c
  <2>3. /\ Append(l, c) \in Seq(Lexemes) /\ Len(Append(l, c)) = Len(l) + 1
        /\ \A j \in 1..Len(l) : Append(l, c)[j] = l[j]
        /\ Append(l, c)[Len(l) + 1] = c
    BY <2>2
  <2>4. QED  BY <2>1, <2>3 DEF l, c
<1>5. QED  BY <1>1, <1>3, <1>4

\* The places are there.
LEMMA StartsLay ==
  ASSUME Typed
  PROVE  Lays(Starts, FlattenSeq(Ended), Ended, N) /\ FlattenSeq(Ended) \in Seq(Lexemes)
<1>1. \E st : Lays(st, FlattenSeq(Ended), Ended, N) /\ FlattenSeq(Ended) \in Seq(Lexemes)
  <2>1. CASE N = 0
    <3>1. Ended = <<>>
      <4>1. DOMAIN Ended = {} /\ Ended = [k \in DOMAIN Ended |-> Ended[k]]
        BY <2>1, EndedTyped DEF Ended
      <4>2. QED  BY <4>1
    <3>2. FlattenSeq(Ended) = <<>>
      BY <3>1 DEF FlattenSeq
    <3>3. Lays([k \in 1..1 |-> 1], <<>>, Ended, 0)
      BY DEF Lays
    <3>4. QED  BY <2>1, <3>2, <3>3
  <2>2. CASE N # 0
    BY <2>2, EndedTyped, Flattened
  <2>3. QED  BY <2>1, <2>2
<1>2. QED  BY <1>1 DEF Starts

\* Where the lines are in the file.
LEMMA TextIs ==
  ASSUME Typed
  PROVE  /\ N \in Nat /\ File \in Seq(Lexemes) /\ Len(File) \in Nat
         /\ \A k \in 1..N : /\ Starts[k] \in Nat /\ Starts[k] >= 1 /\ EndOf(k) \in Nat
                            /\ Starts[k] <= EndOf(k) /\ EndOf(k) <= Len(File) + 1
         /\ N # 0 => Starts[1] = 1 /\ Len(File) <= EndOf(N)
         /\ \A k \in 1..N : k + 1 \in 1..N => Starts[k + 1] = EndOf(k) + 1
         /\ \A k, l \in 1..N : k < l => EndOf(k) < Starts[l]
         /\ \A k \in 1..N : \A j \in 1..Len(lines[k]) :
              Starts[k] + j - 1 \in 1..Len(File) /\ File[Starts[k] + j - 1] = lines[k][j]
         /\ \A k \in 1..N : EndOf(k) <= Len(File) => File[EndOf(k)] = NL
         /\ N = 0 => Len(File) = 0
<1> DEFINE t == FlattenSeq(Ended)
<1>1. /\ t \in Seq(Lexemes) /\ Len(t) \in Nat
      /\ Starts \in [1..(N + 1) -> 1..(Len(t) + 1)] /\ Starts[1] = 1 /\ Len(t) = Starts[N + 1] - 1
      /\ \A k \in 1..N : /\ Starts[k + 1] = Starts[k] + Len(Ended[k])
                         /\ \A j \in 1..Len(Ended[k]) : t[Starts[k] + j - 1] = Ended[k][j]
      /\ \A k \in 1..N, l \in 1..(N + 1) : k < l => Starts[k] + Len(Ended[k]) <= Starts[l]
  BY StartsLay DEF Lays
<1>2. N \in Nat /\ \A k \in 1..N : Len(Ended[k]) = Len(lines[k]) + 1 /\ Len(lines[k]) \in Nat
  BY EndedTyped, LineTyped
<1>3. File = IF ends \/ t = <<>> THEN t ELSE Front(t)
  BY DEF File, Ended
<1> HIDE DEF t
<1>4. \A k \in 1..(N + 1) : Starts[k] \in Nat /\ Starts[k] >= 1
  BY <1>1, <1>2
<1>5. /\ File \in Seq(Lexemes) /\ Len(File) \in Nat
      /\ \A p \in 1..Len(File) : File[p] = t[p]
      /\ Len(File) = Len(t) \/ (N # 0 /\ Len(File) = Len(t) - 1)
  <2>1. CASE ends \/ t = <<>>
    BY <1>1, <1>3, <2>1
  <2>2. CASE ~(ends \/ t = <<>>)
    <3>1. File = SubSeq(t, 1, Len(t) - 1) /\ Len(t) >= 1
      BY <1>1, <1>3, <2>2 DEF Front
    <3>2. N # 0
      <4>1. SUFFICES ASSUME N = 0 PROVE FALSE
        OBVIOUS
      <4>2. Len(t) = 0
        BY <1>1, <4>1
      <4>3. QED  BY <1>1, <2>2, <4>2
    <3>3. QED  BY <1>1, <3>1, <3>2
  <2>3. QED  BY <2>1, <2>2
<1>6. \A k \in 1..N : EndOf(k) = Starts[k] + Len(lines[k]) /\ EndOf(k) \in Nat
                      /\ Starts[k + 1] = EndOf(k) + 1 /\ Starts[k] <= EndOf(k)
  <2> SUFFICES ASSUME NEW k \in 1..N
               PROVE  /\ EndOf(k) = Starts[k] + Len(lines[k]) /\ EndOf(k) \in Nat
                      /\ Starts[k + 1] = EndOf(k) + 1 /\ Starts[k] <= EndOf(k)
    OBVIOUS
  <2>1. EndOf(k) = Starts[k] + Len(lines[k])
    BY DEF EndOf
  <2>2. Starts[k] \in Nat /\ Len(lines[k]) \in Nat
    BY <1>2, <1>4
  <2>3. Starts[k + 1] = Starts[k] + Len(Ended[k]) /\ Len(Ended[k]) = Len(lines[k]) + 1
    BY <1>1, <1>2
  <2>4. QED  BY <2>1, <2>2, <2>3
<1>7. \A k, l \in 1..N : k < l => EndOf(k) < Starts[l]
  <2> SUFFICES ASSUME NEW k \in 1..N, NEW l \in 1..N, k < l PROVE EndOf(k) < Starts[l]
    OBVIOUS
  <2>1. l \in 1..(N + 1) /\ Starts[l] \in Nat
    BY <1>2, <1>4
  <2>2. Starts[k] + (Len(lines[k]) + 1) <= Starts[l]
    <3>1. Starts[k] + Len(Ended[k]) <= Starts[l]
      BY <1>1, <2>1
    <3>2. Len(Ended[k]) = Len(lines[k]) + 1
      BY <1>2
    <3>3. QED  BY <3>1, <3>2
  <2>3. Starts[k] \in Nat /\ Len(lines[k]) \in Nat
    BY <1>2, <1>4
  <2>4. EndOf(k) = Starts[k] + Len(lines[k])
    BY <1>6
  <2>5. QED  BY <2>1, <2>2, <2>3, <2>4
<1>8. \A k \in 1..N : EndOf(k) <= Len(t)
  <2> SUFFICES ASSUME NEW k \in 1..N PROVE EndOf(k) <= Len(t)
    OBVIOUS
  <2>1. k + 1 \in 1..(N + 1)
    BY <1>2
  <2>2. Starts[k + 1] <= Len(t) + 1 /\ Starts[k + 1] = EndOf(k) + 1 /\ EndOf(k) \in Nat
    BY <1>1, <1>6, <2>1
  <2>3. QED  BY <1>1, <2>2
<1>9. N # 0 => Len(t) = EndOf(N)
  <2> SUFFICES ASSUME N # 0 PROVE Len(t) = EndOf(N)
    OBVIOUS
  <2>1. N \in 1..N
    BY <1>2
  <2>2. Starts[N + 1] = EndOf(N) + 1 /\ EndOf(N) \in Nat
    BY <1>6, <2>1
  <2>3. QED  BY <1>1, <2>2
<1>10. \A k \in 1..N : EndOf(k) <= Len(File) + 1
  BY <1>1, <1>5, <1>6, <1>8
<1>11. ASSUME NEW k \in 1..N, NEW j \in 1..Len(lines[k])
       PROVE  Starts[k] + j - 1 \in 1..Len(File) /\ File[Starts[k] + j - 1] = lines[k][j]
  <2>1. Len(lines[k]) \in Nat /\ Starts[k] \in Nat /\ Starts[k] >= 1
    BY <1>2, <1>4
  <2>2. Starts[k] + j - 1 \in 1..Len(File)
    <3>1. Starts[k] + Len(lines[k]) <= Len(File) + 1 /\ Len(File) \in Nat
      BY <1>5, <1>6, <1>10
    <3>2. QED  BY <2>1, <3>1, PlaceIn
  <2>3. t[Starts[k] + j - 1] = Ended[k][j]
    <3>1. j \in 1..Len(Ended[k])
      BY <1>2, <2>1
    <3>2. QED  BY <1>1, <3>1
  <2>4. Ended[k][j] = lines[k][j]
    BY EndedTyped
  <2>5. QED  BY <1>5, <2>2, <2>3, <2>4
<1>12. ASSUME NEW k \in 1..N, EndOf(k) <= Len(File)
       PROVE  File[EndOf(k)] = NL
  <2>1. Len(lines[k]) \in Nat /\ Starts[k] \in Nat /\ Starts[k] >= 1
    BY <1>2, <1>4
  <2>2. Len(lines[k]) + 1 \in 1..Len(Ended[k]) /\ Ended[k][Len(lines[k]) + 1] = NL
    BY <1>2, <2>1, EndedTyped
  <2>3. Starts[k] + (Len(lines[k]) + 1) - 1 = EndOf(k)
    BY <1>6, <2>1
  <2>4. t[EndOf(k)] = NL
    BY <1>1, <2>2, <2>3
  <2>5. EndOf(k) \in 1..Len(File)
    BY <1>5, <1>6, <1>12, <2>1
  <2>6. QED  BY <1>5, <2>4, <2>5
<1>13. N # 0 => Starts[1] = 1 /\ Len(File) <= EndOf(N)
  BY <1>1, <1>5, <1>9
<1>14. N = 0 => Len(File) = 0
  BY <1>1, <1>5
<1>15. \A k \in 1..N : Starts[k] \in Nat /\ Starts[k] >= 1
  BY <1>2, <1>4
<1>16. \A k \in 1..N : k + 1 \in 1..N => Starts[k + 1] = EndOf(k) + 1
  BY <1>6
<1>17. QED
  BY <1>2, <1>5, <1>6, <1>7, <1>10, <1>11, <1>12, <1>13, <1>14, <1>15, <1>16

\* The lines begin in their order.
LEMMA StartsInOrder ==
  ASSUME Typed, NEW k \in 1..N, NEW l \in 1..N
  PROVE  /\ Starts[k] < Starts[l] <=> k < l
         /\ Starts[k] = Starts[l] <=> k = l
<1>1. /\ N \in Nat /\ \A j \in 1..N : Starts[j] \in Nat /\ EndOf(j) \in Nat /\ Starts[j] <= EndOf(j)
      /\ \A i, j \in 1..N : i < j => EndOf(i) < Starts[j]
  BY TextIs
<1>2. k < l => Starts[k] < Starts[l]
  BY <1>1
<1>3. l < k => Starts[l] < Starts[k]
  BY <1>1
<1>4. Starts[k] \in Nat /\ Starts[l] \in Nat
  BY <1>1
<1>5. QED  BY <1>2, <1>3, <1>4

\* Every place of the file is in a line, or at its end.
LEMMA InSomeLine ==
  ASSUME Typed, NEW p \in 1..Len(File)
  PROVE  \E k \in 1..N : Starts[k] <= p /\ p <= EndOf(k)
<1>1. /\ N \in Nat /\ Len(File) \in Nat
      /\ \A j \in 1..N : Starts[j] \in Nat /\ EndOf(j) \in Nat
      /\ N # 0 => Starts[1] = 1 /\ Len(File) <= EndOf(N)
      /\ \A j \in 1..N : j + 1 \in 1..N => Starts[j + 1] = EndOf(j) + 1
      /\ N = 0 => Len(File) = 0
  BY TextIs
<1> DEFINE T == {k \in 1..N : p <= EndOf(k)}
<1>2. N \in 1..N /\ p <= EndOf(N)
  BY <1>1
<1>3. T \in SUBSET Nat /\ T # {}
  <2>1. \A k \in T : k \in Nat
    BY <1>1
  <2>2. N \in T
    BY <1>2
  <2> HIDE DEF T
  <2>3. QED  BY <2>1, <2>2
<1>4. PICK k \in T : \A l \in T : k <= l
  <2> HIDE DEF T
  <2>1. QED  BY <1>3, LeastOf
<1>5. CASE k = 1
  BY <1>1, <1>4, <1>5
<1>6. CASE k # 1
  <2>1. k - 1 \in 1..N /\ (k - 1) + 1 = k /\ k \in 1..N
    BY <1>1, <1>4, <1>6
  <2>2. ~(p <= EndOf(k - 1))
    BY <1>4, <2>1
  <2>3. Starts[k] = EndOf(k - 1) + 1 /\ EndOf(k - 1) \in Nat
    BY <1>1, <2>1
  <2>4. QED  BY <1>4, <2>1, <2>2, <2>3
<1>7. QED  BY <1>5, <1>6

\* After stops at the first place that is none of the sorts.
LEMMA AfterIs ==
  ASSUME Typed, NEW p \in 1..(Len(File) + 1), NEW sorts
  PROVE  /\ After(p, sorts) \in p..(Len(File) + 1)
         /\ After(p, sorts) <= Len(File) => Sort(After(p, sorts)) \notin sorts
         /\ \A r \in p..(After(p, sorts) - 1) : Sort(r) \in sorts
<1> DEFINE Stop(q) == /\ q <= Len(File) => Sort(q) \notin sorts
                      /\ \A r \in p..(q - 1) : Sort(r) \in sorts
           T == {q \in p..(Len(File) + 1) : q <= Len(File) => Sort(q) \notin sorts}
<1>1. Len(File) \in Nat
  BY TextIs
<1>2. T \in SUBSET Nat /\ T # {}
  <2>1. Len(File) + 1 \in T
    BY <1>1
  <2>2. \A q \in p..(Len(File) + 1) : q \in Nat
    BY <1>1
  <2>3. QED  BY <2>1, <2>2
<1>3. PICK q \in T : \A r \in T : q <= r
  <2> HIDE DEF T
  <2>1. QED  BY <1>2, LeastOf
<1>4. \A r \in p..(q - 1) : Sort(r) \in sorts
  <2> SUFFICES ASSUME NEW r \in p..(q - 1), Sort(r) \notin sorts PROVE FALSE
    OBVIOUS
  <2>1. q \in p..(Len(File) + 1)
    OBVIOUS
  <2>2. r \in p..(Len(File) + 1) /\ r < q
    BY <1>1, <2>1
  <2>3. r \in T
    BY <2>2
  <2>4. QED  BY <1>1, <1>3, <2>1, <2>2, <2>3
<1>5. q \in p..(Len(File) + 1) /\ Stop(q)
  BY <1>4
<1>6. \E s \in p..(Len(File) + 1) : Stop(s)
  BY <1>5
<1>7. After(p, sorts) = CHOOSE s \in p..(Len(File) + 1) : Stop(s)
  BY DEF After
<1> HIDE DEF Stop
<1>8. After(p, sorts) \in p..(Len(File) + 1) /\ Stop(After(p, sorts))
  BY <1>6, <1>7
<1>9. QED  BY <1>8 DEF Stop

\* What the lines have in their places.
LEMMA InLine ==
  ASSUME Typed, NEW k \in 1..N
  PROVE  /\ \A j \in 1..Len(lines[k]) : /\ Starts[k] + j - 1 \in 1..Len(File)
                                        /\ Sort(Starts[k] + j - 1) = lines[k][j].sort
                                        /\ lines[k][j].sort # "nl"
         /\ EndOf(k) <= Len(File) => Sort(EndOf(k)) = "nl"
<1>1. EndOf(k) <= Len(File) => Sort(EndOf(k)) = "nl"
  BY TextIs DEF Sort, NL
<1>2. ASSUME NEW j \in 1..Len(lines[k])
      PROVE  /\ Starts[k] + j - 1 \in 1..Len(File)
             /\ Sort(Starts[k] + j - 1) = lines[k][j].sort
             /\ lines[k][j].sort # "nl"
  BY TextIs, LineTyped DEF Sort, AnyButNL
<1>3. QED  BY <1>1, <1>2

\* The place where a line begins, or the end of the file.
LineStart(p) == p = Len(File) + 1 \/ \E k \in 1..N : p = Starts[k]

\* server_skipline goes to where a line begins, and over no such place.
LEMMA SkipIs ==
  ASSUME Typed, NEW v \in 1..(Len(File) + 1), server_skipline(v)
  PROVE  /\ pos' \in v..(Len(File) + 1) /\ LineStart(pos')
         /\ v <= Len(File) => pos' > v
         /\ eof' \in BOOLEAN /\ (eof' => pos' = Len(File) + 1)
         /\ \A n \in 1..N : Starts[n] > v => pos' <= Starts[n]
<1> DEFINE q == After(v, AnyButNL)
<1>1. /\ q \in v..(Len(File) + 1) /\ (q <= Len(File) => Sort(q) \notin AnyButNL)
      /\ \A r \in v..(q - 1) : Sort(r) \in AnyButNL
  BY AfterIs
<1>2. pos' = (IF q > Len(File) THEN q ELSE q + 1) /\ eof' \in BOOLEAN
      /\ (eof' <=> q > Len(File))
  <2>1. pos' = IF q > Len(File) THEN q ELSE q + 1
    BY DEF server_skipline, SkipLine
  <2>2. eof' = (q > Len(File))
    BY DEF server_skipline
  <2>3. eof' \in BOOLEAN /\ (eof' <=> q > Len(File))
    <3>1. (q > Len(File)) \in BOOLEAN
      BY <1>1, TextIs
    <3>2. QED  BY <2>2, <3>1
  <2>4. QED  BY <2>1, <2>3
<1> HIDE DEF q
<1>3. Len(File) \in Nat /\ N \in Nat
  BY TextIs
<1>4. pos' \in v..(Len(File) + 1) /\ (v <= Len(File) => pos' > v)
  BY <1>1, <1>2, <1>3
<1>5. eof' \in BOOLEAN /\ (eof' => pos' = Len(File) + 1)
  <2>1. q > Len(File) => pos' = Len(File) + 1
    BY <1>1, <1>2, <1>3
  <2>2. QED  BY <1>2, <2>1
<1>6. LineStart(pos')
  <2>1. CASE q > Len(File)
    BY <1>1, <1>2, <1>3, <2>1 DEF LineStart
  <2>2. CASE ~(q > Len(File))
    <3>1. q \in 1..Len(File) /\ pos' = q + 1
      BY <1>1, <1>2, <1>3, <2>2
    <3>2. PICK k \in 1..N : Starts[k] <= q /\ q <= EndOf(k)
      BY <3>1, InSomeLine
    <3>3. Starts[k] \in Nat /\ EndOf(k) = Starts[k] + Len(lines[k]) /\ Len(lines[k]) \in Nat
      BY TextIs, LineTyped DEF EndOf
    <3>4. q = EndOf(k)
      <4> SUFFICES ASSUME q # EndOf(k) PROVE FALSE
        OBVIOUS
      <4>1. q - Starts[k] + 1 \in 1..Len(lines[k]) /\ Starts[k] + (q - Starts[k] + 1) - 1 = q
        <5>1. q \in Nat /\ q < Starts[k] + Len(lines[k])
          BY <3>1, <3>2, <3>3
        <5>2. QED  BY <3>2, <3>3, <5>1, PlaceOf
      <4>2. Sort(q) = lines[k][q - Starts[k] + 1].sort
        BY <4>1, InLine
      <4>3. Sort(q) \in AnyButNL
        BY <4>1, <4>2, LineTyped
      <4>4. QED  BY <1>1, <3>1, <4>3
    <3>5. CASE k = N
      <4>1. Len(File) <= EndOf(N)
        BY <1>3, <3>5, TextIs
      <4>2. QED  BY <1>3, <3>1, <3>4, <3>5, <4>1 DEF LineStart
    <3>6. CASE k # N
      <4>1. k + 1 \in 1..N
        BY <1>3, <3>6
      <4>2. Starts[k + 1] = q + 1
        BY <3>4, <4>1, TextIs
      <4>3. QED  BY <3>1, <4>1, <4>2 DEF LineStart
    <3>7. QED  BY <3>5, <3>6
  <2>3. QED  BY <2>1, <2>2
<1>7. ASSUME NEW n \in 1..N, Starts[n] > v
      PROVE  pos' <= Starts[n]
  <2>1. n # 1
    BY <1>3, <1>7, TextIs
  <2>2. n - 1 \in 1..N /\ (n - 1) + 1 \in 1..N /\ (n - 1) + 1 = n
    BY <1>3, <2>1
  <2>3. /\ Starts[n] = EndOf(n - 1) + 1 /\ EndOf(n - 1) \in Nat
        /\ Starts[n] <= EndOf(n) /\ EndOf(n) <= Len(File) + 1 /\ EndOf(n) \in Nat /\ Starts[n] \in Nat
    BY <2>2, TextIs
  <2>4. EndOf(n - 1) <= Len(File) /\ v <= EndOf(n - 1)
    BY <1>3, <1>7, <2>3
  <2>5. Sort(EndOf(n - 1)) = "nl"
    BY <2>2, <2>4, InLine
  <2>6. q <= EndOf(n - 1)
    <3> SUFFICES ASSUME ~(q <= EndOf(n - 1)) PROVE FALSE
      OBVIOUS
    <3>1. EndOf(n - 1) \in v..(q - 1)
      BY <1>1, <1>3, <2>3, <2>4
    <3>2. QED  BY <1>1, <2>5, <3>1 DEF AnyButNL
  <2>7. QED  BY <1>1, <1>2, <1>3, <2>3, <2>4, <2>6
<1>8. QED  BY <1>4, <1>5, <1>6, <1>7


-----------------------------------------------------------------------------
(* The inductive invariant.                                                *)

Keys == NumberKeys \cup NameKeys
Blank(key) == IF key \in NumberKeys THEN 0 ELSE <<>>

\* The hypotheses and the conclusion of LinesCount.
Counts(n) ==
  /\ Follows(lines[n])
  /\ \A m \in DOMAIN lines \ {n} : ~Names(lines[m], lines[n][1].key)
  /\ \A m \in 1..(n - 1) :
       Unfinished(lines[m]) =>
         \E o \in (m + 1)..(n - 1) : lines[o] # <<>> /\ ~Unfinished(lines[o])
Given(n) ==
  LET key == lines[n][1].key IN
    IF key \in NumberKeys THEN Stored(key, lines[n][3].num) ELSE lines[n][3].chars

Shapes ==
  /\ DOMAIN setts = Keys
  /\ \A k \in NumberKeys : setts[k] \in Nat
  /\ setts["NWORKERS"] \in 0..(2^16 - 1) /\ setts["CAPACITY"] \in 0..(2^12 - 1)
  /\ \A k \in NameKeys : setts[k] \in Seq(Nat) /\ Len(setts[k]) <= MaxName
Control ==
  /\ at \in {"read", "init", "running", "exit"} /\ eof \in BOOLEAN
  /\ at = "running" => infos.maxlen <= MaxArray
  /\ at \in {"init", "running"} => eof

\* The reading is always at the beginning of a line, or at the end.
AtLine ==
  /\ pos \in 1..(Len(File) + 1) /\ LineStart(pos)
  /\ eof => pos = Len(File) + 1

\* What no line so far names is as it was at first.
Unset ==
  \A key \in Keys :
    (\A m \in 1..N : Names(lines[m], key) => pos <= Starts[m]) => setts[key] = Blank(key)

\* A line that counts and has been read has its value in the settings.
Counted ==
  \A n \in 1..N : Counts(n) /\ Starts[n] < pos => setts[lines[n][1].key] = Given(n)

SInv == Typed /\ Shapes /\ Control /\ AtLine /\ Unset /\ Counted

\* The text does not change.
LEMMA SameText ==
  ASSUME UNCHANGED <<lines, ends>>
  PROVE  /\ File' = File /\ N' = N /\ Starts' = Starts /\ Typed' = Typed
         /\ \A n \in 1..N : Counts(n)' = Counts(n) /\ Given(n)' = Given(n)
<1>1. lines' = lines /\ ends' = ends
  OBVIOUS
<1>2. File' = File
  BY <1>1 DEF File
<1>3. N' = N /\ Ended' = Ended
  BY <1>1 DEF N, Ended
<1>4. Starts' = Starts
  BY <1>3 DEF Starts
<1>5. Typed' = Typed
  BY <1>1 DEF Typed
<1>6. ASSUME NEW n \in 1..N PROVE Counts(n)' = Counts(n) /\ Given(n)' = Given(n)
  BY <1>1 DEF Counts, Given
<1>7. QED  BY <1>2, <1>3, <1>4, <1>5, <1>6

\* A line that counts begins with a word.
LEMMA CountsWord ==
  ASSUME Typed, NEW n \in 1..N, Counts(n)
  PROVE  /\ Len(lines[n]) >= 3 /\ lines[n][1].key \in Keys /\ lines[n][1].sort = "word"
         /\ lines[n][2].sort = "sep" /\ lines[n][3].sort \in {"number", "word"}
         /\ Starts[n] \in 1..Len(File) /\ Sort(Starts[n]) = "word"
<1>1. /\ Len(lines[n]) >= 3 /\ lines[n][2].sort = "sep" /\ lines[n][1].key \in Keys
      /\ lines[n][3].sort \in {"number", "word"}
  BY DEF Counts, Follows, Keys
<1>2. 1 \in DOMAIN lines[n] /\ 1 \in 1..Len(lines[n])
  BY <1>1, LineTyped
<1>3. lines[n][1].key # "none"
  BY <1>1 DEF Keys, NumberKeys, NameKeys
<1>4. lines[n][1].sort = "word"
  BY <1>2, <1>3, LineTyped DEF IsLine
<1>5. Starts[n] + 1 - 1 \in 1..Len(File) /\ Sort(Starts[n] + 1 - 1) = "word"
  BY <1>2, <1>4, InLine
<1>6. Starts[n] + 1 - 1 = Starts[n]
  BY TextIs
<1>7. QED  BY <1>1, <1>4, <1>5, <1>6

\* The settings stay, and no line that counts is passed over.
LEMMA PassedOver ==
  ASSUME SInv, UNCHANGED <<lines, ends, setts>>, pos' \in pos..(Len(File) + 1),
         \A n \in 1..N : Counts(n) => ~(pos <= Starts[n] /\ Starts[n] < pos')
  PROVE  Unset' /\ Counted'
<1>1. /\ N' = N /\ Starts' = Starts /\ lines' = lines /\ setts' = setts
      /\ \A n \in 1..N : Counts(n)' = Counts(n) /\ Given(n)' = Given(n)
  BY SameText
<1>2. Len(File) \in Nat /\ pos \in Nat /\ pos' \in Nat /\ pos <= pos'
      /\ \A n \in 1..N : Starts[n] \in Nat
  BY TextIs DEF SInv, AtLine
<1>3. Unset'
  <2> SUFFICES ASSUME NEW key \in Keys, \A m \in 1..N : Names(lines[m], key) => pos' <= Starts[m]
               PROVE  setts[key] = Blank(key)
    BY <1>1 DEF Unset, Names
  <2>1. \A m \in 1..N : Names(lines[m], key) => pos <= Starts[m]
    BY <1>2
  <2>2. QED  BY <2>1 DEF SInv, Unset
<1>4. Counted'
  <2> SUFFICES ASSUME NEW n \in 1..N, Counts(n), Starts[n] < pos'
               PROVE  setts[lines[n][1].key] = Given(n)
    BY <1>1 DEF Counted
  <2>1. Starts[n] < pos
    BY <1>2
  <2>2. QED  BY <2>1 DEF SInv, Counted
<1>5. QED  BY <1>3, <1>4

\* The settings and the control stay.
LEMMA SameSettings ==
  ASSUME Typed, Shapes, UNCHANGED <<lines, ends, setts>>
  PROVE  Typed' /\ Shapes'
<1>1. Typed'
  BY SameText
<1>2. Shapes'
  BY DEF Shapes
<1>3. QED  BY <1>1, <1>2

\* The line at a place that has not been read.
LEMMA LineAt ==
  ASSUME SInv, pos <= Len(File)
  PROVE  \E k \in 1..N :
           /\ pos = Starts[k] /\ \A n \in 1..N : Starts[n] = pos => n = k
           /\ Sort(pos) # "nl" =>
                1 \in 1..Len(lines[k]) /\ File[pos] = lines[k][1] /\ Sort(pos) = lines[k][1].sort
           /\ Sort(pos) = "nl" => Len(lines[k]) = 0
<1>1. LineStart(pos) /\ pos \in 1..Len(File) /\ Typed
  BY TextIs DEF SInv, AtLine
<1>2. PICK k \in 1..N : pos = Starts[k]
  BY <1>1 DEF LineStart
<1>3. \A n \in 1..N : Starts[n] = pos => n = k
  BY <1>1, <1>2, StartsInOrder
<1>4. Len(lines[k]) \in Nat /\ Starts[k] \in Nat
  BY <1>1, LineTyped, TextIs
<1>5. CASE Len(lines[k]) = 0
  <2>1. EndOf(k) = pos
    BY <1>2, <1>4, <1>5 DEF EndOf
  <2>2. Sort(pos) = "nl"
    BY <1>1, <2>1, InLine
  <2>3. QED  BY <1>2, <1>3, <1>5, <2>2
<1>6. CASE Len(lines[k]) # 0
  <2>1. 1 \in 1..Len(lines[k])
    BY <1>4, <1>6
  <2>2. Starts[k] + 1 - 1 = pos
    BY <1>2, <1>4
  <2>3. File[Starts[k] + 1 - 1] = lines[k][1]
    BY <1>1, <2>1, TextIs
  <2>4. Sort(Starts[k] + 1 - 1) = lines[k][1].sort /\ lines[k][1].sort # "nl"
    BY <1>1, <2>1, InLine
  <2>5. QED  BY <1>2, <1>3, <2>1, <2>2, <2>3, <2>4
<1>7. QED  BY <1>5, <1>6

\* A comment is passed over with its line.
LEMMA CommentKeeps ==
  ASSUME SInv, Comment
  PROVE  SInv' /\ pos' > pos
<1>1. /\ UNCHANGED <<lines, ends, setts, infos, at>> /\ at = "read" /\ pos <= Len(File)
      /\ Sort(pos) = "hash" /\ server_skipline(pos)
  BY DEF Comment
<1>2. PICK k \in 1..N : /\ pos = Starts[k] /\ \A n \in 1..N : Starts[n] = pos => n = k
                        /\ Sort(pos) = lines[k][1].sort
  BY <1>1, LineAt
<1>3. Typed /\ pos \in 1..(Len(File) + 1) /\ Len(File) \in Nat
      /\ \A n \in 1..N : Starts[n] \in Nat
  BY TextIs DEF SInv, AtLine
<1>4. /\ pos' \in pos..(Len(File) + 1) /\ LineStart(pos') /\ pos' > pos
      /\ eof' \in BOOLEAN /\ (eof' => pos' = Len(File) + 1)
      /\ \A n \in 1..N : Starts[n] > pos => pos' <= Starts[n]
  BY <1>1, <1>3, SkipIs
<1>5. ASSUME NEW n \in 1..N, Counts(n) PROVE ~(pos <= Starts[n] /\ Starts[n] < pos')
  <2>1. Starts[n] # pos
    BY <1>1, <1>2, <1>3, <1>5, CountsWord
  <2>2. QED  BY <1>3, <1>4, <2>1
<1>6. Unset' /\ Counted'
  BY <1>1, <1>4, <1>5, PassedOver
<1>7. AtLine'
  BY <1>1, <1>3, <1>4, SameText DEF AtLine, LineStart
<1>8. Shapes' /\ Control' /\ Typed'
  <2>1. Shapes' /\ Typed'
    BY <1>1, SameSettings DEF SInv
  <2>2. Control'
    BY <1>1, <1>4 DEF SInv, Control
  <2>3. QED  BY <2>1, <2>2
<1>9. QED  BY <1>4, <1>6, <1>7, <1>8 DEF SInv

\* An empty line is passed over.
LEMMA EmptyLineKeeps ==
  ASSUME SInv, EmptyLine
  PROVE  SInv' /\ pos' > pos
<1>1. /\ UNCHANGED <<lines, ends, eof, setts, infos, at>> /\ at = "read" /\ ~eof
      /\ pos <= Len(File) /\ Sort(pos) = "nl" /\ pos' = pos + 1
  BY DEF EmptyLine
<1>2. PICK k \in 1..N : /\ pos = Starts[k] /\ \A n \in 1..N : Starts[n] = pos => n = k
                        /\ Len(lines[k]) = 0
  BY <1>1, LineAt
<1>3. Typed /\ pos \in 1..(Len(File) + 1) /\ Len(File) \in Nat /\ N \in Nat
      /\ \A n \in 1..N : Starts[n] \in Nat
  BY TextIs DEF SInv, AtLine
<1>4. EndOf(k) = pos
  BY <1>2, <1>3 DEF EndOf
<1>5. LineStart(pos + 1)
  <2>1. CASE k = N
    <3>1. Len(File) <= EndOf(N)
      BY <1>3, <2>1, TextIs
    <3>2. QED  BY <1>1, <1>3, <1>4, <2>1, <3>1 DEF LineStart
  <2>2. CASE k # N
    <3>1. k + 1 \in 1..N
      BY <1>3, <2>2
    <3>2. Starts[k + 1] = pos + 1
      BY <1>3, <1>4, <3>1, TextIs
    <3>3. QED  BY <3>1, <3>2 DEF LineStart
  <2>3. QED  BY <2>1, <2>2
<1>6. ASSUME NEW n \in 1..N, Counts(n) PROVE ~(pos <= Starts[n] /\ Starts[n] < pos')
  <2>1. Starts[n] # pos
    BY <1>2, <1>3, <1>6, CountsWord
  <2>2. QED  BY <1>1, <1>3, <2>1
<1>7. Unset' /\ Counted'
  <2>1. pos' \in pos..(Len(File) + 1)
    BY <1>1, <1>3
  <2>2. QED  BY <1>1, <1>6, <2>1, PassedOver
<1>8. AtLine'
  BY <1>1, <1>3, <1>5, SameText DEF AtLine, LineStart
<1>9. Shapes' /\ Control' /\ Typed'
  <2>1. Shapes' /\ Typed'
    BY <1>1, SameSettings DEF SInv
  <2>2. Control'
    BY <1>1 DEF SInv, Control
  <2>3. QED  BY <2>1, <2>2
<1>10. QED  BY <1>1, <1>3, <1>7, <1>8, <1>9 DEF SInv

\* The steps that read nothing.
LEMMA StandingKeeps ==
  ASSUME SInv, LastLine \/ ReadEnd \/ init_server_infos
  PROVE  SInv'
<1>1. UNCHANGED <<lines, ends, pos, setts>>
  BY DEF LastLine, ReadEnd, init_server_infos
<1>2. Typed /\ pos \in 1..(Len(File) + 1) /\ Len(File) \in Nat
  BY TextIs DEF SInv, AtLine
<1>3. Unset' /\ Counted'
  <2>1. pos' \in pos..(Len(File) + 1) /\ pos' = pos /\ pos \in Nat
    BY <1>1, <1>2
  <2>2. \A n \in 1..N : Counts(n) => ~(pos <= Starts[n] /\ Starts[n] < pos')
    BY <1>2, <2>1, TextIs
  <2>3. QED  BY <1>1, <2>1, <2>2, PassedOver
<1>4. eof' \in BOOLEAN /\ (eof' => eof \/ pos > Len(File))
  BY DEF LastLine, ReadEnd, init_server_infos, SInv, Control
<1>5. AtLine'
  BY <1>1, <1>2, <1>4, SameText DEF AtLine, LineStart, SInv
<1>6. Shapes' /\ Typed'
  BY <1>1, SameSettings DEF SInv
<1>7. Control'
  <2>1. CASE LastLine
    BY <2>1 DEF LastLine, SInv, Control
  <2>2. CASE ReadEnd
    BY <2>2 DEF ReadEnd, SInv, Control
  <2>3. CASE init_server_infos
    BY <2>3 DEF init_server_infos, SInv, Control
  <2>4. QED  BY <2>1, <2>2, <2>3
<1>8. QED  BY <1>3, <1>5, <1>6, <1>7 DEF SInv

\* Of the lexemes from a place of a line on, if they are all blanks, there is
\* one at most.
LEMMA BlanksAreOne ==
  ASSUME Typed, NEW k \in 1..N, NEW i \in 1..2,
         \A j \in 1..Len(lines[k]) : i <= j => lines[k][j].sort = "sep"
  PROVE  /\ Len(lines[k]) <= i
         /\ i = 1 => lines[k] = <<>> \/ lines[k] = <<Sep>>
<1>1. /\ lines[k] \in Seq(Lexeme) /\ Len(lines[k]) \in Nat /\ DOMAIN lines[k] = 1..Len(lines[k])
      /\ \A j \in DOMAIN lines[k] : lines[k][j].sort = "sep" =>
           lines[k][j] = Sep /\ (j > 1 => lines[k][j - 1].sort # "sep")
  BY LineTyped DEF IsLine
<1>2. Len(lines[k]) <= i
  <2> SUFFICES ASSUME ~(Len(lines[k]) <= i) PROVE FALSE
    OBVIOUS
  <2>1. /\ i \in 1..Len(lines[k]) /\ i + 1 \in 1..Len(lines[k]) /\ i + 1 > 1 /\ (i + 1) - 1 = i
        /\ i <= i /\ i <= i + 1
    BY <1>1
  <2>2. lines[k][i].sort = "sep" /\ lines[k][i + 1].sort = "sep"
    BY <2>1
  <2>3. lines[k][(i + 1) - 1].sort # "sep"
    BY <1>1, <2>1, <2>2
  <2>4. QED  BY <2>1, <2>2, <2>3
<1>3. ASSUME i = 1 PROVE lines[k] = <<>> \/ lines[k] = <<Sep>>
  <2>1. CASE Len(lines[k]) = 0
    BY <1>1, <2>1
  <2>2. CASE Len(lines[k]) # 0
    <3>1. Len(lines[k]) \in Nat /\ Len(lines[k]) <= 1
      BY <1>1, <1>2, <1>3
    <3>2. \A m \in Nat : m <= 1 /\ m # 0 => m = 1
      OBVIOUS
    <3>3. Len(lines[k]) = 1
      BY <2>2, <3>1, <3>2
    <3>4. lines[k][1] = Sep
      BY <1>1, <1>3, <3>3
    <3>5. lines[k] = <<Sep>>
      BY <1>1, <3>3, <3>4
    <3>6. QED  BY <3>5
  <2>3. QED  BY <2>1, <2>2
<1>4. QED  BY <1>2, <1>3

\* Where the value of a line is looked for.
From(k) == IF lines[k][1].sort = "sep" THEN Starts[k] ELSE Starts[k] + 1

\* When nothing is between a line and a later one where its value is looked
\* for, the line is unfinished, and so is all that is between them.
LEMMA NothingBetween ==
  ASSUME Typed, NEW k \in 1..N, NEW n \in 1..N, k < n, 1 \in 1..Len(lines[k]),
         lines[k][1].sort # "hash",
         \A r \in From(k)..(Starts[n] - 1) : Sort(r) \in {"sep", "nl"}
  PROVE  ~Counts(n)
<1>1. /\ N \in Nat
      /\ \A l \in 1..N : /\ Starts[l] \in Nat /\ EndOf(l) = Starts[l] + Len(lines[l])
                         /\ Len(lines[l]) \in Nat
      /\ \A l, m \in 1..N : l < m => EndOf(l) < Starts[m]
  BY TextIs, LineTyped DEF EndOf
<1>2. From(k) \in Nat /\ From(k) <= Starts[k] + 1
  BY <1>1 DEF From
<1>3. ASSUME NEW l \in 1..N, NEW j \in 1..Len(lines[l]), l < n,
             From(k) <= Starts[l] + j - 1
      PROVE  lines[l][j].sort = "sep"
  <2>1. Sort(Starts[l] + j - 1) = lines[l][j].sort /\ lines[l][j].sort # "nl"
    BY InLine
  <2>2. EndOf(l) < Starts[n]
    BY <1>1, <1>3
  <2>3. Starts[l] + j - 1 \in From(k)..(Starts[n] - 1)
    <3>1. Starts[l] \in Nat /\ Len(lines[l]) \in Nat /\ Starts[l] + Len(lines[l]) < Starts[n]
      BY <1>1, <2>2
    <3>2. Starts[n] \in Nat
      BY <1>1
    <3>3. QED  BY <1>2, <1>3, <3>1, <3>2, PlaceBefore
  <2>4. QED  BY <2>1, <2>3
<1>4. Unfinished(lines[k])
  <2>1. CASE lines[k][1].sort = "sep"
    <3>1. \A j \in 1..Len(lines[k]) : 1 <= j => lines[k][j].sort = "sep"
      <4> SUFFICES ASSUME NEW j \in 1..Len(lines[k]) PROVE lines[k][j].sort = "sep"
        OBVIOUS
      <4>1. From(k) <= Starts[k] + j - 1
        BY <1>1, <2>1 DEF From
      <4>2. QED  BY <1>3, <4>1
    <3>2. lines[k] = <<>> \/ lines[k] = <<Sep>>
      BY <3>1, BlanksAreOne
    <3>3. lines[k] # <<>>
      OBVIOUS
    <3>4. QED  BY <3>2, <3>3 DEF Unfinished
  <2>2. CASE lines[k][1].sort # "sep"
    <3>1. \A j \in 1..Len(lines[k]) : 2 <= j => lines[k][j].sort = "sep"
      <4> SUFFICES ASSUME NEW j \in 1..Len(lines[k]), 2 <= j PROVE lines[k][j].sort = "sep"
        OBVIOUS
      <4>1. From(k) <= Starts[k] + j - 1
        BY <1>1, <2>2 DEF From
      <4>2. QED  BY <1>3, <4>1
    <3>2. Len(lines[k]) <= 2
      BY <3>1, BlanksAreOne
    <3>3. lines[k] # <<>>
      OBVIOUS
    <3>4. QED  BY <2>2, <3>2, <3>3 DEF Unfinished
  <2>3. QED  BY <2>1, <2>2
<1>5. ASSUME NEW o \in (k + 1)..(n - 1) PROVE lines[o] = <<>> \/ Unfinished(lines[o])
  <2>1. o \in 1..N /\ k < o /\ o < n
    BY <1>1
  <2>2. EndOf(k) < Starts[o]
    BY <1>1, <2>1
  <2>3. \A j \in 1..Len(lines[o]) : 1 <= j => lines[o][j].sort = "sep"
    <3> SUFFICES ASSUME NEW j \in 1..Len(lines[o]) PROVE lines[o][j].sort = "sep"
      OBVIOUS
    <3>1. From(k) <= Starts[o] + j - 1
      <4>1. From(k) <= Starts[o] /\ Starts[o] \in Nat
        <5>1. /\ Starts[k] \in Nat /\ Starts[o] \in Nat /\ Len(lines[k]) \in Nat
              /\ Starts[k] + Len(lines[k]) < Starts[o]
          BY <1>1, <2>1, <2>2
        <5>2. QED  BY <1>2, <5>1
      <4>2. QED  BY <1>2, <4>1
    <3>2. QED  BY <1>3, <2>1, <3>1
  <2>4. lines[o] = <<>> \/ lines[o] = <<Sep>>
    BY <2>1, <2>3, BlanksAreOne
  <2>5. QED  BY <2>4 DEF Unfinished
<1>6. k \in 1..(n - 1)
  BY <1>1
<1>7. QED  BY <1>4, <1>5, <1>6 DEF Counts

\* What a step of a setting does, in terms of the line where it begins.
LEMMA SettingLine ==
  ASSUME SInv, Setting
  PROVE  \E k \in 1..N :
           /\ pos = Starts[k] /\ 1 \in 1..Len(lines[k]) /\ lines[k][1].sort # "hash"
           /\ \A n \in 1..N : Starts[n] = pos => n = k
           /\ From(k) \in 1..(Len(File) + 1) /\ From(k) >= pos /\ From(k) <= pos + 1
           /\ (IF IsWord(pos) THEN File[pos].key ELSE "none") = lines[k][1].key
           /\ (IF IsWord(pos) THEN pos + 1 ELSE pos) = From(k)
<1>1. at = "read" /\ ~eof /\ pos <= Len(File) /\ Sort(pos) \notin {"hash", "nl"}
  BY DEF Setting
<1>2. PICK k \in 1..N :
        /\ pos = Starts[k] /\ \A n \in 1..N : Starts[n] = pos => n = k
        /\ 1 \in 1..Len(lines[k]) /\ File[pos] = lines[k][1] /\ Sort(pos) = lines[k][1].sort
  BY <1>1, LineAt
<1>3. Typed /\ pos \in 1..Len(File) /\ Len(File) \in Nat
  BY <1>1, TextIs DEF SInv, AtLine
<1>4. lines[k][1].sort = "sep" => lines[k][1].key = "none"
  BY <1>2, <1>3, LineTyped DEF IsLine, Sep
<1>5. IsWord(pos) <=> lines[k][1].sort # "sep"
  BY <1>1, <1>2, <1>3 DEF IsWord
<1>6. (IF IsWord(pos) THEN File[pos].key ELSE "none") = lines[k][1].key
  BY <1>2, <1>4, <1>5
<1>7. (IF IsWord(pos) THEN pos + 1 ELSE pos) = From(k)
  BY <1>2, <1>5 DEF From
<1>8. From(k) \in 1..(Len(File) + 1) /\ From(k) >= pos /\ From(k) <= pos + 1
  BY <1>2, <1>3 DEF From
<1>9. QED  BY <1>1, <1>2, <1>6, <1>7, <1>8

\* No line that counts is passed over when the rest of a line is skipped, from
\* the value or from past it.
LEMMA NoneSwallowed ==
  ASSUME Typed, NEW k \in 1..N, 1 \in 1..Len(lines[k]), lines[k][1].sort # "hash",
         From(k) \in 1..(Len(File) + 1), From(k) <= Starts[k] + 1,
         NEW w \in 1..(Len(File) + 1), server_skipline(w),
         LET value == After(From(k), {"sep", "nl"}) IN w \in {value, value + 1},
         NEW n \in 1..N, k < n, Starts[n] < pos'
  PROVE  ~Counts(n)
<1> DEFINE value == After(From(k), {"sep", "nl"})
<1>1. /\ value \in From(k)..(Len(File) + 1)
      /\ (value <= Len(File) => Sort(value) \notin {"sep", "nl"})
      /\ \A r \in From(k)..(value - 1) : Sort(r) \in {"sep", "nl"}
  BY AfterIs
<1>2. w \in {value, value + 1}
  OBVIOUS
<1> HIDE DEF value
<1>3. /\ Len(File) \in Nat /\ N \in Nat /\ \A l \in 1..N : Starts[l] \in Nat /\ EndOf(l) \in Nat
      /\ Starts[k] < Starts[n]
  BY TextIs, StartsInOrder
<1>4. pos' \in w..(Len(File) + 1) /\ \A l \in 1..N : Starts[l] > w => pos' <= Starts[l]
  BY SkipIs
<1>5. Starts[n] <= w
  <2>1. Starts[n] > w => pos' <= Starts[n]
    BY <1>4
  <2>2. Starts[n] \in Nat /\ w \in Nat /\ pos' \in Nat
    BY <1>3, <1>4
  <2>3. QED  BY <2>1, <2>2
<1> SUFFICES ASSUME Counts(n) PROVE FALSE
  OBVIOUS
<1>6. Starts[n] \in 1..Len(File) /\ Sort(Starts[n]) = "word"
  BY CountsWord
<1>7. From(k) <= Starts[n]
  <2>1. From(k) \in Nat /\ Starts[k] \in Nat /\ Starts[n] \in Nat /\ Starts[k] < Starts[n]
    BY <1>3
  <2>2. QED  BY <2>1
<1>8. value <= Starts[n]
  <2> SUFFICES ASSUME ~(value <= Starts[n]) PROVE FALSE
    OBVIOUS
  <2>1. Starts[n] \in From(k)..(value - 1)
    BY <1>1, <1>3, <1>6, <1>7
  <2>2. QED  BY <1>1, <1>6, <2>1
<1>9. Starts[n] = value
  <2> SUFFICES ASSUME Starts[n] # value PROVE FALSE
    OBVIOUS
  <2>1. Starts[n] = value + 1
    <3>1. value \in Nat /\ w \in Nat /\ w <= value + 1 /\ Starts[n] \in Nat
      BY <1>1, <1>2, <1>3
    <3>2. \A a, b, c \in Nat : a <= b /\ b <= c + 1 /\ c <= a /\ a # c => a = c + 1
      OBVIOUS
    <3>3. QED  BY <1>5, <1>8, <3>1, <3>2
  <2>2. n # 1 /\ n - 1 \in 1..N /\ (n - 1) + 1 \in 1..N /\ (n - 1) + 1 = n
    <3>1. N \in Nat
      BY <1>3
    <3>2. QED  BY <3>1
  <2>3. Starts[n] = EndOf(n - 1) + 1
    BY <2>2, TextIs
  <2>4. EndOf(n - 1) = value /\ value <= Len(File)
    <3>1. value \in Nat /\ EndOf(n - 1) \in Nat /\ Starts[n] <= Len(File) /\ Len(File) \in Nat
      BY <1>1, <1>3, <1>6, <2>2
    <3>2. QED  BY <2>1, <2>3, <3>1
  <2>5. Sort(value) = "nl"
    BY <2>2, <2>4, InLine
  <2>6. QED  BY <1>1, <2>4, <2>5
<1>10. QED  BY <1>1, <1>9, NothingBetween

\* The value of a line that counts is found where it is.
LEMMA ValueFound ==
  ASSUME Typed, NEW k \in 1..N, Counts(k)
  PROVE  LET value == After(From(k), {"sep", "nl"}) IN
           /\ value <= Len(File) /\ File[value] = lines[k][3]
           /\ lines[k][1].key \in NumberKeys => Sort(value) = "number"
<1> DEFINE value == After(From(k), {"sep", "nl"})
<1>1. /\ Len(lines[k]) >= 3 /\ lines[k][1].sort = "word"
      /\ lines[k][2].sort = "sep" /\ lines[k][3].sort \in {"number", "word"}
      /\ lines[k][1].key \in NumberKeys => lines[k][3].sort = "number"
  <2>1. lines[k][1].key \in NumberKeys => lines[k][3].sort = "number"
    BY DEF Counts, Follows, NumberKeys, NameKeys
  <2>2. QED  BY <2>1, CountsWord
<1>2. Len(lines[k]) \in Nat /\ Starts[k] \in Nat /\ Len(File) \in Nat /\ Starts[k] >= 1
  BY TextIs, LineTyped
<1>3. 2 \in 1..Len(lines[k]) /\ 3 \in 1..Len(lines[k])
  BY <1>1, <1>2
<1>4. Starts[k] + 2 - 1 = Starts[k] + 1 /\ Starts[k] + 3 - 1 = Starts[k] + 2
  BY <1>2
<1>5. /\ Starts[k] + 1 \in 1..Len(File) /\ Sort(Starts[k] + 1) = "sep"
      /\ Starts[k] + 2 \in 1..Len(File) /\ Sort(Starts[k] + 2) = lines[k][3].sort
  BY <1>1, <1>3, <1>4, InLine
<1>6. File[Starts[k] + 2] = lines[k][3]
  BY <1>3, <1>4, TextIs
<1>7. From(k) = Starts[k] + 1 /\ From(k) \in 1..(Len(File) + 1)
  BY <1>1, <1>2, <1>5 DEF From
<1>8. /\ value \in From(k)..(Len(File) + 1)
      /\ (value <= Len(File) => Sort(value) \notin {"sep", "nl"})
      /\ \A r \in From(k)..(value - 1) : Sort(r) \in {"sep", "nl"}
  BY <1>7, AfterIs
<1> HIDE DEF value
<1>9. value # Starts[k] + 1
  BY <1>2, <1>5, <1>8
<1>10. value <= Starts[k] + 2
  <2> SUFFICES ASSUME ~(value <= Starts[k] + 2) PROVE FALSE
    OBVIOUS
  <2>1. Starts[k] + 2 \in From(k)..(value - 1)
    BY <1>2, <1>7, <1>8
  <2>2. Sort(Starts[k] + 2) \in {"sep", "nl"}
    BY <1>8, <2>1
  <2>3. QED  BY <1>1, <1>5, <2>2
<1>11. value = Starts[k] + 2
  BY <1>2, <1>7, <1>8, <1>9, <1>10
<1>12. value <= Len(File) /\ File[value] = lines[k][3] /\ Sort(value) = lines[k][3].sort
  BY <1>2, <1>5, <1>6, <1>11
<1>13. lines[k][1].key \in NumberKeys => Sort(value) = "number"
  BY <1>1, <1>12
<1>14. QED  BY <1>12, <1>13 DEF value

\* What a number becomes as a setting.
LEMMA StoredIs ==
  ASSUME NEW key \in NumberKeys, NEW n \in Nat
  PROVE  /\ Stored(key, n) \in Nat
         /\ key = "NWORKERS" => Stored(key, n) \in 0..(2^16 - 1)
         /\ key = "CAPACITY" => Stored(key, n) \in 0..(2^12 - 1)
<1>1. n % (2^16) \in 0..(2^16 - 1) /\ n % (2^12) \in 0..(2^12 - 1)
  OBVIOUS
<1>2. CASE key = "NWORKERS"
  BY <1>1, <1>2 DEF Stored
<1>3. CASE key = "CAPACITY"
  BY <1>1, <1>3 DEF Stored
<1>4. CASE key # "NWORKERS" /\ key # "CAPACITY"
  BY <1>4 DEF Stored
<1>5. QED  BY <1>2, <1>3, <1>4

\* What characters written over others give.
LEMMA OverIs ==
  ASSUME NEW old \in Seq(Nat), NEW new \in Seq(Nat)
  PROVE  /\ Over(old, new) \in Seq(Nat)
         /\ Len(old) <= MaxName /\ Len(new) <= MaxName => Len(Over(old, new)) <= MaxName
         /\ old = <<>> => Over(old, new) = new
<1> DEFINE rest == SubSeq(old, Len(new) + 1, Len(old))
<1>1. Len(old) \in Nat /\ Len(new) \in Nat
  OBVIOUS
<1>2. /\ rest \in Seq(Nat)
      /\ Len(rest) = IF Len(new) + 1 <= Len(old) THEN Len(old) - Len(new) ELSE 0
  BY <1>1
<1>3. Over(old, new) = new \o rest
  BY DEF Over
<1> HIDE DEF rest
<1>4. Over(old, new) \in Seq(Nat) /\ Len(Over(old, new)) = Len(new) + Len(rest)
  <2>1. new \o rest \in Seq(Nat) /\ Len(new \o rest) = Len(new) + Len(rest)
    BY <1>2, ConcatProperties
  <2>2. QED  BY <1>3, <2>1
<1>5. Len(old) <= MaxName /\ Len(new) <= MaxName => Len(Over(old, new)) <= MaxName
  BY <1>1, <1>2, <1>4 DEF MaxName
<1>6. ASSUME old = <<>> PROVE Over(old, new) = new
  <2>1. Len(old) = 0
    BY <1>6
  <2>2. Len(rest) = 0
    BY <1>1, <1>2, <2>1
  <2>3. rest = <<>>
    BY <1>2, <2>2
  <2>4. QED  BY <1>3, <2>3
<1>7. QED  BY <1>4, <1>5, <1>6

\* A value is put in the settings: the one its line gives, if the line counts.
LEMMA SettingSets ==
  ASSUME SInv, UNCHANGED <<lines, ends>>, NEW k \in 1..N, 1 \in 1..Len(lines[k]),
         pos = Starts[k], NEW v, lines[k][1].key \in Keys,
         setts' = [setts EXCEPT ![lines[k][1].key] = v],
         pos' \in 1..(Len(File) + 1), pos' > pos,
         \A n \in 1..N : Counts(n) /\ pos <= Starts[n] /\ Starts[n] < pos' => n = k,
         Counts(k) => v = Given(k),
         lines[k][1].key \in NumberKeys => v \in Nat,
         lines[k][1].key = "NWORKERS" => v \in 0..(2^16 - 1),
         lines[k][1].key = "CAPACITY" => v \in 0..(2^12 - 1),
         lines[k][1].key \in NameKeys => v \in Seq(Nat) /\ Len(v) <= MaxName
  PROVE  Shapes' /\ Unset' /\ Counted'
<1> DEFINE key == lines[k][1].key
<1>1. /\ N' = N /\ Starts' = Starts /\ lines' = lines
      /\ \A n \in 1..N : Counts(n)' = Counts(n) /\ Given(n)' = Given(n)
  BY SameText
<1>2. Len(File) \in Nat /\ pos \in Nat /\ pos' \in Nat
      /\ \A n \in 1..N : Starts[n] \in Nat
  BY TextIs DEF SInv, AtLine
<1>3. Names(lines[k], key)
  BY DEF Names
<1>4. /\ DOMAIN setts = Keys /\ key \in Keys /\ setts' = [setts EXCEPT ![key] = v]
      /\ (key \in NumberKeys => v \in Nat)
      /\ (key = "NWORKERS" => v \in 0..(2^16 - 1)) /\ (key = "CAPACITY" => v \in 0..(2^12 - 1))
      /\ (key \in NameKeys => v \in Seq(Nat) /\ Len(v) <= MaxName)
  BY DEF SInv, Shapes
<1> HIDE DEF key
<1>5. /\ DOMAIN setts' = Keys /\ setts'[key] = v
      /\ \A l \in Keys : l # key => setts'[l] = setts[l]
  BY <1>4
<1>6. Shapes'
  <2>1. \A l \in NumberKeys : setts'[l] \in Nat
    BY <1>4, <1>5 DEF SInv, Shapes, Keys
  <2>2. setts'["NWORKERS"] \in 0..(2^16 - 1) /\ setts'["CAPACITY"] \in 0..(2^12 - 1)
    <3>1. "NWORKERS" \in Keys /\ "CAPACITY" \in Keys
      BY DEF Keys, NumberKeys
    <3>2. setts["NWORKERS"] \in 0..(2^16 - 1) /\ setts["CAPACITY"] \in 0..(2^12 - 1)
      BY DEF SInv, Shapes
    <3>3. QED  BY <1>4, <1>5, <3>1, <3>2
  <2>3. \A l \in NameKeys : setts'[l] \in Seq(Nat) /\ Len(setts'[l]) <= MaxName
    BY <1>4, <1>5 DEF SInv, Shapes, Keys
  <2>4. QED  BY <1>5, <2>1, <2>2, <2>3 DEF Shapes
<1>7. Unset'
  <2> SUFFICES ASSUME NEW l \in Keys, \A m \in 1..N : Names(lines[m], l) => pos' <= Starts[m]
               PROVE  setts'[l] = Blank(l)
    BY <1>1 DEF Unset, Names
  <2>1. l # key
    BY <1>2, <1>3
  <2>2. \A m \in 1..N : Names(lines[m], l) => pos <= Starts[m]
    BY <1>2
  <2>3. setts[l] = Blank(l)
    BY <2>2 DEF SInv, Unset
  <2>4. QED  BY <1>5, <2>1, <2>3
<1>8. Counted'
  <2> SUFFICES ASSUME NEW n \in 1..N, Counts(n), Starts[n] < pos'
               PROVE  setts'[lines[n][1].key] = Given(n)
    BY <1>1 DEF Counted
  <2>1. CASE n = k
    BY <1>5, <2>1 DEF key
  <2>2. CASE n # k
    <3>1. Starts[n] < pos
      BY <1>2, <2>2
    <3>2. setts[lines[n][1].key] = Given(n)
      BY <3>1 DEF SInv, Counted
    <3>3. lines[n][1].key \in Keys
      BY CountsWord DEF SInv
    <3>4. k \in DOMAIN lines \ {n}
      BY <2>2, EndedTyped DEF SInv
    <3>5. lines[n][1].key # key
      BY <1>3, <3>4 DEF Counts
    <3>6. QED  BY <1>5, <3>2, <3>3, <3>5
  <2>3. QED  BY <2>1, <2>2
<1>9. QED  BY <1>6, <1>7, <1>8

\* A setting keeps the invariant, and reads on unless the server stops.
LEMMA SettingKeeps ==
  ASSUME SInv, Setting
  PROVE  SInv' /\ (at' = "exit" \/ pos' > pos)
<1>1. PICK k \in 1..N :
        /\ pos = Starts[k] /\ 1 \in 1..Len(lines[k]) /\ lines[k][1].sort # "hash"
        /\ \A n \in 1..N : Starts[n] = pos => n = k
        /\ From(k) \in 1..(Len(File) + 1) /\ From(k) >= pos /\ From(k) <= pos + 1
        /\ (IF IsWord(pos) THEN File[pos].key ELSE "none") = lines[k][1].key
        /\ (IF IsWord(pos) THEN pos + 1 ELSE pos) = From(k)
  BY SettingLine
<1> DEFINE key == lines[k][1].key
           value == After(From(k), {"sep", "nl"})
           Skips(w) == w \in {value, value + 1} /\ w <= Len(File) + 1 /\ server_skipline(w)
<1>2. /\ at = "read" /\ ~eof /\ pos <= Len(File) /\ UNCHANGED <<lines, ends, infos>>
      /\ \/ /\ \/ key = "none" \/ value > Len(File)
               \/ key \in NumberKeys /\ value <= Len(File) /\ Sort(value) # "number"
            /\ server_skipline(value) /\ UNCHANGED <<setts, at>>
         \/ /\ value <= Len(File) /\ key \in NumberKeys /\ Sort(value) = "number"
            /\ setts' = [setts EXCEPT ![key] = Stored(key, File[value].num)]
            /\ server_skipline(value + 1) /\ UNCHANGED at
         \/ /\ value <= Len(File) /\ key \in NameKeys
            /\ Len(File[value].chars) <= MaxName
            /\ setts' = [setts EXCEPT ![key] = Over(setts[key], File[value].chars)]
            /\ server_skipline(value + 1) /\ UNCHANGED at
         \/ /\ value <= Len(File) /\ key \in NameKeys
            /\ at' = "exit" /\ UNCHANGED <<pos, eof, setts>>
  BY <1>1 DEF Setting
<1>3. /\ Typed /\ pos \in 1..(Len(File) + 1) /\ Len(File) \in Nat /\ N \in Nat
      /\ \A n \in 1..N : Starts[n] \in Nat
  BY TextIs DEF SInv, AtLine
<1>4. value \in From(k)..(Len(File) + 1)
  BY <1>1, <1>3, AfterIs
<1>5. Counts(k) => value <= Len(File) /\ File[value] = lines[k][3]
                   /\ (key \in NumberKeys => Sort(value) = "number") /\ key \in Keys
  BY <1>3, ValueFound, CountsWord
<1>6. value <= Len(File) => File[value].num \in Nat /\ File[value].chars \in Seq(Nat)
  <2>1. value <= Len(File) => File[value] \in Lexemes
    <3>1. File \in Seq(Lexemes)
      BY <1>3, TextIs
    <3>2. value <= Len(File) => value \in 1..Len(File)
      BY <1>1, <1>3, <1>4
    <3>3. QED  BY <3>1, <3>2
  <2>2. \A x \in Lexemes : x.num \in Nat /\ x.chars \in Seq(Nat)
    <3>1. \A x \in Lexeme : x.num \in Nat /\ x.chars \in Seq(Nat)
      BY DEF Lexeme
    <3>2. NL.num \in Nat /\ NL.chars \in Seq(Nat)
      BY DEF NL
    <3>3. QED  BY <3>1, <3>2 DEF Lexemes
  <2>3. QED  BY <2>1, <2>2
<1> HIDE DEF value, key
<1>7. ASSUME NEW w, Skips(w), at' = at
      PROVE  /\ AtLine' /\ Control' /\ Typed'
             /\ pos' > pos /\ pos' \in 1..(Len(File) + 1)
             /\ \A n \in 1..N : Counts(n) /\ pos <= Starts[n] /\ Starts[n] < pos' => n = k
  <2>1. w \in 1..(Len(File) + 1) /\ w >= pos
    BY <1>1, <1>3, <1>4, <1>7
  <2>2. /\ pos' \in w..(Len(File) + 1) /\ LineStart(pos') /\ (w <= Len(File) => pos' > w)
        /\ eof' \in BOOLEAN /\ (eof' => pos' = Len(File) + 1)
    BY <1>3, <1>7, <2>1, SkipIs
  <2>3. pos' > pos /\ pos' \in 1..(Len(File) + 1)
    BY <1>2, <1>3, <2>1, <2>2
  <2>4. Typed'
    BY <1>2, <1>3, SameText
  <2>5. AtLine'
    BY <1>2, <2>2, <2>3, SameText DEF AtLine, LineStart
  <2>6. Control'
    BY <1>2, <1>7, <2>2 DEF SInv, Control
  <2>7. ASSUME NEW n \in 1..N, Counts(n), pos <= Starts[n], Starts[n] < pos', n # k
        PROVE  FALSE
    <3>1. pos < Starts[n]
      BY <1>1, <1>3, <2>7
    <3>2. k < n
      BY <1>1, <1>3, <3>1, StartsInOrder
    <3>3. w \in {value, value + 1}
      BY <1>7
    <3>4. QED  BY <1>1, <1>3, <1>7, <2>1, <2>7, <3>2, <3>3, NoneSwallowed DEF value
  <2>8. QED  BY <2>3, <2>4, <2>5, <2>6, <2>7
<1>8. CASE /\ \/ key = "none" \/ value > Len(File)
              \/ key \in NumberKeys /\ value <= Len(File) /\ Sort(value) # "number"
           /\ server_skipline(value) /\ UNCHANGED <<setts, at>>
  <2>1. Skips(value)
    BY <1>3, <1>4, <1>8
  <2>2. /\ AtLine' /\ Control' /\ Typed' /\ pos' > pos /\ pos' \in 1..(Len(File) + 1)
        /\ \A n \in 1..N : Counts(n) /\ pos <= Starts[n] /\ Starts[n] < pos' => n = k
    BY <1>7, <1>8, <2>1
  <2>3. ~Counts(k)
    <3>1. key \in Keys => key # "none"
      BY DEF Keys, NumberKeys, NameKeys
    <3>2. value > Len(File) => ~(value <= Len(File))
      BY <1>3, <1>4
    <3>3. QED  BY <1>5, <1>8, <3>1, <3>2
  <2>4. pos' \in pos..(Len(File) + 1)
    BY <1>3, <2>2
  <2>5. Unset' /\ Counted'
    BY <1>2, <1>8, <2>2, <2>3, <2>4, PassedOver
  <2>6. Shapes'
    BY <1>2, <1>3, <1>8, SameSettings DEF SInv
  <2>7. QED  BY <2>2, <2>5, <2>6 DEF SInv
<1>9. ASSUME value <= Len(File), NEW v, key \in Keys,
             setts' = [setts EXCEPT ![key] = v], server_skipline(value + 1), at' = at,
             Counts(k) => v = Given(k),
             key \in NumberKeys => v \in Nat,
             key = "NWORKERS" => v \in 0..(2^16 - 1),
             key = "CAPACITY" => v \in 0..(2^12 - 1),
             key \in NameKeys => v \in Seq(Nat) /\ Len(v) <= MaxName
      PROVE  SInv' /\ pos' > pos
  <2>1. Skips(value + 1)
    BY <1>3, <1>4, <1>9
  <2>2. /\ AtLine' /\ Control' /\ Typed' /\ pos' > pos /\ pos' \in 1..(Len(File) + 1)
        /\ \A n \in 1..N : Counts(n) /\ pos <= Starts[n] /\ Starts[n] < pos' => n = k
    BY <1>7, <1>9, <2>1
  <2>3. Shapes' /\ Unset' /\ Counted'
    BY <1>1, <1>2, <1>9, <2>2, SettingSets DEF key
  <2>4. QED  BY <2>2, <2>3 DEF SInv
<1>10. CASE /\ value <= Len(File) /\ key \in NumberKeys /\ Sort(value) = "number"
            /\ setts' = [setts EXCEPT ![key] = Stored(key, File[value].num)]
            /\ server_skipline(value + 1) /\ UNCHANGED at
  <2>1. /\ Stored(key, File[value].num) \in Nat
        /\ key = "NWORKERS" => Stored(key, File[value].num) \in 0..(2^16 - 1)
        /\ key = "CAPACITY" => Stored(key, File[value].num) \in 0..(2^12 - 1)
    BY <1>6, <1>10, StoredIs
  <2>2. Counts(k) => Stored(key, File[value].num) = Given(k)
    BY <1>5, <1>10 DEF Given, key
  <2>3. key \in Keys /\ key \notin NameKeys
    BY <1>10 DEF Keys, NumberKeys, NameKeys
  <2>4. QED  BY <1>9, <1>10, <2>1, <2>2, <2>3
<1>11. CASE /\ value <= Len(File) /\ key \in NameKeys
            /\ Len(File[value].chars) <= MaxName
            /\ setts' = [setts EXCEPT ![key] = Over(setts[key], File[value].chars)]
            /\ server_skipline(value + 1) /\ UNCHANGED at
  <2>1. key \in Keys /\ key \notin NumberKeys /\ key # "NWORKERS" /\ key # "CAPACITY"
    BY <1>11 DEF Keys, NumberKeys, NameKeys
  <2>2. setts[key] \in Seq(Nat) /\ Len(setts[key]) <= MaxName
    BY <1>11 DEF SInv, Shapes
  <2>3. /\ Over(setts[key], File[value].chars) \in Seq(Nat)
        /\ Len(Over(setts[key], File[value].chars)) <= MaxName
        /\ setts[key] = <<>> => Over(setts[key], File[value].chars) = File[value].chars
    BY <1>6, <1>11, <2>2, OverIs
  <2>4. Counts(k) => Over(setts[key], File[value].chars) = Given(k)
    <3> SUFFICES ASSUME Counts(k) PROVE Over(setts[key], File[value].chars) = Given(k)
      OBVIOUS
    <3>1. \A m \in 1..N : Names(lines[m], key) => m = k
      BY <1>3, EndedTyped DEF Counts, key
    <3>2. \A m \in 1..N : Names(lines[m], key) => pos <= Starts[m]
      BY <1>1, <1>3, <3>1
    <3>3. setts[key] = <<>>
      BY <2>1, <3>2 DEF SInv, Unset, Blank
    <3>4. File[value].chars = lines[k][3].chars
      BY <1>5
    <3>5. Given(k) = lines[k][3].chars
      BY <2>1 DEF Given, key
    <3>6. QED  BY <2>3, <3>3, <3>4, <3>5
  <2>5. QED  BY <1>9, <1>11, <2>1, <2>3, <2>4
<1>12. CASE /\ value <= Len(File) /\ key \in NameKeys
            /\ at' = "exit" /\ UNCHANGED <<pos, eof, setts>>
  <2>1. pos' \in pos..(Len(File) + 1) /\ pos' = pos /\ eof' = eof
    BY <1>3, <1>12
  <2>2. \A n \in 1..N : Counts(n) => ~(pos <= Starts[n] /\ Starts[n] < pos')
    BY <1>3, <2>1
  <2>3. Unset' /\ Counted'
    BY <1>2, <1>12, <2>1, <2>2, PassedOver
  <2>4. Shapes' /\ Typed'
    BY <1>2, <1>3, <1>12, SameSettings DEF SInv
  <2>5. AtLine'
    BY <1>2, <1>12, SameText DEF SInv, AtLine, LineStart
  <2>6. Control'
    BY <1>2, <1>12 DEF SInv, Control
  <2>7. QED  BY <1>12, <2>3, <2>4, <2>5, <2>6 DEF SInv
<1>13. QED  BY <1>2, <1>8, <1>10, <1>11, <1>12

-----------------------------------------------------------------------------
(* The theorems.                                                           *)

\* Before anything is read the invariant holds, of any file.
LEMMA StartsRight == Init => SInv
<1> SUFFICES ASSUME Init PROVE SInv
  OBVIOUS
<1>1. Typed
  <2>1. PICK n \in 0..MaxLines : lines \in [1..n -> Lines]
    BY DEF Init
  <2>2. n \in Nat
    BY SettingsAssumption
  <2>3. lines \in Seq(Lines)
    BY <2>1, <2>2, IsASeq
  <2>4. QED  BY <2>3 DEF Init, Typed
<1>2. /\ pos = 1 /\ eof = FALSE /\ at = "read"
      /\ setts = [k \in Keys |-> IF k \in NumberKeys THEN 0 ELSE <<>>]
  BY DEF Init, Keys
<1>3. Shapes
  <2>1. DOMAIN setts = Keys /\ \A k \in Keys : setts[k] = Blank(k)
    BY <1>2 DEF Blank
  <2>2. \A k \in NumberKeys : setts[k] = 0
    BY <2>1 DEF Keys, Blank
  <2>3. setts["NWORKERS"] \in 0..(2^16 - 1) /\ setts["CAPACITY"] \in 0..(2^12 - 1)
    <3>1. "NWORKERS" \in NumberKeys /\ "CAPACITY" \in NumberKeys
      BY DEF NumberKeys
    <3>2. setts["NWORKERS"] = 0 /\ setts["CAPACITY"] = 0
      BY <2>2, <3>1
    <3>3. QED  BY <3>2
  <2>4. \A k \in NameKeys : k \in Keys /\ k \notin NumberKeys
    BY DEF Keys, NameKeys, NumberKeys
  <2>5. \A k \in NameKeys : setts[k] = <<>>
    BY <2>1, <2>4 DEF Blank
  <2>6. <<>> \in Seq(Nat) /\ Len(<<>>) <= MaxName
    BY DEF MaxName
  <2>7. \A k \in NameKeys : setts[k] \in Seq(Nat) /\ Len(setts[k]) <= MaxName
    BY <2>5, <2>6
  <2>8. \A k \in NumberKeys : setts[k] \in Nat
    BY <2>2
  <2>9. QED  BY <2>1, <2>3, <2>7, <2>8 DEF Shapes
<1>4. Control
  BY <1>2 DEF Control
<1>5. /\ N \in Nat /\ Len(File) \in Nat /\ (N = 0 => Len(File) = 0)
      /\ N # 0 => Starts[1] = 1
      /\ \A n \in 1..N : Starts[n] \in Nat /\ Starts[n] >= 1
  BY <1>1, TextIs
<1>6. AtLine
  <2>1. LineStart(1)
    <3>1. N # 0 => 1 \in 1..N
      BY <1>5
    <3>2. QED  BY <1>5, <3>1 DEF LineStart
  <2>2. QED  BY <1>2, <1>5, <2>1 DEF AtLine
<1>7. Unset
  BY <1>2 DEF Unset, Blank
<1>8. Counted
  BY <1>2, <1>5 DEF Counted
<1>9. QED  BY <1>1, <1>3, <1>4, <1>6, <1>7, <1>8 DEF SInv

\* Every step keeps it.
LEMMA StepKeeps == SInv /\ [Next]_vars => SInv'
<1> SUFFICES ASSUME SInv, [Next]_vars PROVE SInv'
  OBVIOUS
<1>1. CASE Comment
  BY <1>1, CommentKeeps
<1>2. CASE EmptyLine
  BY <1>2, EmptyLineKeeps
<1>3. CASE LastLine \/ ReadEnd \/ init_server_infos
  BY <1>3, StandingKeeps
<1>4. CASE Setting
  BY <1>4, SettingKeeps
<1>5. CASE UNCHANGED vars
  <2>1. UNCHANGED <<lines, ends, pos, eof, setts, infos, at>>
    BY <1>5 DEF vars
  <2>2. Typed /\ pos \in 1..(Len(File) + 1) /\ Len(File) \in Nat
    BY TextIs DEF SInv, AtLine
  <2>3. pos' \in pos..(Len(File) + 1) /\ pos' = pos
    BY <2>1, <2>2
  <2>4. \A n \in 1..N : Counts(n) => ~(pos <= Starts[n] /\ Starts[n] < pos')
    BY <2>2, <2>3, TextIs
  <2>5. Unset' /\ Counted'
    BY <2>1, <2>3, <2>4, PassedOver
  <2>6. Shapes' /\ Typed'
    BY <2>1, SameSettings DEF SInv
  <2>7. AtLine'
    BY <2>1, SameText DEF SInv, AtLine, LineStart
  <2>8. Control'
    BY <2>1 DEF SInv, Control
  <2>9. QED  BY <2>5, <2>6, <2>7, <2>8 DEF SInv
<1>6. QED  BY <1>1, <1>2, <1>3, <1>4, <1>5 DEF Next

\* The invariant holds as long as the server starts.
LEMMA InvariantHolds == Spec => []SInv
<1>1. QED  BY StartsRight, StepKeeps, PTL DEF Spec

\* For any file, the settings stay within what their fields hold: a number of
\* workers of 16 bits, a capacity of 12, names of 63 characters; and what is
\* read next is in the file or at its end.
THEOREM SettingsTyped == Spec => []TypeOK
<1>1. SInv => TypeOK
  <2> SUFFICES ASSUME SInv PROVE TypeOK
    OBVIOUS
  <2>1. /\ at \in {"read", "init", "running", "exit"} /\ eof \in BOOLEAN
        /\ pos \in 1..(Len(File) + 1) /\ (at = "running" => infos.maxlen <= MaxArray)
    BY DEF SInv, Control, AtLine
  <2>2. /\ setts["NWORKERS"] \in 0..(2^16 - 1) /\ setts["CAPACITY"] \in 0..(2^12 - 1)
        /\ \A k \in NumberKeys : setts[k] \in Nat
        /\ \A k \in NameKeys : Len(setts[k]) <= MaxName
    BY DEF SInv, Shapes
  <2>3. QED  BY <2>1, <2>2 DEF TypeOK
<1>2. QED  BY <1>1, InvariantHolds, PTL

\* For any file, a line that follows the rules has its value in the settings
\* when the file has been read, whatever the other lines are: unless one names
\* the same setting, or the one before it is unfinished.
THEOREM EveryLineCounts == Spec => []LinesCount
<1>1. SInv => LinesCount
  <2> SUFFICES ASSUME SInv, at \in {"init", "running"}, NEW n \in 1..N, Counts(n)
               PROVE  setts[lines[n][1].key] = Given(n)
    <3>1. SInv => DOMAIN lines = 1..N
      BY EndedTyped DEF SInv
    <3>2. QED  BY <3>1 DEF LinesCount, Counts, Given
  <2>1. pos = Len(File) + 1
    BY DEF SInv, Control, AtLine
  <2>2. Starts[n] \in 1..Len(File) /\ Len(File) \in Nat
    BY CountsWord, TextIs DEF SInv
  <2>3. Starts[n] < pos
    BY <2>1, <2>2
  <2>4. QED  BY <2>3 DEF SInv, Counted
<1>2. QED  BY <1>1, InvariantHolds, PTL

\* How much the start has left to do.
Rank ==
  IF at = "read" THEN Len(File) + 1 - pos + (IF eof THEN 2 ELSE 3)
  ELSE IF at = "init" THEN 1 ELSE 0

\* Every step of the start leaves less to do than there was: the reading of a
\* file never comes back to where it has been, and ends after a bounded number
\* of steps.
THEOREM StartDescends == Spec => [][Rank' < Rank /\ Rank' \in Nat /\ Rank \in Nat]_vars
<1>1. ASSUME SInv, SInv', Next
      PROVE  Rank \in Nat /\ Rank' \in Nat /\ Rank' < Rank
  <2>1. /\ Len(File) \in Nat /\ pos \in 1..(Len(File) + 1) /\ eof \in BOOLEAN
        /\ pos' \in 1..(Len(File)' + 1) /\ eof' \in BOOLEAN
    BY <1>1, TextIs DEF SInv, AtLine, Control
  <2>2. UNCHANGED <<lines, ends>> /\ File' = File
    BY <1>1, SameText DEF Next, Comment, EmptyLine, LastLine, Setting, ReadEnd, init_server_infos
  <2>3. CASE Comment \/ EmptyLine \/ Setting
    <3>1. at = "read" /\ ~eof /\ (at' = "read" \/ at' = "exit") /\ (at' = "exit" \/ pos' > pos)
      BY <1>1, <2>3, CommentKeeps, EmptyLineKeeps, SettingKeeps DEF Comment, EmptyLine, Setting
    <3>2. QED  BY <2>1, <2>2, <3>1 DEF Rank
  <2>4. CASE LastLine
    <3>1. at = "read" /\ ~eof /\ eof' = TRUE /\ (at' = "read" \/ at' = "exit") /\ pos' = pos
      BY <2>4 DEF LastLine
    <3>2. QED  BY <2>1, <2>2, <3>1 DEF Rank
  <2>5. CASE ReadEnd
    <3>1. at = "read" /\ at' = "init"
      BY <2>5 DEF ReadEnd
    <3>2. QED  BY <2>1, <2>2, <3>1 DEF Rank
  <2>6. CASE init_server_infos
    <3>1. at = "init" /\ (at' = "running" \/ at' = "exit")
      BY <2>6 DEF init_server_infos
    <3>2. QED  BY <2>1, <2>2, <3>1 DEF Rank
  <2>7. QED  BY <1>1, <2>3, <2>4, <2>5, <2>6 DEF Next
<1>2. SInv /\ SInv' /\ [Next]_vars => [Rank' < Rank /\ Rank' \in Nat /\ Rank \in Nat]_vars
  BY <1>1
<1>3. QED  BY <1>2, InvariantHolds, PTL DEF Spec
=============================================================================
