--------------------------- MODULE ProtocolProofs ---------------------------
(***************************************************************************)
(* Proofs about the conversation of one client with the server, for any    *)
(* calls, any number of them, any lengths of paths, files and writes, and  *)
(* any order of their reads and writes.                                    *)
(***************************************************************************)
EXTENDS Protocol, DataLemmas

-----------------------------------------------------------------------------
(* What is on its way from one end to the other.                           *)

Words == Ops \cup Codes \cup {"num", "hi", "path", "data"}
Bit == [is : Words, v : Int, of : Int]
Message == Seq(Bit) \ {<<>>}

\* The messages ms are on their way: the first n of them are what is in the
\* stream s, one after the other, and the others are what is left to write.
Splits(s, out, ms, n, rest) ==
  /\ n \in Nat /\ rest \in [1..(n + 1) -> Seq(Bit)]
  /\ Len(ms) = n + Len(out) /\ \A i \in 1..Len(out) : out[i] = ms[n + i]
  /\ rest[1] = s /\ rest[n + 1] = <<>>
  /\ \A i \in 1..n : rest[i] = ms[i] \o rest[i + 1]
Carried(s, out, ms) ==
  /\ s \in Seq(Bit) /\ out \in Seq(Message) /\ ms \in Seq(Message)
  /\ \E n, rest : Splits(s, out, ms, n, rest)

\* The elements of a sequence.
LEMMA Places ==
  ASSUME NEW S, NEW s \in Seq(S)
  PROVE  /\ Len(s) \in Nat /\ DOMAIN s = 1..Len(s) /\ \A i \in 1..Len(s) : s[i] \in S
         /\ s = <<>> <=> Len(s) = 0
  OBVIOUS

\* What is about to be written is on its way.
LEMMA CarryStart ==
  ASSUME NEW out \in Seq(Message)
  PROVE  Carried(<<>>, out, out)
<1> DEFINE rest == [i \in 1..(0 + 1) |-> <<>>]
<1>1. <<>> \in Seq(Bit) /\ Len(out) \in Nat
  OBVIOUS
<1>2. rest \in [1..(0 + 1) -> Seq(Bit)] /\ rest[1] = <<>> /\ rest[0 + 1] = <<>>
  OBVIOUS
<1> HIDE DEF rest
<1>3. Len(out) = 0 + Len(out) /\ \A i \in 1..Len(out) : out[i] = out[0 + i]
  BY <1>1
<1>4. \A i \in 1..0 : rest[i] = out[i] \o rest[i + 1]
  OBVIOUS
<1>5. 0 \in Nat
  OBVIOUS
<1>6. Splits(<<>>, out, out, 0, rest)
  BY <1>2, <1>3, <1>4, <1>5 DEF Splits
<1>7. QED  BY <1>1, <1>6 DEF Carried

\* When nothing is on its way the stream is empty and nothing is to be written.
LEMMA CarryNothing ==
  ASSUME NEW s, NEW out, Carried(s, out, <<>>)
  PROVE  s = <<>> /\ out = <<>>
<1>1. PICK n, rest :
        n \in Nat /\ rest \in [1..(n + 1) -> Seq(Bit)] /\ Len(<<>>) = n + Len(out) /\ rest[1] = s /\ rest[n + 1] = <<>>
  BY DEF Carried, Splits
<1>n. n \in Nat /\ rest \in [1..(n + 1) -> Seq(Bit)]
  BY <1>1
<1> USE <1>n
<1>2. out \in Seq(Message) /\ Len(out) \in Nat /\ Len(<<>>) = 0
  BY Places DEF Carried
<1>3. n = 0 /\ Len(out) = 0
  BY <1>1, <1>2
<1>4. s = <<>>
  BY <1>1, <1>3
<1>5. QED  BY <1>2, <1>3, <1>4, Places

\* A write moves the next message from the end that has it into the stream.
LEMMA CarryWrite ==
  ASSUME NEW s, NEW out, NEW ms, Carried(s, out, ms), out # <<>>
  PROVE  Carried(s \o Head(out), Tail(out), ms)
<1>1. s \in Seq(Bit) /\ out \in Seq(Message) /\ ms \in Seq(Message)
  BY DEF Carried
<1>2. PICK n, rest :
        /\ n \in Nat /\ rest \in [1..(n + 1) -> Seq(Bit)]
        /\ Len(ms) = n + Len(out) /\ \A i \in 1..Len(out) : out[i] = ms[n + i]
        /\ rest[1] = s /\ rest[n + 1] = <<>>
        /\ \A i \in 1..n : rest[i] = ms[i] \o rest[i + 1]
  BY DEF Carried, Splits
<1>n. n \in Nat /\ rest \in [1..(n + 1) -> Seq(Bit)]
  BY <1>2
<1> USE <1>n
<1> DEFINE m == Head(out)
           tail == Tail(out)
<1>3. /\ Len(out) \in Nat /\ Len(out) # 0 /\ tail \in Seq(Message) /\ Len(tail) = Len(out) - 1
      /\ \A i \in 1..(Len(out) - 1) : tail[i] = out[i + 1]
      /\ m = out[1] /\ m \in Message
  BY <1>1, HeadTailProperties, Places
<1> HIDE DEF m, tail
<1>4. m \in Seq(Bit)
  BY <1>3 DEF Message
<1> DEFINE more == [i \in 1..((n + 1) + 1) |-> IF i = (n + 1) + 1 THEN <<>> ELSE rest[i] \o m]
<1>5. \A i \in 1..(n + 1) : i \in 1..((n + 1) + 1) /\ i # (n + 1) + 1
  OBVIOUS
<1>6. ASSUME NEW i \in 1..(n + 1) PROVE rest[i] \o m \in Seq(Bit)
  BY <1>4, ConcatProperties
<1>7. /\ more \in [1..((n + 1) + 1) -> Seq(Bit)]
      /\ \A i \in 1..(n + 1) : more[i] = rest[i] \o m
      /\ more[(n + 1) + 1] = <<>>
  <2>1. <<>> \in Seq(Bit)
    OBVIOUS
  <2>2. \A i \in 1..((n + 1) + 1) : i # (n + 1) + 1 => i \in 1..(n + 1)
    OBVIOUS
  <2>3. (n + 1) + 1 \in 1..((n + 1) + 1)
    OBVIOUS
  <2>4. QED  BY <1>5, <1>6, <2>1, <2>2, <2>3
<1> HIDE DEF more
<1>8. more[1] = s \o m
  <2>1. 1 \in 1..(n + 1)
    OBVIOUS
  <2>2. QED  BY <1>2, <1>7, <2>1
<1>9. ASSUME NEW i \in 1..(n + 1) PROVE more[i] = ms[i] \o more[i + 1]
  <2>1. CASE i = n + 1
    <3>1. more[i] = <<>> \o m /\ more[i + 1] = <<>>
      BY <1>2, <1>7, <2>1
    <3>2. <<>> \o m = m /\ m \o <<>> = m
      BY <1>4, ConcatEmptySeq
    <3>3. 1 \in 1..Len(out)
      BY <1>3
    <3>4. ms[n + 1] = out[1]
      BY <1>2, <3>3
    <3>5. QED  BY <1>3, <2>1, <3>1, <3>2, <3>4
  <2>2. CASE i # n + 1
    <3>1. i \in 1..n /\ i + 1 \in 1..(n + 1)
      BY <2>2
    <3>2. rest[i] = ms[i] \o rest[i + 1]
      BY <1>2, <3>1
    <3>3. ms[i] \in Seq(Bit) /\ rest[i + 1] \in Seq(Bit)
      <4>1. i \in 1..Len(ms)
        BY <1>2, <1>3, <3>1
      <4>2. QED  BY <1>1, <3>1, <4>1, Places DEF Message
    <3>4. (ms[i] \o rest[i + 1]) \o m = ms[i] \o (rest[i + 1] \o m)
      <4>1. PICK a \in Seq(Bit) : a = ms[i]
        BY <3>3
      <4>2. PICK b \in Seq(Bit) : b = rest[i + 1]
        BY <3>3
      <4>3. a \in Seq(Bit) /\ b \in Seq(Bit)
        BY <4>1, <4>2
      <4>4. (a \o b) \o m = a \o (b \o m)
        BY <1>4, <4>3, ConcatAssociative, SMTT(60)
      <4>5. QED  BY <4>1, <4>2, <4>4
    <3>5. QED  BY <1>7, <3>1, <3>2, <3>4
  <2>3. QED  BY <2>1, <2>2
<1>10. Len(ms) = (n + 1) + Len(tail)
  BY <1>2, <1>3
<1>11. ASSUME NEW i \in 1..Len(tail) PROVE tail[i] = ms[(n + 1) + i]
  <2>1. i \in 1..(Len(out) - 1) /\ i + 1 \in 1..Len(out) /\ n + (i + 1) = (n + 1) + i
    BY <1>3
  <2>2. tail[i] = out[i + 1] /\ out[i + 1] = ms[n + (i + 1)]
    BY <1>2, <1>3, <2>1
  <2>3. QED  BY <2>1, <2>2
<1>12. s \o m \in Seq(Bit) /\ n + 1 \in Nat
  BY <1>1, <1>4, ConcatProperties
<1>13. Carried(s \o m, tail, ms)
  <2>1. Splits(s \o m, tail, ms, n + 1, more)
    BY <1>7, <1>8, <1>9, <1>10, <1>11, <1>12 DEF Splits
  <2>2. QED  BY <1>1, <1>3, <1>12, <2>1 DEF Carried
<1>14. QED  BY <1>13 DEF m, tail

\* An end that has written everything has more to say.
LEMMA CarrySay ==
  ASSUME NEW s, NEW ms, Carried(s, <<>>, ms), NEW out \in Seq(Message)
  PROVE  Carried(s, out, ms \o out)
<1>1. s \in Seq(Bit) /\ ms \in Seq(Message) /\ Len(ms) \in Nat /\ Len(out) \in Nat
  BY DEF Carried
<1>2. PICK n, rest : Splits(s, <<>>, ms, n, rest)
  BY DEF Carried
<1>m. /\ n \in Nat /\ rest \in [1..(n + 1) -> Seq(Bit)]
      /\ rest[1] = s /\ rest[n + 1] = <<>>
      /\ \A i \in 1..n : rest[i] = ms[i] \o rest[i + 1]
  BY <1>2 DEF Splits
<1>l. Len(ms) = n + Len(<<>>)
  BY <1>2 DEF Splits
<1>n. n \in Nat /\ rest \in [1..(n + 1) -> Seq(Bit)]
  BY <1>m
<1> USE <1>n
<1>3. Len(ms) = n
  BY <1>l
<1> DEFINE new == ms \o out
<1>4. /\ new \in Seq(Message) /\ Len(new) = n + Len(out)
      /\ \A i \in 1..(Len(ms) + Len(out)) :
           new[i] = IF i <= Len(ms) THEN ms[i] ELSE out[i - Len(ms)]
  BY <1>1, <1>3, ConcatProperties
<1> HIDE DEF new
<1>5. ASSUME NEW i \in 1..n PROVE rest[i] = new[i] \o rest[i + 1]
  <2>1. i \in 1..(Len(ms) + Len(out)) /\ i <= Len(ms)
    BY <1>1, <1>3
  <2>2. new[i] = ms[i]
    BY <1>4, <2>1
  <2>3. QED  BY <1>m, <2>2
<1>6. ASSUME NEW i \in 1..Len(out) PROVE out[i] = new[n + i]
  <2>1. n + i \in 1..(Len(ms) + Len(out)) /\ ~(n + i <= Len(ms)) /\ (n + i) - Len(ms) = i
    BY <1>1, <1>3
  <2>2. QED  BY <1>4, <2>1
<1>7. Carried(s, out, new)
  <2>1. Splits(s, out, new, n, rest)
    BY <1>m, <1>4, <1>5, <1>6 DEF Splits
  <2>2. QED  BY <1>1, <1>4, <2>1 DEF Carried
<1>8. QED  BY <1>7 DEF new

\* A read of as many units as the first message has takes that message.
LEMMA CarryRead ==
  ASSUME NEW s, NEW out, NEW ms, Carried(s, out, ms), s # <<>>
  PROVE  /\ ms # <<>> /\ ms[1] \in Message /\ Head(ms) = ms[1] /\ Tail(ms) \in Seq(Message)
         /\ Len(s) \in Nat /\ Len(s) >= Len(ms[1])
         /\ \A i \in 1..Len(ms[1]) : s[i] = ms[1][i]
         /\ Taken(s, Len(ms[1])) = ms[1]
         /\ Carried(Left(s, Len(ms[1])), out, Tail(ms))
<1>1. s \in Seq(Bit) /\ out \in Seq(Message) /\ ms \in Seq(Message)
      /\ Len(ms) \in Nat /\ Len(out) \in Nat /\ Len(s) \in Nat
  BY Places DEF Carried
<1>2. PICK n, rest :
        /\ n \in Nat /\ rest \in [1..(n + 1) -> Seq(Bit)]
        /\ Len(ms) = n + Len(out) /\ \A i \in 1..Len(out) : out[i] = ms[n + i]
        /\ rest[1] = s /\ rest[n + 1] = <<>>
        /\ \A i \in 1..n : rest[i] = ms[i] \o rest[i + 1]
  BY DEF Carried, Splits
<1>n. n \in Nat /\ rest \in [1..(n + 1) -> Seq(Bit)]
  BY <1>2
<1> USE <1>n
<1>3. n # 0
  BY <1>2
<1>4. ms # <<>> /\ 1 \in 1..n /\ 1 \in 1..Len(ms) /\ 2 \in 1..(n + 1)
  BY <1>1, <1>2, <1>3
<1> DEFINE m == ms[1]
           u == rest[2]
           tail == Tail(ms)
<1>5. /\ m \in Message /\ m \in Seq(Bit) /\ Len(m) \in Nat /\ u \in Seq(Bit) /\ Len(u) \in Nat
      /\ s = m \o u
  <2>1. m \in Message /\ m \in Seq(Bit)
    BY <1>1, <1>4, Places DEF Message
  <2>2. rest[1] = ms[1] \o rest[1 + 1]
    BY <1>2, <1>4
  <2>3. QED  BY <1>2, <1>4, <2>1, <2>2
<1>6. /\ Head(ms) = m /\ tail \in Seq(Message) /\ Len(tail) = Len(ms) - 1
      /\ \A i \in 1..(Len(ms) - 1) : tail[i] = ms[i + 1]
  BY <1>1, <1>4, HeadTailProperties
<1> HIDE DEF m, u, tail
<1>7. /\ Len(s) = Len(m) + Len(u)
      /\ \A i \in 1..(Len(m) + Len(u)) : s[i] = IF i <= Len(m) THEN m[i] ELSE u[i - Len(m)]
  BY <1>5, ConcatProperties
<1>8. Len(s) >= Len(m) /\ \A i \in 1..Len(m) : s[i] = m[i]
  <2>1. \A i \in 1..Len(m) : i \in 1..(Len(m) + Len(u)) /\ i <= Len(m)
    BY <1>5
  <2>2. QED  BY <1>5, <1>7, <2>1
<1>9. AtMost(s, Len(m)) = Len(m)
  BY <1>1, <1>5, <1>8 DEF AtMost
<1>10. Taken(s, Len(m)) = m
  <2> DEFINE t == SubSeq(s, 1, Len(m))
  <2>1. 1 \in 1..(Len(s) + 1) /\ Len(m) \in 0..Len(s)
    BY <1>1, <1>5, <1>8
  <2>2. t \in Seq(Bit) /\ Len(t) = Len(m) /\ \A i \in 1..Len(m) : t[i] = s[i]
    BY <1>1, <2>1, Parts
  <2> HIDE DEF t
  <2>3. t = m
    BY <1>5, <1>8, <2>2, SeqEqual
  <2>4. QED  BY <1>9, <2>3 DEF Taken, t
<1>11. Left(s, Len(m)) = u
  <2> DEFINE t == SubSeq(s, Len(m) + 1, Len(s))
  <2>1. Len(m) + 1 \in 1..(Len(s) + 1) /\ Len(s) - (Len(m) + 1) + 1 = Len(u)
    BY <1>1, <1>5, <1>7
  <2>2. /\ t \in Seq(Bit) /\ Len(t) = Len(s) - (Len(m) + 1) + 1
        /\ \A i \in 1..(Len(s) - (Len(m) + 1) + 1) : t[i] = s[(Len(m) + 1) + i - 1]
    BY <1>1, <2>1, Parts
  <2> HIDE DEF t
  <2>3. ASSUME NEW i \in 1..Len(u) PROVE t[i] = u[i]
    <3>1. /\ Len(m) + i \in 1..(Len(m) + Len(u)) /\ ~(Len(m) + i <= Len(m))
          /\ (Len(m) + i) - Len(m) = i /\ (Len(m) + 1) + i - 1 = Len(m) + i
      BY <1>5
    <3>2. t[i] = s[Len(m) + i]
      BY <2>1, <2>2, <3>1
    <3>3. s[Len(m) + i] = u[i]
      BY <1>7, <3>1
    <3>4. QED  BY <3>2, <3>3
  <2>4. t = u
    BY <1>5, <2>1, <2>2, <2>3, SeqEqual
  <2>5. QED  BY <1>9, <2>4 DEF Left, t
<1>12. Carried(u, out, tail)
  <2> DEFINE less == [i \in 1..((n - 1) + 1) |-> rest[i + 1]]
  <2>1. n - 1 \in Nat /\ (n - 1) + 1 = n
    BY <1>3
  <2>2. \A i \in 1..((n - 1) + 1) : i + 1 \in 1..(n + 1)
    BY <2>1
  <2>3. less \in [1..((n - 1) + 1) -> Seq(Bit)]
    BY <2>2
  <2>4. less[1] = u /\ less[(n - 1) + 1] = <<>>
    <3>1. 1 \in 1..((n - 1) + 1) /\ (n - 1) + 1 \in 1..((n - 1) + 1) /\ ((n - 1) + 1) + 1 = n + 1
      BY <2>1, <1>4
    <3>2. QED  BY <1>2, <3>1 DEF u
  <2>5. ASSUME NEW i \in 1..(n - 1) PROVE less[i] = tail[i] \o less[i + 1]
    <3>1. i \in 1..((n - 1) + 1) /\ i + 1 \in 1..((n - 1) + 1) /\ i + 1 \in 1..n
      BY <2>1
    <3>2. i \in 1..(Len(ms) - 1)
      BY <1>1, <1>2, <2>1
    <3>3. rest[i + 1] = ms[i + 1] \o rest[(i + 1) + 1]
      BY <1>2, <3>1
    <3>4. tail[i] = ms[i + 1]
      BY <1>6, <3>2
    <3>5. QED  BY <3>1, <3>3, <3>4
  <2> HIDE DEF less
  <2>6. Len(tail) = (n - 1) + Len(out)
    BY <1>1, <1>2, <1>6
  <2>7. ASSUME NEW i \in 1..Len(out) PROVE out[i] = tail[(n - 1) + i]
    <3>1. (n - 1) + i \in 1..(Len(ms) - 1) /\ ((n - 1) + i) + 1 = n + i
      BY <1>1, <1>2, <2>1
    <3>2. QED  BY <1>2, <1>6, <3>1
  <2>8. Splits(u, out, tail, n - 1, less)
    BY <2>1, <2>3, <2>4, <2>5, <2>6, <2>7 DEF Splits
  <2>9. QED  BY <1>1, <1>5, <1>6, <2>8 DEF Carried
<1>13. QED  BY <1>1, <1>4, <1>5, <1>6, <1>8, <1>10, <1>11, <1>12 DEF m, tail

-----------------------------------------------------------------------------
(* The messages of call k.                                                 *)

Mark(is, v, k) == [is |-> is, v |-> v, of |-> k]
Asks(op, len, k) == <<Mark(op, len, k)>>
Signal(c, k) == <<Mark(c, 0, k)>>
Number(n, k) == <<Mark("num", n, k), Mark("hi", 0, k)>>
Name(k) == [i \in 1..PathLen |-> Mark("path", 0, k)]
Bytes(n, k) == [i \in 1..n |-> Mark("data", 0, k)]

\* The messages are those the two ends write.
LEMMA Wording ==
  /\ \A op, len : Request(op, len) = Asks(op, len, ncalls)
  /\ \A c : Code(c) = Signal(c, ncalls)
  /\ \A n : Len8(n) = Number(n, ncalls)
  /\ Path = Name(ncalls)
  /\ \A n : Data(n) = Bytes(n, ncalls)
BY DEF Request, Code, Len8, Path, Data, Unit, Mark, Asks, Signal, Number, Name, Bytes

\* A request is one unit, which spells it and nothing else.
LEMMA AsksOne ==
  ASSUME NEW op \in Ops, NEW len \in Int, NEW k \in Int
  PROVE  /\ Asks(op, len, k) \in Message /\ Len(Asks(op, len, k)) = 1
         /\ Asks(op, len, k)[1].is = op /\ Asks(op, len, k)[1].of = k
         /\ Spells(Asks(op, len, k)[1]) = {[op |-> op, len |-> len]}
<1>1. Mark(op, len, k) \in Bit /\ Mark(op, len, k).is = op /\ Mark(op, len, k).v = len /\ Mark(op, len, k).of = k
  BY DEF Mark, Bit, Words
<1>2. Asks(op, len, k) \in Seq(Bit) /\ Len(Asks(op, len, k)) = 1 /\ Asks(op, len, k)[1] = Mark(op, len, k)
  BY <1>1 DEF Asks
<1>3. Asks(op, len, k) # <<>>
  BY <1>2
<1>4. QED  BY <1>1, <1>2, <1>3 DEF Message, Spells

\* An answer is one unit, which is taken for itself.
LEMMA SignalOne ==
  ASSUME NEW c \in Codes, NEW k \in Int
  PROVE  /\ Signal(c, k) \in Message /\ Len(Signal(c, k)) = 1
         /\ Answers(Signal(c, k)[1]) = {c}
<1>1. Mark(c, 0, k) \in Bit /\ Mark(c, 0, k).is = c
  BY DEF Mark, Bit, Words
<1>2. Signal(c, k) \in Seq(Bit) /\ Len(Signal(c, k)) = 1 /\ Signal(c, k)[1] = Mark(c, 0, k)
  BY <1>1 DEF Signal
<1>3. Signal(c, k) # <<>>
  BY <1>2
<1>4. QED  BY <1>1, <1>2, <1>3 DEF Message, Answers

\* A length is two units, which are one length.
LEMMA NumberTwo ==
  ASSUME NEW n \in Int, NEW k \in Int
  PROVE  /\ Number(n, k) \in Message /\ Len(Number(n, k)) = 2
         /\ IsLength(Number(n, k)) /\ Lengths(Number(n, k)) = {n}
         /\ Number(n, k)[1].of = k
<1> DEFINE a == Mark("num", n, k)
           b == Mark("hi", 0, k)
<1>1. a \in Bit /\ b \in Bit /\ a.is = "num" /\ a.v = n /\ b.is = "hi" /\ a.of = k
  BY DEF Mark, Bit, Words
<1> HIDE DEF a, b
<1>2. <<a, b>> \in Seq(Bit) /\ Len(<<a, b>>) = 2 /\ <<a, b>>[1] = a /\ <<a, b>>[2] = b
  BY <1>1
<1>3. <<a, b>> # <<>>
  BY <1>2
<1>4. Number(n, k) = <<a, b>>
  BY DEF Number, a, b
<1>5. IsLength(Number(n, k))
  BY <1>1, <1>2, <1>4 DEF IsLength
<1>6. QED  BY <1>1, <1>2, <1>3, <1>4, <1>5 DEF Message, Lengths

\* A path and the bytes of a file are as many units as they have.
LEMMA Rows ==
  ASSUME NEW n \in Nat \ {0}, NEW is \in Words, NEW k \in Int,
         NEW r, r = [i \in 1..n |-> Mark(is, 0, k)]
  PROVE  /\ r \in Message /\ Len(r) = n
         /\ \A i \in 1..n : r[i].is = is /\ r[i].of = k
<1>1. Mark(is, 0, k) \in Bit /\ Mark(is, 0, k).is = is /\ Mark(is, 0, k).of = k
  BY DEF Mark, Bit
<1>2. r \in Seq(Bit) /\ Len(r) = n
  BY <1>1
<1>3. r # <<>>
  BY <1>2
<1>4. QED  BY <1>1, <1>2, <1>3 DEF Message

\* A path is as long as it is.
LEMMA NameRow ==
  ASSUME NEW k \in Int
  PROVE  /\ Name(k) \in Message /\ Len(Name(k)) = PathLen
         /\ \A i \in 1..PathLen : Name(k)[i].is = "path" /\ Name(k)[i].of = k
<1>1. PathLen \in Nat \ {0} /\ "path" \in Words
  BY ProtocolAssumption DEF Words
<1>2. PICK r : r = [i \in 1..PathLen |-> Mark("path", 0, k)]
  OBVIOUS
<1>3. /\ r \in Message /\ Len(r) = PathLen
      /\ \A i \in 1..PathLen : r[i].is = "path" /\ r[i].of = k
  BY <1>1, <1>2, Rows
<1>4. QED  BY <1>2, <1>3 DEF Name

\* So are the bytes of a file.
LEMMA BytesRow ==
  ASSUME NEW n \in Nat \ {0}, NEW k \in Int
  PROVE  /\ Bytes(n, k) \in Message /\ Len(Bytes(n, k)) = n
         /\ \A i \in 1..n : Bytes(n, k)[i].is = "data" /\ Bytes(n, k)[i].of = k
<1>1. "data" \in Words
  BY DEF Words
<1>2. PICK r : r = [i \in 1..n |-> Mark("data", 0, k)]
  OBVIOUS
<1>3. /\ r \in Message /\ Len(r) = n
      /\ \A i \in 1..n : r[i].is = "data" /\ r[i].of = k
  BY <1>1, <1>2, Rows
<1>4. QED  BY <1>2, <1>3 DEF Bytes

\* Bytes that fit a chunk arrive in one piece.
LEMMA OnePiece ==
  ASSUME NEW n \in Nat \ {0}, NEW k \in Int, n <= Chunk
  PROVE  Pieces(Bytes(n, k)) = <<Bytes(n, k)>>
<1>1. Len(Bytes(n, k)) = n
  BY BytesRow
<1>2. ~(Len(Bytes(n, k)) > Chunk)
  BY <1>1, ProtocolAssumption
<1>3. QED  BY <1>2 DEF Pieces

\* Messages written one after the other.
LEMMA Together ==
  ASSUME NEW a \in Message, NEW b \in Message
  PROVE  <<a, b>> \in Seq(Message) /\ <<a>> \o <<b>> = <<a, b>>
<1>1. <<a>> \in Seq(Message) /\ <<b>> \in Seq(Message) /\ <<a, b>> \in Seq(Message)
  OBVIOUS
<1>2. PICK c : c = <<a>> \o <<b>>
  OBVIOUS
<1>3. /\ c \in Seq(Message) /\ Len(c) = 2 /\ c[1] = a /\ c[2] = b
  <2>1. Len(<<a>>) = 1 /\ Len(<<b>>) = 1 /\ <<a>>[1] = a /\ <<b>>[1] = b
    OBVIOUS
  <2>2. /\ c \in Seq(Message) /\ Len(c) = Len(<<a>>) + Len(<<b>>)
        /\ \A i \in 1..(Len(<<a>>) + Len(<<b>>)) :
             c[i] = IF i <= Len(<<a>>) THEN <<a>>[i] ELSE <<b>>[i - Len(<<a>>)]
    BY <1>1, <1>2, ConcatProperties
  <2>3. QED  BY <2>1, <2>2
<1>4. <<a, b>> = c
  BY <1>1, <1>3, SeqEqual
<1>5. QED  BY <1>1, <1>2, <1>4

\* So are three of them.
LEMMA TogetherThree ==
  ASSUME NEW a \in Message, NEW b \in Message, NEW c \in Message
  PROVE  <<a, b, c>> \in Seq(Message) /\ <<a>> \o <<b, c>> = <<a, b, c>>
<1>1. <<a>> \in Seq(Message) /\ <<b, c>> \in Seq(Message) /\ <<a, b, c>> \in Seq(Message)
  OBVIOUS
<1>2. PICK d : d = <<a>> \o <<b, c>>
  OBVIOUS
<1>3. /\ d \in Seq(Message) /\ Len(d) = 3 /\ d[1] = a /\ d[2] = b /\ d[3] = c
  <2>1. Len(<<a>>) = 1 /\ Len(<<b, c>>) = 2 /\ <<a>>[1] = a /\ <<b, c>>[1] = b /\ <<b, c>>[2] = c
    OBVIOUS
  <2>2. /\ d \in Seq(Message) /\ Len(d) = Len(<<a>>) + Len(<<b, c>>)
        /\ \A i \in 1..(Len(<<a>>) + Len(<<b, c>>)) :
             d[i] = IF i <= Len(<<a>>) THEN <<a>>[i] ELSE <<b, c>>[i - Len(<<a>>)]
    BY <1>1, <1>2, ConcatProperties
  <2>3. QED  BY <2>1, <2>2
<1>4. <<a, b, c>> = d
  BY <1>1, <1>3, SeqEqual
<1>5. QED  BY <1>1, <1>2, <1>4

\* A file that meets no trouble is sent as its length and its bytes.
LEMMA WholeFile ==
  ASSUME NEW n \in Nat, FileRisks(n) = {}, ncalls \in Nat
  PROVE  /\ n \in Nat \ {0} /\ n <= Chunk
         /\ File(n) = <<Number(n, ncalls)>> \o <<Bytes(n, ncalls)>>
<1>1. "empty file" \notin FileRisks(n) /\ "long file" \notin FileRisks(n)
  OBVIOUS
<1>2. n # 0 /\ ~(n > Chunk)
  BY <1>1 DEF FileRisks
<1>3. n <= Chunk
  BY <1>2, ProtocolAssumption
<1>4. Pieces(Data(n)) = <<Bytes(n, ncalls)>>
  BY <1>2, <1>3, OnePiece, Wording
<1>5. QED  BY <1>2, <1>3, <1>4, Wording DEF File

\* A read of nothing takes nothing.
LEMMA LeftNone ==
  ASSUME NEW s \in Seq(Bit)
  PROVE  Left(s, 0) = s
<1>1. AtMost(s, 0) = 0
  BY DEF AtMost
<1>2. 0 + 1 \in 1..(Len(s) + 1) /\ Len(s) - (0 + 1) + 1 = Len(s) /\ Len(s) \in Nat
  OBVIOUS
<1> DEFINE t == SubSeq(s, 0 + 1, Len(s))
<1>3. /\ t \in Seq(Bit) /\ Len(t) = Len(s) - (0 + 1) + 1
      /\ \A i \in 1..(Len(s) - (0 + 1) + 1) : t[i] = s[(0 + 1) + i - 1]
  BY <1>2, Parts
<1> HIDE DEF t
<1>4. \A i \in 1..Len(s) : t[i] = s[i]
  BY <1>2, <1>3
<1>5. t = s
  BY <1>2, <1>3, <1>4, SeqEqual
<1>6. QED  BY <1>1, <1>5 DEF Left, t

-----------------------------------------------------------------------------
(* What the client makes of the answers.  A place is where the client is   *)
(* in its call, with the number that goes with it: the units it reads      *)
(* next, or what the call returns.                                         *)

PathOps == {"OPEN", "CLOSE", "REMOVE", "READ"}
WriteOps == {"WRITE", "APPEND"}

Returned(c) == <<"ret", IF c = "SUCCESS" THEN 0 ELSE -1>>
FileRead(op) == CASE op = "READ" -> <<"ret", 0>>
                  [] op = "READN" -> <<"plen", 0>>
                  [] OTHER -> <<"more", 0>>

\* The answers a call may be given at place p, and where each leads.
HeardAnswer(call, k, p, m, q) ==
  p = <<"answer", 0>> /\ \E c \in Codes :
    /\ m = Signal(c, k)
    /\ \/ call.op \in PathOps \ {"READ"} /\ q = Returned(c)
       \/ call.op = "READ" /\ q = (IF c = "SUCCESS" THEN <<"dlen", 0>> ELSE Returned(c))
       \/ call.op \in WriteOps /\ c = "SUCCESS" /\ q = <<"sends", 0>>
       \/ call.op \in WriteOps /\ c = "FAILURE" /\ q = Returned(c)
       \/ call.op = "APPEND" /\ c = "EVICT" /\ q = <<"asked", 0>>
HeardFinal(call, k, p, m, q) ==
  p = <<"final", 0>> /\ \E c \in Codes : m = Signal(c, k) /\ q = Returned(c)
HeardMore(call, k, p, m, q) ==
  p = <<"more", 0>> /\ call.op = "APPEND" /\
    \/ m = Signal("EVICT", k) /\ q = <<"plen", 0>>
    \/ m = Signal("SUCCESS", k) /\ q = <<"sends", 0>>
HeardPlen(call, k, p, m, q) ==
  p = <<"plen", 0>> /\
    \/ m = Number(PathLen, k) /\ q = <<"path", PathLen>>
    \/ call.op = "READN" /\ m = Number(0, k) /\ q = <<"gone", 0>>
HeardPath(call, k, p, m, q) ==
  p = <<"path", PathLen>> /\ m = Name(k) /\ q = <<"dlen", 0>>
HeardDlen(call, k, p, m, q) ==
  p = <<"dlen", 0>> /\ \E n \in 1..MaxData : m = Number(n, k) /\ q = <<"data", n>>
HeardData(call, k, p, m, q) ==
  \E n \in 1..MaxData : p = <<"data", n>> /\ m = Bytes(n, k) /\ q = FileRead(call.op)

Heard(call, k, p, m, q) ==
  \/ HeardAnswer(call, k, p, m, q) \/ HeardFinal(call, k, p, m, q)
  \/ HeardMore(call, k, p, m, q) \/ HeardPlen(call, k, p, m, q)
  \/ HeardPath(call, k, p, m, q) \/ HeardDlen(call, k, p, m, q)
  \/ HeardData(call, k, p, m, q)

\* The messages ms take the client from place p to place e.
Chain(call, k, p, ms, e) ==
  \E ks : /\ ks[1] = p /\ ks[Len(ms) + 1] = e
          /\ \A i \in 1..Len(ms) : Heard(call, k, ks[i], ms[i], ks[i + 1])

\* No message, no way.
LEMMA ChainNone ==
  ASSUME NEW call, NEW k, NEW p
  PROVE  Chain(call, k, p, <<>>, p)
<1> DEFINE ks == [i \in 1..1 |-> p]
<1>1. ks[1] = p /\ ks[Len(<<>>) + 1] = p
  OBVIOUS
<1>2. \A i \in 1..Len(<<>>) : FALSE
  OBVIOUS
<1>3. QED  BY <1>1, <1>2 DEF Chain

\* Where no message is on its way the client is at the end of its way.
LEMMA ChainEnd ==
  ASSUME NEW call, NEW k, NEW p, NEW e, Chain(call, k, p, <<>>, e)
  PROVE  p = e
<1>1. PICK ks : ks[1] = p /\ ks[Len(<<>>) + 1] = e
  BY DEF Chain
<1>2. Len(<<>>) + 1 = 1
  OBVIOUS
<1>3. QED  BY <1>1, <1>2

\* One message is one step.
LEMMA ChainOne ==
  ASSUME NEW call, NEW k, NEW p, NEW m, NEW e, Heard(call, k, p, m, e)
  PROVE  Chain(call, k, p, <<m>>, e)
<1> DEFINE ks == <<p, e>>
<1>1. ks[1] = p /\ ks[Len(<<m>>) + 1] = e /\ Len(<<m>>) = 1 /\ <<m>>[1] = m /\ ks[1 + 1] = e
  OBVIOUS
<1> HIDE DEF ks
<1>2. \A i \in 1..Len(<<m>>) : Heard(call, k, ks[i], <<m>>[i], ks[i + 1])
  BY <1>1
<1>3. QED  BY <1>1, <1>2 DEF Chain

\* The first message is one step, and the others go on from there.
LEMMA ChainFirst ==
  ASSUME NEW call, NEW k, NEW p, NEW e, NEW ms \in Seq(Message), ms # <<>>,
         Chain(call, k, p, ms, e)
  PROVE  \E q : Heard(call, k, p, ms[1], q) /\ Chain(call, k, q, Tail(ms), e)
<1>1. PICK ks : /\ ks[1] = p /\ ks[Len(ms) + 1] = e
                /\ \A i \in 1..Len(ms) : Heard(call, k, ks[i], ms[i], ks[i + 1])
  BY DEF Chain
<1>2. PICK tail : tail = Tail(ms)
  OBVIOUS
<1>3. /\ Len(ms) \in Nat /\ Len(ms) # 0 /\ Len(tail) = Len(ms) - 1
      /\ \A i \in 1..(Len(ms) - 1) : tail[i] = ms[i + 1]
  BY <1>2, HeadTailProperties, Places
<1> DEFINE js == [i \in 1..Len(ms) |-> ks[i + 1]]
<1>4. 1 \in 1..Len(ms) /\ Len(tail) + 1 \in 1..Len(ms) /\ (Len(tail) + 1) + 1 = Len(ms) + 1
  BY <1>3
<1>5. js[1] = ks[1 + 1] /\ js[Len(tail) + 1] = e
  BY <1>1, <1>4
<1>6. ASSUME NEW i \in 1..Len(tail)
      PROVE  Heard(call, k, js[i], tail[i], js[i + 1])
  <2>1. i \in 1..(Len(ms) - 1) /\ i \in 1..Len(ms) /\ i + 1 \in 1..Len(ms)
    BY <1>3
  <2>2. js[i] = ks[i + 1] /\ js[i + 1] = ks[(i + 1) + 1] /\ tail[i] = ms[i + 1]
    BY <1>3, <2>1
  <2>3. QED  BY <1>1, <2>1, <2>2
<1> HIDE DEF js
<1>7. Heard(call, k, p, ms[1], ks[1 + 1])
  BY <1>1, <1>4
<1>8. Chain(call, k, ks[1 + 1], tail, e)
  BY <1>5, <1>6 DEF Chain
<1>9. QED  BY <1>2, <1>7, <1>8

\* A way that ends where another begins goes on.
LEMMA ChainJoin ==
  ASSUME NEW call, NEW k, NEW p, NEW q, NEW e, NEW ms \in Seq(Message), NEW ns \in Seq(Message),
         Chain(call, k, p, ms, q), Chain(call, k, q, ns, e)
  PROVE  Chain(call, k, p, ms \o ns, e)
<1>1. PICK ks : /\ ks[1] = p /\ ks[Len(ms) + 1] = q
                /\ \A i \in 1..Len(ms) : Heard(call, k, ks[i], ms[i], ks[i + 1])
  BY DEF Chain
<1>2. PICK js : /\ js[1] = q /\ js[Len(ns) + 1] = e
                /\ \A i \in 1..Len(ns) : Heard(call, k, js[i], ns[i], js[i + 1])
  BY DEF Chain
<1>3. PICK all : all = ms \o ns
  OBVIOUS
<1>4. Len(ms) \in Nat /\ Len(ns) \in Nat
  BY Places
<1>5. /\ Len(all) = Len(ms) + Len(ns)
      /\ \A i \in 1..(Len(ms) + Len(ns)) : all[i] = IF i <= Len(ms) THEN ms[i] ELSE ns[i - Len(ms)]
  BY <1>3, ConcatProperties
<1>6. PICK a \in Nat : a = Len(ms)
  BY <1>4
<1>7. PICK b \in Nat : b = Len(ns)
  BY <1>4
<1> DEFINE ls == [i \in 1..((a + b) + 1) |-> IF i <= a THEN ks[i] ELSE js[i - a]]
<1>8. \A i \in 1..((a + b) + 1) : ls[i] = IF i <= a THEN ks[i] ELSE js[i - a]
  OBVIOUS
<1> HIDE DEF ls
<1>9. \A i \in 1..(a + 1) : ls[i] = ks[i]
  <2> TAKE i \in 1..(a + 1)
  <2>1. i \in 1..((a + b) + 1)
    OBVIOUS
  <2>2. CASE i <= a
    BY <1>8, <2>1, <2>2
  <2>3. CASE ~(i <= a)
    <3>1. i = a + 1 /\ i - a = 1
      BY <2>3
    <3>2. QED  BY <1>1, <1>2, <1>6, <1>8, <2>1, <2>3, <3>1
  <2>4. QED  BY <2>2, <2>3
<1>10. \A j \in 1..(b + 1) : ls[a + j] = js[j]
  <2> TAKE j \in 1..(b + 1)
  <2>1. a + j \in 1..((a + b) + 1) /\ ~(a + j <= a) /\ (a + j) - a = j
    OBVIOUS
  <2>2. QED  BY <1>8, <2>1
<1>11. ls[1] = p /\ ls[Len(all) + 1] = e
  <2>1. 1 \in 1..(a + 1) /\ b + 1 \in 1..(b + 1) /\ (a + b) + 1 = a + (b + 1)
    OBVIOUS
  <2>2. QED  BY <1>1, <1>2, <1>5, <1>6, <1>7, <1>9, <1>10, <2>1
<1>12. ASSUME NEW i \in 1..Len(all) PROVE Heard(call, k, ls[i], all[i], ls[i + 1])
  <2>1. i \in 1..(a + b)
    BY <1>5, <1>6, <1>7
  <2>2. CASE i <= a
    <3>1. i \in 1..a /\ i \in 1..(a + 1) /\ i + 1 \in 1..(a + 1)
      BY <2>1, <2>2
    <3>2. ls[i] = ks[i] /\ ls[i + 1] = ks[i + 1]
      BY <1>9, <3>1
    <3>3. all[i] = ms[i]
      BY <1>5, <1>6, <1>7, <2>1, <2>2
    <3>4. QED  BY <1>1, <1>6, <3>1, <3>2, <3>3
  <2>3. CASE ~(i <= a)
    <3>1. PICK j \in 1..b : i = a + j
      <4>1. i - a \in 1..b /\ i = a + (i - a)
        BY <2>1, <2>3
      <4>2. QED  BY <4>1
    <3>2. j \in 1..(b + 1) /\ j + 1 \in 1..(b + 1) /\ i + 1 = a + (j + 1) /\ i - a = j
      BY <3>1
    <3>3. ls[i] = js[j] /\ ls[i + 1] = js[j + 1]
      BY <1>10, <3>1, <3>2
    <3>4. all[i] = ns[j]
      BY <1>5, <1>6, <1>7, <2>1, <2>3, <3>2
    <3>5. QED  BY <1>2, <1>7, <3>1, <3>3, <3>4
  <2>4. QED  BY <2>2, <2>3
<1>13. Chain(call, k, p, all, e)
  BY <1>11, <1>12 DEF Chain
<1>14. QED  BY <1>3, <1>13

-----------------------------------------------------------------------------
(* Where the two ends are while nothing has parted them.                   *)

Caller == [call : Call \cup {NoCall},
           at : {"idle", "answer", "final", "more", "plen", "path", "dlen",
                 "data", "ret", "gone"},
           need : Int, ret : Int]
Handler == [at : {"poll", "path", "files", "len", "ask", "evict", "data",
                  "dropped", "down"},
            op : Ops \cup {"NONE"}, of : Int, ok : BOOLEAN, need : Int, back : BOOLEAN,
            files : Int, freed : BOOLEAN, held : BOOLEAN]

Place == <<client.at, IF client.at = "ret" THEN client.ret
                      ELSE IF client.at \in {"path", "data"} THEN client.need ELSE 0>>

\* The server is between two requests, or at a place in the client's.
Polls == server = Polling
Serves(at) ==
  /\ server.at = at /\ server.op = client.call.op /\ server.of = ncalls
  /\ server.ok /\ ~server.held /\ ncalls \notin done

Sized == client.call.size \in 1..Chunk
Writes(at) == Serves(at) /\ client.call.op \in WriteOps /\ Sized
              /\ server.need = client.call.size

\* Where the server is when the client, having read what is on its way to
\* it, will be at place e.
Fits(e) ==
  \/ /\ e \in {<<"ret", 0>>, <<"ret", -1>>} /\ Polls
     /\ \/ e = <<"ret", 0>> <=> ncalls \in done
        \/ client.call.op = "READN" /\ client.call.n = 0
        \/ client.call.op = "APPEND" /\ client.call.size = 0
  \/ e = <<"gone", 0>> /\ client.call.op = "READN" /\ Polls
  \/ e = <<"sends", 0>> /\ Writes("data")
  \/ e = <<"asked", 0>> /\ Writes("ask") /\ client.call.op = "APPEND"
  \/ e = <<"more", 0>> /\ Writes("evict") /\ client.call.op = "APPEND" /\ server.back
  \/ e = <<"plen", 0>> /\ Serves("files") /\ client.call.op = "READN"

\* What is on its way to the server after the request.
Named(ups) ==
  \/ client.call.op \in PathOps /\ ups = <<Name(ncalls)>>
  \/ client.call.op \in WriteOps /\ Sized
     /\ ups = <<Name(ncalls), Number(client.call.size, ncalls)>>

\* What is on its way to the server, and where both ends are.
Asking(ups) ==
  \/ /\ client.at = "answer" /\ Polls /\ ncalls \notin done
     /\ \E rest : Named(rest) /\ ups = <<Asks(client.call.op, PathLen, ncalls)>> \o rest
  \/ client.at = "answer" /\ Serves("path") /\ server.need = PathLen /\ Named(ups)
  \/ client.at = "answer" /\ Serves("len") /\ client.call.op \in WriteOps /\ Sized
     /\ ups = <<Number(client.call.size, ncalls)>>
  \/ client.at = "plen" /\ Polls /\ ncalls \notin done /\ client.call.op = "READN"
     /\ ups = <<Asks("READN", client.call.n, ncalls)>>
  \/ client.at = "more" /\ Writes("ask") /\ client.call.op = "APPEND" /\ ups = <<Number(1, ncalls)>>
  \/ client.at = "final" /\ Writes("ask") /\ client.call.op = "APPEND"
     /\ ups = <<Number(0, ncalls), Bytes(client.call.size, ncalls)>>
  \/ client.at = "final" /\ Writes("data") /\ ups = <<Bytes(client.call.size, ncalls)>>

Resting == client.at = "idle" /\ Polls /\ ncalls \notin done

\* Between two calls nothing is on its way; in a call one end talks.
Talk(ups, downs) ==
  \/ Resting /\ ups = <<>> /\ downs = <<>>
  \/ Asking(ups) /\ downs = <<>>
  \/ ups = <<>> /\ client.at # "idle"
     /\ \E e : Chain(client.call, ncalls, Place, downs, e) /\ Fits(e)

Agreed ==
  /\ ncalls \in Nat /\ done \subseteq Nat /\ \A d \in done : d <= ncalls
  /\ client \in Caller /\ server \in Handler
  /\ client.at = "idle" \/ client.call \in Calls
  /\ \E ups, downs : Carried(c2s, cOut, ups) /\ Carried(s2c, sOut, downs) /\ Talk(ups, downs)

Conversation == trouble = {} => Agreed

\* Calls are typed, and what they ask for is less than any nonsense.
LEMMA CallTyped ==
  ASSUME client \in Caller, client.call \in Calls
  PROVE  /\ client.call \in Call /\ client.call.op \in Ops \ {"OTHER"}
         /\ client.call.size \in Nat /\ client.call.n \in Nat /\ client.call.dir \in BOOLEAN
         /\ client.call.size < Long
BY ProtocolAssumption DEF Call

\* While both ends agree the server runs.
LEMMA StaysUp ==
  ASSUME Agreed
  PROVE  server.at \notin {"down", "dropped"} /\ Up
<1>1. PICK ups, downs : Talk(ups, downs)
  BY DEF Agreed
<1>2. Polling.at = "poll"
  BY DEF Polling
<1>3. Polls \/ \E at \in {"path", "len", "files", "data", "ask", "evict"} : Serves(at)
  BY <1>1 DEF Talk, Resting, Asking, Fits, Writes
<1>4. QED  BY <1>2, <1>3 DEF Polls, Serves, Up

\* A place names where the client is.
LEMMA PlaceAt ==
  ASSUME NEW at, client.at = at
  PROVE  /\ Place[1] = at
         /\ at \notin {"path", "data", "ret"} => Place = <<at, 0>>
         /\ at \in {"path", "data"} => Place = <<at, client.need>>
         /\ at = "ret" => Place = <<at, client.ret>>
BY DEF Place

\* No message is read between two places of which the first is an end.
LEMMA NoWay ==
  ASSUME NEW call, NEW k, NEW p, NEW m, NEW q, Heard(call, k, p, m, q)
  PROVE  /\ p[1] \notin {"ret", "gone", "sends", "asked"}
         /\ p[1] \in {"answer", "final", "more", "plen", "path", "dlen", "data"}
BY DEF Heard, HeardAnswer, HeardFinal, HeardMore, HeardPlen, HeardPath, HeardDlen, HeardData

\* The client hears message m, which leads it to q; ms are the others.
Hearing(m, q, ms, e) ==
  /\ Carried(c2s, cOut, <<>>) /\ client.at # "idle" /\ client.call \in Calls
  /\ Heard(client.call, ncalls, Place, m, q) /\ m \in Message
  /\ s2c # <<>> /\ s2c[1] = m[1] /\ Taken(s2c, Len(m)) = m
  /\ Carried(Left(s2c, Len(m)), sOut, ms)
  /\ Chain(client.call, ncalls, q, ms, e) /\ Fits(e)

\* A client at a read has something to hear.
LEMMA Hears ==
  ASSUME Agreed, NEW at, at # "idle", Waiting(at)
  PROVE  \E m, q, ms, e : Hearing(m, q, ms, e)
<1>1. PICK ups, downs : Carried(c2s, cOut, ups) /\ Carried(s2c, sOut, downs) /\ Talk(ups, downs)
  BY DEF Agreed
<1>2. client.at = at /\ s2c # <<>>
  BY StaysUp DEF Waiting
<1>3. downs # <<>>
  BY <1>1, <1>2, CarryNothing
<1>4. PICK e : ups = <<>> /\ Chain(client.call, ncalls, Place, downs, e) /\ Fits(e)
  BY <1>1, <1>2, <1>3 DEF Talk
<1>5. client.call \in Calls
  BY <1>2 DEF Agreed
<1>6. downs \in Seq(Message)
  BY <1>1 DEF Carried
<1>7. PICK q : Heard(client.call, ncalls, Place, downs[1], q)
               /\ Chain(client.call, ncalls, q, Tail(downs), e)
  BY <1>3, <1>4, <1>6, ChainFirst
<1>8. /\ downs[1] \in Message /\ Taken(s2c, Len(downs[1])) = downs[1]
      /\ Carried(Left(s2c, Len(downs[1])), sOut, Tail(downs))
      /\ \A i \in 1..Len(downs[1]) : s2c[i] = downs[1][i]
  BY <1>1, <1>2, CarryRead
<1>9. 1 \in 1..Len(downs[1])
  <2>1. downs[1] \in Seq(Bit) /\ downs[1] # <<>>
    BY <1>8 DEF Message
  <2>2. QED  BY <2>1, Places
<1>10. Hearing(downs[1], q, Tail(downs), e)
  BY <1>1, <1>2, <1>4, <1>5, <1>7, <1>8, <1>9 DEF Hearing
<1>11. QED  BY <1>10

\* Having heard it the client is where it leads.
LEMMA HeardOn ==
  ASSUME Agreed, NEW m, NEW q, NEW ms, NEW e, Hearing(m, q, ms, e),
         client' \in Caller, client'.call = client.call, client'.at # "idle", Place' = q,
         s2c' = Left(s2c, Len(m)), cOut' = cOut,
         UNCHANGED <<c2s, sOut, server, ncalls, done>>
  PROVE  Agreed'
<1>1. Carried(c2s, cOut, <<>>)' /\ Carried(s2c, sOut, ms)'
  BY DEF Hearing
<1>2. Fits(e)'
  BY DEF Hearing, Fits, Writes, Serves, Sized, Polls
<1>3. Chain(client.call, ncalls, Place, ms, e)'
  BY DEF Hearing
<1>4. Talk(<<>>, ms)'
  BY <1>2, <1>3 DEF Talk
<1>5. (client.call \in Calls)'
  BY DEF Hearing
<1>6. QED  BY <1>1, <1>4, <1>5 DEF Agreed

\* At the end of its way the client has read everything.
LEMMA HeardAll ==
  ASSUME Agreed, NEW m, NEW q, NEW ms, NEW e, Hearing(m, q, ms, e),
         q[1] \in {"ret", "gone", "sends", "asked"}
  PROVE  ms = <<>> /\ Fits(q)
<1>1. ms \in Seq(Message) /\ Chain(client.call, ncalls, q, ms, e) /\ Fits(e)
  BY DEF Hearing, Carried
<1>2. ms = <<>>
  BY <1>1, ChainFirst, NoWay
<1>3. QED  BY <1>1, <1>2, ChainEnd

\* Having heard all it may say something.
LEMMA HeardSay ==
  ASSUME Agreed, NEW m, NEW q, NEW e, Hearing(m, q, <<>>, e),
         NEW ups, ups \in Seq(Message), Asking(ups)',
         client' \in Caller, client'.call = client.call,
         s2c' = Left(s2c, Len(m)), cOut' = ups,
         UNCHANGED <<c2s, sOut, server, ncalls, done>>
  PROVE  Agreed'
<1>1. Carried(c2s, cOut, <<>>)
  BY DEF Hearing
<1>2. c2s = <<>>
  BY <1>1, CarryNothing
<1>3. Carried(<<>>, ups, ups)
  BY CarryStart
<1>4. Carried(c2s, cOut, ups)'
  BY <1>2, <1>3
<1>5. Carried(s2c, sOut, <<>>)'
  BY DEF Hearing
<1>6. Talk(ups, <<>>)' /\ (client.call \in Calls)'
  BY DEF Talk, Hearing
<1>7. QED  BY <1>4, <1>5, <1>6 DEF Agreed

-----------------------------------------------------------------------------
(* The client's steps.                                                     *)

\* What is heard depends on where the client is.
LEMMA HeardHere ==
  ASSUME NEW call, NEW k, NEW p, NEW m, NEW q, Heard(call, k, p, m, q)
  PROVE  /\ p[1] = "answer" => HeardAnswer(call, k, p, m, q)
         /\ p[1] = "final" => HeardFinal(call, k, p, m, q)
         /\ p[1] = "more" => HeardMore(call, k, p, m, q)
         /\ p[1] = "plen" => HeardPlen(call, k, p, m, q)
         /\ p[1] = "path" => HeardPath(call, k, p, m, q)
         /\ p[1] = "dlen" => HeardDlen(call, k, p, m, q)
         /\ p[1] = "data" => HeardData(call, k, p, m, q)
BY DEF Heard, HeardAnswer, HeardFinal, HeardMore, HeardPlen, HeardPath, HeardDlen, HeardData

\* An answer is read as what it is.
LEMMA HeardSignal ==
  ASSUME Agreed, NEW m, NEW q, NEW ms, NEW e, Hearing(m, q, ms, e),
         NEW c \in Codes, m = Signal(c, ncalls)
  PROVE  Len(m) = 1 /\ Response = {c}
<1>1. ncalls \in Int /\ s2c # <<>> /\ s2c[1] = m[1] /\ s2c \in Seq(Bit)
  <2>1. s2c \in Seq(Bit)
    BY DEF Agreed, Carried
  <2>2. QED  BY <2>1 DEF Agreed, Hearing
<1>2. Head(s2c) = m[1]
  BY <1>1
<1>3. Len(m) = 1 /\ Answers(m[1]) = {c}
  BY <1>1, SignalOne
<1>4. QED  BY <1>1, <1>2, <1>3 DEF Response

\* A length is read as what it is.
LEMMA HeardNumber ==
  ASSUME Agreed, NEW m, NEW q, NEW ms, NEW e, Hearing(m, q, ms, e),
         NEW n \in Int, m = Number(n, ncalls)
  PROVE  Len(m) = 2 /\ Lengths(Taken(s2c, 2)) = {n} /\ s2c # <<>>
<1>1. ncalls \in Int
  BY DEF Agreed
<1>2. Len(m) = 2 /\ Lengths(m) = {n}
  BY <1>1, NumberTwo
<1>3. QED  BY <1>2 DEF Hearing

\* A call that returns, and a call that goes on.
LEMMA NowRet ==
  ASSUME client \in Caller, NEW c, client' = Ret(c)
  PROVE  /\ client' \in Caller /\ client'.call = client.call /\ client'.at = "ret"
         /\ Place' = Returned(c)
<1>1. PICK r \in Int : r = IF c = "SUCCESS" THEN 0 ELSE -1
  OBVIOUS
<1>2. client' = [client EXCEPT !.at = "ret", !.need = 0, !.ret = r]
  BY <1>1 DEF Ret
<1>3. /\ client' \in Caller /\ client'.call = client.call /\ client'.at = "ret" /\ client'.ret = r
  <2>1. PICK a : a = [client EXCEPT !.at = "ret"]
    OBVIOUS
  <2>2. a \in Caller /\ a.call = client.call /\ a.at = "ret"
    BY <2>1 DEF Caller
  <2>3. PICK b : b = [a EXCEPT !.need = 0]
    OBVIOUS
  <2>4. b \in Caller /\ b.call = a.call /\ b.at = a.at
    BY <2>2, <2>3 DEF Caller
  <2>5. client' = [b EXCEPT !.ret = r]
    BY <1>2, <2>1, <2>3
  <2>6. client' \in Caller /\ client'.call = b.call /\ client'.at = b.at /\ client'.ret = r
    BY <1>1, <2>4, <2>5 DEF Caller
  <2>7. QED  BY <2>2, <2>4, <2>6
<1>4. Place' = <<"ret", r>>
  BY <1>3 DEF Place
<1>5. QED  BY <1>1, <1>3, <1>4 DEF Returned

\* And a call that goes on.
LEMMA NowAt ==
  ASSUME client \in Caller, NEW at \in {"final", "more", "plen", "path", "dlen", "data", "gone"},
         NEW n \in Int, client' = At(at, n)
  PROVE  /\ client' \in Caller /\ client'.call = client.call /\ client'.at = at
         /\ at \notin {"path", "data"} => Place' = <<at, 0>>
         /\ at \in {"path", "data"} => Place' = <<at, n>>
BY DEF At, Caller, Place

\* The answer to openFile, closeFile and removeFile is read.
LEMMA PathAnsweredAgrees ==
  ASSUME Agreed, PathAnswered
  PROVE  Agreed'
<1>1. Waiting("answer")
  BY DEF PathAnswered
<1>2. PICK m, q, ms, e : Hearing(m, q, ms, e)
  BY <1>1, Hears
<1>3. Place[1] = "answer"
  BY <1>1, PlaceAt DEF Waiting
<1>4. HeardAnswer(client.call, ncalls, Place, m, q)
  BY <1>2, <1>3, HeardHere DEF Hearing
<1>5. client.call.op \in {"OPEN", "CLOSE", "REMOVE", "LOCK", "UNLOCK"}
  BY DEF PathAnswered
<1>6. PICK c \in Codes : m = Signal(c, ncalls) /\ q = Returned(c)
  BY <1>4, <1>5 DEF HeardAnswer, PathOps, WriteOps
<1>7. Len(m) = 1 /\ Response = {c}
  BY <1>2, <1>6, HeardSignal
<1>8. Reads(1, Ret(c), <<>>)
  BY <1>7 DEF PathAnswered
<1>9. client \in Caller
  BY DEF Agreed
<1>10. client' \in Caller /\ client'.call = client.call /\ client'.at = "ret" /\ Place' = Returned(c)
  BY <1>8, <1>9, NowRet DEF Reads
<1>11. cOut' = cOut /\ s2c' = Left(s2c, Len(m)) /\ UNCHANGED <<c2s, sOut, server, ncalls, done>>
  BY <1>1, <1>7, <1>8 DEF Reads, Waiting
<1>12. QED  BY <1>2, <1>6, <1>10, <1>11, HeardOn

\* The answer to readFile is read: the file follows, or nothing does.
LEMMA ReadAnsweredAgrees ==
  ASSUME Agreed, ReadAnswered
  PROVE  Agreed'
<1>1. Waiting("answer")
  BY DEF ReadAnswered
<1>2. PICK m, q, ms, e : Hearing(m, q, ms, e)
  BY <1>1, Hears
<1>3. Place[1] = "answer"
  BY <1>1, PlaceAt DEF Waiting
<1>4. HeardAnswer(client.call, ncalls, Place, m, q)
  BY <1>2, <1>3, HeardHere DEF Hearing
<1>5. client.call.op = "READ"
  BY DEF ReadAnswered
<1>6. PICK c \in Codes : m = Signal(c, ncalls) /\ q = IF c = "SUCCESS" THEN <<"dlen", 0>> ELSE Returned(c)
  BY <1>4, <1>5 DEF HeardAnswer, PathOps, WriteOps
<1>7. Len(m) = 1 /\ Response = {c}
  BY <1>2, <1>6, HeardSignal
<1>8. Reads(1, IF c = "SUCCESS" THEN At("dlen", 0) ELSE Ret(c), <<>>)
  BY <1>7 DEF ReadAnswered
<1>9. client \in Caller
  BY DEF Agreed
<1>10. client' \in Caller /\ client'.call = client.call /\ client'.at # "idle" /\ Place' = q
  <2>1. CASE c = "SUCCESS"
    <3>1. client' = At("dlen", 0)
      BY <1>8, <2>1 DEF Reads
    <3>2. QED  BY <1>6, <1>9, <2>1, <3>1, NowAt
  <2>2. CASE c # "SUCCESS"
    <3>1. client' = Ret(c)
      BY <1>8, <2>2 DEF Reads
    <3>2. QED  BY <1>6, <1>9, <2>2, <3>1, NowRet
  <2>3. QED  BY <2>1, <2>2
<1>11. cOut' = cOut /\ s2c' = Left(s2c, Len(m)) /\ UNCHANGED <<c2s, sOut, server, ncalls, done>>
  BY <1>1, <1>7, <1>8 DEF Reads, Waiting
<1>12. QED  BY <1>2, <1>10, <1>11, HeardOn

\* The answer to the data of a write is read.
LEMMA FinalAgrees ==
  ASSUME Agreed, Final
  PROVE  Agreed'
<1>1. Waiting("final")
  BY DEF Final
<1>2. PICK m, q, ms, e : Hearing(m, q, ms, e)
  BY <1>1, Hears
<1>3. Place[1] = "final"
  BY <1>1, PlaceAt DEF Waiting
<1>4. HeardFinal(client.call, ncalls, Place, m, q)
  BY <1>2, <1>3, HeardHere DEF Hearing
<1>6. PICK c \in Codes : m = Signal(c, ncalls) /\ q = Returned(c)
  BY <1>4 DEF HeardFinal
<1>7. Len(m) = 1 /\ Response = {c}
  BY <1>2, <1>6, HeardSignal
<1>8. Reads(1, Ret(c), <<>>)
  BY <1>7 DEF Final
<1>9. client \in Caller
  BY DEF Agreed
<1>10. client' \in Caller /\ client'.call = client.call /\ client'.at = "ret" /\ Place' = Returned(c)
  BY <1>8, <1>9, NowRet DEF Reads
<1>11. cOut' = cOut /\ s2c' = Left(s2c, Len(m)) /\ UNCHANGED <<c2s, sOut, server, ncalls, done>>
  BY <1>1, <1>7, <1>8 DEF Reads, Waiting
<1>12. QED  BY <1>2, <1>6, <1>10, <1>11, HeardOn

\* The server waits for the data, and the client sends it.
LEMMA SendsAgrees ==
  ASSUME Agreed, NEW m, NEW ms, NEW e, Hearing(m, <<"sends", 0>>, ms, e),
         Reads(Len(m), At("final", 0), Pieces(Data(client.call.size)))
  PROVE  Agreed'
<1>1. <<"sends", 0>>[1] = "sends"
  OBVIOUS
<1>2. ms = <<>> /\ Fits(<<"sends", 0>>)
  BY <1>1, HeardAll
<1>3. Writes("data")
  BY <1>2 DEF Fits
<1>4. client \in Caller /\ ncalls \in Nat
  BY DEF Agreed
<1>5. client.call.size \in Nat \ {0} /\ client.call.size <= Chunk
  BY <1>3, ProtocolAssumption DEF Writes, Sized
<1>6. PICK ups : ups = <<Bytes(client.call.size, ncalls)>>
  OBVIOUS
<1>7. Bytes(client.call.size, ncalls) \in Message
  BY <1>4, <1>5, BytesRow
<1>8. ups \in Seq(Message)
  BY <1>6, <1>7
<1>9. cOut' = ups
  BY <1>4, <1>5, <1>6, OnePiece, Wording DEF Reads
<1>10. client' = At("final", 0)
  BY DEF Reads
<1>11. client' \in Caller /\ client'.call = client.call /\ client'.at = "final"
  BY <1>4, <1>10, NowAt
<1>12. UNCHANGED <<c2s, sOut, server, ncalls, done>> /\ s2c' = Left(s2c, Len(m))
  BY DEF Reads
<1>13. Asking(ups)'
  <2>1. Writes("data")'
    BY <1>3, <1>11, <1>12 DEF Writes, Serves, Sized
  <2>2. ups = <<Bytes(client.call.size, ncalls)>>'
    BY <1>6, <1>11, <1>12
  <2>3. QED  BY <1>11, <2>1, <2>2 DEF Asking
<1>14. QED  BY <1>2, <1>8, <1>9, <1>11, <1>12, <1>13, HeardSay

\* The answer to a writeFile is read: the data is sent, or nothing is.
LEMMA WriteAnsweredAgrees ==
  ASSUME Agreed, WriteAnswered
  PROVE  Agreed'
<1>1. Waiting("answer") /\ client.call.op = "WRITE"
  BY DEF WriteAnswered
<1>2. PICK m, q, ms, e : Hearing(m, q, ms, e)
  BY <1>1, Hears
<1>3. Place[1] = "answer"
  BY <1>1, PlaceAt DEF Waiting
<1>4. HeardAnswer(client.call, ncalls, Place, m, q)
  BY <1>2, <1>3, HeardHere DEF Hearing
<1>5. PICK c \in Codes : /\ m = Signal(c, ncalls)
                         /\ \/ c = "SUCCESS" /\ q = <<"sends", 0>>
                            \/ c = "FAILURE" /\ q = Returned(c)
  BY <1>1, <1>4 DEF HeardAnswer, PathOps, WriteOps
<1>6. Len(m) = 1 /\ Response = {c}
  BY <1>2, <1>5, HeardSignal
<1>7. client \in Caller
  BY DEF Agreed
<1>8. CASE c = "SUCCESS"
  <2>1. q = <<"sends", 0>> /\ q[1] = "sends"
    BY <1>5, <1>8
  <2>2. Fits(<<"sends", 0>>)
    BY <1>2, <2>1, HeardAll
  <2>3. client.call.size \in 1..Chunk
    BY <2>2 DEF Fits, Writes, Sized
  <2>4. client.call.size > 0
    BY <2>3, ProtocolAssumption
  <2>5. Reads(1, At("final", 0), Pieces(Data(client.call.size)))
    BY <1>6, <1>8, <2>4 DEF WriteAnswered
  <2>6. QED  BY <1>2, <1>6, <2>1, <2>5, SendsAgrees
<1>9. CASE c # "SUCCESS"
  <2>1. c = "FAILURE" /\ q = Returned(c)
    BY <1>5, <1>9
  <2>2. Reads(1, Ret(c), <<>>)
    BY <1>6, <2>1 DEF WriteAnswered
  <2>3. client' \in Caller /\ client'.call = client.call /\ client'.at = "ret" /\ Place' = Returned(c)
    BY <1>7, <2>2, NowRet DEF Reads
  <2>4. cOut' = cOut /\ s2c' = Left(s2c, Len(m)) /\ UNCHANGED <<c2s, sOut, server, ncalls, done>>
    BY <1>1, <1>6, <2>2 DEF Reads, Waiting
  <2>5. QED  BY <1>2, <2>1, <2>3, <2>4, HeardOn
<1>10. QED  BY <1>8, <1>9

\* The client of an append that is asked whether it wants the files.
LEMMA AskedAgrees ==
  ASSUME Agreed, NEW m, NEW ms, NEW e, Hearing(m, <<"asked", 0>>, ms, e),
         \/ Reads(Len(m), At("more", 0), <<Len8(1)>>)
         \/ Reads(Len(m), At("final", 0), <<Len8(0)>> \o Pieces(Data(client.call.size)))
  PROVE  Agreed'
<1>1. <<"asked", 0>>[1] = "asked"
  OBVIOUS
<1>2. ms = <<>> /\ Fits(<<"asked", 0>>)
  BY <1>1, HeardAll
<1>3. Writes("ask") /\ client.call.op = "APPEND"
  BY <1>2 DEF Fits
<1>4. client \in Caller /\ ncalls \in Nat
  BY DEF Agreed
<1>5. client.call.size \in Nat \ {0} /\ client.call.size <= Chunk
  BY <1>3, ProtocolAssumption DEF Writes, Sized
<1>6. Bytes(client.call.size, ncalls) \in Message /\ Number(0, ncalls) \in Message /\ Number(1, ncalls) \in Message
  <2>1. ncalls \in Int /\ 0 \in Int /\ 1 \in Int
    BY <1>4
  <2>2. Bytes(client.call.size, ncalls) \in Message
    BY <1>5, <2>1, BytesRow
  <2>3. QED  BY <2>1, <2>2, NumberTwo
<1>7. CASE Reads(Len(m), At("more", 0), <<Len8(1)>>)
  <2>1. PICK ups : ups = <<Number(1, ncalls)>>
    OBVIOUS
  <2>2. ups \in Seq(Message) /\ cOut' = ups
    BY <1>6, <1>7, <2>1, Wording DEF Reads
  <2>3. client' = At("more", 0)
    BY <1>7 DEF Reads
  <2>4. client' \in Caller /\ client'.call = client.call /\ client'.at = "more"
    BY <1>4, <2>3, NowAt
  <2>5. UNCHANGED <<c2s, sOut, server, ncalls, done>> /\ s2c' = Left(s2c, Len(m))
    BY <1>7 DEF Reads
  <2>6. Asking(ups)'
    <3>1. Writes("ask")' /\ (client.call.op = "APPEND")'
      BY <1>3, <2>4, <2>5 DEF Writes, Serves, Sized
    <3>2. (ups = <<Number(1, ncalls)>>)'
      BY <2>1, <2>5
    <3>3. QED  BY <2>4, <3>1, <3>2 DEF Asking
  <2>7. QED  BY <1>2, <2>2, <2>4, <2>5, <2>6, HeardSay
<1>8. CASE Reads(Len(m), At("final", 0), <<Len8(0)>> \o Pieces(Data(client.call.size)))
  <2>1. PICK ups : ups = <<Number(0, ncalls), Bytes(client.call.size, ncalls)>>
    OBVIOUS
  <2>2. ups \in Seq(Message) /\ cOut' = ups
    <3>1. cOut' = <<Number(0, ncalls)>> \o <<Bytes(client.call.size, ncalls)>>
      BY <1>4, <1>5, <1>8, OnePiece, Wording DEF Reads
    <3>2. QED  BY <1>6, <2>1, <3>1, Together
  <2>3. client' = At("final", 0)
    BY <1>8 DEF Reads
  <2>4. client' \in Caller /\ client'.call = client.call /\ client'.at = "final"
    BY <1>4, <2>3, NowAt
  <2>5. UNCHANGED <<c2s, sOut, server, ncalls, done>> /\ s2c' = Left(s2c, Len(m))
    BY <1>8 DEF Reads
  <2>6. Asking(ups)'
    <3>1. Writes("ask")' /\ (client.call.op = "APPEND")'
      BY <1>3, <2>4, <2>5 DEF Writes, Serves, Sized
    <3>2. (ups = <<Number(0, ncalls), Bytes(client.call.size, ncalls)>>)'
      BY <2>1, <2>4, <2>5
    <3>3. QED  BY <2>4, <3>1, <3>2 DEF Asking
  <2>7. QED  BY <1>2, <2>2, <2>4, <2>5, <2>6, HeardSay
<1>9. QED  BY <1>7, <1>8

\* The answer to an appendToFile is read: also an eviction may follow.
LEMMA AppendAnsweredAgrees ==
  ASSUME Agreed, AppendAnswered
  PROVE  Agreed'
<1>1. Waiting("answer") /\ client.call.op = "APPEND"
  BY DEF AppendAnswered
<1>2. PICK m, q, ms, e : Hearing(m, q, ms, e)
  BY <1>1, Hears
<1>3. Place[1] = "answer"
  BY <1>1, PlaceAt DEF Waiting
<1>4. HeardAnswer(client.call, ncalls, Place, m, q)
  BY <1>2, <1>3, HeardHere DEF Hearing
<1>5. PICK c \in Codes : /\ m = Signal(c, ncalls)
                         /\ \/ c = "SUCCESS" /\ q = <<"sends", 0>>
                            \/ c = "EVICT" /\ q = <<"asked", 0>>
                            \/ c = "FAILURE" /\ q = Returned(c)
  BY <1>1, <1>4 DEF HeardAnswer, PathOps, WriteOps
<1>6. Len(m) = 1 /\ Response = {c}
  BY <1>2, <1>5, HeardSignal
<1>7. client \in Caller /\ client.call.dir \in BOOLEAN
  <2>1. client \in Caller /\ client.call \in Calls
    BY <1>2 DEF Agreed, Hearing
  <2>2. QED  BY <2>1, CallTyped
<1>8. CASE c = "SUCCESS"
  <2>1. q = <<"sends", 0>>
    BY <1>5, <1>8
  <2>2. Reads(1, At("final", 0), Pieces(Data(client.call.size)))
    BY <1>6, <1>8 DEF AppendAnswered
  <2>3. QED  BY <1>2, <1>6, <2>1, <2>2, SendsAgrees
<1>9. CASE c = "EVICT"
  <2>1. q = <<"asked", 0>>
    BY <1>5, <1>9
  <2>2. \/ Reads(1, At("more", 0), <<Len8(1)>>)
        \/ Reads(1, At("final", 0), <<Len8(0)>> \o Pieces(Data(client.call.size)))
    BY <1>6, <1>7, <1>9 DEF AppendAnswered
  <2>3. QED  BY <1>2, <1>6, <2>1, <2>2, AskedAgrees
<1>10. CASE c = "FAILURE"
  <2>1. q = Returned(c)
    BY <1>5, <1>10
  <2>2. Reads(1, Ret(c), <<>>)
    BY <1>6, <1>10 DEF AppendAnswered
  <2>3. client' \in Caller /\ client'.call = client.call /\ client'.at = "ret" /\ Place' = Returned(c)
    BY <1>7, <2>2, NowRet DEF Reads
  <2>4. cOut' = cOut /\ s2c' = Left(s2c, Len(m)) /\ UNCHANGED <<c2s, sOut, server, ncalls, done>>
    BY <1>1, <1>6, <2>2 DEF Reads, Waiting
  <2>5. QED  BY <1>2, <2>1, <2>3, <2>4, HeardOn
<1>11. QED  BY <1>5, <1>8, <1>9, <1>10

\* An evicted file follows, or the server has the room and the data is sent.
LEMMA EvictAgrees ==
  ASSUME Agreed, sapi_evict
  PROVE  Agreed'
<1>1. Waiting("more")
  BY DEF sapi_evict
<1>2. PICK m, q, ms, e : Hearing(m, q, ms, e)
  BY <1>1, Hears
<1>3. Place[1] = "more"
  BY <1>1, PlaceAt DEF Waiting
<1>4. HeardMore(client.call, ncalls, Place, m, q)
  BY <1>2, <1>3, HeardHere DEF Hearing
<1>5. client \in Caller /\ client.call.op = "APPEND"
  BY <1>4 DEF Agreed, HeardMore
<1>6. PICK c \in Codes : /\ m = Signal(c, ncalls)
                         /\ \/ c = "SUCCESS" /\ q = <<"sends", 0>>
                            \/ c = "EVICT" /\ q = <<"plen", 0>>
  BY <1>4 DEF HeardMore, Codes
<1>7. Len(m) = 1 /\ Response = {c}
  BY <1>2, <1>6, HeardSignal
<1>8. CASE c = "SUCCESS"
  <2>1. q = <<"sends", 0>>
    BY <1>6, <1>8
  <2>2. Reads(1, At("final", 0), Pieces(Data(client.call.size)))
    BY <1>5, <1>7, <1>8 DEF sapi_evict
  <2>3. QED  BY <1>2, <1>7, <2>1, <2>2, SendsAgrees
<1>9. CASE c = "EVICT"
  <2>1. Reads(1, At("plen", 0), <<>>)
    BY <1>7, <1>9 DEF sapi_evict
  <2>2. client' = At("plen", 0)
    BY <2>1 DEF Reads
  <2>3. client' \in Caller /\ client'.call = client.call /\ client'.at = "plen" /\ Place' = <<"plen", 0>>
    BY <1>5, <2>2, NowAt
  <2>4. cOut' = cOut /\ s2c' = Left(s2c, Len(m)) /\ UNCHANGED <<c2s, sOut, server, ncalls, done>>
    BY <1>1, <1>7, <2>1 DEF Reads, Waiting
  <2>5. q = <<"plen", 0>>
    BY <1>6, <1>9
  <2>6. QED  BY <1>2, <2>3, <2>4, <2>5, HeardOn
<1>10. QED  BY <1>6, <1>8, <1>9

\* The length of a path and the path are read.
LEMMA GetPathAgrees ==
  ASSUME Agreed, sapi_get_path
  PROVE  Agreed'
<1>1. client \in Caller
  BY DEF Agreed
<1>2. ASSUME Waiting("plen"),
             \E n \in (IF s2c = <<>> THEN {0} ELSE Lengths(Taken(s2c, 2))) :
                \/ n > 0 /\ Reads(2, At("path", n), <<>>)
                \/ /\ n = 0
                   /\ Reads(2, IF client.call.op = "READN" THEN Gone
                               ELSE Ret("FAILURE"), <<>>)
                \/ n = Long /\ Reads(2, Gone, <<>>)
      PROVE  Agreed'
  <2>1. PICK m, q, ms, e : Hearing(m, q, ms, e)
    BY <1>2, Hears
  <2>2. Place[1] = "plen"
    BY <1>2, PlaceAt DEF Waiting
  <2>3. HeardPlen(client.call, ncalls, Place, m, q)
    BY <2>1, <2>2, HeardHere DEF Hearing
  <2>4. PICK n \in Int : /\ m = Number(n, ncalls)
                       /\ \/ n = PathLen /\ q = <<"path", n>>
                          \/ n = 0 /\ client.call.op = "READN" /\ q = <<"gone", 0>>
    <3>1. PathLen \in Int /\ 0 \in Int
      BY ProtocolAssumption
    <3>2. QED  BY <2>3, <3>1 DEF HeardPlen
  <2>5. Len(m) = 2 /\ Lengths(Taken(s2c, 2)) = {n} /\ s2c # <<>>
    BY <2>1, <2>4, HeardNumber
  <2>6. n # Long /\ (n = PathLen => n > 0)
    BY <2>4, ProtocolAssumption
  <2>7. \/ n = PathLen /\ Reads(2, At("path", n), <<>>)
        \/ n = 0 /\ client.call.op = "READN" /\ Reads(2, At("gone", 0), <<>>)
    <3>1. \/ n > 0 /\ Reads(2, At("path", n), <<>>)
          \/ n = 0 /\ Reads(2, IF client.call.op = "READN" THEN Gone ELSE Ret("FAILURE"), <<>>)
      BY <1>2, <2>5, <2>6
    <3>2. QED  BY <2>4, <2>6, <3>1 DEF Gone
  <2>8. client' \in Caller /\ client'.call = client.call /\ client'.at # "idle" /\ Place' = q
    <3>1. CASE n = PathLen /\ Reads(2, At("path", n), <<>>)
      <4>1. client' = At("path", n) /\ q = <<"path", n>>
        BY <2>4, <2>6, <3>1, ProtocolAssumption DEF Reads
      <4>2. QED  BY <1>1, <4>1, NowAt
    <3>2. CASE n = 0 /\ client.call.op = "READN" /\ Reads(2, At("gone", 0), <<>>)
      <4>1. client' = At("gone", 0) /\ q = <<"gone", 0>>
        BY <2>4, <3>2, ProtocolAssumption DEF Reads
      <4>2. QED  BY <1>1, <4>1, NowAt
    <3>3. QED  BY <2>7, <3>1, <3>2
  <2>9. cOut' = cOut /\ s2c' = Left(s2c, Len(m)) /\ UNCHANGED <<c2s, sOut, server, ncalls, done>>
    BY <1>2, <2>5, <2>7 DEF Reads, Waiting
  <2>10. QED  BY <2>1, <2>8, <2>9, HeardOn
<1>3. ASSUME Waiting("path"), Reads(client.need, At("dlen", 0), <<>>)
      PROVE  Agreed'
  <2>1. PICK m, q, ms, e : Hearing(m, q, ms, e)
    BY <1>3, Hears
  <2>2. Place = <<"path", client.need>> /\ Place[1] = "path"
    BY <1>3, PlaceAt DEF Waiting
  <2>3. HeardPath(client.call, ncalls, Place, m, q)
    BY <2>1, <2>2, HeardHere DEF Hearing
  <2>4. client.need = PathLen /\ m = Name(ncalls) /\ q = <<"dlen", 0>> /\ ncalls \in Int
    BY <2>2, <2>3 DEF HeardPath, Agreed
  <2>5. Len(m) = client.need
    BY <2>4, NameRow
  <2>6. client' = At("dlen", 0)
    BY <1>3 DEF Reads
  <2>7. client' \in Caller /\ client'.call = client.call /\ client'.at = "dlen" /\ Place' = <<"dlen", 0>>
    BY <1>1, <2>6, NowAt
  <2>8. cOut' = cOut /\ s2c' = Left(s2c, Len(m)) /\ UNCHANGED <<c2s, sOut, server, ncalls, done>>
    BY <1>3, <2>5 DEF Reads, Waiting
  <2>9. QED  BY <2>1, <2>4, <2>7, <2>8, HeardOn
<1>4. QED  BY <1>2, <1>3 DEF sapi_get_path

\* The length of a file and the file are read.
LEMMA GetDataAgrees ==
  ASSUME Agreed, sapi_get_data
  PROVE  Agreed'
<1>1. client \in Caller /\ ncalls \in Int
  BY DEF Agreed
<1>2. ASSUME Waiting("dlen"),
             \E n \in Lengths(Taken(s2c, 2)) :
                \/ n > 0 /\ Reads(2, At("data", n), <<>>)
                \/ n = 0 /\ Reads(2, AfterFile("FAILURE"), <<>>)
                \/ n = Long /\ Reads(2, Gone, <<>>)
      PROVE  Agreed'
  <2>1. PICK m, q, ms, e : Hearing(m, q, ms, e)
    BY <1>2, Hears
  <2>2. Place[1] = "dlen"
    BY <1>2, PlaceAt DEF Waiting
  <2>3. HeardDlen(client.call, ncalls, Place, m, q)
    BY <2>1, <2>2, HeardHere DEF Hearing
  <2>4. PICK n \in 1..MaxData : m = Number(n, ncalls) /\ q = <<"data", n>>
    BY <2>3 DEF HeardDlen
  <2>5. n \in Int /\ n # Long /\ n # 0
    BY ProtocolAssumption
  <2>6. Len(m) = 2 /\ Lengths(Taken(s2c, 2)) = {n} /\ s2c # <<>>
    BY <2>1, <2>4, <2>5, HeardNumber
  <2>7. Reads(2, At("data", n), <<>>)
    BY <1>2, <2>5, <2>6
  <2>8. client' = At("data", n)
    BY <2>7 DEF Reads
  <2>9. client' \in Caller /\ client'.call = client.call /\ client'.at = "data" /\ Place' = <<"data", n>>
    BY <1>1, <2>5, <2>8, NowAt
  <2>10. cOut' = cOut /\ s2c' = Left(s2c, Len(m)) /\ UNCHANGED <<c2s, sOut, server, ncalls, done>>
    BY <1>2, <2>6, <2>7 DEF Reads, Waiting
  <2>11. QED  BY <2>1, <2>4, <2>9, <2>10, HeardOn
<1>3. ASSUME Waiting("data"), Reads(client.need, AfterFile("SUCCESS"), <<>>)
      PROVE  Agreed'
  <2>1. PICK m, q, ms, e : Hearing(m, q, ms, e)
    BY <1>3, Hears
  <2>2. Place = <<"data", client.need>> /\ Place[1] = "data"
    BY <1>3, PlaceAt DEF Waiting
  <2>3. HeardData(client.call, ncalls, Place, m, q)
    BY <2>1, <2>2, HeardHere DEF Hearing
  <2>4. PICK n \in 1..MaxData : Place = <<"data", n>> /\ m = Bytes(n, ncalls) /\ q = FileRead(client.call.op)
    BY <2>3 DEF HeardData
  <2>5. n \in Nat \ {0} /\ n = client.need
    BY <2>2, <2>4, ProtocolAssumption
  <2>6. Len(m) = client.need
    BY <1>1, <2>4, <2>5, BytesRow
  <2>7. client' = AfterFile("SUCCESS")
    BY <1>3 DEF Reads
  <2>8. client' \in Caller /\ client'.call = client.call /\ client'.at # "idle" /\ Place' = q
    <3>1. CASE client.call.op = "READ"
      <4>1. client' = Ret("SUCCESS") /\ q = Returned("SUCCESS")
        BY <2>4, <2>7, <3>1 DEF AfterFile, FileRead, Returned
      <4>2. QED  BY <1>1, <4>1, NowRet
    <3>2. CASE client.call.op = "READN"
      <4>1. client' = At("plen", 0) /\ q = <<"plen", 0>>
        BY <2>4, <2>7, <3>2 DEF AfterFile, FileRead
      <4>2. QED  BY <1>1, <4>1, NowAt
    <3>3. CASE client.call.op \notin {"READ", "READN"}
      <4>1. client' = At("more", 0) /\ q = <<"more", 0>>
        BY <2>4, <2>7, <3>3 DEF AfterFile, FileRead
      <4>2. QED  BY <1>1, <4>1, NowAt
    <3>4. QED  BY <3>1, <3>2, <3>3
  <2>9. cOut' = cOut /\ s2c' = Left(s2c, Len(m)) /\ UNCHANGED <<c2s, sOut, server, ncalls, done>>
    BY <1>3, <2>6 DEF Reads, Waiting
  <2>10. QED  BY <2>1, <2>8, <2>9, HeardOn
<1>4. QED  BY <1>2, <1>3 DEF sapi_get_data

\* Between two calls nothing is on its way.
LEMMA Rests ==
  ASSUME Agreed, client.at = "idle"
  PROVE  /\ Resting /\ c2s = <<>> /\ cOut = <<>> /\ s2c = <<>> /\ sOut = <<>>
         /\ Carried(s2c, sOut, <<>>) /\ Carried(c2s, cOut, <<>>)
<1>1. PICK ups, downs : Carried(c2s, cOut, ups) /\ Carried(s2c, sOut, downs) /\ Talk(ups, downs)
  BY DEF Agreed
<1>2. Resting /\ ups = <<>> /\ downs = <<>>
  BY <1>1 DEF Talk, Asking
<1>3. QED  BY <1>1, <1>2, CarryNothing

\* What a call that starts makes of the client.
LEMMA Started ==
  ASSUME Agreed, NEW call \in Calls, NEW ups, NEW at \in {"answer", "plen", "ret"}, NEW r \in Int,
         Start(call, ups, at, r)
  PROVE  /\ client' \in Caller /\ client'.call = call /\ client'.at = at /\ client'.ret = r
         /\ cOut' = ups /\ UNCHANGED <<c2s, s2c, sOut, server, ncalls, done>>
         /\ client.at = "idle"
<1>1. client \in Caller /\ call \in Call
  BY ProtocolAssumption DEF Agreed
<1>2. PICK a : a = [client EXCEPT !.call = call]
  OBVIOUS
<1>3. a \in Caller /\ a.call = call
  BY <1>1, <1>2 DEF Caller
<1>4. PICK b : b = [a EXCEPT !.at = at]
  OBVIOUS
<1>5. b \in Caller /\ b.call = call /\ b.at = at
  BY <1>3, <1>4 DEF Caller
<1>6. client' = [b EXCEPT !.ret = r]
  BY <1>2, <1>4 DEF Start
<1>7. client' \in Caller /\ client'.call = call /\ client'.at = at /\ client'.ret = r
  BY <1>5, <1>6 DEF Caller
<1>8. QED  BY <1>7 DEF Start

\* A call that asks the server.
LEMMA StartAsks ==
  ASSUME Agreed, NEW call \in Calls, NEW ups, ups \in Seq(Message),
         NEW at \in {"answer", "plen"}, Start(call, ups, at, 0), Asking(ups)'
  PROVE  Agreed'
<1>1. /\ client' \in Caller /\ client'.call = call
      /\ cOut' = ups /\ UNCHANGED <<c2s, s2c, sOut, server, ncalls, done>>
      /\ client.at = "idle"
  <2>1. at \in {"answer", "plen", "ret"} /\ 0 \in Int
    OBVIOUS
  <2>2. QED  BY <2>1, Started
<1>2. c2s = <<>> /\ Carried(s2c, sOut, <<>>)
  BY <1>1, Rests
<1>3. Carried(<<>>, ups, ups)
  BY CarryStart
<1>4. Carried(c2s, cOut, ups)' /\ Carried(s2c, sOut, <<>>)'
  BY <1>1, <1>2, <1>3
<1>5. Talk(ups, <<>>)'
  BY DEF Talk
<1>6. QED  BY <1>1, <1>4, <1>5 DEF Agreed

\* A call that returns at once.
LEMMA StartReturns ==
  ASSUME Agreed, NEW call \in Calls, NEW r \in {0, -1}, Start(call, <<>>, "ret", r),
         r = 0 => \/ call.op = "READN" /\ call.n = 0
                  \/ call.op = "APPEND" /\ call.size = 0
  PROVE  Agreed'
<1>1. /\ client' \in Caller /\ client'.call = call /\ client'.at = "ret" /\ client'.ret = r
      /\ cOut' = <<>> /\ UNCHANGED <<c2s, s2c, sOut, server, ncalls, done>>
      /\ client.at = "idle"
  BY Started
<1>2. Resting /\ cOut = <<>> /\ Carried(s2c, sOut, <<>>) /\ Carried(c2s, cOut, <<>>)
  BY <1>1, Rests
<1>3. Carried(c2s, cOut, <<>>)' /\ Carried(s2c, sOut, <<>>)'
  BY <1>1, <1>2
<1>4. Place' = <<"ret", r>>
  BY <1>1 DEF Place
<1>5. Chain(client.call, ncalls, Place, <<>>, <<"ret", r>>)'
  BY <1>4, ChainNone
<1>6. Fits(<<"ret", r>>)'
  <2>1. Polls' /\ ncalls' \notin done'
    BY <1>1, <1>2 DEF Resting, Polls
  <2>2. <<"ret", r>> \in {<<"ret", 0>>, <<"ret", -1>>} /\ (<<"ret", r>> = <<"ret", 0>> <=> r = 0)
    OBVIOUS
  <2>3. CASE r = 0
    BY <1>1, <2>1, <2>2, <2>3 DEF Fits
  <2>4. CASE r # 0
    BY <1>1, <2>1, <2>2, <2>4 DEF Fits
  <2>5. QED  BY <2>3, <2>4
<1>7. Talk(<<>>, <<>>)'
  BY <1>1, <1>5, <1>6 DEF Talk
<1>8. QED  BY <1>1, <1>3, <1>7 DEF Agreed

\* A call that names a file.
LEMMA PathCallAgrees ==
  ASSUME Agreed, NEW call \in Calls, call.op \in PathOps, PathCall(call)
  PROVE  Agreed'
<1>1. PICK a : a = Asks(call.op, PathLen, ncalls)
  OBVIOUS
<1>2. PICK b : b = Name(ncalls)
  OBVIOUS
<1>3. call.op \in Ops /\ PathLen \in Int /\ ncalls \in Int
  BY ProtocolAssumption DEF Agreed, PathOps, Ops
<1>4. a \in Message /\ b \in Message
  BY <1>1, <1>2, <1>3, AsksOne, NameRow
<1>5. PICK ups : ups = <<a, b>>
  OBVIOUS
<1>6. ups \in Seq(Message) /\ ups = <<a>> \o <<b>>
  BY <1>4, <1>5, Together
<1>7. Start(call, ups, "answer", 0)
  BY <1>1, <1>2, <1>5, Wording DEF PathCall
<1>8. /\ client'.call = call /\ client'.at = "answer" /\ UNCHANGED <<server, ncalls, done>>
      /\ client.at = "idle"
  <2>1. "answer" \in {"answer", "plen", "ret"} /\ 0 \in Int
    OBVIOUS
  <2>2. QED  BY <1>7, <2>1, Started
<1>9. Resting
  BY <1>8, Rests
<1>10. Asking(ups)'
  <2>1. Named(<<b>>)'
    BY <1>2, <1>8 DEF Named
  <2>2. (Polls /\ ncalls \notin done)'
    BY <1>8, <1>9 DEF Resting, Polls
  <2>3. (ups = <<Asks(client.call.op, PathLen, ncalls)>> \o <<b>>)'
    BY <1>1, <1>6, <1>8
  <2>4. QED  BY <1>8, <2>1, <2>2, <2>3 DEF Asking
<1>11. QED  BY <1>6, <1>7, <1>10, StartAsks

\* A call that writes to a file.
LEMMA WriteCallAgrees ==
  ASSUME Agreed, NEW call \in Calls, call.op \in WriteOps, call.size \in 1..Chunk,
         Start(call, WriteRequest(call), "answer", 0)
  PROVE  Agreed'
<1>1. PICK a : a = Asks(call.op, PathLen, ncalls)
  OBVIOUS
<1>2. PICK b : b = Name(ncalls)
  OBVIOUS
<1>3. PICK c : c = Number(call.size, ncalls)
  OBVIOUS
<1>4. call.op \in Ops /\ PathLen \in Int /\ ncalls \in Int /\ call.size \in Int
  BY ProtocolAssumption DEF Agreed, WriteOps, Ops
<1>5. a \in Message /\ b \in Message /\ c \in Message
  BY <1>1, <1>2, <1>3, <1>4, AsksOne, NameRow, NumberTwo
<1>6. PICK ups : ups = <<a, b, c>>
  OBVIOUS
<1>7. ups \in Seq(Message) /\ ups = <<a>> \o <<b, c>>
  BY <1>5, <1>6, TogetherThree
<1>8. Start(call, ups, "answer", 0)
  BY <1>1, <1>2, <1>3, <1>6, Wording DEF WriteRequest
<1>9. /\ client'.call = call /\ client'.at = "answer" /\ UNCHANGED <<server, ncalls, done>>
      /\ client.at = "idle"
  <2>1. "answer" \in {"answer", "plen", "ret"} /\ 0 \in Int
    OBVIOUS
  <2>2. QED  BY <1>8, <2>1, Started
<1>10. Resting
  BY <1>9, Rests
<1>11. Asking(ups)'
  <2>1. Named(<<b, c>>)'
    BY <1>2, <1>3, <1>9 DEF Named, Sized
  <2>2. (Polls /\ ncalls \notin done)'
    BY <1>9, <1>10 DEF Resting, Polls
  <2>3. (ups = <<Asks(client.call.op, PathLen, ncalls)>> \o <<b, c>>)'
    BY <1>1, <1>7, <1>9
  <2>4. QED  BY <1>9, <2>1, <2>2, <2>3 DEF Asking
<1>12. QED  BY <1>7, <1>8, <1>11, StartAsks

\* A call for some files.
LEMMA ReadNCallAgrees ==
  ASSUME Agreed, NEW call \in Calls, readNFiles(call)
  PROVE  Agreed'
<1>1. call.op = "READN" /\ call.n \in Nat
  BY ProtocolAssumption DEF readNFiles, Call
<1>2. CASE call.n = 0 /\ Start(call, <<>>, "ret", 0)
  BY <1>1, <1>2, StartReturns
<1>3. CASE Start(call, <<>>, "ret", -1)
  BY <1>3, StartReturns
<1>4. CASE Start(call, <<Request("READN", call.n)>>, "plen", 0)
  <2>1. PICK ups : ups = <<Asks("READN", call.n, ncalls)>>
    OBVIOUS
  <2>2. "READN" \in Ops /\ call.n \in Int /\ ncalls \in Int
    BY <1>1 DEF Ops, Agreed
  <2>3. Asks("READN", call.n, ncalls) \in Message
    BY <2>2, AsksOne
  <2>4. ups \in Seq(Message)
    BY <2>1, <2>3
  <2>5. Start(call, ups, "plen", 0)
    BY <1>4, <2>1, Wording
  <2>6. /\ client'.call = call /\ client'.at = "plen" /\ UNCHANGED <<server, ncalls, done>>
        /\ client.at = "idle"
    BY <2>5, Started
  <2>7. Resting
    BY <2>6, Rests
  <2>8. Asking(ups)'
    <3>1. (Polls /\ ncalls \notin done)'
      BY <2>6, <2>7 DEF Resting, Polls
    <3>2. (ups = <<Asks("READN", client.call.n, ncalls)>>)'
      BY <2>1, <2>6
    <3>3. QED  BY <1>1, <2>6, <3>1, <3>2 DEF Asking
  <2>9. QED  BY <2>4, <2>5, <2>8, StartAsks
<1>5. QED  BY <1>2, <1>3, <1>4 DEF readNFiles

\* Every call the client makes.
LEMMA ApiCallAgrees ==
  ASSUME Agreed, NEW call \in Calls, ApiCall(call), trouble' = {}
  PROVE  Agreed'
<1>1. call \in Call /\ call.size \in Nat
  BY ProtocolAssumption DEF Call
<1>2. Risks(call) = {}
  BY DEF ApiCall, openFile, closeFile, removeFile, lockFile, unlockFile, readFile, readNFiles,
         writeFile, appendToFile, PathCall, Start
<1>3. call.op \notin {"LOCK", "UNLOCK"} /\ ~(call.op = "WRITE" /\ call.size = 0) /\ ~(call.size > Chunk)
  <2>1. "lock" \notin Risks(call) /\ "empty write" \notin Risks(call) /\ "long write" \notin Risks(call)
    BY <1>2
  <2>2. QED  BY <2>1 DEF Risks
<1>4. call.size = 0 \/ call.size \in 1..Chunk
  BY <1>1, <1>3, ProtocolAssumption
<1>5. CASE openFile(call) \/ closeFile(call) \/ removeFile(call) \/ readFile(call)
  BY <1>5, PathCallAgrees DEF openFile, closeFile, removeFile, readFile, PathOps
<1>6. CASE lockFile(call) \/ unlockFile(call)
  BY <1>3, <1>6 DEF lockFile, unlockFile
<1>7. CASE readNFiles(call)
  BY <1>7, ReadNCallAgrees
<1>8. CASE writeFile(call)
  <2>1. CASE Start(call, <<>>, "ret", -1)
    BY <2>1, StartReturns
  <2>2. CASE Start(call, WriteRequest(call), "answer", 0)
    BY <1>3, <1>4, <1>8, <2>2, WriteCallAgrees DEF writeFile, WriteOps
  <2>3. QED  BY <1>8, <2>1, <2>2 DEF writeFile
<1>9. CASE appendToFile(call)
  <2>1. CASE call.size = 0 /\ Start(call, <<>>, "ret", 0)
    BY <1>9, <2>1, StartReturns DEF appendToFile
  <2>2. CASE call.size > 0 /\ Start(call, WriteRequest(call), "answer", 0)
    BY <1>4, <1>9, <2>2, WriteCallAgrees DEF appendToFile, WriteOps
  <2>3. QED  BY <1>9, <2>1, <2>2 DEF appendToFile
<1>10. QED  BY <1>5, <1>6, <1>7, <1>8, <1>9 DEF ApiCall

\* A write of the client goes into the stream.
LEMMA ClientWriteAgrees ==
  ASSUME Agreed, ClientWrite
  PROVE  Agreed'
<1>1. PICK ups, downs : Carried(c2s, cOut, ups) /\ Carried(s2c, sOut, downs) /\ Talk(ups, downs)
  BY DEF Agreed
<1>2. /\ cOut # <<>> /\ c2s' = c2s \o Head(cOut) /\ cOut' = Tail(cOut)
      /\ UNCHANGED <<client, s2c, sOut, server, ncalls, done>>
  BY StaysUp DEF ClientWrite
<1>3. Carried(c2s \o Head(cOut), Tail(cOut), ups)
  BY <1>1, <1>2, CarryWrite
<1>4. Carried(c2s, cOut, ups)' /\ Carried(s2c, sOut, downs)'
  BY <1>1, <1>2, <1>3
<1>5. ups # <<>>
  BY <1>1, <1>2, CarryNothing
<1>6. Asking(ups) /\ downs = <<>>
  BY <1>1, <1>5 DEF Talk
<1>7. Asking(ups)'
  BY <1>2, <1>6 DEF Asking, Named, Polls, Serves, Writes, Sized
<1>8. Talk(ups, downs)'
  BY <1>6, <1>7 DEF Talk
<1>9. (client.at = "idle" \/ client.call \in Calls)' /\ (client \in Caller)' /\ (server \in Handler)'
  BY <1>2 DEF Agreed
<1>10. (ncalls \in Nat /\ done \subseteq Nat /\ \A d \in done : d <= ncalls)'
  BY <1>2 DEF Agreed
<1>11. QED  BY <1>4, <1>8, <1>9, <1>10 DEF Agreed

\* A call that has its result leaves nothing behind.
LEMMA AtReturn ==
  ASSUME Agreed, client.at = "ret"
  PROVE  /\ Carried(c2s, cOut, <<>>) /\ Carried(s2c, sOut, <<>>) /\ Polls
         /\ Fits(<<"ret", client.ret>>) /\ client.ret \in {0, -1}
<1>1. PICK ups, downs : Carried(c2s, cOut, ups) /\ Carried(s2c, sOut, downs) /\ Talk(ups, downs)
  BY DEF Agreed
<1>2. PICK e : ups = <<>> /\ Chain(client.call, ncalls, Place, downs, e) /\ Fits(e)
  BY <1>1 DEF Talk, Resting, Asking
<1>3. Place = <<"ret", client.ret>> /\ Place[1] = "ret"
  BY PlaceAt
<1>4. downs \in Seq(Message)
  BY <1>1 DEF Carried
<1>5. downs = <<>>
  BY <1>2, <1>3, <1>4, ChainFirst, NoWay
<1>6. e = Place
  BY <1>2, <1>5, ChainEnd
<1>7. e = <<"ret", client.ret>>
  BY <1>3, <1>6
<1>8. Polls /\ e \in {<<"ret", 0>>, <<"ret", -1>>}
  BY <1>2, <1>7 DEF Fits
<1>9. client.ret \in {0, -1}
  BY <1>7, <1>8
<1>10. Fits(<<"ret", client.ret>>)
  BY <1>2, <1>7
<1>11. QED  BY <1>1, <1>2, <1>5, <1>8, <1>9, <1>10

\* The next call starts in step.
LEMMA ReturnAgrees ==
  ASSUME Agreed, Return
  PROVE  Agreed'
<1>1. /\ client.at = "ret" /\ ncalls' = ncalls + 1
      /\ client' = [client EXCEPT !.at = "idle", !.call = NoCall, !.ret = 0]
      /\ UNCHANGED <<c2s, s2c, cOut, sOut, server, done>>
  BY DEF Return
<1>2. Carried(c2s, cOut, <<>>) /\ Carried(s2c, sOut, <<>>) /\ Polls
  BY <1>1, AtReturn
<1>3. Carried(c2s, cOut, <<>>)' /\ Carried(s2c, sOut, <<>>)' /\ Polls'
  BY <1>1, <1>2 DEF Polls
<1>4. client' \in Caller /\ client'.at = "idle"
  <2>1. client \in Caller
    BY DEF Agreed
  <2>2. PICK a : a = [client EXCEPT !.at = "idle"]
    OBVIOUS
  <2>3. a \in Caller /\ a.at = "idle"
    BY <2>1, <2>2 DEF Caller
  <2>4. PICK b : b = [a EXCEPT !.call = NoCall]
    OBVIOUS
  <2>5. b \in Caller /\ b.at = "idle"
    BY <2>3, <2>4 DEF Caller
  <2>6. client' = [b EXCEPT !.ret = 0]
    BY <1>1, <2>2, <2>4
  <2>7. QED  BY <2>5, <2>6 DEF Caller
<1>5. /\ ncalls' \in Nat /\ ncalls' \notin done' /\ done' \subseteq Nat
      /\ \A d \in done' : d <= ncalls'
  <2>1. ncalls \in Nat /\ done \subseteq Nat /\ \A d \in done : d <= ncalls
    BY DEF Agreed
  <2>2. \A d \in done : d \in Nat /\ d <= ncalls + 1 /\ d # ncalls + 1
    BY <2>1
  <2>3. ncalls + 1 \in Nat
    BY <2>1
  <2>4. QED  BY <1>1, <2>1, <2>2, <2>3
<1>6. Talk(<<>>, <<>>)'
  BY <1>3, <1>4, <1>5 DEF Talk, Resting
<1>7. server' \in Handler
  BY <1>1 DEF Agreed
<1>8. QED  BY <1>3, <1>4, <1>5, <1>6, <1>7 DEF Agreed

-----------------------------------------------------------------------------
(* The server's steps.                                                     *)

\* The server is told messages ms, the first of which it takes next.
Told(ms) ==
  /\ Asking(ms) /\ Carried(s2c, sOut, <<>>)
  /\ ms \in Seq(Message) /\ ms # <<>> /\ ms[1] \in Message
  /\ Len(c2s) \in Nat /\ Len(c2s) >= Len(ms[1]) /\ \A i \in 1..Len(ms[1]) : c2s[i] = ms[1][i]
  /\ Taken(c2s, Len(ms[1])) = ms[1] /\ Head(c2s) = ms[1][1]
  /\ Carried(Left(c2s, Len(ms[1])), cOut, Tail(ms))
  /\ client.call \in Calls /\ client.at # "idle"

\* A server that finds something in the stream is told what was asked.
LEMMA IsTold ==
  ASSUME Agreed, c2s # <<>>
  PROVE  \E ms : Told(ms)
<1>1. PICK ms, downs : Carried(c2s, cOut, ms) /\ Carried(s2c, sOut, downs) /\ Talk(ms, downs)
  BY DEF Agreed
<1>2. ms # <<>>
  BY <1>1, CarryNothing
<1>3. Asking(ms) /\ downs = <<>>
  BY <1>1, <1>2 DEF Talk
<1>4. client.at # "idle" /\ client.call \in Calls
  BY <1>3 DEF Asking, Agreed
<1>5. /\ ms[1] \in Message /\ Taken(c2s, Len(ms[1])) = ms[1]
      /\ Len(c2s) \in Nat /\ Len(c2s) >= Len(ms[1])
      /\ Carried(Left(c2s, Len(ms[1])), cOut, Tail(ms))
      /\ \A i \in 1..Len(ms[1]) : c2s[i] = ms[1][i]
  BY <1>1, CarryRead
<1>6. ms \in Seq(Message) /\ c2s \in Seq(Bit)
  BY <1>1 DEF Carried
<1>7. 1 \in 1..Len(ms[1])
  <2>1. ms[1] \in Seq(Bit) /\ ms[1] # <<>>
    BY <1>5 DEF Message
  <2>2. QED  BY <2>1, Places
<1>8. Head(c2s) = ms[1][1]
  BY <1>5, <1>6, <1>7
<1>9. Told(ms)
  BY <1>1, <1>2, <1>3, <1>4, <1>5, <1>6, <1>8 DEF Told
<1>10. QED  BY <1>9

\* Having taken a message the server is told the others.
LEMMA ToldOn ==
  ASSUME Agreed, NEW ms, Told(ms), NEW rest, rest = Tail(ms), Asking(rest)',
         server' \in Handler, c2s' = Left(c2s, Len(ms[1])), sOut = <<>>, sOut' = <<>>,
         UNCHANGED <<s2c, cOut, client, ncalls, done>>
  PROVE  Agreed'
<1>1. Carried(c2s, cOut, rest)' /\ Carried(s2c, sOut, <<>>)'
  BY DEF Told
<1>2. Talk(rest, <<>>)'
  BY DEF Talk
<1>3. (client.call \in Calls)' /\ (client \in Caller)'
  BY DEF Told, Agreed
<1>4. (ncalls \in Nat /\ done \subseteq Nat /\ \A d \in done : d <= ncalls)'
  BY DEF Agreed
<1>5. QED  BY <1>1, <1>2, <1>3, <1>4 DEF Agreed

\* Having taken the last message the server answers.
LEMMA ToldAll ==
  ASSUME Agreed, NEW ms, Told(ms), Tail(ms) = <<>>,
         NEW out \in Seq(Message), NEW e, Chain(client.call, ncalls, Place, out, e), Fits(e)',
         server' \in Handler, c2s' = Left(c2s, Len(ms[1])), sOut = <<>>, sOut' = out,
         done' = done \/ done' = done \cup {ncalls},
         UNCHANGED <<s2c, cOut, client, ncalls>>
  PROVE  Agreed'
<1>1. Carried(c2s, cOut, <<>>)'
  BY DEF Told
<1>2. Carried(s2c, out, out)
  <2>1. s2c = <<>>
    BY CarryNothing DEF Told
  <2>2. QED  BY <2>1, CarryStart
<1>3. Carried(s2c, sOut, out)'
  BY <1>2
<1>4. Place' = Place
  BY DEF Place
<1>5. Chain(client.call, ncalls, Place, out, e)'
  BY <1>4
<1>6. (client.call \in Calls)' /\ (client \in Caller)' /\ client'.at # "idle"
  BY DEF Told, Agreed
<1>7. Talk(<<>>, out)'
  BY <1>5, <1>6 DEF Talk
<1>8. (ncalls \in Nat /\ done \subseteq Nat /\ \A d \in done : d <= ncalls)'
  <2>1. ncalls \in Nat /\ done \subseteq Nat /\ \A d \in done : d <= ncalls
    BY DEF Agreed
  <2>2. \A d \in done \cup {ncalls} : d \in Nat /\ d <= ncalls
    BY <2>1
  <2>3. ncalls' = ncalls /\ done' \subseteq done \cup {ncalls}
    OBVIOUS
  <2>4. QED  BY <2>1, <2>2, <2>3
<1>9. QED  BY <1>1, <1>3, <1>6, <1>7, <1>8 DEF Agreed

\* A server that sends files goes on from where the client will be.
Telling(downs, e) ==
  /\ Carried(c2s, cOut, <<>>) /\ Carried(s2c, sOut, downs)
  /\ Chain(client.call, ncalls, Place, downs, e)
  /\ client.at # "idle" /\ client.call \in Calls

\* What the client will have read when it has read what is on its way.
LEMMA IsTelling ==
  ASSUME Agreed, NEW at \in {"files", "evict"}, server.at = at
  PROVE  \E downs, e :
           /\ Telling(downs, e)
           /\ \/ at = "files" /\ e = <<"plen", 0>> /\ Serves("files") /\ client.call.op = "READN"
              \/ at = "evict" /\ e = <<"more", 0>> /\ Writes("evict") /\ client.call.op = "APPEND" /\ server.back
<1>1. PICK ups, downs : Carried(c2s, cOut, ups) /\ Carried(s2c, sOut, downs) /\ Talk(ups, downs)
  BY DEF Agreed
<1>2. ~Polls
  BY DEF Polls, Polling
<1>3. ~Asking(ups)
  BY <1>2 DEF Asking, Serves, Writes
<1>4. PICK e : ups = <<>> /\ client.at # "idle" /\ Chain(client.call, ncalls, Place, downs, e) /\ Fits(e)
  BY <1>1, <1>2, <1>3 DEF Talk, Resting
<1>5. client.call \in Calls
  BY <1>4 DEF Agreed
<1>6. Telling(downs, e)
  BY <1>1, <1>4, <1>5 DEF Telling
<1>7. \/ at = "files" /\ e = <<"plen", 0>> /\ Serves("files") /\ client.call.op = "READN"
      \/ at = "evict" /\ e = <<"more", 0>> /\ Writes("evict") /\ client.call.op = "APPEND" /\ server.back
  BY <1>2, <1>4 DEF Fits, Writes, Serves
<1>8. QED  BY <1>6, <1>7

\* What the server says more leads the client on.
LEMMA TellsOn ==
  ASSUME Agreed, NEW downs, NEW e, Telling(downs, e),
         NEW out \in Seq(Message), NEW f, Chain(client.call, ncalls, e, out, f), Fits(f)',
         server' \in Handler, c2s' = Left(c2s, 0), sOut = <<>>, sOut' = out,
         done' = done \/ done' = done \cup {ncalls},
         UNCHANGED <<s2c, cOut, client, ncalls>>
  PROVE  Agreed'
<1>1. c2s' = c2s
  BY LeftNone DEF Telling, Carried
<1>2. Carried(c2s, cOut, <<>>)'
  BY <1>1 DEF Telling
<1>3. Carried(s2c, <<>>, downs) /\ downs \in Seq(Message)
  BY DEF Telling, Carried
<1>4. PICK all : all = downs \o out
  OBVIOUS
<1>5. Carried(s2c, out, all)
  BY <1>3, <1>4, CarrySay
<1>6. Carried(s2c, sOut, all)'
  BY <1>5
<1>7. Chain(client.call, ncalls, Place, all, f)
  BY <1>3, <1>4, ChainJoin DEF Telling
<1>8. Place' = Place
  BY DEF Place
<1>9. Chain(client.call, ncalls, Place, all, f)'
  BY <1>7, <1>8
<1>10. (client.call \in Calls)' /\ (client \in Caller)' /\ client'.at # "idle"
  BY DEF Telling, Agreed
<1>11. Talk(<<>>, all)'
  BY <1>9, <1>10 DEF Talk
<1>12. (ncalls \in Nat /\ done \subseteq Nat /\ \A d \in done : d <= ncalls)'
  <2>1. ncalls \in Nat /\ done \subseteq Nat /\ \A d \in done : d <= ncalls
    BY DEF Agreed
  <2>2. \A d \in done \cup {ncalls} : d \in Nat /\ d <= ncalls
    BY <2>1
  <2>3. ncalls' = ncalls /\ done' \subseteq done \cup {ncalls}
    OBVIOUS
  <2>4. QED  BY <2>1, <2>2, <2>3
<1>13. QED  BY <1>2, <1>6, <1>10, <1>11, <1>12 DEF Agreed

\* A write of the server goes into the stream.
LEMMA ServerWriteAgrees ==
  ASSUME Agreed, ServerWrite
  PROVE  Agreed'
<1>1. PICK ups, downs : Carried(c2s, cOut, ups) /\ Carried(s2c, sOut, downs) /\ Talk(ups, downs)
  BY DEF Agreed
<1>2. /\ sOut # <<>> /\ s2c' = s2c \o Head(sOut) /\ sOut' = Tail(sOut)
      /\ UNCHANGED <<client, c2s, cOut, server, ncalls, done>>
  BY DEF ServerWrite
<1>3. Carried(s2c \o Head(sOut), Tail(sOut), downs)
  BY <1>1, <1>2, CarryWrite
<1>4. Carried(c2s, cOut, ups)' /\ Carried(s2c, sOut, downs)'
  BY <1>1, <1>2, <1>3
<1>5. downs # <<>>
  BY <1>1, <1>2, CarryNothing
<1>6. PICK e : ups = <<>> /\ client.at # "idle" /\ Chain(client.call, ncalls, Place, downs, e) /\ Fits(e)
  BY <1>1, <1>5 DEF Talk
<1>7. Fits(e)' /\ Place' = Place
  BY <1>2, <1>6 DEF Fits, Polls, Serves, Writes, Sized, Place
<1>8. Chain(client.call, ncalls, Place, downs, e)'
  BY <1>2, <1>6, <1>7
<1>9. Talk(ups, downs)'
  BY <1>2, <1>6, <1>7, <1>8 DEF Talk
<1>10. (client.at = "idle" \/ client.call \in Calls)' /\ (client \in Caller)' /\ (server \in Handler)'
  BY <1>2 DEF Agreed
<1>11. (ncalls \in Nat /\ done \subseteq Nat /\ \A d \in done : d <= ncalls)'
  BY <1>2 DEF Agreed
<1>12. QED  BY <1>4, <1>9, <1>10, <1>11 DEF Agreed

\* The server between two requests is a server.
LEMMA PollingIs ==
  Polling \in Handler /\ Polling.at = "poll" /\ Polling.held = FALSE
BY DEF Polling, Handler, Ops

\* A handler that holds no mutex ends between two requests.
LEMMA IdleIs ==
  ASSUME server \in Handler, ~server.held
  PROVE  Idle = Polling
<1>1. server.held = FALSE
  BY DEF Handler
<1>2. QED  BY <1>1, PollingIs DEF Idle, Polling

\* Every place of the server within a request.
LEMMA InRequest ==
  ASSUME Agreed, server.at \notin {"poll"}
  PROVE  Serves(server.at) /\ Idle = Polling /\ client.call \in Calls
<1>1. PICK ups, downs : Talk(ups, downs)
  BY DEF Agreed
<1>2. ~Polls
  BY DEF Polls, Polling
<1>3. Serves(server.at)
  BY <1>1, <1>2 DEF Talk, Resting, Asking, Fits, Writes, Serves
<1>4. client.at # "idle"
  BY <1>1, <1>2 DEF Talk, Resting, Asking
<1>5. QED  BY <1>3, <1>4, IdleIs DEF Serves, Agreed

\* The server that has read a request of one unit.
Served(s, at, op, len) ==
  /\ s \in Handler /\ s.at = at /\ s.op = op /\ s.of = ncalls /\ s.ok /\ s.need = len /\ ~s.held

\* A request of one unit is read as what it is.
LEMMA ServedIs ==
  ASSUME ncalls \in Nat, NEW at \in {"path", "files"}, NEW op \in Ops, NEW len \in Int,
         Idle = Polling, NEW u, u.of = ncalls, u.is = op, NEW s,
         s = [Idle EXCEPT !.op = op, !.need = len, !.of = u.of, !.ok = u.is \in Ops]
  PROVE  Served([s EXCEPT !.at = at], at, op, len)
<1>1. (u.is \in Ops) = TRUE
  OBVIOUS
<1>2. PICK a : a = [Polling EXCEPT !.op = op]
  OBVIOUS
<1>3. a \in Handler /\ a.op = op /\ ~a.held
  BY <1>2, PollingIs DEF Handler
<1>4. PICK b : b = [a EXCEPT !.need = len]
  OBVIOUS
<1>5. b \in Handler /\ b.op = op /\ ~b.held /\ b.need = len
  BY <1>3, <1>4 DEF Handler
<1>6. PICK c : c = [b EXCEPT !.of = ncalls]
  OBVIOUS
<1>7. c \in Handler /\ c.op = op /\ ~c.held /\ c.need = len /\ c.of = ncalls
  BY <1>5, <1>6 DEF Handler
<1>8. PICK d : d = [c EXCEPT !.ok = TRUE]
  OBVIOUS
<1>9. d \in Handler /\ d.op = op /\ ~d.held /\ d.need = len /\ d.of = ncalls /\ d.ok
  BY <1>7, <1>8 DEF Handler
<1>10. s = d
  BY <1>1, <1>2, <1>4, <1>6, <1>8
<1>11. PICK e : e = [d EXCEPT !.at = at]
  OBVIOUS
<1>12. e \in Handler /\ e.at = at /\ e.op = op /\ ~e.held /\ e.need = len /\ e.of = ncalls /\ e.ok
  BY <1>9, <1>11 DEF Handler
<1>13. QED  BY <1>10, <1>11, <1>12 DEF Served

\* The server reads the request the client has sent, and calls its handler.
LEMMA WorkerAgrees ==
  ASSUME Agreed, server_worker
  PROVE  Agreed'
<1>1. server.at = "poll" /\ sOut = <<>> /\ c2s # <<>>
  BY DEF server_worker, Serving
<1>2. PICK ms : Told(ms)
  BY <1>1, IsTold
<1>3. ncalls \in Nat /\ client.call \in Calls
  BY <1>2 DEF Told, Agreed
<1>4. Asking(ms) /\ Head(c2s) = ms[1][1]
  BY <1>2 DEF Told
<1>5. Polls /\ ncalls \notin done
  BY <1>1, <1>4 DEF Asking, Serves, Writes
<1>6. Idle = Polling
  BY <1>5, PollingIs, IdleIs DEF Polls
<1>7. CASE client.at = "answer" /\ \E rest : Named(rest) /\ ms = <<Asks(client.call.op, PathLen, ncalls)>> \o rest
  <2>1. PICK rest : Named(rest) /\ ms = <<Asks(client.call.op, PathLen, ncalls)>> \o rest
    BY <1>7
  <2>2. PICK op : op = client.call.op
    OBVIOUS
  <2>3. op \in PathOps \cup WriteOps
    BY <2>1, <2>2 DEF Named
  <2>4. op \in Ops /\ op \notin {"NONE", "OTHER", "LOCK", "UNLOCK", "READN"}
    BY <2>3 DEF PathOps, WriteOps, Ops
  <2>5. PICK a : a = Asks(op, PathLen, ncalls)
    OBVIOUS
  <2>6. PathLen \in Int /\ ncalls \in Int
    BY <1>3, ProtocolAssumption
  <2>7. a \in Message /\ Len(a) = 1 /\ a[1].is = op /\ a[1].of = ncalls
        /\ Spells(a[1]) = {[op |-> op, len |-> PathLen]}
    BY <2>4, <2>5, <2>6, AsksOne
  <2>8. ms[1] = a /\ Tail(ms) = rest
    <3>1. Name(ncalls) \in Message
      BY <2>6, NameRow
    <3>2. CASE rest = <<Name(ncalls)>>
      <4>1. ms = <<a, Name(ncalls)>>
        BY <2>1, <2>2, <2>5, <2>7, <3>1, <3>2, Together
      <4>2. QED  BY <3>2, <4>1
    <3>3. CASE rest = <<Name(ncalls), Number(client.call.size, ncalls)>> /\ Sized
      <4>1. client.call.size \in Int
        BY <3>3 DEF Sized
      <4>2. Number(client.call.size, ncalls) \in Message
        BY <2>6, <4>1, NumberTwo
      <4>3. ms = <<a, Name(ncalls), Number(client.call.size, ncalls)>>
        BY <2>1, <2>2, <2>5, <2>7, <3>1, <3>3, <4>2, TogetherThree
      <4>4. QED  BY <3>3, <4>3
    <3>4. QED  BY <2>1, <3>2, <3>3 DEF Named
  <2>9. PICK s : s = [Idle EXCEPT !.op = op, !.need = PathLen, !.of = Head(c2s).of, !.ok = Head(c2s).is \in Ops]
    OBVIOUS
  <2>10. Takes(1, [s EXCEPT !.at = "path"], <<>>, FALSE, {})
    <3>1. Spells(Head(c2s)) = {[op |-> op, len |-> PathLen]}
      BY <1>4, <2>7, <2>8
    <3>2. PICK r : r = [op |-> op, len |-> PathLen]
      OBVIOUS
    <3>3. r.op = op /\ r.len = PathLen /\ Spells(Head(c2s)) = {r}
      BY <3>1, <3>2
    <3>4. QED  BY <2>4, <2>9, <3>3 DEF server_worker
  <2>11. Served([s EXCEPT !.at = "path"], "path", op, PathLen)
    <3>1. PICK u : u = Head(c2s)
      OBVIOUS
    <3>2. u.of = ncalls /\ u.is = op
      BY <1>4, <2>7, <2>8, <3>1
    <3>3. s = [Idle EXCEPT !.op = op, !.need = PathLen, !.of = u.of, !.ok = u.is \in Ops]
      BY <2>9, <3>1
    <3>4. "path" \in {"path", "files"}
      OBVIOUS
    <3>5. op \in Ops /\ PathLen \in Int /\ ncalls \in Nat
      BY <1>3, <2>4, <2>6
    <3>6. QED  BY <1>6, <3>2, <3>3, <3>4, <3>5, ServedIs
  <2>12. Served(server', "path", op, PathLen) /\ server' \in Handler
    BY <2>10, <2>11 DEF Takes, Served
  <2>13. /\ c2s' = Left(c2s, Len(ms[1])) /\ sOut' = <<>>
         /\ UNCHANGED <<s2c, cOut, client, ncalls, done>>
    BY <2>7, <2>8, <2>10 DEF Takes
  <2>14. Asking(rest)'
    <3>1. Named(rest)'
      BY <2>1, <2>13 DEF Named, Sized
    <3>2. Serves("path")' /\ (server.need = PathLen)'
      BY <1>5, <2>2, <2>12, <2>13 DEF Served, Serves
    <3>3. (client.at = "answer")'
      BY <1>7, <2>13
    <3>4. QED  BY <3>1, <3>2, <3>3 DEF Asking
  <2>15. QED  BY <1>1, <1>2, <2>8, <2>12, <2>13, <2>14, ToldOn
<1>8. CASE client.at = "plen" /\ client.call.op = "READN" /\ ms = <<Asks("READN", client.call.n, ncalls)>>
  <2>1. PICK n : n = client.call.n
    OBVIOUS
  <2>2. n \in Int /\ ncalls \in Int /\ "READN" \in Ops
    BY <1>3, <2>1, CallTyped DEF Agreed, Ops
  <2>3. PICK a : a = Asks("READN", n, ncalls)
    OBVIOUS
  <2>4. a \in Message /\ Len(a) = 1 /\ a[1].is = "READN" /\ a[1].of = ncalls
        /\ Spells(a[1]) = {[op |-> "READN", len |-> n]}
    BY <2>2, <2>3, AsksOne
  <2>5. ms[1] = a /\ Tail(ms) = <<>>
    BY <1>8, <2>1, <2>3
  <2>6. PICK s : s = [Idle EXCEPT !.op = "READN", !.need = n, !.of = Head(c2s).of, !.ok = Head(c2s).is \in Ops]
    OBVIOUS
  <2>7. Takes(1, [s EXCEPT !.at = "files"], <<>>, FALSE, {})
    <3>1. Spells(Head(c2s)) = {[op |-> "READN", len |-> n]}
      BY <1>4, <2>4, <2>5
    <3>2. PICK r : r = [op |-> "READN", len |-> n]
      OBVIOUS
    <3>3. r.op = "READN" /\ r.len = n /\ Spells(Head(c2s)) = {r}
      BY <3>1, <3>2
    <3>4. QED  BY <2>6, <3>3 DEF server_worker
  <2>8. Served([s EXCEPT !.at = "files"], "files", "READN", n)
    <3>1. PICK u : u = Head(c2s)
      OBVIOUS
    <3>2. u.of = ncalls /\ u.is = "READN"
      BY <1>4, <2>4, <2>5, <3>1
    <3>3. s = [Idle EXCEPT !.op = "READN", !.need = n, !.of = u.of, !.ok = u.is \in Ops]
      BY <2>6, <3>1
    <3>4. "files" \in {"path", "files"}
      OBVIOUS
    <3>5. QED  BY <1>3, <1>6, <2>2, <3>2, <3>3, <3>4, ServedIs
  <2>9. Served(server', "files", "READN", n) /\ server' \in Handler
    BY <2>7, <2>8 DEF Takes, Served
  <2>10. /\ c2s' = Left(c2s, Len(ms[1])) /\ sOut' = <<>>
         /\ UNCHANGED <<s2c, cOut, client, ncalls, done>>
    BY <2>4, <2>5, <2>7 DEF Takes
  <2>11. Place = <<"plen", 0>>
    BY <1>8, PlaceAt
  <2>12. Chain(client.call, ncalls, Place, <<>>, <<"plen", 0>>)
    BY <2>11, ChainNone
  <2>13. Fits(<<"plen", 0>>)'
    <3>1. Serves("files")' /\ (client.call.op = "READN")'
      BY <1>5, <1>8, <2>9, <2>10 DEF Served, Serves
    <3>2. QED  BY <3>1 DEF Fits
  <2>14. <<>> \in Seq(Message)
    OBVIOUS
  <2>15. QED  BY <1>1, <1>2, <2>5, <2>9, <2>10, <2>12, <2>13, <2>14, ToldAll
<1>9. QED
  <2>1. ~Serves("path") /\ ~Serves("len") /\ ~Writes("ask") /\ ~Writes("data")
    BY <1>1 DEF Serves, Writes
  <2>2. QED  BY <1>4, <1>7, <1>8, <2>1 DEF Asking

\* A handler that waits for a path is told the one that was asked for.
LEMMA PathTold ==
  ASSUME Agreed, NEW ops, GotPath(ops)
  PROVE  \E ms : /\ Told(ms) /\ client.at = "answer" /\ Serves("path") /\ server.need = PathLen
                 /\ Named(ms) /\ ms[1] = Name(ncalls) /\ Len(ms[1]) = PathLen /\ PathMeant
                 /\ sOut = <<>> /\ Idle = Polling /\ server.op \in ops
<1>1. server.at = "path" /\ sOut = <<>> /\ server.op \in ops
  BY DEF GotPath, Serving
<1>2. Serves("path") /\ Idle = Polling
  BY <1>1, InRequest
<1>3. PICK ups, downs : Talk(ups, downs)
  BY DEF Agreed
<1>4. ~Polls
  BY <1>1 DEF Polls, Polling
<1>5. server.need = PathLen
  BY <1>1, <1>3, <1>4 DEF Talk, Resting, Asking, Fits, Writes, Serves
<1>6. c2s # <<>>
  BY <1>5, ProtocolAssumption DEF GotPath
<1>7. PICK ms : Told(ms)
  BY <1>6, IsTold
<1>8. client.at = "answer" /\ Named(ms)
  BY <1>1, <1>4, <1>7 DEF Told, Asking, Serves, Writes
<1>9. ms[1] = Name(ncalls)
  BY <1>8 DEF Named
<1>10. ncalls \in Int
  BY DEF Agreed
<1>11. Len(ms[1]) = PathLen
  BY <1>9, <1>10, NameRow
<1>12. PathMeant
  <2>1. Len(c2s) >= PathLen /\ \A i \in 1..PathLen : c2s[i] = ms[1][i]
    BY <1>7, <1>11 DEF Told
  <2>2. \A i \in 1..PathLen : ms[1][i].is = "path" /\ ms[1][i].of = ncalls
    BY <1>9, <1>10, NameRow
  <2>3. server.ok /\ server.of = ncalls
    BY <1>2 DEF Serves
  <2>4. Meant("path", PathLen)
    BY <2>1, <2>2, <2>3 DEF Meant
  <2>5. QED  BY <1>5, <2>4 DEF PathMeant
<1>13. QED  BY <1>1, <1>2, <1>5, <1>7, <1>8, <1>9, <1>11, <1>12

\* A handler that answers once, and has then done what it was asked to do
\* or not.
LEMMA AnswerAgrees ==
  ASSUME Agreed, NEW ms, Told(ms), Tail(ms) = <<>>, Len(ms[1]) = server.need,
         NEW c \in Codes, NEW won, won \in BOOLEAN, NEW risks,
         sOut = <<>>, Idle = Polling, server.of = ncalls, ncalls \notin done,
         Answer(c, won, risks), won <=> c = "SUCCESS",
         Heard(client.call, ncalls, Place, Signal(c, ncalls), Returned(c))
  PROVE  Agreed'
<1>1. /\ c2s' = Left(c2s, Len(ms[1])) /\ server' = Polling
      /\ sOut' = <<Signal(c, ncalls)>>
      /\ done' = (IF won THEN done \cup {ncalls} ELSE done)
      /\ UNCHANGED <<s2c, cOut, client, ncalls>>
  BY Wording DEF Answer, Takes
<1>2. server' \in Handler
  BY <1>1, PollingIs
<1>3. PICK out : out = <<Signal(c, ncalls)>>
  OBVIOUS
<1>4. Signal(c, ncalls) \in Message
  BY SignalOne DEF Agreed
<1>5. out \in Seq(Message)
  BY <1>3, <1>4
<1>6. Chain(client.call, ncalls, Place, out, Returned(c))
  BY <1>3, ChainOne
<1>7. Fits(Returned(c))'
  <2>1. Polls'
    BY <1>1 DEF Polls
  <2>2. CASE c = "SUCCESS"
    <3>1. Returned(c) = <<"ret", 0>> /\ ncalls' \in done'
      BY <1>1, <2>2 DEF Returned
    <3>2. QED  BY <2>1, <3>1 DEF Fits
  <2>3. CASE c # "SUCCESS"
    <3>1. Returned(c) = <<"ret", -1>> /\ ncalls' \notin done'
      BY <1>1, <2>3 DEF Returned
    <3>2. Returned(c) # <<"ret", 0>>
      BY <3>1
    <3>3. QED  BY <2>1, <3>1, <3>2 DEF Fits
  <2>4. QED  BY <2>2, <2>3
<1>8. done' = done \/ done' = done \cup {ncalls}
  BY <1>1
<1>9. QED  BY <1>1, <1>2, <1>3, <1>5, <1>6, <1>7, <1>8, ToldAll

\* openFile, closeFile and removeFile, and a readFile without a file.
LEMMA PathAnswerAgrees ==
  ASSUME Agreed, NEW ops, GotPath(ops), ops \subseteq PathOps, NEW c \in Codes, NEW won \in BOOLEAN, NEW risks,
         Answer(c, won, risks), won <=> c = "SUCCESS" /\ PathMeant,
         "READ" \notin ops \/ c # "SUCCESS"
  PROVE  Agreed'
<1>1. PICK ms : /\ Told(ms) /\ client.at = "answer" /\ Serves("path") /\ server.need = PathLen
                /\ Named(ms) /\ ms[1] = Name(ncalls) /\ Len(ms[1]) = PathLen /\ PathMeant
                /\ sOut = <<>> /\ Idle = Polling /\ server.op \in ops
  BY PathTold
<1>2. client.call.op = server.op /\ server.of = ncalls /\ ncalls \notin done
  BY <1>1 DEF Serves
<1>3. client.call.op \in PathOps /\ Tail(ms) = <<>>
  <2>1. client.call.op \in PathOps
    BY <1>1, <1>2
  <2>2. ms = <<Name(ncalls)>>
    BY <1>1, <2>1 DEF Named, PathOps, WriteOps
  <2>3. QED  BY <2>1, <2>2
<1>4. Place = <<"answer", 0>>
  BY <1>1, PlaceAt
<1>5. HeardAnswer(client.call, ncalls, Place, Signal(c, ncalls), Returned(c))
  <2>1. CASE client.call.op = "READ"
    BY <1>1, <1>2, <1>4, <2>1 DEF HeardAnswer
  <2>2. CASE client.call.op # "READ"
    BY <1>3, <1>4, <2>2 DEF HeardAnswer
  <2>3. QED  BY <2>1, <2>2
<1>6. QED  BY <1>1, <1>2, <1>3, <1>5, AnswerAgrees DEF Heard

\* openFile, closeFile and removeFile are answered.
LEMMA OpenCloseRemoveAgree ==
  ASSUME Agreed, server_openFile \/ server_closeFile \/ server_removeFile, trouble' = {}
  PROVE  Agreed'
<1>0. ~Answer("SUCCESS", FALSE, {"freed path"})
  <2> SUFFICES ASSUME Answer("SUCCESS", FALSE, {"freed path"}) PROVE FALSE
    OBVIOUS
  <2>1. trouble' = trouble \cup {"freed path"}
    BY DEF Answer, Takes
  <2>2. QED  BY <2>1
<1>1. PICK c \in Codes, ops \in {{"OPEN"}, {"CLOSE"}, {"REMOVE"}} :
        GotPath(ops) /\ Answer(c, c = "SUCCESS" /\ PathMeant, {})
  BY <1>0 DEF server_openFile, server_closeFile, server_removeFile, Codes
<1>2. ops \subseteq PathOps /\ "READ" \notin ops
  BY <1>1 DEF PathOps
<1>3. PICK won \in BOOLEAN : won = (c = "SUCCESS" /\ PathMeant)
  OBVIOUS
<1>4. Answer(c, won, {})
  BY <1>1, <1>3
<1>5. won <=> c = "SUCCESS" /\ PathMeant
  BY <1>3
<1>6. QED  BY <1>1, <1>2, <1>3, <1>4, <1>5, PathAnswerAgrees

\* A file on its way leads from its length to what follows a file.
LEMMA FileChain ==
  ASSUME NEW call, NEW k \in Nat, NEW n \in 1..MaxData
  PROVE  /\ Chain(call, k, <<"dlen", 0>>, <<Number(n, k)>> \o <<Bytes(n, k)>>, FileRead(call.op))
         /\ <<Number(n, k)>> \o <<Bytes(n, k)>> \in Seq(Message)
<1>1. n \in Nat \ {0} /\ n \in Int /\ k \in Int
  BY ProtocolAssumption
<1>2. Number(n, k) \in Message /\ Bytes(n, k) \in Message
  BY <1>1, NumberTwo, BytesRow
<1>3. PICK a : a = <<Number(n, k)>>
  OBVIOUS
<1>4. PICK b : b = <<Bytes(n, k)>>
  OBVIOUS
<1>5. a \in Seq(Message) /\ b \in Seq(Message)
  BY <1>2, <1>3, <1>4
<1>6. Heard(call, k, <<"dlen", 0>>, Number(n, k), <<"data", n>>)
  BY DEF Heard, HeardDlen
<1>7. Heard(call, k, <<"data", n>>, Bytes(n, k), FileRead(call.op))
  BY DEF Heard, HeardData
<1>8. Chain(call, k, <<"dlen", 0>>, a, <<"data", n>>) /\ Chain(call, k, <<"data", n>>, b, FileRead(call.op))
  BY <1>3, <1>4, <1>6, <1>7, ChainOne
<1>9. Chain(call, k, <<"dlen", 0>>, a \o b, FileRead(call.op)) /\ a \o b \in Seq(Message)
  BY <1>5, <1>8, ChainJoin, ConcatProperties
<1>10. QED  BY <1>3, <1>4, <1>9

\* readFile is answered, and the file follows.
LEMMA ReadFileAgrees ==
  ASSUME Agreed, server_readFile, trouble' = {}
  PROVE  Agreed'
<1>1. GotPath({"READ"})
  BY DEF server_readFile
<1>2. ASSUME NEW c \in {"FNF", "LOCKED"}, Answer(c, FALSE, {}) PROVE Agreed'
  <2>1. c \in Codes /\ c # "SUCCESS" /\ FALSE \in BOOLEAN /\ {"READ"} \subseteq PathOps
    BY DEF Codes, PathOps
  <2>2. PICK won \in BOOLEAN : won = FALSE
    OBVIOUS
  <2>3. Answer(c, won, {}) /\ (won <=> c = "SUCCESS" /\ PathMeant)
    BY <1>2, <2>1, <2>2
  <2>4. QED  BY <1>1, <2>1, <2>3, PathAnswerAgrees
<1>3. ASSUME NEW n \in 0..MaxData,
             Takes(server.need, Idle, <<Code("SUCCESS")>> \o File(n), PathMeant, FileRisks(n))
      PROVE  Agreed'
  <2>1. PICK ms : /\ Told(ms) /\ client.at = "answer" /\ Serves("path") /\ server.need = PathLen
                  /\ Named(ms) /\ ms[1] = Name(ncalls) /\ Len(ms[1]) = PathLen /\ PathMeant
                  /\ sOut = <<>> /\ Idle = Polling /\ server.op \in {"READ"}
    BY <1>1, PathTold
  <2>2. client.call.op = "READ" /\ server.of = ncalls /\ ncalls \notin done /\ ncalls \in Nat /\ ncalls \in Int
    BY <2>1 DEF Serves, Agreed
  <2>3. Tail(ms) = <<>>
    <3>1. ms = <<Name(ncalls)>>
      BY <2>1, <2>2 DEF Named, WriteOps
    <3>2. QED  BY <3>1
  <2>4. FileRisks(n) = {}
    BY <1>3 DEF Takes
  <2>5. n \in Nat
    OBVIOUS
  <2>6. n \in Nat \ {0} /\ File(n) = <<Number(n, ncalls)>> \o <<Bytes(n, ncalls)>>
    BY <2>2, <2>4, <2>5, WholeFile
  <2>7. n \in 1..MaxData
    BY <2>6, ProtocolAssumption
  <2>8. PICK file : file = <<Number(n, ncalls)>> \o <<Bytes(n, ncalls)>>
    OBVIOUS
  <2>9. file \in Seq(Message) /\ Chain(client.call, ncalls, <<"dlen", 0>>, file, FileRead(client.call.op))
    BY <2>2, <2>7, <2>8, FileChain
  <2>10. FileRead(client.call.op) = <<"ret", 0>>
    BY <2>2 DEF FileRead
  <2>11. PICK first : first = <<Signal("SUCCESS", ncalls)>>
    OBVIOUS
  <2>12. "SUCCESS" \in Codes
    BY DEF Codes
  <2>13. Signal("SUCCESS", ncalls) \in Message
    BY <2>2, <2>12, SignalOne
  <2>14. first \in Seq(Message)
    BY <2>11, <2>13
  <2>15. Place = <<"answer", 0>>
    BY <2>1, PlaceAt
  <2>16. Heard(client.call, ncalls, Place, Signal("SUCCESS", ncalls), <<"dlen", 0>>)
    BY <2>2, <2>12, <2>15 DEF Heard, HeardAnswer
  <2>17. Chain(client.call, ncalls, Place, first, <<"dlen", 0>>)
    BY <2>11, <2>16, ChainOne
  <2>18. PICK out : out = first \o file
    OBVIOUS
  <2>19. out \in Seq(Message)
    BY <2>9, <2>14, <2>18, ConcatProperties
  <2>20. Chain(client.call, ncalls, Place, out, <<"ret", 0>>)
    BY <2>9, <2>10, <2>14, <2>17, <2>18, ChainJoin
  <2>21. /\ c2s' = Left(c2s, Len(ms[1])) /\ server' = Polling /\ sOut' = out
         /\ done' = done \cup {ncalls}
         /\ UNCHANGED <<s2c, cOut, client, ncalls>>
    BY <1>3, <2>1, <2>2, <2>6, <2>8, <2>11, <2>18, Wording DEF Takes
  <2>22. server' \in Handler
    BY <2>21, PollingIs
  <2>23. Fits(<<"ret", 0>>)'
    BY <2>21 DEF Fits, Polls
  <2>24. QED  BY <2>1, <2>3, <2>19, <2>20, <2>21, <2>22, <2>23, ToldAll
<1>4. QED  BY <1>2, <1>3 DEF server_readFile

\* A write that is not refused waits for its length.
LEMMA WriteFileAgrees ==
  ASSUME Agreed, server_writeFile, trouble' = {}
  PROVE  Agreed'
<1>1. GotPath({"WRITE", "APPEND"})
  BY DEF server_writeFile
<1>2. Takes(server.need, [server EXCEPT !.at = "len", !.ok = PathMeant], <<>>, FALSE, {})
  <2>1. ASSUME NEW n, NEW h, NEW out, Takes(n, h, out, FALSE, {"refused write"})
        PROVE  FALSE
    <3>1. trouble' = trouble \cup {"refused write"}
      BY <2>1 DEF Takes
    <3>2. QED  BY <3>1
  <2>2. QED  BY <2>1 DEF server_writeFile, Answer
<1>3. PICK ms : /\ Told(ms) /\ client.at = "answer" /\ Serves("path") /\ server.need = PathLen
                /\ Named(ms) /\ ms[1] = Name(ncalls) /\ Len(ms[1]) = PathLen /\ PathMeant
                /\ sOut = <<>> /\ Idle = Polling /\ server.op \in {"WRITE", "APPEND"}
  BY <1>1, PathTold
<1>4. client.call.op \in WriteOps
  BY <1>3 DEF Serves, WriteOps
<1>5. Sized /\ ms = <<Name(ncalls), Number(client.call.size, ncalls)>>
  BY <1>3, <1>4 DEF Named, PathOps, WriteOps
<1>6. PICK rest : rest = <<Number(client.call.size, ncalls)>>
  OBVIOUS
<1>7. rest = Tail(ms)
  BY <1>5, <1>6
<1>8. PICK a : a = [server EXCEPT !.at = "len"]
  OBVIOUS
<1>9. a \in Handler /\ a.at = "len" /\ a.op = server.op /\ a.of = server.of /\ a.held = server.held
  BY <1>8 DEF Agreed, Handler
<1>10. server' = [a EXCEPT !.ok = TRUE]
  <2>1. PathMeant = TRUE
    BY <1>3 DEF PathMeant, Meant
  <2>2. QED  BY <1>2, <1>8, <2>1 DEF Takes
<1>11. /\ server' \in Handler /\ server'.at = "len" /\ server'.op = server.op /\ server'.of = server.of
       /\ server'.held = server.held /\ server'.ok
  BY <1>9, <1>10 DEF Handler
<1>12. /\ c2s' = Left(c2s, Len(ms[1])) /\ sOut' = <<>>
       /\ UNCHANGED <<s2c, cOut, client, ncalls, done>>
  BY <1>2, <1>3 DEF Takes
<1>13. Asking(rest)'
  <2>1. Serves("len")' /\ (client.call.op \in WriteOps)' /\ Sized' /\ (client.at = "answer")'
    BY <1>3, <1>4, <1>5, <1>11, <1>12 DEF Serves, Sized
  <2>2. (rest = <<Number(client.call.size, ncalls)>>)'
    BY <1>6, <1>12
  <2>3. QED  BY <2>1, <2>2 DEF Asking
<1>14. QED  BY <1>3, <1>7, <1>11, <1>12, <1>13, ToldOn

\* A server that is told a length takes it for what it is.
LEMMA ToldNumber ==
  ASSUME Agreed, NEW ms, Told(ms), NEW n \in Int, ms[1] = Number(n, ncalls)
  PROVE  /\ Len(ms[1]) = 2 /\ Len(c2s) > 1 /\ IsLength(Taken(c2s, 2))
         /\ Lengths(Taken(c2s, 2)) = {n} /\ c2s[1].of = ncalls
<1>1. ncalls \in Int
  BY DEF Agreed
<1>2. /\ Len(ms[1]) = 2 /\ IsLength(ms[1]) /\ Lengths(ms[1]) = {n} /\ ms[1][1].of = ncalls
  BY <1>1, NumberTwo
<1>3. Taken(c2s, 2) = ms[1] /\ Len(c2s) \in Nat /\ Len(c2s) >= 2 /\ \A i \in 1..2 : c2s[i] = ms[1][i]
  BY <1>2 DEF Told
<1>4. QED  BY <1>2, <1>3

\* A handler of a write that goes on.
LEMMA NowWrites ==
  ASSUME server \in Handler, NEW at \in {"data", "ask"}, NEW n \in Int, NEW good, good = TRUE,
         server' = [server EXCEPT !.at = at, !.need = n, !.ok = good]
  PROVE  /\ server' \in Handler /\ server'.at = at /\ server'.op = server.op /\ server'.of = server.of
         /\ server'.held = server.held /\ server'.ok /\ server'.need = n
<1>1. PICK a : a = [server EXCEPT !.at = at]
  OBVIOUS
<1>2. a \in Handler /\ a.at = at /\ a.op = server.op /\ a.of = server.of /\ a.held = server.held
  BY <1>1 DEF Handler
<1>3. PICK b : b = [a EXCEPT !.need = n]
  OBVIOUS
<1>4. b \in Handler /\ b.at = at /\ b.op = server.op /\ b.of = server.of /\ b.held = server.held /\ b.need = n
  BY <1>2, <1>3 DEF Handler
<1>5. server' = [b EXCEPT !.ok = TRUE]
  BY <1>1, <1>3
<1>6. QED  BY <1>4, <1>5 DEF Handler

\* The length of a write is read, and the client is told what comes next.
LEMMA WriteLenAgrees ==
  ASSUME Agreed, WriteLen, trouble' = {}
  PROVE  Agreed'
<1>1. server.at = "len" /\ sOut = <<>> /\ c2s # <<>>
  BY DEF WriteLen, Serving
<1>2. Serves("len") /\ Idle = Polling /\ server \in Handler /\ ncalls \in Nat
  BY <1>1, InRequest DEF Agreed
<1>3. PICK ms : Told(ms)
  BY <1>1, IsTold
<1>4. client.at = "answer" /\ client.call.op \in WriteOps /\ Sized
      /\ ms = <<Number(client.call.size, ncalls)>>
  <2>1. ~Polls
    BY <1>1 DEF Polls, Polling
  <2>2. QED  BY <1>1, <1>3, <2>1 DEF Told, Asking, Serves, Writes
<1>5. PICK n : n = client.call.size
  OBVIOUS
<1>6. n \in Int /\ n > 0 /\ n \in 1..Chunk
  BY <1>4, <1>5, ProtocolAssumption DEF Sized
<1>7. ms[1] = Number(n, ncalls) /\ Tail(ms) = <<>>
  BY <1>4, <1>5
<1>8. /\ Len(ms[1]) = 2 /\ Len(c2s) > 1 /\ IsLength(Taken(c2s, 2))
      /\ Lengths(Taken(c2s, 2)) = {n} /\ c2s[1].of = ncalls
  BY <1>3, <1>6, <1>7, ToldNumber
<1>9. PICK good : good = (IsLength(Taken(c2s, 2)) /\ server.ok /\ c2s[1].of = server.of)
  OBVIOUS
<1>10. good = TRUE
  <2>1. IsLength(Taken(c2s, 2)) /\ server.ok /\ c2s[1].of = server.of
    BY <1>2, <1>8 DEF Serves
  <2>2. (IsLength(Taken(c2s, 2)) /\ server.ok /\ c2s[1].of = server.of) = TRUE
    BY <2>1
  <2>3. QED  BY <1>9, <2>2
<1>11. \/ Takes(2, [server EXCEPT !.at = "data", !.need = n, !.ok = good], <<Code("SUCCESS")>>, FALSE, {})
       \/ Takes(2, Idle, <<Code("FAILURE")>>, FALSE, {})
       \/ Takes(2, [server EXCEPT !.at = "ask", !.need = n, !.ok = good], <<Code("EVICT")>>, FALSE,
                IF server.op = "WRITE" THEN {"evicting write"} ELSE {})
  <2>1. ~(Len(c2s) = 1)
    BY <1>8
  <2>2. QED  BY <1>8, <1>9, <2>1 DEF WriteLen
<1>12. Place = <<"answer", 0>> /\ "SUCCESS" \in Codes /\ "FAILURE" \in Codes /\ "EVICT" \in Codes
  BY <1>4, PlaceAt DEF Codes
<1>13. ncalls \notin done /\ server.op = client.call.op /\ server.of = ncalls /\ ~server.held
  BY <1>2 DEF Serves
<1>14. CASE Takes(2, [server EXCEPT !.at = "data", !.need = n, !.ok = good], <<Code("SUCCESS")>>, FALSE, {})
  <2>1. PICK out : out = <<Signal("SUCCESS", ncalls)>>
    OBVIOUS
  <2>2. Signal("SUCCESS", ncalls) \in Message
    BY <1>2, <1>12, SignalOne
  <2>3. out \in Seq(Message)
    BY <2>1, <2>2
  <2>4. Heard(client.call, ncalls, Place, Signal("SUCCESS", ncalls), <<"sends", 0>>)
    BY <1>4, <1>12 DEF Heard, HeardAnswer
  <2>5. Chain(client.call, ncalls, Place, out, <<"sends", 0>>)
    BY <2>1, <2>4, ChainOne
  <2>6. server' = [server EXCEPT !.at = "data", !.need = n, !.ok = good]
    BY <1>14 DEF Takes
  <2>7. /\ server' \in Handler /\ server'.at = "data" /\ server'.op = server.op /\ server'.of = server.of
        /\ server'.held = server.held /\ server'.ok /\ server'.need = n
    BY <1>2, <1>6, <1>10, <2>6, NowWrites
  <2>8. /\ c2s' = Left(c2s, Len(ms[1])) /\ sOut' = out /\ done' = done
        /\ UNCHANGED <<s2c, cOut, client, ncalls>>
    BY <1>8, <1>14, <2>1, Wording DEF Takes
  <2>9. Fits(<<"sends", 0>>)'
    <3>1. Writes("data")'
      BY <1>4, <1>5, <1>13, <2>7, <2>8 DEF Writes, Serves, Sized
    <3>2. QED  BY <3>1 DEF Fits
  <2>10. QED  BY <1>1, <1>3, <1>7, <2>3, <2>5, <2>7, <2>8, <2>9, ToldAll
<1>15. CASE Takes(2, Idle, <<Code("FAILURE")>>, FALSE, {})
  <2>1. PICK won \in BOOLEAN : won = FALSE
    OBVIOUS
  <2>2. Heard(client.call, ncalls, Place, Signal("FAILURE", ncalls), Returned("FAILURE"))
    BY <1>4, <1>12 DEF Heard, HeardAnswer
  <2>3. PICK out : out = <<Signal("FAILURE", ncalls)>>
    OBVIOUS
  <2>4. Signal("FAILURE", ncalls) \in Message
    BY <1>2, <1>12, SignalOne
  <2>5. out \in Seq(Message)
    BY <2>3, <2>4
  <2>6. Returned("FAILURE") = <<"ret", -1>>
    BY DEF Returned
  <2>7. Chain(client.call, ncalls, Place, out, <<"ret", -1>>)
    BY <2>2, <2>3, <2>6, ChainOne
  <2>8. /\ c2s' = Left(c2s, Len(ms[1])) /\ server' = Polling /\ sOut' = out /\ done' = done
        /\ UNCHANGED <<s2c, cOut, client, ncalls>>
    BY <1>2, <1>8, <1>15, <2>3, Wording DEF Takes
  <2>9. Fits(<<"ret", -1>>)'
    <3>1. <<"ret", -1>> # <<"ret", 0>> /\ ncalls' \notin done' /\ Polls'
      BY <1>13, <2>8 DEF Polls
    <3>2. QED  BY <3>1 DEF Fits
  <2>10. server' \in Handler
    BY <2>8, PollingIs
  <2>11. QED  BY <1>1, <1>3, <1>7, <2>5, <2>7, <2>8, <2>9, <2>10, ToldAll
<1>16. CASE Takes(2, [server EXCEPT !.at = "ask", !.need = n, !.ok = good], <<Code("EVICT")>>, FALSE,
                IF server.op = "WRITE" THEN {"evicting write"} ELSE {})
  <2>1. client.call.op = "APPEND"
    <3>1. server.op # "WRITE"
      BY <1>16 DEF Takes
    <3>2. QED  BY <1>4, <1>13, <3>1 DEF WriteOps
  <2>2. PICK out : out = <<Signal("EVICT", ncalls)>>
    OBVIOUS
  <2>3. Signal("EVICT", ncalls) \in Message
    BY <1>2, <1>12, SignalOne
  <2>4. out \in Seq(Message)
    BY <2>2, <2>3
  <2>5. Heard(client.call, ncalls, Place, Signal("EVICT", ncalls), <<"asked", 0>>)
    BY <2>1, <1>12 DEF Heard, HeardAnswer
  <2>6. Chain(client.call, ncalls, Place, out, <<"asked", 0>>)
    BY <2>2, <2>5, ChainOne
  <2>7. server' = [server EXCEPT !.at = "ask", !.need = n, !.ok = good]
    BY <1>16 DEF Takes
  <2>8. /\ server' \in Handler /\ server'.at = "ask" /\ server'.op = server.op /\ server'.of = server.of
        /\ server'.held = server.held /\ server'.ok /\ server'.need = n
    BY <1>2, <1>6, <1>10, <2>7, NowWrites
  <2>9. /\ c2s' = Left(c2s, Len(ms[1])) /\ sOut' = out /\ done' = done
        /\ UNCHANGED <<s2c, cOut, client, ncalls>>
    BY <1>8, <1>16, <2>2, Wording DEF Takes
  <2>10. Fits(<<"asked", 0>>)'
    <3>1. Writes("ask")' /\ (client.call.op = "APPEND")'
      BY <1>4, <1>5, <1>13, <2>1, <2>8, <2>9 DEF Writes, Serves, Sized
    <3>2. QED  BY <3>1 DEF Fits
  <2>11. QED  BY <1>1, <1>3, <1>7, <2>4, <2>6, <2>8, <2>9, <2>10, ToldAll
<1>17. QED  BY <1>11, <1>14, <1>15, <1>16

\* The client's answer whether it wants the files.
LEMMA EvictAskAgrees ==
  ASSUME Agreed, EvictAsk, trouble' = {}
  PROVE  Agreed'
<1>1. server.at = "ask" /\ sOut = <<>> /\ c2s # <<>>
  BY DEF EvictAsk, Serving
<1>2. Serves("ask") /\ server \in Handler
  BY <1>1, InRequest DEF Agreed
<1>3. PICK ms : Told(ms)
  BY <1>1, IsTold
<1>4. ~Polls
  BY <1>1 DEF Polls, Polling
<1>5. /\ Writes("ask") /\ client.call.op = "APPEND"
      /\ \/ client.at = "more" /\ ms = <<Number(1, ncalls)>>
         \/ client.at = "final" /\ ms = <<Number(0, ncalls), Bytes(client.call.size, ncalls)>>
  BY <1>1, <1>3, <1>4 DEF Told, Asking, Serves, Writes
<1>6. PICK n \in {0, 1} : ms[1] = Number(n, ncalls) /\ (n = 1 => client.at = "more" /\ ms = <<Number(1, ncalls)>>)
  BY <1>5
<1>7. n \in Int
  BY <1>6
<1>8. Len(ms[1]) = 2 /\ Lengths(Taken(c2s, 2)) = {n}
  BY <1>3, <1>6, <1>7, ToldNumber
<1>9. Takes(2, [server EXCEPT !.at = "evict", !.back = n # 0], <<>>, FALSE,
            IF server.op = "APPEND" /\ n = 0 THEN {"evicting append"} ELSE {})
  BY <1>8 DEF EvictAsk
<1>10. n = 1
  <2>1. server.op = "APPEND"
    BY <1>2, <1>5 DEF Serves
  <2>2. n # 0
    BY <1>9, <2>1 DEF Takes
  <2>3. QED  BY <1>6, <2>2
<1>11. client.at = "more" /\ Tail(ms) = <<>>
  <2>1. client.at = "more" /\ ms = <<Number(1, ncalls)>>
    BY <1>6, <1>10
  <2>2. QED  BY <2>1
<1>12. PICK a : a = [server EXCEPT !.at = "evict"]
  OBVIOUS
<1>13. /\ a \in Handler /\ a.at = "evict" /\ a.op = server.op /\ a.of = server.of
       /\ a.held = server.held /\ a.ok = server.ok /\ a.need = server.need
  BY <1>2, <1>12 DEF Handler
<1>14. server' = [a EXCEPT !.back = TRUE]
  <2>1. (n # 0) = TRUE
    BY <1>10
  <2>2. QED  BY <1>9, <1>12, <2>1 DEF Takes
<1>15. /\ server' \in Handler /\ server'.at = "evict" /\ server'.op = server.op /\ server'.of = server.of
       /\ server'.held = server.held /\ server'.ok = server.ok /\ server'.need = server.need /\ server'.back
  BY <1>13, <1>14 DEF Handler
<1>16. /\ c2s' = Left(c2s, Len(ms[1])) /\ sOut' = <<>> /\ done' = done
       /\ UNCHANGED <<s2c, cOut, client, ncalls>>
  BY <1>8, <1>9 DEF Takes
<1>17. Chain(client.call, ncalls, Place, <<>>, <<"more", 0>>)
  BY <1>11, PlaceAt, ChainNone
<1>18. Fits(<<"more", 0>>)'
  <2>1. Writes("evict")' /\ (client.call.op = "APPEND")' /\ server'.back
    BY <1>5, <1>15, <1>16 DEF Writes, Serves, Sized
  <2>2. QED  BY <2>1 DEF Fits
<1>19. <<>> \in Seq(Message)
  OBVIOUS
<1>20. QED  BY <1>1, <1>3, <1>11, <1>15, <1>16, <1>17, <1>18, <1>19, ToldAll

\* A path and a file on their way.
LEMMA PathFileChain ==
  ASSUME NEW call, NEW k \in Nat, NEW n \in 1..MaxData
  PROVE  LET out == <<Number(PathLen, k), Name(k)>> \o (<<Number(n, k)>> \o <<Bytes(n, k)>>)
         IN  out \in Seq(Message) /\ Chain(call, k, <<"plen", 0>>, out, FileRead(call.op))
<1>1. PathLen \in Int /\ k \in Int
  BY ProtocolAssumption
<1>2. Number(PathLen, k) \in Message /\ Name(k) \in Message
  BY <1>1, NumberTwo, NameRow
<1>3. PICK a : a = <<Number(PathLen, k)>>
  OBVIOUS
<1>4. PICK b : b = <<Name(k)>>
  OBVIOUS
<1>5. PICK c : c = <<Number(n, k)>> \o <<Bytes(n, k)>>
  OBVIOUS
<1>6. a \in Seq(Message) /\ b \in Seq(Message)
  BY <1>2, <1>3, <1>4
<1>7. c \in Seq(Message) /\ Chain(call, k, <<"dlen", 0>>, c, FileRead(call.op))
  BY <1>5, FileChain
<1>8. Heard(call, k, <<"plen", 0>>, Number(PathLen, k), <<"path", PathLen>>)
  BY DEF Heard, HeardPlen
<1>9. Heard(call, k, <<"path", PathLen>>, Name(k), <<"dlen", 0>>)
  BY DEF Heard, HeardPath
<1>10. /\ Chain(call, k, <<"plen", 0>>, a, <<"path", PathLen>>)
       /\ Chain(call, k, <<"path", PathLen>>, b, <<"dlen", 0>>)
  BY <1>3, <1>4, <1>8, <1>9, ChainOne
<1>11. PICK d : d = a \o b
  OBVIOUS
<1>12. d \in Seq(Message) /\ Chain(call, k, <<"plen", 0>>, d, <<"dlen", 0>>)
  BY <1>6, <1>10, <1>11, ChainJoin, ConcatProperties
<1>13. d = <<Number(PathLen, k), Name(k)>>
  BY <1>2, <1>3, <1>4, <1>11, Together
<1>14. d \o c \in Seq(Message) /\ Chain(call, k, <<"plen", 0>>, d \o c, FileRead(call.op))
  BY <1>7, <1>12, ChainJoin, ConcatProperties
<1>15. QED  BY <1>5, <1>13, <1>14

\* An evicted file is sent to the client that wants it.
LEMMA EvictFileAgrees ==
  ASSUME Agreed, EvictFile, trouble' = {}
  PROVE  Agreed'
<1>1. server.at = "evict" /\ sOut = <<>>
  BY DEF EvictFile, Serving
<1>2. PICK downs, e : /\ Telling(downs, e) /\ e = <<"more", 0>> /\ Writes("evict")
                      /\ client.call.op = "APPEND" /\ server.back
  BY <1>1, IsTelling
<1>3. ncalls \in Nat /\ server \in Handler /\ server.files \in Int
  BY DEF Agreed, Handler
<1>4. PICK n \in 0..MaxData :
        Takes(0, [server EXCEPT !.files = @ + 1, !.freed = @ \/ n > 0],
              <<Code("EVICT"), Len8(PathLen), Path>> \o File(n), FALSE, FileRisks(n))
  BY <1>2 DEF EvictFile
<1>5. n \in Nat /\ FileRisks(n) = {}
  BY <1>4 DEF Takes
<1>6. n \in Nat \ {0} /\ File(n) = <<Number(n, ncalls)>> \o <<Bytes(n, ncalls)>>
  BY <1>3, <1>5, WholeFile
<1>7. n \in 1..MaxData
  BY <1>6, ProtocolAssumption
<1>8. PICK c : c = <<Number(n, ncalls)>> \o <<Bytes(n, ncalls)>>
  OBVIOUS
<1>9. c \in Seq(Message)
  BY <1>3, <1>7, <1>8, FileChain
<1>10. PICK d : d = <<Number(PathLen, ncalls), Name(ncalls)>> \o c
  OBVIOUS
<1>11. d \in Seq(Message) /\ Chain(client.call, ncalls, <<"plen", 0>>, d, <<"more", 0>>)
  <2>1. FileRead(client.call.op) = <<"more", 0>>
    BY <1>2 DEF FileRead
  <2>2. QED  BY <1>3, <1>7, <1>8, <1>10, <2>1, PathFileChain
<1>12. "EVICT" \in Codes /\ ncalls \in Int /\ PathLen \in Int
  BY <1>3, ProtocolAssumption DEF Codes
<1>13. Signal("EVICT", ncalls) \in Message /\ Number(PathLen, ncalls) \in Message /\ Name(ncalls) \in Message
  BY <1>12, SignalOne, NumberTwo, NameRow
<1>14. PICK a : a = <<Signal("EVICT", ncalls)>>
  OBVIOUS
<1>15. a \in Seq(Message)
  BY <1>13, <1>14
<1>16. Heard(client.call, ncalls, <<"more", 0>>, Signal("EVICT", ncalls), <<"plen", 0>>)
  BY <1>2 DEF Heard, HeardMore
<1>17. Chain(client.call, ncalls, e, a, <<"plen", 0>>)
  BY <1>2, <1>14, <1>16, ChainOne
<1>18. PICK out : out = a \o d
  OBVIOUS
<1>19. out \in Seq(Message) /\ Chain(client.call, ncalls, e, out, <<"more", 0>>)
  BY <1>11, <1>15, <1>17, <1>18, ChainJoin, ConcatProperties
<1>20. out = <<Code("EVICT"), Len8(PathLen), Path>> \o File(n)
  <2>1. PICK b : b = <<Number(PathLen, ncalls), Name(ncalls)>>
    OBVIOUS
  <2>2. b \in Seq(Message)
    BY <1>13, <2>1
  <2>3. a \o (b \o c) = (a \o b) \o c
    BY <1>9, <1>15, <2>2, ConcatAssociative
  <2>4. a \o b = <<Signal("EVICT", ncalls), Number(PathLen, ncalls), Name(ncalls)>>
    BY <1>13, <1>14, <2>1, TogetherThree
  <2>5. QED  BY <1>6, <1>8, <1>10, <1>18, <2>1, <2>3, <2>4, Wording
<1>21. PICK freed \in BOOLEAN : freed = (server.freed \/ n > 0)
  OBVIOUS
<1>22. PICK a1 : a1 = [server EXCEPT !.files = @ + 1]
  OBVIOUS
<1>23. /\ a1 \in Handler /\ a1.at = server.at /\ a1.op = server.op /\ a1.of = server.of
       /\ a1.held = server.held /\ a1.ok = server.ok /\ a1.need = server.need /\ a1.back = server.back
       /\ a1.freed = server.freed
  BY <1>3, <1>22 DEF Handler
<1>24. server' = [a1 EXCEPT !.freed = freed]
  <2>1. server' = [a1 EXCEPT !.freed = @ \/ n > 0]
    BY <1>4, <1>22 DEF Takes
  <2>2. QED  BY <1>21, <1>23, <2>1
<1>25. /\ server' \in Handler /\ server'.at = "evict" /\ server'.op = server.op /\ server'.of = server.of
       /\ server'.held = server.held /\ server'.ok = server.ok /\ server'.need = server.need
       /\ server'.back = server.back
  BY <1>1, <1>21, <1>23, <1>24 DEF Handler
<1>26. /\ c2s' = Left(c2s, 0) /\ sOut' = out /\ done' = done
       /\ UNCHANGED <<s2c, cOut, client, ncalls>>
  BY <1>4, <1>20 DEF Takes
<1>27. Fits(<<"more", 0>>)'
  <2>1. Writes("evict")' /\ (client.call.op = "APPEND")' /\ server'.back
    BY <1>2, <1>25, <1>26 DEF Writes, Serves, Sized
  <2>2. QED  BY <2>1 DEF Fits
<1>28. QED  BY <1>1, <1>2, <1>19, <1>25, <1>26, <1>27, TellsOn

\* The eviction has made the room.
LEMMA EvictEndAgrees ==
  ASSUME Agreed, EvictEnd, trouble' = {}
  PROVE  Agreed'
<1>1. server.at = "evict" /\ sOut = <<>>
  BY DEF EvictEnd, Serving
<1>2. PICK downs, e : /\ Telling(downs, e) /\ e = <<"more", 0>> /\ Writes("evict")
                      /\ client.call.op = "APPEND" /\ server.back
  BY <1>1, IsTelling
<1>3. Takes(0, [server EXCEPT !.at = "data"], <<Code("SUCCESS")>>, FALSE, {})
  <2>1. ~Takes(0, Idle, <<Code("FAILURE"), Code("FAILURE")>>, FALSE, {"failed eviction"})
    BY DEF Takes
  <2>2. QED  BY <2>1 DEF EvictEnd
<1>4. "SUCCESS" \in Codes /\ ncalls \in Int /\ server \in Handler
  BY DEF Codes, Agreed
<1>5. PICK out : out = <<Signal("SUCCESS", ncalls)>>
  OBVIOUS
<1>6. Signal("SUCCESS", ncalls) \in Message
  BY <1>4, SignalOne
<1>7. out \in Seq(Message)
  BY <1>5, <1>6
<1>8. Heard(client.call, ncalls, e, Signal("SUCCESS", ncalls), <<"sends", 0>>)
  BY <1>2 DEF Heard, HeardMore
<1>9. Chain(client.call, ncalls, e, out, <<"sends", 0>>)
  BY <1>5, <1>8, ChainOne
<1>10. server' = [server EXCEPT !.at = "data"]
  BY <1>3 DEF Takes
<1>11. /\ server' \in Handler /\ server'.at = "data" /\ server'.op = server.op /\ server'.of = server.of
       /\ server'.held = server.held /\ server'.ok = server.ok /\ server'.need = server.need
  BY <1>4, <1>10 DEF Handler
<1>12. /\ c2s' = Left(c2s, 0) /\ sOut' = out /\ done' = done
       /\ UNCHANGED <<s2c, cOut, client, ncalls>>
  BY <1>3, <1>5, Wording DEF Takes
<1>13. Fits(<<"sends", 0>>)'
  <2>1. Writes("data")'
    BY <1>2, <1>11, <1>12 DEF Writes, Serves, Sized
  <2>2. QED  BY <2>1 DEF Fits
<1>14. QED  BY <1>1, <1>2, <1>7, <1>9, <1>11, <1>12, <1>13, TellsOn

\* readNFiles is sent one more file, or the end marker.
LEMMA ReadNFilesAgrees ==
  ASSUME Agreed, server_readNFiles, trouble' = {}
  PROVE  Agreed'
<1>1. server.at = "files" /\ sOut = <<>>
  BY DEF server_readNFiles, Serving
<1>2. PICK downs, e : /\ Telling(downs, e) /\ e = <<"plen", 0>> /\ Serves("files")
                      /\ client.call.op = "READN"
  BY <1>1, IsTelling
<1>3. ncalls \in Nat /\ server \in Handler /\ server.files \in Int /\ server.need \in Int
  BY DEF Agreed, Handler
<1>4. ASSUME NEW n \in 1..MaxData,
             Takes(0, [server EXCEPT !.need = @ - 1, !.files = @ + 1],
                   <<Len8(PathLen), Path>> \o File(n), FALSE, FileRisks(n))
      PROVE  Agreed'
  <2>1. n \in Nat /\ FileRisks(n) = {}
    BY <1>4, ProtocolAssumption DEF Takes
  <2>2. File(n) = <<Number(n, ncalls)>> \o <<Bytes(n, ncalls)>>
    BY <1>3, <2>1, WholeFile
  <2>3. PICK out : out = <<Number(PathLen, ncalls), Name(ncalls)>> \o (<<Number(n, ncalls)>> \o <<Bytes(n, ncalls)>>)
    OBVIOUS
  <2>4. FileRead(client.call.op) = <<"plen", 0>>
    BY <1>2 DEF FileRead
  <2>5. out \in Seq(Message) /\ Chain(client.call, ncalls, e, out, <<"plen", 0>>)
    BY <1>2, <1>3, <2>3, <2>4, PathFileChain
  <2>6. out = <<Len8(PathLen), Path>> \o File(n)
    BY <2>2, <2>3, Wording
  <2>7. PICK a : a = [server EXCEPT !.need = @ - 1]
    OBVIOUS
  <2>8. /\ a \in Handler /\ a.at = server.at /\ a.op = server.op /\ a.of = server.of
        /\ a.held = server.held /\ a.ok = server.ok
    BY <1>3, <2>7 DEF Handler
  <2>9. server' = [a EXCEPT !.files = @ + 1]
    BY <1>4, <2>7 DEF Takes
  <2>10. /\ server' \in Handler /\ server'.at = "files" /\ server'.op = server.op /\ server'.of = server.of
         /\ server'.held = server.held /\ server'.ok = server.ok
    BY <1>1, <2>8, <2>9 DEF Handler
  <2>11. /\ c2s' = Left(c2s, 0) /\ sOut' = out /\ done' = done
         /\ UNCHANGED <<s2c, cOut, client, ncalls>>
    BY <1>4, <2>6 DEF Takes
  <2>12. Fits(<<"plen", 0>>)'
    <3>1. Serves("files")' /\ (client.call.op = "READN")'
      BY <1>2, <2>10, <2>11 DEF Serves
    <3>2. QED  BY <3>1 DEF Fits
  <2>13. QED  BY <1>1, <1>2, <2>5, <2>10, <2>11, <2>12, TellsOn
<1>5. ASSUME Takes(0, Idle, <<Len8(0)>>, server.ok, {}) PROVE Agreed'
  <2>1. Idle = Polling
    BY <1>1, InRequest
  <2>2. PICK out : out = <<Number(0, ncalls)>>
    OBVIOUS
  <2>3. 0 \in Int /\ ncalls \in Int
    BY <1>3
  <2>4. Number(0, ncalls) \in Message
    BY <2>3, NumberTwo
  <2>5. out \in Seq(Message)
    BY <2>2, <2>4
  <2>6. Heard(client.call, ncalls, e, Number(0, ncalls), <<"gone", 0>>)
    BY <1>2 DEF Heard, HeardPlen
  <2>7. Chain(client.call, ncalls, e, out, <<"gone", 0>>)
    BY <2>2, <2>6, ChainOne
  <2>8. server.of = ncalls
    BY <1>2 DEF Serves
  <2>9. /\ c2s' = Left(c2s, 0) /\ server' = Polling /\ sOut' = out
        /\ UNCHANGED <<s2c, cOut, client, ncalls>>
        /\ done' = done \/ done' = done \cup {ncalls}
    BY <1>5, <2>1, <2>2, <2>8, Wording DEF Takes
  <2>10. Fits(<<"gone", 0>>)'
    BY <1>2, <2>9 DEF Fits, Polls
  <2>11. server' \in Handler
    BY <2>9, PollingIs
  <2>12. QED  BY <1>1, <1>2, <2>5, <2>7, <2>9, <2>10, <2>11, TellsOn
<1>6. QED  BY <1>4, <1>5 DEF server_readNFiles

\* The data of a write is taken, and the write is answered.
LEMMA WriteDataAgrees ==
  ASSUME Agreed, WriteData, trouble' = {}
  PROVE  Agreed'
<1>1. server.at = "data" /\ sOut = <<>>
  BY DEF WriteData, Serving
<1>2. ~Polls
  BY <1>1 DEF Polls, Polling
<1>3. PICK ups, downs : Talk(ups, downs)
  BY DEF Agreed
<1>4. Writes("data")
  BY <1>1, <1>2, <1>3 DEF Talk, Resting, Asking, Fits, Serves, Writes
<1>5. PICK n : n = client.call.size
  OBVIOUS
<1>6. n \in Nat \ {0} /\ server.need = n
  BY <1>4, <1>5, ProtocolAssumption DEF Writes, Sized
<1>7. c2s # <<>>
  BY <1>6 DEF WriteData
<1>8. PICK ms : Told(ms)
  BY <1>7, IsTold
<1>9. client.at = "final" /\ ms = <<Bytes(n, ncalls)>>
  BY <1>1, <1>2, <1>5, <1>8 DEF Told, Asking, Serves, Writes
<1>10. ms[1] = Bytes(n, ncalls) /\ Tail(ms) = <<>> /\ ncalls \in Int
  BY <1>9 DEF Agreed
<1>11. Len(ms[1]) = server.need
  BY <1>6, <1>10, BytesRow
<1>12. Serves("data") /\ Idle = Polling
  BY <1>1, InRequest
<1>13. Meant("data", server.need)
  <2>1. Len(c2s) >= n /\ \A i \in 1..n : c2s[i] = ms[1][i]
    BY <1>6, <1>8, <1>11 DEF Told
  <2>2. \A i \in 1..n : ms[1][i].is = "data" /\ ms[1][i].of = ncalls
    BY <1>6, <1>10, BytesRow
  <2>3. server.ok /\ server.of = ncalls
    BY <1>12 DEF Serves
  <2>4. QED  BY <1>6, <2>1, <2>2, <2>3 DEF Meant
<1>14. PICK c \in Codes, won \in BOOLEAN : Answer(c, won, {}) /\ (won <=> c = "SUCCESS")
  <2>1. PICK won \in BOOLEAN : won = Meant("data", server.need)
    BY DEF Meant
  <2>2. CASE Answer("SUCCESS", Meant("data", server.need), {})
    <3>1. "SUCCESS" \in Codes /\ Answer("SUCCESS", won, {}) /\ won
      BY <1>13, <2>1, <2>2 DEF Codes
    <3>2. QED  BY <3>1
  <2>3. CASE Answer("FAILURE", FALSE, {})
    <3>1. "FAILURE" \in Codes
      BY DEF Codes
    <3>2. QED  BY <2>3, <3>1
  <2>4. QED  BY <2>2, <2>3 DEF WriteData
<1>15. Place = <<"final", 0>>
  BY <1>9, PlaceAt
<1>16. Heard(client.call, ncalls, Place, Signal(c, ncalls), Returned(c))
  BY <1>14, <1>15 DEF Heard, HeardFinal
<1>17. server.of = ncalls /\ ncalls \notin done
  BY <1>12 DEF Serves
<1>18. QED  BY <1>1, <1>8, <1>10, <1>11, <1>12, <1>14, <1>16, <1>17, AnswerAgrees

\* No length the server is told is more than it allocates.
LEMMA NotTooLong ==
  ASSUME Agreed
  PROVE  ~TooLong
<1> SUFFICES ASSUME TooLong PROVE FALSE
  OBVIOUS
<1>1. server.at \in {"path", "data"} /\ server.need = Long
  BY DEF TooLong
<1>2. PICK ups, downs : Talk(ups, downs)
  BY DEF Agreed
<1>3. ~Polls
  BY <1>1 DEF Polls, Polling
<1>4. client.call \in Calls /\ client \in Caller
  BY <1>1, InRequest DEF Agreed
<1>5. client.call.size < Long /\ Long > PathLen /\ client.call.size \in Nat /\ PathLen \in Nat /\ Long \in Nat
  BY <1>4, CallTyped, ProtocolAssumption
<1>6. server.need = PathLen \/ server.need = client.call.size
  BY <1>1, <1>2, <1>3 DEF Talk, Resting, Asking, Fits, Serves, Writes
<1>7. QED  BY <1>1, <1>5, <1>6

-----------------------------------------------------------------------------
(* The conversation keeps its step, and what follows from that.            *)

\* Trouble that was met is not forgotten.
LEMMA TroubleStays ==
  ASSUME Next
  PROVE  trouble \subseteq trouble'
<1>1. ASSUME NEW call \in Calls, ApiCall(call) PROVE trouble \subseteq trouble'
  BY <1>1 DEF ApiCall, openFile, closeFile, removeFile, lockFile, unlockFile, readFile, readNFiles,
              writeFile, appendToFile, PathCall, Start
<1>2. CASE ClientWrite \/ Return
  BY <1>2 DEF ClientWrite, Return
<1>3. ASSUME NEW n, NEW c, NEW out, Reads(n, c, out) PROVE trouble \subseteq trouble'
  BY <1>3 DEF Reads
<1>4. CASE PathAnswered \/ ReadAnswered \/ Final
  BY <1>3, <1>4 DEF PathAnswered, ReadAnswered, Final
<1>5. CASE WriteAnswered
  BY <1>3, <1>5 DEF WriteAnswered
<1>6. CASE AppendAnswered
  BY <1>3, <1>6 DEF AppendAnswered
<1>7. CASE sapi_evict
  BY <1>3, <1>7 DEF sapi_evict
<1>8. CASE sapi_get_path
  BY <1>3, <1>8 DEF sapi_get_path
<1>9. CASE sapi_get_data
  BY <1>3, <1>9 DEF sapi_get_data
<1>10. ASSUME NEW n, NEW s, NEW out, NEW won, NEW risks, Takes(n, s, out, won, risks)
       PROVE  trouble \subseteq trouble'
  BY <1>10 DEF Takes
<1>11. CASE server_worker
  BY <1>10, <1>11 DEF server_worker
<1>12. CASE server_openFile \/ server_closeFile \/ server_removeFile
  BY <1>10, <1>12 DEF server_openFile, server_closeFile, server_removeFile, Answer
<1>13. CASE server_readFile
  BY <1>10, <1>13 DEF server_readFile, Answer
<1>14. CASE server_readNFiles
  BY <1>10, <1>14 DEF server_readNFiles
<1>15. CASE server_writeFile
  BY <1>10, <1>15 DEF server_writeFile, Answer
<1>16. CASE WriteLen
  BY <1>10, <1>16 DEF WriteLen
<1>17. CASE EvictAsk
  BY <1>10, <1>17 DEF EvictAsk
<1>18. CASE EvictFile
  BY <1>10, <1>18 DEF EvictFile
<1>19. CASE EvictEnd
  BY <1>10, <1>19 DEF EvictEnd
<1>20. CASE WriteData
  BY <1>10, <1>20 DEF WriteData, Answer
<1>21. CASE ServerWrite \/ TooLong \/ TooLarge \/ Stop
  BY <1>21 DEF ServerWrite, TooLong, TooLarge, Stop
<1>22. QED
  BY <1>1, <1>2, <1>4, <1>5, <1>6, <1>7, <1>8, <1>9, <1>11, <1>12, <1>13, <1>14, <1>15, <1>16, <1>17,
     <1>18, <1>19, <1>20, <1>21 DEF Next, ClientStep, ServerStep

\* Both ends agree before the first call.
LEMMA StartsAgreed ==
  Init => Conversation
<1> SUFFICES ASSUME Init PROVE Agreed
  BY DEF Conversation
<1>1. ncalls \in Nat /\ done \subseteq Nat /\ (\A d \in done : d <= ncalls) /\ ncalls \notin done
  BY DEF Init
<1>2. client \in Caller /\ client.at = "idle"
  BY DEF Init, Caller
<1>3. server \in Handler /\ Polls
  BY PollingIs DEF Init, Polls
<1>4. <<>> \in Seq(Message)
  OBVIOUS
<1>5. Carried(c2s, cOut, <<>>) /\ Carried(s2c, sOut, <<>>)
  BY <1>4, CarryStart DEF Init
<1>6. Talk(<<>>, <<>>)
  BY <1>1, <1>2, <1>3 DEF Talk, Resting
<1>7. QED  BY <1>1, <1>2, <1>3, <1>5, <1>6 DEF Agreed

\* And after every step, of either end, that meets none of the listed
\* circumstances.
LEMMA StaysAgreed ==
  Conversation /\ [Next]_vars => Conversation'
<1> SUFFICES ASSUME Conversation, [Next]_vars, trouble' = {} PROVE Agreed'
  BY DEF Conversation
<1>1. trouble = {}
  BY TroubleStays DEF vars
<1>2. Agreed
  BY <1>1 DEF Conversation
<1>3. ASSUME NEW call \in Calls, ApiCall(call) PROVE Agreed'
  BY <1>2, <1>3, ApiCallAgrees
<1>4. CASE ClientWrite
  BY <1>2, <1>4, ClientWriteAgrees
<1>5. CASE Return
  BY <1>2, <1>5, ReturnAgrees
<1>6. CASE PathAnswered
  BY <1>2, <1>6, PathAnsweredAgrees
<1>7. CASE ReadAnswered
  BY <1>2, <1>7, ReadAnsweredAgrees
<1>8. CASE WriteAnswered
  BY <1>2, <1>8, WriteAnsweredAgrees
<1>9. CASE AppendAnswered
  BY <1>2, <1>9, AppendAnsweredAgrees
<1>10. CASE Final
  BY <1>2, <1>10, FinalAgrees
<1>11. CASE sapi_evict
  BY <1>2, <1>11, EvictAgrees
<1>12. CASE sapi_get_path
  BY <1>2, <1>12, GetPathAgrees
<1>13. CASE sapi_get_data
  BY <1>2, <1>13, GetDataAgrees
<1>14. CASE server_worker
  BY <1>2, <1>14, WorkerAgrees
<1>15. CASE server_openFile \/ server_closeFile \/ server_removeFile
  BY <1>2, <1>15, OpenCloseRemoveAgree
<1>16. CASE server_readFile
  BY <1>2, <1>16, ReadFileAgrees
<1>17. CASE server_readNFiles
  BY <1>2, <1>17, ReadNFilesAgrees
<1>18. CASE server_writeFile
  BY <1>2, <1>18, WriteFileAgrees
<1>19. CASE WriteLen
  BY <1>2, <1>19, WriteLenAgrees
<1>20. CASE EvictAsk
  BY <1>2, <1>20, EvictAskAgrees
<1>21. CASE EvictFile
  BY <1>2, <1>21, EvictFileAgrees
<1>22. CASE EvictEnd
  BY <1>2, <1>22, EvictEndAgrees
<1>23. CASE WriteData
  BY <1>2, <1>23, WriteDataAgrees
<1>24. CASE ServerWrite
  BY <1>2, <1>24, ServerWriteAgrees
<1>25. CASE TooLong
  BY <1>2, <1>25, NotTooLong
<1>26. CASE TooLarge \/ Stop
  <2>1. trouble' = trouble \cup {"large file"} \/ trouble' = trouble \cup {"stop"}
    BY <1>26 DEF TooLarge, Stop
  <2>2. QED  BY <2>1
<1>27. CASE UNCHANGED vars
  <2>1. UNCHANGED <<c2s, s2c, cOut, sOut, client, server, ncalls, done>>
    BY <1>27 DEF vars
  <2>2. PICK ups, downs : Carried(c2s, cOut, ups) /\ Carried(s2c, sOut, downs) /\ Talk(ups, downs)
    BY <1>2 DEF Agreed
  <2>3. Carried(c2s, cOut, ups)' /\ Carried(s2c, sOut, downs)'
    BY <2>1, <2>2
  <2>4. Talk(ups, downs)'
    <3>1. CASE Resting /\ ups = <<>> /\ downs = <<>>
      BY <2>1, <3>1 DEF Talk, Resting, Polls
    <3>2. CASE Asking(ups) /\ downs = <<>>
      <4>1. Asking(ups)'
        BY <2>1, <3>2 DEF Asking, Named, Polls, Serves, Writes, Sized
      <4>2. QED  BY <3>2, <4>1 DEF Talk
    <3>3. ASSUME NEW e, ups = <<>>, client.at # "idle",
                 Chain(client.call, ncalls, Place, downs, e), Fits(e)
          PROVE  Talk(ups, downs)'
      <4>1. Place' = Place
        BY <2>1 DEF Place
      <4>2. Chain(client.call, ncalls, Place, downs, e)'
        BY <2>1, <3>3, <4>1
      <4>3. Fits(e)'
        BY <2>1, <3>3 DEF Fits, Polls, Serves, Writes, Sized
      <4>4. QED  BY <2>1, <3>3, <4>2, <4>3 DEF Talk
    <3>4. QED  BY <2>2, <3>1, <3>2, <3>3 DEF Talk
  <2>5. QED  BY <1>2, <2>1, <2>3, <2>4 DEF Agreed
<1>28. QED
  BY <1>3, <1>4, <1>5, <1>6, <1>7, <1>8, <1>9, <1>10, <1>11, <1>12, <1>13, <1>14, <1>15, <1>16, <1>17,
     <1>18, <1>19, <1>20, <1>21, <1>22, <1>23, <1>24, <1>25, <1>26, <1>27 DEF Next, ClientStep, ServerStep

\* In every reachable state the two ends agree on what the bytes in the
\* socket mean, or one of the listed circumstances has been met.
THEOREM AlwaysAgreed == Spec => []Conversation
BY StartsAgreed, StaysAgreed, PTL DEF Spec

\* Between two calls nothing is left in the socket and the server waits for
\* a request without holding a mutex.
THEOREM InStepCorrect == Spec => []InStep
<1>1. Conversation => InStep
  <2> SUFFICES ASSUME Conversation, client.at = "idle", trouble = {}
               PROVE  c2s = <<>> /\ s2c = <<>> /\ sOut = <<>> /\ server.at = "poll" /\ ~server.held
    BY DEF InStep
  <2>1. Agreed
    BY DEF Conversation
  <2>2. Resting /\ c2s = <<>> /\ s2c = <<>> /\ sOut = <<>>
    BY <2>1, Rests
  <2>3. QED  BY <2>2, PollingIs DEF Resting, Polls
<1>2. QED  BY <1>1, AlwaysAgreed, PTL

\* A call returns 0 exactly when the server carried out that very call.
THEOREM TruthfulCorrect == Spec => []Truthful
<1>1. Conversation => Truthful
  <2> SUFFICES ASSUME Conversation, client.at = "ret", trouble = {}
               PROVE  \/ client.ret = 0 <=> ncalls \in done
                      \/ client.call.op = "READN" /\ client.call.n = 0
                      \/ client.call.op = "APPEND" /\ client.call.size = 0
    BY DEF Truthful
  <2>1. Agreed
    BY DEF Conversation
  <2>2. Fits(<<"ret", client.ret>>) /\ client.ret \in {0, -1}
    BY <2>1, AtReturn
  <2>3. <<"ret", client.ret>> = <<"ret", 0>> <=> client.ret = 0
    OBVIOUS
  <2>4. QED  BY <2>2, <2>3 DEF Fits
<1>2. QED  BY <1>1, AlwaysAgreed, PTL

\* No conversation ends the server's process or makes it forget the client,
\* and only readNFiles may end the client's.
THEOREM SurvivesCorrect == Spec => []Survives
<1>1. Conversation => Survives
  <2> SUFFICES ASSUME Conversation, trouble = {}
               PROVE  /\ server.at \notin {"down", "dropped"}
                      /\ client.at = "gone" => client.call.op = "READN"
    BY DEF Survives
  <2>1. Agreed
    BY DEF Conversation
  <2>2. server.at \notin {"down", "dropped"}
    BY <2>1, StaysUp
  <2>3. ASSUME client.at = "gone" PROVE client.call.op = "READN"
    <3>1. PICK ups, downs : Carried(s2c, sOut, downs) /\ Talk(ups, downs)
      BY <2>1 DEF Agreed
    <3>2. PICK e : Chain(client.call, ncalls, Place, downs, e) /\ Fits(e)
      BY <2>3, <3>1 DEF Talk, Resting, Asking
    <3>3. Place = <<"gone", 0>> /\ Place[1] = "gone"
      BY <2>3, PlaceAt
    <3>4. downs \in Seq(Message)
      BY <3>1 DEF Carried
    <3>5. downs = <<>>
      BY <3>2, <3>3, <3>4, ChainFirst, NoWay
    <3>6. e = <<"gone", 0>>
      BY <3>2, <3>3, <3>5, ChainEnd
    <3>7. e[1] = "gone"
      BY <3>6
    <3>8. QED  BY <3>2, <3>6, <3>7 DEF Fits
  <2>4. QED  BY <2>2, <2>3
<1>2. QED  BY <1>1, AlwaysAgreed, PTL
=============================================================================
