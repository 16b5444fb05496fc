----------------------------- MODULE SequenceFacts -----------------------------
(***************************************************************************)
(* Sequences whose elements have no type, and sequences of bytes: what the  *)
(* proofs of the sessions use of them.                                      *)
(***************************************************************************)
EXTENDS Bytes, SequencesExt, SequenceTheorems, WellFoundedInduction, TLAPS

\* A sequence over some set is a sequence over its own elements.
LEMMA SequencesAreSequences ==
    ASSUME NEW S, NEW s \in Seq(S)
    PROVE  IsSequence(s)
<1>1. Len(s) \in Nat /\ DOMAIN s = 1..Len(s) OBVIOUS
<1>2. s = [i \in 1..Len(s) |-> s[i]]
  OBVIOUS
<1> QED
  BY <1>1, <1>2, IsASeq DEF IsSequence

\* The length of a sequence is a natural number.
LEMMA LengthType == ASSUME NEW s, IsSequence(s) PROVE Len(s) \in Nat
  BY DEF IsSequence

\* Append makes a sequence longer by one, and leaves its elements alone.
LEMMA AppendToSequence ==
    ASSUME NEW s, IsSequence(s), NEW e
    PROVE  /\ IsSequence(Append(s, e)) /\ Len(Append(s, e)) = Len(s) + 1
           /\ Append(s, e)[Len(s) + 1] = e
           /\ \A i \in 1..Len(s) : Append(s, e)[i] = s[i]
<1> DEFINE S == {s[i] : i \in DOMAIN s} \cup {e}
<1>1. s \in Seq(S)
  BY SMT DEF IsSequence
<1>2. /\ Append(s, e) \in Seq(S) /\ Len(Append(s, e)) = Len(s) + 1
      /\ Append(s, e)[Len(s) + 1] = e
      /\ \A i \in 1..Len(s) : Append(s, e)[i] = s[i]
  BY <1>1
<1> HIDE DEF S
<1> QED
  BY <1>2, SequencesAreSequences

\* Tail makes a sequence that is not empty shorter by one.
LEMMA TailOfSequence ==
    ASSUME NEW s, IsSequence(s), s # <<>>
    PROVE  /\ IsSequence(Tail(s)) /\ Len(s) \in Nat \ {0}
           /\ Len(Tail(s)) = Len(s) - 1
<1> DEFINE S == {s[i] : i \in DOMAIN s}
<1>1. s \in Seq(S)
  BY DEF IsSequence
<1> HIDE DEF S
<1>2. Tail(s) \in Seq(S) /\ Len(Tail(s)) = Len(s) - 1 /\ Len(s) \in Nat \ {0}
  BY <1>1, s # <<>>
<1> QED
  BY <1>2, SequencesAreSequences

\* The empty one.
LEMMA EmptyIsSequence == IsSequence(<<>>) /\ Len(<<>>) = 0
<1>1. <<>> \in Seq(Nat)
  OBVIOUS
<1> QED
  BY <1>1, SequencesAreSequences

\* A sequence that has a length and elements.
LEMMA SequenceOver ==
    ASSUME NEW s, IsSequence(s)
    PROVE  \E S : s \in Seq(S)
  BY DEF IsSequence

\* A sequence has the positions up to its length.
LEMMA Positions ==
    ASSUME NEW s, IsSequence(s)
    PROVE  Len(s) \in Nat /\ DOMAIN s = 1..Len(s)
  BY DEF IsSequence

\* x is a, and then b.
Joins(x, a, b) ==
    /\ IsSequence(x) /\ Len(x) = Len(a) + Len(b)
    /\ \A i \in 1..Len(a) : x[i] = a[i]
    /\ \A i \in 1..Len(b) : x[Len(a) + i] = b[i]

\* The concatenation of two sequences is one, and then the other.
LEMMA ConcatSequences ==
    ASSUME NEW a, IsSequence(a), NEW b, IsSequence(b), NEW x, x = a \o b
    PROVE  Joins(x, a, b)
<1> DEFINE S == {a[i] : i \in DOMAIN a}
           T == {b[i] : i \in DOMAIN b}
<1>1. a \in Seq(S) /\ b \in Seq(T) /\ S \subseteq S \cup T /\ T \subseteq S \cup T
  BY DEF IsSequence
<1> HIDE DEF S, T
<1>2. a \in Seq(S \cup T) /\ b \in Seq(S \cup T)
  BY <1>1, SeqMonotonic
<1>3. Len(a) \in Nat /\ Len(b) \in Nat
  BY LengthType
<1>4. /\ x \in Seq(S \cup T) /\ Len(x) = Len(a) + Len(b)
      /\ \A i \in 1..Len(a) + Len(b) :
           x[i] = IF i <= Len(a) THEN a[i] ELSE b[i - Len(a)]
  BY <1>2, ConcatProperties
<1>5. IsSequence(x)
  BY <1>4, SequencesAreSequences
<1>6. ASSUME NEW i \in 1..Len(a) PROVE x[i] = a[i]
  <2>1. i \in 1..Len(a) + Len(b) /\ i <= Len(a)
    BY <1>3
  <2> QED
    BY <1>4, <2>1
<1>7. ASSUME NEW i \in 1..Len(b) PROVE x[Len(a) + i] = b[i]
  <2>1. /\ Len(a) + i \in 1..Len(a) + Len(b) /\ ~(Len(a) + i <= Len(a))
        /\ (Len(a) + i) - Len(a) = i
    BY <1>3
  <2> QED
    BY <1>4, <2>1
<1> QED
  BY <1>4, <1>5, <1>6, <1>7 DEF Joins

\* A pair is a sequence.
LEMMA TupleOfTwo ==
    ASSUME NEW a, NEW b
    PROVE  /\ IsSequence(<<a, b>>) /\ Len(<<a, b>>) = 2
           /\ <<a, b>>[1] = a /\ <<a, b>>[2] = b
<1>1. <<a, b>> \in Seq({a, b})
  OBVIOUS
<1> QED
  BY <1>1, SequencesAreSequences

\* A sequence of two.
LEMMA TwoElements ==
    ASSUME NEW s, IsSequence(s), Len(s) = 2
    PROVE  s = <<s[1], s[2]>>
<1>1. PICK S : s \in Seq(S)
  BY SequenceOver
<1>2. s[1] \in S /\ s[2] \in S
  BY <1>1, ElementOfSeq
<1>3. <<s[1], s[2]>> \in Seq(S)
  BY <1>2
<1> QED
  BY <1>1, <1>3, SeqEqual

-----------------------------------------------------------------------------

\* A part of a sequence that is within it is a sequence as long as it should be.
LEMMA SliceProperties ==
    ASSUME NEW S, NEW b \in Seq(S), NEW at \in Nat, NEW n \in Nat, at + n <= Len(b)
    PROVE  /\ Slice(b, at, n) \in Seq(S) /\ Len(Slice(b, at, n)) = n
           /\ \A i \in 1..n : Slice(b, at, n)[i] = b[at + i]
<1>1. at + 1 \in Int /\ at + n \in Int
  OBVIOUS
<1>2. \A i \in at + 1..at + n : b[i] \in S
  BY ElementOfSeq, LenProperties
<1>3. /\ Slice(b, at, n) \in Seq(S)
      /\ Len(Slice(b, at, n)) = IF at + 1 <= at + n THEN (at + n) - (at + 1) + 1 ELSE 0
      /\ \A i \in 1..(at + n) - (at + 1) + 1 : Slice(b, at, n)[i] = b[(at + 1) + i - 1]
  BY <1>1, <1>2, SubSeqProperties DEF Slice
<1>4. Len(Slice(b, at, n)) = n
  BY <1>3
<1>5. ASSUME NEW i \in 1..n PROVE Slice(b, at, n)[i] = b[at + i]
  <2>1. i \in 1..(at + n) - (at + 1) + 1 /\ (at + 1) + i - 1 = at + i
    OBVIOUS
  <2> QED
    BY <1>3, <2>1
<1> QED
  BY <1>3, <1>4, <1>5

\* What has arrived of a stream begins what will have arrived of it later.
Begins(p, b) == Len(p) <= Len(b) /\ \A i \in 1..Len(p) : b[i] = p[i]

\* A part of what has arrived stays what it is.
LEMMA SliceOfBeginning ==
    ASSUME NEW S, NEW p \in Seq(S), NEW b \in Seq(S), Begins(p, b),
           NEW at \in Nat, NEW n \in Nat, at + n <= Len(p)
    PROVE  Slice(b, at, n) = Slice(p, at, n)
<1>1. Len(p) \in Nat /\ Len(b) \in Nat /\ at + n <= Len(b)
  BY LenProperties DEF Begins
<1>2. /\ Slice(p, at, n) \in Seq(S) /\ Len(Slice(p, at, n)) = n
      /\ \A i \in 1..n : Slice(p, at, n)[i] = p[at + i]
  BY SliceProperties
<1>3. /\ Slice(b, at, n) \in Seq(S) /\ Len(Slice(b, at, n)) = n
      /\ \A i \in 1..n : Slice(b, at, n)[i] = b[at + i]
  BY <1>1, SliceProperties
<1>4. ASSUME NEW i \in 1..n PROVE b[at + i] = p[at + i]
  <2>1. at + i \in 1..Len(p)
    BY <1>1
  <2> QED
    BY <2>1 DEF Begins
<1> HIDE DEF Slice
<1> QED
  BY <1>2, <1>3, <1>4, SeqEqual

\* What is behind the first n elements.
LEMMA CutSequence ==
    ASSUME NEW w, IsSequence(w), NEW n \in Nat, n <= Len(w)
    PROVE  /\ IsSequence(SubSeq(w, n + 1, Len(w)))
           /\ Len(SubSeq(w, n + 1, Len(w))) = Len(w) - n
           /\ \A i \in 1..Len(w) - n : SubSeq(w, n + 1, Len(w))[i] = w[n + i]
<1> DEFINE m == Len(w) - n
<1>1. Len(w) \in Nat /\ m \in Nat /\ n + m = Len(w) /\ n + m <= Len(w)
  BY LengthType
<1> HIDE DEF m
<1>2. PICK S : w \in Seq(S)
  BY SequenceOver
<1>3. /\ Slice(w, n, m) \in Seq(S) /\ Len(Slice(w, n, m)) = m
      /\ \A i \in 1..m : Slice(w, n, m)[i] = w[n + i]
  BY <1>1, <1>2, SliceProperties, ZenonT(90)
<1>4. Slice(w, n, m) = SubSeq(w, n + 1, Len(w))
  BY <1>1 DEF Slice
<1>5. IsSequence(Slice(w, n, m))
  BY <1>3, SequencesAreSequences
<1> QED
  BY <1>3, <1>4, <1>5 DEF m

-----------------------------------------------------------------------------

\* What is read of bytes that are there is a number.
LEMMA UintTypes ==
    ASSUME NEW b \in Seq(Byte), NEW at \in Nat
    PROVE  /\ at + 1 <= Len(b) => Uint8(b, at) \in Nat
           /\ at + 2 <= Len(b) => Uint16(b, at) \in Nat
<1>0. Len(b) \in Nat /\ \A x \in Byte : x \in Nat
  BY LenProperties DEF Byte
<1>1. ASSUME at + 1 <= Len(b) PROVE Uint8(b, at) \in Nat
  <2>1. at + 1 \in 1..Len(b)
    BY <1>0, <1>1
  <2> QED
    BY <2>1, <1>0, ElementOfSeq DEF Uint8
<1>2. ASSUME at + 2 <= Len(b) PROVE Uint16(b, at) \in Nat
  <2>1. at + 1 \in 1..Len(b) /\ at + 2 \in 1..Len(b)
    BY <1>0, <1>2
  <2>2. b[at + 1] \in Nat /\ b[at + 2] \in Nat
    BY <2>1, <1>0, ElementOfSeq
  <2>3. \A x, y \in Nat : x * 256 + y \in Nat
    OBVIOUS
  <2> QED
    BY <2>2, <2>3 DEF Uint16
<1> QED
  BY <1>1, <1>2

\* A byte of a sequence becomes the next one.
LEMMA NextByte ==
    ASSUME NEW bytes \in Seq(Byte), NEW i \in DOMAIN bytes
    PROVE  [bytes EXCEPT ![i] = (@ + 1) % 256] \in Seq(Byte)
<1>0. \A x \in Byte : x \in Nat
  BY DEF Byte
<1>1. i \in 1..Len(bytes) /\ bytes[i] \in Byte
  BY LenProperties, ElementOfSeq
<1>2. (bytes[i] + 1) % 256 \in Byte
  BY <1>0, <1>1, \A x \in Nat : (x + 1) % 256 \in 0..255 DEF Byte
<1> QED
  BY <1>1, <1>2, ExceptSeq

\* Two bytes.
LEMMA PutTwo == ASSUME NEW n PROVE IsSequence(Put(n, 2)) /\ Len(Put(n, 2)) = 2
<1> DEFINE f == Put(n, 2)
           S == {f[i] : i \in 1..2}
<1>1. f = [i \in 1..2 |-> f[i]]
  BY DEF Put
<1>2. \A i \in 1..2 : f[i] \in S
  OBVIOUS
<1> HIDE DEF f, S
<1>3. [i \in 1..2 |-> f[i]] \in Seq(S) /\ Len([i \in 1..2 |-> f[i]]) = 2
  BY <1>2, IsASeq, 2 \in Nat
<1> QED
  BY <1>1, <1>3, SequencesAreSequences DEF f

\* A byte more.
LEMMA AppendByte ==
    ASSUME NEW p \in Seq(Byte), NEW x \in Byte
    PROVE  /\ Append(p, x) \in Seq(Byte) /\ Begins(p, Append(p, x))
           /\ Len(Append(p, x)) = Len(p) + 1 /\ Append(p, x)[Len(p) + 1] = x
           /\ \A i \in 1..Len(p) : Append(p, x)[i] = p[i]
  BY AppendProperties, LenProperties DEF Begins

\* The concatenation of bytes.
LEMMA ConcatBytes ==
    ASSUME NEW w \in Seq(Byte), NEW p \in Seq(Byte)
    PROVE  /\ w \o p \in Seq(Byte) /\ Len(w \o p) = Len(w) + Len(p)
           /\ \A i \in 1..Len(w) : (w \o p)[i] = w[i]
           /\ \A i \in 1..Len(p) : (w \o p)[Len(w) + i] = p[i]
<1>1. Len(w) \in Nat /\ Len(p) \in Nat
  BY LenProperties
<1>2. /\ w \o p \in Seq(Byte) /\ Len(w \o p) = Len(w) + Len(p)
      /\ \A i \in 1..Len(w) + Len(p) :
           (w \o p)[i] = IF i <= Len(w) THEN w[i] ELSE p[i - Len(w)]
  BY ConcatProperties
<1>3. ASSUME NEW i \in 1..Len(w) PROVE (w \o p)[i] = w[i]
  <2>1. i \in 1..Len(w) + Len(p) /\ i <= Len(w)
    BY <1>1
  <2> QED
    BY <1>2, <2>1
<1>4. ASSUME NEW i \in 1..Len(p) PROVE (w \o p)[Len(w) + i] = p[i]
  <2>1. /\ Len(w) + i \in 1..Len(w) + Len(p) /\ ~(Len(w) + i <= Len(w))
        /\ (Len(w) + i) - Len(w) = i
    BY <1>1
  <2> QED
    BY <1>2, <2>1
<1> QED
  BY <1>2, <1>3, <1>4

\* What is behind the first n bytes.
LEMMA CutBytes ==
    ASSUME NEW w \in Seq(Byte), NEW n \in Nat, n <= Len(w)
    PROVE  /\ SubSeq(w, n + 1, Len(w)) \in Seq(Byte)
           /\ Len(SubSeq(w, n + 1, Len(w))) = Len(w) - n
           /\ \A i \in 1..Len(w) - n : SubSeq(w, n + 1, Len(w))[i] = w[n + i]
<1> DEFINE m == Len(w) - n
<1>1. Len(w) \in Nat /\ m \in Nat /\ n + m = Len(w) /\ n + m <= Len(w)
  BY LenProperties
<1> HIDE DEF m
<1>2. /\ Slice(w, n, m) \in Seq(Byte) /\ Len(Slice(w, n, m)) = m
      /\ \A i \in 1..m : Slice(w, n, m)[i] = w[n + i]
  BY <1>1, SliceProperties, ZenonT(90)
<1>3. Slice(w, n, m) = SubSeq(w, n + 1, Len(w))
  BY <1>1 DEF Slice
<1> QED
  BY <1>2, <1>3 DEF m

\* Bytes from the front of those on a connection.
LEMMA FrontBytes ==
    ASSUME NEW w \in Seq(Byte), NEW n \in Nat
    PROVE  LET x == SubSeq(w, 1, Len(w) - n)
           IN  x \in Seq(Byte) /\ Begins(x, w)
<1> DEFINE m == Len(w) - n
           x == SubSeq(w, 1, m)
<1>1. Len(w) \in Nat /\ m \in Int /\ m <= Len(w)
  BY LenProperties
<1> HIDE DEF m
<1>2. CASE m < 1
  <2>1. x = <<>>
    BY <1>1, <1>2, SubSeqEmpty
  <2> QED
    BY <1>1, <2>1 DEF Begins, m
<1>3. CASE 1 <= m
  <2>1. 0 \in Nat /\ m \in Nat /\ 0 + m <= Len(w)
    BY <1>1, <1>3
  <2>2. /\ Slice(w, 0, m) \in Seq(Byte) /\ Len(Slice(w, 0, m)) = m
        /\ \A i \in 1..m : Slice(w, 0, m)[i] = w[0 + i]
    BY <2>1, SliceProperties
  <2>3. Slice(w, 0, m) = x /\ \A i \in 1..m : 0 + i = i
    BY <2>1 DEF Slice
  <2> HIDE DEF x
  <2>4. x \in Seq(Byte) /\ Len(x) = m /\ \A i \in 1..m : x[i] = w[i]
    BY <2>2, <2>3
  <2>5. Begins(x, w)
    BY <1>1, <2>4 DEF Begins
  <2> QED
    BY <2>4, <2>5 DEF x, m
<1> QED
  BY <1>1, <1>2, <1>3

-----------------------------------------------------------------------------

\* A set of natural numbers that is not empty has a least one.
LEMMA LeastNumber ==
    ASSUME NEW T, T \subseteq Nat, T # {}
    PROVE  \E x \in T : \A y \in T : x <= y
<1> DEFINE R == OpToRel(<, Nat)
<1>1. IsWellFoundedOn(R, Nat)
  BY NatLessThanWellFounded
<1>2. \A x, y \in Nat : x < y => <<x, y>> \in R
  BY DEF OpToRel
<1> HIDE DEF R
<1>3. PICK x \in T : \A y \in T : ~ (<<y, x>> \in R)
  BY <1>1, WFMin
<1>4. ASSUME NEW y \in T PROVE x <= y
  <2>1. x \in Nat /\ y \in Nat
    OBVIOUS
  <2>2. ~(y < x)
    BY <1>2, <1>3, <2>1
  <2> QED
    BY <2>1, <2>2
<1> QED
  BY <1>4

\* Induction, over a set of numbers.
LEMMA Induction ==
    ASSUME NEW T, 0 \in T, \A n \in Nat : n \in T => n + 1 \in T
    PROVE  Nat \subseteq T
<1> SUFFICES ASSUME Nat \ T # {} PROVE FALSE
  OBVIOUS
<1>1. PICK x \in Nat \ T : \A y \in Nat \ T : x <= y
  BY LeastNumber
<1>2. x - 1 \in Nat /\ ~(x <= x - 1) /\ (x - 1) + 1 = x
  BY <1>1
<1>3. x - 1 \in T
  BY <1>1, <1>2
<1> QED
  BY <1>1, <1>2, <1>3

-----------------------------------------------------------------------------

\* f joins the first n of the sequences s, one by one.
IsJoin(f, s, n) == f = [i \in 1..n |-> IF i = 1 THEN s[i] ELSE f[i-1] \o s[i]]

\* There is one such function,
LEMMA JoinExists ==
    ASSUME NEW S, NEW s \in Seq(Seq(S))
    PROVE  \A n \in 0..Len(s) : \E f \in [1..n -> Seq(S)] : IsJoin(f, s, n)
<1> DEFINE P(n) == n \in 0..Len(s) => \E f \in [1..n -> Seq(S)] : IsJoin(f, s, n)
           T == {n \in Nat : P(n)}
<1>1. P(0)
  <2> DEFINE f == [i \in 1..0 |-> <<>>]
  <2>1. f \in [1..0 -> Seq(S)] /\ IsJoin(f, s, 0)
    BY DEF IsJoin
  <2> QED
    BY <2>1
<1>2. ASSUME NEW n \in Nat, P(n), n + 1 \in 0..Len(s)
      PROVE  \E f \in [1..n + 1 -> Seq(S)] : IsJoin(f, s, n + 1)
  <2>1. n \in 0..Len(s) /\ n + 1 \in 1..Len(s) /\ s[n + 1] \in Seq(S)
    BY <1>2
  <2>2. PICK f \in [1..n -> Seq(S)] : IsJoin(f, s, n)
    BY <1>2, <2>1
  <2> DEFINE next == IF n + 1 = 1 THEN s[n + 1] ELSE f[n] \o s[n + 1]
             g == [i \in 1..n + 1 |-> IF i = n + 1 THEN next ELSE f[i]]
  <2>3. next \in Seq(S)
    <3>1. CASE n = 0
      BY <2>1, <3>1
    <3>2. CASE n # 0
      <4>1. f[n] \in Seq(S)
        BY <3>2
      <4> QED
        BY <2>1, <3>2, <4>1, ConcatProperties
    <3> QED
      BY <3>1, <3>2
  <2>4. g \in [1..n + 1 -> Seq(S)]
    <3> HIDE DEF next
    <3> QED
      BY <2>3
  <2>5. ASSUME NEW i \in 1..n + 1
        PROVE  g[i] = IF i = 1 THEN s[i] ELSE g[i - 1] \o s[i]
    <3>1. CASE i = n + 1
      <4>1. n # 0 => g[n] = f[n]
        OBVIOUS
      <4> QED
        BY <3>1, <4>1
    <3>2. CASE i \in 1..n
      <4>0. \A j \in 1..n : g[j] = f[j]
        <5> HIDE DEF next
        <5> QED
          OBVIOUS
      <4>1. f[i] = IF i = 1 THEN s[i] ELSE f[i - 1] \o s[i]
        BY <2>2, <3>2 DEF IsJoin
      <4>2. g[i] = f[i] /\ (i # 1 => g[i - 1] = f[i - 1])
        <5>1. i \in 1..n /\ (i # 1 => i - 1 \in 1..n)
          BY <3>2
        <5> HIDE DEF g
        <5> QED
          BY <4>0, <5>1
      <4> QED
        BY <4>1, <4>2
    <3> QED
      BY <3>1, <3>2
  <2>6. IsJoin(g, s, n + 1)
    <3> HIDE DEF next
    <3>1. g = [i \in 1..n + 1 |-> g[i]]
      OBVIOUS
    <3> HIDE DEF g
    <3> QED
      BY <2>5, <3>1 DEF IsJoin
  <2> HIDE DEF g
  <2> QED
    BY <2>4, <2>6
<1> HIDE DEF P
<1>3. 0 \in T /\ \A n \in Nat : n \in T => n + 1 \in T
  <2>1. \A n \in Nat : P(n) => P(n + 1)
    BY <1>2 DEF P
  <2> QED
    BY <1>1, <2>1
<1>4. Nat \subseteq T
  <2> HIDE DEF T
  <2> QED
    BY <1>3, Induction
<1> QED
  BY <1>4 DEF P

\* and only one.
LEMMA JoinIsUnique ==
    ASSUME NEW s, NEW n \in Nat, NEW m \in Nat, NEW f, NEW g, IsJoin(f, s, n), IsJoin(g, s, m)
    PROVE  \A i \in Nat : i \in 1..n /\ i \in 1..m => f[i] = g[i]
<1> DEFINE T == {i \in Nat : i \in 1..n /\ i \in 1..m => f[i] = g[i]}
<1>1. 0 \in T
  OBVIOUS
<1>2. ASSUME NEW i \in Nat, i \in T PROVE i + 1 \in T
  <2> SUFFICES ASSUME i + 1 \in 1..n, i + 1 \in 1..m PROVE f[i + 1] = g[i + 1]
    OBVIOUS
  <2>1. /\ f[i + 1] = IF i + 1 = 1 THEN s[i + 1] ELSE f[(i + 1) - 1] \o s[i + 1]
        /\ g[i + 1] = IF i + 1 = 1 THEN s[i + 1] ELSE g[(i + 1) - 1] \o s[i + 1]
    BY DEF IsJoin
  <2>2. (i + 1) - 1 = i /\ (i + 1 # 1 => i \in 1..n /\ i \in 1..m)
    OBVIOUS
  <2> QED
    BY <1>2, <2>1, <2>2
<1>3. Nat \subseteq T
  <2> HIDE DEF T
  <2> QED
    BY <1>1, <1>2, Induction
<1> QED
  BY <1>3

\* FlattenSeq joins them all.
LEMMA FlattenIsJoin ==
    ASSUME NEW S, NEW s \in Seq(Seq(S)), NEW f, IsJoin(f, s, Len(s)), Len(s) # 0
    PROVE  FlattenSeq(s) = f[Len(s)] /\ FlattenSeq(s) \in Seq(S)
<1> DEFINE n == Len(s)
           g == CHOOSE h : h = [i \in 1..n |-> IF i = 1 THEN s[i] ELSE h[i-1] \o s[i]]
<1>1. n \in Nat
  BY LenProperties
<1>2. PICK e \in [1..n -> Seq(S)] : IsJoin(e, s, n)
  <2>1. n \in 0..Len(s)
    BY <1>1
  <2> QED
    BY <2>1, JoinExists
<1>3. IsJoin(g, s, n)
  BY <1>2 DEF IsJoin
<1>4. FlattenSeq(s) = g[n]
  BY DEF FlattenSeq
<1> HIDE DEF g
<1>5. g[n] = f[n] /\ g[n] = e[n] /\ n \in 1..n
  BY <1>1, <1>2, <1>3, JoinIsUnique
<1> QED
  BY <1>2, <1>4, <1>5

\* Of no sequences it is the empty one,
LEMMA FlattenEmpty == FlattenSeq(<<>>) = <<>>
  BY DEF FlattenSeq

\* and of one more it is the longer.
LEMMA FlattenAppend ==
    ASSUME NEW S, NEW s \in Seq(Seq(S)), NEW x \in Seq(S)
    PROVE  /\ FlattenSeq(s) \in Seq(S)
           /\ FlattenSeq(Append(s, x)) = FlattenSeq(s) \o x
<1> DEFINE t == Append(s, x)
           n == Len(s)
<1>1. /\ t \in Seq(Seq(S)) /\ Len(t) = n + 1 /\ t[n + 1] = x /\ n \in Nat
      /\ \A i \in 1..n : t[i] = s[i]
  BY AppendProperties, LenProperties
<1> HIDE DEF t
<1>2. PICK g \in [1..n + 1 -> Seq(S)] : IsJoin(g, t, n + 1)
  <2>1. n + 1 \in 0..Len(t)
    BY <1>1
  <2> QED
    BY <1>1, <2>1, JoinExists
<1>3. FlattenSeq(t) = g[n + 1]
  BY <1>1, <1>2, FlattenIsJoin
<1>4. g[n + 1] = IF n = 0 THEN x ELSE g[n] \o x
  <2>1. n + 1 \in 1..n + 1 /\ (n + 1) - 1 = n /\ (n + 1 = 1 <=> n = 0)
    BY <1>1
  <2>2. g[n + 1] = IF n + 1 = 1 THEN t[n + 1] ELSE g[(n + 1) - 1] \o t[n + 1]
    BY <1>2, <2>1 DEF IsJoin
  <2> HIDE DEF n
  <2> QED
    BY <1>1, <2>1, <2>2
<1>5. CASE n = 0
  <2>1. s = <<>>
    BY <1>5, EmptySeq
  <2>2. <<>> \in Seq(S) /\ <<>> \o x = x
    BY ConcatEmptySeq
  <2> QED
    BY <1>3, <1>4, <1>5, <2>1, <2>2, FlattenEmpty DEF t
<1>6. CASE n # 0
  <2>1. PICK f \in [1..n -> Seq(S)] : IsJoin(f, s, n)
    <3>1. n \in 0..Len(s)
      BY <1>1
    <3> QED
      BY <3>1, JoinExists
  <2>2. FlattenSeq(s) = f[n] /\ FlattenSeq(s) \in Seq(S)
    BY <1>1, <1>6, <2>1, FlattenIsJoin
  <2> DEFINE h == [i \in 1..n |-> g[i]]
  <2>3. IsJoin(h, s, n)
    <3>1. ASSUME NEW i \in 1..n PROVE g[i] = IF i = 1 THEN s[i] ELSE h[i - 1] \o s[i]
      <4>1. i \in 1..n + 1
        BY <1>1
      <4>2. g[i] = IF i = 1 THEN t[i] ELSE g[i - 1] \o t[i]
        BY <1>2, <4>1 DEF IsJoin
      <4>3. t[i] = s[i] /\ (i # 1 => h[i - 1] = g[i - 1])
        BY <1>1
      <4> QED
        BY <4>2, <4>3
    <3> QED
      BY <3>1 DEF IsJoin
  <2>4. h[n] = g[n] /\ n \in 1..n
    BY <1>1, <1>6
  <2> HIDE DEF h
  <2>5. h[n] = f[n]
    <3>1. n \in Nat /\ n \in 1..n
      BY <1>1, <2>4
    <3> HIDE DEF n
    <3> QED
      BY <2>1, <2>3, <3>1, JoinIsUnique
  <2> QED
    BY <1>3, <1>4, <1>6, <2>2, <2>4, <2>5 DEF t
<1> QED
  BY <1>5, <1>6

-----------------------------------------------------------------------------

\* The streams of T are packets p one behind the other; those of T[TRUE] may
\* have one packet q among them.  Behind a packet of D there may be anything.
Chained(T, S, p, q, D) ==
    \A n \in BOOLEAN : \A t \in T[n] :
        /\ t \in Seq(S)
        /\ \/ t = <<>>
           \/ \E d \in D : \E r \in Seq(S) : t = d \o r
           \/ \E u \in T[n] : t = p \o u
           \/ n /\ \E u \in T[FALSE] : t = q \o u

\* w is one of them.
Chain(w, one, S, p, q, D) == \E T : Chained(T, S, p, q, D) /\ w \in T[one]

\* Nothing is,
LEMMA ChainOfNone ==
    ASSUME NEW one \in BOOLEAN, NEW S, NEW p, NEW q, NEW D
    PROVE  Chain(<<>>, one, S, p, q, D)
<1> DEFINE T == [n \in BOOLEAN |-> {<<>>}]
<1>1. \A n \in BOOLEAN : T[n] = {<<>>}
  OBVIOUS
<1>2. <<>> \in Seq(S)
  OBVIOUS
<1> HIDE DEF T
<1>3. ASSUME NEW n \in BOOLEAN, NEW t \in T[n] PROVE t = <<>> /\ t \in Seq(S)
  <2>1. T[n] = {<<>>}
    BY <1>1, Zenon
  <2>2. t = <<>>
    BY <2>1, Zenon
  <2> QED
    BY <1>2, <2>2, Zenon
<1>4. Chained(T, S, p, q, D)
  BY <1>3, Zenon DEF Chained
<1>5. <<>> \in T[one]
  <2>1. T[one] = {<<>>}
    BY <1>1, Zenon
  <2> QED
    BY <2>1, Zenon
<1> QED
  BY <1>4, <1>5, Zenon DEF Chain

\* the first packet of one is followed by another,
Cut(w, one, S, p, q, D) ==
    /\ w \in Seq(S)
    /\ \/ w = <<>>
       \/ \E d \in D : \E r \in Seq(S) : w = d \o r
       \/ \E u \in Seq(S) : w = p \o u /\ Chain(u, one, S, p, q, D)
       \/ one /\ \E u \in Seq(S) : w = q \o u /\ Chain(u, FALSE, S, p, q, D)

LEMMA ChainIsCut ==
    ASSUME NEW one \in BOOLEAN, NEW S, NEW p, NEW q, NEW D, NEW w,
           Chain(w, one, S, p, q, D)
    PROVE  Cut(w, one, S, p, q, D)
<1>1. PICK T : Chained(T, S, p, q, D) /\ w \in T[one]
  BY DEF Chain
<1>2. \A n \in BOOLEAN : \A t \in T[n] : t \in Seq(S) /\ Chain(t, n, S, p, q, D)
  BY <1>1, Zenon DEF Chain, Chained
<1>3. /\ w \in Seq(S)
      /\ \/ w = <<>>
         \/ \E d \in D : \E r \in Seq(S) : w = d \o r
         \/ \E u \in T[one] : w = p \o u
         \/ one /\ \E u \in T[FALSE] : w = q \o u
  BY <1>1, Zenon DEF Chained
<1> QED
  BY <1>2, <1>3, Zenon DEF Cut

\* and what is behind one may be another packet p,
LEMMA ChainWithNext ==
    ASSUME NEW one \in BOOLEAN, NEW S, NEW p \in Seq(S), NEW q \in Seq(S),
           NEW D, D \subseteq Seq(S), NEW w,
           Chain(w, one, S, p, q, D)
    PROVE  /\ Chain(w \o p, one, S, p, q, D)
           /\ \A d \in D : Chain(w \o d, one, S, p, q, D)
<1>1. PICK T : Chained(T, S, p, q, D) /\ w \in T[one]
  BY DEF Chain
<1>2. \A n \in BOOLEAN : \A t \in T[n] :
        /\ t \in Seq(S)
        /\ \/ t = <<>>
           \/ \E d \in D : \E r \in Seq(S) : t = d \o r
           \/ \E u \in T[n] : t = p \o u
           \/ n /\ \E u \in T[FALSE] : t = q \o u
  BY <1>1, Zenon DEF Chained
<1>3. ASSUME NEW y \in Seq(S), y = p \/ y \in D
      PROVE  Chain(w \o y, one, S, p, q, D)
  <2> DEFINE R == [n \in BOOLEAN |-> {<<>>} \cup {t \o y : t \in T[n]}]
  <2>1. ASSUME NEW n \in BOOLEAN, NEW x \in R[n]
        PROVE  /\ x \in Seq(S)
               /\ \/ x = <<>>
                  \/ \E d \in D : \E r \in Seq(S) : x = d \o r
                  \/ \E u \in R[n] : x = p \o u
                  \/ n /\ \E u \in R[FALSE] : x = q \o u
    <3>1. CASE x = <<>>
      BY <3>1
    <3>2. CASE x # <<>>
      <4>1. PICK t \in T[n] : x = t \o y
        BY <3>2
      <4>2. t \in Seq(S) /\ x \in Seq(S) /\ \A m \in BOOLEAN : \A u \in T[m] : u \in Seq(S) /\ u \o y \in R[m]
        BY <1>2, <4>1, ConcatProperties
      <4>3. \A a, b \in Seq(S) : (a \o b) \o y = a \o (b \o y) /\ b \o y \in Seq(S)
        BY <1>3, ConcatAssociative, ConcatProperties, SMTT(30)
      <4> HIDE DEF R
      <4>4. CASE t = <<>>
        <5>1. x = y \o <<>> /\ x = y /\ <<>> \in Seq(S)
          BY <1>3, <4>1, <4>4, ConcatEmptySeq
        <5>2. <<>> \in R[n]
          BY DEF R
        <5> QED
          BY <1>3, <4>2, <5>1, <5>2
      <4>5. CASE \E d \in D : \E r \in Seq(S) : t = d \o r
        <5>1. PICK d \in D, r \in Seq(S) : t = d \o r
          BY <4>5
        <5>2. d \in Seq(S)
          OBVIOUS
        <5>3. x = d \o (r \o y) /\ r \o y \in Seq(S)
          BY <4>1, <4>3, <5>1, <5>2
        <5> QED
          BY <4>2, <5>3
      <4>6. CASE \E u \in T[n] : t = p \o u
        <5>1. PICK u \in T[n] : t = p \o u
          BY <4>6
        <5>2. x = p \o (u \o y) /\ u \o y \in R[n]
          BY <4>1, <4>2, <4>3, <5>1
        <5> QED
          BY <4>2, <5>2
      <4>7. CASE n /\ \E u \in T[FALSE] : t = q \o u
        <5>1. PICK u \in T[FALSE] : t = q \o u
          BY <4>7
        <5>2. x = q \o (u \o y) /\ u \o y \in R[FALSE]
          BY <4>1, <4>2, <4>3, <5>1
        <5> QED
          BY <4>2, <4>7, <5>2
      <4> QED
        BY <1>2, <4>4, <4>5, <4>6, <4>7
    <3> QED
      BY <3>1, <3>2
  <2>2. w \o y \in R[one]
    BY <1>1
  <2> HIDE DEF R
  <2> QED
    BY <2>1, <2>2, Zenon DEF Chain, Chained
<1> QED
  BY <1>3

\* or, if there was none yet, the packet q.
LEMMA ChainWithOne ==
    ASSUME NEW S, NEW p \in Seq(S), NEW q \in Seq(S), NEW o,
           NEW D, D \subseteq Seq(S), NEW w,
           Chain(w, FALSE, S, p, o, D)
    PROVE  Chain(w \o q, TRUE, S, p, q, D) /\ Chain(w, FALSE, S, p, q, D)
<1>1. PICK T : Chained(T, S, p, o, D) /\ w \in T[FALSE]
  BY DEF Chain
<1>2. \A t \in T[FALSE] :
        /\ t \in Seq(S)
        /\ \/ t = <<>>
           \/ \E d \in D : \E r \in Seq(S) : t = d \o r
           \/ \E u \in T[FALSE] : t = p \o u
  BY <1>1, Zenon DEF Chained
<1>3. Chain(w, FALSE, S, p, q, D)
  <2> DEFINE R == [n \in BOOLEAN |-> IF n THEN {} ELSE T[FALSE]]
  <2>1. Chained(R, S, p, q, D)
    <3> SUFFICES ASSUME NEW n \in BOOLEAN, NEW t \in R[n]
                 PROVE  /\ t \in Seq(S)
                        /\ \/ t = <<>>
                           \/ \E d \in D : \E r \in Seq(S) : t = d \o r
                           \/ \E u \in R[n] : t = p \o u
                           \/ n /\ \E u \in R[FALSE] : t = q \o u
      BY DEF Chained
    <3>1. n = FALSE /\ t \in T[FALSE] /\ R[n] = T[FALSE]
      OBVIOUS
    <3> QED
      BY <1>2, <3>1
  <2>2. w \in R[FALSE]
    BY <1>1
  <2> QED
    BY <2>1, <2>2, Zenon DEF Chain
<1>4. Chain(w \o q, TRUE, S, p, q, D)
  <2> DEFINE R == [n \in BOOLEAN |-> IF n THEN {t \o q : t \in T[FALSE]} ELSE {<<>>}]
  <2>1. ASSUME NEW n \in BOOLEAN, NEW x \in R[n]
        PROVE  /\ x \in Seq(S)
               /\ \/ x = <<>>
                  \/ \E d \in D : \E r \in Seq(S) : x = d \o r
                  \/ \E u \in R[n] : x = p \o u
                  \/ n /\ \E u \in R[FALSE] : x = q \o u
    <3>1. CASE n = FALSE
      BY <3>1
    <3>2. CASE n = TRUE
      <4>1. PICK t \in T[FALSE] : x = t \o q
        BY <3>2
      <4>2. /\ t \in Seq(S) /\ x \in Seq(S) /\ <<>> \in R[FALSE]
            /\ \A u \in T[FALSE] : u \in Seq(S) /\ u \o q \in R[TRUE]
        BY <1>2, <4>1, ConcatProperties
      <4>3. \A a, b \in Seq(S) : (a \o b) \o q = a \o (b \o q) /\ b \o q \in Seq(S)
        BY ConcatAssociative, ConcatProperties
      <4> HIDE DEF R
      <4>4. CASE t = <<>>
        <5>1. x = q \o <<>>
          BY <4>1, <4>4, ConcatEmptySeq
        <5> QED
          BY <3>2, <4>2, <5>1
      <4>5. CASE \E d \in D : \E r \in Seq(S) : t = d \o r
        <5>1. PICK d \in D, r \in Seq(S) : t = d \o r
          BY <4>5
        <5>2. d \in Seq(S)
          OBVIOUS
        <5>3. x = d \o (r \o q) /\ r \o q \in Seq(S)
          BY <4>1, <4>3, <5>1, <5>2
        <5> QED
          BY <4>2, <5>3
      <4>6. CASE \E u \in T[FALSE] : t = p \o u
        <5>1. PICK u \in T[FALSE] : t = p \o u
          BY <4>6
        <5>2. x = p \o (u \o q) /\ u \o q \in R[TRUE]
          BY <4>1, <4>2, <4>3, <5>1
        <5> QED
          BY <3>2, <4>2, <5>2
      <4> QED
        BY <1>2, <4>4, <4>5, <4>6
    <3> QED
      BY <3>1, <3>2
  <2>2. w \o q \in R[TRUE]
    BY <1>1
  <2> HIDE DEF R
  <2> QED
    BY <2>1, <2>2, Zenon DEF Chain, Chained
<1> QED
  BY <1>3, <1>4

-----------------------------------------------------------------------------

\* What begins the beginning of something begins it.
LEMMA BeginsAgain ==
    ASSUME NEW S, NEW a \in Seq(S), NEW b \in Seq(S), NEW c \in Seq(S),
           Begins(a, b), Begins(b, c)
    PROVE  Begins(a, c)
<1>1. Len(a) \in Nat /\ Len(b) \in Nat /\ Len(c) \in Nat
  BY LenProperties
<1> QED
  BY <1>1 DEF Begins

\* Of two beginnings of something one begins the other.
LEMMA BeginsOther ==
    ASSUME NEW S, NEW a \in Seq(S), NEW b \in Seq(S), NEW c \in Seq(S),
           Begins(a, c), Begins(b, c), Len(a) <= Len(b)
    PROVE  Begins(a, b)
<1>1. Len(a) \in Nat /\ Len(b) \in Nat /\ Len(c) \in Nat
  BY LenProperties
<1> QED
  BY <1>1 DEF Begins

\* The first of two that are concatenated begins them.
LEMMA ConcatBegins ==
    ASSUME NEW S, NEW a \in Seq(S), NEW b \in Seq(S)
    PROVE  a \o b \in Seq(S) /\ Begins(a, a \o b) /\ Len(a \o b) = Len(a) + Len(b)
<1>1. Len(a) \in Nat /\ Len(b) \in Nat
  BY LenProperties
<1> QED
  BY <1>1, ConcatProperties DEF Begins

\* Less behind the same.
LEMMA ConcatBeginning ==
    ASSUME NEW S, NEW h \in Seq(S), NEW w \in Seq(S), NEW x \in Seq(S), Begins(x, w)
    PROVE  h \o w \in Seq(S) /\ h \o x \in Seq(S) /\ Begins(h \o x, h \o w)
<1> DEFINE v == h \o w
           y == h \o x
           n == Len(h)
<1>1. /\ n \in Nat /\ Len(x) \in Nat /\ Len(w) \in Nat
      /\ v \in Seq(S) /\ Len(v) = n + Len(w)
      /\ \A i \in 1..n + Len(w) : v[i] = IF i <= n THEN h[i] ELSE w[i - n]
      /\ y \in Seq(S) /\ Len(y) = n + Len(x)
      /\ \A i \in 1..n + Len(x) : y[i] = IF i <= n THEN h[i] ELSE x[i - n]
  BY LenProperties, ConcatProperties
<1> HIDE DEF v, y, n
<1>2. Len(y) <= Len(v)
  BY <1>1 DEF Begins
<1>3. ASSUME NEW i \in 1..Len(y) PROVE v[i] = y[i]
  <2>1. i \in 1..n + Len(w) /\ i \in 1..n + Len(x)
    BY <1>1 DEF Begins
  <2>2. CASE i <= n
    BY <1>1, <2>1, <2>2
  <2>3. CASE ~(i <= n)
    <3>1. i - n \in 1..Len(x)
      BY <1>1, <2>1, <2>3
    <3>2. w[i - n] = x[i - n]
      BY <3>1 DEF Begins
    <3> QED
      BY <1>1, <2>1, <2>3, <3>2
  <2> QED
    BY <2>2, <2>3
<1>4. Begins(y, v)
  BY <1>2, <1>3 DEF Begins
<1> QED
  BY <1>1, <1>4 DEF v, y

\* Cut the first of two that are concatenated off.
LEMMA CutConcat ==
    ASSUME NEW S, NEW a \in Seq(S), NEW b \in Seq(S)
    PROVE  SubSeq(a \o b, Len(a) + 1, Len(a \o b)) = b
<1> DEFINE w == a \o b
           n == Len(a)
           x == SubSeq(w, n + 1, Len(w))
<1>1. /\ n \in Nat /\ Len(b) \in Nat /\ w \in Seq(S) /\ Len(w) = n + Len(b)
      /\ \A i \in 1..Len(w) : w[i] = IF i <= n THEN a[i] ELSE b[i - n]
  BY LenProperties, ConcatProperties
<1> HIDE DEF w, n
<1>2. IsSequence(w) /\ n <= Len(w)
  BY <1>1, SequencesAreSequences
<1>3. IsSequence(x) /\ Len(x) = Len(b) /\ \A i \in 1..Len(b) : x[i] = w[n + i]
  <2>1. Len(w) - n = Len(b)
    BY <1>1
  <2> QED
    BY <1>1, <1>2, <2>1, CutSequence, ZenonT(30)
<1>4. ASSUME NEW i \in 1..Len(b) PROVE x[i] = b[i]
  <2>1. n + i \in 1..Len(w) /\ ~(n + i <= n) /\ (n + i) - n = i
    BY <1>1
  <2> QED
    BY <1>1, <1>3, <2>1
<1> HIDE DEF x
<1>5. DOMAIN x = 1..Len(b) /\ DOMAIN b = 1..Len(b)
  BY <1>3, Positions, LenProperties
<1>6. x = [i \in 1..Len(b) |-> x[i]]
  BY <1>3, Positions, SequenceOver
<1>7. b = [i \in 1..Len(b) |-> b[i]]
  BY <1>5
<1>8. x = b
  BY <1>4, <1>6, <1>7
<1> QED
  BY <1>8 DEF x, w, n

\* A part of what is behind something.
LEMMA SliceBehind ==
    ASSUME NEW S, NEW a \in Seq(S), NEW b \in Seq(S), NEW at \in Nat, NEW n \in Nat,
           at + n <= Len(b)
    PROVE  Slice(a \o b, Len(a) + at, n) = Slice(b, at, n)
<1> DEFINE w == a \o b
           m == Len(a)
<1>1. /\ m \in Nat /\ Len(b) \in Nat /\ w \in Seq(S) /\ Len(w) = m + Len(b)
      /\ \A i \in 1..Len(w) : w[i] = IF i <= m THEN a[i] ELSE b[i - m]
  BY LenProperties, ConcatProperties
<1> HIDE DEF w, m
<1> DEFINE z == m + at
<1>2. z \in Nat /\ z + n <= Len(w)
  BY <1>1
<1>3. /\ Slice(w, z, n) \in Seq(S) /\ Len(Slice(w, z, n)) = n
      /\ \A i \in 1..n : Slice(w, z, n)[i] = w[z + i]
  <2> HIDE DEF z
  <2>1. w \in Seq(S) /\ z \in Nat /\ z + n <= Len(w)
    BY <1>1, <1>2
  <2> QED
    BY <2>1, SliceProperties
<1>4. /\ Slice(b, at, n) \in Seq(S) /\ Len(Slice(b, at, n)) = n
      /\ \A i \in 1..n : Slice(b, at, n)[i] = b[at + i]
  BY SliceProperties
<1>5. ASSUME NEW i \in 1..n PROVE w[(m + at) + i] = b[at + i]
  <2>1. /\ (m + at) + i \in 1..Len(w) /\ ~((m + at) + i <= m)
        /\ ((m + at) + i) - m = at + i
    BY <1>1
  <2> QED
    BY <1>1, <2>1
<1>6. Slice(w, m + at, n) = Slice(b, at, n)
  <2> DEFINE x == Slice(w, m + at, n)
             y == Slice(b, at, n)
  <2>1. /\ x \in Seq(S) /\ y \in Seq(S) /\ Len(x) = n /\ Len(y) = n
        /\ \A i \in 1..n : x[i] = y[i]
    BY <1>3, <1>4, <1>5
  <2> HIDE DEF x, y
  <2>2. x = y
    BY <2>1, SeqEqual
  <2> QED
    BY <2>2 DEF x, y
<1> QED
  BY <1>6 DEF w, m

\* The rest of what is behind something.
LEMMA RestBehind ==
    ASSUME NEW S, NEW a \in Seq(S), NEW b \in Seq(S), NEW at \in Nat, at <= Len(b)
    PROVE  SubSeq(a \o b, (Len(a) + at) + 1, Len(a \o b)) = SubSeq(b, at + 1, Len(b))
<1> DEFINE n == Len(b) - at
           w == a \o b
<1>1. /\ Len(a) \in Nat /\ Len(b) \in Nat /\ Len(w) = Len(a) + Len(b)
      /\ n \in Nat /\ at + n = Len(b) /\ at + n <= Len(b) /\ (Len(a) + at) + n = Len(w)
  BY LenProperties, ConcatProperties
<1> HIDE DEF n
<1>2. Slice(w, Len(a) + at, n) = Slice(b, at, n)
  BY <1>1, SliceBehind
<1> HIDE DEF w
<1> QED
  BY <1>1, <1>2 DEF Slice, w

\* The front of a sequence and the rest of it.
LEMMA FrontAndRest ==
    ASSUME NEW w \in Seq(Byte), NEW n \in Nat, n <= Len(w)
    PROVE  SubSeq(w, 1, n) \o SubSeq(w, n + 1, Len(w)) = w
<1> DEFINE h == SubSeq(w, 1, n)
           x == SubSeq(w, n + 1, Len(w))
           v == h \o x
<1>1. x \in Seq(Byte) /\ Len(x) = Len(w) - n /\ \A i \in 1..Len(w) - n : x[i] = w[n + i]
  BY CutBytes
<1>2. h \in Seq(Byte) /\ Len(h) = n /\ \A i \in 1..n : h[i] = w[i]
  <2>1. 0 \in Nat /\ 0 + n <= Len(w) /\ 0 + 1 = 1 /\ 0 + n = n
    OBVIOUS
  <2>2. Slice(w, 0, n) = h
    BY <2>1 DEF Slice
  <2>3. /\ Slice(w, 0, n) \in Seq(Byte) /\ Len(Slice(w, 0, n)) = n
        /\ \A i \in 1..n : Slice(w, 0, n)[i] = w[0 + i]
    BY <2>1, SliceProperties
  <2>4. \A i \in 1..n : 0 + i = i
    OBVIOUS
  <2> HIDE DEF h
  <2> QED
    BY <2>2, <2>3, <2>4
<1>3. Len(w) \in Nat
  BY LenProperties
<1> HIDE DEF h, x
<1>4. /\ v \in Seq(Byte) /\ Len(v) = Len(h) + Len(x)
      /\ \A i \in 1..Len(h) : v[i] = h[i]
      /\ \A i \in 1..Len(x) : v[Len(h) + i] = x[i]
  BY <1>1, <1>2, ConcatBytes
<1> HIDE DEF v
<1>5. Len(v) = Len(w)
  BY <1>1, <1>2, <1>3, <1>4
<1>6. ASSUME NEW i \in 1..Len(w) PROVE v[i] = w[i]
  <2>1. CASE i <= n
    <3>1. i \in 1..n
      BY <2>1
    <3> QED
      BY <1>2, <1>4, <3>1
  <2>2. CASE ~(i <= n)
    <3> DEFINE j == i - n
    <3>1. j \in 1..Len(w) - n /\ n + j = i
      BY <1>3, <2>2
    <3> HIDE DEF j
    <3>2. j \in 1..Len(x) /\ Len(h) + j = i
      BY <1>1, <1>2, <3>1
    <3> QED
      BY <1>1, <1>4, <3>1, <3>2
  <2> QED
    BY <2>1, <2>2
<1>7. v = w
  BY <1>4, <1>5, <1>6, SeqEqual
<1> QED
  BY <1>7 DEF v, h, x

\* What begins a sequence is a prefix of it.
LEMMA BeginningIsPrefix ==
    ASSUME NEW S, NEW p \in Seq(S), NEW b \in Seq(S), Begins(p, b)
    PROVE  IsPrefix(p, b)
<1> DEFINE n == Len(p)
<1>1. n \in Nat /\ Len(b) \in Nat /\ n <= Len(b) /\ 0 \in Nat /\ 0 + n <= n /\ 0 + n = n /\ 0 + 1 = 1
  BY LenProperties DEF Begins
<1> HIDE DEF n
<1>2. Slice(b, 0, n) = Slice(p, 0, n)
  BY <1>1, SliceOfBeginning DEF n
<1>3. SubSeq(b, 1, n) = SubSeq(p, 1, n)
  BY <1>1, <1>2 DEF Slice
<1> QED
  BY <1>1, <1>3 DEF IsPrefix, n

\* Four bytes.
LEMMA PutFour == ASSUME NEW n PROVE Len(Put(n, 4)) = 4
<1> DEFINE f == Put(n, 4)
           S == {f[i] : i \in 1..4}
<1>1. f = [i \in 1..4 |-> f[i]]
  BY DEF Put
<1>2. \A i \in 1..4 : f[i] \in S
  OBVIOUS
<1> HIDE DEF f, S
<1>3. Len([i \in 1..4 |-> f[i]]) = 4
  BY <1>2
<1> QED
  BY <1>1, <1>3 DEF f

==============================================================================
