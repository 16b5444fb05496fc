------------------------- MODULE Gt06SessionProofs --------------------------
(***************************************************************************)
(* Three invariants of the connections of a GT06 device.  Every connection  *)
(* queues the status of each packet it reads, in order, and replies once to *)
(* each heartbeat and to nothing else, whatever bytes arrive on it.  What it*)
(* reads is what was sent over it.  What a reply confirms is in the queue.  *)
(***************************************************************************)
EXTENDS Gt06Session, SequenceFacts

-----------------------------------------------------------------------------
(* What is read of the bytes a device has sent, as lemmas about values: a     *)
(* stream of packets that were packed one behind the other, some of them      *)
(* damaged, is read packet by packet up to the first damage that moves the    *)
(* end of a packet; and the replies, ten bytes each, are read one by one.     *)

\* Where the data of a packet begins, and how long it is.
HeadOf(b) == IF b[1] = 121 THEN 4 ELSE 3

SizeOf(b) == (PacketLength(b) - 4) % 256

\* parsePacket, case by case.
LEMMA ParsePacketByParts ==
    ASSUME NEW b, NEW offset
    PROVE  LET head == HeadOf(b)
               size == SizeOf(b)
               data == Slice(b, head, size)
               information == parsePacketData(data, offset)
           IN  parsePacket(b, offset) =
                 IF Len(b) < 2 THEN Waits
                 ELSE IF Slice(b, 0, 2) \notin {<<120, 120>>, <<121, 121>>} THEN Ends
                 ELSE IF Len(b) < head \/ Len(b) < head + size THEN Waits
                 ELSE IF information = Bad THEN Ends
                 ELSE IF Len(b) < head + size + 6 THEN Waits
                 ELSE IF ~EndsWell(Slice(b, head + size + 4, 2)) THEN Ends
                 ELSE [kind |-> "packet", type |-> data[1], information |-> information,
                       serial |-> Slice(b, head + size, 2), size |-> head + size + 6]
  BY DEF parsePacket, HeadOf, SizeOf

\* The length is known with the head, the same for whatever follows.
LEMMA LengthIsKnown ==
    ASSUME NEW p \in Seq(Byte), Len(p) >= HeadOf(p), Len(p) >= 2
    PROVE  /\ HeadOf(p) \in {3, 4} /\ SizeOf(p) \in Nat
           /\ \A b \in Seq(Byte) : Begins(p, b) => HeadOf(b) = HeadOf(p) /\ SizeOf(b) = SizeOf(p)
<1>1. HeadOf(p) \in {3, 4} /\ (p[1] = 121 => HeadOf(p) = 4) /\ Len(p) \in Nat
  BY LenProperties DEF HeadOf
<1>2. PacketLength(p) \in Nat
  <2>1. \A x \in Nat : x % 256 \in Nat
    OBVIOUS
  <2>2. CASE p[1] = 121
    <3>1. Uint16(p, 2) \in Nat
      BY <1>1, <2>2, UintTypes
    <3> QED
      BY <2>1, <2>2, <3>1 DEF PacketLength
  <2>3. CASE p[1] # 121
    <3>1. Uint8(p, 2) \in Nat
      BY <1>1, <2>3, UintTypes
    <3> QED
      BY <2>3, <3>1 DEF PacketLength
  <2> QED
    BY <2>2, <2>3
<1>3. SizeOf(p) \in Nat
  BY <1>2 DEF SizeOf
<1>4. ASSUME NEW b \in Seq(Byte), Begins(p, b)
      PROVE  HeadOf(b) = HeadOf(p) /\ SizeOf(b) = SizeOf(p)
  <2>1. b[1] = p[1] /\ b[3] = p[3]
    BY <1>1, <1>4 DEF Begins
  <2>2. p[1] = 121 => b[4] = p[4]
    BY <1>1, <1>4 DEF Begins
  <2>3. HeadOf(b) = HeadOf(p) /\ PacketLength(b) = PacketLength(p)
    BY <2>1, <2>2 DEF HeadOf, PacketLength, Uint8, Uint16
  <2> QED
    BY <2>3 DEF SizeOf
<1> QED
  BY <1>1, <1>3, <1>4

\* What the first bytes of a stream are a packet of, or an error, that the stream
\* is too, whatever follows (parsePacket reads no further than it must).
LEMMA ParseBeginning ==
    ASSUME NEW p \in Seq(Byte), NEW b \in Seq(Byte), Begins(p, b), NEW offset,
           parsePacket(p, offset) # Waits
    PROVE  parsePacket(b, offset) = parsePacket(p, offset)
<1> DEFINE head == HeadOf(p)
           size == SizeOf(p)
<1>1. Len(p) \in Nat /\ Len(b) \in Nat /\ Len(p) <= Len(b)
  BY LenProperties DEF Begins
<1>2. ~(Len(p) < 2)
  BY ParsePacketByParts
<1>3. Slice(b, 0, 2) = Slice(p, 0, 2)
  BY <1>1, <1>2, SliceOfBeginning
<1>4. CASE Slice(p, 0, 2) \notin {<<120, 120>>, <<121, 121>>}
  BY <1>1, <1>2, <1>3, <1>4, ParsePacketByParts
<1>5. CASE Slice(p, 0, 2) \in {<<120, 120>>, <<121, 121>>}
  <2>1. ~(Len(p) < HeadOf(p)) /\ ~(Len(p) < HeadOf(p) + SizeOf(p))
    BY <1>2, <1>5, ParsePacketByParts
  <2>2. HeadOf(p) \in {3, 4} /\ SizeOf(p) \in Nat /\ HeadOf(b) = HeadOf(p) /\ SizeOf(b) = SizeOf(p)
    <3>1. Len(p) >= HeadOf(p) /\ Len(p) >= 2
      BY <1>1, <1>2, <2>1 DEF HeadOf
    <3> QED
      BY <3>1, LengthIsKnown
  <2> DEFINE h == HeadOf(p)
             s == SizeOf(p)
  <2>3. h \in Nat /\ s \in Nat
    BY <2>2
  <2> HIDE DEF h, s
  <2>4. Slice(b, h, s) = Slice(p, h, s)
    BY <1>1, <2>1, <2>3, SliceOfBeginning DEF h, s
  <2> DEFINE information == parsePacketData(Slice(p, h, s), offset)
  <2>5. CASE information = Bad
    <3>1. parsePacket(p, offset) = Ends
      BY <1>2, <1>5, <2>1, <2>5, ParsePacketByParts DEF h, s
    <3>2. ~(Len(b) < 2) /\ ~(Len(b) < h) /\ ~(Len(b) < h + s)
      BY <1>1, <1>2, <2>1, <2>3 DEF h, s
    <3>3. parsePacket(b, offset) = Ends
      BY <1>3, <1>5, <2>2, <2>4, <2>5, <3>2, ParsePacketByParts DEF h, s
    <3> QED
      BY <3>1, <3>3
  <2>6. CASE information # Bad
    <3>1. ~(Len(p) < h + s + 6)
      BY <1>2, <1>5, <2>1, <2>6, ParsePacketByParts DEF h, s
    <3>2. /\ ~(Len(b) < 2) /\ ~(Len(b) < h) /\ ~(Len(b) < h + s)
          /\ ~(Len(b) < h + s + 6)
      BY <1>1, <1>2, <2>3, <3>1
    <3>3. Slice(b, h + s + 4, 2) = Slice(p, h + s + 4, 2) /\ Slice(b, h + s, 2) = Slice(p, h + s, 2)
      BY <1>1, <2>3, <3>1, SliceOfBeginning
    <3> DEFINE end == Slice(p, h + s + 4, 2)
               packet == [kind |-> "packet", type |-> Slice(p, h, s)[1], information |-> information,
                          serial |-> Slice(p, h + s, 2), size |-> h + s + 6]
    <3>4. parsePacket(p, offset) = IF ~EndsWell(end) THEN Ends ELSE packet
      BY <1>2, <1>5, <2>1, <2>6, <3>1, ParsePacketByParts DEF h, s
    <3>5. parsePacket(b, offset) = IF ~EndsWell(end) THEN Ends ELSE packet
      BY <1>3, <1>5, <2>2, <2>4, <2>6, <3>2, <3>3, ParsePacketByParts DEF h, s
    <3> QED
      BY <3>4, <3>5
  <2> QED
    BY <2>5, <2>6
<1> QED
  BY <1>4, <1>5

\* A packet is not longer than what it was read of, and its serial number is
\* two bytes.
LEMMA PacketIsWithin ==
    ASSUME NEW p \in Seq(Byte), NEW offset, parsePacket(p, offset).kind = "packet"
    PROVE  /\ parsePacket(p, offset).size \in 1..Len(p)
           /\ parsePacket(p, offset).serial \in Seq(Byte)
           /\ Len(parsePacket(p, offset).serial) = 2
<1>1. Waits.kind # "packet" /\ Ends.kind # "packet"
  BY DEF Waits, Ends
<1> DEFINE h == HeadOf(p)
           s == SizeOf(p)
           information == parsePacketData(Slice(p, h, s), offset)
           packet == [kind |-> "packet", type |-> Slice(p, h, s)[1], information |-> information,
                          serial |-> Slice(p, h + s, 2), size |-> h + s + 6]
<1>2. Len(p) \in Nat
  BY LenProperties
<1>3. /\ parsePacket(p, offset) = packet
      /\ ~(Len(p) < 2) /\ ~(Len(p) < h) /\ ~(Len(p) < h + s + 6)
  BY <1>1, ParsePacketByParts
<1>4. h \in Nat /\ s \in Nat
  <2>1. Len(p) >= HeadOf(p) /\ Len(p) >= 2
    BY <1>2, <1>3 DEF HeadOf
  <2> QED
    BY <2>1, LengthIsKnown
<1>p. packet.size = h + s + 6 /\ packet.serial = Slice(p, h + s, 2)
  OBVIOUS
<1> HIDE DEF h, s, information, packet
<1>5. packet.size \in 1..Len(p)
  BY <1>2, <1>3, <1>4, <1>p
<1>6. packet.serial \in Seq(Byte) /\ Len(packet.serial) = 2
  <2> DEFINE at == h + s
  <2>1. at \in Nat /\ at + 2 <= Len(p) /\ 2 \in Nat
    BY <1>2, <1>3, <1>4
  <2> HIDE DEF at
  <2>2. Slice(p, at, 2) \in Seq(Byte) /\ Len(Slice(p, at, 2)) = 2
    BY <2>1, SliceProperties
  <2> QED
    BY <1>p, <2>2 DEF at
<1> QED
  BY <1>3, <1>5, <1>6

\* A stream that goes on like the bytes p, as far as it goes, is read as a packet
\* only if it holds all of p, and then as the packet p is, to its end.
LEMMA FramedReads ==
    ASSUME NEW p \in Seq(Byte), NEW w \in Seq(Byte), Framed(p),
           \A i \in 1..Len(p) : i <= Len(w) => w[i] = p[i],
           parsePacket(w, LoginZone).kind = "packet"
    PROVE  /\ parsePacket(w, LoginZone) = parsePacket(p, LoginZone)
           /\ IsWhole(p, parsePacket(p, LoginZone)) /\ Len(p) <= Len(w)
<1> DEFINE P(x) == parsePacket(x, LoginZone)
<1>0. Len(p) \in Nat /\ Len(w) \in Nat
  BY LenProperties
<1>1. Ends # Waits /\ P(w) # Waits /\ P(w) # Ends
  BY DEF Ends, Waits
<1>2. \/ IsWhole(p, P(p)) \/ P(p) = Ends
      \/ \A x \in Byte : P(Append(p, x)) = Ends
  BY DEF Framed
<1>3. \A a, b \in Seq(Byte) : Begins(a, b) /\ P(a) # Waits => P(b) = P(a)
  BY ParseBeginning
<1>4. P(w).size \in 1..Len(w)
  BY PacketIsWithin
<1>5. 0 \in Byte
  BY DEF Byte
<1> HIDE DEF P
<1>6. CASE Len(w) <= Len(p)
  <2>1. Begins(w, p) /\ Begins(w, Append(p, 0))
    BY <1>0, <1>5, <1>6, AppendByte DEF Begins
  <2>2. P(p) = P(w) /\ P(Append(p, 0)) = P(w)
    BY <1>1, <1>3, <1>5, <2>1, AppendByte
  <2>3. IsWhole(p, P(p))
    BY <1>1, <1>2, <1>5, <2>2
  <2>4. Len(p) <= Len(w)
    BY <1>0, <1>4, <2>2, <2>3 DEF IsWhole
  <2> QED
    BY <2>2, <2>3, <2>4 DEF P
<1>7. CASE Len(p) < Len(w)
  <2> DEFINE x == w[Len(p) + 1]
  <2>1. Begins(p, w)
    BY <1>0, <1>7 DEF Begins
  <2>2. x \in Byte
    BY <1>0, <1>7, ElementOfSeq
  <2>3. Begins(Append(p, x), w)
    BY <1>0, <1>7, <2>2, AppendByte DEF Begins
  <2>4. P(p) # Waits
    <3> SUFFICES ASSUME P(p) = Waits PROVE FALSE
      OBVIOUS
    <3>1. P(Append(p, x)) = Ends
      BY <1>1, <1>2, <2>2 DEF IsWhole, Waits
    <3> QED
      BY <1>1, <1>3, <2>2, <2>3, <3>1, AppendByte
  <2>5. P(w) = P(p) /\ P(Append(p, x)) = P(p)
    BY <1>3, <2>1, <2>2, <2>4, AppendByte
  <2>6. IsWhole(p, P(p))
    BY <1>1, <1>2, <2>2, <2>5
  <2> QED
    BY <1>0, <1>7, <2>5, <2>6 DEF P
<1> QED
  BY <1>0, <1>6, <1>7

-----------------------------------------------------------------------------

\* The packets v lie one behind the other, the first at 0.
LaidOut(v, at, k) ==
    /\ \A j \in 1..k : v[j] \in Seq(Byte) /\ Framed(v[j])
    /\ \A j \in 0..k : at[j] \in Nat
    /\ \A j \in 1..k : at[j] = at[j - 1] + Len(v[j])
    /\ \A i, j \in 0..k : i <= j => at[i] <= at[j]

\* They are what was sent, the first cl of them undamaged,
Carry(v, s, cl, k) ==
    \A j \in 1..k : /\ v[j] \in {Packed(s[j])} \cup Damaged(Packed(s[j]))
                    /\ j <= cl => v[j] = Packed(s[j])

\* the packets t are read of the first of them,
ReadOf(v, t, k) ==
    \A i \in 1..Len(t) : i <= k => /\ t[i] = parsePacket(v[i], LoginZone)
                                   /\ t[i].kind = "packet"

\* and the bytes w, as far as they go, are those behind the first n of them.
Continue(w, v, at, n, k) ==
    \A j \in n + 1..k : \A i \in 1..Len(v[j]) :
        at[j - 1] - at[n] + i <= Len(w) => w[at[j - 1] - at[n] + i] = v[j][i]

\* Of a connection over which s was sent, k packets of which are known (all,
\* or those before the first damaged one): the packets t that have been read,
\* and, if reading goes on, the bytes w that have not.  `whole` is a connection
\* that has lost none of them.
Ahead(w, v, at, n, k, l, whole) ==
    /\ Continue(w, v, at, n, k)
    /\ k = l => Len(w) <= at[k] - at[n]
    /\ whole => at[k] - at[n] <= Len(w)

Streams(w, t, s, cl, k, reading, whole, v, at) ==
    /\ LaidOut(v, at, k) /\ Carry(v, s, cl, k) /\ ReadOf(v, t, k)
    /\ Len(t) <= k \/ k < Len(s)
    /\ reading /\ Len(t) <= k => Ahead(w, v, at, Len(t), k, Len(s), whole)

Stream(w, t, s, cl, k, reading, whole) ==
    \E v, at : Streams(w, t, s, cl, k, reading, whole, v, at)

\* Where the bytes of a packet are.
LEMMA Within ==
    ASSUME NEW v, NEW at, NEW k \in Nat, LaidOut(v, at, k), NEW n \in 0..k,
           NEW j \in n + 1..k, NEW i \in 1..Len(v[j])
    PROVE  at[j - 1] - at[n] + i \in 1..at[k] - at[n]
<1>1. /\ j \in 1..k /\ j - 1 \in 0..k /\ j \in 0..k /\ k \in 0..k /\ n <= j - 1 /\ j <= k
  OBVIOUS
<1>2. /\ at[j - 1] \in Nat /\ at[n] \in Nat /\ at[k] \in Nat /\ at[j] \in Nat
      /\ at[n] <= at[j - 1] /\ at[j] <= at[k]
      /\ at[j] = at[j - 1] + Len(v[j]) /\ v[j] \in Seq(Byte)
  BY <1>1 DEF LaidOut
<1>3. Len(v[j]) \in Nat
  BY <1>2, LenProperties
<1> DEFINE a == at[j - 1]
           b == at[n]
           c == at[k]
           d == at[j]
           l == Len(v[j])
<1>4. /\ a \in Nat /\ b \in Nat /\ c \in Nat /\ d \in Nat /\ l \in Nat /\ i \in 1..l
      /\ b <= a /\ d <= c /\ d = a + l
  BY <1>2, <1>3
<1> HIDE DEF a, b, c, d, l
<1>5. a - b + i \in 1..c - b
  BY <1>4
<1> QED
  BY <1>5 DEF a, b, c

\* A connection over which nothing was sent yet.
LEMMA NewStream ==
    ASSUME NEW w
    PROVE  /\ \A whole : Stream(w, <<>>, <<>>, 0, 0, FALSE, whole)
           /\ \A whole : Stream(<<>>, <<>>, <<>>, 0, 0, TRUE, whole)
<1> DEFINE at == [j \in {0} |-> 0]
<1>1. Len(<<>>) = 0 /\ at[0] = 0
  OBVIOUS
<1>2. LaidOut(<<>>, at, 0) /\ Carry(<<>>, <<>>, 0, 0) /\ ReadOf(<<>>, <<>>, 0)
  BY <1>1 DEF LaidOut, Carry, ReadOf
<1>3. \A whole : Ahead(<<>>, <<>>, at, 0, 0, 0, whole)
  BY <1>1 DEF Ahead, Continue
<1> HIDE DEF at
<1> QED
  BY <1>1, <1>2, <1>3 DEF Stream, Streams

\* A packet is read: of the one that is next, whole.
LEMMA TakeStream ==
    ASSUME NEW w \in Seq(Byte), NEW t, IsSequence(t), NEW s \in Seq(Nat), NEW cl,
           NEW k \in Nat, k <= Len(s), NEW whole \in BOOLEAN,
           Stream(w, t, s, cl, k, TRUE, whole),
           NEW packet, packet = parsePacket(w, LoginZone), packet.kind = "packet"
    PROVE  Stream(SubSeq(w, packet.size + 1, Len(w)), Append(t, packet), s, cl, k,
                  TRUE, whole)
<1> DEFINE n == Len(t)
           r == SubSeq(w, packet.size + 1, Len(w))
           u == Append(t, packet)
<1>1. PICK v, at : Streams(w, t, s, cl, k, TRUE, whole, v, at)
  BY DEF Stream
<1>2. /\ LaidOut(v, at, k) /\ Carry(v, s, cl, k) /\ ReadOf(v, t, k)
      /\ n <= k \/ k < Len(s)
      /\ n <= k => Ahead(w, v, at, n, k, Len(s), whole)
  BY <1>1 DEF Streams
<1>3. /\ n \in Nat /\ Len(s) \in Nat /\ Len(w) \in Nat
      /\ Len(u) = n + 1 /\ u[n + 1] = packet /\ \A i \in 1..n : u[i] = t[i]
  BY AppendToSequence, LengthType, LenProperties
<1>4. packet.size \in 1..Len(w)
  BY PacketIsWithin
<1>5. /\ Len(r) = Len(w) - packet.size
      /\ \A i \in 1..Len(w) - packet.size : r[i] = w[packet.size + i]
  <2>1. packet.size \in Nat /\ packet.size <= Len(w)
    BY <1>3, <1>4
  <2> QED
    BY <2>1, CutBytes
<1> HIDE DEF n, r, u
<1>6. CASE k < n
  <2>1. k < Len(s) /\ ~(n + 1 <= k)
    BY <1>2, <1>3, <1>6
  <2>2. ReadOf(v, u, k)
    <3> SUFFICES ASSUME NEW i \in 1..Len(u), i <= k
                 PROVE  u[i] = parsePacket(v[i], LoginZone) /\ u[i].kind = "packet"
      BY DEF ReadOf
    <3>1. i \in 1..n /\ u[i] = t[i]
      BY <1>3, <1>6
    <3> QED
      BY <1>2, <3>1 DEF ReadOf, n
  <2> QED
    BY <1>2, <1>3, <2>1, <2>2 DEF Stream, Streams, r, u
<1>7. CASE k = n
  <2>1. /\ k = Len(s) => Len(w) <= at[k] - at[n]
        /\ at[k] \in Nat
    BY <1>2, <1>3, <1>7 DEF Ahead, LaidOut
  <2>2. k < Len(s)
    BY <1>3, <1>4, <1>7, <2>1
  <2>3. ReadOf(v, u, k)
    <3> SUFFICES ASSUME NEW i \in 1..Len(u), i <= k
                 PROVE  u[i] = parsePacket(v[i], LoginZone) /\ u[i].kind = "packet"
      BY DEF ReadOf
    <3>1. i \in 1..n /\ u[i] = t[i]
      BY <1>3, <1>7
    <3> QED
      BY <1>2, <3>1 DEF ReadOf, n
  <2>4. ~(n + 1 <= k)
    BY <1>3, <1>7
  <2> QED
    BY <1>2, <1>3, <2>2, <2>3, <2>4 DEF Stream, Streams, r, u
<1>8. CASE n < k
  <2> DEFINE p == v[n + 1]
             a == at[n]
             b == at[n + 1]
             z == packet.size
  <2>1. /\ n + 1 \in 1..k /\ n \in 0..k /\ n + 1 \in 0..k /\ k \in 0..k
        /\ (n + 1) - 1 = n
    BY <1>3, <1>8
  <2>2. /\ p \in Seq(Byte) /\ Framed(p) /\ Len(p) \in Nat
        /\ a \in Nat /\ b \in Nat /\ at[k] \in Nat /\ b = a + Len(p)
    <3>1. at[n + 1] = at[(n + 1) - 1] + Len(p)
      BY <1>2, <2>1 DEF LaidOut
    <3> QED
      BY <1>2, <2>1, <3>1, LenProperties DEF LaidOut
  <2>3. /\ Continue(w, v, at, n, k)
        /\ k = Len(s) => Len(w) <= at[k] - a
        /\ whole => at[k] - a <= Len(w)
    BY <1>2, <1>3, <1>8 DEF Ahead
  <2>4. \A i \in 1..Len(p) : i <= Len(w) => w[i] = p[i]
    <3> SUFFICES ASSUME NEW i \in 1..Len(p), i <= Len(w)
                 PROVE  w[i] = p[i]
      OBVIOUS
    <3>1. n + 1 \in n + 1..k /\ at[(n + 1) - 1] - at[n] + i = i
      BY <1>3, <1>8, <2>1, <2>2
    <3> QED
      BY <2>3, <3>1 DEF Continue
  <2>5. packet = parsePacket(p, LoginZone) /\ z = Len(p) /\ Len(p) <= Len(w)
    BY <2>2, <2>4, FramedReads DEF IsWhole
  <2>6. ReadOf(v, u, k)
    <3> SUFFICES ASSUME NEW i \in 1..Len(u), i <= k
                 PROVE  u[i] = parsePacket(v[i], LoginZone) /\ u[i].kind = "packet"
      BY DEF ReadOf
    <3>1. i \in 1..n \/ i = n + 1
      BY <1>3
    <3> QED
      BY <1>2, <1>3, <2>5, <3>1 DEF ReadOf, n
  <2>7. Continue(r, v, at, n + 1, k)
    <3> SUFFICES ASSUME NEW j \in (n + 1) + 1..k, NEW i \in 1..Len(v[j]),
                        at[j - 1] - b + i <= Len(r)
                 PROVE  r[at[j - 1] - b + i] = v[j][i]
      BY DEF Continue
    <3> DEFINE c == at[j - 1]
    <3>1. /\ j - 1 \in 0..k /\ j \in n + 1..k /\ j \in 1..k /\ n + 1 <= j - 1
      BY <1>3, <1>8
    <3>2. c \in Nat /\ b <= c /\ v[j] \in Seq(Byte)
      BY <1>2, <2>1, <3>1 DEF LaidOut
    <3>3. i \in Nat \ {0}
      BY <3>2, LenProperties
    <3> HIDE DEF c, a, b, z, p
    <3>4. /\ c - b + i \in 1..Len(w) - z /\ z + (c - b + i) = c - a + i
          /\ c - a + i <= Len(w)
      <4>1. /\ a \in Nat /\ b \in Nat /\ c \in Nat /\ z \in Nat /\ i \in Nat \ {0}
            /\ b = a + z /\ b <= c /\ c - b + i <= Len(w) - z /\ Len(w) \in Nat
        BY <1>3, <1>5, <2>2, <2>5, <3>2, <3>3 DEF z, c
      <4> QED
        BY <4>1
    <3>5. w[c - a + i] = v[j][i]
      BY <2>3, <3>1, <3>4 DEF Continue, a, c
    <3>6. r[c - b + i] = w[z + (c - b + i)]
      BY <1>5, <3>4 DEF z
    <3> QED
      BY <3>4, <3>5, <3>6 DEF c
  <2>8. /\ k = Len(s) => Len(r) <= at[k] - b
        /\ whole => at[k] - b <= Len(r)
    <3> DEFINE e == at[k]
    <3>1. Len(r) = Len(w) - z
      BY <1>5
    <3>2. /\ a \in Nat /\ b \in Nat /\ e \in Nat /\ z \in Nat /\ b = a + z /\ Len(w) \in Nat
      BY <1>3, <2>2, <2>5
    <3> HIDE DEF a, b, z, p, e
    <3>3. (Len(w) <= e - a => Len(r) <= e - b) /\ (e - a <= Len(w) => e - b <= Len(r))
      BY <3>1, <3>2
    <3> QED
      BY <2>3, <3>3, Zenon DEF e, a
  <2>9. Ahead(r, v, at, n + 1, k, Len(s), whole)
    BY <2>7, <2>8 DEF Ahead
  <2>10. Streams(r, u, s, cl, k, TRUE, whole, v, at)
    BY <1>2, <1>3, <2>1, <2>6, <2>9 DEF Streams
  <2> QED
    BY <2>10 DEF Stream, r, u
<1> QED
  <2>1. k < n \/ k = n \/ n < k
    BY <1>3
  <2> QED
    BY <2>1, <1>6, <1>7, <1>8

\* Reading ends, or goes on.
LEMMA MoveStream ==
    ASSUME NEW w, NEW t, NEW s, NEW cl, NEW k,
           NEW reading, NEW whole, NEW goes, goes => reading,
           Stream(w, t, s, cl, k, reading, whole)
    PROVE  Stream(w, t, s, cl, k, goes, whole)
  BY DEF Stream, Streams

\* Bytes are lost, or none are.
LEMMA CutStream ==
    ASSUME NEW w \in Seq(Byte), NEW x \in Seq(Byte), Begins(x, w), NEW t, IsSequence(t),
           NEW s \in Seq(Nat), NEW cl, NEW k \in Nat,
           NEW reading, NEW whole,
           Stream(w, t, s, cl, k, reading, whole)
    PROVE  Stream(x, t, s, cl, k, reading, FALSE)
<1> DEFINE n == Len(t)
<1>1. PICK v, at : Streams(w, t, s, cl, k, reading, whole, v, at)
  BY DEF Stream
<1>2. n \in Nat /\ Len(w) \in Nat /\ Len(x) \in Nat /\ Len(x) <= Len(w)
  BY LengthType, LenProperties DEF Begins
<1>3. ASSUME reading, n <= k PROVE Ahead(x, v, at, n, k, Len(s), FALSE)
  <2>1. Ahead(w, v, at, n, k, Len(s), whole) /\ LaidOut(v, at, k)
    BY <1>1, <1>3 DEF Streams
  <2>2. k = Len(s) => Len(x) <= at[k] - at[n]
    <3>1. at[k] \in Nat /\ at[n] \in Nat
      BY <1>2, <1>3, <2>1 DEF LaidOut
    <3> QED
      BY <1>2, <2>1, <3>1 DEF Ahead
  <2>3. Continue(x, v, at, n, k)
    <3> SUFFICES ASSUME NEW j \in n + 1..k, NEW i \in 1..Len(v[j]),
                        at[j - 1] - at[n] + i <= Len(x)
                 PROVE  x[at[j - 1] - at[n] + i] = v[j][i]
      BY DEF Continue
    <3> DEFINE y == at[j - 1] - at[n] + i
    <3>0. n \in 0..k
      BY <1>2, <1>3
    <3>1. y \in 1..at[k] - at[n]
      BY <2>1, <3>0, Within
    <3>2. y \in Nat \ {0} /\ y <= Len(x)
      BY <3>1
    <3> HIDE DEF y
    <3>3. y \in 1..Len(x) /\ y <= Len(w)
      BY <1>2, <3>2
    <3>4. x[y] = w[y]
      BY <3>3 DEF Begins
    <3>5. w[y] = v[j][i]
      BY <2>1, <3>3 DEF Ahead, Continue, y
    <3> QED
      BY <3>4, <3>5 DEF y
  <2> QED
    BY <2>2, <2>3 DEF Ahead
<1>4. Streams(x, t, s, cl, k, reading, FALSE, v, at)
  BY <1>1, <1>3 DEF Streams
<1> QED
  BY <1>4 DEF Stream

\* A packet is sent behind one that is not known.
LEMMA SendUnknown ==
    ASSUME NEW w \in Seq(Byte), NEW p \in Seq(Byte), NEW t, IsSequence(t),
           NEW s \in Seq(Nat), NEW m \in Nat, NEW cl, NEW k \in Nat, k <= Len(s), NEW reading,
           Stream(w, t, s, cl, k, reading, TRUE)
    PROVE  Stream(w \o p, t, Append(s, m), cl, k, reading, TRUE)
<1> DEFINE n == Len(t)
           x == w \o p
           q == Append(s, m)
<1>0. \A a, b, c \in Nat : \A y \in 1..a - b : a - b <= c => y \in 1..c /\ y <= c
  OBVIOUS
<1>1. PICK v, at : Streams(w, t, s, cl, k, reading, TRUE, v, at)
  BY DEF Stream
<1>2. /\ n \in Nat /\ Len(w) \in Nat /\ Len(p) \in Nat /\ Len(x) = Len(w) + Len(p)
      /\ \A i \in 1..Len(w) : x[i] = w[i]
      /\ Len(s) \in Nat /\ Len(q) = Len(s) + 1 /\ \A i \in 1..Len(s) : q[i] = s[i]
  BY LengthType, LenProperties, ConcatBytes, AppendProperties
<1> HIDE DEF x, q
<1>3. ASSUME reading, n <= k PROVE Ahead(x, v, at, n, k, Len(q), TRUE)
  <2>1. Ahead(w, v, at, n, k, Len(s), TRUE) /\ LaidOut(v, at, k)
    BY <1>1, <1>3 DEF Streams
  <2>2. at[k] \in Nat /\ at[n] \in Nat /\ at[k] - at[n] <= Len(w)
    BY <1>2, <1>3, <2>1 DEF LaidOut, Ahead
  <2>3. k # Len(q) /\ at[k] - at[n] <= Len(x)
    BY <1>2, <2>2
  <2>4. Continue(x, v, at, n, k)
    <3> SUFFICES ASSUME NEW j \in n + 1..k, NEW i \in 1..Len(v[j])
                 PROVE  x[at[j - 1] - at[n] + i] = v[j][i]
      BY DEF Continue
    <3> DEFINE y == at[j - 1] - at[n] + i
    <3>0. n \in 0..k
      BY <1>2, <1>3
    <3>1. y \in 1..at[k] - at[n]
      BY <2>1, <3>0, Within
    <3> HIDE DEF y
    <3>2. y \in 1..Len(w) /\ y <= Len(w)
      BY <1>0, <1>2, <2>2, <3>1, Zenon
    <3>3. w[y] = v[j][i]
      BY <2>1, <3>2 DEF Ahead, Continue, y
    <3> QED
      BY <1>2, <3>2, <3>3 DEF y
  <2> QED
    BY <2>3, <2>4 DEF Ahead
<1>4. Carry(v, q, cl, k)
  <2> SUFFICES ASSUME NEW j \in 1..k
               PROVE  /\ v[j] \in {Packed(q[j])} \cup Damaged(Packed(q[j]))
                      /\ j <= cl => v[j] = Packed(q[j])
    BY DEF Carry
  <2>1. q[j] = s[j]
    BY <1>2
  <2> QED
    BY <1>1, <2>1 DEF Streams, Carry
<1>5. k < Len(q)
  BY <1>2
<1>6. Streams(x, t, q, cl, k, reading, TRUE, v, at)
  BY <1>1, <1>3, <1>4, <1>5 DEF Streams
<1> QED
  BY <1>6 DEF Stream, x, q

\* A packet is sent where all before it are known.
LEMMA SendStream ==
    ASSUME NEW w \in Seq(Byte), NEW m \in Nat, NEW p \in Seq(Byte), Framed(p),
           p \in {Packed(m)} \cup Damaged(Packed(m)),
           NEW t, IsSequence(t), NEW s \in Seq(Nat), NEW cl \in Nat, NEW d \in Nat,
           d = cl \/ (cl = Len(s) /\ d = Len(s) + 1 /\ p = Packed(m)), cl <= Len(s),
           NEW reading, Stream(w, t, s, cl, Len(s), reading, TRUE)
    PROVE  Stream(w \o p, t, Append(s, m), d, Len(s) + 1, reading, TRUE)
<1> DEFINE n == Len(t)
           k == Len(s)
           x == w \o p
           q == Append(s, m)
<1>0. /\ \A a, b \in Nat : \A j \in a + 1..b : j \in 1..b /\ j - 1 \in 0..b
      /\ \A a, b, c \in Nat : a <= b => a <= b + c
  OBVIOUS
<1>1. PICK v, at : Streams(w, t, s, cl, k, reading, TRUE, v, at)
  BY DEF Stream
<1>2. /\ n \in Nat /\ k \in Nat /\ Len(w) \in Nat /\ Len(p) \in Nat
      /\ Len(x) = Len(w) + Len(p)
      /\ \A i \in 1..Len(w) : x[i] = w[i]
      /\ \A i \in 1..Len(p) : x[Len(w) + i] = p[i]
      /\ Len(q) = k + 1 /\ q[k + 1] = m /\ \A i \in 1..k : q[i] = s[i]
  BY LengthType, LenProperties, ConcatBytes, AppendProperties
<1>3. /\ LaidOut(v, at, k) /\ Carry(v, s, cl, k) /\ ReadOf(v, t, k)
      /\ n <= k
      /\ reading => Ahead(w, v, at, n, k, k, TRUE)
  <2>1. n <= k \/ k < k
    BY <1>1 DEF Streams
  <2>2. n <= k
    BY <1>2, <2>1
  <2> QED
    BY <1>1, <2>2, Zenon DEF Streams
<1> DEFINE v2 == [j \in 1..k + 1 |-> IF j <= k THEN v[j] ELSE p]
           at2 == [j \in 0..k + 1 |-> IF j <= k THEN at[j] ELSE at[k] + Len(p)]
<1>4. /\ \A j \in 1..k : v2[j] = v[j]
      /\ v2[k + 1] = p
      /\ \A j \in 0..k : at2[j] = at[j]
      /\ at2[k + 1] = at[k] + Len(p)
  BY <1>2
<1> HIDE DEF k, x, q, v2, at2
<1>5. at[k] \in Nat /\ at[n] \in Nat /\ n \in 0..k /\ k \in 0..k
  BY <1>2, <1>3 DEF LaidOut
<1>6. LaidOut(v2, at2, k + 1)
  <2>1. \A j \in 1..k + 1 : v2[j] \in Seq(Byte) /\ Framed(v2[j])
    <3> SUFFICES ASSUME NEW j \in 1..k + 1 PROVE v2[j] \in Seq(Byte) /\ Framed(v2[j])
      OBVIOUS
    <3>1. j \in 1..k \/ j = k + 1
      BY <1>2
    <3> QED
      BY <1>3, <1>4, <3>1 DEF LaidOut
  <2>2. \A j \in 0..k + 1 : at2[j] \in Nat
    <3> SUFFICES ASSUME NEW j \in 0..k + 1 PROVE at2[j] \in Nat
      OBVIOUS
    <3>1. j \in 0..k \/ j = k + 1
      BY <1>2
    <3>2. at[k] + Len(p) \in Nat
      BY <1>2, <1>5
    <3> QED
      BY <1>3, <1>4, <3>1, <3>2 DEF LaidOut
  <2>3. \A j \in 1..k + 1 : at2[j] = at2[j - 1] + Len(v2[j])
    <3> SUFFICES ASSUME NEW j \in 1..k + 1 PROVE at2[j] = at2[j - 1] + Len(v2[j])
      OBVIOUS
    <3>1. CASE j \in 1..k
      <4>1. j \in 0..k /\ j - 1 \in 0..k
        BY <1>2, <3>1
      <4> QED
        BY <1>3, <1>4, <3>1, <4>1 DEF LaidOut
    <3>2. CASE j = k + 1
      <4>1. j - 1 = k
        BY <1>2, <3>2
      <4> QED
        BY <1>4, <1>5, <3>2, <4>1
    <3>3. j \in 1..k \/ j = k + 1
      BY <1>2
    <3> QED
      BY <3>1, <3>2, <3>3
  <2>4. \A i, j \in 0..k + 1 : i <= j => at2[i] <= at2[j]
    <3> SUFFICES ASSUME NEW i \in 0..k + 1, NEW j \in 0..k + 1, i <= j
                 PROVE  at2[i] <= at2[j]
      OBVIOUS
    <3>1. \/ i \in 0..k /\ j \in 0..k
          \/ i \in 0..k /\ j = k + 1
          \/ i = k + 1 /\ j = k + 1
      BY <1>2
    <3>2. CASE i \in 0..k /\ j \in 0..k
      BY <1>3, <1>4, <3>2 DEF LaidOut
    <3>3. CASE i \in 0..k /\ j = k + 1
      <4>1. at[i] <= at[k] /\ at[i] \in Nat
        BY <1>3, <1>5, <3>3 DEF LaidOut
      <4>2. at[i] <= at[k] + Len(p)
        BY <1>0, <1>2, <1>5, <4>1, Zenon
      <4> QED
        BY <1>4, <3>3, <4>2
    <3>4. CASE i = k + 1 /\ j = k + 1
      BY <2>2, <3>4
    <3> QED
      BY <3>1, <3>2, <3>3, <3>4
  <2> QED
    BY <2>1, <2>2, <2>3, <2>4 DEF LaidOut
<1>7. Carry(v2, q, d, k + 1)
  <2> SUFFICES ASSUME NEW j \in 1..k + 1
               PROVE  /\ v2[j] \in {Packed(q[j])} \cup Damaged(Packed(q[j]))
                      /\ j <= d => v2[j] = Packed(q[j])
    BY DEF Carry
  <2>1. CASE j \in 1..k
    <3>1. j <= d => j <= cl
      BY <1>2, <2>1 DEF k
    <3> QED
      BY <1>2, <1>3, <1>4, <2>1, <3>1 DEF Carry
  <2>2. CASE j = k + 1
    <3>1. j <= d => p = Packed(m)
      BY <1>2, <2>2 DEF k
    <3> QED
      BY <1>2, <1>4, <2>2, <3>1
  <2>3. j \in 1..k \/ j = k + 1
    BY <1>2
  <2> QED
    BY <2>1, <2>2, <2>3
<1>8. ReadOf(v2, t, k + 1)
  <2> SUFFICES ASSUME NEW i \in 1..Len(t)
               PROVE  t[i] = parsePacket(v2[i], LoginZone) /\ t[i].kind = "packet"
    BY DEF ReadOf
  <2>1. i \in 1..k /\ i <= k
    BY <1>2, <1>3
  <2> QED
    BY <1>3, <1>4, <2>1 DEF ReadOf
<1>9. ASSUME reading PROVE Ahead(x, v2, at2, n, k + 1, Len(q), TRUE)
  <2>1. /\ Continue(w, v, at, n, k) /\ Len(w) <= at[k] - at[n] /\ at[k] - at[n] <= Len(w)
    BY <1>3, <1>9 DEF Ahead
  <2>2. Len(w) = at[k] - at[n]
    BY <1>2, <1>5, <2>1
  <2>3. at2[k + 1] - at2[n] = Len(x)
    BY <1>2, <1>4, <1>5, <2>2
  <2>4. Continue(x, v2, at2, n, k + 1)
    <3> SUFFICES ASSUME NEW j \in n + 1..k + 1, NEW i \in 1..Len(v2[j])
                 PROVE  x[at2[j - 1] - at2[n] + i] = v2[j][i]
      BY DEF Continue
    <3>1. CASE j \in n + 1..k
      <4> DEFINE y == at[j - 1] - at[n] + i
      <4>1. j \in 1..k /\ j - 1 \in 0..k
        BY <1>0, <1>2, <3>1, Zenon
      <4>2. i \in 1..Len(v[j]) /\ at2[j - 1] = at[j - 1] /\ at2[n] = at[n] /\ v2[j] = v[j]
        BY <1>4, <1>5, <4>1
      <4>3. y \in 1..at[k] - at[n]
        BY <1>2, <1>3, <1>5, <3>1, <4>2, Within
      <4> HIDE DEF y
      <4>4. y \in 1..Len(w) /\ y <= Len(w)
        BY <1>2, <2>2, <4>3
      <4>5. w[y] = v[j][i]
        BY <2>1, <3>1, <4>2, <4>4 DEF Continue, y
      <4> QED
        BY <1>2, <4>2, <4>4, <4>5 DEF y
    <3>2. CASE j = k + 1
      <4>1. v2[j] = p /\ i \in 1..Len(p) /\ j - 1 = k
        BY <1>2, <1>4, <3>2
      <4>2. at2[j - 1] = at[k] /\ at2[n] = at[n]
        BY <1>4, <1>5, <4>1
      <4>3. at2[j - 1] - at2[n] + i = Len(w) + i
        BY <2>2, <4>2
      <4> QED
        BY <1>2, <4>1, <4>3
    <3>3. j \in n + 1..k \/ j = k + 1
      BY <1>2, <1>3
    <3> QED
      BY <3>1, <3>2, <3>3
  <2>5. at2[k + 1] \in Nat /\ at2[n] \in Nat /\ Len(x) \in Nat
    <3>1. at2[k + 1] = at[k] + Len(p) /\ at2[n] = at[n] /\ Len(x) = Len(w) + Len(p)
      BY <1>2, <1>4, <1>5
    <3>2. at[k] \in Nat /\ at[n] \in Nat /\ Len(w) \in Nat /\ Len(p) \in Nat
      BY <1>2, <1>5
    <3> QED
      BY <3>1, <3>2
  <2>6. Len(x) <= at2[k + 1] - at2[n] /\ at2[k + 1] - at2[n] <= Len(x)
    BY <2>3, <2>5
  <2> QED
    BY <2>4, <2>6 DEF Ahead
<1>10. n <= k + 1
  BY <1>2, <1>3
<1>11. Streams(x, t, q, d, k + 1, reading, TRUE, v2, at2)
  BY <1>6, <1>7, <1>8, <1>9, <1>10 DEF Streams, n
<1>12. Stream(x, t, q, d, k + 1, reading, TRUE)
  BY <1>11 DEF Stream
<1> QED
  BY <1>12 DEF x, q, k

\* What the stream of one connection says of a packet that was read of it.
ReadAsSent(t, s, cl, k) ==
    \A i \in 1..Len(t) : i <= k =>
        \E v \in {Packed(s[i])} \cup Damaged(Packed(s[i])) :
            /\ t[i] = parsePacket(v, LoginZone) /\ t[i].kind = "packet"
            /\ i <= cl => v = Packed(s[i])

\* No more packets are read than were sent, if all are known, and those that are
\* known are read as they were sent.
LEMMA StreamReads ==
    ASSUME NEW w, NEW t, NEW s \in Seq(Nat), NEW cl, NEW k \in Nat, k <= Len(s), 
           IsSequence(t), NEW reading, NEW whole, Stream(w, t, s, cl, k, reading, whole)
    PROVE  /\ k = Len(s) => Len(t) <= Len(s)
           /\ ReadAsSent(t, s, cl, k)
<1>1. PICK v, at : Streams(w, t, s, cl, k, reading, whole, v, at)
  BY DEF Stream
<1>2. Len(t) \in Nat /\ Len(s) \in Nat
  BY LengthType, LenProperties
<1>3. Carry(v, s, cl, k) /\ ReadOf(v, t, k) /\ (Len(t) <= k \/ k < Len(s))
  BY <1>1 DEF Streams
<1>4. ASSUME NEW i \in 1..Len(t), i <= k
      PROVE  \E x \in {Packed(s[i])} \cup Damaged(Packed(s[i])) :
                    /\ t[i] = parsePacket(x, LoginZone) /\ t[i].kind = "packet"
                    /\ i <= cl => x = Packed(s[i])
  <2>1. i \in 1..k
    BY <1>2, <1>4
  <2>2. /\ v[i] \in {Packed(s[i])} \cup Damaged(Packed(s[i]))
        /\ i <= cl => v[i] = Packed(s[i])
    BY <1>3, <2>1 DEF Carry
  <2>3. t[i] = parsePacket(v[i], LoginZone) /\ t[i].kind = "packet"
    BY <1>3, <1>4 DEF ReadOf
  <2> QED
    BY <2>2, <2>3
<1>5. k = Len(s) => Len(t) <= Len(s)
  BY <1>2, <1>3
<1> QED
  BY <1>4, <1>5 DEF ReadAsSent

-----------------------------------------------------------------------------

\* A message as it is sent, or damaged, is bytes from which no more is read than
\* they are.
LEMMA PackedAreBytes ==
    ASSUME NEW m \in DOMAIN Messages
    PROVE  /\ Packed(m) \in Seq(Byte) /\ Framed(Packed(m)) /\ m \in Nat
           /\ \A p \in Damaged(Packed(m)) : p \in Seq(Byte) /\ (DamageIsSeen => Framed(p))
<1>1. Packed(m) \in Seq(Byte) /\ m \in Nat
  BY Gt06Assumption, Positions DEF Packed
<1>2. Framed(Packed(m))
  BY Gt06Codec DEF Framed
<1>3. ASSUME NEW p \in Damaged(Packed(m)) PROVE p \in Seq(Byte)
  BY <1>1, <1>3, NextByte DEF Damaged
<1>4. ASSUME NEW p \in Damaged(Packed(m)), DamageIsSeen PROVE Framed(p)
  BY <1>4, Zenon DEF DamageIsSeen
<1> QED
  BY <1>1, <1>2, <1>3, <1>4

\* How many of the packets sent are known.
Known(s, cl) == IF DamageIsSeen THEN Len(s) ELSE cl

\* Does the handler go on to read packets?
Reading(p) == p \in {"read", "reply", "queue"}

\* What is true of the bytes of one connection at place p: `mine` is the
\* device's own connection, on which it awaits a.
Frames(p, w, z, t, s, cl, d, mine, a) ==
    /\ cl <= Len(s)
    /\ p \in {"new", "login"} => s = <<>> /\ t = <<>> /\ d = <<>>
    /\ p = "login" => Begins(w, LoginPacket)
    /\ mine => p # "new" /\ (a # "login" => p # "login")
    /\ Reading(p) => z = LoginZone
    /\ Stream(w, t, s, cl, Known(s, cl), Reading(p), mine)

\* How many packets are known is a number, between those known to be undamaged
\* and all of them.
LEMMA KnownType ==
    ASSUME NEW s \in Seq(DOMAIN Messages), NEW cl \in Nat, cl <= Len(s)
    PROVE  /\ s \in Seq(Nat) /\ Len(s) \in Nat
           /\ Known(s, cl) \in Nat /\ cl <= Known(s, cl) /\ Known(s, cl) <= Len(s)
<1>1. DOMAIN Messages \subseteq Nat
  BY Gt06Assumption, Positions
<1>2. s \in Seq(Nat) /\ Len(s) \in Nat
  BY <1>1, SeqMonotonic, LenProperties
<1> QED
  BY <1>2 DEF Known

\* Login: of the login packet, and of nothing that may follow it.
LEMMA LoginFrames ==
    ASSUME NEW w \in Seq(Byte), NEW z, NEW t, NEW s \in Seq(DOMAIN Messages), NEW cl \in Nat,
           NEW d, NEW mine, NEW a, Frames("login", w, z, t, s, cl, d, mine, a),
           NEW packet, packet = parsePacket(w, 0), packet.kind = "packet", NEW e
    PROVE  Frames("read", SubSeq(w, packet.size + 1, Len(w)), packet.information.zone,
                  t, s, cl, e, mine, a)
<1>1. s = <<>> /\ t = <<>> /\ Begins(w, LoginPacket) /\ cl <= Len(s)
  BY DEF Frames
<1>2. cl = 0 /\ Len(s) = 0 /\ Known(s, cl) = 0
  BY <1>1 DEF Known
<1>3. parsePacket(LoginPacket, 0) = packet
  <2>1. packet # Waits
    BY DEF Waits
  <2> QED
    BY <1>1, <2>1, ParseBeginning, Gt06Assumption
<1>4. packet.information.zone = LoginZone /\ packet.size = Len(LoginPacket)
  BY <1>3, Gt06Codec DEF LoginZone, IsWhole
<1>5. packet.size \in 1..Len(w) /\ Len(w) \in Nat /\ Len(w) <= Len(LoginPacket)
  BY <1>1, PacketIsWithin, LenProperties DEF Begins
<1>6. SubSeq(w, packet.size + 1, Len(w)) = <<>>
  <2>1. packet.size + 1 \in Int /\ Len(w) \in Int /\ Len(w) < packet.size + 1
    BY <1>4, <1>5
  <2> QED
    BY <2>1, SubSeqEmpty
<1>7. Stream(<<>>, <<>>, <<>>, 0, 0, TRUE, mine)
  BY NewStream
<1>8. Reading("read") /\ "read" # "new" /\ "read" # "login"
  BY DEF Reading
<1>9. Stream(SubSeq(w, packet.size + 1, Len(w)), t, s, cl, Known(s, cl), Reading("read"), mine)
  <2>1. Reading("read") = TRUE
    BY <1>8 DEF Reading
  <2> QED
    BY <1>1, <1>2, <1>6, <1>7, <2>1
<1> QED
  BY <1>1, <1>4, <1>8, <1>9, Zenon DEF Frames

\* TakePacket.
LEMMA TakeFrames ==
    ASSUME NEW w \in Seq(Byte), NEW z, NEW t, IsSequence(t), NEW s \in Seq(DOMAIN Messages),
           NEW cl \in Nat, NEW d, NEW mine \in BOOLEAN, NEW a,
           Frames("read", w, z, t, s, cl, d, mine, a),
           NEW packet, packet = parsePacket(w, z), packet.kind = "packet",
           NEW p \in {"reply", "queue"}
    PROVE  Frames(p, SubSeq(w, packet.size + 1, Len(w)), z, Append(t, packet), s, cl, d,
                  mine, a)
<1>1. /\ cl <= Len(s) /\ z = LoginZone /\ Reading("read") = TRUE /\ Reading(p) = TRUE
      /\ Stream(w, t, s, cl, Known(s, cl), Reading("read"), mine)
  BY DEF Frames, Reading
<1>2. s \in Seq(Nat) /\ Known(s, cl) \in Nat /\ Known(s, cl) <= Len(s)
  BY <1>1, KnownType
<1>3. Stream(SubSeq(w, packet.size + 1, Len(w)), Append(t, packet), s, cl, Known(s, cl),
             TRUE, mine)
  BY <1>1, <1>2, TakeStream
<1>4. p \notin {"new", "login"}
  OBVIOUS
<1> QED
  BY <1>1, <1>3, <1>4, Zenon DEF Frames

\* A step of the handler that reads nothing.
LEMMA MoveFrames ==
    ASSUME NEW w, NEW z, NEW t, NEW s, NEW cl, NEW d, NEW e, NEW mine, NEW a,
           NEW p, NEW q \in {"read", "queue", "ended"}, Reading(q) => Reading(p),
           Frames(p, w, z, t, s, cl, d, mine, a)
    PROVE  Frames(q, w, z, t, s, cl, e, mine, a)
<1>1. /\ cl <= Len(s) /\ (Reading(p) => z = LoginZone)
      /\ Stream(w, t, s, cl, Known(s, cl), Reading(p), mine)
  BY Zenon DEF Frames
<1>2. Stream(w, t, s, cl, Known(s, cl), Reading(q), mine)
  BY <1>1, MoveStream
<1>3. q \notin {"new", "login"} /\ q # "new" /\ q # "login"
  OBVIOUS
<1> QED
  BY <1>1, <1>2, <1>3, Zenon DEF Frames

\* Connect.
LEMMA ConnectFrames ==
    ASSUME NEW w, NEW z, NEW t, NEW s, NEW cl \in Nat, NEW d, NEW mine, NEW a,
           Frames("new", w, z, t, s, cl, d, mine, a)
    PROVE  Frames("login", LoginPacket, z, t, s, cl, d, TRUE, "login")
<1>1. cl <= Len(s) /\ s = <<>> /\ t = <<>> /\ d = <<>>
  BY DEF Frames
<1>2. cl = 0 /\ Known(s, cl) = 0
  BY <1>1 DEF Known
<1>3. Stream(LoginPacket, t, s, cl, Known(s, cl), FALSE, TRUE)
  BY <1>1, <1>2, NewStream
<1>4. Reading("login") = FALSE /\ "login" # "new"
  BY DEF Reading
<1>5. Begins(LoginPacket, LoginPacket)
  BY Gt06Assumption, LenProperties DEF Begins
<1> QED
  BY <1>1, <1>3, <1>4, <1>5 DEF Frames

\* SendMessage: a message more, damaged or not.
LEMMA SendFrames ==
    ASSUME NEW w \in Seq(Byte), NEW z, NEW t, IsSequence(t), NEW s \in Seq(DOMAIN Messages),
           NEW cl \in Nat, NEW d, NEW p, NEW b, b # "login",
           Frames(p, w, z, t, s, cl, d, TRUE, "nothing"),
           NEW m \in DOMAIN Messages, NEW bytes, NEW l,
           bytes \in {Packed(m)} \cup Damaged(Packed(m)),
           l = cl \/ (l = cl + 1 /\ cl = Len(s) /\ bytes = Packed(m)),
           NEW x, x = w \o bytes, NEW q, q = Append(s, m)
    PROVE  Frames(p, x, z, t, q, l, d, TRUE, b)
<1> DEFINE k == Known(s, cl)
<1>1. /\ cl <= Len(s) /\ (Reading(p) => z = LoginZone) /\ p # "new" /\ p # "login"
      /\ Stream(w, t, s, cl, k, Reading(p), TRUE)
  <2>1. "nothing" # "login"
    OBVIOUS
  <2> QED
    BY <2>1, Zenon DEF Frames
<1>2. /\ s \in Seq(Nat) /\ Len(s) \in Nat /\ k \in Nat /\ cl <= k /\ k <= Len(s)
      /\ k = (IF DamageIsSeen THEN Len(s) ELSE cl)
  BY <1>1, KnownType DEF Known
<1>3. /\ m \in Nat /\ bytes \in Seq(Byte)
      /\ bytes \in {Packed(m)} \cup Damaged(Packed(m))
      /\ DamageIsSeen \/ bytes = Packed(m) => Framed(bytes)
  BY PackedAreBytes
<1>4. Len(q) = Len(s) + 1
  BY AppendProperties
<1>5. l \in Nat /\ l <= Len(q) /\ (l = cl \/ (cl = Len(s) /\ l = Len(s) + 1 /\ bytes = Packed(m)))
  BY <1>1, <1>2, <1>4
<1>6. Stream(x, t, q, l, Known(q, l), Reading(p), TRUE)
  <2>1. ASSUME k = Len(s), Framed(bytes), Known(q, l) = Len(s) + 1
        PROVE  Stream(x, t, q, l, Known(q, l), Reading(p), TRUE)
    <3>1. Stream(w, t, s, cl, Len(s), Reading(p), TRUE)
      BY <1>1, <2>1
    <3>2. Stream(x, t, q, l, Len(s) + 1, Reading(p), TRUE)
      BY <1>1, <1>2, <1>3, <1>5, <2>1, <3>1, SendStream
    <3> QED
      BY <2>1, <3>2
  <2>2. CASE DamageIsSeen
    BY <1>2, <1>3, <1>4, <2>1, <2>2 DEF Known
  <2>3. CASE ~DamageIsSeen /\ l # cl
    <3>1. cl = Len(s) /\ l = Len(s) + 1 /\ bytes = Packed(m)
      BY <1>5, <2>3
    <3>2. k = Len(s) /\ Framed(bytes) /\ Known(q, l) = Len(s) + 1
      BY <1>2, <1>3, <2>3, <3>1 DEF Known
    <3> QED
      BY <2>1, <3>2
  <2>4. CASE ~DamageIsSeen /\ l = cl
    <3>1. Stream(x, t, q, cl, k, Reading(p), TRUE)
      BY <1>1, <1>2, <1>3, SendUnknown
    <3>2. Known(q, l) = k
      BY <1>2, <2>4 DEF Known
    <3> QED
      BY <2>4, <3>1, <3>2
  <2> QED
    BY <2>2, <2>3, <2>4
<1>7. p \notin {"new", "login"}
  BY <1>1
<1> QED
  BY <1>1, <1>3, <1>5, <1>6, <1>7, Zenon DEF Frames

\* The device closes the connection, which may lose bytes.
LEMMA CloseFrames ==
    ASSUME NEW w \in Seq(Byte), NEW x \in Seq(Byte), Begins(x, w),
           NEW z, NEW t, IsSequence(t), NEW s \in Seq(DOMAIN Messages),
           NEW cl \in Nat, NEW d, NEW p, NEW a, NEW mine, NEW b,
           Frames(p, w, z, t, s, cl, d, mine, a)
    PROVE  Frames(p, x, z, t, s, cl, d, FALSE, b)
<1>1. /\ cl <= Len(s) /\ Stream(w, t, s, cl, Known(s, cl), Reading(p), mine)
      /\ p \in {"new", "login"} => s = <<>> /\ t = <<>> /\ d = <<>>
      /\ Reading(p) => z = LoginZone
  BY Zenon DEF Frames
<1>2. s \in Seq(Nat) /\ Known(s, cl) \in Nat
  BY <1>1, KnownType
<1>3. Stream(x, t, s, cl, Known(s, cl), Reading(p), FALSE)
  BY <1>1, <1>2, CutStream
<1>4. p = "login" => Begins(x, LoginPacket)
  <2> SUFFICES ASSUME p = "login" PROVE Begins(x, LoginPacket)
    OBVIOUS
  <2>1. Begins(w, LoginPacket)
    BY DEF Frames
  <2> QED
    BY <2>1, Gt06Assumption, LenProperties DEF Begins
<1> QED
  BY <1>1, <1>3, <1>4, Zenon DEF Frames

-----------------------------------------------------------------------------

\* The reply to a packet.
LEMMA ReplyBytes ==
    ASSUME NEW packet, packet.serial \in Seq(Byte), Len(packet.serial) = 2
    PROVE  LET r == sendResponse(packet)
           IN  /\ IsSequence(r) /\ Len(r) = 10
               /\ r[4] = packet.type /\ packet.serial = <<r[5], r[6]>>
<1> DEFINE type == packet.type
           serial == packet.serial
           body == <<5, type>> \o serial
           crc == Put(CrcWanway(body), 2)
           s1 == <<120, 120>> \o body
           s2 == s1 \o crc
           r == s2 \o StopBits
<1>1. IsSequence(serial) /\ Len(serial) = 2 /\ serial = <<serial[1], serial[2]>>
  <2>1. IsSequence(serial)
    BY SequencesAreSequences
  <2>2. serial = <<serial[1], serial[2]>>
    <3>1. /\ <<serial[1], serial[2]>> \in Seq({serial[1], serial[2]})
          /\ serial \in Seq({serial[1], serial[2]})
      BY ElementOfSeq
    <3> QED
      BY <3>1, SeqEqual
  <2> QED
    BY <2>1, <2>2
<1>2. IsSequence(crc) /\ Len(crc) = 2
  BY PutTwo
<1>3. IsSequence(StopBits) /\ Len(StopBits) = 2
  BY TupleOfTwo DEF StopBits
<1> HIDE DEF serial, type, crc
<1>4. /\ IsSequence(body) /\ Len(body) = 4 /\ body[2] = type
      /\ body[3] = serial[1] /\ body[4] = serial[2]
  <2> DEFINE h == <<5, type>>
  <2>1. IsSequence(h) /\ Len(h) = 2 /\ h[2] = type
    BY TupleOfTwo
  <2>2. body = h \o serial
    OBVIOUS
  <2> HIDE DEF h, body
  <2>3. Joins(body, h, serial)
    BY <1>1, <2>1, <2>2, ConcatSequences
  <2>4. body[2] = h[2] /\ body[2 + 1] = serial[1] /\ body[2 + 2] = serial[2]
    BY <1>1, <2>1, <2>3 DEF Joins
  <2> QED
    BY <1>1, <2>1, <2>3, <2>4 DEF Joins
<1> HIDE DEF body
<1>5. /\ IsSequence(s1) /\ Len(s1) = 6 /\ s1[4] = type
      /\ s1[5] = serial[1] /\ s1[6] = serial[2]
  <2> DEFINE h == <<120, 120>>
  <2>1. IsSequence(h) /\ Len(h) = 2
    BY TupleOfTwo
  <2>2. s1 = h \o body
    OBVIOUS
  <2> HIDE DEF h, s1
  <2>3. Joins(s1, h, body)
    BY <1>4, <2>1, <2>2, ConcatSequences
  <2>4. s1[2 + 2] = body[2] /\ s1[2 + 3] = body[3] /\ s1[2 + 4] = body[4]
    BY <1>4, <2>1, <2>3 DEF Joins
  <2> QED
    BY <1>4, <2>1, <2>3, <2>4 DEF Joins
<1> HIDE DEF s1
<1>6. /\ IsSequence(s2) /\ Len(s2) = 8 /\ \A i \in 1..6 : s2[i] = s1[i]
  <2>1. s2 = s1 \o crc
    OBVIOUS
  <2> HIDE DEF s2
  <2>2. Joins(s2, s1, crc)
    BY <1>2, <1>5, <2>1, ConcatSequences
  <2> QED
    BY <1>2, <1>5, <2>2 DEF Joins
<1> HIDE DEF s2
<1>7. IsSequence(r) /\ Len(r) = 10 /\ \A i \in 1..8 : r[i] = s2[i]
  <2>1. r = s2 \o StopBits
    OBVIOUS
  <2> HIDE DEF r
  <2>2. Joins(r, s2, StopBits)
    BY <1>3, <1>6, <2>1, ConcatSequences
  <2> QED
    BY <1>3, <1>6, <2>2 DEF Joins
<1> HIDE DEF r
<1>8. r[4] = type /\ r[5] = serial[1] /\ r[6] = serial[2]
  BY <1>5, <1>6, <1>7
<1>9. r = sendResponse(packet)
  BY DEF sendResponse, r, s2, s1, body, crc, type, serial
<1> QED
  BY <1>1, <1>7, <1>8, <1>9 DEF type, serial

\* The type and the serial number in a reply.
LEMMA ReplyIsFor ==
    ASSUME NEW d, IsSequence(d), Len(d) >= 10, NEW type, NEW n,
           IsReply(Slice(d, 0, 10), type, Put(n, 2))
    PROVE  d[4] = type /\ <<d[5], d[6]>> = Put(n, 2)
<1> DEFINE r == Slice(d, 0, 10)
           h == <<120, 120, 5, type>>
           serial == Put(n, 2)
           f == Slice(r, 0, 6)
<1>1. PICK S : d \in Seq(S)
  BY SequenceOver
<1>2. r \in Seq(S) /\ Len(r) = 10 /\ \A i \in 1..10 : r[i] = d[i]
  <2>1. 0 \in Nat /\ 10 \in Nat /\ 0 + 10 <= Len(d)
    BY LengthType
  <2>2. r \in Seq(S) /\ Len(r) = 10 /\ \A i \in 1..10 : r[i] = d[0 + i]
    BY <1>1, <2>1, SliceProperties
  <2> HIDE DEF r
  <2> QED
    BY <2>2
<1>3. f = h \o serial
  BY DEF IsReply
<1>4. IsSequence(h) /\ Len(h) = 4 /\ h[4] = type
  <2>1. h \in Seq({120, 5, type}) /\ Len(h) = 4 /\ h[4] = type
    OBVIOUS
  <2> QED
    BY <2>1, SequencesAreSequences
<1>5. IsSequence(serial) /\ Len(serial) = 2 /\ serial = <<serial[1], serial[2]>>
  BY PutTwo, TwoElements
<1> HIDE DEF r, h, serial
<1>6. \A i \in 1..6 : f[i] = r[i]
  <2>1. 0 \in Nat /\ 6 \in Nat /\ 0 + 6 <= Len(r) /\ r \in Seq(S)
    BY <1>2
  <2>2. \A i \in 1..6 : f[i] = r[0 + i]
    BY <2>1, SliceProperties
  <2> HIDE DEF f
  <2> QED
    BY <2>2
<1> HIDE DEF f
<1>7. Joins(f, h, serial)
  BY <1>3, <1>4, <1>5, ConcatSequences
<1>8. f[4] = type /\ f[4 + 1] = serial[1] /\ f[4 + 2] = serial[2]
  BY <1>4, <1>5, <1>7 DEF Joins
<1>9. f[4] = d[4] /\ f[5] = d[5] /\ f[6] = d[6]
  BY <1>2, <1>6
<1>10. d[4] = type /\ <<d[5], d[6]>> = serial
  BY <1>5, <1>8, <1>9
<1> QED
  BY <1>10 DEF serial

\* The k-th packet, or one before it, is the heartbeat with a serial number.
AnswersTo(t, k, serial) ==
    \E i \in 1..k : t[i].type = MSG_HeartbeatData /\ t[i].serial = serial

\* The bytes to a device are replies of ten bytes each; that to a heartbeat is
\* to one of the first k packets.
RepliesTo(d, n, t, k) ==
    /\ n \in Nat /\ Len(d) = 10 * n
    /\ \A j \in 0..n - 1 :
         d[10 * j + 4] = MSG_HeartbeatData =>
            AnswersTo(t, k, <<d[10 * j + 5], d[10 * j + 6]>>)

Replies(d, t, k) == IsSequence(d) /\ \E n : RepliesTo(d, n, t, k)

\* The serial numbers can be sent back.
Serials(t) ==
    \A i \in 1..Len(t) : t[i].serial \in Seq(Byte) /\ Len(t[i].serial) = 2

\* Replies to packets are replies to more packets.
LEMMA MoreReplies ==
    ASSUME NEW d, NEW t, NEW k, NEW u, NEW l,
           \A i \in 1..k : i \in 1..l /\ u[i] = t[i],
           Replies(d, t, k)
    PROVE  Replies(d, u, l)
<1>1. \A serial : AnswersTo(t, k, serial) => AnswersTo(u, l, serial)
  BY DEF AnswersTo
<1>2. PICK n : RepliesTo(d, n, t, k)
  BY DEF Replies
<1>3. RepliesTo(d, n, u, l)
  BY <1>1, <1>2, Zenon DEF RepliesTo
<1> QED
  BY <1>3 DEF Replies

\* A reply is written behind the others.
LEMMA AddReply ==
    ASSUME NEW d, NEW t, NEW k, Replies(d, t, k), NEW packet, NEW x,
           packet.serial \in Seq(Byte), Len(packet.serial) = 2,
           packet.type = MSG_HeartbeatData => AnswersTo(t, k, packet.serial),
           x = d \o sendResponse(packet)
    PROVE  Replies(x, t, k)
<1> DEFINE r == sendResponse(packet)
<1>1. IsSequence(r) /\ Len(r) = 10 /\ r[4] = packet.type /\ packet.serial = <<r[5], r[6]>>
  BY ReplyBytes
<1>2. IsSequence(d) /\ x = d \o r
  BY DEF Replies
<1> HIDE DEF r
<1>3. Joins(x, d, r)
  BY <1>1, <1>2, ConcatSequences
<1>4. PICK n : RepliesTo(d, n, t, k)
  BY DEF Replies
<1>5. /\ n \in Nat /\ Len(d) = 10 * n /\ n + 1 \in Nat
      /\ IsSequence(x) /\ Len(x) = 10 * (n + 1)
      /\ \A i \in 1..10 * n : x[i] = d[i]
      /\ \A i \in 1..10 : x[10 * n + i] = r[i]
  <2>1. n \in Nat /\ Len(d) = 10 * n /\ n + 1 \in Nat
    BY <1>4 DEF RepliesTo
  <2>2. /\ IsSequence(x) /\ Len(x) = Len(d) + Len(r)
        /\ \A i \in 1..Len(d) : x[i] = d[i]
        /\ \A i \in 1..Len(r) : x[Len(d) + i] = r[i]
    BY <1>3 DEF Joins
  <2>3. Len(x) = 10 * (n + 1)
    BY <1>1, <2>1, <2>2
  <2>4. \A i \in 1..10 : x[10 * n + i] = r[i]
    <3>1. Len(r) = 10
      BY <1>1
    <3>2. \A i \in 1..10 : x[Len(d) + i] = r[i]
      BY <2>2, <3>1
    <3> QED
      BY <2>1, <3>2
  <2>5. IsSequence(x) /\ \A i \in 1..10 * n : x[i] = d[i]
    BY <2>1, <2>2
  <2> QED
    BY <2>1, <2>3, <2>4, <2>5, Zenon
<1>6. ASSUME NEW j \in 0..(n + 1) - 1, x[10 * j + 4] = MSG_HeartbeatData
      PROVE  AnswersTo(t, k, <<x[10 * j + 5], x[10 * j + 6]>>)
  <2>1. CASE j \in 0..n - 1
    <3>1. /\ 10 * j + 4 \in 1..10 * n /\ 10 * j + 5 \in 1..10 * n
          /\ 10 * j + 6 \in 1..10 * n
      BY <1>5, <2>1
    <3>2. /\ x[10 * j + 4] = d[10 * j + 4] /\ x[10 * j + 5] = d[10 * j + 5]
          /\ x[10 * j + 6] = d[10 * j + 6]
      BY <1>5, <3>1
    <3> QED
      BY <1>4, <1>6, <2>1, <3>2 DEF RepliesTo
  <2>2. CASE j = n
    <3>1. \A i \in 1..10 : x[10 * n + i] = r[i]
      BY <1>5
    <3>2. 4 \in 1..10 /\ 5 \in 1..10 /\ 6 \in 1..10
      OBVIOUS
    <3>3. x[10 * n + 4] = r[4] /\ x[10 * n + 5] = r[5] /\ x[10 * n + 6] = r[6]
      BY <3>1, <3>2, Zenon
    <3> QED
      BY <1>1, <1>6, <2>2, <3>3
  <2>3. j \in 0..n - 1 \/ j = n
    <3>1. n \in Nat
      BY <1>5
    <3> QED
      BY <3>1
  <2> QED
    BY <2>1, <2>2, <2>3
<1>7. RepliesTo(x, n + 1, t, k)
  BY <1>5, <1>6 DEF RepliesTo
<1> QED
  BY <1>5, <1>7 DEF Replies

\* The first reply is read, and is to the packet of its serial number.
LEMMA CutReply ==
    ASSUME NEW d, NEW t, NEW k, Replies(d, t, k), Len(d) >= 10,
           NEW x, x = SubSeq(d, 11, Len(d))
    PROVE  /\ Replies(x, t, k)
           /\ d[4] = MSG_HeartbeatData => AnswersTo(t, k, <<d[5], d[6]>>)
<1>1. IsSequence(d) /\ Len(d) \in Nat /\ 10 \in Nat /\ 10 + 1 = 11
  BY LengthType DEF Replies
<1>2. /\ IsSequence(x) /\ Len(x) = Len(d) - 10
      /\ \A i \in 1..Len(d) - 10 : x[i] = d[10 + i]
  <2>1. \A m \in Nat : m <= Len(d) /\ x = SubSeq(d, m + 1, Len(d)) =>
            /\ IsSequence(x) /\ Len(x) = Len(d) - m
            /\ \A i \in 1..Len(d) - m : x[i] = d[m + i]
    BY <1>1, CutSequence
  <2>2. 10 <= Len(d) /\ x = SubSeq(d, 10 + 1, Len(d))
    BY <1>1
  <2> QED
    BY <1>1, <2>1, <2>2
<1>3. PICK n : RepliesTo(d, n, t, k)
  BY DEF Replies
<1>4. /\ n \in Nat \ {0} /\ n - 1 \in Nat /\ Len(d) = 10 * n /\ Len(x) = 10 * (n - 1)
      /\ \A i \in 1..10 * (n - 1) : x[i] = d[10 + i]
  BY <1>1, <1>2, <1>3 DEF RepliesTo
<1>5. ASSUME NEW j \in 0..(n - 1) - 1, x[10 * j + 4] = MSG_HeartbeatData
      PROVE  AnswersTo(t, k, <<x[10 * j + 5], x[10 * j + 6]>>)
  <2>1. /\ 10 * j + 4 \in 1..10 * (n - 1) /\ 10 * j + 5 \in 1..10 * (n - 1)
        /\ 10 * j + 6 \in 1..10 * (n - 1) /\ j + 1 \in 0..n - 1
        /\ 10 + (10 * j + 4) = 10 * (j + 1) + 4
        /\ 10 + (10 * j + 5) = 10 * (j + 1) + 5
        /\ 10 + (10 * j + 6) = 10 * (j + 1) + 6
    BY <1>4
  <2>2. /\ x[10 * j + 4] = d[10 * (j + 1) + 4] /\ x[10 * j + 5] = d[10 * (j + 1) + 5]
        /\ x[10 * j + 6] = d[10 * (j + 1) + 6]
    BY <1>4, <2>1
  <2> QED
    BY <1>3, <1>5, <2>1, <2>2 DEF RepliesTo
<1>6. RepliesTo(x, n - 1, t, k)
  BY <1>4, <1>5 DEF RepliesTo
<1>7. d[4] = MSG_HeartbeatData => AnswersTo(t, k, <<d[5], d[6]>>)
  <2>1. 0 \in 0..n - 1 /\ 10 * 0 + 4 = 4 /\ 10 * 0 + 5 = 5 /\ 10 * 0 + 6 = 6
    BY <1>4
  <2> QED
    BY <1>3, <2>1 DEF RepliesTo
<1> QED
  BY <1>2, <1>6, <1>7 DEF Replies

\* The messages sent over the device's connection, in order; all but the one
\* that waits for its reply are before the next one.
Ordered(s, n, a) ==
    /\ \A i, j \in 1..Len(s) : i < j => s[i] < s[j]
    /\ a = "reply" => s # <<>> /\ s[Len(s)] = n
    /\ a # "reply" => \A i \in 1..Len(s) : s[i] < n

\* The next message is sent, which may or may not wait for its reply.
LEMMA SendOrdered ==
    ASSUME NEW s \in Seq(Nat), NEW n \in Nat, Ordered(s, n, "nothing"),
           NEW q, q = Append(s, n)
    PROVE  Ordered(q, n, "reply") /\ Ordered(q, n + 1, "nothing")
<1>1. /\ Len(s) \in Nat /\ Len(q) = Len(s) + 1 /\ q[Len(s) + 1] = n
      /\ \A i \in 1..Len(s) : q[i] = s[i]
      /\ \A i \in 1..Len(s) : s[i] \in Nat
  BY AppendProperties, LenProperties, ElementOfSeq
<1>2. \A i \in 1..Len(s) : s[i] < n
  BY DEF Ordered
<1>3. \A i, j \in 1..Len(s) : i < j => s[i] < s[j]
  BY DEF Ordered
<1>4. \A i \in 1..Len(q) : i \in 1..Len(s) \/ i = Len(s) + 1
  BY <1>1
<1>5. \A i, j \in 1..Len(q) : i < j => q[i] < q[j]
  <2> SUFFICES ASSUME NEW i \in 1..Len(q), NEW j \in 1..Len(q), i < j PROVE q[i] < q[j]
    OBVIOUS
  <2>1. i \in 1..Len(s)
    BY <1>1
  <2>2. CASE j \in 1..Len(s)
    BY <1>1, <1>3, <2>1, <2>2
  <2>3. CASE j = Len(s) + 1
    BY <1>1, <1>2, <2>1, <2>3
  <2> QED
    BY <1>4, <2>2, <2>3
<1>6. \A i \in 1..Len(q) : q[i] < n + 1
  <2> SUFFICES ASSUME NEW i \in 1..Len(q) PROVE q[i] < n + 1
    OBVIOUS
  <2>1. CASE i \in 1..Len(s)
    <3>1. q[i] < n /\ q[i] \in Nat
      BY <1>1, <1>2, <2>1
    <3> QED
      BY <3>1
  <2>2. CASE i = Len(s) + 1
    BY <1>1, <2>2
  <2> QED
    BY <1>4, <2>1, <2>2
<1>7. q # <<>> /\ q[Len(q)] = n
  <2>1. Len(<<>>) = 0
    OBVIOUS
  <2> QED
    BY <1>1, <2>1
<1> QED
  BY <1>5, <1>6, <1>7 DEF Ordered

\* The reply has arrived that the last message waited for, which was sent once.
LEMMA ReplyOrdered ==
    ASSUME NEW s \in Seq(Nat), NEW n \in Nat, Ordered(s, n, "reply")
    PROVE  /\ Ordered(s, n + 1, "nothing") /\ Len(s) \in 1..Len(s)
           /\ \A i \in 1..Len(s) : s[i] = n => i = Len(s)
<1>1. /\ \A i, j \in 1..Len(s) : i < j => s[i] < s[j]
      /\ s # <<>> /\ s[Len(s)] = n
      /\ Len(s) \in Nat /\ \A i \in 1..Len(s) : s[i] \in Nat
  BY LenProperties, ElementOfSeq DEF Ordered
<1>2. Len(s) # 0
  BY <1>1, EmptySeq
<1>3. Len(s) \in 1..Len(s)
  BY <1>1, <1>2
<1>4. \A i \in 1..Len(s) : i < Len(s) \/ i = Len(s)
  BY <1>1
<1>5. \A i \in 1..Len(s) : i < Len(s) => s[i] < n
  BY <1>1, <1>3
<1>6. \A i \in 1..Len(s) : s[i] < n + 1
  <2> SUFFICES ASSUME NEW i \in 1..Len(s) PROVE s[i] < n + 1
    OBVIOUS
  <2>1. s[i] \in Nat /\ (s[i] < n \/ s[i] = n)
    BY <1>1, <1>4, <1>5
  <2> QED
    BY <2>1
<1>7. \A i \in 1..Len(s) : s[i] = n => i = Len(s)
  <2> SUFFICES ASSUME NEW i \in 1..Len(s), s[i] = n, i # Len(s) PROVE FALSE
    OBVIOUS
  <2>1. s[i] < n
    BY <1>4, <1>5
  <2> QED
    BY <2>1
<1> QED
  BY <1>1, <1>3, <1>6, <1>7 DEF Ordered

-----------------------------------------------------------------------------
(* The connections.                                                          *)

\* The invariant of one connection, of its place p, its packets t, the replies
\* r and the queue q.
Follows(p, t, q) ==
    /\ Len(t) \in {Len(q), Len(q) + 1}
    /\ p \in {"reply", "queue"} => Len(t) = Len(q) + 1
    /\ p \in {"new", "login", "read"} => Len(t) = Len(q)
    /\ \A i \in DOMAIN q : q[i] = ToProtobufDeviceStatus(t[i])

Past(p, t, q) == IF p = "queue" THEN Len(t) ELSE Len(q)

Replied(p, t, r, q) ==
    /\ \A i \in 1..Past(p, t, q) : t[i].type = MSG_HeartbeatData <=> i \in Range(r)
    /\ \A i \in DOMAIN r : r[i] \in 1..Past(p, t, q)
    /\ \A i, j \in DOMAIN r : i < j => r[i] < r[j]
    /\ p = "reply" => t[Len(t)].type = MSG_HeartbeatData

Ok(p, t, r, q) ==
    /\ IsSequence(t) /\ IsSequence(r) /\ IsSequence(q)
    /\ Follows(p, t, q) /\ Replied(p, t, r, q)

Connection(c) == Ok(place[c], taken[c], replied[c], queue[c])

\* Its elements, when one is appended.
LEMMA RangeOfAppend ==
    ASSUME NEW s, IsSequence(s), NEW e
    PROVE  Range(Append(s, e)) = Range(s) \cup {e}
<1> DEFINE a == Append(s, e)
<1>1. /\ Len(s) \in Nat /\ DOMAIN s = 1..Len(s) /\ DOMAIN a = 1..Len(s) + 1
      /\ a[Len(s) + 1] = e /\ \A i \in 1..Len(s) : a[i] = s[i]
  BY AppendToSequence, Positions
<1> HIDE DEF a
<1>2. Range(a) = {a[i] : i \in DOMAIN a} /\ Range(s) = {s[i] : i \in DOMAIN s}
  BY DEF Range
<1>3. Range(a) = Range(s) \cup {e}
  BY <1>1, <1>2
<1> QED
  BY <1>3 DEF a

\* TakePacket: a packet more, which is not past its reply.
LEMMA TakeOk ==
    ASSUME NEW t, NEW r, NEW q, NEW e, Ok("read", t, r, q)
    PROVE  Ok(IF NeedsReply(e.type) THEN "reply" ELSE "queue", Append(t, e), r, q)
<1> DEFINE a == Append(t, e)
           p == IF NeedsReply(e.type) THEN "reply" ELSE "queue"
<1>1. /\ IsSequence(a) /\ Len(a) = Len(t) + 1 /\ a[Len(t) + 1] = e
      /\ \A i \in 1..Len(t) : a[i] = t[i]
  BY AppendToSequence DEF Ok
<1>2. /\ Len(t) \in Nat /\ Len(q) \in Nat /\ Len(t) = Len(q)
      /\ DOMAIN q = 1..Len(q) /\ IsSequence(r) /\ IsSequence(q)
  BY Positions DEF Ok, Follows
<1>3. /\ \A i \in 1..Len(q) : q[i] = ToProtobufDeviceStatus(t[i])
      /\ \A i \in 1..Len(q) : t[i].type = MSG_HeartbeatData <=> i \in Range(r)
      /\ \A i \in DOMAIN r : r[i] \in 1..Len(q)
      /\ \A i, j \in DOMAIN r : i < j => r[i] < r[j]
  BY <1>2 DEF Ok, Follows, Replied, Past
<1>4. p \in {"reply", "queue"} /\ (p = "reply" <=> e.type = MSG_HeartbeatData)
  BY DEF NeedsReply
<1>5. Len(q) + 1 \notin Range(r)
  BY <1>2, <1>3 DEF Range
<1> HIDE DEF a, p
<1>6. Follows(p, a, q)
  BY <1>1, <1>2, <1>3, <1>4 DEF Follows
<1>7. \A i \in 1..Past(p, a, q) : a[i].type = MSG_HeartbeatData <=> i \in Range(r)
  <2> SUFFICES ASSUME NEW i \in 1..Past(p, a, q)
               PROVE  a[i].type = MSG_HeartbeatData <=> i \in Range(r)
    OBVIOUS
  <2>1. i \in 1..Len(q) \/ (i = Len(q) + 1 /\ p = "queue")
    BY <1>1, <1>2 DEF Past
  <2>2. CASE i \in 1..Len(q)
    BY <2>2, <1>1, <1>2, <1>3
  <2>3. CASE i = Len(q) + 1 /\ p = "queue"
    BY <2>3, <1>1, <1>2, <1>4, <1>5
  <2> QED
    BY <2>1, <2>2, <2>3
<1>8. \A i \in DOMAIN r : r[i] \in 1..Past(p, a, q)
  BY <1>1, <1>2, <1>3 DEF Past
<1>9. p = "reply" => a[Len(a)].type = MSG_HeartbeatData
  BY <1>1, <1>2, <1>4
<1>10. Replied(p, a, r, q)
  BY <1>3, <1>7, <1>8, <1>9 DEF Replied
<1> QED
  BY <1>1, <1>2, <1>6, <1>10 DEF Ok, a, p

\* SendReply: the packet in hand is a heartbeat, and past its reply now.
LEMMA ReplyOk ==
    ASSUME NEW t, NEW r, NEW q, Ok("reply", t, r, q)
    PROVE  Ok("queue", t, Append(r, Len(t)), q)
<1> DEFINE a == Append(r, Len(t))
<1>1. /\ IsSequence(a) /\ Len(a) = Len(r) + 1 /\ a[Len(r) + 1] = Len(t)
      /\ \A i \in 1..Len(r) : a[i] = r[i]
      /\ Range(a) = Range(r) \cup {Len(t)}
  BY AppendToSequence, RangeOfAppend DEF Ok
<1>2. /\ Len(t) \in Nat /\ Len(q) \in Nat /\ Len(t) = Len(q) + 1 /\ Len(r) \in Nat
      /\ DOMAIN r = 1..Len(r) /\ DOMAIN a = 1..Len(r) + 1
      /\ IsSequence(t) /\ IsSequence(q)
  BY <1>1, Positions DEF Ok, Follows
<1>3. /\ \A i \in 1..Len(q) : t[i].type = MSG_HeartbeatData <=> i \in Range(r)
      /\ \A i \in 1..Len(r) : r[i] \in 1..Len(q)
      /\ \A i, j \in 1..Len(r) : i < j => r[i] < r[j]
      /\ t[Len(t)].type = MSG_HeartbeatData
  BY <1>2 DEF Ok, Replied, Past
<1> HIDE DEF a
<1>4. Follows("queue", t, q)
  BY <1>2 DEF Ok, Follows
<1>5. \A i \in 1..Len(t) : t[i].type = MSG_HeartbeatData <=> i \in Range(a)
  <2> SUFFICES ASSUME NEW i \in 1..Len(t)
               PROVE  t[i].type = MSG_HeartbeatData <=> i \in Range(a)
    OBVIOUS
  <2>1. i \in 1..Len(q) \/ i = Len(t)
    BY <1>2
  <2>2. CASE i \in 1..Len(q)
    <3>1. i # Len(t)
      BY <2>2, <1>2
    <3> QED
      BY <3>1, <2>2, <1>1, <1>3
  <2>3. CASE i = Len(t)
    BY <2>3, <1>1, <1>3
  <2> QED
    BY <2>1, <2>2, <2>3
<1>6. \A i \in DOMAIN a : a[i] \in 1..Len(t)
  BY <1>1, <1>2, <1>3
<1>7. \A i, j \in DOMAIN a : i < j => a[i] < a[j]
  <2> SUFFICES ASSUME NEW i \in DOMAIN a, NEW j \in DOMAIN a, i < j
               PROVE  a[i] < a[j]
    OBVIOUS
  <2>1. i \in 1..Len(r) /\ a[i] = r[i] /\ (j \in 1..Len(r) \/ j = Len(r) + 1)
    BY <1>1, <1>2
  <2>2. r[i] < Len(t)
    BY <2>1, <1>2, <1>3
  <2> QED
    BY <2>1, <2>2, <1>1, <1>3
<1>8. Replied("queue", t, a, q)
  BY <1>5, <1>6, <1>7 DEF Replied, Past
<1> QED
  BY <1>1, <1>2, <1>4, <1>8 DEF Ok, a

\* QueueStatus: the status of the packet in hand is queued.
LEMMA QueueOk ==
    ASSUME NEW t, NEW r, NEW q, Ok("queue", t, r, q)
    PROVE  Ok("read", t, r, Append(q, ToProtobufDeviceStatus(t[Len(t)])))
<1> DEFINE status == ToProtobufDeviceStatus(t[Len(t)])
           a == Append(q, status)
<1>1. /\ IsSequence(a) /\ Len(a) = Len(q) + 1 /\ a[Len(q) + 1] = status
      /\ \A i \in 1..Len(q) : a[i] = q[i]
  BY AppendToSequence DEF Ok
<1>2. /\ Len(t) \in Nat /\ Len(q) \in Nat /\ Len(t) = Len(q) + 1
      /\ DOMAIN q = 1..Len(q) /\ DOMAIN a = 1..Len(q) + 1
      /\ IsSequence(t) /\ IsSequence(r)
  BY <1>1, Positions DEF Ok, Follows
<1>3. \A i \in 1..Len(q) : q[i] = ToProtobufDeviceStatus(t[i])
  BY <1>2 DEF Ok, Follows
<1>4. /\ \A i \in 1..Len(t) : t[i].type = MSG_HeartbeatData <=> i \in Range(r)
      /\ \A i \in DOMAIN r : r[i] \in 1..Len(t)
      /\ \A i, j \in DOMAIN r : i < j => r[i] < r[j]
  BY DEF Ok, Replied, Past
<1> HIDE DEF a
<1>5. \A i \in DOMAIN a : a[i] = ToProtobufDeviceStatus(t[i])
  BY <1>1, <1>2, <1>3
<1>6. Follows("read", t, a)
  BY <1>1, <1>2, <1>5 DEF Follows
<1>7. Replied("read", t, r, a)
  BY <1>1, <1>2, <1>4 DEF Replied, Past
<1> QED
  BY <1>1, <1>2, <1>6, <1>7 DEF Ok, a

\* Between reads nothing is in hand, and a connection may end where it reads,
\* or with a reply it cannot write.
LEMMA MoveOk ==
    ASSUME NEW t, NEW r, NEW q, NEW p \in {"new", "login", "read", "reply"},
           NEW d \in {"login", "read", "ended"}, p = "reply" => d = "ended",
           Ok(p, t, r, q)
    PROVE  Ok(d, t, r, q)
  BY DEF Ok, Follows, Replied, Past

\* A connection that is new.
LEMMA NewOk == Ok("new", <<>>, <<>>, <<>>)
<1>1. IsSequence(<<>>) /\ Len(<<>>) = 0 /\ DOMAIN <<>> = {} /\ Range(<<>>) = {}
  BY EmptyIsSequence, Positions DEF Range
<1> QED
  BY <1>1 DEF Ok, Follows, Replied, Past

-----------------------------------------------------------------------------

\* The parts of the invariant, connection by connection.
Connections ==
    /\ place \in [Conns -> Places]
    /\ DOMAIN taken = Conns /\ DOMAIN replied = Conns /\ DOMAIN queue = Conns
    /\ \A c \in Conns : Connection(c)

\* The invariant is the conjunction of these.
LEMMA InvByConnection == IInv <=> Connections
<1>1. ASSUME NEW c
      PROVE  QueueFollowsPackets(c) <=> Follows(place[c], taken[c], queue[c])
  BY DEF QueueFollowsPackets, Follows
<1>2. ASSUME NEW c
      PROVE  HeartbeatsAreReplied(c) <=> Replied(place[c], taken[c], replied[c], queue[c])
  <2>1. Answered(c) = Past(place[c], taken[c], queue[c])
    BY DEF Answered, Past
  <2> QED
    BY <2>1 DEF HeartbeatsAreReplied, Replied, Newest
<1> QED
  BY <1>1, <1>2, Zenon DEF IInv, TypeOK, Connections, Connection, Ok

\* The invariant holds initially,
LEMMA InitInv == Init => IInv
<1> SUFFICES ASSUME Init PROVE IInv
  OBVIOUS
<1>1. /\ place \in [Conns -> Places]
      /\ DOMAIN taken = Conns /\ DOMAIN replied = Conns /\ DOMAIN queue = Conns
  BY DEF Init, Places
<1>2. \A c \in Conns : Connection(c)
  BY NewOk DEF Init, Connection
<1> QED
  BY <1>1, <1>2, InvByConnection DEF Connections

\* What one step of a connection's handler must show.
LEMMA OneConnection ==
    ASSUME IInv, NEW c \in Conns, NEW p \in Places, NEW t, NEW r, NEW q,
           Ok(p, t, r, q),
           place' = [place EXCEPT ![c] = p],
           taken' \in {taken, [taken EXCEPT ![c] = t]}, taken'[c] = t,
           replied' \in {replied, [replied EXCEPT ![c] = r]}, replied'[c] = r,
           queue' \in {queue, [queue EXCEPT ![c] = q]}, queue'[c] = q
    PROVE  IInv'
<1>1. /\ place \in [Conns -> Places]
      /\ DOMAIN taken = Conns /\ DOMAIN replied = Conns /\ DOMAIN queue = Conns
      /\ \A d \in Conns : Connection(d)
  BY InvByConnection DEF Connections
<1>2. /\ place' \in [Conns -> Places]
      /\ DOMAIN taken' = Conns /\ DOMAIN replied' = Conns /\ DOMAIN queue' = Conns
  BY <1>1
<1>3. ASSUME NEW d \in Conns PROVE Connection(d)'
  <2>1. CASE d = c
    <3>1. place'[c] = p
      BY <1>1
    <3> QED
      BY <2>1, <3>1 DEF Connection
  <2>2. CASE d # c
    <3>1. /\ place'[d] = place[d] /\ taken'[d] = taken[d]
          /\ replied'[d] = replied[d] /\ queue'[d] = queue[d]
      BY <2>2, <1>1
    <3> QED
      BY <3>1, <1>1 DEF Connection
  <2> QED
    BY <2>1, <2>2
<1>4. Connections'
  BY <1>2, <1>3 DEF Connections
<1> QED
  BY <1>4, InvByConnection, PTL

\* and every step keeps it.
LEMMA StepInv == IInv /\ [Next]_vars => IInv'
<1> SUFFICES ASSUME IInv, [Next]_vars PROVE IInv'
  OBVIOUS
<1>1. /\ place \in [Conns -> Places]
      /\ DOMAIN taken = Conns /\ DOMAIN replied = Conns /\ DOMAIN queue = Conns
      /\ \A c \in Conns : Connection(c)
  BY InvByConnection DEF Connections
<1>3. ASSUME NEW c \in Conns, NEW p \in {"new", "login", "read", "reply"},
             NEW d \in {"login", "read", "ended"}, p = "reply" => d = "ended",
             Goes(c, p, d), UNCHANGED <<taken, replied, queue>>
      PROVE  IInv'
  <2>1. Ok(d, taken[c], replied[c], queue[c])
    BY <1>1, <1>3, MoveOk DEF Goes, Connection
  <2>2. place' = [place EXCEPT ![c] = d] /\ d \in Places
    BY <1>3 DEF Goes, Places
  <2>3. taken' = taken /\ replied' = replied /\ queue' = queue
    BY <1>3
  <2> QED
    BY <2>1, <2>2, <2>3, OneConnection
<1>4. ASSUME NEW c \in Conns, Login(c) PROVE IInv'
  BY <1>3, <1>4 DEF Login
<1>5. ASSUME NEW c \in Conns, TakePacket(c) PROVE IInv'
  <2> DEFINE packet == parsePacket(wire[c], zone[c])
             p == IF NeedsReply(packet.type) THEN "reply" ELSE "queue"
  <2>1. /\ place[c] = "read" /\ place' = [place EXCEPT ![c] = p]
        /\ taken' = [taken EXCEPT ![c] = Append(taken[c], packet)]
        /\ replied' = replied /\ queue' = queue
    BY <1>5 DEF TakePacket, Goes
  <2>2. Ok(p, Append(taken[c], packet), replied[c], queue[c])
    BY <1>1, <2>1, TakeOk DEF Connection
  <2>3. p \in Places
    BY DEF Places
  <2>4. taken'[c] = Append(taken[c], packet)
    BY <1>1, <2>1
  <2> HIDE DEF p, packet
  <2> QED
    BY <2>1, <2>2, <2>3, <2>4, OneConnection
<1>6. ASSUME NEW c \in Conns, SendReply(c) PROVE IInv'
  <2>1. /\ place[c] = "reply" /\ place' = [place EXCEPT ![c] = "queue"]
        /\ replied' = [replied EXCEPT ![c] = Append(replied[c], Len(taken[c]))]
        /\ taken' = taken /\ queue' = queue
    BY <1>6 DEF SendReply, Goes
  <2>2. Ok("queue", taken[c], Append(replied[c], Len(taken[c])), queue[c])
    BY <1>1, <2>1, ReplyOk DEF Connection
  <2> QED
    BY <1>1, <2>1, <2>2, OneConnection DEF Places
<1>7. ASSUME NEW c \in Conns, QueueStatus(c) PROVE IInv'
  <2> DEFINE q == Append(queue[c], ToProtobufDeviceStatus(taken[c][Len(taken[c])]))
  <2>1. /\ place[c] = "queue" /\ place' = [place EXCEPT ![c] = "read"]
        /\ queue' = [queue EXCEPT ![c] = q]
        /\ taken' = taken /\ replied' = replied
    BY <1>7 DEF QueueStatus, Goes, Newest
  <2>2. Ok("read", taken[c], replied[c], q)
    BY <1>1, <2>1, QueueOk DEF Connection
  <2> HIDE DEF q
  <2> QED
    BY <1>1, <2>1, <2>2, OneConnection DEF Places
<1>8. ASSUME NEW c \in Conns, StreamEnds(c) PROVE IInv'
  <2>1. PICK p \in {"login", "read", "reply"} : Goes(c, p, "ended")
    BY <1>8 DEF StreamEnds
  <2>2. UNCHANGED <<taken, replied, queue>>
    BY <1>8 DEF StreamEnds
  <2> QED
    BY <2>1, <2>2, <1>3
<1>9. CASE Connect
  <2>1. PICK c \in Conns : Goes(c, "new", "login")
    BY <1>9 DEF Connect
  <2>2. UNCHANGED <<taken, replied, queue>>
    BY <1>9 DEF Connect
  <2> QED
    BY <2>1, <2>2, <1>3
<1>10. CASE UNCHANGED <<place, taken, replied, queue>>
  BY <1>10, Zenon
     DEF IInv, TypeOK, QueueFollowsPackets, HeartbeatsAreReplied, Answered, Newest
<1>11. CASE SendMessage \/ ReadReply \/ GiveUp \/ Break \/ Rest \/ UNCHANGED vars
  <2>1. UNCHANGED <<place, taken, replied, queue>>
    BY <1>11 DEF SendMessage, ReadReply, GiveUp, Break, Closes, Rest, vars, receiver
  <2> QED
    BY <2>1, <1>10
<1> QED
  BY <1>4, <1>5, <1>6, <1>7, <1>8, <1>9, <1>11 DEF Next, HandleConnection, Device

\* Every packet is queued once, in order, and every heartbeat has one reply
\* before it is queued, whatever the bytes (gt06.go:100-120).
THEOREM Invariance == Spec => []IInv
<1> QED
  BY InitInv, StepInv, PTL DEF Spec

-----------------------------------------------------------------------------

\* Zero is no connection.
LEMMA ConnsAreNumbers == 0 \notin Conns
<1>1. MaxConns \in Nat
  BY Gt06Assumption, Zenon
<1> QED
  BY <1>1 DEF Conns

\* Is it the device's connection?
Mine(c) == current = c

\* The invariant about the bytes of a connection, and of all of them.
Framing(c) ==
    Frames(place[c], wire[c], zone[c], taken[c], sent[c], clean[c], down[c],
           Mine(c), awaiting)

\* The types of what the device sends and gets.
FTypes ==
    /\ current \in Conns \cup {0} /\ next \in Nat \ {0}
    /\ wire \in [Conns -> Seq(Byte)]
    /\ sent \in [Conns -> Seq(DOMAIN Messages)]
    /\ clean \in [Conns -> Nat]
    /\ DOMAIN zone = Conns /\ DOMAIN down = Conns

\* The invariant about the bytes.
FInv == FTypes /\ \A c \in Conns : Framing(c)

\* Nothing of the other connections changes.
OthersAsBefore(c) ==
    \A e \in Conns \ {c} :
        UNCHANGED <<place[e], wire[e], zone[e], taken[e], sent[e], clean[e], down[e]>>

\* The invariant holds initially.
LEMMA FInvInit == Init => FInv
<1> SUFFICES ASSUME Init PROVE FInv
  OBVIOUS
<1>1. ASSUME NEW c \in Conns PROVE Framing(c)
  <2>1. c # 0
    BY ConnsAreNumbers
  <2>2. /\ place[c] = "new" /\ wire[c] = <<>> /\ zone[c] = 0 /\ taken[c] = <<>>
        /\ sent[c] = <<>> /\ clean[c] = 0 /\ down[c] = <<>> /\ Mine(c) = FALSE
    BY <2>1 DEF Init, Mine
  <2>3. Stream(<<>>, <<>>, <<>>, 0, 0, FALSE, FALSE)
    BY NewStream
  <2>4. /\ Known(<<>>, 0) = 0 /\ Reading("new") = FALSE /\ "new" # "login"
        /\ 0 <= Len(<<>>)
    BY DEF Known, Reading
  <2>5. Frames("new", <<>>, 0, <<>>, <<>>, 0, <<>>, FALSE, awaiting)
    BY <2>3, <2>4, Zenon DEF Frames
  <2> QED
    BY <2>2, <2>5 DEF Framing
<1>2. wire \in [Conns -> Seq(Byte)] /\ sent \in [Conns -> Seq(DOMAIN Messages)]
  BY DEF Init
<1> QED
  BY <1>1, <1>2 DEF FInv, FTypes, Init

\* What one step over a connection must show: the others are as they were, and
\* not the device's, or as much the device's as before.
LEMMA OneFraming ==
    ASSUME FInv, NEW c \in Conns, FTypes', OthersAsBefore(c), Framing(c)',
           \/ current' = current /\ awaiting' = awaiting
           \/ current \in {0, c} /\ current' \in {0, c}
    PROVE  FInv'
<1>1. ASSUME NEW e \in Conns PROVE Framing(e)'
  <2>1. CASE e = c
    BY <2>1
  <2>2. CASE e # c
    <3>1. /\ place'[e] = place[e] /\ wire'[e] = wire[e] /\ zone'[e] = zone[e]
          /\ taken'[e] = taken[e] /\ sent'[e] = sent[e] /\ clean'[e] = clean[e]
          /\ down'[e] = down[e]
      BY <2>2 DEF OthersAsBefore
    <3>2. Frames(place[e], wire[e], zone[e], taken[e], sent[e], clean[e], down[e],
                 Mine(e), awaiting)
      BY DEF FInv, Framing
    <3>3. CASE current' = current /\ awaiting' = awaiting
      <4>1. Mine(e)' = Mine(e)
        BY <3>3 DEF Mine
      <4> QED
        BY <3>1, <3>2, <3>3, <4>1 DEF Framing
    <3>4. CASE current \in {0, c} /\ current' \in {0, c}
      <4>1. e # 0
        BY ConnsAreNumbers
      <4>2. Mine(e) = FALSE /\ Mine(e)' = FALSE
        BY <2>2, <3>4, <4>1 DEF Mine
      <4>3. Frames(place[e], wire[e], zone[e], taken[e], sent[e], clean[e], down[e],
                   FALSE, awaiting)
        BY <3>2, <4>2
      <4>4. Frames(place[e], wire[e], zone[e], taken[e], sent[e], clean[e], down[e],
                   FALSE, awaiting')
        BY <4>3, Zenon DEF Frames
      <4> QED
        BY <3>1, <4>2, <4>4 DEF Framing
    <3> QED
      BY <3>3, <3>4
  <2> QED
    BY <2>1, <2>2
<1> QED
  BY <1>1 DEF FInv

\* What the invariants say of the types.
LEMMA FInvTypes ==
    ASSUME IInv, FInv
    PROVE  /\ place \in [Conns -> Places] /\ DOMAIN taken = Conns
           /\ wire \in [Conns -> Seq(Byte)]
           /\ sent \in [Conns -> Seq(DOMAIN Messages)]
           /\ clean \in [Conns -> Nat]
           /\ DOMAIN zone = Conns /\ DOMAIN down = Conns
           /\ \A c \in Conns :
                /\ IsSequence(taken[c])
                /\ Frames(place[c], wire[c], zone[c], taken[c], sent[c], clean[c], down[c],
                          Mine(c), awaiting)
           /\ current \in Conns \cup {0} /\ next \in Nat \ {0}
  BY DEF IInv, TypeOK, FInv, FTypes, Framing

\* The login packet is read.
LEMMA LoginFraming == ASSUME IInv, FInv, NEW c \in Conns, Login(c) PROVE FInv'
<1> DEFINE packet == parsePacket(wire[c], 0)
           w == SubSeq(wire[c], packet.size + 1, Len(wire[c]))
           d == down[c] \o sendResponse(packet)
           z == packet.information.zone
<1>1. /\ place[c] = "login" /\ place' = [place EXCEPT ![c] = "read"]
      /\ packet.kind = "packet" /\ wire' = [wire EXCEPT ![c] = w]
      /\ zone' = [zone EXCEPT ![c] = z] /\ down' = [down EXCEPT ![c] = d]
      /\ UNCHANGED <<taken, sent, clean, current, next, awaiting>>
  BY DEF Login, Goes, Reads, Writes, device
<1>2. /\ w \in Seq(Byte) /\ wire[c] \in Seq(Byte)
  <2>1. packet.size \in Nat /\ packet.size <= Len(wire[c]) /\ wire[c] \in Seq(Byte)
    BY <1>1, FInvTypes, PacketIsWithin, LenProperties
  <2> QED
    BY <2>1, CutBytes
<1>3. Frames("read", w, z, taken[c], sent[c], clean[c], d, Mine(c), awaiting)
  BY <1>1, <1>2, FInvTypes, LoginFrames
<1> HIDE DEF packet, w, d, z
<1>4. FTypes' /\ OthersAsBefore(c) /\ Mine(c)' = Mine(c)
  BY <1>1, <1>2, FInvTypes DEF FTypes, OthersAsBefore, Mine
<1>5. /\ place'[c] = "read" /\ wire'[c] = w /\ zone'[c] = z /\ down'[c] = d
      /\ taken' = taken /\ sent' = sent /\ clean' = clean /\ awaiting' = awaiting
  BY <1>1, FInvTypes
<1>6. Framing(c)'
  BY <1>3, <1>4, <1>5 DEF Framing
<1> QED
  BY <1>1, <1>4, <1>6, OneFraming

\* A packet is read.
LEMMA TakeFraming == ASSUME IInv, FInv, NEW c \in Conns, TakePacket(c) PROVE FInv'
<1> DEFINE packet == parsePacket(wire[c], zone[c])
           w == SubSeq(wire[c], packet.size + 1, Len(wire[c]))
           t == Append(taken[c], packet)
           p == IF NeedsReply(packet.type) THEN "reply" ELSE "queue"
<1>1. /\ place[c] = "read" /\ place' = [place EXCEPT ![c] = p]
      /\ packet.kind = "packet" /\ wire' = [wire EXCEPT ![c] = w]
      /\ taken' = [taken EXCEPT ![c] = t]
      /\ UNCHANGED <<zone, down, sent, clean, current, next, awaiting>>
  BY DEF TakePacket, Goes, Reads, device
<1>2. /\ w \in Seq(Byte) /\ wire[c] \in Seq(Byte)
  <2>1. packet.size \in Nat /\ packet.size <= Len(wire[c]) /\ wire[c] \in Seq(Byte)
    BY <1>1, FInvTypes, PacketIsWithin, LenProperties
  <2> QED
    BY <2>1, CutBytes
<1>3. p \in {"reply", "queue"}
  OBVIOUS
<1> HIDE DEF p
<1>4. Frames(p, w, zone[c], t, sent[c], clean[c], down[c], Mine(c), awaiting)
  <2>1. Frames("read", wire[c], zone[c], taken[c], sent[c], clean[c], down[c],
               Mine(c), awaiting)
    BY <1>1, FInvTypes
  <2>2. /\ IsSequence(taken[c]) /\ sent[c] \in Seq(DOMAIN Messages) /\ clean[c] \in Nat
        /\ Mine(c) \in BOOLEAN
    BY FInvTypes DEF Mine
  <2> QED
    BY <1>1, <1>2, <1>3, <2>1, <2>2, TakeFrames
<1> HIDE DEF packet, w, t
<1>5. FTypes' /\ OthersAsBefore(c) /\ Mine(c)' = Mine(c)
  BY <1>1, <1>2, FInvTypes DEF FTypes, OthersAsBefore, Mine
<1>6. /\ place'[c] = p /\ wire'[c] = w /\ taken'[c] = t /\ zone' = zone /\ down' = down
      /\ sent' = sent /\ clean' = clean /\ awaiting' = awaiting
  BY <1>1, FInvTypes
<1>7. Framing(c)'
  BY <1>4, <1>5, <1>6 DEF Framing
<1> QED
  BY <1>1, <1>5, <1>7, OneFraming

\* SendReply, QueueStatus, StreamEnds.
LEMMA MoveFraming ==
    ASSUME IInv, FInv, NEW c \in Conns, NEW q \in {"read", "queue", "ended"}, NEW d,
           Reading(q) => Reading(place[c]), place' = [place EXCEPT ![c] = q],
           down' \in {down, [down EXCEPT ![c] = d]}, down'[c] = d,
           UNCHANGED <<wire, zone, taken, sent, clean, current, next, awaiting>>
    PROVE  FInv'
<1>1. Frames(q, wire[c], zone[c], taken[c], sent[c], clean[c], d, Mine(c), awaiting)
  <2>1. Frames(place[c], wire[c], zone[c], taken[c], sent[c], clean[c], down[c],
               Mine(c), awaiting)
    BY FInvTypes
  <2> QED
    BY <2>1, MoveFrames
<1>2. FTypes' /\ OthersAsBefore(c) /\ Mine(c)' = Mine(c)
  BY FInvTypes DEF FTypes, OthersAsBefore, Mine
<1>3. /\ place'[c] = q /\ wire' = wire /\ taken' = taken /\ zone' = zone /\ down'[c] = d
      /\ sent' = sent /\ clean' = clean /\ awaiting' = awaiting
  BY FInvTypes
<1>4. Framing(c)'
  BY <1>1, <1>2, <1>3 DEF Framing
<1> QED
  BY <1>2, <1>4, OneFraming

\* The handler's other steps read nothing.
LEMMA HandlerFraming ==
    ASSUME IInv, FInv, NEW c \in Conns, SendReply(c) \/ QueueStatus(c) \/ StreamEnds(c)
    PROVE  FInv'
<1>1. CASE SendReply(c)
  <2>1. /\ place[c] = "reply" /\ place' = [place EXCEPT ![c] = "queue"]
        /\ down' = [down EXCEPT ![c] = down[c] \o sendResponse(Newest(c))]
        /\ UNCHANGED <<wire, zone, taken, sent, clean, current, next, awaiting>>
    BY <1>1 DEF SendReply, Goes, Writes, device
  <2>2. Reading(place[c]) /\ down'[c] = down[c] \o sendResponse(Newest(c))
    BY <2>1, FInvTypes DEF Reading
  <2> QED
    BY <2>1, <2>2, MoveFraming
<1>2. CASE QueueStatus(c)
  <2>1. /\ place[c] = "queue" /\ place' = [place EXCEPT ![c] = "read"]
        /\ UNCHANGED <<wire, zone, taken, down, sent, clean, current, next, awaiting>>
    BY <1>2 DEF QueueStatus, Goes, device
  <2>2. Reading(place[c])
    BY <2>1 DEF Reading
  <2> QED
    BY <2>1, <2>2, MoveFraming
<1>3. CASE StreamEnds(c)
  <2>1. /\ place' = [place EXCEPT ![c] = "ended"]
        /\ UNCHANGED <<wire, zone, taken, down, sent, clean, current, next, awaiting>>
    BY <1>3 DEF StreamEnds, Goes, device
  <2>2. ~Reading("ended")
    BY DEF Reading
  <2> QED
    BY <2>1, <2>2, MoveFraming
<1> QED
  BY <1>1, <1>2, <1>3

\* The device connects.
LEMMA ConnectFraming == ASSUME IInv, FInv, Connect PROVE FInv'
<1>1. PICK c \in Conns :
        /\ place[c] = "new" /\ place' = [place EXCEPT ![c] = "login"]
        /\ current' = c /\ wire' = [wire EXCEPT ![c] = LoginPacket]
  BY DEF Connect, Goes
<1>2. /\ current = 0 /\ awaiting' = "login"
      /\ UNCHANGED <<zone, taken, down, next, sent, clean>>
  BY DEF Connect
<1>3. LoginPacket \in Seq(Byte)
  BY Gt06Assumption
<1>4. Frames("login", LoginPacket, zone[c], taken[c], sent[c], clean[c], down[c],
             TRUE, "login")
  BY <1>1, FInvTypes, ConnectFrames
<1>5. FTypes' /\ OthersAsBefore(c) /\ Mine(c)' = TRUE
  BY <1>1, <1>2, <1>3, FInvTypes DEF FTypes, OthersAsBefore, Mine
<1>6. place'[c] = "login" /\ wire'[c] = LoginPacket
  BY <1>1, FInvTypes
<1>7. Framing(c)'
  BY <1>2, <1>4, <1>5, <1>6 DEF Framing
<1> QED
  BY <1>1, <1>2, <1>5, <1>7, OneFraming

\* It sends a message.
LEMMA SendFraming == ASSUME IInv, FInv, SendMessage PROVE FInv'
<1>0. PICK c \in Conns : c = current
  BY FInvTypes DEF SendMessage
<1> DEFINE s == Append(sent[c], next)
<1>1. /\ awaiting = "nothing" /\ next <= Len(Messages)
      /\ sent' = [sent EXCEPT ![c] = s]
      /\ awaiting' \in {"reply", "nothing"} /\ next' \in {next, next + 1}
      /\ UNCHANGED <<place, zone, taken, down, current>>
  BY <1>0 DEF SendMessage, receiver
<1>2. PICK bytes :
        /\ wire' = [wire EXCEPT ![c] = wire[c] \o bytes]
        /\ \/ /\ bytes = Packed(next)
              /\ clean' = IF clean[c] = Len(sent[c])
                          THEN [clean EXCEPT ![c] = clean[c] + 1] ELSE clean
           \/ bytes \in Damaged(Packed(next)) /\ clean' = clean
  BY <1>0 DEF SendMessage, Undamaged
<1>3. next \in Nat \ {0} /\ next \in DOMAIN Messages
  BY <1>1, FInvTypes, Gt06Assumption, Positions
<1>4. /\ wire[c] \in Seq(Byte) /\ sent[c] \in Seq(DOMAIN Messages) /\ clean[c] \in Nat
      /\ IsSequence(taken[c])
  BY <1>3, FInvTypes
<1>5. s \in Seq(DOMAIN Messages) /\ next' \in Nat \ {0}
  BY <1>1, <1>3, <1>4, AppendProperties
<1>6. Mine(c) = TRUE /\ Mine(c)' = TRUE /\ current \in {0, c} /\ current' \in {0, c}
  BY <1>0, <1>1 DEF Mine
<1> DEFINE l == clean'[c]
<1>7. /\ clean' \in [Conns -> Nat] /\ l \in Nat
      /\ \A e \in Conns \ {c} : clean'[e] = clean[e]
      /\ \/ bytes = Packed(next) /\ l = (IF clean[c] = Len(sent[c]) THEN clean[c] + 1 ELSE clean[c])
         \/ bytes \in Damaged(Packed(next)) /\ l = clean[c]
  <2>1. \/ clean' = clean
        \/ clean' = [clean EXCEPT ![c] = clean[c] + 1]
    BY <1>2
  <2>2. clean \in [Conns -> Nat] /\ clean[c] + 1 \in Nat
    BY <1>4, FInvTypes
  <2>3. /\ clean' \in [Conns -> Nat] /\ l \in Nat
        /\ \A e \in Conns \ {c} : clean'[e] = clean[e]
    BY <2>1, <2>2
  <2>4. \/ bytes = Packed(next) /\ l = (IF clean[c] = Len(sent[c]) THEN clean[c] + 1 ELSE clean[c])
        \/ bytes \in Damaged(Packed(next)) /\ l = clean[c]
    BY <1>2, <2>2
  <2> QED
    BY <2>3, <2>4
<1> HIDE DEF s, l
<1>8. Frames(place[c], wire[c], zone[c], taken[c], sent[c], clean[c], down[c], TRUE, "nothing")
  <2>1. Frames(place[c], wire[c], zone[c], taken[c], sent[c], clean[c], down[c],
               Mine(c), awaiting)
    BY <1>3, FInvTypes
  <2> QED
    BY <1>1, <1>6, <2>1
<1>9. awaiting' # "login"
  BY <1>1
<1>x. bytes \in Seq(Byte)
  BY <1>2, <1>3, PackedAreBytes
<1>10. Frames(place[c], wire[c] \o bytes, zone[c], taken[c], s, l, down[c], TRUE, awaiting')
  <2>1. /\ wire[c] \in Seq(Byte) /\ IsSequence(taken[c])
        /\ sent[c] \in Seq(DOMAIN Messages) /\ clean[c] \in Nat /\ next \in DOMAIN Messages
    BY <1>3, <1>4
  <2>2. /\ bytes \in {Packed(next)} \cup Damaged(Packed(next))
        /\ l = clean[c] \/ (l = clean[c] + 1 /\ clean[c] = Len(sent[c]) /\ bytes = Packed(next))
    BY <1>7
  <2> DEFINE w == wire[c]
             z == zone[c]
             t == taken[c]
             q == sent[c]
             cl == clean[c]
             d == down[c]
             p == place[c]
             b == awaiting'
             y == wire[c] \o bytes
  <2>3. /\ w \in Seq(Byte) /\ IsSequence(t) /\ q \in Seq(DOMAIN Messages) /\ cl \in Nat
        /\ next \in DOMAIN Messages /\ b # "login"
        /\ bytes \in {Packed(next)} \cup Damaged(Packed(next))
        /\ l = cl \/ (l = cl + 1 /\ cl = Len(q) /\ bytes = Packed(next))
        /\ Frames(p, w, z, t, q, cl, d, TRUE, "nothing")
    BY <2>1, <2>2, <1>8, <1>9
  <2>y. y = w \o bytes /\ s = Append(q, next)
    BY DEF s
  <2> HIDE DEF w, z, t, q, cl, d, p, b, y
  <2>4. Frames(p, y, z, t, s, l, d, TRUE, b)
    BY <2>3, <2>y, SendFrames
  <2> QED
    BY <2>4 DEF y, w, z, t, q, cl, d, p, b
<1>11. wire[c] \o bytes \in Seq(Byte)
  BY <1>4, <1>x, ConcatBytes
<1>12. FTypes' /\ OthersAsBefore(c)
  BY <1>1, <1>2, <1>3, <1>5, <1>7, <1>11, FInvTypes DEF FTypes, OthersAsBefore
<1>13. /\ place' = place /\ wire'[c] = wire[c] \o bytes /\ zone' = zone
       /\ taken' = taken /\ sent'[c] = s /\ down' = down /\ clean'[c] = l
  BY <1>1, <1>2, <1>3, FInvTypes DEF l
<1>14. Framing(c)'
  BY <1>6, <1>10, <1>13 DEF Framing
<1> QED
  BY <1>3, <1>6, <1>12, <1>14, OneFraming

\* It reads a reply.
LEMMA ReadFraming == ASSUME IInv, FInv, ReadReply PROVE FInv'
<1>0. PICK c \in Conns : c = current
  BY FInvTypes DEF ReadReply
<1> DEFINE d == SubSeq(down[c], 11, Len(down[c]))
<1>1. /\ Len(down[c]) >= 10
      /\ down' = [down EXCEPT ![c] = d]
      /\ UNCHANGED <<place, wire, zone, taken, sent, clean, current>>
  BY <1>0 DEF ReadReply, receiver
<1>2. next' \in {next, next + 1}
  BY DEF ReadReply
<1>3. next \in Nat \ {0}
  BY <1>1, FInvTypes
<1>4. Mine(c)' = Mine(c) /\ current \in {0, c} /\ current' \in {0, c}
  BY <1>0, <1>1 DEF Mine
<1> HIDE DEF d
<1>5. Frames(place[c], wire[c], zone[c], taken[c], sent[c], clean[c], down[c], 
             Mine(c), awaiting)
  BY <1>3, FInvTypes
<1>6. place[c] \notin {"new", "login"}
  <2>1. down[c] # <<>>
    <3>1. Len(<<>>) = 0
      OBVIOUS
    <3> QED
      BY <1>1, <3>1
  <2> QED
    BY <1>5, <2>1 DEF Frames
<1>7. Frames(place[c], wire[c], zone[c], taken[c], sent[c], clean[c], d,
             Mine(c), awaiting')
  <2>1. place[c] # "new" /\ place[c] # "login"
    BY <1>6
  <2> QED
    BY <1>5, <1>6, <2>1, Zenon DEF Frames
<1>8. FTypes' /\ OthersAsBefore(c)
  BY <1>1, <1>2, <1>3, FInvTypes DEF FTypes, OthersAsBefore
<1>9. /\ place' = place /\ wire' = wire /\ zone' = zone /\ taken' = taken
      /\ sent' = sent /\ down'[c] = d /\ clean' = clean
  BY <1>1, <1>3, FInvTypes
<1>10. Framing(c)'
  BY <1>4, <1>7, <1>9 DEF Framing
<1> QED
  BY <1>3, <1>4, <1>8, <1>10, OneFraming

\* It closes the connection, or that breaks.
LEMMA CloseFraming == ASSUME IInv, FInv, Break \/ GiveUp PROVE FInv'
<1>0. PICK c \in Conns : c = current
  BY FInvTypes DEF Break, GiveUp
<1>1. /\ current' = 0 /\ awaiting' = "nothing"
      /\ UNCHANGED <<place, zone, taken, down, next, sent, clean>>
  BY DEF Break, GiveUp, Closes, receiver
<1>2. next \in Nat \ {0}
  BY <1>1, FInvTypes
<1>3. /\ wire[c] \in Seq(Byte) /\ sent[c] \in Seq(DOMAIN Messages) /\ clean[c] \in Nat
      /\ IsSequence(taken[c])
  BY <1>2, FInvTypes
<1>4. \E x \in Seq(Byte) : Begins(x, wire[c]) /\ wire' = [wire EXCEPT ![c] = x]
  <2>1. CASE Break
    <3>1. PICK n \in Lost : wire' = [wire EXCEPT ![c] = SubSeq(wire[c], 1, Len(wire[c]) - n)]
      BY <1>0, <2>1 DEF Break
    <3>2. n \in Nat
      BY Gt06Assumption, Zenon
    <3> DEFINE x == SubSeq(wire[c], 1, Len(wire[c]) - n)
    <3>3. x \in Seq(Byte) /\ Begins(x, wire[c])
      BY <1>3, <3>2, FrontBytes
    <3> HIDE DEF x
    <3> QED
      BY <3>1, <3>3 DEF x
  <2>2. CASE GiveUp
    <3>1. wire' = [wire EXCEPT ![c] = wire[c]]
      BY <2>2, FInvTypes DEF GiveUp
    <3>2. Begins(wire[c], wire[c])
      BY <1>3, LenProperties DEF Begins
    <3> QED
      BY <1>3, <3>1, <3>2
  <2> QED
    BY <2>1, <2>2
<1>5. Mine(c)' = FALSE /\ current \in {0, c} /\ current' \in {0, c}
  BY <1>0, <1>1, ConnsAreNumbers DEF Mine
<1>6. PICK x \in Seq(Byte) : Begins(x, wire[c]) /\ wire' = [wire EXCEPT ![c] = x]
  BY <1>4
<1>7. Frames(place[c], x, zone[c], taken[c], sent[c], clean[c], down[c], FALSE, "nothing")
  <2>1. Frames(place[c], wire[c], zone[c], taken[c], sent[c], clean[c], down[c],
               Mine(c), awaiting)
    BY <1>2, FInvTypes
  <2> QED
    BY <1>3, <1>6, <2>1, CloseFrames
<1>8. FTypes' /\ OthersAsBefore(c)
  BY <1>1, <1>2, <1>6, FInvTypes DEF FTypes, OthersAsBefore
<1>9. wire'[c] = x
  BY <1>2, <1>6, FInvTypes
<1>10. Framing(c)'
  BY <1>1, <1>5, <1>7, <1>9 DEF Framing
<1> QED
  BY <1>2, <1>5, <1>8, <1>10, OneFraming

\* Every step keeps the invariant about the bytes.
LEMMA FInvStep == IInv /\ FInv /\ [Next]_vars => FInv'
<1> SUFFICES ASSUME IInv, FInv, [Next]_vars PROVE FInv'
  OBVIOUS
<1>1. ASSUME NEW c \in Conns, HandleConnection(c) PROVE FInv'
  BY <1>1, LoginFraming, TakeFraming, HandlerFraming DEF HandleConnection
<1>2. CASE Device \/ Break
  BY <1>2, ConnectFraming, SendFraming, ReadFraming, CloseFraming DEF Device
<1>3. CASE UNCHANGED vars
  BY <1>3, Zenon DEF FInv, FTypes, Framing, Mine, vars, receiver, device
<1> QED
  BY <1>1, <1>2, <1>3 DEF Next, Rest

\* Packets are read as they were sent, and their statuses are queued in order.
LEMMA QueueBySent == IInv /\ FInv => QueueIsWhatWasSent
<1> SUFFICES ASSUME IInv, FInv, NEW c \in Conns, NEW i \in DOMAIN queue[c]
             PROVE  IF i <= clean[c] THEN queue[c][i] = Reported(Messages[sent[c][i]])
                    ELSE ~Undamaged(c)
  BY DEF QueueIsWhatWasSent
<1> DEFINE w == wire[c]
           t == taken[c]
           s == sent[c]
           cl == clean[c]
           k == Known(s, cl)
<1>1. /\ IsSequence(t) /\ s \in Seq(DOMAIN Messages) /\ cl \in Nat
      /\ IsSequence(queue[c]) /\ QueueFollowsPackets(c)
  BY FInvTypes DEF IInv, TypeOK
<1>2. cl <= Len(s) /\ Stream(w, t, s, cl, k, Reading(place[c]), Mine(c))
  BY FInvTypes, Zenon DEF Frames
<1>3. /\ s \in Seq(Nat) /\ Len(s) \in Nat /\ k \in Nat /\ cl <= k /\ k <= Len(s)
  BY <1>1, <1>2, KnownType
<1>4. /\ k = Len(s) => Len(t) <= Len(s)
      /\ ReadAsSent(t, s, cl, k)
  <2> DEFINE r == Reading(place[c])
             m == Mine(c)
  <2>1. Stream(w, t, s, cl, k, r, m)
    BY <1>2
  <2> HIDE DEF r, m, w, t, s, cl, k
  <2> QED
    BY <1>1, <1>3, <2>1, StreamReads
<1>5. i \in 1..Len(t) /\ queue[c][i] = ToProtobufDeviceStatus(t[i]) /\ Len(t) \in Nat
  <2>1. /\ Len(t) \in {Len(queue[c]), Len(queue[c]) + 1}
        /\ queue[c][i] = ToProtobufDeviceStatus(t[i])
    BY <1>1 DEF QueueFollowsPackets
  <2> QED
    BY <1>1, <2>1, Positions
<1>k. k = IF DamageIsSeen THEN Len(s) ELSE cl
  BY DEF Known
<1> HIDE DEF w, t, s, cl, k
<1>6. CASE i <= cl
  <2>1. i \in 1..Len(t) /\ i <= k /\ i \in 1..Len(s)
    BY <1>1, <1>2, <1>3, <1>5, <1>6
  <2>2. t[i] = parsePacket(Packed(s[i]), LoginZone) /\ t[i].kind = "packet"
    BY <1>4, <1>6, <2>1 DEF ReadAsSent
  <2>3. s[i] \in DOMAIN Messages
    BY <1>1, <2>1, ElementOfSeq
  <2>4. t[i] # Ends
    BY <2>2 DEF Ends
  <2>5. ToProtobufDeviceStatus(t[i]) = Reported(Messages[s[i]])
    BY <2>2, <2>3, <2>4, Gt06Codec
  <2> QED
    BY <1>5, <1>6, <2>5 DEF s, cl
<1>7. CASE ~(i <= cl)
  <2>1. SUFFICES ASSUME cl = Len(s) PROVE FALSE
    BY <1>7 DEF Undamaged, s, cl
  <2>2. k = Len(s)
    BY <1>3, <2>1
  <2> QED
    BY <1>1, <1>3, <1>4, <1>5, <1>7, <2>1, <2>2
<1> QED
  BY <1>6, <1>7

\* The store gets of each connection what the device sent over it, packet by
\* packet, up to the first damaged one: whatever the messages, their encoding
\* and the damage, as long as each message alone is read as what it reports
\* (parsePacket, ToProtobufDeviceStatus, gt06.go:88-123).
THEOREM Faithful == Spec => []QueueIsWhatWasSent
<1> QED
  BY InitInv, StepInv, FInvInit, FInvStep, QueueBySent, PTL DEF Spec

-----------------------------------------------------------------------------

\* What is true of the replies of one connection at place p, of its packets t,
\* the queue q, the replies d on their way, and f, the messages confirmed by
\* those that have arrived.
Confirms(p, t, q, d, f) ==
    /\ DamageIsSeen => f <= Len(q)
    /\ Serials(t)
    /\ Replies(d, t, Past(p, t, q))

Confirming(c) == Confirms(place[c], taken[c], queue[c], down[c], confirmed[c])

\* The messages of the device's connection are in order.
InOrder == current # 0 => Ordered(sent[current], next, awaiting)

\* The invariant about replies.
RInv ==
    /\ confirmed \in [Conns -> Int]
    /\ \A c \in Conns : Confirming(c)
    /\ InOrder

\* A packet is read.
LEMMA TakeConfirms ==
    ASSUME NEW t, NEW r, NEW q, NEW d, NEW f, Ok("read", t, r, q),
           Confirms("read", t, q, d, f),
           NEW e, e.serial \in Seq(Byte), Len(e.serial) = 2,
           NEW p \in {"reply", "queue"}, NEW u, u = Append(t, e)
    PROVE  Confirms(p, u, q, d, f)
<1>1. /\ IsSequence(u) /\ Len(u) = Len(t) + 1 /\ u[Len(t) + 1] = e
      /\ \A i \in 1..Len(t) : u[i] = t[i]
      /\ Len(t) \in Nat /\ Len(t) = Len(q)
  BY AppendToSequence, LengthType DEF Ok, Follows
<1>2. Serials(u)
  <2> SUFFICES ASSUME NEW i \in 1..Len(u)
               PROVE  u[i].serial \in Seq(Byte) /\ Len(u[i].serial) = 2
    BY DEF Serials
  <2>1. i \in 1..Len(t) \/ i = Len(t) + 1
    BY <1>1
  <2> QED
    BY <1>1, <2>1 DEF Confirms, Serials
<1>3. Replies(d, t, Len(q))
  BY DEF Confirms, Past
<1>4. \A i \in 1..Len(q) : i \in 1..Past(p, u, q) /\ u[i] = t[i]
  BY <1>1 DEF Past
<1>5. Replies(d, u, Past(p, u, q))
  BY <1>3, <1>4, MoreReplies
<1> QED
  BY <1>2, <1>5 DEF Confirms

\* A heartbeat is replied to.
LEMMA ReplyConfirmsIt ==
    ASSUME NEW t, NEW r, NEW q, NEW d, NEW f, Ok("reply", t, r, q),
           Confirms("reply", t, q, d, f),
           NEW x, x = d \o sendResponse(t[Len(t)])
    PROVE  Confirms("queue", t, q, x, f)
<1>1. /\ Len(t) \in Nat /\ Len(q) \in Nat /\ Len(t) = Len(q) + 1
      /\ t[Len(t)].type = MSG_HeartbeatData
  BY LengthType DEF Ok, Follows, Replied
<1>2. Len(t) \in 1..Len(t)
  BY <1>1
<1>3. t[Len(t)].serial \in Seq(Byte) /\ Len(t[Len(t)].serial) = 2
  BY <1>2 DEF Confirms, Serials
<1>4. Replies(d, t, Len(q))
  BY DEF Confirms, Past
<1>5. \A i \in 1..Len(q) : i \in 1..Len(t) /\ t[i] = t[i]
  BY <1>1
<1>6. Replies(d, t, Len(t))
  BY <1>4, <1>5, MoreReplies
<1>7. AnswersTo(t, Len(t), t[Len(t)].serial)
  BY <1>1, <1>2 DEF AnswersTo
<1>8. Replies(x, t, Len(t))
  BY <1>3, <1>6, <1>7, AddReply
<1> QED
  BY <1>8 DEF Confirms, Past

\* Its status is queued.
LEMMA QueueConfirms ==
    ASSUME NEW t, NEW r, NEW q, NEW d, NEW f \in Int, Ok("queue", t, r, q),
           Confirms("queue", t, q, d, f), NEW e, NEW u, u = Append(q, e)
    PROVE  Confirms("read", t, u, d, f)
<1>1. /\ Len(t) \in Nat /\ Len(q) \in Nat /\ Len(t) = Len(q) + 1
      /\ Len(u) = Len(q) + 1
  BY AppendToSequence, LengthType DEF Ok, Follows
<1>2. Past("queue", t, q) = Len(t) /\ Past("read", t, u) = Len(t)
  BY <1>1 DEF Past
<1>3. DamageIsSeen => f <= Len(u)
  BY <1>1 DEF Confirms
<1> QED
  BY <1>2, <1>3 DEF Confirms

\* Reading goes on, or ends.
LEMMA MoveConfirms ==
    ASSUME NEW t, NEW q, NEW d, NEW f,
           NEW p \in {"new", "login", "read", "reply"}, Confirms(p, t, q, d, f),
           NEW g \in {"login", "read", "ended"}
    PROVE  Confirms(g, t, q, d, f)
<1>1. Past(p, t, q) = Len(q) /\ Past(g, t, q) = Len(q)
  BY DEF Past
<1> QED
  BY <1>1 DEF Confirms

\* The login is replied to, which is no heartbeat.
LEMMA LoginConfirms ==
    ASSUME NEW t, NEW q, NEW d, NEW f, Confirms("login", t, q, d, f),
           NEW packet, packet.serial \in Seq(Byte), Len(packet.serial) = 2,
           packet.type = MSG_LoginData, NEW x, x = d \o sendResponse(packet)
    PROVE  Confirms("read", t, q, x, f)
<1>1. Past("login", t, q) = Len(q) /\ Past("read", t, q) = Len(q)
  BY DEF Past
<1>2. Replies(d, t, Len(q))
  BY <1>1 DEF Confirms
<1>3. packet.type # MSG_HeartbeatData
  BY DEF MSG_LoginData, MSG_HeartbeatData
<1>4. Replies(x, t, Len(q))
  BY <1>2, <1>3, AddReply
<1> QED
  BY <1>1, <1>4 DEF Confirms

\* A reply to the heartbeat the device waits for arrives: it is the last one
\* sent, and has been read, and all before it are in the queue.
LEMMA ArrivalConfirms ==
    ASSUME NEW p, NEW w, NEW z, NEW t, NEW r, NEW q, NEW s \in Seq(DOMAIN Messages), 
           NEW cl \in Nat, NEW d, NEW mine, NEW a, NEW n \in Nat,
           Ok(p, t, r, q), Frames(p, w, z, t, s, cl, d, mine, a), Ordered(s, n, "reply"),
           DamageIsSeen, AnswersTo(t, Past(p, t, q), Put(n, 2))
    PROVE  Len(s) - 1 <= Len(q)
<1>1. /\ IsSequence(t) /\ Len(t) \in Nat /\ Len(q) \in Nat
      /\ Len(t) \in {Len(q), Len(q) + 1}
  BY LengthType DEF Ok, Follows
<1>2. s \in Seq(Nat) /\ Len(s) \in Nat /\ Known(s, cl) = Len(s)
  <2>1. cl <= Len(s)
    BY DEF Frames
  <2> QED
    BY <2>1, KnownType DEF Known
<1>3. Len(t) <= Len(s) /\ ReadAsSent(t, s, cl, Len(s))
  <2> DEFINE m == Reading(p)
  <2>1. Stream(w, t, s, cl, Len(s), m, mine)
    BY <1>2, Zenon DEF Frames
  <2> HIDE DEF m
  <2>2. Len(s) <= Len(s)
    BY <1>2
  <2> QED
    BY <1>1, <1>2, <2>1, <2>2, StreamReads
<1>4. PICK i \in 1..Past(p, t, q) : t[i].type = MSG_HeartbeatData /\ t[i].serial = Put(n, 2)
  BY DEF AnswersTo
<1>5. i \in 1..Len(t) /\ i <= Len(s) /\ i \in 1..Len(s) /\ i <= Len(q) + 1
  BY <1>1, <1>2, <1>3 DEF Past
<1>6. PICK v \in {Packed(s[i])} \cup Damaged(Packed(s[i])) :
         t[i] = parsePacket(v, LoginZone) /\ t[i].kind = "packet"
  BY <1>3, <1>5 DEF ReadAsSent
<1>7. s[i] \in DOMAIN Messages /\ s[Len(s)] = n /\ Len(s) \in 1..Len(s) /\ n \in DOMAIN Messages
  <2>1. s[Len(s)] = n /\ Len(s) \in 1..Len(s)
    BY <1>2, ReplyOrdered DEF Ordered
  <2> QED
    BY <1>5, <2>1, ElementOfSeq
<1>8. n = s[i]
  BY <1>4, <1>6, <1>7 DEF DamageIsSeen
<1>9. i = Len(s)
  BY <1>2, <1>5, <1>8, ReplyOrdered
<1> QED
  BY <1>1, <1>2, <1>5, <1>9

\* It holds initially.
LEMMA RInvInit == Init => RInv
<1> SUFFICES ASSUME Init PROVE RInv
  OBVIOUS
<1>1. Replies(<<>>, <<>>, 0)
  <2>1. Len(<<>>) = 10 * 0 /\ 0 \in Nat /\ \A j \in 0..0 - 1 : FALSE
    OBVIOUS
  <2>2. RepliesTo(<<>>, 0, <<>>, 0)
    BY <2>1 DEF RepliesTo
  <2> QED
    BY <2>2, EmptyIsSequence DEF Replies
<1>2. Confirms("new", <<>>, <<>>, <<>>, 0)
  <2>1. Past("new", <<>>, <<>>) = 0 /\ 0 <= Len(<<>>) /\ Serials(<<>>)
    BY DEF Past, Serials
  <2> QED
    BY <1>1, <2>1 DEF Confirms
<1>3. ASSUME NEW c \in Conns PROVE Confirming(c)
  BY <1>2 DEF Init, Confirming
<1> QED
  BY <1>3 DEF Init, RInv, InOrder

\* What one step over a connection must show.
LEMMA OneConfirming ==
    ASSUME RInv, NEW c \in Conns, confirmed' \in [Conns -> Int],
           \A e \in Conns \ {c} :
               UNCHANGED <<place[e], taken[e], queue[e], down[e], confirmed[e]>>,
           Confirming(c)', InOrder'
    PROVE  RInv'
<1>1. ASSUME NEW e \in Conns, e # c PROVE Confirming(e)'
  <2>1. /\ place'[e] = place[e] /\ taken'[e] = taken[e] /\ queue'[e] = queue[e]
        /\ down'[e] = down[e] /\ confirmed'[e] = confirmed[e]
    BY <1>1
  <2> QED
    BY <2>1 DEF RInv, Confirming
<1> QED
  BY <1>1 DEF RInv

\* What the invariants say of a connection.
LEMMA RInvTypes ==
    ASSUME IInv, FInv, RInv
    PROVE  /\ DOMAIN place = Conns /\ DOMAIN taken = Conns /\ DOMAIN queue = Conns
           /\ DOMAIN down = Conns /\ confirmed \in [Conns -> Int]
           /\ \A c \in Conns :
                /\ Ok(place[c], taken[c], replied[c], queue[c])
                /\ Confirms(place[c], taken[c], queue[c], down[c], confirmed[c])
                /\ sent[c] \in Seq(DOMAIN Messages) /\ sent[c] \in Seq(Nat)
                /\ clean[c] \in Nat /\ wire[c] \in Seq(Byte)
           /\ next \in Nat /\ current \in Conns \cup {0}
<1>1. \A c \in Conns : Ok(place[c], taken[c], replied[c], queue[c])
  BY InvByConnection DEF Connections, Connection
<1>2. DOMAIN Messages \subseteq Nat
  BY Gt06Assumption, Positions
<1>3. \A c \in Conns : sent[c] \in Seq(DOMAIN Messages) /\ sent[c] \in Seq(Nat)
  BY <1>2, FInvTypes, SeqMonotonic
<1>4. /\ DOMAIN place = Conns /\ DOMAIN taken = Conns /\ DOMAIN queue = Conns
  BY DEF IInv, TypeOK
<1> QED
  BY <1>1, <1>3, <1>4, FInvTypes DEF RInv, Confirming

\* The login packet is read, and replied to.
LEMMA LoginConfirming == ASSUME IInv, FInv, RInv, NEW c \in Conns, Login(c) PROVE RInv'
<1> DEFINE packet == parsePacket(wire[c], 0)
<1>1. /\ place[c] = "login" /\ place' = [place EXCEPT ![c] = "read"]
      /\ packet.kind = "packet" /\ packet.type = MSG_LoginData
      /\ down' = [down EXCEPT ![c] = down[c] \o sendResponse(packet)]
      /\ UNCHANGED <<taken, queue, confirmed, current, sent, next, awaiting>>
  BY DEF Login, Goes, Writes, device
<1>2. packet.serial \in Seq(Byte) /\ Len(packet.serial) = 2
  BY <1>1, RInvTypes, PacketIsWithin
<1> HIDE DEF packet
<1>3. /\ place'[c] = "read" /\ down'[c] = down[c] \o sendResponse(packet)
      /\ taken'[c] = taken[c] /\ queue'[c] = queue[c] /\ confirmed'[c] = confirmed[c]
  BY <1>1, RInvTypes
<1>4. Confirms("login", taken[c], queue[c], down[c], confirmed[c])
  BY <1>1, RInvTypes
<1>5. Confirms("read", taken[c], queue[c], down'[c], confirmed[c])
  BY <1>1, <1>2, <1>3, <1>4, LoginConfirms
<1>6. Confirming(c)' /\ InOrder'
  BY <1>1, <1>3, <1>5 DEF Confirming, RInv, InOrder
<1>7. /\ confirmed' \in [Conns -> Int]
      /\ \A e \in Conns \ {c} :
            UNCHANGED <<place[e], taken[e], queue[e], down[e], confirmed[e]>>
  BY <1>1, RInvTypes
<1> QED
  BY <1>6, <1>7, OneConfirming

\* A packet is read.
LEMMA TakeConfirming == ASSUME IInv, FInv, RInv, NEW c \in Conns, TakePacket(c) PROVE RInv'
<1> DEFINE packet == parsePacket(wire[c], zone[c])
           p == IF NeedsReply(packet.type) THEN "reply" ELSE "queue"
           u == Append(taken[c], packet)
<1>1. /\ place[c] = "read" /\ place' = [place EXCEPT ![c] = p]
      /\ packet.kind = "packet" /\ taken' = [taken EXCEPT ![c] = u]
      /\ UNCHANGED <<down, queue, confirmed, current, sent, next, awaiting>>
  BY DEF TakePacket, Goes, device
<1>2. packet.serial \in Seq(Byte) /\ Len(packet.serial) = 2
  BY <1>1, RInvTypes, PacketIsWithin
<1>3. p \in {"reply", "queue"} /\ u = Append(taken[c], packet)
  OBVIOUS
<1> HIDE DEF packet, p, u
<1>4. /\ place'[c] = p /\ down'[c] = down[c] /\ taken'[c] = u
      /\ queue'[c] = queue[c] /\ confirmed'[c] = confirmed[c]
  BY <1>1, RInvTypes
<1>5. /\ Ok("read", taken[c], replied[c], queue[c])
      /\ Confirms("read", taken[c], queue[c], down[c], confirmed[c])
  BY <1>1, RInvTypes
<1>6. Confirms(p, u, queue[c], down[c], confirmed[c])
  BY <1>2, <1>3, <1>5, TakeConfirms
<1>7. Confirming(c)' /\ InOrder'
  BY <1>1, <1>4, <1>6 DEF Confirming, RInv, InOrder
<1>8. /\ confirmed' \in [Conns -> Int]
      /\ \A e \in Conns \ {c} :
            UNCHANGED <<place[e], taken[e], queue[e], down[e], confirmed[e]>>
  BY <1>1, RInvTypes
<1> QED
  BY <1>7, <1>8, OneConfirming

\* A heartbeat is replied to.
LEMMA SendReplyConfirming ==
    ASSUME IInv, FInv, RInv, NEW c \in Conns, SendReply(c) PROVE RInv'
<1> DEFINE x == down[c] \o sendResponse(taken[c][Len(taken[c])])
<1>1. /\ place[c] = "reply" /\ place' = [place EXCEPT ![c] = "queue"]
      /\ down' = [down EXCEPT ![c] = x]
      /\ UNCHANGED <<taken, queue, confirmed, current, sent, next, awaiting>>
  BY DEF SendReply, Goes, Writes, Newest, device
<1>2. x = down[c] \o sendResponse(taken[c][Len(taken[c])])
  OBVIOUS
<1> HIDE DEF x
<1>3. /\ place'[c] = "queue" /\ down'[c] = x /\ taken'[c] = taken[c]
      /\ queue'[c] = queue[c] /\ confirmed'[c] = confirmed[c]
  BY <1>1, RInvTypes
<1>4. /\ Ok("reply", taken[c], replied[c], queue[c])
      /\ Confirms("reply", taken[c], queue[c], down[c], confirmed[c])
  BY <1>1, RInvTypes
<1>5. Confirms("queue", taken[c], queue[c], x, confirmed[c])
  BY <1>2, <1>4, ReplyConfirmsIt
<1>6. Confirming(c)' /\ InOrder'
  BY <1>1, <1>3, <1>5 DEF Confirming, RInv, InOrder
<1>7. /\ confirmed' \in [Conns -> Int]
      /\ \A e \in Conns \ {c} :
            UNCHANGED <<place[e], taken[e], queue[e], down[e], confirmed[e]>>
  BY <1>1, RInvTypes
<1> QED
  BY <1>6, <1>7, OneConfirming

\* A status is queued.
LEMMA QueueConfirming ==
    ASSUME IInv, FInv, RInv, NEW c \in Conns, QueueStatus(c) PROVE RInv'
<1> DEFINE e == ToProtobufDeviceStatus(taken[c][Len(taken[c])])
           u == Append(queue[c], e)
<1>1. /\ place[c] = "queue" /\ place' = [place EXCEPT ![c] = "read"]
      /\ queue' = [queue EXCEPT ![c] = u]
      /\ UNCHANGED <<taken, down, confirmed, current, sent, next, awaiting>>
  BY DEF QueueStatus, Goes, Newest, device
<1>2. u = Append(queue[c], e)
  OBVIOUS
<1> HIDE DEF u, e
<1>3. /\ place'[c] = "read" /\ down'[c] = down[c] /\ taken'[c] = taken[c]
      /\ queue'[c] = u /\ confirmed'[c] = confirmed[c]
  BY <1>1, RInvTypes
<1>4. /\ Ok("queue", taken[c], replied[c], queue[c]) /\ confirmed[c] \in Int
      /\ Confirms("queue", taken[c], queue[c], down[c], confirmed[c])
  BY <1>1, RInvTypes
<1>5. Confirms("read", taken[c], u, down[c], confirmed[c])
  BY <1>2, <1>4, QueueConfirms
<1>6. Confirming(c)' /\ InOrder'
  BY <1>1, <1>3, <1>5 DEF Confirming, RInv, InOrder
<1>7. /\ confirmed' \in [Conns -> Int]
      /\ \A d \in Conns \ {c} :
            UNCHANGED <<place[d], taken[d], queue[d], down[d], confirmed[d]>>
  BY <1>1, RInvTypes
<1> QED
  BY <1>6, <1>7, OneConfirming

\* A connection begins, or ends.
LEMMA MoveConfirming ==
    ASSUME IInv, FInv, RInv, NEW c \in Conns, NEW p \in {"new", "login", "read", "reply"},
           NEW g \in {"login", "read", "ended"}, Goes(c, p, g),
           UNCHANGED <<taken, queue, down, confirmed>>, InOrder'
    PROVE  RInv'
<1>1. place[c] = p /\ place' = [place EXCEPT ![c] = g]
  BY DEF Goes
<1>2. /\ place'[c] = g /\ down'[c] = down[c] /\ taken'[c] = taken[c]
      /\ queue'[c] = queue[c] /\ confirmed'[c] = confirmed[c]
  BY <1>1, RInvTypes
<1>3. Confirms(p, taken[c], queue[c], down[c], confirmed[c])
  BY <1>1, RInvTypes
<1>4. Confirming(c)'
  BY <1>2, <1>3, MoveConfirms DEF Confirming
<1>5. /\ confirmed' \in [Conns -> Int]
      /\ \A e \in Conns \ {c} :
            UNCHANGED <<place[e], taken[e], queue[e], down[e], confirmed[e]>>
  BY <1>1, RInvTypes
<1> QED
  BY <1>4, <1>5, OneConfirming

\* Reading ends.
LEMMA EndConfirming ==
    ASSUME IInv, FInv, RInv, NEW c \in Conns, StreamEnds(c) PROVE RInv'
<1>1. PICK p \in {"login", "read", "reply"} : Goes(c, p, "ended")
  BY DEF StreamEnds
<1>2. UNCHANGED <<taken, queue, down, confirmed, current, sent, next, awaiting>>
  BY DEF StreamEnds, device
<1>3. InOrder'
  BY <1>2 DEF RInv, InOrder
<1> QED
  BY <1>1, <1>2, <1>3, MoveConfirming

\* The device connects.
LEMMA ConnectConfirming == ASSUME IInv, FInv, RInv, Connect PROVE RInv'
<1>1. PICK c \in Conns : place[c] = "new" /\ Goes(c, "new", "login") /\ current' = c
  BY DEF Connect, Goes
<1>2. /\ awaiting' = "login" /\ UNCHANGED <<taken, queue, down, next, sent, confirmed>>
  BY DEF Connect
<1>3. sent[c] = <<>>
  <2>1. Frames("new", wire[c], zone[c], taken[c], sent[c], clean[c], down[c],
               Mine(c), awaiting)
    BY <1>1, FInvTypes
  <2> QED
    BY <2>1 DEF Frames
<1>4. Ordered(<<>>, next, "login")
  <2>1. Len(<<>>) = 0
    OBVIOUS
  <2> QED
    BY <2>1 DEF Ordered
<1>5. InOrder'
  BY <1>1, <1>2, <1>3, <1>4 DEF InOrder
<1> QED
  BY <1>1, <1>2, <1>5, MoveConfirming

\* It sends a message.
LEMMA SendConfirming == ASSUME IInv, FInv, RInv, SendMessage PROVE RInv'
<1>1. /\ current # 0 /\ awaiting = "nothing"
      /\ sent' = [sent EXCEPT ![current] = Append(sent[current], next)]
      /\ (awaiting' = "reply" /\ next' = next) \/ (awaiting' = "nothing" /\ next' = next + 1)
      /\ UNCHANGED <<place, taken, queue, down, current, confirmed>>
  BY DEF SendMessage, receiver
<1>2. PICK c \in Conns : c = current
  BY <1>1, RInvTypes
<1>3. Ordered(sent[c], next, "nothing") /\ sent[c] \in Seq(Nat) /\ next \in Nat
  BY <1>1, <1>2, RInvTypes DEF RInv, InOrder
<1> DEFINE q == Append(sent[c], next)
<1>4. Ordered(q, next, "reply") /\ Ordered(q, next + 1, "nothing")
  BY <1>3, SendOrdered
<1>5. sent'[c] = q
  BY <1>1, <1>2, FInvTypes
<1> HIDE DEF q
<1>6. Ordered(sent'[c], next', awaiting')
  BY <1>1, <1>4, <1>5
<1>7. InOrder'
  BY <1>1, <1>2, <1>6 DEF InOrder
<1> QED
  BY <1>1, <1>7 DEF RInv, Confirming

\* It reads a reply, which may be the one it waits for.
LEMMA ReadConfirming == ASSUME IInv, FInv, RInv, ReadReply PROVE RInv'
<1>0. PICK c \in Conns : c = current /\ c # 0
  BY RInvTypes DEF ReadReply
<1> DEFINE d == down[c]
           x == SubSeq(d, 11, Len(d))
           reply == Slice(d, 0, 10)
           p == place[c]
           t == taken[c]
           q == queue[c]
           k == Past(p, t, q)
<1>1. /\ Len(d) >= 10 /\ down' = [down EXCEPT ![c] = x]
      /\ UNCHANGED <<place, wire, zone, taken, queue, sent, clean, current>>
  BY <1>0 DEF ReadReply, receiver
<1>2. \/ /\ awaiting = "login" /\ awaiting' = "nothing"
         /\ UNCHANGED <<next, confirmed>>
      \/ /\ awaiting = "reply" /\ IsReply(reply, MSG_HeartbeatData, Put(next, 2))
         /\ awaiting' = "nothing" /\ next' = next + 1
         /\ confirmed' = [confirmed EXCEPT ![c] = Len(sent[c]) - 1]
      \/ UNCHANGED <<awaiting, next, confirmed>>
  BY <1>0 DEF ReadReply
<1>3. /\ Ok(p, t, replied[c], q) /\ Confirms(p, t, q, d, confirmed[c])
      /\ sent[c] \in Seq(Nat) /\ sent[c] \in Seq(DOMAIN Messages) /\ next \in Nat
      /\ clean[c] \in Nat
      /\ Ordered(sent[c], next, awaiting) /\ Len(sent[c]) \in Nat
  BY <1>0, RInvTypes, LenProperties DEF RInv, InOrder
<1>4. /\ Replies(d, t, k) /\ Serials(t)
      /\ (DamageIsSeen => confirmed[c] <= Len(q))
  BY <1>3 DEF Confirms
<1>x. x = SubSeq(d, 11, Len(d))
  OBVIOUS
<1>5. /\ place' = place /\ taken' = taken /\ queue' = queue
      /\ down'[c] = x
  BY <1>1, RInvTypes
<1> HIDE DEF d, x, p, t, q, k
<1>6. /\ Replies(x, t, k)
      /\ d[4] = MSG_HeartbeatData => AnswersTo(t, k, <<d[5], d[6]>>)
  BY <1>1, <1>4, <1>x, CutReply
<1>7. /\ confirmed' \in [Conns -> Int]
      /\ \A e \in Conns \ {c} :
            UNCHANGED <<place[e], taken[e], queue[e], down[e], confirmed[e]>>
  <2>1. \/ confirmed' = confirmed
        \/ confirmed' = [confirmed EXCEPT ![c] = Len(sent[c]) - 1]
    BY <1>2
  <2>2. confirmed \in [Conns -> Int] /\ DOMAIN down = Conns /\ Len(sent[c]) - 1 \in Int
    BY <1>3, RInvTypes
  <2> QED
    BY <1>1, <2>1, <2>2
<1>S. ASSUME Confirms(p, t, q, x, confirmed'[c]), InOrder' PROVE RInv'
  <2>1. Confirming(c)'
    BY <1>5, <1>S DEF Confirming, p, t, q
  <2> QED
    BY <1>7, <1>S, <2>1, OneConfirming
<1>8. CASE /\ awaiting = "reply" /\ IsReply(reply, MSG_HeartbeatData, Put(next, 2))
           /\ awaiting' = "nothing" /\ next' = next + 1
           /\ confirmed' = [confirmed EXCEPT ![c] = Len(sent[c]) - 1]
  <2>1. DamageIsSeen => Len(sent[c]) - 1 <= Len(q)
    <3> SUFFICES ASSUME DamageIsSeen PROVE Len(sent[c]) - 1 <= Len(q)
      OBVIOUS
    <3>1. d[4] = MSG_HeartbeatData /\ <<d[5], d[6]>> = Put(next, 2)
      BY <1>1, <1>4, <1>8, ReplyIsFor DEF Replies, d
    <3>2. AnswersTo(t, k, Put(next, 2))
      BY <1>6, <3>1
    <3>3. Frames(p, wire[c], zone[c], t, sent[c], clean[c], d, Mine(c), awaiting)
      BY FInvTypes DEF p, t, d
    <3>4. Ordered(sent[c], next, "reply")
      BY <1>3, <1>8
    <3>5. AnswersTo(t, Past(p, t, q), Put(next, 2))
      BY <3>2 DEF k
    <3> DEFINE m == Mine(c)
    <3> HIDE DEF m
    <3>6. Frames(p, wire[c], zone[c], t, sent[c], clean[c], d, m, awaiting)
      BY <3>3 DEF m
    <3> QED
      BY <1>3, <3>4, <3>5, <3>6, ArrivalConfirms
  <2>2. Ordered(sent[c], next + 1, "nothing")
    BY <1>3, <1>8, ReplyOrdered
  <2>3. /\ awaiting' = "nothing" /\ next' = next + 1 /\ sent' = sent
        /\ confirmed'[c] = Len(sent[c]) - 1 /\ current' = c
    BY <1>0, <1>1, <1>8, RInvTypes
  <2>4. Confirms(p, t, q, x, Len(sent[c]) - 1)
    BY <1>4, <1>6, <2>1 DEF Confirms, k
  <2>5. InOrder'
    BY <2>2, <2>3 DEF InOrder
  <2> QED
    BY <1>S, <2>3, <2>4, <2>5
<1>9. CASE awaiting = "login" /\ awaiting' = "nothing" /\ UNCHANGED <<next, confirmed>>
  <2>1. Ordered(sent[c], next, "nothing")
    BY <1>3, <1>9 DEF Ordered
  <2>2. InOrder'
    BY <1>0, <1>1, <1>9, <2>1 DEF InOrder
  <2>3. Confirms(p, t, q, x, confirmed'[c])
    BY <1>4, <1>6, <1>9 DEF Confirms, k
  <2> QED
    BY <1>S, <2>2, <2>3
<1>10. CASE UNCHANGED <<awaiting, next, confirmed>>
  <2>1. InOrder'
    BY <1>1, <1>10 DEF RInv, InOrder
  <2>2. Confirms(p, t, q, x, confirmed'[c])
    BY <1>4, <1>6, <1>10 DEF Confirms, k
  <2> QED
    BY <1>S, <2>1, <2>2
<1> QED
  BY <1>2, <1>8, <1>9, <1>10

\* Every step keeps the invariant about replies.
LEMMA RInvStep == IInv /\ FInv /\ RInv /\ [Next]_vars => RInv'
<1> SUFFICES ASSUME IInv, FInv, RInv, [Next]_vars PROVE RInv'
  OBVIOUS
<1>1. ASSUME NEW c \in Conns, HandleConnection(c) PROVE RInv'
  BY <1>1, LoginConfirming, TakeConfirming, SendReplyConfirming, QueueConfirming,
     EndConfirming DEF HandleConnection
<1>2. CASE Break \/ GiveUp
  <2>1. current' = 0 /\ UNCHANGED <<place, taken, queue, down, confirmed>>
    BY <1>2 DEF Break, GiveUp, Closes, receiver
  <2> QED
    BY <2>1 DEF RInv, Confirming, InOrder
<1>3. CASE UNCHANGED vars
  BY <1>3 DEF RInv, Confirming, InOrder, vars, receiver, device
<1> QED
  BY <1>1, <1>2, <1>3, ConnectConfirming, SendConfirming, ReadConfirming
     DEF Next, Device, Rest

\* When the device reads the reply to a heartbeat, everything it sent before is in
\* the queue, if damage is seen: the checksum of a packet is not compared
\* (gt06.go:238-251), so that it may move the end of a packet, or make a reply look
\* like that to another heartbeat (gt06.go:100-120).
THEOREM Confirmation == Spec => [](DamageIsSeen => ReplyConfirms)
<1>1. RInv => (DamageIsSeen => ReplyConfirms)
  <2> SUFFICES ASSUME RInv, DamageIsSeen, NEW c \in Conns PROVE Len(queue[c]) >= confirmed[c]
    BY DEF ReplyConfirms
  <2>1. confirmed[c] <= Len(queue[c])
    BY DEF RInv, Confirming, Confirms
  <2> QED
    BY <2>1
<1> QED
  BY <1>1, InitInv, StepInv, FInvInit, FInvStep, RInvInit, RInvStep, PTL DEF Spec

==============================================================================
