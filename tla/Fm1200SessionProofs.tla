------------------------- MODULE Fm1200SessionProofs -------------------------
(***************************************************************************)
(* The FM1200 session. In the order of the module: that no connection       *)
(* acknowledges a record it has not queued, whatever the bytes on it are;   *)
(* and, if consumeMessage sees that a packet is damaged (DamageIsSeen), that *)
(* the store reads what the tracker measured, that a wrong response is the  *)
(* last thing a connection yields, and that the session implements Delivery. *)
(* The second part follows a stream of packets by the relation Chain of     *)
(* SequenceFacts: the bytes that are on a connection and have not been read  *)
(* begin such a stream, with at most one batch in it (Up), the bytes back to *)
(* the tracker are one of commands with at most one acknowledgement (Down),  *)
(* and Holds relates both to the queue. Its lemmas are stated of the values  *)
(* of one connection and not of the variables: a step is then an instance.   *)
(***************************************************************************)
EXTENDS Fm1200Session, SequenceFacts

-----------------------------------------------------------------------------
(* The parser.                                                              *)

\* A byte is a number, at every position of a sequence of bytes.
LEMMA BytesAreNumbers == \A x \in Byte : x \in Nat
  BY DEF Byte

\* One byte is a natural number,
LEMMA Uint8Type ==
    ASSUME NEW b \in Seq(Byte), NEW at \in Nat, at < Len(b)
    PROVE  Uint8(b, at) \in Nat
<1>1. b[at + 1] \in Byte
  BY ElementOfSeq
<1> QED
  BY <1>1, BytesAreNumbers DEF Uint8

\* and so are two of them,
LEMMA Uint16Type ==
    ASSUME NEW b \in Seq(Byte), NEW at \in Nat, at + 2 <= Len(b)
    PROVE  Uint16(b, at) \in Nat
<1>1. b[at + 1] \in Byte /\ b[at + 2] \in Byte
  BY ElementOfSeq
<1>2. \A x, y \in Nat : x * 256 + y \in Nat
  OBVIOUS
<1>3. b[at + 1] * 256 + b[at + 2] \in Nat
  BY <1>1, <1>2, BytesAreNumbers
<1> QED
  BY <1>3 DEF Uint16

\* and four.
LEMMA Uint32Type ==
    ASSUME NEW b \in Seq(Byte), NEW at \in Nat, at + 4 <= Len(b)
    PROVE  Uint32(b, at) \in Nat
<1>1. Uint16(b, at) \in Nat /\ Uint16(b, at + 2) \in Nat
  BY Uint16Type
<1> QED
  BY <1>1 DEF Uint32

\* The number at a position, read of more of the stream.
LEMMA Uint32OfBeginning ==
    ASSUME NEW p \in Seq(Byte), NEW b \in Seq(Byte), Begins(p, b),
           NEW at \in Nat, at + 4 <= Len(p)
    PROVE  Uint32(b, at) = Uint32(p, at)
<1>1. /\ at + 1 \in 1..Len(p) /\ at + 2 \in 1..Len(p)
      /\ (at + 2) + 1 \in 1..Len(p) /\ (at + 2) + 2 \in 1..Len(p)
  BY LenProperties
<1>2. Uint16(b, at) = Uint16(p, at) /\ Uint16(b, at + 2) = Uint16(p, at + 2)
  BY <1>1 DEF Begins, Uint16
<1> QED
  BY <1>2 DEF Uint32

\* The parts of a packet that consumeMessage tells apart: the length of the data,
Size(b) == Uint32(b, 4)

\* the data,
Data(b) == Slice(b, 8, Size(b))

\* its checksum,
Trailer(b) == Slice(b, 8 + Size(b), 4)

\* the preamble,
Zeros(b) == Slice(b, 0, 4) = <<0, 0, 0, 0>>

\* the response that is in the data,
Response(data) == ParseDeviceResponse(data, 1)

\* or the records.
Records(data) == parseDataToRecord(data, 1, data[1])

\* consumeMessage, case by case.
LEMMA ConsumeMessageByParts ==
    ASSUME NEW b \in Seq(Byte)
    PROVE  consumeMessage(b) =
             IF Len(b) < 4 THEN Waits
             ELSE IF ~Zeros(b) THEN Ends
             ELSE IF Len(b) < 8 THEN Waits
             ELSE IF Len(b) < 8 + Size(b) THEN Waits
             ELSE IF Size(b) = 0 THEN Ends
             ELSE IF Data(b)[1] = codec12
             THEN IF Response(Data(b)).end = Eof THEN Ends
                  ELSE [kind |-> "response", data |-> Response(Data(b)).data,
                        of |-> Data(b)]
             ELSE IF Records(Data(b)).end = Eof THEN Ends
             ELSE IF Len(b) < 12 + Size(b) THEN Waits
             ELSE IF ~ValidateCrc(Data(b), Trailer(b)) THEN Ends
             ELSE [kind |-> "records", size |-> Size(b),
                   number |-> Records(Data(b)).number,
                   records |-> Records(Data(b)).records]
<1>1. Len(b) < 4 <=> ~(Len(b) >= 4)
  BY LenProperties
<1>2. consumeMessage(b) =
        CASE Len(b) < 4               -> Waits
          [] Len(b) >= 4 /\ ~Zeros(b) -> Ends
          [] OTHER ->
             IF Len(b) < 8 THEN Waits
             ELSE IF Len(b) < 8 + Size(b) THEN Waits
             ELSE IF Size(b) = 0 THEN Ends
             ELSE IF Data(b)[1] = codec12
             THEN IF Response(Data(b)).end = Eof THEN Ends
                  ELSE [kind |-> "response", data |-> Response(Data(b)).data,
                        of |-> Data(b)]
             ELSE IF Records(Data(b)).end = Eof THEN Ends
             ELSE IF Len(b) < 12 + Size(b) THEN Waits
             ELSE IF ~ValidateCrc(Data(b), Trailer(b)) THEN Ends
             ELSE [kind |-> "records", size |-> Size(b),
                   number |-> Records(Data(b)).number,
                   records |-> Records(Data(b)).records]
  BY DEF consumeMessage, Size, Data, Trailer, Zeros, Response, Records
<1> QED
  BY <1>1, <1>2

\* What the first bytes of a stream are a message of, or an error, that the stream
\* is too, whatever follows (consumeMessage reads no further than it must).
LEMMA ConsumeBeginning ==
    ASSUME NEW p \in Seq(Byte), NEW b \in Seq(Byte), Begins(p, b),
           consumeMessage(p) # Waits
    PROVE  consumeMessage(b) = consumeMessage(p)
<1>1. Len(p) \in Nat /\ Len(b) \in Nat /\ Len(p) <= Len(b)
  BY LenProperties DEF Begins
<1>2. ~(Len(p) < 4) /\ ~(Len(b) < 4)
  BY <1>1, ConsumeMessageByParts
<1>3. Zeros(b) <=> Zeros(p)
  <2>1. 0 \in Nat /\ 4 \in Nat /\ 0 + 4 <= Len(p)
    BY <1>1, <1>2
  <2>2. Slice(b, 0, 4) = Slice(p, 0, 4)
    BY <2>1, SliceOfBeginning
  <2> QED
    BY <2>2 DEF Zeros
<1>4. CASE ~Zeros(p)
  BY <1>2, <1>3, <1>4, ConsumeMessageByParts
<1>5. CASE Zeros(p)
  <2>1. ~(Len(p) < 8) /\ ~(Len(b) < 8)
    BY <1>1, <1>2, <1>5, ConsumeMessageByParts
  <2>2. Size(b) = Size(p) /\ Size(p) \in Nat
    <3>1. 4 \in Nat /\ 4 + 4 <= Len(p)
      BY <1>1, <2>1
    <3> QED
      BY <3>1, Uint32OfBeginning, Uint32Type DEF Size
  <2>3. ~(Len(p) < 8 + Size(p)) /\ ~(Len(b) < 8 + Size(b))
    <3>1. ~(Len(p) < 8 + Size(p))
      BY <1>2, <1>5, <2>1, ConsumeMessageByParts
    <3> QED
      BY <1>1, <2>2, <3>1
  <2>4. Data(b) = Data(p)
    <3>1. 8 \in Nat /\ Size(p) \in Nat /\ 8 + Size(p) <= Len(p)
      BY <1>1, <2>2, <2>3
    <3>2. Slice(b, 8, Size(p)) = Slice(p, 8, Size(p))
      BY <3>1, SliceOfBeginning
    <3> QED
      BY <2>2, <3>2 DEF Data
  <2>5. CASE \/ Size(p) = 0 \/ Data(p)[1] = codec12 \/ Records(Data(p)).end = Eof
    BY <1>2, <1>3, <1>5, <2>1, <2>2, <2>3, <2>4, <2>5, ConsumeMessageByParts
  <2>6. CASE /\ Size(p) # 0 /\ Data(p)[1] # codec12 /\ Records(Data(p)).end # Eof
    <3>1. ~(Len(p) < 12 + Size(p))
      BY <1>2, <1>5, <2>1, <2>3, <2>6, ConsumeMessageByParts
    <3>2. ~(Len(b) < 12 + Size(b))
      BY <1>1, <2>2, <3>1
    <3>3. Trailer(b) = Trailer(p)
      <4>1. 8 + Size(p) \in Nat /\ 4 \in Nat /\ (8 + Size(p)) + 4 <= Len(p)
        BY <1>1, <2>2, <3>1
      <4>2. Slice(b, 8 + Size(p), 4) = Slice(p, 8 + Size(p), 4)
        BY <4>1, SliceOfBeginning
      <4> QED
        BY <2>2, <4>2 DEF Trailer
    <3>4. consumeMessage(p) =
            IF ~ValidateCrc(Data(p), Trailer(p)) THEN Ends
            ELSE [kind |-> "records", size |-> Size(p),
                  number |-> Records(Data(p)).number,
                  records |-> Records(Data(p)).records]
      BY <1>2, <1>5, <2>1, <2>3, <2>6, <3>1, ConsumeMessageByParts
    <3>5. consumeMessage(b) =
            IF ~ValidateCrc(Data(p), Trailer(p)) THEN Ends
            ELSE [kind |-> "records", size |-> Size(p),
                  number |-> Records(Data(p)).number,
                  records |-> Records(Data(p)).records]
      BY <1>2, <1>3, <1>5, <2>1, <2>2, <2>3, <2>4, <2>6, <3>2, <3>3, ConsumeMessageByParts
    <3> QED
      BY <3>4, <3>5
  <2> QED
    BY <2>5, <2>6
<1> QED
  BY <1>4, <1>5

\* A packet of records is there to its last byte.
LEMMA RecordsAreWithin ==
    ASSUME NEW b \in Seq(Byte), consumeMessage(b).kind = "records"
    PROVE  consumeMessage(b).size \in Nat /\ 12 + consumeMessage(b).size <= Len(b)
<1>a. Ends.kind # "records" /\ Waits.kind # "records"
  BY DEF Ends, Waits
<1>1. Len(b) \in Nat
  BY LenProperties
<1>2. ~(Len(b) < 8) /\ ~(Len(b) < 12 + Size(b)) /\ consumeMessage(b).size = Size(b)
  BY <1>a, ConsumeMessageByParts
<1>3. 4 \in Nat /\ 4 + 4 <= Len(b)
  BY <1>1, <1>2
<1>4. Size(b) \in Nat
  BY <1>3, Uint32Type DEF Size
<1> QED
  BY <1>1, <1>2, <1>4

\* A response is read of the bytes up to the end of its data.
LEMMA ResponseIsWithin ==
    ASSUME NEW b \in Seq(Byte), consumeMessage(b).kind = "response"
    PROVE  LET n == 8 + Len(consumeMessage(b).of)
               h == SubSeq(b, 1, n)
           IN  /\ n \in Nat /\ n <= Len(b)
               /\ h \in Seq(Byte) /\ Len(h) = n /\ Begins(h, b)
               /\ consumeMessage(h) = consumeMessage(b)
<1>a. /\ Ends.kind # "response" /\ Waits.kind # "response"
      /\ \A x, y, z, t : [kind |-> "records", size |-> x, number |-> y, records |-> z].kind # "response"
  BY DEF Ends, Waits
<1>1. Len(b) \in Nat
  BY LenProperties
<1>2. /\ ~(Len(b) < 8) /\ ~(Len(b) < 8 + Size(b)) /\ Zeros(b) /\ Size(b) # 0
      /\ ~(Len(b) < 4) /\ Data(b)[1] = codec12 /\ Response(Data(b)).end # Eof
      /\ consumeMessage(b) = [kind |-> "response", data |-> Response(Data(b)).data,
                              of |-> Data(b)]
  BY <1>a, ConsumeMessageByParts
<1>3. 4 \in Nat /\ 4 + 4 <= Len(b)
  BY <1>1, <1>2
<1>4. Size(b) \in Nat
  BY <1>3, Uint32Type DEF Size
<1> DEFINE n == 8 + Size(b)
           h == SubSeq(b, 1, n)
<1>5. n \in Nat /\ n <= Len(b) /\ 8 <= n
  BY <1>1, <1>2, <1>4
<1>6. h \in Seq(Byte) /\ Len(h) = n /\ \A i \in 1..n : h[i] = b[i]
  <2>1. 0 \in Nat /\ 0 + n <= Len(b) /\ 0 + 1 = 1 /\ 0 + n = n
    BY <1>5
  <2>2. Slice(b, 0, n) = h
    BY <2>1 DEF Slice
  <2>3. Slice(b, 0, n) \in Seq(Byte) /\ Len(Slice(b, 0, n)) = n /\ \A i \in 1..n : Slice(b, 0, n)[i] = b[0 + i]
    BY <1>5, <2>1, SliceProperties
  <2>4. \A i \in 1..n : 0 + i = i
    BY <1>5
  <2> HIDE DEF h, n
  <2> QED
    BY <2>2, <2>3, <2>4
<1>7. Begins(h, b)
  BY <1>5, <1>6 DEF Begins
<1>8. Len(Data(b)) = Size(b)
  <2>1. 8 \in Nat /\ 8 + Size(b) <= Len(b)
    BY <1>5
  <2> QED
    BY <1>4, <2>1, SliceProperties DEF Data
<1> HIDE DEF h
<1>9. Size(h) = Size(b)
  <2>1. 4 \in Nat /\ 4 + 4 <= Len(h)
    BY <1>5, <1>6
  <2> QED
    BY <1>6, <1>7, <2>1, Uint32OfBeginning DEF Size
<1>10. Data(h) = Data(b)
  <2>1. 8 \in Nat /\ 8 + Size(b) <= Len(h)
    BY <1>6
  <2>2. Slice(b, 8, Size(b)) = Slice(h, 8, Size(b))
    BY <1>4, <1>6, <1>7, <2>1, SliceOfBeginning
  <2> QED
    BY <1>9, <2>2 DEF Data
<1>11. Zeros(h)
  <2>1. 0 \in Nat /\ 4 \in Nat /\ 0 + 4 <= Len(h)
    BY <1>5, <1>6
  <2>2. Slice(b, 0, 4) = Slice(h, 0, 4)
    BY <1>6, <1>7, <2>1, SliceOfBeginning
  <2> QED
    BY <1>2, <2>2 DEF Zeros
<1>12. consumeMessage(h) = consumeMessage(b)
  <2>1. ~(Len(h) < 4) /\ ~(Len(h) < 8) /\ ~(Len(h) < 8 + Size(h))
    BY <1>5, <1>6, <1>9
  <2> QED
    BY <1>2, <1>6, <1>9, <1>10, <1>11, <2>1, ConsumeMessageByParts
<1>13. consumeMessage(b).of = Data(b)
  BY <1>2
<1> QED
  BY <1>5, <1>6, <1>7, <1>8, <1>12, <1>13 DEF h

\* A packet that is parsed has as many records as its NumberOfData says.
LEMMA PacketIsCounted ==
    ASSUME NEW data \in Seq(Byte), NEW codec,
           parseDataToRecord(data, 1, codec).end # Eof
    PROVE  LET parsed == parseDataToRecord(data, 1, codec)
           IN  parsed.number \in Nat /\ DOMAIN parsed.records = 1..parsed.number
<1> DEFINE number == Uint8(data, 1)
<1>1. Advance(data, 1, 1) # Eof
  BY Zenon DEF parseDataToRecord
<1>2. number \in Nat
  BY <1>1, Uint8Type DEF Advance, Eof
<1>3. parseDataToRecord(data, 1, codec).number = number
  BY DEF parseDataToRecord
<1>4. DOMAIN parseDataToRecord(data, 1, codec).records = 1..number
  BY DEF parseDataToRecord
<1> QED
  BY <1>2, <1>3, <1>4

\* What TakeRecords uses of the parser.
LEMMA RecordsAreCounted ==
    ASSUME NEW b \in Seq(Byte), consumeMessage(b).kind = "records"
    PROVE  /\ consumeMessage(b).size \in Nat
           /\ consumeMessage(b).number \in Nat
           /\ DOMAIN consumeMessage(b).records = 1..consumeMessage(b).number
<1>a. Ends.kind # "records" /\ Waits.kind # "records"
  BY DEF Ends, Waits
<1>1. /\ ~(Len(b) < 8 + Size(b)) /\ Records(Data(b)).end # Eof
      /\ consumeMessage(b).size = Size(b)
      /\ consumeMessage(b).number = Records(Data(b)).number
      /\ consumeMessage(b).records = Records(Data(b)).records
  BY <1>a, ConsumeMessageByParts
<1>2. Size(b) \in Nat
  BY <1>1, RecordsAreWithin
<1>3. Data(b) \in Seq(Byte)
  <2>1. 8 \in Nat /\ 8 + Size(b) <= Len(b)
    BY <1>1, <1>2, LenProperties
  <2> QED
    BY <1>2, <2>1, SliceProperties DEF Data
<1> QED
  BY <1>1, <1>2, <1>3, PacketIsCounted DEF Records

\* Sorting keeps the number of the records.
LEMMA InTimeOrderCounts ==
    ASSUME NEW n \in Nat, NEW all, DOMAIN all = 1..n, NEW records \in InTimeOrder(all)
    PROVE  IsSequence(records) /\ Len(records) = n
<1>1. PICK p : records = [i \in 1..n |-> all[p[i]]]
  BY DEF InTimeOrder
<1>2. records \in Seq({all[p[i]] : i \in 1..n}) /\ Len(records) = n
  BY <1>1
<1> QED
  BY <1>2, SequencesAreSequences

\* The data of a response has a length.
LEMMA ResponseIsLong ==
    ASSUME NEW b \in Seq(Byte), consumeMessage(b).kind = "response"
    PROVE  Len(consumeMessage(b).of) \in Nat
<1>a. /\ Ends.kind # "response" /\ Waits.kind # "response"
      /\ \A x, y, z, t : [kind |-> "records", size |-> x, number |-> y, records |-> z].kind # "response"
  BY DEF Ends, Waits
<1>1. Len(b) \in Nat
  BY LenProperties
<1>2. ~(Len(b) < 8) /\ ~(Len(b) < 8 + Size(b)) /\ consumeMessage(b).of = Data(b)
  BY <1>a, ConsumeMessageByParts
<1>3. 4 \in Nat /\ 4 + 4 <= Len(b)
  BY <1>1, <1>2
<1>4. Size(b) \in Nat
  BY <1>3, Uint32Type DEF Size
<1>5. 8 \in Nat /\ 8 + Size(b) <= Len(b)
  BY <1>1, <1>2, <1>4
<1>6. Data(b) \in Seq(Byte)
  BY <1>4, <1>5, SliceProperties DEF Data
<1> QED
  BY <1>2, <1>6, LenProperties

-----------------------------------------------------------------------------
(* The records of a session: no connection acknowledges more than it queues. *)

\* What one connection's part of the invariant says.
Connection(c) ==
    /\ place[c] \in {"new", "read", "check"} => packet[c] = NoRecords
    /\ packet[c] = [left |-> packet[c].left, number |-> packet[c].number]
    /\ IsSequence(packet[c].left) /\ packet[c].number \in Nat
    /\ IsSequence(queue[c])
    /\ Len(packet[c].left) <= packet[c].number
    /\ Len(queue[c]) + Len(packet[c].left) = acked[c] + packet[c].number

\* The invariant holds initially,
LEMMA InitInv == Init => IInv
<1> SUFFICES ASSUME Init PROVE IInv
  OBVIOUS
<1>1. MaxConns \in Nat \ {0}
  BY Fm1200Assumption
<1>2. TypeOK
  <2>1. <<>> \in Seq(Byte)
    OBVIOUS
  <2>2. wire \in [Conns -> Seq(Byte)]
    BY <2>1 DEF Init
  <2>3. place \in [Conns -> Places] /\ open \in [Conns -> BOOLEAN] /\ acked \in [Conns -> Nat]
    BY DEF Init, Places
  <2>4. \A c \in Conns : /\ packet[c] = [left |-> packet[c].left,
                                        number |-> packet[c].number]
                         /\ IsSequence(packet[c].left) /\ packet[c].number \in Nat
                         /\ IsSequence(queue[c])
    BY EmptyIsSequence DEF Init, NoRecords
  <2>5. /\ DOMAIN packet = Conns /\ DOMAIN queue = Conns /\ current \in Conns \cup {0}
        /\ batch \in Nat \ {0} /\ awaiting \in BOOLEAN
    <3>1. DOMAIN packet = Conns /\ DOMAIN queue = Conns
      BY DEF Init
    <3>2. current = 0 /\ batch = 1 /\ awaiting = FALSE
      BY DEF Init
    <3>3. 0 \in Conns \cup {0} /\ FALSE \in BOOLEAN
      OBVIOUS
    <3>4. 1 \in Nat \ {0}
      OBVIOUS
    <3> QED
      BY <3>1, <3>2, <3>3, <3>4, Zenon
  <2> QED
    BY <2>2, <2>3, <2>4, <2>5 DEF TypeOK
<1>3. Accounting
  BY EmptyIsSequence DEF Init, Accounting, NoRecords
<1> QED
  BY <1>2, <1>3 DEF IInv

\* What the bytes on the connections and the connections' counters need: the
\* steps that leave the records alone.
LEMMA KeepsRecords ==
    ASSUME IInv, UNCHANGED <<packet, queue, acked>>,
           place' \in [Conns -> Places], open' \in [Conns -> BOOLEAN],
           \A c \in Conns : place'[c] \in {"new", "read", "check"} =>
                              place[c] \in {"new", "read", "check"},
           wire' \in [Conns -> Seq(Byte)], current' \in Conns \cup {0},
           batch' \in Nat \ {0}, awaiting' \in BOOLEAN
    PROVE  IInv'
  BY DEF IInv, TypeOK, Accounting

\* The steps that change the records of one connection.
LEMMA ChangesRecords ==
    ASSUME IInv, NEW c \in Conns,
           DOMAIN packet' = Conns, DOMAIN queue' = Conns,
           place' \in [Conns -> Places], wire' \in [Conns -> Seq(Byte)],
           acked' \in [Conns -> Nat],
           UNCHANGED <<open, current, batch, awaiting>>,
           \A d \in Conns \ {c} : /\ place'[d] = place[d] /\ packet'[d] = packet[d] /\ queue'[d] = queue[d]
                                  /\ acked'[d] = acked[d],
           Connection(c)'
    PROVE  IInv'
<1>1. \A d \in Conns : Connection(d)'
  <2> SUFFICES ASSUME NEW d \in Conns, d # c PROVE Connection(d)'
    OBVIOUS
  <2> QED
    BY DEF IInv, TypeOK, Accounting, Connection
<1> QED
  BY <1>1 DEF IInv, TypeOK, Accounting, Connection

\* What the tracker sends, damaged or not, is bytes.
LEMMA SentAreBytes ==
    ASSUME NEW bytes \in Seq(Byte), wire \in [Conns -> Seq(Byte)], current \in Conns,
           Sends(bytes)
    PROVE  wire' \in [Conns -> Seq(Byte)]
<1>1. \A sent \in Damaged(bytes) : sent \in Seq(Byte)
  <2> SUFFICES ASSUME NEW i \in DOMAIN bytes
               PROVE  [bytes EXCEPT ![i] = (@ + 1) % 256] \in Seq(Byte)
    BY DEF Damaged
  <2>1. i \in 1..Len(bytes) /\ bytes[i] \in Byte
    BY LenProperties, ElementOfSeq
  <2>2. (bytes[i] + 1) % 256 \in Byte
    BY <2>1, \A x \in Nat : (x + 1) % 256 \in 0..255, BytesAreNumbers DEF Byte
  <2> QED
    BY <2>1, <2>2, ExceptSeq
<1>2. \E sent \in Seq(Byte) : wire' = [wire EXCEPT ![current] = @ \o sent]
  BY <1>1 DEF Sends
<1> QED
  BY <1>2

\* and every step keeps it.
LEMMA StepInv == IInv /\ [Next]_vars => IInv'
<1> SUFFICES ASSUME IInv, [Next]_vars PROVE IInv'
  OBVIOUS
<1> USE DEF IInv, TypeOK
<1>1. ASSUME NEW c \in Conns, TakeRecords(c) PROVE IInv'
  <2> DEFINE message == consumeMessage(wire[c])
  <2>1. /\ message.size \in Nat /\ message.number \in Nat
        /\ DOMAIN message.records = 1..message.number
    BY <1>1, RecordsAreCounted DEF TakeRecords
  <2>2. place' \in [Conns -> Places] /\ place[c] = "read"
    BY <1>1 DEF TakeRecords, Goes, Places
  <2>3. wire' \in [Conns -> Seq(Byte)]
    BY <1>1, <2>1 DEF TakeRecords, Reads
  <2>4. PICK records \in InTimeOrder(message.records) :
          packet' = [packet EXCEPT ![c] =
              [left |-> records, number |-> message.number]]
    BY <1>1 DEF TakeRecords
  <2>5. IsSequence(records) /\ Len(records) = message.number
    BY <2>1, InTimeOrderCounts
  <2>6. packet'[c] = [left |-> records, number |-> message.number]
    BY <2>4
  <2>7. UNCHANGED <<queue, acked>> /\ place'[c] = "queue"
    BY <1>1 DEF TakeRecords, Goes
  <2>8. packet[c].left = <<>> /\ packet[c].number = 0
    BY <2>2 DEF Accounting, NoRecords
  <2>9. Len(queue[c]) \in Nat /\ acked[c] \in Nat
    BY LengthType
  <2>10. IsSequence(queue[c]) /\ Len(queue[c]) = acked[c]
    BY <2>8, <2>9, EmptyIsSequence DEF Accounting
  <2>11. Connection(c)'
    BY <2>1, <2>5, <2>6, <2>7, <2>9, <2>10 DEF Connection
  <2> QED
    BY <1>1, <2>2, <2>3, <2>4, <2>11, ChangesRecords, ZenonT(30) DEF TakeRecords, Goes, tracker
<1>2. ASSUME NEW c \in Conns, TakeResponse(c) PROVE IInv'
  BY <1>2, KeepsRecords DEF TakeResponse, tracker, Goes, Reads, Places
<1>3. ASSUME NEW c \in Conns, CheckResponse(c) PROVE IInv'
  <2>1. wire' \in [Conns -> Seq(Byte)]
    BY <1>3 DEF CheckResponse, Reads
  <2>2. PICK to \in {"read", "ended"} : Goes(c, "check", to)
    BY <1>3 DEF CheckResponse
  <2>3. UNCHANGED <<open, packet, queue, acked, current, batch, awaiting>>
    BY <1>3 DEF CheckResponse, tracker
  <2> QED
    BY <2>1, <2>2, <2>3, KeepsRecords DEF Goes, Places
<1>4. ASSUME NEW c \in Conns, QueueRecord(c) PROVE IInv'
  <2>1. /\ packet' = [packet EXCEPT ![c].left = Tail(@)]
        /\ queue' = [queue EXCEPT ![c] =
               Append(@, ToProtobufDeviceStatus(Head(packet[c].left)))]
        /\ packet[c].left # <<>>
    BY <1>4 DEF QueueRecord
  <2>2. /\ IsSequence(Tail(packet[c].left))
        /\ Len(packet[c].left) \in Nat \ {0}
        /\ Len(Tail(packet[c].left)) = Len(packet[c].left) - 1
    BY <2>1, TailOfSequence
  <2>3. /\ IsSequence(queue'[c]) /\ Len(queue'[c]) = Len(queue[c]) + 1
    BY <2>1, AppendToSequence
  <2>4. packet'[c] = [left |-> Tail(packet[c].left), number |-> packet[c].number]
    <3>1. packet'[c] = [packet[c] EXCEPT !.left = Tail(packet[c].left)]
      BY <2>1
    <3>2. packet[c] = [left |-> packet[c].left, number |-> packet[c].number]
      OBVIOUS
    <3> QED
      BY <3>1, <3>2
  <2>5. UNCHANGED <<place, acked>>
    BY <1>4 DEF QueueRecord
  <2>6. place[c] = "queue"
    BY <1>4 DEF QueueRecord
  <2>7. Len(queue[c]) \in Nat
    BY LengthType
  <2>8. Connection(c)'
    <3>1. /\ Len(packet[c].left) <= packet[c].number
          /\ Len(queue[c]) + Len(packet[c].left) = acked[c] + packet[c].number
      BY DEF Accounting
    <3>2. packet'[c].left = Tail(packet[c].left) /\ packet'[c].number = packet[c].number
      BY <2>4
    <3>3. /\ Len(packet'[c].left) <= packet'[c].number
          /\ Len(queue'[c]) + Len(packet'[c].left) = acked'[c] + packet'[c].number
      <4>1. acked[c] \in Nat /\ packet[c].number \in Nat
        OBVIOUS
      <4>2. /\ Len(packet[c].left) - 1 <= packet[c].number
            /\ (Len(queue[c]) + 1) + (Len(packet[c].left) - 1) = acked[c] + packet[c].number
        <5> DEFINE l == Len(packet[c].left)
                   q == Len(queue[c])
                   a == acked[c]
                   n == packet[c].number
        <5>1. l \in Nat /\ q \in Nat /\ a \in Nat /\ n \in Nat
          BY <2>2, <2>7, <4>1
        <5>2. l <= n /\ q + l = a + n
          BY <3>1
        <5> HIDE DEF l, q, a, n
        <5>3. l - 1 <= n /\ (q + 1) + (l - 1) = a + n
          BY <5>1, <5>2
        <5> QED
          BY <5>3 DEF l, q, a, n
      <4> QED
        BY <2>2, <2>3, <2>5, <3>2, <4>2
    <3> QED
      BY <2>2, <2>3, <2>4, <2>5, <2>6, <3>2, <3>3 DEF Connection
  <2> QED
    BY <1>4, <2>1, <2>8, ChangesRecords DEF QueueRecord, tracker
<1>5. ASSUME NEW c \in Conns, WriteAck(c) PROVE IInv'
  <2>1. /\ packet[c].left = <<>>
        /\ acked' = [acked EXCEPT ![c] = @ + packet[c].number]
        /\ packet' = [packet EXCEPT ![c] = NoRecords]
        /\ place' = [place EXCEPT ![c] = "read"]
        /\ UNCHANGED <<wire, open, queue, current, batch, awaiting>>
    BY <1>5 DEF WriteAck, Goes, tracker
  <2>2. packet[c].number \in Nat /\ acked[c] \in Nat /\ Len(queue[c]) \in Nat
    BY LengthType
  <2>3. acked'[c] = acked[c] + packet[c].number /\ acked' \in [Conns -> Nat]
    BY <2>1, <2>2
  <2>4. Len(queue[c]) = acked[c] + packet[c].number
    BY <2>1, <2>2, EmptyIsSequence DEF Accounting
  <2>5. packet'[c] = NoRecords /\ NoRecords.left = <<>> /\ NoRecords.number = 0
    BY <2>1 DEF NoRecords
  <2>6. Connection(c)'
    BY <2>1, <2>2, <2>3, <2>4, <2>5, EmptyIsSequence DEF Connection, NoRecords
  <2> QED
    BY <2>1, <2>3, <2>6, ChangesRecords DEF Places
<1>6. ASSUME NEW c \in Conns, WriteAckFails(c) PROVE IInv'
  BY <1>6, KeepsRecords DEF WriteAckFails, tracker, Goes, Places
<1>7. ASSUME NEW c \in Conns, StreamEnds(c) PROVE IInv'
  BY <1>7, KeepsRecords DEF StreamEnds, tracker, Goes, Places
<1>8. ASSUME NEW c \in Conns, SendsCommand(c) PROVE IInv'
  BY <1>8, KeepsRecords DEF SendsCommand, streams
<1>9. CASE Connect
  BY <1>9, KeepsRecords DEF Connect, Goes, Places
<1>10. CASE SendBatch
  <2>1. EncodeBatch(Batches[batch]) \in Seq(Byte)
    BY <1>10, Fm1200Assumption DEF SendBatch
  <2>2. wire' \in [Conns -> Seq(Byte)]
    BY <1>10, <2>1, SentAreBytes DEF SendBatch
  <2> QED
    BY <1>10, <2>2, KeepsRecords DEF SendBatch, streams
<1>11. CASE ReadAck
  <2>1. batch' \in {batch, batch + 1}
    BY <1>11 DEF ReadAck
  <2>2. batch' \in Nat \ {0}
    BY <2>1
  <2> QED
    BY <1>11, <2>2, KeepsRecords DEF ReadAck, streams
<1>12. CASE ReadCommand
  <2>1. wire' \in [Conns -> Seq(Byte)]
    BY <1>12, SentAreBytes, Fm1200Assumption DEF ReadCommand
  <2> QED
    BY <1>12, <2>1, KeepsRecords DEF ReadCommand, streams
<1>13. CASE Disconnect
  <2>1. PICK n \in Lost : wire' = [wire EXCEPT ![current] = SubSeq(@, 1, Len(@) - n)]
    BY <1>13 DEF Disconnect
  <2>2. n \in Nat /\ current \in Conns
    BY <1>13, <2>1, Fm1200Assumption DEF Disconnect
  <2>3. SubSeq(wire[current], 1, Len(wire[current]) - n) \in Seq(Byte)
    <3>1. Len(wire[current]) - n \in Int /\ Len(wire[current]) - n <= Len(wire[current])
      BY <2>2, LenProperties
    <3>2. \A i \in 1..(Len(wire[current]) - n) : wire[current][i] \in Byte
      BY <2>2, <3>1, ElementOfSeq
    <3> QED
      BY <3>1, <3>2, SubSeqProperties
  <2>4. wire' \in [Conns -> Seq(Byte)]
    BY <2>1, <2>2, <2>3
  <2> QED
    BY <1>13, <2>2, <2>4, KeepsRecords DEF Disconnect, streams
<1>14. CASE Rest \/ UNCHANGED vars
  BY <1>14, KeepsRecords DEF Rest, vars, streams, tracker
<1> QED
  BY <1>1, <1>2, <1>3, <1>4, <1>5, <1>6, <1>7, <1>8, <1>9, <1>10, <1>11,
     <1>12, <1>13, <1>14 DEF Next, ConsumeStream, Tracker

\* The invariant holds of every behaviour.
THEOREM Invariance == Spec => []IInv
  BY InitInv, StepInv, PTL DEF Spec

\* No connection acknowledges more than it has queued (AckedAreQueued), for
\* every number of connections, every encoding of the tracker's batches and
\* every damage done to them (fm1200.go:253-267).
THEOREM AcknowledgedRecordsAreQueued == Spec => []AckedAreQueued
<1>1. IInv => AckedAreQueued
  <2> SUFFICES ASSUME IInv, NEW c \in Conns PROVE acked[c] <= Len(queue[c])
    BY DEF AckedAreQueued
  <2>1. /\ Len(queue[c]) \in Nat /\ Len(packet[c].left) \in Nat
        /\ acked[c] \in Nat /\ packet[c].number \in Nat
    BY LengthType DEF IInv, TypeOK
  <2>2. /\ Len(packet[c].left) <= packet[c].number
        /\ Len(queue[c]) + Len(packet[c].left) = acked[c] + packet[c].number
    BY DEF IInv, Accounting
  <2>3. \A l, q, a, n \in Nat : l <= n /\ q + l = a + n => a <= q
    OBVIOUS
  <2> QED
    BY <2>1, <2>2, <2>3
<1> QED
  BY <1>1, Invariance, PTL

-----------------------------------------------------------------------------
(* The bytes to the store.                                                  *)

\* What is behind the first packet of what has arrived of a stream.
LEMMA CutBegins ==
    ASSUME NEW p \in Seq(Byte), NEW u \in Seq(Byte), NEW w \in Seq(Byte),
           Begins(w, p \o u), Len(p) <= Len(w)
    PROVE  LET x == SubSeq(w, Len(p) + 1, Len(w))
           IN  x \in Seq(Byte) /\ Begins(x, u) /\ (w = p \o u => x = u)
<1> DEFINE n == Len(p)
           x == SubSeq(w, n + 1, Len(w))
           v == p \o u
<1>1. /\ n \in Nat /\ Len(u) \in Nat /\ Len(w) \in Nat /\ n <= Len(w)
      /\ v \in Seq(Byte) /\ Len(v) = n + Len(u) /\ Begins(w, v)
      /\ \A i \in 1..Len(u) : v[n + i] = u[i]
  BY LenProperties, ConcatBytes
<1>2. x \in Seq(Byte) /\ Len(x) = Len(w) - n /\ \A i \in 1..Len(w) - n : x[i] = w[n + i]
  BY <1>1, CutBytes
<1>3. w = v => x = u
  BY CutConcat
<1> HIDE DEF n, x, v
<1>4. Len(w) <= Len(v) /\ \A i \in 1..Len(w) : v[i] = w[i]
  BY <1>1 DEF Begins
<1>5. Begins(x, u)
  <2>1. Len(x) <= Len(u)
    BY <1>1, <1>2, <1>4
  <2>2. ASSUME NEW i \in 1..Len(x) PROVE u[i] = x[i]
    <3>1. i \in 1..Len(u) /\ i \in 1..Len(w) - n /\ n + i \in 1..Len(w)
      BY <1>1, <1>2, <2>1
    <3> QED
      BY <1>1, <1>2, <1>4, <3>1
  <2> QED
    BY <2>1, <2>2 DEF Begins
<1> QED
  BY <1>2, <1>3, <1>5 DEF n, x, v

\* The packet of an answer,
Ans == EncodeResponse(Answer)

\* the packet of the batch k, if there is one;
Batch(k) == IF k \in DOMAIN Batches THEN EncodeBatch(Batches[k]) ELSE <<>>

\* packets are bytes, and so are damaged ones.
LEMMA PacketsAreBytes ==
    /\ Ans \in Seq(Byte) /\ Packets \subseteq Seq(Byte) /\ Broken \subseteq Seq(Byte)
    /\ \A k : Batch(k) \in Seq(Byte)
<1>1. Ans \in Seq(Byte) /\ \A b \in DOMAIN Batches : EncodeBatch(Batches[b]) \in Seq(Byte)
  BY Fm1200Assumption DEF Ans
<1>2. Packets \subseteq Seq(Byte)
  BY <1>1 DEF Packets, Ans
<1>3. Broken \subseteq Seq(Byte)
  <2>1. \A p \in Packets : Damaged(p) \subseteq Seq(Byte)
    <3> SUFFICES ASSUME NEW p \in Packets, NEW i \in DOMAIN p
                 PROVE  [p EXCEPT ![i] = (@ + 1) % 256] \in Seq(Byte)
      BY DEF Damaged
    <3> QED
      BY <1>2, NextByte
  <2> QED
    BY <2>1 DEF Broken
<1>4. <<>> \in Seq(Byte)
  OBVIOUS
<1> QED
  BY <1>1, <1>2, <1>3, <1>4 DEF Batch

\* The bytes that a ConsumeStream has not read begin a stream of answers with,
\* when m, the batch k among them, up to a damaged packet; they are all of it
\* if the connection has lost nothing.
Up(w, k, m, whole) ==
    \E full \in Seq(Byte) :
        /\ Begins(w, full) /\ (whole => full = w)
        /\ Chain(full, m, Byte, Ans, Batch(k), Broken)

\* Nothing has been sent,
LEMMA UpNone ==
    ASSUME NEW k, NEW m \in BOOLEAN, NEW whole
    PROVE  Up(<<>>, k, m, whole)
<1>1. <<>> \in Seq(Byte) /\ Begins(<<>>, <<>>)
  BY DEF Begins
<1>2. Chain(<<>>, m, Byte, Ans, Batch(k), Broken)
  BY ChainOfNone
<1> QED
  BY <1>1, <1>2, Zenon DEF Up

\* an answer or a damaged packet is sent,
LEMMA UpNext ==
    ASSUME NEW w \in Seq(Byte), NEW k, NEW m \in BOOLEAN, Up(w, k, m, TRUE),
           NEW y \in {Ans} \cup Broken
    PROVE  w \o y \in Seq(Byte) /\ Up(w \o y, k, m, TRUE)
<1>1. Ans \in Seq(Byte) /\ Batch(k) \in Seq(Byte) /\ Broken \subseteq Seq(Byte)
  BY PacketsAreBytes
<1>2. Chain(w, m, Byte, Ans, Batch(k), Broken)
  BY Zenon DEF Up
<1>3. Chain(w \o y, m, Byte, Ans, Batch(k), Broken)
  BY <1>1, <1>2, ChainWithNext
<1>4. w \o y \in Seq(Byte)
  BY <1>1, ConcatProperties
<1>5. Begins(w \o y, w \o y)
  BY <1>4, LenProperties DEF Begins
<1> QED
  BY <1>3, <1>4, <1>5, Zenon DEF Up

\* a batch is sent,
LEMMA UpBatch ==
    ASSUME NEW w \in Seq(Byte), NEW k, NEW j, Up(w, k, FALSE, TRUE)
    PROVE  w \o Batch(j) \in Seq(Byte) /\ Up(w \o Batch(j), j, TRUE, TRUE)
<1>1. Ans \in Seq(Byte) /\ Batch(j) \in Seq(Byte) /\ Broken \subseteq Seq(Byte)
  BY PacketsAreBytes
<1>2. Chain(w, FALSE, Byte, Ans, Batch(k), Broken)
  BY Zenon DEF Up
<1> DEFINE y == Batch(j)
<1>3. Chain(w \o y, TRUE, Byte, Ans, y, Broken)
  BY <1>1, <1>2, ChainWithOne
<1>4. w \o y \in Seq(Byte)
  BY <1>1, ConcatProperties
<1>5. Begins(w \o y, w \o y)
  BY <1>4, LenProperties DEF Begins
<1> QED
  BY <1>3, <1>4, <1>5, Zenon DEF Up

\* or the rest is lost. The stream is one with any beginning of the bytes,
LEMMA UpLost ==
    ASSUME NEW w \in Seq(Byte), NEW k, NEW m, NEW whole, Up(w, k, m, whole),
           NEW x \in Seq(Byte), Begins(x, w)
    PROVE  Up(x, k, m, FALSE)
<1>1. PICK full \in Seq(Byte) : /\ Begins(w, full)
                                /\ Chain(full, m, Byte, Ans, Batch(k), Broken)
  BY Zenon DEF Up
<1>2. Begins(x, full)
  BY <1>1, BeginsAgain
<1> QED
  BY <1>1, <1>2, Zenon DEF Up

\* or, with no batch among the bytes, of any other.
LEMMA UpOther ==
    ASSUME NEW w, NEW k, NEW j, NEW whole, Up(w, k, FALSE, whole)
    PROVE  Up(w, j, FALSE, whole)
<1>1. PICK full \in Seq(Byte) : /\ Begins(w, full) /\ (whole => full = w)
                                /\ Chain(full, FALSE, Byte, Ans, Batch(k), Broken)
  BY Zenon DEF Up
<1>2. Ans \in Seq(Byte) /\ Batch(j) \in Seq(Byte) /\ Broken \subseteq Seq(Byte)
  BY PacketsAreBytes
<1>3. Chain(full, FALSE, Byte, Ans, Batch(j), Broken)
  BY <1>1, <1>2, ChainWithOne
<1> QED
  BY <1>1, <1>3, Zenon DEF Up

\* What has arrived of a stream with a damaged packet in front has a beginning in
\* common with one that consumeMessage fails on.
LEMMA DamagedInFront ==
    ASSUME DamageIsSeen, NEW d \in Broken, NEW r \in Seq(Byte),
           NEW w \in Seq(Byte), Begins(w, d \o r)
    PROVE  \E e \in Seq(Byte), full \in Seq(Byte) :
              Begins(w, full) /\ Begins(e, full) /\ Fails(e)
<1> DEFINE f == d \o r
           full == Append(f, 0)
           x == full[Len(d) + 1]
<1>1. d \in Seq(Byte) /\ f \in Seq(Byte) /\ 0 \in Byte /\ Begins(w, f)
  BY PacketsAreBytes, ConcatProperties DEF Byte
<1>2. /\ Begins(d, f) /\ Len(d) \in Nat /\ Len(f) \in Nat /\ Len(f) = Len(d) + Len(r)
      /\ Len(r) \in Nat
  BY <1>1, ConcatBegins, LenProperties
<1> HIDE DEF f
<1>3. full \in Seq(Byte) /\ Begins(f, full) /\ Len(full) = Len(f) + 1
  BY <1>1, AppendByte
<1>4. Begins(w, full) /\ Begins(d, full)
  BY <1>1, <1>2, <1>3, BeginsAgain
<1> HIDE DEF full
<1>5. x \in Byte
  BY <1>2, <1>3, ElementOfSeq
<1>6. Append(d, x) \in Seq(Byte) /\ Begins(Append(d, x), full)
  <2>1. /\ Append(d, x) \in Seq(Byte) /\ Len(Append(d, x)) = Len(d) + 1
        /\ Append(d, x)[Len(d) + 1] = x /\ \A i \in 1..Len(d) : Append(d, x)[i] = d[i]
    BY <1>1, <1>5, AppendByte
  <2>2. Len(d) + 1 <= Len(full) /\ \A i \in 1..Len(d) : full[i] = d[i]
    BY <1>2, <1>3, <1>4 DEF Begins
  <2>3. \A i \in 1..Len(d) + 1 : i \in 1..Len(d) \/ i = Len(d) + 1
    BY <1>2
  <2> QED
    BY <2>1, <2>2, <2>3 DEF Begins
<1>7. Fails(d) \/ Fails(Append(d, x))
  BY <1>5 DEF DamageIsSeen
<1> QED
  BY <1>1, <1>3, <1>4, <1>6, <1>7

\* So no records are taken of it,
LEMMA NoRecordsOfDamaged ==
    ASSUME DamageIsSeen, NEW d \in Broken, NEW r \in Seq(Byte),
           NEW w \in Seq(Byte), Begins(w, d \o r)
    PROVE  consumeMessage(w).kind # "records"
<1> SUFFICES ASSUME consumeMessage(w).kind = "records" PROVE FALSE
  OBVIOUS
<1>1. PICK e \in Seq(Byte), full \in Seq(Byte) :
          Begins(w, full) /\ Begins(e, full) /\ Fails(e)
  BY DamagedInFront
<1>2. consumeMessage(w) # Waits /\ Ends.kind # "records" /\ Ends # Waits /\ Waits.kind # "response"
  BY DEF Waits, Ends
<1>3. consumeMessage(full) = consumeMessage(w)
  BY <1>1, <1>2, ConsumeBeginning
<1>4. consumeMessage(e) = Ends \/ consumeMessage(e).kind = "response"
  BY <1>1 DEF Fails
<1>5. consumeMessage(full) = consumeMessage(e)
  BY <1>1, <1>2, <1>4, ConsumeBeginning
<1> QED
  BY <1>2, <1>3, <1>4, <1>5

\* and if a response is, h, its checksum is found wrong in what is behind it.
LEMMA WrongOfDamaged ==
    ASSUME DamageIsSeen, NEW d \in Broken, NEW r \in Seq(Byte),
           NEW h \in Seq(Byte), NEW rest \in Seq(Byte), Begins(h \o rest, d \o r),
           NEW of, of = consumeMessage(h).of,
           consumeMessage(h).kind = "response", Len(of) \in Nat, Len(h) = 8 + Len(of),
           Len(rest) >= 4
    PROVE  ~ValidateCrc(of, Slice(rest, 0, 4))
<1> DEFINE w == h \o rest
<1>1. w \in Seq(Byte) /\ Begins(h, w) /\ Len(w) = Len(h) + Len(rest)
  BY ConcatBegins
<1>2. /\ Len(h) \in Nat /\ Len(rest) \in Nat
      /\ \A i \in 1..Len(rest) : w[Len(h) + i] = rest[i]
  BY ConcatBytes, LenProperties
<1> HIDE DEF w
<1>3. PICK e \in Seq(Byte), full \in Seq(Byte) :
          Begins(w, full) /\ Begins(e, full) /\ Fails(e)
  BY <1>1, DamagedInFront DEF w
<1>4. consumeMessage(h) # Waits /\ Ends.kind # "response" /\ Ends # Waits /\ Waits.kind # "response"
  BY DEF Waits, Ends
<1>5. consumeMessage(full) = consumeMessage(h)
  <2>1. Begins(h, full)
    BY <1>1, <1>3, BeginsAgain
  <2> QED
    BY <1>4, <2>1, ConsumeBeginning
<1>6. consumeMessage(e) = Ends \/ consumeMessage(e).kind = "response"
  BY <1>3 DEF Fails
<1>7. consumeMessage(e) = consumeMessage(h)
  BY <1>3, <1>4, <1>5, <1>6, ConsumeBeginning
<1>8. Len(e) >= 12 + Len(of) /\ ~ValidateCrc(of, Slice(e, 8 + Len(of), 4))
  BY <1>3, <1>4, <1>7 DEF Fails
<1> DEFINE n == 8 + Len(of)
<1>9. n \in Nat /\ 4 \in Nat /\ n + 4 <= Len(e) /\ n + 4 <= Len(w) /\ n = Len(h)
  BY <1>1, <1>2, <1>8, LenProperties
<1> HIDE DEF n
<1>10. Slice(e, n, 4) = Slice(full, n, 4) /\ Slice(w, n, 4) = Slice(full, n, 4)
  BY <1>1, <1>3, <1>9, SliceOfBeginning
<1>11. Slice(rest, 0, 4) = Slice(w, n, 4)
  <2>1. 0 \in Nat /\ 0 + 4 <= Len(rest) /\ Len(h) + 0 = n
    BY <1>2, <1>9
  <2> QED
    BY <1>9, <2>1, SliceBehind, SMTT(30) DEF w
<1> QED
  BY <1>8, <1>10, <1>11 DEF n

\* What is read of a stream is what is read of its first packet.
LEMMA FirstIsRead ==
    ASSUME NEW p \in Seq(Byte), NEW u \in Seq(Byte), NEW w \in Seq(Byte),
           Begins(w, p \o u), consumeMessage(p) # Waits, consumeMessage(w) # Waits
    PROVE  consumeMessage(w) = consumeMessage(p)
<1> DEFINE full == p \o u
<1>1. full \in Seq(Byte) /\ Begins(p, full) /\ Begins(w, full)
  BY ConcatBegins
<1> HIDE DEF full
<1> QED
  BY <1>1, ConsumeBeginning

\* Records are taken of the batch, which was whole, and no other follows.
LEMMA UpRecords ==
    ASSUME DamageIsSeen, NEW w \in Seq(Byte), NEW k, NEW m \in BOOLEAN,
           m => k \in DOMAIN Batches, NEW whole, Up(w, k, m, whole),
           consumeMessage(w).kind = "records"
    PROVE  LET message == consumeMessage(w)
               x == SubSeq(w, 12 + message.size + 1, Len(w))
           IN  /\ m = TRUE /\ message = consumeMessage(EncodeBatch(Batches[k]))
               /\ x \in Seq(Byte) /\ Up(x, k, FALSE, whole)
<1> DEFINE message == consumeMessage(w)
           size == message.size
           x == SubSeq(w, 12 + size + 1, Len(w))
<1>1. PICK full \in Seq(Byte) : /\ Begins(w, full) /\ (whole => full = w)
                                /\ Chain(full, m, Byte, Ans, Batch(k), Broken)
  BY Zenon DEF Up
<1>2. size \in Nat /\ 12 + size <= Len(w) /\ Len(w) \in Nat
  BY RecordsAreWithin, LenProperties
<1>3. Waits.kind # "records" /\ Waits.kind # "response"
  BY DEF Waits
<1>5. CASE full = <<>>
  <2>1. Len(full) = 0
    BY <1>5
  <2> QED
    BY <1>1, <1>2, <2>1 DEF Begins
<1>6. CASE \E d \in Broken : \E r \in Seq(Byte) : full = d \o r
  BY <1>1, <1>6, NoRecordsOfDamaged
<1>7. CASE \E u \in Seq(Byte) : full = Ans \o u
  <2>1. PICK u \in Seq(Byte) : full = Ans \o u
    BY <1>7
  <2>2. consumeMessage(Ans).kind = "response"
    BY Fm1200Codec DEF Ans
  <2>3. message = consumeMessage(Ans)
    BY <1>1, <1>3, <2>1, <2>2, FirstIsRead, PacketsAreBytes
  <2> QED
    BY <2>2, <2>3
<1>8. CASE m /\ \E u \in Seq(Byte) : full = Batch(k) \o u /\ Chain(u, FALSE, Byte, Ans, Batch(k), Broken)
  <2>1. PICK u \in Seq(Byte) : full = Batch(k) \o u /\ Chain(u, FALSE, Byte, Ans, Batch(k), Broken)
    BY <1>8
  <2>2. /\ Batch(k) = EncodeBatch(Batches[k])
        /\ consumeMessage(Batch(k)).kind = "records"
        /\ Len(Batch(k)) = 12 + consumeMessage(Batch(k)).size
    BY <1>8, Fm1200Codec DEF Batch
  <2>3. message = consumeMessage(Batch(k))
    BY <1>1, <1>3, <2>1, <2>2, FirstIsRead, PacketsAreBytes
  <2>4. Len(Batch(k)) = 12 + size
    BY <2>2, <2>3
  <2> DEFINE p == Batch(k)
             y == SubSeq(w, Len(p) + 1, Len(w))
  <2>5. y \in Seq(Byte) /\ Begins(y, u) /\ (w = full => y = u)
    <3>1. p \in Seq(Byte) /\ Len(p) <= Len(w) /\ full = p \o u /\ Begins(w, full)
      BY <1>1, <1>2, <2>1, <2>4, PacketsAreBytes
    <3> HIDE DEF p
    <3> QED
      BY <3>1, CutBegins
  <2>6. x = y
    BY <2>4
  <2> HIDE DEF x, y
  <2>7. Up(x, k, FALSE, whole)
    BY <1>1, <2>1, <2>5, <2>6, Zenon DEF Up
  <2> QED
    BY <1>8, <2>2, <2>3, <2>5, <2>6, <2>7 DEF x
<1>9. \/ full = <<>>
      \/ \E d \in Broken : \E r \in Seq(Byte) : full = d \o r
      \/ \E u \in Seq(Byte) : full = Ans \o u /\ Chain(u, m, Byte, Ans, Batch(k), Broken)
      \/ m /\ \E u \in Seq(Byte) : full = Batch(k) \o u /\ Chain(u, FALSE, Byte, Ans, Batch(k), Broken)
  <2>1. Cut(full, m, Byte, Ans, Batch(k), Broken)
    BY <1>1, ChainIsCut
  <2> QED
    BY <2>1, Zenon DEF Cut
<1> QED
  BY <1>5, <1>6, <1>7, <1>8, <1>9

\* The checksum of the response h ends what was read of a packet: wrong, or of
\* the answer.
LEMMA UpChecked ==
    ASSUME DamageIsSeen, NEW h \in Seq(Byte), NEW rest \in Seq(Byte),
           NEW k, NEW m \in BOOLEAN, m => k \in DOMAIN Batches, NEW whole,
           Up(h \o rest, k, m, whole),
           NEW of, of = consumeMessage(h).of,
           consumeMessage(h).kind = "response", Len(of) \in Nat, Len(h) = 8 + Len(of),
           Len(rest) >= 4, ValidateCrc(of, Slice(rest, 0, 4))
    PROVE  LET x == SubSeq(rest, 4 + 1, Len(rest))
           IN  /\ consumeMessage(h).data = Answer
               /\ x \in Seq(Byte) /\ Up(x, k, m, whole)
<1> DEFINE w == h \o rest
           x == SubSeq(rest, 4 + 1, Len(rest))
<1>1. PICK full \in Seq(Byte) : /\ Begins(w, full) /\ (whole => full = w)
                                /\ Chain(full, m, Byte, Ans, Batch(k), Broken)
  BY Zenon DEF Up
<1>2. /\ w \in Seq(Byte) /\ Begins(h, w) /\ Len(w) = Len(h) + Len(rest)
      /\ Len(h) \in Nat /\ Len(rest) \in Nat /\ Len(w) \in Nat
  BY ConcatBegins, LenProperties
<1>3. Waits.kind # "records" /\ Waits.kind # "response"
  BY DEF Waits
<1>4. consumeMessage(w) = consumeMessage(h)
  <2> HIDE DEF w
  <2> QED
    BY <1>2, <1>3, ConsumeBeginning
<1>5. CASE full = <<>>
  <2>1. Len(full) = 0
    BY <1>5
  <2> QED
    BY <1>1, <1>2, <2>1 DEF Begins
<1>6. CASE \E d \in Broken : \E r \in Seq(Byte) : full = d \o r
  BY <1>1, <1>6, WrongOfDamaged
<1>7. CASE m /\ \E u \in Seq(Byte) : full = Batch(k) \o u
  <2>1. PICK u \in Seq(Byte) : full = Batch(k) \o u
    BY <1>7
  <2>2. consumeMessage(Batch(k)).kind = "records"
    BY <1>7, Fm1200Codec DEF Batch
  <2>3. consumeMessage(w) = consumeMessage(Batch(k))
    <3> HIDE DEF w
    <3> QED
      BY <1>1, <1>2, <1>3, <1>4, <2>1, <2>2, FirstIsRead, PacketsAreBytes
  <2> QED
    BY <1>4, <2>2, <2>3
<1>8. CASE \E u \in Seq(Byte) : full = Ans \o u /\ Chain(u, m, Byte, Ans, Batch(k), Broken)
  <2>1. PICK u \in Seq(Byte) : full = Ans \o u /\ Chain(u, m, Byte, Ans, Batch(k), Broken)
    BY <1>8
  <2>2. /\ consumeMessage(Ans).kind = "response" /\ consumeMessage(Ans).data = Answer
        /\ Len(Ans) = 12 + Len(consumeMessage(Ans).of) /\ Ans \in Seq(Byte)
    BY Fm1200Codec, PacketsAreBytes DEF Ans
  <2>3. consumeMessage(h) = consumeMessage(Ans)
    <3> HIDE DEF w
    <3> QED
      BY <1>1, <1>2, <1>3, <1>4, <2>1, <2>2, FirstIsRead
  <2>4. Len(Ans) = Len(h) + 4 /\ Len(Ans) <= Len(w)
    BY <1>2, <2>2, <2>3
  <2> DEFINE p == Ans
             y == SubSeq(w, Len(p) + 1, Len(w))
  <2>5. y \in Seq(Byte) /\ Begins(y, u) /\ (w = full => y = u)
    <3>1. p \in Seq(Byte) /\ Len(p) <= Len(w) /\ full = p \o u /\ Begins(w, full) /\ w \in Seq(Byte)
      BY <1>1, <1>2, <2>1, <2>2, <2>4
    <3> HIDE DEF p, w
    <3> QED
      BY <3>1, CutBegins
  <2>6. y = x
    <3>1. 4 \in Nat /\ 4 <= Len(rest) /\ Len(p) = Len(h) + 4
      BY <2>4
    <3>2. SubSeq(h \o rest, (Len(h) + 4) + 1, Len(h \o rest)) = SubSeq(rest, 4 + 1, Len(rest))
      BY <3>1, RestBehind
    <3> QED
      BY <3>1, <3>2
  <2> HIDE DEF x, y, w
  <2>7. Up(x, k, m, whole)
    BY <1>1, <2>1, <2>5, <2>6, Zenon DEF Up
  <2> QED
    BY <2>2, <2>3, <2>5, <2>6, <2>7 DEF x
<1> QED
  <2> HIDE DEF w, x
  <2>1. \/ full = <<>>
        \/ \E d \in Broken : \E r \in Seq(Byte) : full = d \o r
        \/ \E u \in Seq(Byte) : full = Ans \o u /\ Chain(u, m, Byte, Ans, Batch(k), Broken)
        \/ m /\ \E u \in Seq(Byte) : full = Batch(k) \o u /\ Chain(u, FALSE, Byte, Ans, Batch(k), Broken)
    <3>1. Cut(full, m, Byte, Ans, Batch(k), Broken)
      BY <1>1, ChainIsCut
    <3> QED
      BY <3>1, Zenon DEF Cut
  <2> QED
    BY <1>5, <1>6, <1>7, <1>8, <2>1 DEF x

-----------------------------------------------------------------------------
(* The bytes to the tracker.                                                *)

\* The bytes of a command
Frame == SendCommandToDevice(Command)

\* and of the acknowledgement of the batch b,
Ack(b) == IF b \in DOMAIN Batches THEN Put(Len(Batches[b]), 4) ELSE <<>>

\* and those on their way to the tracker: commands with, when `ack`, the
\* acknowledgement of the batch b among them.
Down(d, ack, b) == Chain(d, ack, Byte, Frame, Ack(b), {})

\* Commands and acknowledgements are bytes.
LEMMA FramesAreBytes ==
    Frame \in Seq(Byte) /\ \A b : Ack(b) \in Seq(Byte)
<1>1. <<>> \in Seq(Byte)
  OBVIOUS
<1> QED
  BY <1>1, Fm1200Codec DEF Frame, Ack

\* A command is written, or the acknowledgement.
LEMMA DownNext ==
    ASSUME NEW d, NEW b, NEW j
    PROVE  /\ \A ack \in BOOLEAN : Down(d, ack, b) => Down(d \o Frame, ack, b)
           /\ Down(d, FALSE, b) => Down(d \o Ack(j), TRUE, j) /\ Down(d, FALSE, j)
<1>1. Frame \in Seq(Byte) /\ Ack(b) \in Seq(Byte) /\ Ack(j) \in Seq(Byte) /\ {} \subseteq Seq(Byte)
  BY FramesAreBytes
<1>2. ASSUME NEW ack \in BOOLEAN, Down(d, ack, b) PROVE Down(d \o Frame, ack, b)
  BY <1>1, <1>2, ChainWithNext DEF Down
<1>3. ASSUME Down(d, FALSE, b) PROVE Down(d \o Ack(j), TRUE, j) /\ Down(d, FALSE, j)
  BY <1>1, <1>3, ChainWithOne DEF Down
<1> QED
  BY <1>2, <1>3

\* The tracker reads the acknowledgement,
LEMMA DownAck ==
    ASSUME NEW d, NEW b, NEW ack \in BOOLEAN, ack => b \in DOMAIN Batches,
           Down(d, ack, b), Len(d) >= 4, Uint32(d, 0) # 0
    PROVE  /\ ack /\ Uint32(d, 0) = Len(Batches[b])
           /\ Down(SubSeq(d, 5, Len(d)), FALSE, b)
<1>1. \/ d = <<>>
      \/ \E u \in Seq(Byte) : d = Frame \o u
      \/ ack /\ \E u \in Seq(Byte) : d = Ack(b) \o u /\ Down(u, FALSE, b)
  <2>1. Cut(d, ack, Byte, Frame, Ack(b), {})
    BY ChainIsCut DEF Down
  <2> QED
    BY <2>1, Zenon DEF Cut, Down
<1>2. 0 \in Nat
  OBVIOUS
<1>3. CASE d = <<>>
  <2>1. Len(d) = 0
    BY <1>3
  <2> QED
    BY <2>1
<1>4. CASE \E u \in Seq(Byte) : d = Frame \o u
  <2>1. PICK u \in Seq(Byte) : d = Frame \o u
    BY <1>4
  <2>2. Frame \in Seq(Byte) /\ Uint32(Frame, 0) = 0 /\ 0 + 4 <= Len(Frame)
    BY Fm1200Codec DEF Frame
  <2>3. d \in Seq(Byte) /\ Begins(Frame, d)
    BY <2>1, <2>2, ConcatBegins
  <2> QED
    BY <1>2, <2>2, <2>3, Uint32OfBeginning
<1>5. CASE ack /\ \E u \in Seq(Byte) : d = Ack(b) \o u /\ Down(u, FALSE, b)
  <2>1. PICK u \in Seq(Byte) : d = Ack(b) \o u /\ Down(u, FALSE, b)
    BY <1>5
  <2> DEFINE n == Len(Batches[b])
             a == Ack(b)
  <2>2. a \in Seq(Byte) /\ Len(a) = 4 /\ Uint32(a, 0) = n
    <3>1. a = Put(n, 4)
      BY <1>5 DEF Ack
    <3>2. Len(Put(n, 4)) = 4
      BY PutFour
    <3>3. Put(n, 4) \in Seq(Byte) /\ Uint32(Put(n, 4), 0) = n /\ n # 0
      BY <1>5, Fm1200Codec
    <3> HIDE DEF n, a
    <3> QED
      BY <3>1, <3>2, <3>3
  <2> HIDE DEF a
  <2>3. d \in Seq(Byte) /\ Begins(a, d)
    BY <2>1, <2>2, ConcatBegins DEF a
  <2>4. Uint32(d, 0) = n
    <3>1. 0 + 4 <= Len(a)
      BY <2>2
    <3> HIDE DEF n
    <3> QED
      BY <1>2, <2>2, <2>3, <3>1, Uint32OfBeginning
  <2>5. SubSeq(d, 5, Len(d)) = u
    <3>1. SubSeq(d, Len(a) + 1, Len(d)) = u
      BY <2>1, <2>2, CutConcat DEF a
    <3>2. Len(a) + 1 = 5
      BY <2>2
    <3> QED
      BY <3>1, <3>2
  <2> QED
    BY <1>5, <2>1, <2>4, <2>5
<1> QED
  BY <1>1, <1>3, <1>4, <1>5

\* or a command, to its end.
LEMMA DownCommand ==
    ASSUME NEW d, NEW b, NEW ack \in BOOLEAN, ack => b \in DOMAIN Batches,
           Down(d, ack, b), Len(d) >= 8, Uint32(d, 0) = 0
    PROVE  Down(SubSeq(d, 13 + Uint32(d, 4), Len(d)), ack, b)
<1>1. \/ d = <<>>
      \/ \E u \in Seq(Byte) : d = Frame \o u /\ Down(u, ack, b)
      \/ ack /\ \E u \in Seq(Byte) : d = Ack(b) \o u
  <2>1. Cut(d, ack, Byte, Frame, Ack(b), {})
    BY ChainIsCut DEF Down
  <2> QED
    BY <2>1, Zenon DEF Cut, Down
<1>2. 0 \in Nat /\ 4 \in Nat
  OBVIOUS
<1>3. CASE d = <<>>
  <2>1. Len(d) = 0
    BY <1>3
  <2> QED
    BY <2>1
<1>4. CASE \E u \in Seq(Byte) : d = Frame \o u /\ Down(u, ack, b)
  <2>1. PICK u \in Seq(Byte) : d = Frame \o u /\ Down(u, ack, b)
    BY <1>4
  <2>2. /\ Frame \in Seq(Byte) /\ Uint32(Frame, 4) \in Nat
        /\ Len(Frame) = 12 + Uint32(Frame, 4) /\ 4 + 4 <= Len(Frame)
    BY Fm1200Codec DEF Frame
  <2>3. d \in Seq(Byte) /\ Begins(Frame, d)
    BY <2>1, <2>2, ConcatBegins
  <2>4. Uint32(d, 4) = Uint32(Frame, 4)
    BY <1>2, <2>2, <2>3, Uint32OfBeginning
  <2>5. SubSeq(d, Len(Frame) + 1, Len(d)) = u
    BY <2>1, <2>2, CutConcat
  <2>6. Len(Frame) + 1 = 13 + Uint32(d, 4)
    BY <2>2, <2>4
  <2> QED
    BY <2>1, <2>5, <2>6
<1>5. CASE ack /\ \E u \in Seq(Byte) : d = Ack(b) \o u
  <2>1. PICK u \in Seq(Byte) : d = Ack(b) \o u
    BY <1>5
  <2> DEFINE n == Len(Batches[b])
             a == Ack(b)
  <2>2. a \in Seq(Byte) /\ 0 + 4 <= Len(a) /\ Uint32(a, 0) = n /\ n # 0
    <3>1. a = Put(n, 4)
      BY <1>5 DEF Ack
    <3>2. 0 + 4 <= Len(Put(n, 4))
      <4> DEFINE x == Len(Put(n, 4))
      <4>1. x = 4
        BY PutFour
      <4> HIDE DEF x
      <4>2. 0 + 4 <= x
        BY <4>1
      <4> QED
        BY <4>2 DEF x
    <3>3. Put(n, 4) \in Seq(Byte) /\ Uint32(Put(n, 4), 0) = n /\ n # 0
      BY <1>5, Fm1200Codec
    <3> HIDE DEF n, a
    <3> QED
      BY <3>1, <3>2, <3>3
  <2> HIDE DEF a
  <2>3. d \in Seq(Byte) /\ Begins(a, d)
    BY <2>1, <2>2, ConcatBegins DEF a
  <2> QED
    BY <1>2, <2>2, <2>3, Uint32OfBeginning
<1> QED
  BY <1>1, <1>3, <1>4, <1>5

-----------------------------------------------------------------------------
(* What is reported, and what of it a queue has.                            *)

\* All that the store should read of the batches,
Statuses == UNION {Range(Reported(Batches[b])) : b \in DOMAIN Batches}

\* of each of those from f up to, not with, k,
EachReported(f, k) == [i \in 1..k - f |-> Reported(Batches[f + i - 1])]

\* and of all of these, one after the other.
Reports(f, k) == FlattenSeq(EachReported(f, k))

\* The batches are numbered from 1.
LEMMA BatchesAreCounted == /\ Len(Batches) \in Nat /\ DOMAIN Batches = 1..Len(Batches)
  BY Fm1200Assumption, LenProperties

\* Something is reported of every batch,
LEMMA ReportedType ==
    \A b \in DOMAIN Batches : /\ Reported(Batches[b]) \in Seq(Statuses)
                              /\ Reported(Batches[b]) # <<>>
<1> SUFFICES ASSUME NEW b \in DOMAIN Batches
             PROVE  Reported(Batches[b]) \in Seq(Statuses) /\ Reported(Batches[b]) # <<>>
  OBVIOUS
<1> DEFINE s == Reported(Batches[b])
           n == Len(Batches[b])
<1>1. IsSequence(s) /\ Len(s) = n /\ n # 0
  BY Fm1200Codec
<1>2. Range(s) \subseteq Statuses
  BY DEF Statuses
<1> HIDE DEF s, n
<1>3. s \in Seq(Range(s))
  BY <1>1 DEF IsSequence, Range
<1>4. s \in Seq(Statuses)
  BY <1>2, <1>3, SeqMonotonic
<1>5. s # <<>>
  BY <1>1, EmptyIsSequence
<1> QED
  BY <1>4, <1>5 DEF s

\* and what is reported of some is a sequence of it.
LEMMA ReportsType ==
    ASSUME NEW f \in Nat \ {0}, NEW k \in Nat, f <= k, k <= Len(Batches) + 1
    PROVE  /\ EachReported(f, k) \in Seq(Seq(Statuses)) /\ Len(EachReported(f, k)) = k - f
           /\ \A i \in 1..k - f : EachReported(f, k)[i] = Reported(Batches[f + i - 1])
           /\ Reports(f, k) \in Seq(Statuses)
<1> DEFINE n == k - f
           g == EachReported(f, k)
<1>1. n \in Nat
  OBVIOUS
<1>2. ASSUME NEW i \in 1..n PROVE Reported(Batches[f + i - 1]) \in Seq(Statuses)
  <2>1. f + i - 1 \in DOMAIN Batches
    BY BatchesAreCounted
  <2> QED
    BY <2>1, ReportedType
<1>3. /\ g \in Seq(Seq(Statuses)) /\ Len(g) = n
      /\ \A i \in 1..n : g[i] = Reported(Batches[f + i - 1])
  <2>1. g = [i \in 1..n |-> Reported(Batches[f + i - 1])]
    BY DEF EachReported
  <2> HIDE DEF n, g
  <2>2. [i \in 1..n |-> Reported(Batches[f + i - 1])] \in Seq(Seq(Statuses))
    BY <1>1, <1>2, IsASeq
  <2> QED
    BY <1>1, <1>2, <2>1, <2>2
<1>4. FlattenSeq(g) \in Seq(Statuses)
  <2> HIDE DEF g
  <2>1. <<>> \in Seq(Statuses)
    OBVIOUS
  <2> QED
    BY <1>3, <2>1, FlattenAppend
<1> QED
  BY <1>3, <1>4 DEF Reports

\* Of no batches there is nothing,
LEMMA ReportsOfNone == \A f \in Nat : Reports(f, f) = <<>>
<1> SUFFICES ASSUME NEW f \in Nat PROVE Reports(f, f) = <<>>
  OBVIOUS
<1>1. EachReported(f, f) = <<>>
  <2>1. f - f = 0
    OBVIOUS
  <2>2. EachReported(f, f) = [i \in 1..0 |-> Reported(Batches[f + i - 1])]
    BY <2>1 DEF EachReported
  <2> QED
    BY <2>2
<1> QED
  BY <1>1, FlattenEmpty DEF Reports

\* of one more there is what was reported of it.
LEMMA ReportsNext ==
    ASSUME NEW f \in Nat \ {0}, NEW k \in DOMAIN Batches, f <= k
    PROVE  Reports(f, k + 1) = Reports(f, k) \o Reported(Batches[k])
<1> DEFINE S == Seq(Statuses)
           g == EachReported(f, k)
           h == EachReported(f, k + 1)
           x == Reported(Batches[k])
           a == Append(g, x)
           n == k - f
<1>1. /\ k \in Nat /\ k + 1 \in Nat /\ k <= Len(Batches) + 1 /\ k + 1 <= Len(Batches) + 1
      /\ f <= k + 1 /\ n \in Nat /\ (k + 1) - f = n + 1 /\ x \in S
  BY BatchesAreCounted, ReportedType
<1>2. g \in Seq(S) /\ Len(g) = n /\ \A i \in 1..n : g[i] = Reported(Batches[f + i - 1])
  BY <1>1, ReportsType
<1>3. h \in Seq(S) /\ Len(h) = n + 1 /\ \A i \in 1..n + 1 : h[i] = Reported(Batches[f + i - 1])
  BY <1>1, ReportsType
<1> HIDE DEF g, h, S
<1>4. /\ a \in Seq(S) /\ Len(a) = n + 1 /\ a[n + 1] = x /\ \A i \in 1..n : a[i] = g[i]
  BY <1>1, <1>2, AppendProperties
<1>5. ASSUME NEW i \in 1..n + 1 PROVE a[i] = h[i]
  <2>1. CASE i = n + 1
    <3>1. f + i - 1 = k
      BY <1>1, <2>1
    <3> QED
      BY <1>3, <1>4, <2>1, <3>1
  <2>2. CASE i # n + 1
    <3>1. i \in 1..n
      BY <1>1, <2>2
    <3> QED
      BY <1>2, <1>3, <1>4, <3>1
  <2> QED
    BY <2>1, <2>2
<1> HIDE DEF a, n, x
<1>6. a = h
  BY <1>1, <1>3, <1>4, <1>5, SeqEqual
<1>7. FlattenSeq(a) = FlattenSeq(g) \o x
  BY <1>1, <1>2, FlattenAppend DEF a, S
<1> QED
  BY <1>6, <1>7 DEF Reports, g, h, x

\* What was reported up to a batch begins what was up to a later one.
LEMMA ReportsBegin ==
    ASSUME NEW f \in Nat \ {0}, NEW k \in Nat, f <= k, NEW l \in Nat, k <= l,
           l <= Len(Batches) + 1
    PROVE  Begins(Reports(f, k), Reports(f, l))
<1> DEFINE T == {j \in Nat : k + j <= Len(Batches) + 1 => Begins(Reports(f, k), Reports(f, k + j))}
<1>1. Len(Batches) \in Nat
  BY BatchesAreCounted
<1>2. 0 \in T
  <2>1. k + 0 = k /\ k <= Len(Batches) + 1
    BY <1>1
  <2>2. Reports(f, k) \in Seq(Statuses)
    BY <2>1, ReportsType
  <2>3. Begins(Reports(f, k), Reports(f, k))
    BY <2>2, LenProperties DEF Begins
  <2> QED
    BY <2>1, <2>3
<1>3. ASSUME NEW j \in Nat, j \in T PROVE j + 1 \in T
  <2> SUFFICES ASSUME k + (j + 1) <= Len(Batches) + 1
               PROVE  Begins(Reports(f, k), Reports(f, k + (j + 1)))
    OBVIOUS
  <2> DEFINE m == k + j
  <2>1. /\ m \in Nat /\ m \in DOMAIN Batches /\ k + (j + 1) = m + 1 /\ f <= m
        /\ m <= Len(Batches) + 1 /\ k <= Len(Batches) + 1
    BY <1>1, BatchesAreCounted
  <2>2. Begins(Reports(f, k), Reports(f, m))
    BY <1>3, <2>1
  <2> HIDE DEF m
  <2>3. /\ Reports(f, m + 1) = Reports(f, m) \o Reported(Batches[m])
        /\ Reports(f, m) \in Seq(Statuses) /\ Reports(f, k) \in Seq(Statuses)
        /\ Reported(Batches[m]) \in Seq(Statuses)
    BY <2>1, ReportsNext, ReportsType, ReportedType
  <2>4. /\ Reports(f, m) \o Reported(Batches[m]) \in Seq(Statuses)
        /\ Begins(Reports(f, m), Reports(f, m) \o Reported(Batches[m]))
    BY <2>3, ConcatBegins
  <2>5. Begins(Reports(f, k), Reports(f, m + 1))
    BY <2>2, <2>3, <2>4, BeginsAgain
  <2> QED
    BY <2>1, <2>5
<1>4. Nat \subseteq T
  <2> HIDE DEF T
  <2> QED
    BY <1>2, <1>3, Induction
<1>5. l - k \in Nat /\ k + (l - k) = l
  OBVIOUS
<1>6. l - k \in T
  BY <1>4, <1>5
<1> QED
  BY <1>5, <1>6

\* It has every batch but the last in it.
LEMMA ReportsHave ==
    ASSUME NEW f \in Nat \ {0}, NEW k \in Nat, k <= Len(Batches) + 1,
           NEW b \in Nat, f <= b, b < k
    PROVE  Range(Reported(Batches[b])) \subseteq Range(Reports(f, k))
<1> DEFINE x == Reports(f, b)
           y == Reported(Batches[b])
           r == Reports(f, k)
<1>1. /\ b \in DOMAIN Batches /\ b + 1 \in Nat /\ b + 1 <= k /\ f <= b + 1
      /\ b <= Len(Batches) + 1 /\ f <= k /\ b + 1 <= Len(Batches) + 1
  BY BatchesAreCounted
<1>2. /\ x \in Seq(Statuses) /\ y \in Seq(Statuses) /\ r \in Seq(Statuses)
      /\ Reports(f, b + 1) = x \o y /\ Begins(Reports(f, b + 1), r)
  BY <1>1, ReportsType, ReportsNext, ReportsBegin, ReportedType
<1> HIDE DEF x, y, r
<1>3. /\ Len(x) \in Nat /\ Len(y) \in Nat /\ Len(r) \in Nat /\ Begins(x \o y, r)
      /\ Len(x \o y) = Len(x) + Len(y)
      /\ \A i \in 1..Len(x) + Len(y) : (x \o y)[i] = IF i <= Len(x) THEN x[i] ELSE y[i - Len(x)]
  BY <1>2, LenProperties, ConcatProperties
<1>4. ASSUME NEW i \in 1..Len(y) PROVE y[i] \in Range(r)
  <2>1. Len(x) + i \in 1..Len(x) + Len(y) /\ ~(Len(x) + i <= Len(x)) /\ (Len(x) + i) - Len(x) = i
    BY <1>3
  <2>2. (x \o y)[Len(x) + i] = y[i]
    BY <1>3, <2>1
  <2>3. Len(x) + i \in 1..Len(x \o y) /\ Len(x) + i \in 1..Len(r)
    BY <1>3, <2>1 DEF Begins
  <2>4. r[Len(x) + i] = y[i]
    BY <1>3, <2>2, <2>3 DEF Begins
  <2>5. Len(x) + i \in DOMAIN r
    BY <1>2, <2>3, LenProperties
  <2> QED
    BY <2>4, <2>5 DEF Range
<1>5. DOMAIN y = 1..Len(y)
  BY <1>2, LenProperties
<1>6. Range(y) \subseteq Range(r)
  BY <1>4, <1>5 DEF Range
<1> QED
  BY <1>6 DEF y, r

\* r is what has been put into a queue, q, and then what will be of the records left.
Recorded(r, q, left) ==
    /\ r \in Seq(Statuses) /\ IsSequence(q) /\ IsSequence(left)
    /\ Len(r) = Len(q) + Len(left)
    /\ \A i \in 1..Len(q) : r[i] = q[i]
    /\ \A i \in 1..Len(left) : r[Len(q) + i] = ToProtobufDeviceStatus(left[i])

\* At first it is nothing.
LEMMA RecordedNone == Recorded(<<>>, <<>>, <<>>)
<1>1. <<>> \in Seq(Statuses) /\ Len(<<>>) = 0 /\ IsSequence(<<>>)
  BY EmptyIsSequence
<1> QED
  BY <1>1 DEF Recorded

\* A record moves from one to the other,
LEMMA RecordedMove ==
    ASSUME NEW r, NEW q, NEW left, Recorded(r, q, left), left # <<>>
    PROVE  Recorded(r, Append(q, ToProtobufDeviceStatus(Head(left))), Tail(left))
<1> DEFINE x == ToProtobufDeviceStatus(Head(left))
           p == Append(q, x)
           t == Tail(left)
<1>1. /\ r \in Seq(Statuses) /\ IsSequence(q) /\ IsSequence(left)
      /\ Len(r) = Len(q) + Len(left)
      /\ \A i \in 1..Len(q) : r[i] = q[i]
      /\ \A i \in 1..Len(left) : r[Len(q) + i] = ToProtobufDeviceStatus(left[i])
  BY DEF Recorded
<1>2. /\ IsSequence(p) /\ Len(p) = Len(q) + 1 /\ p[Len(q) + 1] = x
      /\ \A i \in 1..Len(q) : p[i] = q[i] /\ Len(q) \in Nat
  <2> HIDE DEF x
  <2> QED
    BY <1>1, AppendToSequence, LengthType
<1>3. IsSequence(t) /\ Len(left) \in Nat \ {0} /\ Len(t) = Len(left) - 1 /\ Len(q) \in Nat
  BY <1>1, TailOfSequence, LengthType
<1>4. Head(left) = left[1] /\ \A i \in 1..Len(t) : t[i] = left[i + 1]
  <2>1. PICK S : left \in Seq(S)
    BY <1>1, SequenceOver
  <2> QED
    BY <1>3, <2>1, HeadTailProperties
<1>5. x = ToProtobufDeviceStatus(left[1])
  BY <1>4
<1> HIDE DEF p, t, x
<1>6. Len(r) = Len(p) + Len(t)
  BY <1>1, <1>2, <1>3
<1>7. ASSUME NEW i \in 1..Len(p) PROVE r[i] = p[i]
  <2>1. CASE i = Len(q) + 1
    <3>1. 1 \in 1..Len(left)
      BY <1>3
    <3>2. r[Len(q) + 1] = ToProtobufDeviceStatus(left[1])
      BY <1>1, <3>1
    <3> QED
      BY <1>2, <1>5, <2>1, <3>2
  <2>2. CASE i # Len(q) + 1
    <3>1. i \in 1..Len(q)
      BY <1>2, <1>3, <2>2
    <3> QED
      BY <1>1, <1>2, <3>1
  <2> QED
    BY <2>1, <2>2
<1>8. ASSUME NEW i \in 1..Len(t) PROVE r[Len(p) + i] = ToProtobufDeviceStatus(t[i])
  <2>1. i + 1 \in 1..Len(left) /\ Len(p) + i = Len(q) + (i + 1)
    BY <1>2, <1>3
  <2>2. r[Len(q) + (i + 1)] = ToProtobufDeviceStatus(left[i + 1])
    BY <1>1, <2>1
  <2> QED
    BY <1>4, <2>1, <2>2
<1>9. Recorded(r, p, t)
  BY <1>1, <1>2, <1>3, <1>6, <1>7, <1>8 DEF Recorded
<1> QED
  BY <1>9 DEF p, t, x

\* the records of a packet are there to be queued,
LEMMA RecordedTake ==
    ASSUME NEW r, NEW q, Recorded(r, q, <<>>), NEW n \in Nat, NEW records,
           IsSequence(records), Len(records) = n,
           NEW x \in Seq(Statuses), Len(x) = n,
           \A i \in 1..n : x[i] = ToProtobufDeviceStatus(records[i])
    PROVE  Recorded(r \o x, q, records)
<1> DEFINE s == r \o x
<1>1. /\ r \in Seq(Statuses) /\ IsSequence(q) /\ Len(q) \in Nat
      /\ Len(r) = Len(q) /\ \A i \in 1..Len(q) : r[i] = q[i]
  <2>1. Len(<<>>) = 0
    BY EmptyIsSequence
  <2>2. Len(q) \in Nat /\ Len(r) = Len(q) + Len(<<>>)
    BY LengthType DEF Recorded
  <2>3. Len(r) = Len(q)
    BY <2>1, <2>2
  <2> QED
    BY <2>2, <2>3 DEF Recorded
<1>2. Len(x) = n /\ \A i \in 1..n : x[i] = ToProtobufDeviceStatus(records[i])
  OBVIOUS
<1>3. /\ s \in Seq(Statuses) /\ Len(s) = Len(r) + Len(x)
      /\ \A i \in 1..Len(r) + Len(x) : s[i] = IF i <= Len(r) THEN r[i] ELSE x[i - Len(r)]
  BY <1>1, ConcatProperties
<1> HIDE DEF s
<1>4. ASSUME NEW i \in 1..Len(q) PROVE s[i] = q[i]
  <2>1. i \in 1..Len(r) + Len(x) /\ i <= Len(r)
    BY <1>1, <1>2
  <2> QED
    BY <1>1, <1>3, <2>1
<1>5. ASSUME NEW i \in 1..Len(records) PROVE s[Len(q) + i] = ToProtobufDeviceStatus(records[i])
  <2>1. /\ Len(q) + i \in 1..Len(r) + Len(x) /\ ~(Len(q) + i <= Len(r))
        /\ (Len(q) + i) - Len(r) = i /\ i \in 1..n
    BY <1>1, <1>2
  <2> QED
    BY <1>2, <1>3, <2>1
<1>6. Len(s) = Len(q) + Len(records)
  BY <1>1, <1>2, <1>3
<1> QED
  BY <1>1, <1>3, <1>4, <1>5, <1>6 DEF Recorded, s

\* and the queue begins with what was reported.
LEMMA RecordedBegins ==
    ASSUME NEW r, NEW q, NEW left, Recorded(r, q, left)
    PROVE  q \in Seq(Statuses) /\ Begins(q, r) /\ (left = <<>> => q = r)
<1>1. /\ r \in Seq(Statuses) /\ IsSequence(q) /\ IsSequence(left) /\ Len(q) \in Nat
      /\ Len(left) \in Nat /\ Len(r) = Len(q) + Len(left)
      /\ \A i \in 1..Len(q) : r[i] = q[i]
  BY LengthType DEF Recorded
<1>2. Len(q) <= Len(r) /\ (left = <<>> => Len(q) = Len(r))
  BY <1>1, EmptyIsSequence
<1>3. Begins(q, r)
  BY <1>1, <1>2 DEF Begins
<1>4. \A i \in 1..Len(q) : q[i] \in Statuses
  BY <1>1, <1>2, ElementOfSeq
<1>5. q \in Seq(Statuses)
  <2>1. PICK S : q \in Seq(S)
    BY <1>1, SequenceOver
  <2> QED
    BY <1>4, <2>1
<1>6. ASSUME left = <<>> PROVE q = r
  BY <1>1, <1>2, <1>5, <1>6, SeqEqual
<1> QED
  BY <1>3, <1>5, <1>6

-----------------------------------------------------------------------------
(* The invariant of one connection.                                         *)

\* The responses are all answers,
AllAnswers(rs) == IsSequence(rs) /\ \A i \in 1..Len(rs) : rs[i] = Answer

\* or all but the last one.
LastMayDiffer(rs) == IsSequence(rs) /\ \A i \in 1..Len(rs) - 1 : rs[i] = Answer

\* Of no responses all are answers;
LEMMA AllAnswersOfNone == AllAnswers(<<>>)
  BY EmptyIsSequence DEF AllAnswers

\* if all are then all but the last are,
LEMMA AnswersLast == \A rs : AllAnswers(rs) => LastMayDiffer(rs)
<1> SUFFICES ASSUME NEW rs, AllAnswers(rs) PROVE LastMayDiffer(rs)
  OBVIOUS
<1>1. Len(rs) \in Nat
  BY LengthType DEF AllAnswers
<1> QED
  BY <1>1 DEF AllAnswers, LastMayDiffer

\* and another response is the last of them.
LEMMA AnswersAppend ==
    ASSUME NEW rs, AllAnswers(rs), NEW x
    PROVE  /\ LastMayDiffer(Append(rs, x)) /\ Len(Append(rs, x)) # 0
           /\ Append(rs, x)[Len(Append(rs, x))] = x
<1> DEFINE t == Append(rs, x)
<1>1. /\ IsSequence(rs) /\ Len(rs) \in Nat /\ \A i \in 1..Len(rs) : rs[i] = Answer
  BY LengthType DEF AllAnswers
<1>2. /\ IsSequence(t) /\ Len(t) = Len(rs) + 1 /\ t[Len(rs) + 1] = x
      /\ \A i \in 1..Len(rs) : t[i] = rs[i]
  BY <1>1, AppendToSequence
<1> HIDE DEF t
<1>3. Len(t) - 1 = Len(rs) /\ Len(t) # 0
  BY <1>1, <1>2
<1>4. LastMayDiffer(t)
  BY <1>1, <1>2, <1>3 DEF LastMayDiffer
<1> QED
  BY <1>2, <1>3, <1>4 DEF t

\* They all are if the last is too.
LEMMA AnswersAll ==
    ASSUME NEW rs, LastMayDiffer(rs), Len(rs) # 0, rs[Len(rs)] = Answer
    PROVE  AllAnswers(rs)
<1>1. Len(rs) \in Nat
  BY LengthType DEF LastMayDiffer
<1>2. ASSUME NEW i \in 1..Len(rs) PROVE rs[i] = Answer
  <2>1. i \in 1..Len(rs) - 1 \/ i = Len(rs)
    BY <1>1
  <2> QED
    BY <2>1 DEF LastMayDiffer
<1> QED
  BY <1>2 DEF AllAnswers, LastMayDiffer

\* Of a connection that began with the batch f: it has read the batches before k
\* and queued their records but those that are left; m says that the batch k
\* may be among the bytes it has not read.
Queued(f, k, m, pl, left, q) ==
    /\ f \in 1..Len(Batches) + 1 /\ k \in f..Len(Batches) + 1
    /\ m \in BOOLEAN /\ (m => k \in DOMAIN Batches)
    /\ Recorded(Reports(f, k), q, left) /\ (pl # "queue" => left = <<>>)

\* Behind the response h, whose checksum is the next to be read, there is w.
Checks(h, k, m, cur, w, ck, rs) ==
    /\ h \in Seq(Byte) /\ consumeMessage(h).kind = "response"
    /\ consumeMessage(h).of = ck /\ Len(ck) \in Nat /\ Len(h) = 8 + Len(ck)
    /\ Len(rs) # 0 /\ rs[Len(rs)] = consumeMessage(h).data
    /\ Up(h \o w, k, m, cur)

\* What a connection has not read is a stream of packets, at the place pl of its
\* ConsumeStream.
Unread(k, m, cur, pl, w, ck, rs) ==
    \/ pl \in {"new", "read", "queue"} /\ AllAnswers(rs) /\ Up(w, k, m, cur)
    \/ /\ pl = "check" /\ LastMayDiffer(rs)
       /\ \E h \in Seq(Byte) : Checks(h, k, m, cur, w, ck, rs)
    \/ pl = "ended" /\ LastMayDiffer(rs)

\* Of the tracker's connection: where the batch that it sends and its
\* acknowledgement are.
Due(f, k, m, pl, number, d, bt, aw) ==
    /\ f <= bt
    /\ \/ ~aw /\ ~m /\ pl # "queue" /\ k = bt /\ Down(d, FALSE, bt)
       \/ /\ aw /\ bt \in DOMAIN Batches
          /\ \/ k = bt /\ pl # "queue" /\ Down(d, FALSE, bt)
             \/ /\ k = bt + 1 /\ ~m /\ pl = "queue" /\ number = Len(Batches[bt])
                /\ Down(d, FALSE, bt)
             \/ k = bt + 1 /\ ~m /\ pl # "queue" /\ Down(d, TRUE, bt)

\* The invariant of one connection, of the parts of the state that it has; cur says
\* that the tracker has not lost it.
Holds(cur, pl, w, left, number, ck, q, rs, d, bt, aw) ==
    \E f, k, m :
        /\ Queued(f, k, m, pl, left, q)
        /\ Unread(k, m, cur, pl, w, ck, rs)
        /\ cur => Due(f, k, m, pl, number, d, bt, aw)

-----------------------------------------------------------------------------
(* What a ConsumeStream does with it.                                       *)

\* A packet is taken: it is the batch, and there was only one.
LEMMA HoldsRecords ==
    ASSUME DamageIsSeen, NEW cur, NEW w \in Seq(Byte), NEW left, NEW number, NEW ck, NEW q,
           NEW rs, NEW d, NEW bt \in Nat, NEW aw,
           Holds(cur, "read", w, left, number, ck, q, rs, d, bt, aw),
           consumeMessage(w).kind = "records",
           NEW records \in InTimeOrder(consumeMessage(w).records)
    PROVE  Holds(cur, "queue", SubSeq(w, 12 + consumeMessage(w).size + 1, Len(w)), records,
                 consumeMessage(w).number, ck, q, rs, d, bt, aw)
<1> DEFINE message == consumeMessage(w)
           x == SubSeq(w, 12 + message.size + 1, Len(w))
<1>1. PICK f, k, m : /\ Queued(f, k, m, "read", left, q)
                     /\ Unread(k, m, cur, "read", w, ck, rs)
                     /\ cur => Due(f, k, m, "read", number, d, bt, aw)
  BY Zenon DEF Holds
<1>2. /\ f \in 1..Len(Batches) + 1 /\ k \in f..Len(Batches) + 1 /\ m \in BOOLEAN
      /\ m => k \in DOMAIN Batches
      /\ Recorded(Reports(f, k), q, left) /\ left = <<>>
  BY <1>1 DEF Queued
<1>3. AllAnswers(rs) /\ Up(w, k, m, cur)
  BY <1>1 DEF Unread
<1>4. /\ m = TRUE /\ message = consumeMessage(EncodeBatch(Batches[k]))
      /\ x \in Seq(Byte) /\ Up(x, k, FALSE, cur)
  BY <1>2, <1>3, UpRecords
<1> HIDE DEF x
<1>5. Up(x, k + 1, FALSE, cur)
  BY <1>4, UpOther
<1>6. k \in DOMAIN Batches /\ f \in Nat \ {0} /\ f <= k /\ k \in Nat /\ k + 1 \in f..Len(Batches) + 1
  BY <1>2, <1>4, BatchesAreCounted
<1> DEFINE n == Len(Batches[k])
           y == Reported(Batches[k])
<1>7. /\ message.number = n /\ Len(y) = n
      /\ y = [i \in 1..n |-> ToProtobufDeviceStatus(records[i])]
  BY <1>4, <1>6, Fm1200Codec
<1>8. y \in Seq(Statuses) /\ n \in Nat
  BY <1>6, <1>7, ReportedType, LenProperties
<1>9. IsSequence(records) /\ Len(records) = n
  <2>1. message.number \in Nat /\ DOMAIN message.records = 1..message.number
    BY RecordsAreCounted
  <2> QED
    BY <1>7, <2>1, InTimeOrderCounts
<1>10. \A i \in 1..n : y[i] = ToProtobufDeviceStatus(records[i])
  BY <1>7
<1>11. Reports(f, k + 1) = Reports(f, k) \o y
  BY <1>6, ReportsNext
<1>12. Recorded(Reports(f, k + 1), q, records)
  <2> HIDE DEF n, y
  <2> QED
    BY <1>2, <1>7, <1>8, <1>9, <1>10, <1>11, RecordedTake
<1>13. Queued(f, k + 1, FALSE, "queue", records, q)
  BY <1>2, <1>6, <1>12 DEF Queued
<1>14. Unread(k + 1, FALSE, cur, "queue", x, ck, rs)
  BY <1>3, <1>5 DEF Unread
<1>15. ASSUME cur PROVE Due(f, k + 1, FALSE, "queue", message.number, d, bt, aw)
  <2>1. f <= bt /\ aw /\ bt \in DOMAIN Batches /\ k = bt /\ Down(d, FALSE, bt)
    BY <1>1, <1>4, <1>15, Zenon DEF Due
  <2> QED
    BY <1>7, <2>1 DEF Due
<1>16. Holds(cur, "queue", x, records, message.number, ck, q, rs, d, bt, aw)
  BY <1>13, <1>14, <1>15, Zenon DEF Holds
<1> QED
  BY <1>16 DEF x

\* A response is taken, before its checksum is.
LEMMA HoldsResponse ==
    ASSUME NEW cur, NEW w \in Seq(Byte), NEW left, NEW number, NEW ck, NEW q,
           NEW rs, NEW d, NEW bt, NEW aw,
           Holds(cur, "read", w, left, number, ck, q, rs, d, bt, aw),
           consumeMessage(w).kind = "response"
    PROVE  Holds(cur, "check", SubSeq(w, 8 + Len(consumeMessage(w).of) + 1, Len(w)), left,
                 number, consumeMessage(w).of, q, Append(rs, consumeMessage(w).data), d, bt, aw)
<1> DEFINE message == consumeMessage(w)
           of == message.of
           n == 8 + Len(of)
           x == SubSeq(w, n + 1, Len(w))
           h == SubSeq(w, 1, n)
           t == Append(rs, message.data)
<1>1. PICK f, k, m : /\ Queued(f, k, m, "read", left, q)
                     /\ Unread(k, m, cur, "read", w, ck, rs)
                     /\ cur => Due(f, k, m, "read", number, d, bt, aw)
  BY Zenon DEF Holds
<1>3. AllAnswers(rs) /\ Up(w, k, m, cur)
  BY <1>1 DEF Unread
<1>4. /\ n \in Nat /\ n <= Len(w) /\ h \in Seq(Byte) /\ Len(h) = n
      /\ consumeMessage(h) = message /\ Len(of) \in Nat
  <2>1. /\ n \in Nat /\ n <= Len(w) /\ h \in Seq(Byte) /\ Len(h) = n
        /\ consumeMessage(h) = message
    BY ResponseIsWithin
  <2>2. Len(of) \in Nat
    BY ResponseIsLong
  <2> QED
    BY <2>1, <2>2
<1>5. h \o x = w
  <2>1. n \in Nat /\ n <= Len(w) /\ w \in Seq(Byte)
    BY <1>4
  <2> HIDE DEF n
  <2> QED
    BY <2>1, FrontAndRest
<1>6. LastMayDiffer(t) /\ Len(t) # 0 /\ t[Len(t)] = message.data
  BY <1>3, AnswersAppend
<1> HIDE DEF x, h, t
<1>7. Checks(h, k, m, cur, x, of, t)
  BY <1>3, <1>4, <1>5, <1>6 DEF Checks
<1>8. Unread(k, m, cur, "check", x, of, t)
  BY <1>4, <1>6, <1>7 DEF Unread
<1>9. Queued(f, k, m, "check", left, q)
  BY <1>1 DEF Queued
<1>10. ASSUME cur PROVE Due(f, k, m, "check", number, d, bt, aw)
  BY <1>1, <1>10, Zenon DEF Due
<1>11. Holds(cur, "check", x, left, number, of, q, t, d, bt, aw)
  BY <1>8, <1>9, <1>10, Zenon DEF Holds
<1> QED
  BY <1>11 DEF x, t

\* Its checksum is right, so it was the answer,
LEMMA HoldsChecked ==
    ASSUME DamageIsSeen, NEW cur, NEW w \in Seq(Byte), NEW left, NEW number, NEW ck, NEW q,
           NEW rs, NEW d, NEW bt, NEW aw,
           Holds(cur, "check", w, left, number, ck, q, rs, d, bt, aw),
           Len(w) >= 4, ValidateCrc(ck, Slice(w, 0, 4))
    PROVE  Holds(cur, "read", SubSeq(w, 4 + 1, Len(w)), left, number, ck, q, rs, d, bt, aw)
<1> DEFINE x == SubSeq(w, 4 + 1, Len(w))
<1>1. PICK f, k, m : /\ Queued(f, k, m, "check", left, q)
                     /\ Unread(k, m, cur, "check", w, ck, rs)
                     /\ cur => Due(f, k, m, "check", number, d, bt, aw)
  BY Zenon DEF Holds
<1>2. PICK h \in Seq(Byte) : Checks(h, k, m, cur, w, ck, rs)
  BY <1>1 DEF Unread
<1>3. LastMayDiffer(rs)
  BY <1>1 DEF Unread
<1>4. m \in BOOLEAN /\ (m => k \in DOMAIN Batches)
  BY <1>1 DEF Queued
<1>5. consumeMessage(h).data = Answer /\ x \in Seq(Byte) /\ Up(x, k, m, cur)
  BY <1>2, <1>4, UpChecked DEF Checks
<1> HIDE DEF x
<1>6. AllAnswers(rs)
  BY <1>2, <1>3, <1>5, AnswersAll DEF Checks
<1>7. Unread(k, m, cur, "read", x, ck, rs)
  BY <1>5, <1>6 DEF Unread
<1>8. Queued(f, k, m, "read", left, q)
  BY <1>1 DEF Queued
<1>9. ASSUME cur PROVE Due(f, k, m, "read", number, d, bt, aw)
  BY <1>1, <1>9, Zenon DEF Due
<1>10. Holds(cur, "read", x, left, number, ck, q, rs, d, bt, aw)
  BY <1>7, <1>8, <1>9, Zenon DEF Holds
<1> QED
  BY <1>10 DEF x

\* or the stream ends.
LEMMA HoldsEnd ==
    ASSUME NEW cur, NEW pl \in {"read", "check", "queue"}, NEW w, NEW x, NEW left, NEW number,
           NEW ck, NEW q, NEW rs, NEW d, NEW bt, NEW aw,
           Holds(cur, pl, w, left, number, ck, q, rs, d, bt, aw),
           pl = "queue" => left = <<>> /\ ~cur
    PROVE  Holds(cur, "ended", x, left, number, ck, q, rs, d, bt, aw)
<1>1. PICK f, k, m : /\ Queued(f, k, m, pl, left, q)
                     /\ Unread(k, m, cur, pl, w, ck, rs)
                     /\ cur => Due(f, k, m, pl, number, d, bt, aw)
  BY Zenon DEF Holds
<1>2. LastMayDiffer(rs)
  BY <1>1, AnswersLast DEF Unread
<1>3. Unread(k, m, cur, "ended", x, ck, rs)
  BY <1>2 DEF Unread
<1>4. Queued(f, k, m, "ended", left, q)
  BY <1>1 DEF Queued
<1>5. ASSUME cur PROVE Due(f, k, m, "ended", number, d, bt, aw)
  <2>1. pl # "queue" /\ "ended" # "queue"
    BY <1>5
  <2> QED
    BY <1>1, <1>5, <2>1, Zenon DEF Due
<1> QED
  BY <1>3, <1>4, <1>5, Zenon DEF Holds

\* A record is queued,
LEMMA HoldsQueue ==
    ASSUME NEW cur, NEW w, NEW left, NEW number, NEW ck, NEW q,
           NEW rs, NEW d, NEW bt, NEW aw,
           Holds(cur, "queue", w, left, number, ck, q, rs, d, bt, aw), left # <<>>
    PROVE  Holds(cur, "queue", w, Tail(left), number, ck,
                 Append(q, ToProtobufDeviceStatus(Head(left))), rs, d, bt, aw)
<1> DEFINE p == Append(q, ToProtobufDeviceStatus(Head(left)))
           t == Tail(left)
<1>1. PICK f, k, m : /\ Queued(f, k, m, "queue", left, q)
                     /\ Unread(k, m, cur, "queue", w, ck, rs)
                     /\ cur => Due(f, k, m, "queue", number, d, bt, aw)
  BY Zenon DEF Holds
<1>2. Recorded(Reports(f, k), p, t)
  BY <1>1, RecordedMove DEF Queued
<1> HIDE DEF p, t
<1>3. Queued(f, k, m, "queue", t, p)
  BY <1>1, <1>2 DEF Queued
<1>4. Unread(k, m, cur, "queue", w, ck, rs)
  BY <1>1 DEF Unread
<1>5. Holds(cur, "queue", w, t, number, ck, p, rs, d, bt, aw)
  BY <1>1, <1>3, <1>4, Zenon DEF Holds
<1> QED
  BY <1>5 DEF p, t

\* the packet is acknowledged when no more is left.
LEMMA HoldsAck ==
    ASSUME NEW cur, NEW w, NEW left, NEW number, NEW ck, NEW q,
           NEW rs, NEW d, NEW bt, NEW aw,
           Holds(cur, "queue", w, left, number, ck, q, rs, d, bt, aw), left = <<>>,
           NEW any
    PROVE  Holds(cur, "read", w, <<>>, any, ck, q, rs, d \o Put(number, 4), bt, aw)
<1> DEFINE e == d \o Put(number, 4)
<1>1. PICK f, k, m : /\ Queued(f, k, m, "queue", left, q)
                     /\ Unread(k, m, cur, "queue", w, ck, rs)
                     /\ cur => Due(f, k, m, "queue", number, d, bt, aw)
  BY Zenon DEF Holds
<1>2. Queued(f, k, m, "read", <<>>, q)
  BY <1>1 DEF Queued
<1>3. Unread(k, m, cur, "read", w, ck, rs)
  BY <1>1 DEF Unread
<1>4. ASSUME cur PROVE Due(f, k, m, "read", any, e, bt, aw)
  <2>1. /\ f <= bt /\ aw /\ bt \in DOMAIN Batches /\ k = bt + 1 /\ ~m
        /\ number = Len(Batches[bt]) /\ Down(d, FALSE, bt)
    BY <1>1, <1>4, Zenon DEF Due
  <2>2. e = d \o Ack(bt)
    BY <2>1 DEF Ack
  <2> HIDE DEF e
  <2>3. Down(e, TRUE, bt)
    BY <2>1, <2>2, DownNext
  <2>4. "read" # "queue"
    OBVIOUS
  <2> QED
    BY <2>1, <2>3, <2>4, Zenon DEF Due
<1>5. Holds(cur, "read", w, <<>>, any, ck, q, rs, e, bt, aw)
  BY <1>2, <1>3, <1>4, Zenon DEF Holds
<1> QED
  BY <1>5

\* A command is written.
LEMMA HoldsCommand ==
    ASSUME NEW cur, NEW pl, NEW w, NEW left, NEW number, NEW ck, NEW q,
           NEW rs, NEW d, NEW bt, NEW aw,
           Holds(cur, pl, w, left, number, ck, q, rs, d, bt, aw)
    PROVE  Holds(cur, pl, w, left, number, ck, q, rs, d \o SendCommandToDevice(Command), bt, aw)
<1> DEFINE e == d \o Frame
<1>1. PICK f, k, m : /\ Queued(f, k, m, pl, left, q)
                     /\ Unread(k, m, cur, pl, w, ck, rs)
                     /\ cur => Due(f, k, m, pl, number, d, bt, aw)
  BY Zenon DEF Holds
<1>2. (Down(d, FALSE, bt) => Down(e, FALSE, bt)) /\ (Down(d, TRUE, bt) => Down(e, TRUE, bt))
  BY DownNext
<1> HIDE DEF e
<1>3. ASSUME cur PROVE Due(f, k, m, pl, number, e, bt, aw)
  BY <1>1, <1>2, <1>3, Zenon DEF Due
<1>4. Holds(cur, pl, w, left, number, ck, q, rs, e, bt, aw)
  BY <1>1, <1>3, Zenon DEF Holds
<1> QED
  BY <1>4 DEF e, Frame

-----------------------------------------------------------------------------
(* What the tracker does with it.                                           *)

\* A connection that is not made yet, and one that has just been made.
LEMMA HoldsNew ==
    ASSUME NEW number, NEW ck, NEW bt, NEW aw
    PROVE  /\ Holds(FALSE, "new", <<>>, <<>>, number, ck, <<>>, <<>>, <<>>, bt, aw)
           /\ bt \in 1..Len(Batches) + 1 =>
                Holds(TRUE, "read", <<>>, <<>>, number, ck, <<>>, <<>>, <<>>, bt, FALSE)
<1>1. Len(Batches) \in Nat
  BY BatchesAreCounted
<1>2. ASSUME NEW k \in 1..Len(Batches) + 1, NEW pl, pl # "queue"
      PROVE  Queued(k, k, FALSE, pl, <<>>, <<>>)
  <2>1. k \in Nat /\ k \in k..Len(Batches) + 1
    BY <1>1
  <2>2. Reports(k, k) = <<>>
    BY <2>1, ReportsOfNone
  <2>3. Recorded(Reports(k, k), <<>>, <<>>)
    BY <2>2, RecordedNone
  <2> QED
    BY <1>2, <2>1, <2>3 DEF Queued
<1>3. ASSUME NEW k, NEW cur, NEW pl \in {"new", "read"}
      PROVE  Unread(k, FALSE, cur, pl, <<>>, ck, <<>>)
  <2>1. Up(<<>>, k, FALSE, cur)
    BY UpNone
  <2> QED
    BY <2>1, AllAnswersOfNone DEF Unread
<1>4. Holds(FALSE, "new", <<>>, <<>>, number, ck, <<>>, <<>>, <<>>, bt, aw)
  <2>1. 1 \in 1..Len(Batches) + 1 /\ "new" # "queue" /\ "new" \in {"new", "read"}
    BY <1>1
  <2>2. Queued(1, 1, FALSE, "new", <<>>, <<>>)
    BY <1>2, <2>1
  <2>3. Unread(1, FALSE, FALSE, "new", <<>>, ck, <<>>)
    BY <1>3, <2>1
  <2> QED
    BY <2>2, <2>3, Zenon DEF Holds
<1>5. ASSUME bt \in 1..Len(Batches) + 1
      PROVE  Holds(TRUE, "read", <<>>, <<>>, number, ck, <<>>, <<>>, <<>>, bt, FALSE)
  <2>1. "read" # "queue" /\ "read" \in {"new", "read"} /\ bt <= bt
    BY <1>1, <1>5
  <2>2. Queued(bt, bt, FALSE, "read", <<>>, <<>>)
    BY <1>2, <1>5, <2>1
  <2>3. Unread(bt, FALSE, TRUE, "read", <<>>, ck, <<>>)
    BY <1>3, <2>1
  <2>4. Down(<<>>, FALSE, bt)
    BY ChainOfNone DEF Down
  <2>5. Due(bt, bt, FALSE, "read", number, <<>>, bt, FALSE)
    BY <2>1, <2>4 DEF Due
  <2> QED
    BY <2>2, <2>3, <2>5, Zenon DEF Holds
<1> QED
  BY <1>4, <1>5

\* A connection is lost, with bytes on it, or has been.
LEMMA HoldsGone ==
    ASSUME NEW cur, NEW pl, NEW w \in Seq(Byte), NEW left, NEW number, NEW ck, NEW q,
           NEW rs, NEW d, NEW bt, NEW aw,
           Holds(cur, pl, w, left, number, ck, q, rs, d, bt, aw),
           NEW x \in Seq(Byte), Begins(x, w)
    PROVE  \A e, bu, av : Holds(FALSE, pl, x, left, number, ck, q, rs, e, bu, av)
<1>1. PICK f, k, m : /\ Queued(f, k, m, pl, left, q)
                     /\ Unread(k, m, cur, pl, w, ck, rs)
  BY Zenon DEF Holds
<1>2. ASSUME NEW h \in Seq(Byte), Checks(h, k, m, cur, w, ck, rs)
      PROVE  Checks(h, k, m, FALSE, x, ck, rs)
  <2>1. Up(h \o w, k, m, cur)
    BY <1>2 DEF Checks
  <2>2. h \o w \in Seq(Byte) /\ h \o x \in Seq(Byte) /\ Begins(h \o x, h \o w)
    BY ConcatBeginning
  <2>3. Up(h \o x, k, m, FALSE)
    <3> DEFINE v == h \o w
               y == h \o x
    <3> HIDE DEF v, y
    <3>1. Up(v, k, m, cur) /\ v \in Seq(Byte) /\ y \in Seq(Byte) /\ Begins(y, v)
      BY <2>1, <2>2 DEF v, y
    <3>2. Up(y, k, m, FALSE)
      BY <3>1, UpLost
    <3> QED
      BY <3>2 DEF y
  <2> QED
    BY <1>2, <2>3 DEF Checks
<1>3. ASSUME Up(w, k, m, cur) PROVE Up(x, k, m, FALSE)
  BY <1>3, UpLost
<1>4. Unread(k, m, FALSE, pl, x, ck, rs)
  BY <1>1, <1>2, <1>3, Zenon DEF Unread
<1> QED
  BY <1>1, <1>4, Zenon DEF Holds

\* More is sent.
LEMMA UnreadMore ==
    ASSUME NEW w \in Seq(Byte), NEW y \in Seq(Byte), NEW k, NEW m, NEW pl, NEW ck, NEW rs,
           NEW j, NEW n, Unread(k, m, TRUE, pl, w, ck, rs),
           \A v \in Seq(Byte) : Up(v, k, m, TRUE) => Up(v \o y, j, n, TRUE)
    PROVE  Unread(j, n, TRUE, pl, w \o y, ck, rs)
<1>1. ASSUME NEW h \in Seq(Byte), Checks(h, k, m, TRUE, w, ck, rs)
      PROVE  Checks(h, j, n, TRUE, w \o y, ck, rs)
  <2>1. Up(h \o w, k, m, TRUE)
    BY <1>1 DEF Checks
  <2>2. h \o w \in Seq(Byte) /\ (h \o w) \o y = h \o (w \o y)
    BY ConcatProperties, ConcatAssociative
  <2>3. Up((h \o w) \o y, j, n, TRUE)
    BY <2>1, <2>2
  <2>4. Up(h \o (w \o y), j, n, TRUE)
    BY <2>2, <2>3
  <2> QED
    BY <1>1, <2>4 DEF Checks
<1>2. Up(w, k, m, TRUE) => Up(w \o y, j, n, TRUE)
  OBVIOUS
<1> QED
  BY <1>1, <1>2, Zenon DEF Unread

\* The batch is sent, or a damaged packet.
LEMMA HoldsBatch ==
    ASSUME NEW pl, NEW w \in Seq(Byte), NEW left, NEW number, NEW ck, NEW q,
           NEW rs, NEW d, NEW bt \in DOMAIN Batches,
           Holds(TRUE, pl, w, left, number, ck, q, rs, d, bt, FALSE),
           NEW y \in {EncodeBatch(Batches[bt])} \cup Broken
    PROVE  Holds(TRUE, pl, w \o y, left, number, ck, q, rs, d, bt, TRUE)
<1>1. PICK f, k, m : /\ Queued(f, k, m, pl, left, q)
                     /\ Unread(k, m, TRUE, pl, w, ck, rs)
                     /\ Due(f, k, m, pl, number, d, bt, FALSE)
  BY Zenon DEF Holds
<1>2. /\ f <= bt /\ ~m /\ pl # "queue" /\ k = bt /\ Down(d, FALSE, bt)
  BY <1>1, Zenon DEF Due
<1>3. m = FALSE
  BY <1>1, <1>2 DEF Queued
<1>4. y \in Seq(Byte)
  BY PacketsAreBytes DEF Batch
<1>5. \E n \in BOOLEAN : \A v \in Seq(Byte) : Up(v, k, m, TRUE) => Up(v \o y, bt, n, TRUE)
  <2>1. CASE y \in Broken
    <3>1. \A v \in Seq(Byte) : Up(v, k, FALSE, TRUE) => Up(v \o y, bt, FALSE, TRUE)
      BY <1>2, <2>1, UpNext
    <3> QED
      BY <1>3, <3>1
  <2>2. CASE y = EncodeBatch(Batches[bt])
    <3>1. y = Batch(bt)
      BY <2>2 DEF Batch
    <3>2. \A v \in Seq(Byte) : Up(v, k, FALSE, TRUE) => Up(v \o Batch(bt), bt, TRUE, TRUE)
      BY UpBatch
    <3> QED
      BY <1>3, <3>1, <3>2
  <2> QED
    BY <2>1, <2>2
<1>6. PICK n \in BOOLEAN : \A v \in Seq(Byte) : Up(v, k, m, TRUE) => Up(v \o y, bt, n, TRUE)
  BY <1>5
<1>7. Unread(bt, n, TRUE, pl, w \o y, ck, rs)
  BY <1>1, <1>4, <1>6, UnreadMore
<1>8. Queued(f, bt, n, pl, left, q)
  BY <1>1, <1>2 DEF Queued
<1>9. Due(f, bt, n, pl, number, d, bt, TRUE)
  BY <1>2, Zenon DEF Due
<1> QED
  BY <1>7, <1>8, <1>9, Zenon DEF Holds

\* An answer is sent, or a damaged packet.
LEMMA HoldsAnswer ==
    ASSUME NEW pl, NEW w \in Seq(Byte), NEW left, NEW number, NEW ck, NEW q,
           NEW rs, NEW d, NEW bt, NEW aw,
           Holds(TRUE, pl, w, left, number, ck, q, rs, d, bt, aw),
           NEW y \in {Ans} \cup Broken
    PROVE  Holds(TRUE, pl, w \o y, left, number, ck, q, rs, d, bt, aw)
<1>1. PICK f, k, m : /\ Queued(f, k, m, pl, left, q)
                     /\ Unread(k, m, TRUE, pl, w, ck, rs)
                     /\ Due(f, k, m, pl, number, d, bt, aw)
  BY Zenon DEF Holds
<1>2. y \in Seq(Byte) /\ m \in BOOLEAN
  BY <1>1, PacketsAreBytes DEF Queued
<1>3. \A v \in Seq(Byte) : Up(v, k, m, TRUE) => Up(v \o y, k, m, TRUE)
  BY <1>2, UpNext
<1>4. Unread(k, m, TRUE, pl, w \o y, ck, rs)
  BY <1>1, <1>2, <1>3, UnreadMore
<1> QED
  BY <1>1, <1>4, Zenon DEF Holds

\* The tracker reads a command,
LEMMA HoldsReadCommand ==
    ASSUME NEW pl, NEW w, NEW left, NEW number, NEW ck, NEW q,
           NEW rs, NEW d, NEW bt, NEW aw,
           Holds(TRUE, pl, w, left, number, ck, q, rs, d, bt, aw),
           Len(d) >= 8, Uint32(d, 0) = 0
    PROVE  Holds(TRUE, pl, w, left, number, ck, q, rs,
                 SubSeq(d, 13 + Uint32(d, 4), Len(d)), bt, aw)
<1> DEFINE e == SubSeq(d, 13 + Uint32(d, 4), Len(d))
<1>1. PICK f, k, m : /\ Queued(f, k, m, pl, left, q)
                     /\ Unread(k, m, TRUE, pl, w, ck, rs)
                     /\ Due(f, k, m, pl, number, d, bt, aw)
  BY Zenon DEF Holds
<1>2. Down(d, FALSE, bt) => Down(e, FALSE, bt)
  BY DownCommand
<1>3. bt \in DOMAIN Batches /\ Down(d, TRUE, bt) => Down(e, TRUE, bt)
  BY DownCommand
<1> HIDE DEF e
<1>4. Due(f, k, m, pl, number, e, bt, aw)
  BY <1>1, <1>2, <1>3, Zenon DEF Due
<1>5. Holds(TRUE, pl, w, left, number, ck, q, rs, e, bt, aw)
  BY <1>1, <1>4, Zenon DEF Holds
<1> QED
  BY <1>5 DEF e

\* or the acknowledgement: what it finds true, and goes on with the next batch.
AckRead(pl, w, left, number, ck, q, rs, e, bt, aw, n) ==
    /\ aw = TRUE /\ bt \in DOMAIN Batches /\ n = Len(Batches[bt])
    /\ Range(Reported(Batches[bt])) \subseteq Range(q)
    /\ Holds(TRUE, pl, w, left, number, ck, q, rs, e, bt + 1, FALSE)

\* The acknowledgement of the batch that is sent is read when the store has it.
LEMMA HoldsReadAck ==
    ASSUME NEW pl, NEW w, NEW left, NEW number, NEW ck, NEW q,
           NEW rs, NEW d, NEW bt \in Nat, NEW aw \in BOOLEAN,
           Holds(TRUE, pl, w, left, number, ck, q, rs, d, bt, aw),
           Len(d) >= 4, Uint32(d, 0) # 0
    PROVE  AckRead(pl, w, left, number, ck, q, rs, SubSeq(d, 5, Len(d)), bt, aw, Uint32(d, 0))
<1> DEFINE e == SubSeq(d, 5, Len(d))
<1>1. PICK f, k, m : /\ Queued(f, k, m, pl, left, q)
                     /\ Unread(k, m, TRUE, pl, w, ck, rs)
                     /\ Due(f, k, m, pl, number, d, bt, aw)
  BY Zenon DEF Holds
<1>2. ~Down(d, FALSE, bt)
  <2> SUFFICES ASSUME Down(d, FALSE, bt) PROVE FALSE
    OBVIOUS
  <2>1. FALSE \in BOOLEAN
    OBVIOUS
  <2> QED
    BY <2>1, DownAck
<1>3. /\ f <= bt /\ aw /\ bt \in DOMAIN Batches /\ k = bt + 1 /\ ~m /\ pl # "queue"
      /\ Down(d, TRUE, bt)
  BY <1>1, <1>2, Zenon DEF Due
<1>4. Uint32(d, 0) = Len(Batches[bt]) /\ Down(e, FALSE, bt)
  BY <1>3, DownAck
<1> HIDE DEF e
<1>5. Down(e, FALSE, bt + 1)
  BY <1>4, DownNext
<1>6. f <= bt + 1 /\ f \in Nat \ {0} /\ k \in Nat /\ k <= Len(Batches) + 1 /\ bt < k
  <2>1. f \in 1..Len(Batches) + 1 /\ k \in f..Len(Batches) + 1 /\ Len(Batches) \in Nat
    BY <1>1, BatchesAreCounted DEF Queued
  <2> QED
    BY <1>3, <2>1
<1>7. Due(f, k, m, pl, number, e, bt + 1, FALSE)
  BY <1>3, <1>5, <1>6, Zenon DEF Due
<1>8. Holds(TRUE, pl, w, left, number, ck, q, rs, e, bt + 1, FALSE)
  BY <1>1, <1>7, Zenon DEF Holds
<1>9. q = Reports(f, k)
  BY <1>1, <1>3, RecordedBegins DEF Queued
<1>10. Range(Reported(Batches[bt])) \subseteq Range(q)
  BY <1>3, <1>6, <1>9, ReportsHave
<1> QED
  BY <1>3, <1>4, <1>8, <1>10 DEF e, AckRead

-----------------------------------------------------------------------------
(* The connections together.                                                *)

\* The tracker has one connection, and none has anything on it before it is made.
Tracked ==
    /\ batch \in 1..Len(Batches) + 1 /\ (awaiting => batch <= Len(Batches))
    /\ current = 0 => ~awaiting
    /\ current # 0 => place[current] # "new"
    /\ \A c \in Conns :
         /\ open[c] <=> c = current
         /\ place[c] = "new" =>
              /\ wire[c] = <<>> /\ packet[c] = NoRecords /\ queue[c] = <<>>
              /\ responses[c] = <<>> /\ down[c] = <<>>
    /\ DOMAIN responses = Conns /\ DOMAIN checked = Conns /\ DOMAIN down = Conns

\* The invariant of a connection of the session.
Session(c) ==
    Holds(open[c], place[c], wire[c], packet[c].left, packet[c].number, checked[c],
          queue[c], responses[c], down[c], batch, awaiting)

\* The inductive invariant of the connections that damage is seen on.
SessionInv == IInv /\ Tracked /\ \A c \in Conns : Session(c)

\* It holds initially.
LEMMA InitSession == Init => SessionInv
<1> SUFFICES ASSUME Init PROVE SessionInv
  OBVIOUS
<1>1. IInv
  BY InitInv
<1>2. Tracked
  <2>1. Len(Batches) \in Nat
    BY BatchesAreCounted
  <2>2. 1 \in 1..Len(Batches) + 1 /\ \A c \in Conns : c # 0
    BY <2>1 DEF Conns
  <2> QED
    BY <2>2 DEF Init, Tracked
<1>3. ASSUME NEW c \in Conns PROVE Session(c)
  <2>1. /\ open[c] = FALSE /\ place[c] = "new" /\ wire[c] = <<>> /\ packet[c].left = <<>>
        /\ queue[c] = <<>> /\ responses[c] = <<>> /\ down[c] = <<>>
    BY DEF Init, NoRecords
  <2>2. Holds(FALSE, "new", <<>>, <<>>, packet[c].number, checked[c], <<>>, <<>>, <<>>,
              batch, awaiting)
    BY HoldsNew
  <2> QED
    BY <2>1, <2>2 DEF Session
<1> QED
  BY <1>1, <1>2, <1>3 DEF SessionInv

\* The tracker's side is kept by every step.
LEMMA StepTracked ==
    ASSUME IInv, Tracked, [Next]_vars
    PROVE  Tracked'
<1> USE DEF Tracked, Goes
<1>0. /\ place \in [Conns -> Places] /\ open \in [Conns -> BOOLEAN]
      /\ wire \in [Conns -> Seq(Byte)] /\ DOMAIN packet = Conns /\ DOMAIN queue = Conns
      /\ current \in Conns \cup {0} /\ \A c \in Conns : c # 0
  BY DEF IInv, TypeOK, Conns
<1>1. ASSUME NEW c \in Conns, ConsumeStream(c) PROVE Tracked'
  <2>1. /\ place[c] # "new" /\ UNCHANGED <<open, tracker>>
        /\ \E to \in Places \ {"new"} : place' = [place EXCEPT ![c] = to]
    <3>1. CASE QueueRecord(c)
      <4>1. place[c] = "queue" /\ place' = [place EXCEPT ![c] = "queue"]
        BY <1>0, <3>1 DEF QueueRecord
      <4> QED
        BY <3>1, <4>1 DEF QueueRecord, Places
    <3>2. CASE TakeRecords(c) \/ TakeResponse(c)
      BY <1>0, <3>2 DEF TakeRecords, TakeResponse, Places
    <3>3. CASE CheckResponse(c)
      BY <1>0, <3>3 DEF CheckResponse, Places
    <3>4. CASE WriteAck(c) \/ WriteAckFails(c) \/ StreamEnds(c)
      BY <1>0, <3>4 DEF WriteAck, WriteAckFails, StreamEnds, Places
    <3> QED
      BY <1>1, <3>1, <3>2, <3>3, <3>4 DEF ConsumeStream
  <2>2. /\ \A d \in Conns \ {c} :
             /\ wire'[d] = wire[d] /\ packet'[d] = packet[d] /\ queue'[d] = queue[d]
             /\ responses'[d] = responses[d] /\ down'[d] = down[d]
        /\ DOMAIN responses' = Conns /\ DOMAIN checked' = Conns /\ DOMAIN down' = Conns
    <3>1. CASE QueueRecord(c)
      BY <1>0, <3>1 DEF QueueRecord
    <3>2. CASE TakeRecords(c) \/ TakeResponse(c)
      BY <1>0, <3>2 DEF TakeRecords, TakeResponse, Reads
    <3>3. CASE CheckResponse(c)
      BY <1>0, <3>3 DEF CheckResponse, Reads
    <3>4. CASE WriteAck(c) \/ WriteAckFails(c) \/ StreamEnds(c)
      BY <1>0, <3>4 DEF WriteAck, WriteAckFails, StreamEnds
    <3> QED
      BY <1>1, <3>1, <3>2, <3>3, <3>4 DEF ConsumeStream
  <2>3. \A d \in Conns : place'[d] = "new" => d # c /\ place[d] = "new"
    BY <1>0, <2>1
  <2>4. current' # 0 => place'[current'] # "new"
    BY <1>0, <2>1, <2>3 DEF tracker
  <2> QED
    BY <2>1, <2>2, <2>3, <2>4 DEF tracker
<1>2. ASSUME NEW c \in Conns, SendsCommand(c) PROVE Tracked'
  BY <1>0, <1>2 DEF SendsCommand, streams
<1>3. CASE Connect
  BY <1>0, <1>3 DEF Connect
<1>4. ASSUME NEW bytes, Sends(bytes), current \in Conns
      PROVE  /\ \A d \in Conns \ {current} : wire'[d] = wire[d]
             /\ place[current] # "new"
  BY <1>0, <1>4 DEF Sends
<1>5. CASE SendBatch
  BY <1>0, <1>4, <1>5 DEF SendBatch, streams
<1>6. CASE ReadAck
  <2>1. batch' \in 1..Len(Batches) + 1
    BY <1>6, BatchesAreCounted DEF ReadAck
  <2> QED
    BY <1>0, <1>6, <2>1 DEF ReadAck, streams
<1>7. CASE ReadCommand
  <2>1. \A d \in Conns \ {current} : wire'[d] = wire[d]
    BY <1>0, <1>4, <1>7 DEF ReadCommand
  <2> QED
    BY <1>0, <1>7, <2>1 DEF ReadCommand, streams
<1>8. CASE Disconnect
  BY <1>0, <1>8 DEF Disconnect, streams
<1>9. CASE Rest \/ UNCHANGED vars
  BY <1>9 DEF Rest, vars, streams, tracker
<1> QED
  BY <1>1, <1>2, <1>3, <1>5, <1>6, <1>7, <1>8, <1>9 DEF Next, Tracker

\* It holds of a connection that a step leaves alone,
LEMMA SessionKeeps ==
    ASSUME NEW c \in Conns, Session(c), batch' = batch, awaiting' = awaiting,
           open'[c] = open[c], place'[c] = place[c], wire'[c] = wire[c],
           packet'[c] = packet[c], checked'[c] = checked[c], queue'[c] = queue[c],
           responses'[c] = responses[c], down'[c] = down[c]
    PROVE  Session(c)'
  BY DEF Session

\* whatever else there is of one that the tracker has lost,
LEMMA SessionOfGone ==
    ASSUME NEW c, Session(c), wire[c] \in Seq(Byte), NEW x \in Seq(Byte), Begins(x, wire[c])
    PROVE  \A e, bu, av : Holds(FALSE, place[c], x, packet[c].left, packet[c].number,
                               checked[c], queue[c], responses[c], e, bu, av)
<1>1. Holds(open[c], place[c], wire[c], packet[c].left, packet[c].number, checked[c],
            queue[c], responses[c], down[c], batch, awaiting)
  BY DEF Session
<1> QED
  BY <1>1, HoldsGone, Zenon

\* and of one that it loses in the step, with bytes on it.
LEMMA SessionGone ==
    ASSUME NEW c \in Conns, Session(c), wire \in [Conns -> Seq(Byte)],
           open'[c] = FALSE, place'[c] = place[c],
           wire'[c] \in Seq(Byte), Begins(wire'[c], wire[c]),
           packet'[c] = packet[c], checked'[c] = checked[c], queue'[c] = queue[c],
           responses'[c] = responses[c]
    PROVE  Session(c)'
<1>1. \A x \in Seq(Byte) : Begins(x, wire[c]) =>
        \A e, bu, av : Holds(FALSE, place[c], x, packet[c].left, packet[c].number,
                            checked[c], queue[c], responses[c], e, bu, av)
  BY SessionOfGone
<1>3. \A e, bu, av : Holds(FALSE, place[c], wire'[c], packet[c].left, packet[c].number,
                          checked[c], queue[c], responses[c], e, bu, av)
  BY <1>1
<1>4. Holds(FALSE, place[c], wire'[c], packet[c].left, packet[c].number, checked[c],
            queue[c], responses[c], down'[c], batch', awaiting')
  BY <1>3, Zenon
<1> QED
  BY <1>4 DEF Session

\* A ConsumeStream keeps the invariant of its own connection, step by step.
LEMMA StreamKeeps ==
    ASSUME DamageIsSeen, IInv, Tracked, NEW c \in Conns, Session(c), ConsumeStream(c)
    PROVE  Session(c)'
<1> DEFINE b == wire[c]
           number == packet[c].number
           d == down[c]
<1>0. /\ place \in [Conns -> Places] /\ wire \in [Conns -> Seq(Byte)] /\ b \in Seq(Byte)
      /\ DOMAIN packet = Conns /\ DOMAIN queue = Conns
      /\ DOMAIN responses = Conns /\ DOMAIN checked = Conns /\ DOMAIN down = Conns
      /\ batch \in Nat /\ packet[c] = [left |-> packet[c].left, number |-> packet[c].number]
  BY DEF IInv, TypeOK, Tracked
<1>a. Holds(open[c], place[c], wire[c], packet[c].left, packet[c].number, checked[c],
            queue[c], responses[c], down[c], batch, awaiting)
  BY DEF Session
<1>1. CASE TakeRecords(c)
  <2> DEFINE message == consumeMessage(wire[c])
  <2>1. PICK records \in InTimeOrder(message.records) :
          packet' = [packet EXCEPT ![c] = [left |-> records, number |-> message.number]]
    BY <1>1 DEF TakeRecords
  <2>2. /\ place[c] = "read" /\ place'[c] = "queue" /\ message.kind = "records"
        /\ wire'[c] = SubSeq(wire[c], 12 + message.size + 1, Len(wire[c]))
        /\ packet'[c] = [left |-> records, number |-> message.number]
        /\ UNCHANGED <<open, checked, queue, responses, down, batch, awaiting>>
    BY <1>0, <1>1, <2>1 DEF TakeRecords, Goes, Reads, tracker
  <2>3. packet'[c].left = records /\ packet'[c].number = message.number
    BY <2>2
  <2>4. Holds(open[c], "queue", SubSeq(wire[c], 12 + message.size + 1, Len(wire[c])),
              records, message.number, checked[c], queue[c], responses[c], down[c],
              batch, awaiting)
    BY <1>0, <1>a, <2>2, HoldsRecords
  <2> HIDE DEF message
  <2> QED
    BY <2>2, <2>3, <2>4 DEF Session
<1>2. CASE TakeResponse(c)
  <2> DEFINE message == consumeMessage(wire[c])
  <2>1. /\ place[c] = "read" /\ place'[c] = "check" /\ message.kind = "response"
        /\ wire'[c] = SubSeq(wire[c], 8 + Len(message.of) + 1, Len(wire[c]))
        /\ responses'[c] = Append(responses[c], message.data) /\ checked'[c] = message.of
        /\ UNCHANGED <<open, packet, queue, down, batch, awaiting>>
    BY <1>0, <1>2 DEF TakeResponse, Goes, Reads, tracker
  <2>2. Holds(open[c], "check", SubSeq(wire[c], 8 + Len(message.of) + 1, Len(wire[c])),
              packet[c].left, packet[c].number, message.of, queue[c],
              Append(responses[c], message.data), down[c], batch, awaiting)
    BY <1>0, <1>a, <2>1, HoldsResponse
  <2> HIDE DEF message
  <2> QED
    BY <2>1, <2>2 DEF Session
<1>3. CASE CheckResponse(c)
  <2>1. /\ place[c] = "check" /\ Len(wire[c]) >= 4
        /\ place'[c] = IF ValidateCrc(checked[c], Slice(wire[c], 0, 4)) THEN "read" ELSE "ended"
        /\ wire'[c] = SubSeq(wire[c], 4 + 1, Len(wire[c]))
        /\ UNCHANGED <<open, packet, checked, queue, responses, down, batch, awaiting>>
    BY <1>0, <1>3 DEF CheckResponse, Goes, Reads, tracker
  <2>2. CASE ValidateCrc(checked[c], Slice(wire[c], 0, 4))
    <3>1. Holds(open[c], "read", SubSeq(wire[c], 4 + 1, Len(wire[c])), packet[c].left,
                packet[c].number, checked[c], queue[c], responses[c], down[c], batch, awaiting)
      BY <1>0, <1>a, <2>1, <2>2, HoldsChecked
    <3> QED
      BY <2>1, <2>2, <3>1 DEF Session
  <2>3. CASE ~ValidateCrc(checked[c], Slice(wire[c], 0, 4))
    <3>1. Holds(open[c], "ended", SubSeq(wire[c], 4 + 1, Len(wire[c])), packet[c].left,
                packet[c].number, checked[c], queue[c], responses[c], down[c], batch, awaiting)
      BY <1>a, <2>1, HoldsEnd
    <3> QED
      BY <2>1, <2>3, <3>1 DEF Session
  <2> QED
    BY <2>2, <2>3
<1>4. CASE QueueRecord(c)
  <2>1. /\ place[c] = "queue" /\ packet[c].left # <<>>
        /\ queue'[c] = Append(queue[c], ToProtobufDeviceStatus(Head(packet[c].left)))
        /\ packet'[c] = [packet[c] EXCEPT !.left = Tail(packet[c].left)]
        /\ UNCHANGED <<place, wire, open, checked, responses, down, batch, awaiting>>
    BY <1>0, <1>4 DEF QueueRecord, tracker
  <2>2. packet'[c].left = Tail(packet[c].left) /\ packet'[c].number = packet[c].number
    BY <1>0, <2>1
  <2>3. Holds(open[c], "queue", wire[c], Tail(packet[c].left), packet[c].number, checked[c],
              Append(queue[c], ToProtobufDeviceStatus(Head(packet[c].left))),
              responses[c], down[c], batch, awaiting)
    BY <1>a, <2>1, HoldsQueue
  <2> QED
    BY <2>1, <2>2, <2>3 DEF Session
<1>5. CASE WriteAck(c)
  <2>1. /\ place[c] = "queue" /\ place'[c] = "read" /\ packet[c].left = <<>>
        /\ down'[c] = down[c] \o Put(packet[c].number, 4)
        /\ packet'[c].left = <<>> /\ packet'[c].number = 0
        /\ UNCHANGED <<wire, open, checked, queue, responses, batch, awaiting>>
    BY <1>0, <1>5 DEF WriteAck, Goes, Acknowledgement, NoRecords, tracker
  <2>2. Holds(open[c], "read", wire[c], <<>>, 0, checked[c], queue[c], responses[c],
              down[c] \o Put(packet[c].number, 4), batch, awaiting)
    BY <1>a, <2>1, HoldsAck
  <2> QED
    BY <2>1, <2>2 DEF Session
<1>6. CASE WriteAckFails(c) \/ StreamEnds(c)
  <2>1. /\ place[c] \in {"read", "check", "queue"} /\ place'[c] = "ended"
        /\ place[c] = "queue" => packet[c].left = <<>> /\ ~open[c]
        /\ UNCHANGED <<wire, open, packet, checked, queue, responses, down, batch, awaiting>>
    BY <1>0, <1>6 DEF WriteAckFails, StreamEnds, Goes, tracker
  <2>2. Holds(open[c], "ended", wire[c], packet[c].left, packet[c].number, checked[c],
              queue[c], responses[c], down[c], batch, awaiting)
    BY <1>a, <2>1, HoldsEnd
  <2> QED
    BY <2>1, <2>2 DEF Session
<1> QED
  BY <1>1, <1>2, <1>3, <1>4, <1>5, <1>6 DEF ConsumeStream

\* A command keeps it of its connection,
LEMMA CommandKeeps ==
    ASSUME IInv, Tracked, NEW c \in Conns, Session(c), SendsCommand(c)
    PROVE  Session(c)'
<1>1. /\ down'[c] = down[c] \o SendCommandToDevice(Command)
      /\ UNCHANGED <<streams, wire, open, batch, awaiting>>
  BY DEF SendsCommand, Tracked
<1>2. Holds(open[c], place[c], wire[c], packet[c].left, packet[c].number, checked[c],
            queue[c], responses[c], down[c] \o SendCommandToDevice(Command), batch, awaiting)
  BY HoldsCommand DEF Session
<1> QED
  BY <1>1, <1>2 DEF Session, streams

\* and so does the tracker when it makes the connection.
LEMMA ConnectKeeps ==
    ASSUME IInv, Tracked, NEW c \in Conns, Session(c), Connect, current' = c
    PROVE  Session(c)'
<1>1. /\ place[c] = "new" /\ place'[c] = "read" /\ open'[c] = TRUE
      /\ UNCHANGED <<wire, packet, checked, queue, responses, down, batch, awaiting>>
      /\ current = 0
  BY DEF Connect, Goes, IInv, TypeOK
<1>2. /\ wire[c] = <<>> /\ packet[c].left = <<>> /\ queue[c] = <<>> /\ responses[c] = <<>>
      /\ down[c] = <<>> /\ batch \in 1..Len(Batches) + 1
  BY <1>1 DEF Tracked, NoRecords
<1>3. awaiting = FALSE
  BY <1>1 DEF Tracked, IInv, TypeOK
<1>4. Holds(TRUE, "read", <<>>, <<>>, packet[c].number, checked[c], <<>>, <<>>, <<>>, batch,
            FALSE)
  BY <1>2, HoldsNew
<1> QED
  BY <1>1, <1>2, <1>3, <1>4 DEF Session

\* What is sent is there, or damaged.
LEMMA Sending ==
    ASSUME IInv, current # 0, NEW bytes \in Packets, Sends(bytes)
    PROVE  \E y \in {bytes} \cup Broken : wire' = [wire EXCEPT ![current] = wire[current] \o y]
<1>1. \A y \in Damaged(bytes) : y \in Broken
  BY DEF Broken
<1> QED
  BY <1>1 DEF Sends

\* An acknowledgement of a connection is of the batch that the tracker sends.
LEMMA AckIsRead ==
    ASSUME NEW c, Session(c), open[c] = TRUE, batch \in Nat, awaiting \in BOOLEAN,
           Len(down[c]) >= 4, Uint32(down[c], 0) # 0
    PROVE  /\ awaiting = TRUE /\ batch \in DOMAIN Batches
           /\ Uint32(down[c], 0) = Len(Batches[batch])
           /\ Range(Reported(Batches[batch])) \subseteq Range(queue[c])
           /\ Holds(TRUE, place[c], wire[c], packet[c].left, packet[c].number, checked[c],
                    queue[c], responses[c], SubSeq(down[c], 5, Len(down[c])), batch + 1, FALSE)
<1>1. Holds(TRUE, place[c], wire[c], packet[c].left, packet[c].number, checked[c],
            queue[c], responses[c], down[c], batch, awaiting)
  BY DEF Session
<1> DEFINE pl == place[c]
           w == wire[c]
           left == packet[c].left
           number == packet[c].number
           ck == checked[c]
           q == queue[c]
           rs == responses[c]
           d == down[c]
           bt == batch
           aw == awaiting
<1>2. /\ Holds(TRUE, pl, w, left, number, ck, q, rs, d, bt, aw)
      /\ bt \in Nat /\ aw \in BOOLEAN /\ Len(d) >= 4 /\ Uint32(d, 0) # 0
  BY <1>1
<1> HIDE DEF pl, w, left, number, ck, q, rs, d, bt, aw
<1>3. /\ aw = TRUE /\ bt \in DOMAIN Batches /\ Uint32(d, 0) = Len(Batches[bt])
      /\ Range(Reported(Batches[bt])) \subseteq Range(q)
      /\ Holds(TRUE, pl, w, left, number, ck, q, rs, SubSeq(d, 5, Len(d)), bt + 1, FALSE)
  <2>1. AckRead(pl, w, left, number, ck, q, rs, SubSeq(d, 5, Len(d)), bt, aw, Uint32(d, 0))
    BY <1>2, HoldsReadAck
  <2> QED
    BY <2>1 DEF AckRead
<1> QED
  BY <1>3 DEF pl, w, left, number, ck, q, rs, d, bt, aw

\* Whatever the tracker does keeps it of its connection.
LEMMA TrackerKeeps ==
    ASSUME IInv, Tracked, NEW c \in Conns, Session(c), c = current, SendBatch \/ ReadCommand \/ ReadAck
    PROVE  Session(c)'
<1>0. /\ wire \in [Conns -> Seq(Byte)] /\ wire[c] \in Seq(Byte) /\ DOMAIN down = Conns
      /\ open[c] = TRUE /\ current # 0 /\ batch \in Nat /\ awaiting \in BOOLEAN
  BY DEF IInv, TypeOK, Tracked, Conns
<1>a. Holds(TRUE, place[c], wire[c], packet[c].left, packet[c].number, checked[c],
            queue[c], responses[c], down[c], batch, awaiting)
  BY <1>0 DEF Session
<1>1. CASE SendBatch
  <2>1. /\ awaiting = FALSE /\ awaiting' = TRUE /\ batch \in DOMAIN Batches
        /\ Sends(EncodeBatch(Batches[batch]))
        /\ UNCHANGED <<streams, open, down, batch>>
    BY <1>0, <1>1, BatchesAreCounted DEF SendBatch, Tracked
  <2>2. EncodeBatch(Batches[batch]) \in Packets
    BY <2>1 DEF Packets
  <2>3. PICK y \in {EncodeBatch(Batches[batch])} \cup Broken :
          wire' = [wire EXCEPT ![current] = wire[current] \o y]
    BY <1>0, <2>1, <2>2, Sending
  <2>4. Holds(TRUE, place[c], wire[c] \o y, packet[c].left, packet[c].number, checked[c],
              queue[c], responses[c], down[c], batch, TRUE)
    BY <1>0, <1>a, <2>1, HoldsBatch
  <2>5. wire'[c] = wire[c] \o y
    BY <1>0, <2>3
  <2> QED
    BY <1>0, <2>1, <2>4, <2>5 DEF Session, streams
<1>2. CASE ReadCommand
  <2> DEFINE e == SubSeq(down[c], 13 + Uint32(down[c], 4), Len(down[c]))
  <2>1. /\ Len(down[c]) >= 8 /\ Uint32(down[c], 0) = 0 /\ down'[c] = e
        /\ Sends(EncodeResponse(Answer)) \/ UNCHANGED wire
        /\ UNCHANGED <<streams, open, batch, awaiting>>
    BY <1>0, <1>2 DEF ReadCommand
  <2>2. Holds(TRUE, place[c], wire[c], packet[c].left, packet[c].number, checked[c],
              queue[c], responses[c], e, batch, awaiting)
    BY <1>a, <2>1, HoldsReadCommand
  <2> HIDE DEF e
  <2>3. CASE UNCHANGED wire
    BY <1>0, <2>1, <2>2, <2>3 DEF Session, streams
  <2>4. CASE Sends(EncodeResponse(Answer))
    <3>1. EncodeResponse(Answer) \in Packets
      BY DEF Packets
    <3>2. PICK y \in {EncodeResponse(Answer)} \cup Broken :
            wire' = [wire EXCEPT ![current] = wire[current] \o y]
      BY <1>0, <2>4, <3>1, Sending
    <3>3. y \in {Ans} \cup Broken
      BY DEF Ans
    <3>4. Holds(TRUE, place[c], wire[c] \o y, packet[c].left, packet[c].number, checked[c],
                queue[c], responses[c], e, batch, awaiting)
      BY <1>0, <2>2, <3>3, HoldsAnswer
    <3>5. wire'[c] = wire[c] \o y
      BY <1>0, <3>2
    <3> QED
      BY <1>0, <2>1, <3>4, <3>5 DEF Session, streams
  <2> QED
    BY <2>1, <2>3, <2>4
<1>3. CASE ReadAck
  <2> DEFINE e == SubSeq(down[c], 5, Len(down[c]))
  <2>1. /\ Len(down[c]) >= 4 /\ Uint32(down[c], 0) # 0 /\ down'[c] = e
        /\ batch' = IF awaiting /\ Uint32(down[c], 0) = Len(Batches[batch])
                    THEN batch + 1 ELSE batch
        /\ awaiting' = FALSE /\ UNCHANGED <<streams, wire, open>>
    BY <1>0, <1>3 DEF ReadAck
  <2>2. /\ awaiting = TRUE /\ Uint32(down[c], 0) = Len(Batches[batch])
        /\ Holds(TRUE, place[c], wire[c], packet[c].left, packet[c].number, checked[c],
                 queue[c], responses[c], e, batch + 1, FALSE)
    BY <1>0, <2>1, AckIsRead
  <2> HIDE DEF e
  <2> QED
    BY <1>0, <2>1, <2>2 DEF Session, streams
<1> QED
  BY <1>1, <1>2, <1>3

\* Every step keeps it of all of them.
LEMMA StepSession == DamageIsSeen /\ SessionInv /\ [Next]_vars => SessionInv'
<1> SUFFICES ASSUME DamageIsSeen, SessionInv, [Next]_vars PROVE SessionInv'
  OBVIOUS
<1>0. IInv /\ Tracked /\ IInv' /\ Tracked' /\ \A d \in Conns : Session(d)
  BY StepInv, StepTracked DEF SessionInv
<1>a. /\ place \in [Conns -> Places] /\ open \in [Conns -> BOOLEAN]
      /\ wire \in [Conns -> Seq(Byte)] /\ wire' \in [Conns -> Seq(Byte)]
      /\ DOMAIN packet = Conns /\ DOMAIN queue = Conns
      /\ DOMAIN responses = Conns /\ DOMAIN checked = Conns /\ DOMAIN down = Conns
      /\ current \in Conns \cup {0} /\ \A c \in Conns : c # 0
  BY <1>0 DEF IInv, TypeOK, Tracked, Conns
<1>1. ASSUME NEW c \in Conns, ConsumeStream(c), NEW d \in Conns PROVE Session(d)'
  <2>1. CASE d = c
    BY <1>0, <1>1, <2>1, StreamKeeps
  <2>2. CASE d # c
    <3>1. /\ batch' = batch /\ awaiting' = awaiting /\ open' = open /\ place'[d] = place[d]
          /\ wire'[d] = wire[d] /\ packet'[d] = packet[d] /\ checked'[d] = checked[d]
          /\ queue'[d] = queue[d] /\ responses'[d] = responses[d] /\ down'[d] = down[d]
      <4>1. CASE QueueRecord(c)
        BY <1>a, <2>2, <4>1 DEF QueueRecord, tracker
      <4>2. CASE TakeRecords(c) \/ TakeResponse(c)
        BY <1>a, <2>2, <4>2, ZenonT(90) DEF TakeRecords, TakeResponse, Goes, Reads, tracker
      <4>3. CASE CheckResponse(c)
        BY <1>a, <2>2, <4>3 DEF CheckResponse, Goes, Reads, tracker
      <4>4. CASE WriteAck(c) \/ WriteAckFails(c) \/ StreamEnds(c)
        BY <1>a, <2>2, <4>4 DEF WriteAck, WriteAckFails, StreamEnds, Goes, tracker
      <4> QED
        BY <1>1, <4>1, <4>2, <4>3, <4>4 DEF ConsumeStream
    <3> QED
      BY <1>0, <3>1, SessionKeeps
  <2> QED
    BY <2>1, <2>2
<1>2. ASSUME NEW c \in Conns, SendsCommand(c), NEW d \in Conns PROVE Session(d)'
  <2>1. CASE d = c
    BY <1>0, <1>2, <2>1, CommandKeeps
  <2>2. CASE d # c
    <3>1. /\ UNCHANGED <<streams, wire, open, batch, awaiting>> /\ down'[d] = down[d]
      BY <1>a, <1>2, <2>2 DEF SendsCommand
    <3> QED
      BY <1>0, <3>1, SessionKeeps DEF streams
  <2> QED
    BY <2>1, <2>2
<1>3. ASSUME Connect, NEW d \in Conns PROVE Session(d)'
  <2>1. CASE current' = d
    BY <1>0, <1>3, <2>1, ConnectKeeps
  <2>2. CASE current' # d
    <3>1. /\ UNCHANGED <<wire, packet, checked, queue, responses, down, batch, awaiting>>
          /\ open'[d] = open[d] /\ place'[d] = place[d]
      BY <1>a, <1>3, <2>2 DEF Connect, Goes
    <3> QED
      BY <1>0, <3>1, SessionKeeps
  <2> QED
    BY <2>1, <2>2
<1>4. ASSUME NEW d \in Conns, d # current, open' = open, UNCHANGED streams, wire'[d] = wire[d]
      PROVE  Session(d)'
  <2>1. open'[d] = FALSE /\ wire[d] \in Seq(Byte)
    BY <1>0, <1>a, <1>4 DEF Tracked
  <2>2. Begins(wire[d], wire[d])
    BY <2>1, LenProperties DEF Begins
  <2> QED
    BY <1>0, <1>a, <1>4, <2>1, <2>2, SessionGone DEF streams
<1>5. ASSUME SendBatch \/ ReadAck \/ ReadCommand, NEW d \in Conns PROVE Session(d)'
  <2>1. CASE d = current
    BY <1>0, <1>5, <2>1, TrackerKeeps
  <2>2. CASE d # current
    <3>1. open' = open /\ UNCHANGED streams
      BY <1>5 DEF SendBatch, ReadAck, ReadCommand
    <3>2. \A bytes : Sends(bytes) => wire'[d] = wire[d]
      BY <1>a, <2>2 DEF Sends
    <3>3. wire'[d] = wire[d]
      BY <1>5, <3>2 DEF SendBatch, ReadAck, ReadCommand
    <3> QED
      BY <1>4, <2>2, <3>1, <3>3
  <2> QED
    BY <2>1, <2>2
<1>6. ASSUME Disconnect, NEW d \in Conns PROVE Session(d)'
  <2>1. UNCHANGED streams /\ current \in Conns
    BY <1>a, <1>6 DEF Disconnect
  <2>2. PICK n \in Lost : wire' = [wire EXCEPT ![current] = SubSeq(@, 1, Len(@) - n)]
    BY <1>6 DEF Disconnect
  <2>3. open'[d] = FALSE
    BY <1>0, <1>a, <1>6 DEF Disconnect, Tracked
  <2>4. wire'[d] \in Seq(Byte) /\ Begins(wire'[d], wire[d])
    <3>1. CASE d = current
      <4>1. wire'[d] = SubSeq(wire[d], 1, Len(wire[d]) - n) /\ n \in Nat /\ wire[d] \in Seq(Byte)
        BY <1>a, <2>2, <3>1, Fm1200Assumption
      <4> QED
        BY <4>1, FrontBytes
    <3>2. CASE d # current
      <4>1. wire'[d] = wire[d] /\ wire[d] \in Seq(Byte)
        BY <1>a, <2>2, <3>2
      <4> QED
        BY <4>1, LenProperties DEF Begins
    <3> QED
      BY <3>1, <3>2
  <2> QED
    BY <1>0, <1>a, <2>1, <2>3, <2>4, SessionGone DEF streams
<1>7. ASSUME Rest \/ UNCHANGED vars, NEW d \in Conns PROVE Session(d)'
  <2>1. UNCHANGED vars
    BY <1>7 DEF Rest
  <2> QED
    BY <1>0, <2>1, SessionKeeps DEF vars, streams, tracker
<1>8. \A d \in Conns : Session(d)'
  BY <1>1, <1>2, <1>3, <1>5, <1>6, <1>7 DEF Next, Tracker
<1> QED
  BY <1>0, <1>8 DEF SessionInv

\* The invariant holds of every behaviour in which damage is seen.
THEOREM SessionInvariance == Spec => [](DamageIsSeen => SessionInv)
<1>1. Init => (DamageIsSeen => SessionInv)
  BY InitSession
<1>2. (DamageIsSeen => SessionInv) /\ [Next]_vars => (DamageIsSeen => SessionInv)'
  BY StepSession
<1> QED
  BY <1>1, <1>2, PTL DEF Spec

\* The store reads what the tracker measured (StoredAsReported): whatever is sent
\* again, lost with a connection or damaged, if damage is seen (consumeMessage and
\* all it calls).
THEOREM ReadAsReported == Spec => [](DamageIsSeen => StoredAsReported)
<1>1. SessionInv => StoredAsReported
  <2> SUFFICES ASSUME SessionInv, NEW c \in Conns
               PROVE  \E first \in 1..Len(Batches) + 1 :
                        IsPrefix(queue[c], Reports(first, Len(Batches) + 1))
    <3>1. \A first \in 1..Len(Batches) + 1 :
            FlattenSeq([i \in 1..Len(Batches) + 1 - first |-> Reported(Batches[first + i - 1])])
              = Reports(first, Len(Batches) + 1)
      <4> TAKE first \in 1..Len(Batches) + 1
      <4>1. Reports(first, Len(Batches) + 1) = FlattenSeq(EachReported(first, Len(Batches) + 1))
        BY DEF Reports
      <4>2. EachReported(first, Len(Batches) + 1)
              = [i \in 1..(Len(Batches) + 1) - first |-> Reported(Batches[first + i - 1])]
        BY DEF EachReported
      <4>3. (Len(Batches) + 1) - first = Len(Batches) + 1 - first
        BY BatchesAreCounted
      <4> QED
        BY <4>1, <4>2, <4>3, Zenon
    <3> QED
      BY <3>1, Zenon DEF StoredAsReported
  <2>1. Session(c) /\ Len(Batches) \in Nat
    BY BatchesAreCounted DEF SessionInv
  <2>2. PICK f, k, m : Queued(f, k, m, place[c], packet[c].left, queue[c])
    BY <2>1, Zenon DEF Session, Holds
  <2> DEFINE last == Len(Batches) + 1
  <2>3. /\ f \in 1..last /\ f \in Nat \ {0} /\ k \in Nat /\ f <= k /\ k <= last
        /\ last \in Nat /\ f <= last /\ last <= Len(Batches) + 1
        /\ Recorded(Reports(f, k), queue[c], packet[c].left)
    BY <2>1, <2>2 DEF Queued
  <2> HIDE DEF last
  <2>4. /\ queue[c] \in Seq(Statuses) /\ Begins(queue[c], Reports(f, k))
        /\ Reports(f, k) \in Seq(Statuses) /\ Reports(f, last) \in Seq(Statuses)
        /\ Begins(Reports(f, k), Reports(f, last))
    BY <2>3, RecordedBegins, ReportsType, ReportsBegin DEF last
  <2>5. Begins(queue[c], Reports(f, last))
    BY <2>4, BeginsAgain
  <2>6. IsPrefix(queue[c], Reports(f, last))
    BY <2>4, <2>5, BeginningIsPrefix
  <2> QED
    BY <2>3, <2>6 DEF last
<1> QED
  BY <1>1, SessionInvariance, PTL

\* A response whose checksum is wrong is the last thing its connection yields
\* (WrongResponseIsLast), although it is queued before that is read
\* (fm1200.go:219).
THEOREM WrongResponseEndsIt == Spec => [](DamageIsSeen => WrongResponseIsLast)
<1>1. SessionInv => WrongResponseIsLast
  <2> SUFFICES ASSUME SessionInv, NEW c \in Conns, NEW i \in DOMAIN responses[c],
                      responses[c][i] # Answer
               PROVE  i = Len(responses[c]) /\ place[c] \in {"check", "ended"}
    BY DEF WrongResponseIsLast
  <2>1. PICK f, k, m : Unread(k, m, open[c], place[c], wire[c], checked[c], responses[c])
    BY Zenon DEF SessionInv, Session, Holds
  <2>2. /\ LastMayDiffer(responses[c])
        /\ AllAnswers(responses[c]) \/ place[c] \in {"check", "ended"}
    BY <2>1, AnswersLast DEF Unread
  <2>3. IsSequence(responses[c]) /\ Len(responses[c]) \in Nat /\ i \in 1..Len(responses[c])
    BY <2>2, Positions DEF LastMayDiffer
  <2>4. ~AllAnswers(responses[c])
    BY <2>3 DEF AllAnswers
  <2>5. ~(i \in 1..Len(responses[c]) - 1)
    BY <2>2 DEF LastMayDiffer
  <2>6. i = Len(responses[c])
    BY <2>3, <2>5
  <2> QED
    BY <2>2, <2>4, <2>6
<1> QED
  BY <1>1, SessionInvariance, PTL

\* A queue never loses what has been put into it.
LEMMA QueuesGrow ==
    ASSUME IInv, [Next]_vars
    PROVE  Stored \subseteq Stored'
<1>1. ASSUME NEW c \in Conns PROVE Range(queue[c]) \subseteq Range(queue'[c])
  <2>0. DOMAIN queue = Conns /\ IsSequence(queue[c])
    BY DEF IInv, TypeOK
  <2>1. CASE QueueRecord(c)
    <3> DEFINE x == ToProtobufDeviceStatus(Head(packet[c].left))
               q == queue[c]
    <3>1. queue'[c] = Append(q, x)
      BY <2>0, <2>1 DEF QueueRecord
    <3>2. IsSequence(q)
      BY <2>0
    <3> HIDE DEF x, q
    <3>3. /\ IsSequence(Append(q, x)) /\ Len(Append(q, x)) = Len(q) + 1 /\ Len(q) \in Nat
          /\ \A i \in 1..Len(q) : Append(q, x)[i] = q[i]
      BY <3>2, AppendToSequence, LengthType
    <3>4. DOMAIN q = 1..Len(q) /\ DOMAIN Append(q, x) = 1..Len(q) + 1
      BY <3>2, <3>3, Positions
    <3>5. Range(q) \subseteq Range(Append(q, x))
      <4> SUFFICES ASSUME NEW i \in 1..Len(q) PROVE q[i] \in Range(Append(q, x))
        BY <3>4 DEF Range
      <4>1. i \in 1..Len(q) + 1
        BY <3>3
      <4> QED
        BY <3>3, <3>4, <4>1 DEF Range
    <3> QED
      BY <3>1, <3>5 DEF q
  <2>2. ASSUME NEW d \in Conns, d # c, QueueRecord(d) PROVE queue'[c] = queue[c]
    BY <2>0, <2>2 DEF QueueRecord
  <2>3. ASSUME NEW d \in Conns, ConsumeStream(d), ~QueueRecord(d) PROVE queue' = queue
    BY <2>3 DEF ConsumeStream, TakeRecords, TakeResponse, CheckResponse, WriteAck,
       WriteAckFails, StreamEnds
  <2>4. CASE (\E d \in Conns : SendsCommand(d)) \/ Connect \/ SendBatch \/ ReadAck \/ ReadCommand
              \/ Disconnect \/ Rest \/ UNCHANGED vars
    BY <2>4 DEF SendsCommand, Connect, SendBatch, ReadAck, ReadCommand, Disconnect, Rest,
       vars, streams
  <2> QED
    BY <2>1, <2>2, <2>3, <2>4 DEF Next, Tracker
<1> DEFINE all == UNION {Range(queue[c]) : c \in Conns}
<1>2. all \subseteq all'
  BY <1>1
<1> HIDE DEF all
<1>3. Stored = {b \in DOMAIN Batches : Range(Reported(Batches[b])) \subseteq all}
  BY DEF Stored, all
<1>4. Stored' = {b \in DOMAIN Batches : Range(Reported(Batches[b])) \subseteq all'}
  BY DEF Stored, all
<1> QED
  BY <1>2, <1>3, <1>4

\* The tracker gives a batch up only when the store has it (Delivered): a step of
\* the session is one of Delivery or none of it (fm1200.go:253-270).
THEOREM BatchesAreDelivered == ASSUME DamageIsSeen PROVE Spec => Delivered
<1>1. Init => AtLeastOnce!Init
  <2> SUFFICES ASSUME Init PROVE Stored = {} /\ batch - 1 = 0
    BY DEF AtLeastOnce!Init
  <2>1. ASSUME NEW b \in DOMAIN Batches PROVE b \notin Stored
    <3> DEFINE s == Reported(Batches[b])
    <3>1. s \in Seq(Statuses) /\ s # <<>>
      BY ReportedType
    <3>2. \A c \in Conns : Range(queue[c]) = {}
      BY DEF Init, Range
    <3> HIDE DEF s
    <3>3. Len(s) \in Nat /\ Len(s) # 0 /\ DOMAIN s = 1..Len(s)
      BY <3>1, EmptySeq, LenProperties
    <3>4. s[1] \in Range(s)
      BY <3>3 DEF Range
    <3> QED
      BY <3>2, <3>4 DEF Stored, s
  <2> QED
    BY <2>1 DEF Stored, Init
<1>2. IInv /\ (DamageIsSeen => SessionInv) /\ [Next]_vars => [AtLeastOnce!Next]_<<Stored, batch - 1>>
  <2> SUFFICES ASSUME IInv, SessionInv, [Next]_vars
               PROVE  AtLeastOnce!Next \/ UNCHANGED <<Stored, batch - 1>>
    OBVIOUS
  <2>1. Stored \subseteq Stored'
    BY QueuesGrow
  <2>2. CASE batch' = batch
    BY <2>1, <2>2 DEF AtLeastOnce!Next, AtLeastOnce!Store
  <2>3. CASE batch' # batch
    <3>1. ReadAck
      BY <2>3 DEF Next, ConsumeStream, TakeRecords, TakeResponse, CheckResponse, QueueRecord,
         WriteAck, WriteAckFails, StreamEnds, SendsCommand, Tracker, Connect, SendBatch,
         ReadCommand, Disconnect, Rest, vars, tracker
    <3>2. /\ current \in Conns /\ batch \in Nat /\ awaiting \in BOOLEAN
      BY <3>1 DEF ReadAck, IInv, TypeOK
    <3>3. /\ Session(current) /\ open[current] = TRUE
      BY <3>2 DEF SessionInv, Tracked, IInv, TypeOK
    <3>4. /\ Len(down[current]) >= 4 /\ Uint32(down[current], 0) # 0 /\ queue' = queue
          /\ batch' \in {batch, batch + 1}
      BY <3>1 DEF ReadAck, streams
    <3>5. /\ batch \in DOMAIN Batches
          /\ Range(Reported(Batches[batch])) \subseteq Range(queue[current])
      BY <3>2, <3>3, <3>4, AckIsRead
    <3>6. batch \in Stored
      BY <3>2, <3>5 DEF Stored
    <3>7. Stored' = Stored
      BY <3>4 DEF Stored
    <3>8. (batch - 1) + 1 = batch /\ batch' - 1 = (batch - 1) + 1
      <4>1. batch' = batch + 1
        BY <2>3, <3>4
      <4>2. \A n \in Nat : (n - 1) + 1 = n /\ (n + 1) - 1 = (n - 1) + 1
        OBVIOUS
      <4> QED
        BY <3>2, <4>1, <4>2, Zenon
    <3> QED
      BY <3>6, <3>7, <3>8 DEF AtLeastOnce!Next, AtLeastOnce!Acknowledge
  <2> QED
    BY <2>2, <2>3
<1> QED
  BY <1>1, <1>2, Invariance, SessionInvariance, PTL DEF Spec, Delivered, AtLeastOnce!Spec

==============================================================================
