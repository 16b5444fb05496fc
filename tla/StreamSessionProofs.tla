-------------------------- MODULE StreamSessionProofs --------------------------
(***************************************************************************)
(* What an IntelliTrac or OBDII2G stream puts into the queues and on the     *)
(* connection.  A turn of ConsumeStream that reads a message of the bytes    *)
(* that have arrived reads the same message of all that arrives, so the      *)
(* handler reads what the device sent wherever the bytes are cut; turns end  *)
(* where messages, in ASCII also lines, end, until it has read past the      *)
(* first damaged message, and by then all that is due before is in the       *)
(* queues and acknowledged.                                                  *)
(***************************************************************************)
EXTENDS StreamSession, SequenceFacts

\* The parts of a message.
LEMMA MessageParts ==
    ASSUME NEW size, NEW status, NEW response, NEW ack
    PROVE  LET m == Message(size, status, response, ack)
           IN  /\ m.kind = "message" /\ m.size = size /\ m.status = status
               /\ m.response = response /\ m.ack = ack
  BY DEF Message

\* No message is one of the other outcomes.
LEMMA OtherKinds == Waits.kind # "message" /\ Ends.kind # "message"
  BY DEF Waits, Ends

\* A number of two bytes is the same, whatever follows.
LEMMA Uint16OfBeginning ==
    ASSUME NEW p \in Seq(Byte), NEW b \in Seq(Byte), Begins(p, b), NEW at \in Nat,
           at + 2 <= Len(p)
    PROVE  Uint16(p, at) \in Nat /\ Uint16(b, at) = Uint16(p, at)
<1>1. at + 1 \in 1..Len(p) /\ at + 2 \in 1..Len(p) /\ Len(p) \in Nat
  BY LenProperties
<1>2. b[at + 1] = p[at + 1] /\ b[at + 2] = p[at + 2]
  BY <1>1 DEF Begins
<1>3. Uint16(p, at) \in Nat
  BY UintTypes
<1> QED
  BY <1>2, <1>3 DEF Uint16

\* What is read of the first bytes of a stream, other than that more are
\* needed, is read of the stream, whatever follows: a position,
LEMMA PositionOfBeginning ==
    ASSUME NEW p \in Seq(Byte), NEW b \in Seq(Byte), Begins(p, b), NEW transaction,
           handleBinaryPosition(p, transaction) # Waits
    PROVE  handleBinaryPosition(b, transaction) = handleBinaryPosition(p, transaction)
<1> DEFINE n == Uint16(p, 14)
<1>1. Len(p) \in Nat /\ Len(b) \in Nat /\ Len(p) <= Len(b)
  BY LenProperties DEF Begins
<1>2. ~(Len(p) < 16) /\ ~(Len(p) < 16 + n)
  BY Zenon DEF handleBinaryPosition
<1>3. n \in Nat /\ Uint16(b, 14) = n /\ Uint16(b, 12) = Uint16(p, 12)
  <2>1. 14 + 2 <= Len(p) /\ 12 + 2 <= Len(p)
    BY <1>1, <1>2
  <2> QED
    BY <2>1, Uint16OfBeginning
<1> HIDE DEF n
<1>4. ~(Len(b) < 16) /\ ~(Len(b) < 16 + n)
  BY <1>1, <1>2, <1>3
<1>5. Slice(b, 16, n) = Slice(p, 16, n)
  <2>1. 16 + n <= Len(p) /\ 16 \in Nat
    BY <1>1, <1>2, <1>3
  <2> QED
    BY <1>3, <2>1, SliceOfBeginning
<1> QED
  BY <1>2, <1>3, <1>4, <1>5, Zenon DEF handleBinaryPosition, n

\* a text,
LEMMA TextOfBeginning ==
    ASSUME NEW p \in Seq(Byte), NEW b \in Seq(Byte), Begins(p, b), NEW transaction,
           handleTextMessage(p, transaction) # Waits
    PROVE  handleTextMessage(b, transaction) = handleTextMessage(p, transaction)
<1> DEFINE n == Uint16(p, 4)
<1>1. Len(p) \in Nat /\ Len(b) \in Nat /\ Len(p) <= Len(b)
  BY LenProperties DEF Begins
<1>2. ~(Len(p) < 6) /\ ~(Len(p) < 26 + n)
  BY Zenon DEF handleTextMessage
<1>3. n \in Nat /\ Uint16(b, 4) = n
  <2>1. 4 + 2 <= Len(p)
    BY <1>1, <1>2
  <2> QED
    BY <2>1, Uint16OfBeginning
<1> HIDE DEF n
<1>4. ~(Len(b) < 6) /\ ~(Len(b) < 26 + n)
  BY <1>1, <1>2, <1>3
<1> QED
  BY <1>2, <1>3, <1>4, Zenon DEF handleTextMessage, n

\* a response,
LEMMA ResponseOfBeginning ==
    ASSUME NEW p \in Seq(Byte), NEW b \in Seq(Byte), Begins(p, b),
           handleATResponse(p) # Waits
    PROVE  handleATResponse(b) = handleATResponse(p)
<1> DEFINE n == Uint16(p, 4)
<1>1. Len(p) \in Nat /\ Len(b) \in Nat /\ Len(p) <= Len(b)
  BY LenProperties DEF Begins
<1>2. ~(Len(p) < 6) /\ ~(Len(p) < 6 + n)
  BY Zenon DEF handleATResponse
<1>3. n \in Nat /\ Uint16(b, 4) = n
  <2>1. 4 + 2 <= Len(p)
    BY <1>1, <1>2
  <2> QED
    BY <2>1, Uint16OfBeginning
<1> HIDE DEF n
<1>4. ~(Len(b) < 6) /\ ~(Len(b) < 6 + n)
  BY <1>1, <1>2, <1>3
<1>5. Slice(b, 6, n) = Slice(p, 6, n)
  <2>1. 6 + n <= Len(p) /\ 6 \in Nat
    BY <1>1, <1>2, <1>3
  <2> QED
    BY <1>3, <2>1, SliceOfBeginning
<1> QED
  BY <1>2, <1>3, <1>4, <1>5, Zenon DEF handleATResponse, n

\* any binary message,
LEMMA BinaryOfBeginning ==
    ASSUME NEW p \in Seq(Byte), NEW b \in Seq(Byte), Begins(p, b),
           consumeBinaryStream(p) # Waits
    PROVE  consumeBinaryStream(b) = consumeBinaryStream(p)
<1> DEFINE kind == Slice(p, 2, 2)
           transaction == Slice(p, 0, 2)
<1>1. Len(p) \in Nat /\ Len(b) \in Nat /\ Len(p) <= Len(b)
  BY LenProperties DEF Begins
<1>2. ~(Len(p) < 4)
  BY Zenon DEF consumeBinaryStream
<1>3. ~(Len(b) < 4) /\ 2 + 2 <= Len(p) /\ 0 + 2 <= Len(p) /\ 0 \in Nat /\ 2 \in Nat
  BY <1>1, <1>2
<1>4. Slice(b, 2, 2) = kind /\ Slice(b, 0, 2) = transaction
  BY <1>3, SliceOfBeginning
<1> HIDE DEF kind, transaction
<1> DEFINE outcome(s) ==
      CASE kind = <<MsgEncodingBinaryPos, MsgTypeAsync>> -> handleBinaryPosition(s, transaction)
        [] kind = <<MsgEncodingText, MsgTypeAsync>> -> handleTextMessage(s, transaction)
        [] kind = <<MsgEncodingATCommand, MsgTypeResponse>> -> handleATResponse(s)
        [] OTHER -> Ends
<1>5. consumeBinaryStream(p) = outcome(p)
  BY <1>2 DEF consumeBinaryStream, kind, transaction
<1>6. consumeBinaryStream(b) = outcome(b)
  BY <1>3, <1>4 DEF consumeBinaryStream
<1>7. outcome(p) # Waits
  BY <1>5
<1>8. /\ kind = <<MsgEncodingBinaryPos, MsgTypeAsync>> => outcome(b) = outcome(p)
      /\ kind = <<MsgEncodingText, MsgTypeAsync>> => outcome(b) = outcome(p)
      /\ kind = <<MsgEncodingATCommand, MsgTypeResponse>> => outcome(b) = outcome(p)
  <2>0. /\ <<MsgEncodingBinaryPos, MsgTypeAsync>> # <<MsgEncodingText, MsgTypeAsync>>
        /\ <<MsgEncodingBinaryPos, MsgTypeAsync>> # <<MsgEncodingATCommand, MsgTypeResponse>>
        /\ <<MsgEncodingText, MsgTypeAsync>> # <<MsgEncodingATCommand, MsgTypeResponse>>
    BY DEF MsgEncodingBinaryPos, MsgEncodingText, MsgEncodingATCommand, MsgTypeAsync,
           MsgTypeResponse
  <2>1. CASE kind = <<MsgEncodingBinaryPos, MsgTypeAsync>>
    BY <1>7, <2>0, <2>1, PositionOfBeginning
  <2>2. CASE kind = <<MsgEncodingText, MsgTypeAsync>>
    BY <1>7, <2>0, <2>2, TextOfBeginning
  <2>3. CASE kind = <<MsgEncodingATCommand, MsgTypeResponse>>
    BY <1>7, <2>0, <2>3, ResponseOfBeginning
  <2> QED
    BY <2>1, <2>2, <2>3, Zenon
<1>9. \/ kind = <<MsgEncodingBinaryPos, MsgTypeAsync>>
      \/ kind = <<MsgEncodingText, MsgTypeAsync>>
      \/ kind = <<MsgEncodingATCommand, MsgTypeResponse>>
      \/ outcome(b) = outcome(p)
  OBVIOUS
<1> QED
  BY <1>5, <1>6, <1>8, <1>9, Zenon

\* The first number of a set is the first of a larger one that has nothing
\* before it.
LEMMA FirstOfBeginning ==
    ASSUME NEW P, P \subseteq Nat, P # {}, NEW B, B \subseteq Nat, P \subseteq B,
           NEW n \in Nat, \A x \in P : x <= n, \A x \in B : x <= n => x \in P
    PROVE  /\ (CHOOSE i \in P : \A j \in P : i <= j) \in P
           /\ (CHOOSE i \in B : \A j \in B : i <= j) = (CHOOSE i \in P : \A j \in P : i <= j)
<1> DEFINE p == CHOOSE i \in P : \A j \in P : i <= j
           b == CHOOSE i \in B : \A j \in B : i <= j
<1>1. \E i \in P : \A j \in P : i <= j
  BY LeastNumber
<1>2. p \in P /\ \A j \in P : p <= j
  BY <1>1
<1> HIDE DEF p
<1>3. p \in B /\ \A j \in B : p <= j
  <2>1. ASSUME NEW j \in B, ~(j \in P) PROVE p <= j
    <3>1. p <= n /\ ~(j <= n) /\ p \in Nat /\ j \in Nat
      BY <1>2, <2>1
    <3> QED
      BY <3>1
  <2> QED
    BY <1>2, <2>1
<1>4. b \in B /\ \A j \in B : b <= j
  BY <1>3
<1> HIDE DEF b
<1>5. b = p
  <2>1. b \in Nat /\ p \in Nat /\ b <= p /\ p <= b
    BY <1>2, <1>3, <1>4
  <2> QED
    BY <2>1
<1> QED
  BY <1>2, <1>5 DEF p, b

\* a line of text,
LEMMA TextLineOfBeginning ==
    ASSUME NEW p \in Seq(Byte), NEW b \in Seq(Byte), Begins(p, b),
           consumeASCIIStream(p) # Waits
    PROVE  consumeASCIIStream(b) = consumeASCIIStream(p)
<1> DEFINE P == {i \in DOMAIN p : p[i] = NewLine}
           B == {i \in DOMAIN b : b[i] = NewLine}
           e == CHOOSE i \in P : \A j \in P : i <= j
<1>1. /\ Len(p) \in Nat /\ Len(b) \in Nat /\ Len(p) <= Len(b)
      /\ DOMAIN p = 1..Len(p) /\ DOMAIN b = 1..Len(b)
  BY LenProperties DEF Begins
<1>2. P # {}
  BY Zenon DEF consumeASCIIStream
<1>3. /\ P \subseteq Nat /\ B \subseteq Nat /\ P \subseteq B /\ \A x \in P : x <= Len(p)
      /\ \A x \in B : x <= Len(p) => x \in P
  BY <1>1 DEF Begins
<1>4. P \subseteq 1..Len(p)
  BY <1>1
<1>5. consumeASCIIStream(p) =
        IF IsPosition(Commas(Slice(p, 0, e)))
        THEN Message(e, <<[position |-> "unread"]>>, <<>>, Ack(<<0, 0>>, MsgEncodingBinaryPos))
        ELSE Message(e, <<>>, <<>>, <<>>)
  BY <1>2, Zenon DEF consumeASCIIStream
<1>6. B # {} =>
        LET end == CHOOSE i \in B : \A j \in B : i <= j
        IN  consumeASCIIStream(b) =
              IF IsPosition(Commas(Slice(b, 0, end)))
              THEN Message(end, <<[position |-> "unread"]>>, <<>>, Ack(<<0, 0>>, MsgEncodingBinaryPos))
              ELSE Message(end, <<>>, <<>>, <<>>)
  BY Zenon DEF consumeASCIIStream
<1> HIDE DEF P, B
<1>7. e \in P /\ (CHOOSE i \in B : \A j \in B : i <= j) = e /\ B # {}
  BY <1>1, <1>2, <1>3, FirstOfBeginning
<1> HIDE DEF e
<1>8. e \in Nat /\ 0 + e <= Len(p) /\ 0 \in Nat
  BY <1>1, <1>4, <1>7
<1>9. Slice(b, 0, e) = Slice(p, 0, e)
  BY <1>8, SliceOfBeginning
<1> QED
  BY <1>5, <1>6, <1>7, <1>9, Zenon

\* and a line of fields.
LEMMA LineOfBeginning ==
    ASSUME NEW S, NEW p \in Seq(S), NEW b \in Seq(S), Begins(p, b),
           Obdii2g!consumeLine(p) # Waits
    PROVE  Obdii2g!consumeLine(b) = Obdii2g!consumeLine(p)
<1> DEFINE P == {i \in DOMAIN p : p[i].last}
           B == {i \in DOMAIN b : b[i].last}
           e == CHOOSE i \in P : \A j \in P : i <= j
<1>0. Obdii2g!Waits = Waits
  BY DEF Waits, Obdii2g!Waits
<1>1. /\ Len(p) \in Nat /\ Len(b) \in Nat /\ Len(p) <= Len(b)
      /\ DOMAIN p = 1..Len(p) /\ DOMAIN b = 1..Len(b)
  BY LenProperties DEF Begins
<1>2. P # {}
  BY <1>0, Zenon DEF Obdii2g!consumeLine
<1>3. /\ P \subseteq Nat /\ B \subseteq Nat /\ P \subseteq B /\ \A x \in P : x <= Len(p)
      /\ \A x \in B : x <= Len(p) => x \in P
  <2>1. P \subseteq 1..Len(p) /\ B \subseteq 1..Len(b)
    BY <1>1
  <2>2. \A i \in 1..Len(p) : b[i] = p[i]
    BY DEF Begins
  <2>3. ASSUME NEW x \in 1..Len(p) PROVE x \in P <=> x \in B
    <3>1. x \in 1..Len(b) /\ b[x] = p[x]
      BY <1>1, <2>2
    <3> QED
      BY <1>1, <3>1, Zenon
  <2> HIDE DEF P, B
  <2> QED
    BY <1>1, <2>1, <2>3
<1>4. P \subseteq 1..Len(p)
  BY <1>1
<1>5. Obdii2g!consumeLine(p) =
        Obdii2g!Message(e, Obdii2g!processPacket(Obdii2g!Slice(p, 0, e)), <<>>, <<>>)
  BY <1>2, Zenon DEF Obdii2g!consumeLine
<1>6. B # {} =>
        LET end == CHOOSE i \in B : \A j \in B : i <= j
        IN  Obdii2g!consumeLine(b) =
              Obdii2g!Message(end, Obdii2g!processPacket(Obdii2g!Slice(b, 0, end)), <<>>, <<>>)
  BY Zenon DEF Obdii2g!consumeLine
<1> HIDE DEF P, B
<1>7. e \in P /\ (CHOOSE i \in B : \A j \in B : i <= j) = e /\ B # {}
  BY <1>1, <1>2, <1>3, FirstOfBeginning
<1> HIDE DEF e
<1>8. e \in Nat /\ 0 + e <= Len(p) /\ 0 \in Nat
  BY <1>1, <1>4, <1>7
<1>9. Obdii2g!Slice(b, 0, e) = Obdii2g!Slice(p, 0, e)
  <2>1. Slice(b, 0, e) = Slice(p, 0, e)
    BY <1>8, SliceOfBeginning
  <2> QED
    BY <2>1 DEF Slice, Obdii2g!Slice
<1> QED
  BY <1>5, <1>6, <1>7, <1>9, Zenon

\* In every format.
LEMMA ConsumeBeginning ==
    ASSUME NEW f \in Formats, NEW p \in Seq(Elements(f)), NEW b \in Seq(Elements(f)),
           Begins(p, b), consume(f, p) # Waits
    PROVE  consume(f, b) = consume(f, p)
<1>1. CASE f = "binary"
  BY <1>1, BinaryOfBeginning DEF consume, Elements
<1>2. CASE f = "ascii"
  BY <1>2, TextLineOfBeginning DEF consume, Elements
<1>3. CASE f = "obd"
  BY <1>3, LineOfBeginning DEF consume, Elements
<1> QED
  BY <1>1, <1>2, <1>3 DEF Formats

\* What comes of one turn, in the queues and on the connection.
Taken(m, stream) ==
    /\ m.size \in 0..Len(stream)
    /\ IsSequence(m.status) /\ IsSequence(m.response)
    /\ m.ack = <<>> \/ \E frame : m.ack = <<frame>> /\ IsAck(frame)

\* A tuple of one, and none.
LEMMA OneElement == ASSUME NEW x PROVE IsSequence(<<x>>) /\ IsSequence(<<>>)
<1>1. <<x>> \in Seq({x})
  OBVIOUS
<1> QED
  BY <1>1, SequencesAreSequences, EmptyIsSequence

\* Four bytes behind a transaction id are an acknowledgement of success.
LEMMA AckIsAck ==
    ASSUME NEW transaction \in Seq(Byte), Len(transaction) = 2, NEW encoding \in 0..2
    PROVE  \E frame : Ack(transaction, encoding) = <<frame>> /\ IsAck(frame)
<1> DEFINE end == <<encoding, MsgTypeAck, 0, 0>>
           frame == transaction \o end
<1>1. end \in Seq(0..3) /\ Len(end) = 4 /\ end[2] = MsgTypeAck
  BY DEF MsgTypeAck
<1> HIDE DEF end
<1>2. IsSequence(transaction) /\ IsSequence(end)
  BY <1>1, SequencesAreSequences
<1>3. Joins(frame, transaction, end)
  BY <1>2, ConcatSequences
<1> HIDE DEF frame
<1>4. Len(frame) = 6 /\ frame[4] = MsgTypeAck
  <2>1. 2 \in 1..Len(end) /\ Len(transaction) + 2 = 4 /\ Len(transaction) + Len(end) = 6
    BY <1>1
  <2>2. frame[Len(transaction) + 2] = end[2] /\ Len(frame) = Len(transaction) + Len(end)
    BY <1>3, <2>1 DEF Joins
  <2> QED
    BY <1>1, <2>1, <2>2
<1>5. IsAck(frame)
  BY <1>4 DEF IsAck
<1>6. Ack(transaction, encoding) = <<frame>>
  BY DEF Ack, frame, end
<1> QED
  BY <1>5, <1>6

\* A message, taken.
LEMMA MessageIsTaken ==
    ASSUME NEW stream, NEW size \in 0..Len(stream), NEW status, NEW response, NEW ack,
           IsSequence(status), IsSequence(response),
           ack = <<>> \/ \E frame : ack = <<frame>> /\ IsAck(frame)
    PROVE  Taken(Message(size, status, response, ack), stream)
<1> DEFINE m == Message(size, status, response, ack)
<1>1. m.size = size /\ m.status = status /\ m.response = response /\ m.ack = ack
  BY DEF Message
<1> HIDE DEF m
<1> QED
  BY <1>1, Zenon DEF Taken, m

\* A binary message is within what has arrived, and gets at most one
\* acknowledgement: a position,
LEMMA PositionIsTaken ==
    ASSUME NEW b \in Seq(Byte), NEW transaction \in Seq(Byte), Len(transaction) = 2,
           handleBinaryPosition(b, transaction).kind = "message"
    PROVE  Taken(handleBinaryPosition(b, transaction), b)
<1> DEFINE n == Uint16(b, 14)
           ack == Ack(transaction, MsgEncodingBinaryPos)
           data == handlePositionalData(Slice(b, 16, n))
<1>1. ~(Len(b) < 16) /\ ~(Len(b) < 16 + n) /\ Len(b) \in Nat
  BY LenProperties, OtherKinds DEF handleBinaryPosition
<1>2. n \in Nat
  BY <1>1, UintTypes
<1>3. \E frame : ack = <<frame>> /\ IsAck(frame)
  BY AckIsAck DEF MsgEncodingBinaryPos
<1>4. handleBinaryPosition(b, transaction) = Message(16 + n, <<>>, <<>>, ack)
        \/ handleBinaryPosition(b, transaction) = Message(16 + n, <<data>>, <<>>, ack)
  BY <1>1, Zenon DEF handleBinaryPosition
<1> HIDE DEF n, ack, data
<1>5. 16 + n \in 0..Len(b)
  BY <1>1, <1>2
<1>6. IsSequence(<<data>>) /\ IsSequence(<<>>)
  BY OneElement
<1>7. /\ Taken(Message(16 + n, <<>>, <<>>, ack), b)
      /\ Taken(Message(16 + n, <<data>>, <<>>, ack), b)
  BY <1>3, <1>5, <1>6, MessageIsTaken, Zenon
<1> QED
  BY <1>4, <1>7, Zenon

\* a text,
LEMMA TextIsTaken ==
    ASSUME NEW b \in Seq(Byte), NEW transaction \in Seq(Byte), Len(transaction) = 2,
           handleTextMessage(b, transaction).kind = "message"
    PROVE  Taken(handleTextMessage(b, transaction), b)
<1> DEFINE n == Uint16(b, 4)
           ack == Ack(transaction, MsgEncodingText)
<1>1. ~(Len(b) < 6) /\ ~(Len(b) < 26 + n) /\ Len(b) \in Nat
  BY LenProperties, OtherKinds DEF handleTextMessage
<1>2. n \in Nat
  BY <1>1, UintTypes
<1>3. \E frame : ack = <<frame>> /\ IsAck(frame)
  BY AckIsAck DEF MsgEncodingText
<1>4. handleTextMessage(b, transaction) = Message(26 + n, <<>>, <<>>, ack)
  BY <1>1, Zenon DEF handleTextMessage
<1> HIDE DEF n, ack
<1>5. 26 + n \in 0..Len(b)
  BY <1>1, <1>2
<1>6. Taken(Message(26 + n, <<>>, <<>>, ack), b)
  BY <1>3, <1>5, EmptyIsSequence, MessageIsTaken, Zenon
<1> QED
  BY <1>4, <1>6, Zenon

\* a response,
LEMMA ResponseIsTaken ==
    ASSUME NEW b \in Seq(Byte), handleATResponse(b).kind = "message"
    PROVE  Taken(handleATResponse(b), b)
<1> DEFINE n == Uint16(b, 4)
           answer == Slice(b, 6, n)
<1>1. ~(Len(b) < 6) /\ ~(Len(b) < 6 + n) /\ Len(b) \in Nat
  BY LenProperties, OtherKinds DEF handleATResponse
<1>2. n \in Nat
  BY <1>1, UintTypes
<1>4. handleATResponse(b) = Message(6 + n, <<>>, <<answer>>, <<>>)
  BY <1>1, Zenon DEF handleATResponse
<1> HIDE DEF n, answer
<1>5. 6 + n \in 0..Len(b)
  BY <1>1, <1>2
<1>6. IsSequence(<<answer>>) /\ IsSequence(<<>>)
  BY OneElement
<1>7. Taken(Message(6 + n, <<>>, <<answer>>, <<>>), b)
  BY <1>5, <1>6, MessageIsTaken, Zenon
<1> QED
  BY <1>4, <1>7, Zenon

\* any of them;
LEMMA BinaryIsTaken ==
    ASSUME NEW b \in Seq(Byte), consumeBinaryStream(b).kind = "message"
    PROVE  Taken(consumeBinaryStream(b), b)
<1> DEFINE kind == Slice(b, 2, 2)
           transaction == Slice(b, 0, 2)
<1>1. ~(Len(b) < 4)
  BY OtherKinds DEF consumeBinaryStream
<1>2. transaction \in Seq(Byte) /\ Len(transaction) = 2
  <2>1. 0 + 2 <= Len(b) /\ 0 \in Nat /\ 2 \in Nat
    BY <1>1, LenProperties
  <2> QED
    BY <2>1, SliceProperties
<1>3. \/ consumeBinaryStream(b) = handleBinaryPosition(b, transaction)
      \/ consumeBinaryStream(b) = handleTextMessage(b, transaction)
      \/ consumeBinaryStream(b) = handleATResponse(b)
      \/ consumeBinaryStream(b) = Ends
  BY <1>1 DEF consumeBinaryStream
<1> HIDE DEF kind, transaction
<1> QED
  BY <1>2, <1>3, OtherKinds, PositionIsTaken, TextIsTaken, ResponseIsTaken, Zenon

\* and so is a line of text,
LEMMA TextLineIsTaken ==
    ASSUME NEW b \in Seq(Byte), consumeASCIIStream(b).kind = "message"
    PROVE  Taken(consumeASCIIStream(b), b)
<1> DEFINE E == {i \in DOMAIN b : b[i] = NewLine}
           e == CHOOSE i \in E : \A j \in E : i <= j
           status == [position |-> "unread"]
           ack == Ack(<<0, 0>>, MsgEncodingBinaryPos)
<1>1. E # {}
  BY OtherKinds, Zenon DEF consumeASCIIStream
<1>2. E \subseteq 1..Len(b) /\ E \subseteq Nat /\ Len(b) \in Nat
  BY LenProperties
<1>3. \/ consumeASCIIStream(b) = Message(e, <<status>>, <<>>, ack)
      \/ consumeASCIIStream(b) = Message(e, <<>>, <<>>, <<>>)
  BY <1>1, Zenon DEF consumeASCIIStream
<1>4. \E frame : ack = <<frame>> /\ IsAck(frame)
  <2>1. <<0, 0>> \in Seq(Byte) /\ Len(<<0, 0>>) = 2
    BY DEF Byte
  <2>2. MsgEncodingBinaryPos \in 0..2
    BY DEF MsgEncodingBinaryPos
  <2> QED
    BY <2>1, <2>2, AckIsAck, Zenon
<1> HIDE DEF E, status, ack
<1>5. e \in E
  BY <1>1, <1>2, LeastNumber
<1> HIDE DEF e
<1>6. e \in 0..Len(b)
  BY <1>2, <1>5
<1>7. IsSequence(<<status>>) /\ IsSequence(<<>>)
  BY OneElement
<1>8. Taken(Message(e, <<status>>, <<>>, ack), b) /\ Taken(Message(e, <<>>, <<>>, <<>>), b)
  BY <1>4, <1>6, <1>7, MessageIsTaken, Zenon
<1> QED
  BY <1>3, <1>8, Zenon

\* and a line of fields.
LEMMA LineIsTaken ==
    ASSUME NEW S, NEW b \in Seq(S), Obdii2g!consumeLine(b).kind = "message"
    PROVE  Taken(Obdii2g!consumeLine(b), b)
<1> DEFINE E == {i \in DOMAIN b : b[i].last}
           e == CHOOSE i \in E : \A j \in E : i <= j
           line == Obdii2g!Slice(b, 0, e)
           status == Obdii2g!processPacket(line)
<1>0. Obdii2g!Waits.kind # "message"
  BY DEF Obdii2g!Waits
<1>1. E # {}
  BY <1>0, Zenon DEF Obdii2g!consumeLine
<1>2. E \subseteq 1..Len(b) /\ E \subseteq Nat /\ Len(b) \in Nat
  BY LenProperties
<1>3. Obdii2g!consumeLine(b) = Obdii2g!Message(e, status, <<>>, <<>>)
  BY <1>1, Zenon DEF Obdii2g!consumeLine
<1>4. Obdii2g!Message(e, status, <<>>, <<>>) = Message(e, status, <<>>, <<>>)
  BY Zenon DEF Message, Obdii2g!Message
<1>5. IsSequence(status)
  <2>1. \E x : status = <<>> \/ status = <<x>>
    BY Zenon DEF Obdii2g!processPacket
  <2> QED
    BY <2>1, OneElement, EmptyIsSequence, Zenon
<1> HIDE DEF E, line, status
<1>6. e \in E
  BY <1>1, <1>2, LeastNumber
<1> HIDE DEF e
<1>7. e \in 0..Len(b)
  BY <1>2, <1>6
<1>8. Taken(Message(e, status, <<>>, <<>>), b)
  BY <1>5, <1>7, EmptyIsSequence, MessageIsTaken, Zenon
<1> QED
  BY <1>3, <1>4, <1>8, Zenon

\* In every format.
LEMMA ConsumeTakes ==
    ASSUME NEW f \in Formats, NEW b \in Seq(Elements(f)), consume(f, b).kind = "message"
    PROVE  Taken(consume(f, b), b)
<1>1. CASE f = "binary"
  BY <1>1, BinaryIsTaken DEF consume, Elements
<1>2. CASE f = "ascii"
  BY <1>2, TextLineIsTaken DEF consume, Elements
<1>3. CASE f = "obd"
  BY <1>3, LineIsTaken DEF consume, Elements
<1> QED
  BY <1>1, <1>2, <1>3 DEF Formats

-----------------------------------------------------------------------------
(* Sequences that are made of sequences.                                     *)

\* Sequences have a set that they are over, all of them.
LEMMA CommonSet ==
    ASSUME NEW a, IsSequence(a), NEW b, IsSequence(b)
    PROVE  \E S : a \in Seq(S) /\ b \in Seq(S)
<1> DEFINE A == {a[i] : i \in DOMAIN a}
           B == {b[i] : i \in DOMAIN b}
<1>1. a \in Seq(A) /\ b \in Seq(B) /\ A \subseteq A \cup B /\ B \subseteq A \cup B
  BY DEF IsSequence
<1> HIDE DEF A, B
<1>2. a \in Seq(A \cup B) /\ b \in Seq(A \cup B)
  BY <1>1, SeqMonotonic
<1> QED
  BY <1>2

\* Those of a function of numbers too.
LEMMA CommonSetOfAll ==
    ASSUME NEW h, NEW N \in Nat, \A i \in 1..N : IsSequence(h[i])
    PROVE  \E S : \A i \in 1..N : h[i] \in Seq(S)
<1> DEFINE Of(i) == {h[i][j] : j \in DOMAIN h[i]}
           S == UNION {Of(i) : i \in 1..N}
<1>1. ASSUME NEW i \in 1..N PROVE h[i] \in Seq(S)
  <2>1. h[i] \in Seq(Of(i)) /\ Of(i) \subseteq S
    BY DEF IsSequence
  <2> HIDE DEF S, Of
  <2> QED
    BY <2>1, SeqMonotonic
<1> QED
  BY <1>1

\* The first n of the sequences h, joined.
Joined(h, n) == FlattenSeq([i \in 1..n |-> h[i]])

\* One more of them.
LEMMA JoinedNext ==
    ASSUME NEW S, NEW h, NEW N \in Nat, \A i \in 1..N : h[i] \in Seq(S),
           NEW n \in Nat, n < N
    PROVE  /\ Joined(h, n) \in Seq(S) /\ Joined(h, n + 1) \in Seq(S)
           /\ Joined(h, n + 1) = Joined(h, n) \o h[n + 1]
<1> DEFINE s == [i \in 1..n |-> h[i]]
           t == [i \in 1..n + 1 |-> h[i]]
           x == h[n + 1]
<1>1. (\A i \in 1..n : h[i] \in Seq(S)) /\ (\A i \in 1..n + 1 : h[i] \in Seq(S))
      /\ n + 1 \in Nat /\ n + 1 \in 1..n + 1 /\ x \in Seq(S)
  OBVIOUS
<1>2. s \in Seq(Seq(S)) /\ Len(s) = n /\ t \in Seq(Seq(S)) /\ Len(t) = n + 1
  BY <1>1, IsASeq
<1>3. (\A i \in 1..n : t[i] = s[i]) /\ t[n + 1] = x
  BY <1>1
<1> HIDE DEF s, t, x
<1>4. /\ Append(s, x) \in Seq(Seq(S)) /\ Len(Append(s, x)) = n + 1
      /\ Append(s, x)[n + 1] = x /\ \A i \in 1..n : Append(s, x)[i] = s[i]
  BY <1>1, <1>2, AppendProperties
<1>5. ASSUME NEW i \in 1..n + 1 PROVE t[i] = Append(s, x)[i]
  <2>1. i \in 1..n \/ i = n + 1
    OBVIOUS
  <2> QED
    BY <1>3, <1>4, <2>1
<1>6. t = Append(s, x)
  BY <1>2, <1>4, <1>5, SeqEqual
<1>7. FlattenSeq(s) \in Seq(S) /\ FlattenSeq(t) = FlattenSeq(s) \o x
  BY <1>1, <1>2, <1>6, FlattenAppend
<1>8. FlattenSeq(t) \in Seq(S)
  BY <1>1, <1>7, ConcatProperties
<1> QED
  BY <1>7, <1>8 DEF s, t, x, Joined

\* None of them.
LEMMA JoinedNone == ASSUME NEW h PROVE Joined(h, 0) = <<>>
<1>1. [i \in 1..0 |-> h[i]] = <<>>
  OBVIOUS
<1> QED
  BY <1>1, FlattenEmpty DEF Joined

\* Some begin more.
LEMMA JoinedBegins ==
    ASSUME NEW S, NEW h, NEW N \in Nat, \A i \in 1..N : h[i] \in Seq(S)
    PROVE  /\ \A n \in 0..N : Joined(h, n) \in Seq(S)
           /\ \A n \in 0..N : \A m \in 0..n : Begins(Joined(h, m), Joined(h, n))
<1> DEFINE P(n) == /\ Joined(h, n) \in Seq(S)
                   /\ \A m \in 0..n : Begins(Joined(h, m), Joined(h, n))
           T == {n \in Nat : n <= N => P(n)}
<1>1. 0 \in T
  <2>1. Joined(h, 0) = <<>> /\ <<>> \in Seq(S) /\ \A m \in 0..0 : m = 0
    BY JoinedNone
  <2>2. Begins(<<>>, <<>>)
    BY DEF Begins
  <2> QED
    BY <2>1, <2>2
<1>2. ASSUME NEW n \in Nat, n \in T PROVE n + 1 \in T
  <2> SUFFICES ASSUME n + 1 <= N PROVE P(n + 1)
    OBVIOUS
  <2>1. n < N /\ n <= N /\ n + 1 \in 1..N
    OBVIOUS
  <2>2. P(n)
    BY <1>2, <2>1
  <2>3. /\ Joined(h, n) \in Seq(S) /\ Joined(h, n + 1) \in Seq(S)
        /\ Joined(h, n + 1) = Joined(h, n) \o h[n + 1] /\ h[n + 1] \in Seq(S)
    BY <2>1, JoinedNext
  <2>4. Begins(Joined(h, n), Joined(h, n + 1))
    BY <2>3, ConcatBegins
  <2>5. ASSUME NEW m \in 0..n + 1 PROVE Begins(Joined(h, m), Joined(h, n + 1))
    <3>1. CASE m = n + 1
      BY <2>3, <3>1, LenProperties DEF Begins
    <3>2. CASE m # n + 1
      <4>1. m \in 0..n /\ m \in Nat
        BY <3>2
      <4>2. Begins(Joined(h, m), Joined(h, n))
        BY <2>2, <4>1
      <4>3. Joined(h, m) \in Seq(S)
        <5>1. m < N
          BY <2>1, <4>1
        <5> QED
          BY <4>1, <5>1, JoinedNext
      <4> QED
        BY <2>3, <2>4, <4>2, <4>3, BeginsAgain
    <3> QED
      BY <3>1, <3>2
  <2> QED
    BY <2>3, <2>5
<1>3. Nat \subseteq T
  <2> HIDE DEF T
  <2> QED
    BY <1>1, <1>2, Induction
<1> QED
  BY <1>3

\* What is behind the first n elements.
LEMMA CutTyped ==
    ASSUME NEW S, NEW w \in Seq(S), NEW n \in Nat, n <= Len(w)
    PROVE  /\ SubSeq(w, n + 1, Len(w)) \in Seq(S)
           /\ Len(SubSeq(w, n + 1, Len(w))) = Len(w) - n
           /\ \A i \in 1..Len(w) - n : SubSeq(w, n + 1, Len(w))[i] = w[n + i]
<1> DEFINE m == Len(w) - n
<1>1. Len(w) \in Nat /\ m \in Nat /\ n + m = Len(w) /\ n + m <= Len(w)
  BY LenProperties
<1> HIDE DEF m
<1>2. /\ Slice(w, n, m) \in Seq(S) /\ Len(Slice(w, n, m)) = m
      /\ \A i \in 1..m : Slice(w, n, m)[i] = w[n + i]
  BY <1>1, SliceProperties, ZenonT(90)
<1>3. Slice(w, n, m) = SubSeq(w, n + 1, Len(w))
  BY <1>1 DEF Slice
<1> QED
  BY <1>2, <1>3 DEF m

\* The same cut off in two steps.
LEMMA CutTwice ==
    ASSUME NEW S, NEW w \in Seq(S), NEW n \in Nat, NEW m \in Nat, n + m <= Len(w)
    PROVE  LET x == SubSeq(w, n + 1, Len(w))
           IN  SubSeq(x, m + 1, Len(x)) = SubSeq(w, (n + m) + 1, Len(w))
<1> DEFINE x == SubSeq(w, n + 1, Len(w))
           y == SubSeq(x, m + 1, Len(x))
           z == SubSeq(w, (n + m) + 1, Len(w))
<1>1. Len(w) \in Nat /\ n <= Len(w) /\ m <= Len(w) - n /\ n + m \in Nat
  BY LenProperties
<1>2. x \in Seq(S) /\ Len(x) = Len(w) - n /\ \A i \in 1..Len(w) - n : x[i] = w[n + i]
  BY <1>1, CutTyped
<1>3. z \in Seq(S) /\ Len(z) = Len(w) - (n + m)
      /\ \A i \in 1..Len(w) - (n + m) : z[i] = w[(n + m) + i]
  BY <1>1, CutTyped
<1> HIDE DEF x, z
<1>4. y \in Seq(S) /\ Len(y) = Len(x) - m /\ \A i \in 1..Len(x) - m : y[i] = x[m + i]
  <2>1. m <= Len(x)
    BY <1>1, <1>2
  <2> QED
    BY <1>2, <2>1, CutTyped
<1> HIDE DEF y
<1>5. Len(y) = Len(z)
  BY <1>1, <1>2, <1>3, <1>4
<1>6. ASSUME NEW i \in 1..Len(y) PROVE y[i] = z[i]
  <2>1. /\ i \in 1..Len(x) - m /\ m + i \in 1..Len(w) - n
        /\ i \in 1..Len(w) - (n + m) /\ n + (m + i) = (n + m) + i
    BY <1>1, <1>2, <1>3, <1>4
  <2>2. y[i] = x[m + i] /\ x[m + i] = w[n + (m + i)] /\ z[i] = w[(n + m) + i]
    BY <1>2, <1>3, <1>4, <2>1
  <2> QED
    BY <2>1, <2>2
<1>7. y = z
  BY <1>3, <1>4, <1>5, <1>6, SeqEqual
<1> QED
  BY <1>7 DEF x, y, z

\* Cut the same off two sequences one of which begins the other.
LEMMA CutTheSame ==
    ASSUME NEW S, NEW a \in Seq(S), NEW b \in Seq(S), Begins(a, b),
           NEW n \in Nat, n <= Len(a)
    PROVE  LET x == SubSeq(a, n + 1, Len(a))
               y == SubSeq(b, n + 1, Len(b))
           IN  x \in Seq(S) /\ y \in Seq(S) /\ Begins(x, y)
<1> DEFINE x == SubSeq(a, n + 1, Len(a))
           y == SubSeq(b, n + 1, Len(b))
<1>1. /\ Len(a) \in Nat /\ Len(b) \in Nat /\ n <= Len(b) /\ Len(a) <= Len(b)
      /\ \A i \in 1..Len(a) : b[i] = a[i]
  BY LenProperties DEF Begins
<1>2. /\ x \in Seq(S) /\ Len(x) = Len(a) - n /\ \A i \in 1..Len(a) - n : x[i] = a[n + i]
      /\ y \in Seq(S) /\ Len(y) = Len(b) - n /\ \A i \in 1..Len(b) - n : y[i] = b[n + i]
  BY <1>1, CutTyped
<1> HIDE DEF x, y
<1>3. Begins(x, y)
  <2>1. Len(x) <= Len(y)
    BY <1>1, <1>2
  <2>2. ASSUME NEW i \in 1..Len(x) PROVE y[i] = x[i]
    <3>1. i \in 1..Len(b) - n /\ i \in 1..Len(a) - n /\ n + i \in 1..Len(a)
      BY <1>1, <1>2, <2>1
    <3> QED
      BY <1>1, <1>2, <3>1
  <2> QED
    BY <2>1, <2>2 DEF Begins
<1> QED
  BY <1>2, <1>3 DEF x, y

\* Nothing is part of anything.
LEMMA NoneIsSubsequence == ASSUME NEW t PROVE IsSubsequence(<<>>, t)
<1> DEFINE at == [i \in {} |-> 0]
<1>1. DOMAIN <<>> = {}
  OBVIOUS
<1>2. at \in [DOMAIN <<>> -> DOMAIN t]
  BY <1>1
<1> QED
  BY <1>1, <1>2 DEF IsSubsequence

\* What is part of a sequence is part of a longer one.
LEMMA SubsequenceOfLonger ==
    ASSUME NEW s, NEW t, IsSequence(t), NEW u, IsSequence(u), IsSubsequence(s, t), Begins(t, u)
    PROVE  IsSubsequence(s, u)
<1>1. PICK at \in [DOMAIN s -> DOMAIN t] :
        /\ \A i, j \in DOMAIN s : i < j => at[i] < at[j]
        /\ \A i \in DOMAIN s : s[i] = t[at[i]]
  BY Zenon DEF IsSubsequence
<1>2. /\ DOMAIN t = 1..Len(t) /\ DOMAIN u = 1..Len(u) /\ DOMAIN t \subseteq DOMAIN u
      /\ \A i \in DOMAIN t : u[i] = t[i]
  BY Positions DEF Begins
<1>3. at \in [DOMAIN s -> DOMAIN u]
  BY <1>2
<1>4. \A i \in DOMAIN s : s[i] = u[at[i]]
  BY <1>1, <1>2
<1> QED
  BY <1>1, <1>3, <1>4, Zenon DEF IsSubsequence

\* It stays so with the same behind both.
LEMMA SubsequenceWithSame ==
    ASSUME NEW s, IsSequence(s), NEW t, IsSequence(t), NEW x, IsSequence(x), IsSubsequence(s, t)
    PROVE  IsSubsequence(s \o x, t \o x)
<1> DEFINE u == s \o x
           v == t \o x
           m == Len(s)
           n == Len(t)
<1>1. PICK at \in [DOMAIN s -> DOMAIN t] :
        /\ \A i, j \in DOMAIN s : i < j => at[i] < at[j]
        /\ \A i \in DOMAIN s : s[i] = t[at[i]]
  BY Zenon DEF IsSubsequence
<1>2. /\ m \in Nat /\ n \in Nat /\ Len(x) \in Nat /\ DOMAIN s = 1..m /\ DOMAIN t = 1..n
  BY Positions
<1>3. Joins(u, s, x) /\ Joins(v, t, x)
  BY ConcatSequences
<1> HIDE DEF u, v, m, n
<1>4. /\ DOMAIN u = 1..m + Len(x) /\ DOMAIN v = 1..n + Len(x)
      /\ \A i \in 1..m : u[i] = s[i]
      /\ \A i \in 1..Len(x) : u[m + i] = x[i] /\ v[n + i] = x[i]
      /\ \A i \in 1..n : v[i] = t[i]
  BY <1>3, Positions DEF Joins, m, n
<1> DEFINE to == [i \in 1..m + Len(x) |-> IF i <= m THEN at[i] ELSE n + (i - m)]
<1>5. \A i \in 1..m : at[i] \in 1..n
  BY <1>2
<1>6. ASSUME NEW i \in 1..m + Len(x) PROVE to[i] \in 1..n + Len(x) /\ u[i] = v[to[i]]
  <2>1. CASE i <= m
    <3>1. i \in 1..m /\ to[i] = at[i] /\ at[i] \in 1..n
      BY <1>2, <1>5, <2>1
    <3>2. u[i] = s[i] /\ v[at[i]] = t[at[i]]
      BY <1>4, <3>1
    <3>3. s[i] = t[at[i]]
      BY <1>1, <1>2, <3>1, Zenon
    <3>4. at[i] \in 1..n + Len(x)
      BY <1>2, <3>1
    <3> QED
      BY <3>1, <3>2, <3>3, <3>4
  <2>2. CASE ~(i <= m)
    <3>1. i - m \in 1..Len(x) /\ m + (i - m) = i /\ to[i] = n + (i - m)
      BY <1>2, <2>2
    <3>2. u[m + (i - m)] = x[i - m] /\ v[n + (i - m)] = x[i - m]
      BY <1>4, <3>1
    <3>3. n + (i - m) \in 1..n + Len(x)
      BY <1>2, <3>1
    <3> QED
      BY <3>1, <3>2, <3>3
  <2> QED
    BY <2>1, <2>2
<1>7. ASSUME NEW i \in 1..m + Len(x), NEW j \in 1..m + Len(x), i < j PROVE to[i] < to[j]
  <2>1. CASE j <= m
    <3>1. i \in 1..m /\ j \in 1..m /\ to[i] = at[i] /\ to[j] = at[j]
      BY <1>2, <1>7, <2>1
    <3> QED
      BY <1>1, <1>2, <1>7, <3>1
  <2>2. CASE ~(j <= m) /\ i <= m
    <3>1. i \in 1..m /\ to[i] = at[i] /\ to[j] = n + (j - m) /\ j - m \in 1..Len(x)
      BY <1>2, <2>2
    <3>2. at[i] \in 1..n
      BY <1>5, <3>1
    <3> QED
      BY <1>2, <3>1, <3>2
  <2>3. CASE ~(j <= m) /\ ~(i <= m)
    <3>1. to[i] = n + (i - m) /\ to[j] = n + (j - m)
      BY <2>3
    <3> QED
      BY <1>2, <1>7, <3>1
  <2> QED
    BY <2>1, <2>2, <2>3
<1>8. to \in [DOMAIN u -> DOMAIN v]
  BY <1>4, <1>6
<1> HIDE DEF to
<1>9. IsSubsequence(u, v)
  <2>1. DOMAIN u = 1..m + Len(x)
    BY <1>4
  <2>2. \A i, j \in DOMAIN u : i < j => to[i] < to[j]
    BY <1>7, <2>1, Zenon
  <2>3. \A i \in DOMAIN u : u[i] = v[to[i]]
    BY <1>6, <2>1, Zenon
  <2> QED
    BY <1>8, <2>2, <2>3, Zenon DEF IsSubsequence
<1> QED
  BY <1>9 DEF u, v

\* A sequence is all of itself.
LEMMA WholeSequence == ASSUME NEW s, IsSequence(s) PROVE SubSeq(s, 1, Len(s)) = s
<1>1. PICK S : s \in Seq(S)
  BY SequenceOver
<1> QED
  BY <1>1, SubSeqFull

\* The front of a longer sequence.
LEMMA FrontOfLonger ==
    ASSUME NEW s, IsSequence(s), NEW x, IsSequence(x), NEW k \in 0..Len(s)
    PROVE  SubSeq(s \o x, 1, k) = SubSeq(s, 1, k) /\ k \in 0..Len(s \o x)
<1>1. PICK S : s \in Seq(S) /\ x \in Seq(S)
  BY CommonSet
<1>2. s \o x \in Seq(S) /\ Begins(s, s \o x) /\ Len(s \o x) = Len(s) + Len(x)
  BY <1>1, ConcatBegins
<1>3. Len(s) \in Nat /\ Len(x) \in Nat /\ k \in Nat /\ 0 + k <= Len(s) /\ 0 + 1 = 1 /\ 0 + k = k
      /\ 0 \in Nat
  BY LengthType
<1> DEFINE v == s \o x
<1> HIDE DEF v
<1>4. Slice(v, 0, k) = Slice(s, 0, k)
  <2>1. v \in Seq(S) /\ Begins(s, v)
    BY <1>2, Zenon DEF v
  <2>2. ASSUME NEW at \in Nat, NEW n \in Nat, at + n <= Len(s)
        PROVE  Slice(v, at, n) = Slice(s, at, n)
    BY <1>1, <2>1, <2>2, SliceOfBeginning
  <2> QED
    BY <1>3, <2>2, Zenon
<1>5. SubSeq(v, 1, k) = SubSeq(s, 1, k)
  BY <1>3, <1>4 DEF Slice
<1>6. k \in 0..Len(v)
  BY <1>2, <1>3 DEF v
<1> QED
  BY <1>5, <1>6 DEF v

\* More behind a sequence, which what begins it still begins.
LEMMA BeginsMore ==
    ASSUME NEW a, IsSequence(a), NEW s, IsSequence(s), NEW x, IsSequence(x)
    PROVE  /\ IsSequence(s \o x) /\ Begins(s, s \o x) /\ Len(s \o x) = Len(s) + Len(x)
           /\ Begins(a, s) => Begins(a, s \o x)
<1>1. PICK S : s \in Seq(S) /\ x \in Seq(S)
  BY CommonSet
<1>2. s \o x \in Seq(S) /\ Begins(s, s \o x) /\ Len(s \o x) = Len(s) + Len(x)
  BY <1>1, ConcatBegins
<1>3. IsSequence(s \o x) /\ Len(a) \in Nat /\ Len(s) \in Nat /\ Len(s \o x) \in Nat
  BY <1>2, SequencesAreSequences, LengthType
<1>4. Begins(a, s) => Begins(a, s \o x)
  BY <1>2, <1>3 DEF Begins
<1> QED
  BY <1>2, <1>3, <1>4

\* What begins what begins a sequence begins it; nothing behind a sequence is
\* that sequence.
LEMMA BeginsThrough ==
    ASSUME NEW a, IsSequence(a), NEW b, IsSequence(b), NEW c, IsSequence(c)
    PROVE  Begins(a, a) /\ (Begins(a, b) /\ Begins(b, c) => Begins(a, c))
<1>1. Len(a) \in Nat /\ Len(b) \in Nat /\ Len(c) \in Nat
  BY LengthType
<1> QED
  BY <1>1 DEF Begins

LEMMA NothingMore ==
    ASSUME NEW s, IsSequence(s)
    PROVE  s \o <<>> = s /\ \A x : Append(s, x) = s \o <<x>>
<1>1. PICK S : s \in Seq(S)
  BY SequenceOver
<1>2. s \o <<>> = s
  BY <1>1, ConcatEmptySeq
<1>3. ASSUME NEW x PROVE Append(s, x) = s \o <<x>>
  <2>1. IsSequence(<<x>>)
    BY OneElement
  <2>2. PICK R : s \in Seq(R) /\ <<x>> \in Seq(R)
    BY <2>1, CommonSet
  <2>3. x \in R
    BY <2>2
  <2> QED
    BY <2>2, <2>3, AppendIsConcat
<1> QED
  BY <1>2, <1>3

\* What begins a sequence is a prefix of it.
LEMMA BeginsIsPrefix ==
    ASSUME NEW a, IsSequence(a), NEW b, IsSequence(b), Begins(a, b)
    PROVE  IsPrefix(a, b)
<1>1. PICK S : a \in Seq(S) /\ b \in Seq(S)
  BY CommonSet
<1> QED
  BY <1>1, BeginningIsPrefix

-----------------------------------------------------------------------------
(* The acknowledgements among the frames.                                    *)

\* That a frame is, if it is one;
AckIn(frame) == IF IsAck(frame) THEN <<frame>> ELSE <<>>

\* those among some frames.
AcksIn(w) == FlattenSeq([i \in DOMAIN w |-> AckIn(w[i])])

\* Acks, of what is written.
LEMMA AcksAreIn == Acks = AcksIn(written) /\ Acks' = AcksIn(written')
  BY DEF Acks, AcksIn, AckIn

\* One frame more.
LEMMA AcksOfMore ==
    ASSUME NEW w, IsSequence(w), NEW frame
    PROVE  /\ IsSequence(AcksIn(w))
           /\ AcksIn(Append(w, frame)) = AcksIn(w) \o AckIn(frame)
<1> DEFINE n == Len(w)
           v == Append(w, frame)
           h == [i \in 1..n + 1 |-> AckIn(v[i])]
<1>1. /\ IsSequence(v) /\ n \in Nat /\ Len(v) = n + 1 /\ DOMAIN v = 1..n + 1 /\ DOMAIN w = 1..n
      /\ v[n + 1] = frame /\ \A i \in 1..n : v[i] = w[i]
  BY AppendToSequence, Positions
<1> HIDE DEF n, v
<1>2. \A i \in 1..n + 1 : IsSequence(h[i])
  BY OneElement, EmptyIsSequence DEF AckIn
<1>3. PICK S : \A i \in 1..n + 1 : h[i] \in Seq(S)
  <2>1. n + 1 \in Nat
    BY <1>1
  <2> HIDE DEF h
  <2> QED
    BY <1>2, <2>1, CommonSetOfAll
<1>4. Joined(h, n) \in Seq(S) /\ Joined(h, n + 1) = Joined(h, n) \o h[n + 1]
  <2>1. n + 1 \in Nat /\ n < n + 1
    BY <1>1
  <2> HIDE DEF h
  <2> QED
    BY <1>1, <1>3, <2>1, JoinedNext
<1>5. AcksIn(v) = Joined(h, n + 1) /\ h[n + 1] = AckIn(frame)
  <2>1. [i \in 1..n + 1 |-> h[i]] = [i \in 1..n + 1 |-> AckIn(v[i])]
    OBVIOUS
  <2>2. n + 1 \in 1..n + 1
    BY <1>1
  <2> QED
    BY <1>1, <2>1, <2>2 DEF AcksIn, Joined
<1>6. AcksIn(w) = Joined(h, n)
  <2>1. \A i \in 1..n : h[i] = AckIn(w[i])
    BY <1>1
  <2>2. [i \in 1..n |-> h[i]] = [i \in 1..n |-> AckIn(w[i])]
    BY <2>1
  <2> QED
    BY <1>1, <2>2 DEF AcksIn, Joined
<1>7. IsSequence(AcksIn(w))
  BY <1>4, <1>6, SequencesAreSequences
<1> QED
  BY <1>4, <1>5, <1>6, <1>7 DEF v

-----------------------------------------------------------------------------
(* The messages of a format.                                                 *)

\* How many there are.
Count(f) == Len(Messages(f))

\* What the codec says of a message.
LEMMA MessageFacts ==
    ASSUME NEW f \in Formats
    PROVE  /\ Count(f) \in Nat
           /\ \A i \in 1..Count(f) :
                /\ Encode(f, i) \in Seq(Elements(f)) /\ Encode(f, i) # <<>>
                /\ Damaged(f, Encode(f, i)) \subseteq Seq(Elements(f))
                /\ IsSequence(Reported(f, i).status) /\ IsSequence(Reported(f, i).response)
                /\ IsSequence(Reported(f, i).ack)
                /\ Len(Reported(f, i).ack) <= (IF f = "obd" THEN 0 ELSE 1)
  BY StreamCodec, Zenon DEF Count

\* Messages one behind the other: each makes the stream longer, and leaves what
\* is before it alone.
LEMMA StreamFacts ==
    ASSUME NEW f \in Formats
    PROVE  /\ \A n \in 0..Count(f) : Stream(f, n) \in Seq(Elements(f))
           /\ \A n \in 0..Count(f) : \A m \in 0..n : Begins(Stream(f, m), Stream(f, n))
           /\ \A n \in Nat : n < Count(f) =>
                /\ Stream(f, n + 1) = Stream(f, n) \o Encode(f, n + 1)
                /\ Len(Stream(f, n)) < Len(Stream(f, n + 1))
           /\ Stream(f, 0) = <<>>
<1> DEFINE N == Count(f)
           S == Elements(f)
           h == [i \in 1..N |-> Encode(f, i)]
<1>1. N \in Nat /\ \A i \in 1..N : h[i] = Encode(f, i) /\ h[i] \in Seq(S) /\ h[i] # <<>>
  BY MessageFacts
<1>2. ASSUME NEW n \in 0..N PROVE Stream(f, n) = Joined(h, n)
  <2>1. \A i \in 1..n : i \in 1..N
    BY <1>1
  <2>2. [i \in 1..n |-> h[i]] = [i \in 1..n |-> Encode(f, i)]
    BY <2>1
  <2> QED
    BY <2>2 DEF Stream, Joined
<1> HIDE DEF h, N, S
<1>3. /\ \A n \in 0..N : Joined(h, n) \in Seq(S)
      /\ \A n \in 0..N : \A m \in 0..n : Begins(Joined(h, m), Joined(h, n))
  BY <1>1, JoinedBegins
<1>4. ASSUME NEW n \in Nat, n < N
      PROVE  /\ Stream(f, n + 1) = Stream(f, n) \o Encode(f, n + 1)
             /\ Len(Stream(f, n)) < Len(Stream(f, n + 1))
  <2>1. n \in 0..N /\ n + 1 \in 0..N /\ n + 1 \in 1..N
    BY <1>1, <1>4
  <2>2. Joined(h, n) \in Seq(S) /\ Joined(h, n + 1) = Joined(h, n) \o h[n + 1]
    BY <1>1, <1>4, JoinedNext
  <2>3. h[n + 1] = Encode(f, n + 1) /\ h[n + 1] \in Seq(S) /\ h[n + 1] # <<>>
    BY <1>1, <2>1
  <2>4. Len(Joined(h, n) \o h[n + 1]) = Len(Joined(h, n)) + Len(h[n + 1])
    BY <2>2, <2>3, ConcatBegins
  <2>5. Len(h[n + 1]) \in Nat /\ Len(h[n + 1]) # 0 /\ Len(Joined(h, n)) \in Nat
    BY <2>2, <2>3, LenProperties, EmptySeq
  <2>6. \A x, y, z : x \in Nat /\ y \in Nat /\ y # 0 /\ z = x + y => x < z
    OBVIOUS
  <2> QED
    BY <1>2, <2>1, <2>2, <2>3, <2>4, <2>5, <2>6, Zenon
<1>5. 0 \in 0..N /\ \A n \in 0..N : \A m \in 0..n : m \in 0..N
  BY <1>1
<1>6. Stream(f, 0) = <<>>
  BY <1>2, <1>5, JoinedNone
<1>7. /\ \A n \in 0..N : Stream(f, n) \in Seq(S)
      /\ \A n \in 0..N : \A m \in 0..n : Begins(Stream(f, m), Stream(f, n))
  BY <1>2, <1>3, <1>5, Zenon
<1> QED
  BY <1>4, <1>6, <1>7 DEF N, S

\* Sequences that are joined, under the name they have.
LEMMA JoinedGrows ==
    ASSUME NEW N \in Nat, NEW h, \A i \in 1..N : IsSequence(h[i])
    PROVE  /\ \A n \in 0..N : IsSequence(Joined(h, n))
           /\ \A n \in 0..N : \A m \in 0..n : Begins(Joined(h, m), Joined(h, n))
           /\ \A n \in Nat : n < N => Joined(h, n + 1) = Joined(h, n) \o h[n + 1]
           /\ Joined(h, 0) = <<>>
<1>1. PICK S : \A i \in 1..N : h[i] \in Seq(S)
  BY CommonSetOfAll
<1>2. /\ \A n \in 0..N : Joined(h, n) \in Seq(S)
      /\ \A n \in 0..N : \A m \in 0..n : Begins(Joined(h, m), Joined(h, n))
  BY <1>1, JoinedBegins
<1>3. \A n \in 0..N : IsSequence(Joined(h, n))
  BY <1>2, SequencesAreSequences
<1>4. \A n \in Nat : n < N => Joined(h, n + 1) = Joined(h, n) \o h[n + 1]
  BY <1>1, JoinedNext
<1> QED
  BY <1>2, <1>3, <1>4, JoinedNone

\* The statuses due grow by those of a message,
LEMMA StatusesGrow ==
    ASSUME NEW f \in Formats
    PROVE  /\ \A n \in 0..Count(f) : IsSequence(Statuses(f, n))
           /\ \A n \in 0..Count(f) : \A m \in 0..n : Begins(Statuses(f, m), Statuses(f, n))
           /\ \A n \in Nat : n < Count(f) => Statuses(f, n + 1) = Statuses(f, n) \o Reported(f, n + 1).status
           /\ Statuses(f, 0) = <<>>
<1> DEFINE N == Count(f)
           h == [i \in 1..N |-> Reported(f, i).status]
<1>1. N \in Nat /\ \A i \in 1..N : IsSequence(Reported(f, i).status)
  BY MessageFacts
<1>2. \A i \in 1..N : h[i] = Reported(f, i).status
  OBVIOUS
<1>3. ASSUME NEW n \in 0..N PROVE Statuses(f, n) = Joined(h, n)
  <2>1. \A i \in 1..n : i \in 1..N
    BY <1>1
  <2>2. [i \in 1..n |-> h[i]] = [i \in 1..n |-> Reported(f, i).status]
    BY <2>1
  <2> QED
    BY <2>2 DEF Statuses, Joined
<1> HIDE DEF h, N
<1>4. /\ \A n \in 0..N : IsSequence(Joined(h, n))
      /\ \A n \in 0..N : \A m \in 0..n : Begins(Joined(h, m), Joined(h, n))
      /\ \A n \in Nat : n < N => Joined(h, n + 1) = Joined(h, n) \o h[n + 1]
      /\ Joined(h, 0) = <<>>
  BY <1>1, <1>2, JoinedGrows
<1>5. /\ 0 \in 0..N /\ \A n \in 0..N : \A m \in 0..n : m \in 0..N
      /\ \A n \in Nat : n < N => n \in 0..N /\ n + 1 \in 0..N /\ n + 1 \in 1..N
  BY <1>1
<1>6. /\ \A n \in 0..N : IsSequence(Statuses(f, n))
      /\ \A n \in 0..N : \A m \in 0..n : Begins(Statuses(f, m), Statuses(f, n))
      /\ \A n \in Nat : n < N => Statuses(f, n + 1) = Statuses(f, n) \o Reported(f, n + 1).status
      /\ Statuses(f, 0) = <<>>
  BY <1>2, <1>3, <1>4, <1>5, Zenon
<1> QED
  BY <1>6 DEF N

\* the responses by those of one,
LEMMA ResponsesGrow ==
    ASSUME NEW f \in Formats
    PROVE  /\ \A n \in 0..Count(f) : IsSequence(Responses(f, n))
           /\ \A n \in 0..Count(f) : \A m \in 0..n : Begins(Responses(f, m), Responses(f, n))
           /\ \A n \in Nat : n < Count(f) => Responses(f, n + 1) = Responses(f, n) \o Reported(f, n + 1).response
           /\ Responses(f, 0) = <<>>
<1> DEFINE N == Count(f)
           h == [i \in 1..N |-> Reported(f, i).response]
<1>1. N \in Nat /\ \A i \in 1..N : IsSequence(Reported(f, i).response)
  BY MessageFacts
<1>2. \A i \in 1..N : h[i] = Reported(f, i).response
  OBVIOUS
<1>3. ASSUME NEW n \in 0..N PROVE Responses(f, n) = Joined(h, n)
  <2>1. \A i \in 1..n : i \in 1..N
    BY <1>1
  <2>2. [i \in 1..n |-> h[i]] = [i \in 1..n |-> Reported(f, i).response]
    BY <2>1
  <2> QED
    BY <2>2 DEF Responses, Joined
<1> HIDE DEF h, N
<1>4. /\ \A n \in 0..N : IsSequence(Joined(h, n))
      /\ \A n \in 0..N : \A m \in 0..n : Begins(Joined(h, m), Joined(h, n))
      /\ \A n \in Nat : n < N => Joined(h, n + 1) = Joined(h, n) \o h[n + 1]
      /\ Joined(h, 0) = <<>>
  BY <1>1, <1>2, JoinedGrows
<1>5. /\ 0 \in 0..N /\ \A n \in 0..N : \A m \in 0..n : m \in 0..N
      /\ \A n \in Nat : n < N => n \in 0..N /\ n + 1 \in 0..N /\ n + 1 \in 1..N
  BY <1>1
<1>6. /\ \A n \in 0..N : IsSequence(Responses(f, n))
      /\ \A n \in 0..N : \A m \in 0..n : Begins(Responses(f, m), Responses(f, n))
      /\ \A n \in Nat : n < N => Responses(f, n + 1) = Responses(f, n) \o Reported(f, n + 1).response
      /\ Responses(f, 0) = <<>>
  BY <1>2, <1>3, <1>4, <1>5, Zenon
<1> QED
  BY <1>6 DEF N

\* and the acknowledgements.
LEMMA AcksForGrow ==
    ASSUME NEW f \in Formats
    PROVE  /\ \A n \in 0..Count(f) : IsSequence(AcksFor(f, n))
           /\ \A n \in 0..Count(f) : \A m \in 0..n : Begins(AcksFor(f, m), AcksFor(f, n))
           /\ \A n \in Nat : n < Count(f) => AcksFor(f, n + 1) = AcksFor(f, n) \o Reported(f, n + 1).ack
           /\ AcksFor(f, 0) = <<>>
<1> DEFINE N == Count(f)
           h == [i \in 1..N |-> Reported(f, i).ack]
<1>1. N \in Nat /\ \A i \in 1..N : IsSequence(Reported(f, i).ack)
  BY MessageFacts
<1>2. \A i \in 1..N : h[i] = Reported(f, i).ack
  OBVIOUS
<1>3. ASSUME NEW n \in 0..N PROVE AcksFor(f, n) = Joined(h, n)
  <2>1. \A i \in 1..n : i \in 1..N
    BY <1>1
  <2>2. [i \in 1..n |-> h[i]] = [i \in 1..n |-> Reported(f, i).ack]
    BY <2>1
  <2> QED
    BY <2>2 DEF AcksFor, Joined
<1> HIDE DEF h, N
<1>4. /\ \A n \in 0..N : IsSequence(Joined(h, n))
      /\ \A n \in 0..N : \A m \in 0..n : Begins(Joined(h, m), Joined(h, n))
      /\ \A n \in Nat : n < N => Joined(h, n + 1) = Joined(h, n) \o h[n + 1]
      /\ Joined(h, 0) = <<>>
  BY <1>1, <1>2, JoinedGrows
<1>5. /\ 0 \in 0..N /\ \A n \in 0..N : \A m \in 0..n : m \in 0..N
      /\ \A n \in Nat : n < N => n \in 0..N /\ n + 1 \in 0..N /\ n + 1 \in 1..N
  BY <1>1
<1>6. /\ \A n \in 0..N : IsSequence(AcksFor(f, n))
      /\ \A n \in 0..N : \A m \in 0..n : Begins(AcksFor(f, m), AcksFor(f, n))
      /\ \A n \in Nat : n < N => AcksFor(f, n + 1) = AcksFor(f, n) \o Reported(f, n + 1).ack
      /\ AcksFor(f, 0) = <<>>
  BY <1>2, <1>3, <1>4, <1>5, Zenon
<1> QED
  BY <1>6 DEF N

\* No more messages are whole than were sent.
LEMMA WholeIsWithin ==
    ASSUME NEW f \in Formats, NEW s \in Starts(f), NEW c \in 0..Count(f),
           s.at <= Len(Stream(f, c))
    PROVE  s.whole \in 0..c
<1>1. /\ Count(f) \in Nat /\ s.whole \in 0..Count(f) /\ s.at \in 0..Len(Stream(f, Count(f)))
      /\ Len(Stream(f, s.whole)) <= s.at
  BY MessageFacts DEF Starts, Count
<1> SUFFICES ASSUME c < s.whole PROVE FALSE
  BY <1>1
<1>2. /\ c \in Nat /\ c < Count(f) /\ c + 1 \in 0..s.whole /\ s.whole \in 0..Count(f)
      /\ c + 1 \in 0..Count(f) /\ Count(f) \in 0..Count(f)
  BY <1>1
<1>3. Len(Stream(f, c)) < Len(Stream(f, c + 1)) /\ Begins(Stream(f, c + 1), Stream(f, s.whole))
  BY <1>2, StreamFacts
<1>4. /\ Len(Stream(f, c)) \in Nat /\ Len(Stream(f, c + 1)) \in Nat
      /\ Len(Stream(f, s.whole)) \in Nat /\ Len(Stream(f, Count(f))) \in Nat
  BY <1>2, StreamFacts, LenProperties
<1> QED
  BY <1>1, <1>3, <1>4 DEF Begins

\* What one turn does, if it reads a message of an undamaged stream.
Turns(f, s, t, taken) ==
    /\ t \in Starts(f) /\ t.at = s.at + taken.size /\ s.whole <= t.whole
    /\ Statuses(f, t.whole) = Statuses(f, s.whole) \o taken.status
    /\ Responses(f, t.whole) = Responses(f, s.whole) \o taken.response
    /\ AcksFor(f, t.whole) = AcksFor(f, s.whole) \o taken.ack

\* A turn that reads a message in the first c messages ends within them, and
\* with what all the messages it completes say.
LEMMA TurnWithin ==
    ASSUME NEW f \in Formats, NEW s \in Starts(f), NEW c \in 0..Count(f),
           s.at <= Len(Stream(f, c)),
           consume(f, Behind(Stream(f, c), s.at)).kind = "message"
    PROVE  LET rest == Behind(Stream(f, c), s.at)
               taken == consume(f, rest)
           IN  \E t : /\ Turns(f, s, t, taken) /\ t.whole <= c
                      /\ t.at <= Len(Stream(f, c))
                      /\ taken.size \in 0..Len(rest)
                      /\ Behind(Stream(f, c), t.at) = Behind(rest, taken.size)
<1> DEFINE N == Count(f)
           due == Stream(f, c)
           all == Stream(f, N)
           rest == Behind(due, s.at)
           taken == consume(f, rest)
<1>1. /\ N \in Nat /\ N \in 0..N /\ c \in 0..N /\ s.at \in Nat /\ s.at <= Len(due)
  BY MessageFacts DEF Starts, Count
<1>2. due \in Seq(Elements(f)) /\ all \in Seq(Elements(f)) /\ Begins(due, all)
  BY <1>1, StreamFacts
<1> HIDE DEF N, due, all
<1>3. /\ rest \in Seq(Elements(f)) /\ Behind(all, s.at) \in Seq(Elements(f))
      /\ Begins(rest, Behind(all, s.at))
  BY <1>1, <1>2, CutTheSame DEF Behind
<1>4. taken.kind = "message"
  BY DEF due
<1>5. Taken(taken, rest)
  BY <1>3, <1>4, ConsumeTakes
<1>6. consume(f, Behind(all, s.at)) = taken
  <2>1. taken # Waits
    BY <1>4, OtherKinds
  <2> HIDE DEF taken, rest
  <2> QED
    BY <1>3, <2>1, ConsumeBeginning DEF taken
<1>7. \E t \in Starts(f) : Turns(f, s, t, taken)
  <2>1. ReadsWhole(f, s)
    BY StreamCodec
  <2> HIDE DEF taken
  <2> QED
    BY <1>4, <1>6, <2>1, Zenon DEF ReadsWhole, Turns, all, N, Count
<1>8. PICK t \in Starts(f) : Turns(f, s, t, taken)
  BY <1>7
<1>9. taken.size \in 0..Len(rest) /\ Len(rest) = Len(due) - s.at /\ Len(due) \in Nat
  <2>1. Len(rest) = Len(due) - s.at /\ Len(due) \in Nat
    BY <1>1, <1>2, CutTyped, LenProperties DEF Behind
  <2> HIDE DEF taken, rest
  <2> QED
    BY <1>5, <2>1 DEF Taken
<1> HIDE DEF taken, rest
<1>10. t.at = s.at + taken.size /\ t.at <= Len(due) /\ s.at + taken.size <= Len(due)
       /\ taken.size \in Nat
  BY <1>1, <1>8, <1>9 DEF Turns
<1>11. t.whole <= c
  <2>1. t.whole \in 0..c
    BY <1>10, WholeIsWithin DEF due
  <2> QED
    BY <2>1
<1>12. Behind(due, t.at) = Behind(rest, taken.size)
  <2> DEFINE n == s.at
             m == taken.size
  <2>1. n \in Nat /\ m \in Nat /\ n + m <= Len(due) /\ t.at = n + m
    BY <1>1, <1>10
  <2>2. rest = Behind(due, n)
    BY DEF rest
  <2> HIDE DEF n, m
  <2>3. Behind(Behind(due, n), m) = Behind(due, n + m)
    BY <1>2, <2>1, CutTwice, Zenon DEF Behind
  <2> QED
    BY <2>1, <2>2, <2>3, Zenon DEF m
<1> QED
  BY <1>8, <1>9, <1>10, <1>11, <1>12, Zenon DEF due, rest, taken

-----------------------------------------------------------------------------
(* The acknowledgements and the messages they are for.                       *)

\* The numbers among the first c messages that get one.
NumbersTo(f, c) ==
    FlattenSeq([i \in 1..c |-> IF Reported(f, i).ack # <<>> THEN <<i>> ELSE <<>>])

\* The acknowledgements and the numbers go together.
Paired(f, c) ==
    /\ Len(NumbersTo(f, c)) = Len(AcksFor(f, c))
    /\ \A n \in 1..Len(AcksFor(f, c)) :
         /\ NumbersTo(f, c)[n] \in 1..c
         /\ Reported(f, NumbersTo(f, c)[n]).ack = <<AcksFor(f, c)[n]>>

\* The numbers grow with the messages.
LEMMA NumbersGrow ==
    ASSUME NEW f \in Formats
    PROVE  /\ \A n \in 0..Count(f) : IsSequence(NumbersTo(f, n))
           /\ \A n \in 0..Count(f) : \A m \in 0..n : Begins(NumbersTo(f, m), NumbersTo(f, n))
           /\ \A n \in Nat : n < Count(f) =>
                NumbersTo(f, n + 1) = NumbersTo(f, n) \o
                  (IF Reported(f, n + 1).ack # <<>> THEN <<n + 1>> ELSE <<>>)
           /\ NumbersTo(f, 0) = <<>>
<1> DEFINE N == Count(f)
           Of(i) == IF Reported(f, i).ack # <<>> THEN <<i>> ELSE <<>>
           h == [i \in 1..N |-> Of(i)]
<1>1. N \in Nat /\ \A i \in 1..N : IsSequence(Of(i))
  BY MessageFacts, OneElement, EmptyIsSequence
<1>2. \A i \in 1..N : h[i] = Of(i)
  OBVIOUS
<1>3. ASSUME NEW n \in 0..N PROVE NumbersTo(f, n) = Joined(h, n)
  <2>1. \A i \in 1..n : i \in 1..N
    BY <1>1
  <2>2. [i \in 1..n |-> h[i]] = [i \in 1..n |-> Of(i)]
    BY <2>1
  <2> QED
    BY <2>2 DEF NumbersTo, Joined
<1> HIDE DEF h, N
<1>4. /\ \A n \in 0..N : IsSequence(Joined(h, n))
      /\ \A n \in 0..N : \A m \in 0..n : Begins(Joined(h, m), Joined(h, n))
      /\ \A n \in Nat : n < N => Joined(h, n + 1) = Joined(h, n) \o h[n + 1]
      /\ Joined(h, 0) = <<>>
  BY <1>1, <1>2, JoinedGrows
<1>5. /\ 0 \in 0..N /\ \A n \in 0..N : \A m \in 0..n : m \in 0..N
      /\ \A n \in Nat : n < N => n \in 0..N /\ n + 1 \in 0..N /\ n + 1 \in 1..N
  BY <1>1
<1>6. /\ \A n \in 0..N : IsSequence(NumbersTo(f, n))
      /\ \A n \in 0..N : \A m \in 0..n : Begins(NumbersTo(f, m), NumbersTo(f, n))
      /\ \A n \in Nat : n < N => NumbersTo(f, n + 1) = NumbersTo(f, n) \o Of(n + 1)
      /\ NumbersTo(f, 0) = <<>>
  <2> HIDE DEF Of
  <2> QED
    BY <1>2, <1>3, <1>4, <1>5, Zenon
<1> QED
  BY <1>6 DEF N

\* A sequence of at most one.
LEMMA AtMostOne ==
    ASSUME NEW s, IsSequence(s), Len(s) <= 1, s # <<>>
    PROVE  s = <<s[1]>>
<1>1. PICK S : s \in Seq(S)
  BY SequenceOver
<1>2. Len(s) = 1 /\ s[1] \in S
  <2>1. Len(s) \in Nat /\ Len(s) # 0
    BY <1>1, LenProperties, EmptySeq
  <2>2. Len(s) = 1 /\ 1 \in 1..Len(s)
    BY <2>1, \A n \in Nat : n <= 1 /\ n # 0 => n = 1 /\ 1 \in 1..n
  <2> QED
    BY <1>1, <2>2, ElementOfSeq
<1>3. <<s[1]>> \in Seq(S) /\ Len(<<s[1]>>) = 1 /\ <<s[1]>>[1] = s[1]
  BY <1>2
<1> QED
  BY <1>1, <1>2, <1>3, SeqEqual

\* They do go together.
LEMMA PairedAll ==
    ASSUME NEW f \in Formats
    PROVE  \A c \in 0..Count(f) : Paired(f, c)
<1> DEFINE T == {c \in Nat : c <= Count(f) => Paired(f, c)}
<1>1. 0 \in T
  <2>1. NumbersTo(f, 0) = <<>> /\ AcksFor(f, 0) = <<>> /\ Len(<<>>) = 0
    BY NumbersGrow, AcksForGrow
  <2> QED
    BY <2>1 DEF Paired
<1>2. ASSUME NEW c \in Nat, c \in T PROVE c + 1 \in T
  <2> SUFFICES ASSUME c + 1 <= Count(f) PROVE Paired(f, c + 1)
    OBVIOUS
  <2> DEFINE m == NumbersTo(f, c)
             a == AcksFor(f, c)
             x == Reported(f, c + 1).ack
             k == IF x # <<>> THEN <<c + 1>> ELSE <<>>
  <2>1. Count(f) \in Nat /\ c < Count(f) /\ c <= Count(f) /\ c + 1 \in 1..Count(f)
        /\ c \in 0..Count(f)
    BY MessageFacts
  <2>2. /\ IsSequence(m) /\ IsSequence(a) /\ NumbersTo(f, c + 1) = m \o k
        /\ AcksFor(f, c + 1) = a \o x
    BY <2>1, NumbersGrow, AcksForGrow
  <2>3. IsSequence(x) /\ Len(x) <= 1
    <3>1. IsSequence(x) /\ Len(x) <= (IF f = "obd" THEN 0 ELSE 1)
      BY <2>1, MessageFacts
    <3>2. Len(x) \in Nat
      BY <3>1, LengthType
    <3> QED
      BY <3>1, <3>2
  <2>4. /\ Len(m) = Len(a) /\ Len(a) \in Nat
        /\ \A n \in 1..Len(a) : m[n] \in 1..c /\ Reported(f, m[n]).ack = <<a[n]>>
    BY <1>2, <2>1, <2>2, LengthType DEF Paired
  <2>5. CASE x = <<>>
    <3>1. m \o k = m /\ a \o x = a
      BY <2>2, <2>5, NothingMore
    <3>2. \A i \in 1..c : i \in 1..c + 1
      OBVIOUS
    <3> HIDE DEF m, a, x, k
    <3> QED
      BY <2>2, <2>4, <3>1, <3>2, Zenon DEF Paired
  <2>6. CASE x # <<>>
    <3>1. x = <<x[1]>> /\ k = <<c + 1>>
      <4> HIDE DEF x
      <4> QED
        BY <2>3, <2>6, AtMostOne
    <3>2. /\ Joins(m \o k, m, k) /\ Joins(a \o x, a, x) /\ Len(k) = 1 /\ Len(x) = 1 /\ k[1] = c + 1
      <4>1. IsSequence(<<c + 1>>) /\ Len(<<c + 1>>) = 1 /\ <<c + 1>>[1] = c + 1
        BY OneElement
      <4>2. Len(<<x[1]>>) = 1
        OBVIOUS
      <4>3. IsSequence(k) /\ Len(k) = 1 /\ Len(x) = 1 /\ k[1] = c + 1
        <5> HIDE DEF x, k
        <5> QED
          BY <3>1, <4>1, <4>2, Zenon
      <4> HIDE DEF m, a, x, k
      <4> QED
        BY <2>2, <2>3, <4>3, ConcatSequences
    <3> HIDE DEF m, a, k
    <3> DEFINE y == x
    <3>3. y = Reported(f, c + 1).ack
      OBVIOUS
    <3> HIDE DEF x, y
    <3>4. /\ Len(m \o k) = Len(a) + 1 /\ Len(a \o x) = Len(a) + 1
          /\ (m \o k)[Len(a) + 1] = c + 1 /\ (a \o x)[Len(a) + 1] = x[1]
          /\ \A n \in 1..Len(a) : (m \o k)[n] = m[n] /\ (a \o x)[n] = a[n]
      BY <2>4, <3>2 DEF Joins
    <3>5. ASSUME NEW n \in 1..Len(a) + 1
          PROVE  (m \o k)[n] \in 1..c + 1 /\ Reported(f, (m \o k)[n]).ack = <<(a \o x)[n]>>
      <4>1. CASE n = Len(a) + 1
        <5>1. c + 1 \in 1..c + 1
          OBVIOUS
        <5> QED
          BY <3>1, <3>3, <3>4, <4>1, <5>1, Zenon DEF y
      <4>2. CASE n # Len(a) + 1
        <5>1. n \in 1..Len(a) /\ \A i \in 1..c : i \in 1..c + 1
          BY <2>4, <4>2
        <5> QED
          BY <2>4, <3>4, <5>1, Zenon
      <4> QED
        BY <4>1, <4>2
    <3> QED
      BY <2>2, <3>4, <3>5, Zenon DEF Paired
  <2> QED
    BY <2>5, <2>6
<1>3. Nat \subseteq T
  <2> HIDE DEF T
  <2> QED
    BY <1>1, <1>2, Induction
<1> QED
  BY <1>3, MessageFacts

\* The n-th acknowledgement of the first a messages is that of the n-th of all
\* those that get one.
LEMMA PairedWith ==
    ASSUME NEW f \in Formats, NEW c \in 0..Count(f), NEW a \in 0..c,
           NEW n \in 1..Len(AcksFor(f, a))
    PROVE  /\ NumbersTo(f, c)[n] \in 1..a
           /\ Reported(f, NumbersTo(f, c)[n]).ack = <<AcksFor(f, a)[n]>>
<1>1. a \in 0..Count(f) /\ Count(f) \in Nat
  BY MessageFacts
<1>2. Paired(f, a) /\ Begins(NumbersTo(f, a), NumbersTo(f, c))
  BY <1>1, PairedAll, NumbersGrow
<1>3. NumbersTo(f, c)[n] = NumbersTo(f, a)[n]
  BY <1>2 DEF Paired, Begins
<1> QED
  BY <1>2, <1>3 DEF Paired

-----------------------------------------------------------------------------
(* The inductive invariant.                                                  *)

\* What the variables hold.
MessageOk ==
    /\ IsSequence(message.status) /\ IsSequence(message.response)
    /\ message.ack = <<>> \/ \E frame : message.ack = <<frame>> /\ IsAck(frame)

TypeOk ==
    /\ format \in Formats /\ place \in {"read", "queue", "ack", "ended"}
    /\ wire \in Seq(Elements(format))
    /\ sent \in 0..Count(format) /\ clean \in 0..sent
    /\ IsSequence(queue) /\ IsSequence(responses) /\ IsSequence(written)
    /\ MessageOk

\* The queue has what the messages should put into it, but what may be dropped.
Kept(inQueue, due) == IF MayDrop THEN IsSubsequence(inQueue, due) ELSE inQueue = due

\* What is not read of the undamaged messages is what has arrived, with more
\* behind it once one is damaged, or a part of it once the connection is broken.
UnreadOf(rest, stream, isOpen, isUndamaged) ==
    /\ Begins(stream, rest) \/ Begins(rest, stream)
    /\ isOpen => Begins(rest, stream)
    /\ isUndamaged => Begins(stream, rest)

\* The message in hand completes what is due at s, of which q messages are in the
\* queues and a acknowledged.
InHand(s, q, a) ==
    /\ place = "read" => q = s.whole /\ a = s.whole
    /\ place = "queue" =>
         /\ q = a
         /\ Statuses(format, s.whole) = Statuses(format, q) \o message.status
         /\ Responses(format, s.whole) = Responses(format, q) \o message.response
         /\ AcksFor(format, s.whole) = AcksFor(format, a) \o message.ack
    /\ place = "ack" =>
         /\ q = s.whole
         /\ AcksFor(format, s.whole) = AcksFor(format, a) \o message.ack

\* ConsumeStream has read the stream up to s, which is within the messages before
\* the first damaged one.
Within(s, q, a) ==
    /\ s \in Starts(format) /\ s.whole \in 0..clean /\ q \in 0..s.whole /\ a \in 0..q
    /\ s.at <= Len(Stream(format, clean))
    /\ Kept(queue, Statuses(format, q)) /\ responses = Responses(format, q)
    /\ Acks = AcksFor(format, a)
    /\ UnreadOf(Behind(Stream(format, clean), s.at), wire, open, Undamaged)
    /\ InHand(s, q, a)

\* What is due of them is in the queues, and acknowledged, before anything else.
QueueBeyond ==
    IF MayDrop
    THEN \E k \in 0..Len(queue) :
            IsSubsequence(SubSeq(queue, 1, k), Statuses(format, clean))
    ELSE Begins(Statuses(format, clean), queue)

\* It has read beyond them.
Beyond ==
    /\ ~Undamaged /\ QueueBeyond
    /\ Begins(Responses(format, clean), responses)
    /\ Begins(AcksFor(format, clean), Acks)

SomeWithin == \E s, q, a : Within(s, q, a)

IInv == TypeOk /\ (SomeWithin \/ Beyond)

\* What is due, within the messages there are.
LEMMA DuesAreSequences ==
    ASSUME NEW f \in Formats, NEW c \in 0..Count(f), NEW n \in 0..c
    PROVE  /\ IsSequence(Statuses(f, n)) /\ IsSequence(Responses(f, n)) /\ IsSequence(AcksFor(f, n))
           /\ Begins(Statuses(f, n), Statuses(f, c))
           /\ Begins(Responses(f, n), Responses(f, c))
           /\ Begins(AcksFor(f, n), AcksFor(f, c))
<1>1. n \in 0..Count(f)
  BY MessageFacts
<1> QED
  BY <1>1, StatusesGrow, ResponsesGrow, AcksForGrow

\* At the start nothing is read, and nothing due.
LEMMA InitInv == Init => IInv
<1> SUFFICES ASSUME Init PROVE IInv
  OBVIOUS
<1>1. /\ format \in Formats /\ place = "read" /\ wire = <<>> /\ open = TRUE
      /\ queue = <<>> /\ responses = <<>> /\ written = <<>> /\ sent = 0 /\ clean = 0
      /\ message = Message(0, <<>>, <<>>, <<>>)
  BY Zenon DEF Init
<1>2. Count(format) \in Nat /\ 0 \in 0..Count(format) /\ 0 \in 0..0
  BY <1>1, MessageFacts
<1>3. /\ Stream(format, 0) = <<>> /\ Statuses(format, 0) = <<>>
      /\ Responses(format, 0) = <<>> /\ AcksFor(format, 0) = <<>>
  BY <1>1, StreamFacts, StatusesGrow, ResponsesGrow, AcksForGrow
<1>4. TypeOk
  <2>1. message.status = <<>> /\ message.response = <<>> /\ message.ack = <<>>
    BY <1>1 DEF Message
  <2>2. MessageOk
    BY <2>1, EmptyIsSequence, Zenon DEF MessageOk
  <2>3. wire \in Seq(Elements(format))
    BY <1>1
  <2> QED
    BY <1>1, <1>2, <2>2, <2>3, EmptyIsSequence DEF TypeOk
<1> DEFINE s == [at |-> 0, whole |-> 0]
<1>5. s \in Starts(format)
  <2>1. Len(Stream(format, Count(format))) \in Nat /\ Len(<<>>) = 0
    <3>1. Count(format) \in 0..Count(format)
      BY <1>2
    <3> QED
      BY <1>1, <3>1, StreamFacts, LenProperties
  <2>2. 0 \in 0..Len(Stream(format, Count(format)))
    BY <2>1
  <2>3. 0 < Count(format) => 0 < Len(Stream(format, 0 + 1))
    BY <1>1, <1>2, <1>3, <2>1, StreamFacts
  <2> QED
    BY <1>2, <1>3, <2>1, <2>2, <2>3 DEF Starts, Count
<1>6. Within(s, 0, 0)
  <2>1. Acks = <<>>
    <3>1. [i \in DOMAIN written |-> AckIn(written[i])] = <<>>
      BY <1>1
    <3>2. AcksIn(written) = <<>>
      BY <3>1, FlattenEmpty DEF AcksIn
    <3> QED
      BY <3>2, AcksAreIn
  <2>2. Kept(queue, Statuses(format, 0))
    BY <1>1, <1>3, NoneIsSubsequence, Zenon DEF Kept
  <2>3. InHand(s, 0, 0)
    BY <1>1 DEF InHand
  <2>4. UnreadOf(Behind(Stream(format, clean), s.at), wire, open, Undamaged)
    <3>1. Behind(Stream(format, clean), s.at) = <<>>
      BY <1>1, <1>3 DEF Behind
    <3>2. Begins(<<>>, <<>>)
      BY DEF Begins
    <3> QED
      BY <1>1, <3>1, <3>2, Zenon DEF UnreadOf
  <2>5. s.whole = 0 /\ s.at = 0 /\ 0 <= Len(Stream(format, clean))
    BY <1>1, <1>3
  <2> HIDE DEF s
  <2> QED
    BY <1>1, <1>2, <1>3, <1>5, <2>1, <2>2, <2>3, <2>4, <2>5 DEF Within
<1> HIDE DEF s
<1> QED
  BY <1>4, <1>6, Zenon DEF IInv, SomeWithin

-----------------------------------------------------------------------------
(* The receiver's steps.                                                     *)

\* A turn that reads a message,
LEMMA TakeInv == ASSUME IInv, TakeMessage PROVE IInv'
<1> DEFINE f == format
           c == clean
           taken == consume(f, wire)
           due == Stream(f, c)
<1>0. TypeOk /\ f \in Formats /\ wire \in Seq(Elements(f)) /\ c \in 0..Count(f) /\ Count(f) \in Nat
  <2>1. TypeOk
    BY DEF IInv
  <2>2. f \in Formats /\ wire \in Seq(Elements(f)) /\ sent \in 0..Count(f) /\ c \in 0..sent
    BY <2>1 DEF TypeOk
  <2>3. Count(f) \in Nat
    BY <2>2, MessageFacts
  <2> QED
    BY <2>1, <2>2, <2>3
<1>1. /\ taken.kind = "message" /\ place = "read" /\ place' = "queue" /\ message' = taken
      /\ wire' = Behind(wire, taken.size) /\ format' = f /\ open' = open /\ queue' = queue
      /\ responses' = responses /\ written' = written /\ sent' = sent /\ clean' = c
  BY Zenon DEF TakeMessage, Goes
<1>2. Taken(taken, wire)
  BY <1>0, <1>1, ConsumeTakes
<1>3. taken.size \in Nat /\ taken.size <= Len(wire) /\ Len(wire) \in Nat
  BY <1>0, <1>2, LenProperties DEF Taken
<1>4. TypeOk'
  <2>1. MessageOk'
    BY <1>1, <1>2, Zenon DEF Taken, MessageOk
  <2>2. wire' \in Seq(Elements(f))
    BY <1>0, <1>1, <1>3, CutTyped DEF Behind
  <2> QED
    BY <1>0, <1>1, <2>1, <2>2 DEF TypeOk
<1>5. Acks' = Acks /\ (Undamaged' <=> Undamaged) /\ (MayDrop' <=> MayDrop)
  BY <1>1, AcksAreIn, Zenon DEF Undamaged, MayDrop
<1>6. ASSUME Beyond PROVE Beyond'
  BY <1>1, <1>5, <1>6, Zenon DEF Beyond, QueueBeyond
<1>7. ASSUME NEW s, NEW q, NEW a, Within(s, q, a) PROVE (SomeWithin \/ Beyond)'
  <2> DEFINE rest == Behind(due, s.at)
  <2>1. /\ s \in Starts(f) /\ s.whole \in 0..c /\ q = s.whole /\ a = s.whole
        /\ s.at <= Len(due) /\ s.at \in Nat
        /\ Kept(queue, Statuses(f, q)) /\ responses = Responses(f, q)
        /\ Acks = AcksFor(f, a) /\ UnreadOf(rest, wire, open, Undamaged)
    BY <1>1, <1>7 DEF Within, InHand, Starts
  <2>2. rest \in Seq(Elements(f))
    BY <1>0, <2>1, StreamFacts, CutTyped DEF Behind
  <2> HIDE DEF rest
  <2>3. CASE consume(f, rest) = taken
    <3>1. PICK t : /\ Turns(f, s, t, taken) /\ t.whole <= c /\ t.at <= Len(due)
                   /\ taken.size \in 0..Len(rest)
                   /\ Behind(due, t.at) = Behind(rest, taken.size)
      <4>1. consume(f, rest).kind = "message"
        BY <1>1, <2>3, Zenon
      <4> HIDE DEF f, c, taken
      <4> QED
        BY <1>0, <2>1, <2>3, <4>1, TurnWithin, Zenon DEF rest, due
    <3>2. t \in Starts(f) /\ t.whole \in 0..c /\ q \in 0..t.whole /\ a \in 0..q
      BY <1>0, <2>1, <3>1 DEF Turns, Starts
    <3>3. UnreadOf(Behind(due, t.at), wire', open', Undamaged')
      <4>1. /\ Begins(rest, wire) => Begins(Behind(rest, taken.size), Behind(wire, taken.size))
            /\ Begins(wire, rest) => Begins(Behind(wire, taken.size), Behind(rest, taken.size))
        <5> DEFINE n == taken.size
        <5>1. n \in Nat /\ n <= Len(rest) /\ n <= Len(wire)
          BY <1>3, <2>2, <3>1, LenProperties
        <5> HIDE DEF n
        <5>2. /\ Begins(rest, wire) => Begins(Behind(rest, n), Behind(wire, n))
              /\ Begins(wire, rest) => Begins(Behind(wire, n), Behind(rest, n))
          BY <1>0, <2>2, <5>1, CutTheSame DEF Behind
        <5> QED
          BY <5>2 DEF n
      <4> QED
        BY <1>1, <1>5, <2>1, <3>1, <4>1, Zenon DEF UnreadOf
    <3>4. InHand(t, q, a)'
      BY <1>1, <2>1, <3>1, Zenon DEF InHand, Turns
    <3>5. Within(t, q, a)'
      <4>1. Kept(queue, Statuses(f, q))'
        BY <1>1, <1>5, <2>1, Zenon DEF Kept
      <4> QED
        BY <1>1, <1>5, <2>1, <3>1, <3>2, <3>3, <3>4, <4>1, Zenon DEF Within
    <3> QED
      BY <3>5, Zenon DEF SomeWithin
  <2>4. CASE consume(f, rest) # taken
    <3>1. ~Begins(wire, rest)
      <4>1. taken # Waits
        BY <1>1, OtherKinds
      <4> QED
        BY <1>0, <2>2, <2>4, <4>1, ConsumeBeginning
    <3>2. Begins(rest, wire) /\ ~Undamaged
      BY <2>1, <3>1 DEF UnreadOf
    <3>3. consume(f, rest) = Waits
      BY <1>0, <2>2, <2>4, <3>2, ConsumeBeginning
    <3>4. WaitsForNothing(f, s)
      BY <1>0, <2>1, StreamCodec
    <3>5. c \in s.whole..Count(f)
      BY <1>0, <2>1
    <3>6. /\ Statuses(f, c) = Statuses(f, q) /\ Responses(f, c) = Responses(f, q)
          /\ AcksFor(f, c) = AcksFor(f, a)
      BY <2>1, <3>3, <3>4, <3>5, Zenon DEF WaitsForNothing, Count, rest
    <3>7. QueueBeyond /\ Begins(Responses(f, c), responses) /\ Begins(AcksFor(f, c), Acks)
      <4>1. /\ IsSequence(queue) /\ IsSequence(Responses(f, c)) /\ IsSequence(AcksFor(f, c))
            /\ IsSequence(Statuses(f, c)) /\ c \in 0..c
        BY <1>0, DuesAreSequences DEF TypeOk
      <4>2. /\ Begins(Responses(f, c), responses) /\ Begins(AcksFor(f, c), Acks)
            /\ Begins(Statuses(f, c), Statuses(f, c))
        BY <2>1, <3>6, <4>1, BeginsThrough
      <4>3. SubSeq(queue, 1, Len(queue)) = queue /\ Len(queue) \in 0..Len(queue)
        BY <4>1, WholeSequence, LengthType
      <4>4. QueueBeyond
        BY <2>1, <3>6, <4>2, <4>3, Zenon DEF QueueBeyond, Kept
      <4> QED
        BY <4>2, <4>4
    <3> QED
      BY <1>1, <1>5, <3>2, <3>7, Zenon DEF Beyond, QueueBeyond
  <2> QED
    BY <2>3, <2>4
<1> QED
  BY <1>4, <1>6, <1>7, Zenon DEF IInv, SomeWithin

\* what it puts into the queues,
LEMMA QueueInv == ASSUME IInv, QueueMessage PROVE IInv'
<1> DEFINE f == format
           c == clean
<1>0. /\ TypeOk /\ f \in Formats /\ c \in 0..Count(f) /\ Count(f) \in Nat
      /\ IsSequence(queue) /\ IsSequence(responses)
      /\ IsSequence(message.status) /\ IsSequence(message.response)
  <2>1. TypeOk
    BY DEF IInv
  <2>2. f \in Formats /\ sent \in 0..Count(f) /\ c \in 0..sent
    BY <2>1 DEF TypeOk
  <2>3. Count(f) \in Nat
    BY <2>2, MessageFacts
  <2> QED
    BY <2>1, <2>2, <2>3 DEF TypeOk, MessageOk
<1>1. /\ place = "queue" /\ place' = "ack" /\ responses' = responses \o message.response
      /\ queue' = queue \o message.status \/ (MayDrop /\ queue' = queue)
      /\ wire' = wire /\ format' = f /\ open' = open /\ message' = message
      /\ written' = written /\ sent' = sent /\ clean' = c
  BY Zenon DEF QueueMessage, Goes
<1>2. /\ IsSequence(queue \o message.status) /\ IsSequence(responses \o message.response)
      /\ Begins(responses, responses \o message.response)
      /\ Begins(queue, queue \o message.status)
  BY <1>0, BeginsMore
<1>3. Acks' = Acks /\ (Undamaged' <=> Undamaged) /\ (MayDrop' <=> MayDrop)
  BY <1>1, AcksAreIn, Zenon DEF Undamaged, MayDrop
<1>4. TypeOk'
  <2>1. IsSequence(queue') /\ IsSequence(responses')
    BY <1>0, <1>1, <1>2, Zenon
  <2>2. MessageOk'
    BY <1>0, <1>1, Zenon DEF TypeOk, MessageOk
  <2> QED
    BY <1>0, <1>1, <2>1, <2>2, Zenon DEF TypeOk
<1>5. ASSUME Beyond PROVE Beyond'
  <2>1. /\ IsSequence(Statuses(f, c)) /\ IsSequence(Responses(f, c))
    <3>1. c \in 0..c
      BY <1>0
    <3> QED
      BY <1>0, <3>1, DuesAreSequences
  <2>2. Begins(Responses(f, c), responses')
    BY <1>0, <1>1, <1>5, <2>1, BeginsMore DEF Beyond
  <2>3. CASE ~MayDrop
    <3>1. Begins(Statuses(f, c), queue')
      BY <1>0, <1>1, <1>5, <2>1, <2>3, BeginsMore DEF Beyond, QueueBeyond
    <3> QED
      BY <1>1, <1>3, <1>5, <2>2, <2>3, <3>1, Zenon DEF Beyond, QueueBeyond
  <2>4. CASE MayDrop
    <3>1. PICK k \in 0..Len(queue) : IsSubsequence(SubSeq(queue, 1, k), Statuses(f, c))
      BY <1>5, <2>4, Zenon DEF Beyond, QueueBeyond
    <3>2. SubSeq(queue', 1, k) = SubSeq(queue, 1, k) /\ k \in 0..Len(queue')
      <4>1. /\ SubSeq(queue \o message.status, 1, k) = SubSeq(queue, 1, k)
            /\ k \in 0..Len(queue \o message.status)
        BY <1>0, FrontOfLonger
      <4> QED
        BY <1>1, <4>1, Zenon
    <3>3. \E n \in 0..Len(queue') : IsSubsequence(SubSeq(queue', 1, n), Statuses(f, c))
      BY <3>1, <3>2, Zenon
    <3> QED
      BY <1>1, <1>3, <1>5, <2>2, <2>4, <3>3, Zenon DEF Beyond, QueueBeyond
  <2> QED
    BY <2>3, <2>4
<1>6. ASSUME NEW s, NEW q, NEW a, Within(s, q, a) PROVE Within(s, s.whole, a)'
  <2> DEFINE n == s.whole
  <2>1. /\ s \in Starts(f) /\ n \in 0..c /\ q \in 0..n /\ a \in 0..q /\ q = a
        /\ s.at <= Len(Stream(f, c))
        /\ Kept(queue, Statuses(f, q)) /\ responses = Responses(f, q)
        /\ Acks = AcksFor(f, a) /\ UnreadOf(Behind(Stream(f, c), s.at), wire, open, Undamaged)
        /\ Statuses(f, n) = Statuses(f, q) \o message.status
        /\ Responses(f, n) = Responses(f, q) \o message.response
        /\ AcksFor(f, n) = AcksFor(f, a) \o message.ack
    BY <1>1, <1>6, Zenon DEF Within, InHand
  <2>2. n \in 0..n /\ a \in 0..n /\ q \in 0..c
    BY <1>0, <2>1
  <2>3. responses' = Responses(f, n)
    BY <1>1, <2>1, Zenon
  <2>4. IsSequence(Statuses(f, q)) /\ IsSequence(Statuses(f, n))
        /\ Begins(Statuses(f, q), Statuses(f, n))
    <3>1. IsSequence(Statuses(f, q))
      BY <1>0, <2>2, DuesAreSequences
    <3> QED
      BY <1>0, <2>1, <3>1, BeginsMore
  <2>5. Kept(queue', Statuses(f, n))
    <3>1. CASE ~MayDrop
      BY <1>1, <2>1, <3>1, Zenon DEF Kept
    <3>2. CASE MayDrop
      <4>1. IsSubsequence(queue, Statuses(f, q))
        BY <2>1, <3>2, Zenon DEF Kept
      <4>2. IsSubsequence(queue \o message.status, Statuses(f, n))
        BY <1>0, <2>1, <2>4, <4>1, SubsequenceWithSame
      <4>3. IsSubsequence(queue, Statuses(f, n))
        BY <2>4, <4>1, SubsequenceOfLonger
      <4> QED
        BY <1>1, <3>2, <4>2, <4>3, Zenon DEF Kept
    <3> QED
      BY <3>1, <3>2
  <2>6. Kept(queue, Statuses(f, n))'
    BY <1>1, <1>3, <2>5, Zenon DEF Kept
  <2>7. InHand(s, n, a)'
    BY <1>1, <2>1, Zenon DEF InHand
  <2> HIDE DEF n
  <2>8. /\ s \in Starts(f)' /\ n \in 0..clean' /\ n \in 0..n /\ a \in 0..n
        /\ s.at <= Len(Stream(f, c)) /\ Acks' = AcksFor(f, a)
        /\ UnreadOf(Behind(Stream(f, c), s.at), wire', open', Undamaged')
    BY <1>1, <1>3, <2>1, <2>2, Zenon DEF UnreadOf
  <2> QED
    BY <1>1, <2>3, <2>6, <2>7, <2>8, Zenon DEF Within, n
<1> QED
  BY <1>4, <1>5, <1>6, Zenon DEF IInv, SomeWithin

\* Frames that are written are acknowledgements or not.
LEMMA WritesAck ==
    ASSUME NEW w, IsSequence(w), NEW ack, ack = <<>> \/ \E frame : ack = <<frame>> /\ IsAck(frame)
    PROVE  IsSequence(w \o ack) /\ IsSequence(ack) /\ AcksIn(w \o ack) = AcksIn(w) \o ack
<1>0. IsSequence(AcksIn(w))
  BY AcksOfMore
<1>1. CASE ack = <<>>
  <2>1. w \o <<>> = w /\ AcksIn(w) \o <<>> = AcksIn(w)
    BY <1>0, NothingMore
  <2> QED
    BY <1>1, <2>1, EmptyIsSequence, Zenon
<1>2. ASSUME NEW frame, ack = <<frame>>, IsAck(frame)
      PROVE  IsSequence(w \o ack) /\ IsSequence(ack) /\ AcksIn(w \o ack) = AcksIn(w) \o ack
  <2>1. w \o ack = Append(w, frame)
    BY <1>2, NothingMore
  <2>2. AckIn(frame) = ack
    BY <1>2, Zenon DEF AckIn
  <2>3. IsSequence(Append(w, frame)) /\ AcksIn(Append(w, frame)) = AcksIn(w) \o AckIn(frame)
    BY AppendToSequence, AcksOfMore
  <2>4. IsSequence(ack)
    BY <1>2, OneElement
  <2> QED
    BY <2>1, <2>2, <2>3, <2>4, Zenon
<1> QED
  BY <1>1, <1>2, Zenon

\* and its acknowledgement.
LEMMA WriteInv == ASSUME IInv, WriteAck PROVE IInv'
<1> DEFINE f == format
           c == clean
<1>0. /\ TypeOk /\ f \in Formats /\ c \in 0..Count(f) /\ Count(f) \in Nat
      /\ IsSequence(written) /\ MessageOk
  <2>1. TypeOk
    BY DEF IInv
  <2>2. f \in Formats /\ sent \in 0..Count(f) /\ c \in 0..sent
    BY <2>1 DEF TypeOk
  <2>3. Count(f) \in Nat
    BY <2>2, MessageFacts
  <2> QED
    BY <2>1, <2>2, <2>3 DEF TypeOk
<1>1. /\ place = "ack" /\ place' = "read" /\ written' = written \o message.ack
      /\ wire' = wire /\ format' = f /\ open' = open /\ message' = message
      /\ queue' = queue /\ responses' = responses /\ sent' = sent /\ clean' = c
  BY Zenon DEF WriteAck, Goes
<1>2. /\ IsSequence(written') /\ IsSequence(message.ack)
      /\ AcksIn(written') = AcksIn(written) \o message.ack
  <2>1. message.ack = <<>> \/ \E frame : message.ack = <<frame>> /\ IsAck(frame)
    BY <1>0, Zenon DEF MessageOk
  <2> QED
    BY <1>0, <1>1, <2>1, WritesAck
<1>3. Acks' = Acks \o message.ack /\ (Undamaged' <=> Undamaged) /\ (MayDrop' <=> MayDrop)
  BY <1>1, <1>2, AcksAreIn, Zenon DEF Undamaged, MayDrop
<1>4. TypeOk'
  <2>1. MessageOk'
    BY <1>0, <1>1, Zenon DEF MessageOk
  <2> QED
    BY <1>0, <1>1, <1>2, <2>1, Zenon DEF TypeOk
<1>5. ASSUME Beyond PROVE Beyond'
  <2>1. IsSequence(AcksFor(f, c))
    <3>1. c \in 0..c
      BY <1>0
    <3> QED
      BY <1>0, <3>1, DuesAreSequences
  <2>2. IsSequence(Acks)
    BY <1>0, AcksOfMore, AcksAreIn
  <2>3. Begins(AcksFor(f, c), Acks')
    BY <1>2, <1>3, <1>5, <2>1, <2>2, BeginsMore DEF Beyond
  <2> QED
    BY <1>1, <1>3, <1>5, <2>3, Zenon DEF Beyond, QueueBeyond
<1>6. ASSUME NEW s, NEW q, NEW a, Within(s, q, a) PROVE Within(s, q, q)'
  <2>1. /\ s \in Starts(f) /\ s.whole \in 0..c /\ q \in 0..s.whole /\ a \in 0..q /\ q = s.whole
        /\ s.at <= Len(Stream(f, c))
        /\ Kept(queue, Statuses(f, q)) /\ responses = Responses(f, q)
        /\ Acks = AcksFor(f, a) /\ UnreadOf(Behind(Stream(f, c), s.at), wire, open, Undamaged)
        /\ AcksFor(f, q) = AcksFor(f, a) \o message.ack
    BY <1>1, <1>6, Zenon DEF Within, InHand
  <2>2. q \in 0..q
    BY <1>0, <2>1
  <2>3. Acks' = AcksFor(f, q)
    BY <1>3, <2>1, Zenon
  <2>4. Kept(queue, Statuses(f, q))'
    BY <1>1, <1>3, <2>1, Zenon DEF Kept
  <2>5. InHand(s, q, q)'
    BY <1>1, <2>1, Zenon DEF InHand
  <2>6. UnreadOf(Behind(Stream(f, c), s.at), wire', open', Undamaged')
    BY <1>1, <1>3, <2>1, Zenon DEF UnreadOf
  <2> QED
    BY <1>1, <2>1, <2>2, <2>3, <2>4, <2>5, <2>6, Zenon DEF Within
<1> QED
  BY <1>4, <1>5, <1>6, Zenon DEF IInv, SomeWithin

\* What may be left to read of the first c messages.
Rests(f, c) ==
    {Behind(Stream(f, c), s.at) : s \in {t \in Starts(f) : t.at <= Len(Stream(f, c))}}

\* It is of what the stream is made of.
LEMMA RestsAreSequences ==
    ASSUME NEW f \in Formats, NEW c \in 0..Count(f), NEW rest \in Rests(f, c)
    PROVE  rest \in Seq(Elements(f))
<1>1. PICK s \in Starts(f) : s.at <= Len(Stream(f, c)) /\ rest = Behind(Stream(f, c), s.at)
  BY Zenon DEF Rests
<1>2. s.at \in Nat
  BY DEF Starts
<1>3. Stream(f, c) \in Seq(Elements(f))
  BY StreamFacts
<1> QED
  BY <1>1, <1>2, <1>3, CutTyped DEF Behind

\* The end of the stream, the command and the device leave the queues alone: a
\* step that does, and keeps what is unread, keeps the invariant.
LEMMA OtherInv ==
    ASSUME IInv, UNCHANGED <<format, queue, responses, message, clean>>,
           Acks' = Acks, IsSequence(written'), sent' \in sent..Count(format),
           wire' \in Seq(Elements(format)),
           place' = place \/ place' = "ended",
           Undamaged' => Undamaged,
           \A rest \in Rests(format, clean) : UnreadOf(rest, wire, open, Undamaged) =>
                                   UnreadOf(rest, wire', open', Undamaged')
    PROVE  IInv'
<1> DEFINE f == format
           c == clean
<1>1. TypeOk'
  <2>1. TypeOk
    BY DEF IInv
  <2>2. MessageOk'
    BY <2>1, Zenon DEF TypeOk, MessageOk
  <2>3. /\ f \in Formats /\ place' \in {"read", "queue", "ack", "ended"}
        /\ sent \in 0..Count(f) /\ c \in 0..sent
        /\ IsSequence(queue) /\ IsSequence(responses)
    BY <2>1 DEF TypeOk
  <2>4. Count(f) \in Nat
    BY <2>3, MessageFacts
  <2>5. sent' \in 0..Count(f) /\ c \in 0..sent'
    BY <2>3, <2>4
  <2> QED
    BY <2>2, <2>3, <2>5, Zenon DEF TypeOk
<1>2. ASSUME Beyond PROVE Beyond'
  BY <1>2, Zenon DEF Beyond, QueueBeyond, MayDrop
<1>3. ASSUME NEW s, NEW q, NEW a, Within(s, q, a) PROVE Within(s, q, a)'
  <2>1. /\ s \in Starts(f) /\ s.whole \in 0..c /\ q \in 0..s.whole /\ a \in 0..q
        /\ s.at <= Len(Stream(f, c))
        /\ Kept(queue, Statuses(f, q)) /\ responses = Responses(f, q)
        /\ Acks = AcksFor(f, a) /\ UnreadOf(Behind(Stream(f, c), s.at), wire, open, Undamaged)
        /\ InHand(s, q, a)
    BY <1>3, Zenon DEF Within
  <2>2. UnreadOf(Behind(Stream(f, c), s.at), wire', open', Undamaged')
    <3>1. Behind(Stream(f, c), s.at) \in Rests(f, c)
      BY <2>1, Zenon DEF Rests
    <3> QED
      BY <2>1, <3>1, Zenon
  <2>3. Kept(queue, Statuses(f, q))'
    BY <2>1, Zenon DEF Kept, MayDrop
  <2>4. InHand(s, q, a)'
    BY <2>1 DEF InHand
  <2> QED
    BY <2>1, <2>2, <2>3, <2>4, Zenon DEF Within
<1> QED
  BY <1>1, <1>2, <1>3, Zenon DEF IInv, SomeWithin

\* What the invariant says of the variables.
LEMMA Known ==
    ASSUME IInv
    PROVE  /\ format \in Formats /\ Count(format) \in Nat
           /\ sent \in 0..Count(format) /\ sent \in sent..Count(format) /\ clean \in 0..sent
           /\ clean \in 0..Count(format)
           /\ wire \in Seq(Elements(format)) /\ IsSequence(written)
           /\ Acks' = AcksIn(written')
<1>1. /\ format \in Formats /\ sent \in 0..Count(format) /\ clean \in 0..sent
      /\ wire \in Seq(Elements(format)) /\ IsSequence(written)
  BY DEF IInv, TypeOk
<1>2. Count(format) \in Nat
  BY <1>1, MessageFacts
<1> QED
  BY <1>1, <1>2, AcksAreIn

\* The end of the stream.
LEMMA EndInv == ASSUME IInv, StreamEnds PROVE IInv'
<1>1. /\ UNCHANGED <<format, queue, responses, message, clean>> /\ written' = written
      /\ sent' = sent /\ wire' = wire /\ open' = open /\ place' = "ended"
  BY Zenon DEF StreamEnds, Goes
<1>2. Acks' = Acks /\ (Undamaged' <=> Undamaged)
  BY <1>1, AcksAreIn, Zenon DEF Undamaged
<1>3. \A rest : UnreadOf(rest, wire, open, Undamaged) => UnreadOf(rest, wire', open', Undamaged')
  BY <1>1, <1>2, Zenon DEF UnreadOf
<1> QED
  BY <1>1, <1>2, <1>3, Known, OtherInv, Zenon

\* A step that changes nothing.
LEMMA SameInv == ASSUME IInv, UNCHANGED vars PROVE IInv'
<1>1. /\ UNCHANGED <<format, queue, responses, message, clean>> /\ written' = written
      /\ sent' = sent /\ wire' = wire /\ open' = open /\ place' = place
  BY Zenon DEF vars
<1>2. Acks' = Acks /\ (Undamaged' <=> Undamaged)
  BY <1>1, AcksAreIn, Zenon DEF Undamaged
<1>3. \A rest : UnreadOf(rest, wire, open, Undamaged) => UnreadOf(rest, wire', open', Undamaged')
  BY <1>1, <1>2, Zenon DEF UnreadOf
<1> QED
  BY <1>1, <1>2, <1>3, Known, OtherInv, Zenon

\* No command looks like an acknowledgement: in binary its type is another, its
\* text has no such byte, and four bytes behind it are none.
LEMMA CommandsAreNoAcks ==
    /\ \A transaction \in Transactions : ~IsAck(sendBinaryCommand(Command, transaction))
    /\ ~IsAck(sendASCIICommand(Command))
    /\ ~IsAck(Obdii2g!sendCommand(Command))
<1>0. /\ Command \in Seq(Byte) /\ Len(Command) \in Nat /\ IsSequence(Command)
      /\ \A i \in 1..Len(Command) : Command[i] # MsgTypeAck
  BY CommandAssumption, LenProperties, SequencesAreSequences
<1>1. ASSUME NEW transaction \in Transactions
      PROVE  ~IsAck(sendBinaryCommand(Command, transaction))
  <2> DEFINE head == <<MsgEncodingATCommand, MsgTypeRequest>>
             size == Put(Len(Command), 2)
             x == transaction \o head
             y == x \o size
             z == y \o Command
  <2>1. PICK a \in Byte, b \in Byte : transaction = <<a, b>>
    BY CommandAssumption
  <2>2. IsSequence(transaction) /\ Len(transaction) = 2
    BY <2>1, TupleOfTwo
  <2>3. IsSequence(head) /\ Len(head) = 2 /\ head[2] = MsgTypeRequest
    BY TupleOfTwo
  <2>4. IsSequence(size) /\ Len(size) = 2
    BY PutTwo
  <2> HIDE DEF head, size
  <2>5. Joins(x, transaction, head)
    BY <2>2, <2>3, ConcatSequences
  <2>6. IsSequence(x) /\ Len(x) = 4 /\ x[4] = MsgTypeRequest
    BY <2>2, <2>3, <2>5 DEF Joins
  <2> HIDE DEF x
  <2>7. Joins(y, x, size)
    BY <2>4, <2>6, ConcatSequences
  <2>8. IsSequence(y) /\ Len(y) = 6 /\ y[4] = MsgTypeRequest
    BY <2>4, <2>6, <2>7 DEF Joins
  <2> HIDE DEF y
  <2>9. Joins(z, y, Command)
    BY <1>0, <2>8, ConcatSequences
  <2>10. z[4] = MsgTypeRequest
    BY <2>8, <2>9 DEF Joins
  <2>11. z[4] # MsgTypeAck
    BY <2>10 DEF MsgTypeRequest, MsgTypeAck
  <2>12. sendBinaryCommand(Command, transaction) = z
    BY DEF sendBinaryCommand, x, y, head, size
  <2> HIDE DEF z
  <2> QED
    BY <2>11, <2>12, Zenon DEF IsAck
<1>2. ~IsAck(sendASCIICommand(Command))
  <2> DEFINE end == <<13, NewLine>>
             z == Command \o end
  <2>1. IsSequence(end) /\ Len(end) = 2
    BY TupleOfTwo
  <2> HIDE DEF end
  <2>2. Joins(z, Command, end)
    BY <1>0, <2>1, ConcatSequences
  <2>3. sendASCIICommand(Command) = z
    BY DEF sendASCIICommand, end
  <2> HIDE DEF z
  <2>4. ASSUME Len(z) = 6 PROVE z[4] # MsgTypeAck
    <3>1. Len(Command) = 4
      <4>1. Len(z) = Len(Command) + Len(end)
        BY <2>2, Zenon DEF Joins
      <4>2. Len(Command) \in Nat /\ Len(end) = 2 /\ 6 = Len(Command) + Len(end)
        BY <1>0, <2>1, <2>4, <4>1, Zenon
      <4> DEFINE n == Len(Command)
      <4>3. n \in Nat /\ 6 = n + 2
        BY <4>2, Zenon
      <4> HIDE DEF n
      <4>4. n = 4
        BY <4>3
      <4> QED
        BY <4>4 DEF n
    <3>2. z[4] = Command[4]
      BY <2>2, <3>1 DEF Joins
    <3> QED
      BY <1>0, <3>1, <3>2
  <2> QED
    BY <2>3, <2>4, Zenon DEF IsAck
<1>3. ~IsAck(Obdii2g!sendCommand(Command))
  <2> DEFINE head == <<35>>
             end == <<92, 114, 92, 110>>
             y == head \o Command
             z == y \o end
  <2>1. head \in Seq(Nat) /\ Len(head) = 1 /\ end \in Seq(Nat) /\ Len(end) = 4 /\ end[2] = 114
    OBVIOUS
  <2>2. IsSequence(head) /\ IsSequence(end)
    BY <2>1, SequencesAreSequences
  <2> HIDE DEF head, end
  <2>3. Joins(y, head, Command)
    BY <1>0, <2>2, ConcatSequences
  <2>4. IsSequence(y) /\ Len(y) = 1 + Len(Command)
    BY <2>1, <2>3 DEF Joins
  <2> HIDE DEF y
  <2>5. Joins(z, y, end)
    BY <2>2, <2>4, ConcatSequences
  <2>6. Obdii2g!sendCommand(Command) = z
    BY DEF Obdii2g!sendCommand, y, head, end
  <2> HIDE DEF z
  <2>7. ASSUME Len(z) = 6 PROVE z[4] # MsgTypeAck
    <3>1. Len(y) = 2
      <4>1. Len(z) = Len(y) + Len(end)
        BY <2>5, Zenon DEF Joins
      <4> DEFINE n == Len(Command)
      <4>2. n \in Nat /\ Len(y) = 1 + n /\ 6 = (1 + n) + 4
        BY <1>0, <2>1, <2>4, <2>7, <4>1, Zenon
      <4> HIDE DEF n
      <4>3. 1 + n = 2
        BY <4>2
      <4> QED
        BY <4>2, <4>3
    <3>2. z[4] = 114
      <4>1. 2 \in 1..Len(end) /\ Len(y) + 2 = 4
        BY <2>1, <3>1
      <4>2. z[Len(y) + 2] = end[2]
        BY <2>5, <4>1 DEF Joins
      <4> QED
        BY <2>1, <4>1, <4>2
    <3> QED
      BY <3>2 DEF MsgTypeAck
  <2> QED
    BY <2>6, <2>7, Zenon DEF IsAck
<1> QED
  BY <1>1, <1>2, <1>3

\* A command.
LEMMA CommandInv == ASSUME IInv, SendCommandToDevice PROVE IInv'
<1>1. /\ UNCHANGED <<format, queue, responses, message, clean>>
      /\ sent' = sent /\ wire' = wire /\ open' = open /\ place' = place
      /\ \/ \E transaction \in Transactions :
               written' = Append(written, sendBinaryCommand(Command, transaction))
         \/ written' = Append(written, sendASCIICommand(Command))
         \/ written' = Append(written, Obdii2g!sendCommand(Command))
  BY Zenon DEF SendCommandToDevice
<1>2. PICK frame : written' = Append(written, frame) /\ ~IsAck(frame)
  BY <1>1, CommandsAreNoAcks, Zenon
<1>3. IsSequence(written') /\ Acks' = Acks
  <2>1. /\ IsSequence(Append(written, frame)) /\ IsSequence(AcksIn(written))
        /\ AcksIn(Append(written, frame)) = AcksIn(written) \o AckIn(frame)
    BY Known, AppendToSequence, AcksOfMore
  <2>2. AckIn(frame) = <<>>
    BY <1>2, Zenon DEF AckIn
  <2>3. AcksIn(written) \o <<>> = AcksIn(written)
    BY <2>1, NothingMore
  <2> QED
    BY <1>2, <2>1, <2>2, <2>3, AcksAreIn, Zenon
<1>4. Undamaged' <=> Undamaged
  BY <1>1, Zenon DEF Undamaged
<1>5. \A rest : UnreadOf(rest, wire, open, Undamaged) => UnreadOf(rest, wire', open', Undamaged')
  BY <1>1, <1>4, Zenon DEF UnreadOf
<1> QED
  BY <1>1, <1>3, <1>4, <1>5, Known, OtherInv, Zenon

-----------------------------------------------------------------------------
(* The device's steps.                                                       *)

\* Elements from the front of those on a connection.
LEMMA FrontBegins ==
    ASSUME NEW S, NEW w \in Seq(S), NEW n \in Nat
    PROVE  LET x == SubSeq(w, 1, Len(w) - n)
           IN  x \in Seq(S) /\ Begins(x, w)
<1> DEFINE m == Len(w) - n
           x == SubSeq(w, 1, m)
<1>1. Len(w) \in Nat /\ m \in Int /\ m <= Len(w)
  BY LenProperties
<1> HIDE DEF m
<1>2. CASE m < 1
  <2>1. x = <<>>
    BY <1>1, <1>2, SubSeqEmpty
  <2> QED
    BY <1>1, <2>1 DEF Begins, m
<1>3. CASE 1 <= m
  <2>1. 0 \in Nat /\ m \in Nat /\ 0 + m <= Len(w)
    BY <1>1, <1>3
  <2>2. /\ Slice(w, 0, m) \in Seq(S) /\ Len(Slice(w, 0, m)) = m
        /\ \A i \in 1..m : Slice(w, 0, m)[i] = w[0 + i]
    BY <2>1, SliceProperties
  <2>3. Slice(w, 0, m) = x /\ \A i \in 1..m : 0 + i = i
    BY <2>1 DEF Slice
  <2> HIDE DEF x
  <2>4. x \in Seq(S) /\ Len(x) = m /\ \A i \in 1..m : x[i] = w[i]
    BY <2>2, <2>3
  <2>5. Begins(x, w)
    BY <1>1, <2>4 DEF Begins
  <2> QED
    BY <2>4, <2>5 DEF x, m
<1> QED
  BY <1>1, <1>2, <1>3

\* The connection breaks, and the last elements are lost.
LEMMA BreakInv == ASSUME IInv, Break PROVE IInv'
<1>1. /\ UNCHANGED <<format, queue, responses, message, clean>> /\ written' = written
      /\ sent' = sent /\ open' = FALSE /\ place' = place
  BY Zenon DEF Break
<1>2. PICK n \in Lost : wire' = SubSeq(wire, 1, Len(wire) - n)
  BY Zenon DEF Break
<1>3. wire \in Seq(Elements(format)) /\ wire' \in Seq(Elements(format)) /\ Begins(wire', wire)
  <2>1. n \in Nat
    BY <1>2, StreamAssumption
  <2> QED
    BY <1>2, <2>1, Known, FrontBegins
<1>4. Acks' = Acks /\ (Undamaged' <=> Undamaged)
  BY <1>1, AcksAreIn, Zenon DEF Undamaged
<1>5. ASSUME NEW rest \in Rests(format, clean), UnreadOf(rest, wire, open, Undamaged)
      PROVE  UnreadOf(rest, wire', open', Undamaged')
  <2>1. rest \in Seq(Elements(format))
    BY Known, RestsAreSequences
  <2>2. Begins(wire, rest) => Begins(wire', rest)
    BY <1>3, <2>1, BeginsAgain
  <2>3. Begins(rest, wire) => Begins(rest, wire') \/ Begins(wire', rest)
    <3>1. Len(rest) \in Nat /\ Len(wire') \in Nat
      BY <1>3, <2>1, LenProperties
    <3>2. Len(rest) <= Len(wire') \/ Len(wire') <= Len(rest)
      BY <3>1
    <3> QED
      BY <1>3, <2>1, <3>2, BeginsOther
  <2> QED
    BY <1>1, <1>4, <1>5, <2>2, <2>3, Zenon DEF UnreadOf
<1>6. IsSequence(written') /\ sent' \in sent..Count(format)
  BY <1>1, Known, Zenon
<1> QED
  BY <1>1, <1>3, <1>4, <1>5, <1>6, OtherInv, Zenon

\* More behind what is not read.
LEMMA BehindMore ==
    ASSUME NEW S, NEW w \in Seq(S), NEW x \in Seq(S), NEW n \in Nat, n <= Len(w)
    PROVE  SubSeq(w \o x, n + 1, Len(w \o x)) = SubSeq(w, n + 1, Len(w)) \o x
<1> DEFINE v == w \o x
           r == SubSeq(w, n + 1, Len(w))
           y == SubSeq(v, n + 1, Len(v))
           z == r \o x
<1>1. /\ Len(w) \in Nat /\ Len(x) \in Nat /\ v \in Seq(S) /\ Len(v) = Len(w) + Len(x)
      /\ \A i \in 1..Len(w) + Len(x) : v[i] = IF i <= Len(w) THEN w[i] ELSE x[i - Len(w)]
  BY LenProperties, ConcatProperties
<1>2. r \in Seq(S) /\ Len(r) = Len(w) - n /\ \A i \in 1..Len(w) - n : r[i] = w[n + i]
  BY CutTyped
<1> HIDE DEF v, r
<1>3. y \in Seq(S) /\ Len(y) = Len(v) - n /\ \A i \in 1..Len(v) - n : y[i] = v[n + i]
  <2>1. n <= Len(v)
    BY <1>1
  <2> QED
    BY <1>1, <2>1, CutTyped
<1>4. /\ z \in Seq(S) /\ Len(z) = Len(r) + Len(x)
      /\ \A i \in 1..Len(r) + Len(x) : z[i] = IF i <= Len(r) THEN r[i] ELSE x[i - Len(r)]
  BY <1>2, ConcatProperties
<1> HIDE DEF y, z
<1>5. Len(y) = Len(z) /\ Len(z) = (Len(w) - n) + Len(x)
  BY <1>1, <1>2, <1>3, <1>4
<1>6. ASSUME NEW i \in 1..Len(y) PROVE y[i] = z[i]
  <2>1. CASE i <= Len(w) - n
    <3>1. /\ i \in 1..Len(v) - n /\ n + i \in 1..Len(w) + Len(x) /\ n + i <= Len(w)
          /\ i \in 1..Len(r) + Len(x) /\ i <= Len(r) /\ i \in 1..Len(w) - n
      BY <1>1, <1>2, <1>5, <2>1
    <3>2. y[i] = v[n + i] /\ v[n + i] = w[n + i] /\ z[i] = r[i] /\ r[i] = w[n + i]
      BY <1>1, <1>2, <1>3, <1>4, <3>1
    <3> QED
      BY <3>2
  <2>2. CASE ~(i <= Len(w) - n)
    <3>1. /\ i \in 1..Len(v) - n /\ n + i \in 1..Len(w) + Len(x) /\ ~(n + i <= Len(w))
          /\ i \in 1..Len(r) + Len(x) /\ ~(i <= Len(r)) /\ (n + i) - Len(w) = i - Len(r)
      BY <1>1, <1>2, <1>5, <2>2
    <3>2. y[i] = v[n + i] /\ v[n + i] = x[(n + i) - Len(w)] /\ z[i] = x[i - Len(r)]
      BY <1>1, <1>3, <1>4, <3>1
    <3> QED
      BY <3>1, <3>2
  <2> QED
    BY <2>1, <2>2
<1>7. y = z
  BY <1>3, <1>4, <1>5, <1>6, SeqEqual
<1> QED
  BY <1>7 DEF v, r, y, z

\* Two that begin each other are the same.
LEMMA BeginsBoth ==
    ASSUME NEW S, NEW a \in Seq(S), NEW b \in Seq(S), Begins(a, b), Begins(b, a)
    PROVE  a = b
<1>1. Len(a) = Len(b) /\ \A i \in 1..Len(a) : a[i] = b[i]
  BY LenProperties DEF Begins
<1> QED
  BY <1>1, SeqEqual

\* A message that arrives as it was sent, behind others that did.
LEMMA CleanInv ==
    ASSUME IInv, Undamaged, open, sent < Count(format),
           UNCHANGED <<format, queue, responses, message, written, open, place>>,
           sent' = sent + 1, clean' = clean + 1,
           wire' = wire \o Encode(format, sent + 1)
    PROVE  IInv'
<1> DEFINE f == format
           c == clean
           e == Encode(f, c + 1)
<1>1. /\ f \in Formats /\ Count(f) \in Nat /\ c \in Nat /\ c < Count(f) /\ c = sent
      /\ c \in 0..Count(f) /\ c + 1 \in 0..Count(f) /\ c + 1 \in 1..Count(f)
      /\ c + 1 \in 0..c + 1 /\ c \in 0..c + 1
      /\ wire \in Seq(Elements(f)) /\ IsSequence(written)
  BY Known DEF Undamaged
<1>2. /\ e \in Seq(Elements(f)) /\ wire' = wire \o e
      /\ Stream(f, c) \in Seq(Elements(f)) /\ Stream(f, c + 1) = Stream(f, c) \o e
  BY <1>1, MessageFacts, StreamFacts
<1>3. wire' \in Seq(Elements(f)) /\ Begins(Stream(f, c), Stream(f, c + 1))
  BY <1>1, <1>2, ConcatBegins
<1>4. TypeOk /\ (MayDrop' <=> MayDrop) /\ Acks' = Acks
  BY AcksAreIn, Zenon DEF IInv, MayDrop
<1>5. TypeOk'
  <2>1. MessageOk'
    BY <1>4, Zenon DEF TypeOk, MessageOk
  <2>2. IsSequence(queue) /\ IsSequence(responses) /\ place \in {"read", "queue", "ack", "ended"}
    BY <1>4 DEF TypeOk
  <2>3. sent' \in 0..Count(f) /\ clean' \in 0..sent'
    BY <1>1
  <2> QED
    BY <1>1, <1>3, <2>1, <2>2, <2>3, Zenon DEF TypeOk
<1>6. PICK s, q, a : Within(s, q, a)
  BY Zenon DEF IInv, SomeWithin, Beyond
<1>7. /\ s \in Starts(f) /\ s.whole \in 0..c /\ q \in 0..s.whole /\ a \in 0..q
      /\ s.at <= Len(Stream(f, c)) /\ s.at \in Nat
      /\ Kept(queue, Statuses(f, q)) /\ responses = Responses(f, q)
      /\ Acks = AcksFor(f, a) /\ UnreadOf(Behind(Stream(f, c), s.at), wire, open, Undamaged)
      /\ InHand(s, q, a)
  <2>1. /\ s \in Starts(f) /\ s.whole \in 0..c /\ q \in 0..s.whole /\ a \in 0..q
        /\ s.at <= Len(Stream(f, c))
        /\ Kept(queue, Statuses(f, q)) /\ responses = Responses(f, q)
        /\ Acks = AcksFor(f, a) /\ UnreadOf(Behind(Stream(f, c), s.at), wire, open, Undamaged)
        /\ InHand(s, q, a)
    BY <1>6, Zenon DEF Within
  <2>2. s.at \in Nat
    BY <2>1 DEF Starts
  <2> QED
    BY <2>1, <2>2, Zenon
<1> DEFINE rest == Behind(Stream(f, c), s.at)
           more == Behind(Stream(f, c + 1), s.at)
<1>8. rest \in Seq(Elements(f)) /\ more = rest \o e
  BY <1>2, <1>7, CutTyped, BehindMore DEF Behind
<1> HIDE DEF rest, more, e
<1>9. wire = rest
  <2>1. Begins(wire, rest) /\ Begins(rest, wire)
    BY <1>7 DEF UnreadOf, rest
  <2> QED
    BY <1>1, <1>8, <2>1, BeginsBoth
<1>10. UnreadOf(more, wire', open', Undamaged')
  <2>1. wire' = more /\ IsSequence(more)
    BY <1>2, <1>3, <1>8, <1>9, SequencesAreSequences
  <2>2. Begins(more, more)
    BY <2>1, BeginsThrough
  <2> QED
    BY <2>1, <2>2, Zenon DEF UnreadOf
<1>11. s.whole \in 0..c + 1 /\ s.at <= Len(Stream(f, c + 1))
  <2>1. Len(Stream(f, c)) \in Nat /\ Len(Stream(f, c + 1)) \in Nat
    BY <1>2, <1>1, StreamFacts, LenProperties
  <2> QED
    BY <1>1, <1>3, <1>7, <2>1 DEF Begins
<1>12. Kept(queue, Statuses(f, q))' /\ InHand(s, q, a)'
  <2>1. Kept(queue, Statuses(f, q))'
    BY <1>4, <1>7, Zenon DEF Kept
  <2>2. InHand(s, q, a)'
    BY <1>7 DEF InHand
  <2> QED
    BY <2>1, <2>2
<1>13. Within(s, q, a)'
  BY <1>4, <1>7, <1>10, <1>11, <1>12, Zenon DEF Within, more
<1> QED
  BY <1>5, <1>13, Zenon DEF IInv, SomeWithin

\* One that is damaged, or behind one that is.
LEMMA DamagedInv ==
    ASSUME IInv, open, sent < Count(format),
           UNCHANGED <<format, queue, responses, message, written, open, place, clean>>,
           sent' = sent + 1, NEW x \in Seq(Elements(format)), wire' = wire \o x
    PROVE  IInv'
<1>1. /\ sent' \in sent..Count(format) /\ ~Undamaged'
      /\ wire \in Seq(Elements(format)) /\ IsSequence(written')
  BY Known DEF Undamaged
<1>2. wire' \in Seq(Elements(format)) /\ Acks' = Acks
  BY <1>1, ConcatBegins, AcksAreIn
<1>3. ASSUME NEW rest \in Rests(format, clean), UnreadOf(rest, wire, open, Undamaged)
      PROVE  UnreadOf(rest, wire', open', Undamaged')
  <2>1. rest \in Seq(Elements(format))
    BY Known, RestsAreSequences
  <2>2. IsSequence(rest) /\ IsSequence(wire) /\ IsSequence(x)
    BY <1>1, <2>1, SequencesAreSequences
  <2>3. Begins(rest, wire')
    BY <1>3, <2>2, BeginsMore DEF UnreadOf
  <2> QED
    BY <1>1, <2>3, Zenon DEF UnreadOf
<1> QED
  BY <1>1, <1>2, <1>3, OtherInv, Zenon

\* The device sends a message.
LEMMA SendInv == ASSUME IInv, Send PROVE IInv'
<1> DEFINE e == Encode(format, sent + 1)
<1>1. /\ open /\ sent < Count(format) /\ sent' = sent + 1
      /\ UNCHANGED <<format, queue, responses, message, written, open, place>>
      /\ \/ wire' = wire \o e /\ clean' = IF Undamaged THEN clean + 1 ELSE clean
         \/ clean' = clean /\ \E s \in Damaged(format, e) : wire' = wire \o s
  BY DEF Send, Count
<1>2. e \in Seq(Elements(format)) /\ Damaged(format, e) \subseteq Seq(Elements(format))
  <2>1. sent + 1 \in 1..Count(format)
    BY <1>1, Known
  <2> QED
    BY <2>1, Known, MessageFacts
<1>3. CASE Undamaged /\ clean' = clean + 1 /\ wire' = wire \o e
  BY <1>1, <1>3, CleanInv
<1>4. CASE clean' = clean /\ \E x \in Seq(Elements(format)) : wire' = wire \o x
  BY <1>1, <1>4, DamagedInv
<1> HIDE DEF e
<1> QED
  BY <1>1, <1>2, <1>3, <1>4

\* Every step of the handler, of a call and of the device keeps it.
LEMMA StepInv == IInv /\ [Next]_vars => IInv'
<1> SUFFICES ASSUME IInv, [Next]_vars PROVE IInv'
  OBVIOUS
<1>1. CASE ConsumeStream
  BY <1>1, TakeInv, QueueInv, WriteInv, EndInv, Zenon DEF ConsumeStream
<1>2. CASE SendCommandToDevice
  BY <1>2, CommandInv, Zenon
<1>3. CASE Send
  BY <1>3, SendInv, Zenon
<1>4. CASE Break
  BY <1>4, BreakInv, Zenon
<1>5. CASE Rest
  BY <1>5, SameInv, Zenon DEF Rest
<1>6. CASE UNCHANGED vars
  BY <1>6, SameInv, Zenon
<1> QED
  BY <1>1, <1>2, <1>3, <1>4, <1>5, <1>6, Zenon DEF Next

\* The invariant holds: ConsumeStream is either within the messages before the
\* first damaged one, and the queues and the connection have what those it has
\* read call for, or beyond them, and all that they call for comes first.
THEOREM Invariance == Spec => []IInv
<1>1. Init => IInv
  BY InitInv
<1>2. IInv /\ [Next]_vars => IInv'
  BY StepInv
<1> QED
  BY <1>1, <1>2, PTL DEF Spec

-----------------------------------------------------------------------------
(* What the invariant says of the queues, and of the acknowledgements.       *)

\* A queue that begins as another, or the other way round, follows it.
LEMMA BeginsFollows ==
    ASSUME NEW inQueue, IsSequence(inQueue), NEW due, IsSequence(due),
           Begins(inQueue, due) \/ (~Undamaged /\ Begins(due, inQueue))
    PROVE  Follows(inQueue, due)
  BY BeginsIsPrefix, Zenon DEF Follows

\* The queues.
LEMMA InvQueues == IInv => QueuesAreWhatWasSent
<1> SUFFICES ASSUME IInv PROVE QueuesAreWhatWasSent
  OBVIOUS
<1> DEFINE f == format
           c == clean
<1>1. /\ f \in Formats /\ c \in 0..Count(f) /\ c \in 0..c
      /\ IsSequence(queue) /\ IsSequence(responses)
  <2>1. IsSequence(queue) /\ IsSequence(responses)
    BY DEF IInv, TypeOk
  <2>2. f \in Formats /\ c \in 0..Count(f) /\ Count(f) \in Nat
    BY Known
  <2> QED
    BY <2>1, <2>2
<1>2. IsSequence(Statuses(f, c)) /\ IsSequence(Responses(f, c))
  BY <1>1, DuesAreSequences
<1>3. ASSUME NEW s, NEW q, NEW a, Within(s, q, a) PROVE QueuesAreWhatWasSent
  <2>1. /\ s.whole \in 0..c /\ q \in 0..s.whole
        /\ Kept(queue, Statuses(f, q)) /\ responses = Responses(f, q)
    BY <1>3, Zenon DEF Within
  <2>2. q \in 0..c
    BY <1>1, <2>1
  <2>3. Begins(Statuses(f, q), Statuses(f, c)) /\ Begins(Responses(f, q), Responses(f, c))
    BY <1>1, <2>2, DuesAreSequences
  <2>4. Follows(responses, Responses(f, c))
    BY <1>1, <1>2, <2>1, <2>3, BeginsFollows, Zenon
  <2>5. CASE f = "obd"
    <3>1. IsSubsequence(queue, Statuses(f, q))
      BY <2>1, <2>5, Zenon DEF Kept, MayDrop
    <3>2. IsSubsequence(queue, Statuses(f, c))
      BY <1>1, <1>2, <2>2, <2>3, <3>1, DuesAreSequences, SubsequenceOfLonger
    <3>3. /\ SubSeq(queue, 1, Len(queue)) = queue /\ Len(queue) \in 0..Len(queue)
          /\ ~(Len(queue) < Len(queue))
      BY <1>1, WholeSequence, LengthType
    <3> QED
      BY <2>4, <2>5, <3>2, <3>3, Zenon DEF QueuesAreWhatWasSent
  <2>6. CASE f # "obd"
    <3>1. queue = Statuses(f, q)
      BY <2>1, <2>6, Zenon DEF Kept, MayDrop
    <3>2. Follows(queue, Statuses(f, c))
      BY <1>1, <1>2, <2>3, <3>1, BeginsFollows, Zenon
    <3> QED
      BY <2>4, <2>6, <3>2, Zenon DEF QueuesAreWhatWasSent
  <2> QED
    BY <2>5, <2>6, Zenon
<1>4. ASSUME Beyond PROVE QueuesAreWhatWasSent
  <2>1. ~Undamaged /\ QueueBeyond /\ Begins(Responses(f, c), responses)
    BY <1>4, Zenon DEF Beyond
  <2>2. Follows(responses, Responses(f, c))
    BY <1>1, <1>2, <2>1, BeginsFollows, Zenon
  <2>3. CASE f = "obd"
    BY <2>1, <2>2, <2>3, Zenon DEF QueuesAreWhatWasSent, QueueBeyond, MayDrop
  <2>4. CASE f # "obd"
    <3>1. Begins(Statuses(f, c), queue)
      BY <2>1, <2>4, Zenon DEF QueueBeyond, MayDrop
    <3>2. Follows(queue, Statuses(f, c))
      BY <1>1, <1>2, <2>1, <3>1, BeginsFollows, Zenon
    <3> QED
      BY <2>2, <2>4, <3>2, Zenon DEF QueuesAreWhatWasSent
  <2> QED
    BY <2>3, <2>4, Zenon
<1> QED
  BY <1>3, <1>4, Zenon DEF IInv, SomeWithin

\* Of the messages before the first damaged one the store gets what they say, in
\* order: in an OBDII2G stream what was not dropped, in the others without a gap,
\* and nothing of a later one before that (intellitrac.go:159-197, 332-377,
\* 412-450, obdii2g.go:79-157).
THEOREM QueuesKept == Spec => []QueuesAreWhatWasSent
<1>1. Spec => []IInv
  BY Invariance
<1>2. IInv => QueuesAreWhatWasSent
  BY InvQueues
<1> QED
  BY <1>1, <1>2, PTL

\* The numbers of the messages that get an acknowledgement, as they are paired.
LEMMA AcknowledgeableAre == Acknowledgeable = NumbersTo(format, clean)
  BY DEF Acknowledgeable, NumbersTo

\* The acknowledgements.
LEMMA InvAcks == IInv => AckConfirms
<1> SUFFICES ASSUME IInv, NEW n \in DOMAIN Acks \cap DOMAIN Acknowledgeable
             PROVE  LET i == Acknowledgeable[n]
                    IN  /\ Reported(format, i).ack = <<Acks[n]>>
                        /\ IsPrefix(Statuses(format, i), queue)
  BY Zenon DEF AckConfirms
<1> DEFINE f == format
           c == clean
           numbers == NumbersTo(f, c)
           i == numbers[n]
           goal == /\ Reported(f, i).ack = <<Acks[n]>>
                   /\ IsPrefix(Statuses(f, i), queue)
<1>1. /\ f \in Formats /\ c \in 0..Count(f) /\ c \in 0..c
      /\ Count(f) \in Nat /\ IsSequence(queue)
  <2>1. IsSequence(queue)
    BY DEF IInv, TypeOk
  <2>2. f \in Formats /\ c \in 0..Count(f) /\ Count(f) \in Nat
    BY Known
  <2> QED
    BY <2>1, <2>2
<1>2. Acknowledgeable = numbers /\ n \in DOMAIN Acks /\ n \in DOMAIN numbers
  BY AcknowledgeableAre, Zenon
<1>3. IsSequence(numbers) /\ IsSequence(AcksFor(f, c)) /\ IsSequence(Statuses(f, c))
  BY <1>1, NumbersGrow, DuesAreSequences
<1> HIDE DEF numbers
<1>4. ASSUME NEW a \in 0..c, n \in 1..Len(AcksFor(f, a)), AcksFor(f, a)[n] = Acks[n]
      PROVE  i \in 1..a /\ i \in 0..a /\ i \in 0..c /\ Reported(f, i).ack = <<Acks[n]>>
  <2>1. i \in 1..a /\ Reported(f, i).ack = <<AcksFor(f, a)[n]>>
    BY <1>1, <1>4, PairedWith DEF numbers
  <2>2. i \in 0..a /\ i \in 0..c
    BY <1>1, <2>1
  <2> QED
    BY <1>4, <2>1, <2>2
<1>5. ASSUME NEW s, NEW q, NEW a, Within(s, q, a) PROVE goal
  <2>1. /\ s.whole \in 0..c /\ q \in 0..s.whole /\ a \in 0..q
        /\ Kept(queue, Statuses(f, q)) /\ Acks = AcksFor(f, a)
    BY <1>5, Zenon DEF Within
  <2>2. q \in 0..c /\ q \in 0..Count(f) /\ a \in 0..c
    BY <1>1, <2>1
  <2>3. n \in 1..Len(AcksFor(f, a)) /\ AcksFor(f, a)[n] = Acks[n]
    <3>1. IsSequence(AcksFor(f, a))
      BY <1>1, <2>2, DuesAreSequences
    <3> QED
      BY <1>2, <2>1, <3>1 DEF IsSequence
  <2>4. i \in 1..a /\ i \in 0..a /\ i \in 0..c /\ Reported(f, i).ack = <<Acks[n]>>
    BY <1>4, <2>2, <2>3
  <2>5. i \in 0..q /\ i \in 1..Count(f)
    BY <1>1, <2>1, <2>2, <2>4
  <2>6. f # "obd"
    <3>1. Len(Reported(f, i).ack) <= (IF f = "obd" THEN 0 ELSE 1)
      BY <1>1, <2>5, MessageFacts
    <3>2. Len(Reported(f, i).ack) = 1
      BY <2>4
    <3> QED
      BY <3>1, <3>2
  <2>7. queue = Statuses(f, q)
    BY <2>1, <2>6, Zenon DEF Kept, MayDrop
  <2>8. IsSequence(Statuses(f, i)) /\ Begins(Statuses(f, i), queue)
    BY <1>1, <2>2, <2>5, <2>7, DuesAreSequences
  <2>9. IsPrefix(Statuses(f, i), queue)
    BY <1>1, <2>8, BeginsIsPrefix
  <2> QED
    BY <2>4, <2>9
<1>6. ASSUME Beyond PROVE goal
  <2>1. QueueBeyond /\ Begins(AcksFor(f, c), Acks)
    BY <1>6, Zenon DEF Beyond
  <2>2. Len(numbers) = Len(AcksFor(f, c))
    BY <1>1, PairedAll DEF Paired, numbers
  <2>3. n \in 1..Len(AcksFor(f, c)) /\ AcksFor(f, c)[n] = Acks[n]
    <3>1. n \in 1..Len(numbers)
      BY <1>2, <1>3 DEF IsSequence
    <3> QED
      BY <2>1, <2>2, <3>1 DEF Begins
  <2>4. i \in 1..c /\ i \in 0..c /\ Reported(f, i).ack = <<Acks[n]>>
    BY <1>1, <1>4, <2>3
  <2>5. f # "obd"
    <3>0. i \in 1..Count(f)
      BY <1>1, <2>4
    <3>1. Len(Reported(f, i).ack) <= (IF f = "obd" THEN 0 ELSE 1)
      BY <1>1, <3>0, MessageFacts
    <3>2. Len(Reported(f, i).ack) = 1
      BY <2>4
    <3> QED
      BY <3>1, <3>2
  <2>6. Begins(Statuses(f, c), queue)
    BY <2>1, <2>5, Zenon DEF QueueBeyond, MayDrop
  <2>7. IsSequence(Statuses(f, i)) /\ Begins(Statuses(f, i), Statuses(f, c))
    BY <1>1, <2>4, DuesAreSequences
  <2>8. Begins(Statuses(f, i), queue)
    BY <1>1, <1>3, <2>6, <2>7, LengthType DEF Begins
  <2>9. IsPrefix(Statuses(f, i), queue)
    BY <1>1, <2>7, <2>8, BeginsIsPrefix
  <2> QED
    BY <2>4, <2>9
<1>7. goal
  BY <1>5, <1>6, Zenon DEF IInv, SomeWithin
<1> QED
  BY <1>2, <1>7, Zenon

\* The n-th acknowledgement that is written, whatever commands are between, is
\* that of the n-th undamaged message that gets one, and the message and all
\* before it are in the queue by then (intellitrac.go:159-197, 332-377, 412-450).
THEOREM AcksConfirm == Spec => []AckConfirms
<1>1. Spec => []IInv
  BY Invariance
<1>2. IInv => AckConfirms
  BY InvAcks
<1> QED
  BY <1>1, <1>2, PTL

==============================================================================
