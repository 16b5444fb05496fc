----------------------------- MODULE StreamSession -----------------------------
(***************************************************************************)
(* The stream of an IntelliTrac device, in the format of its login, or of   *)
(* an OBDII2G device: the device sends its messages one after the other     *)
(* without waiting, ConsumeStream queues and acknowledges, and a            *)
(* SendCommand call writes to the same connection.  Elements of a stream    *)
(* are bytes, of OBDII2G fields.  One of them may be damaged, and the        *)
(* connection may break with the last ones lost.                            *)
(***************************************************************************)
EXTENDS IntelliTracPacket, SequencesExt

Obdii2g == INSTANCE Obdii2gPacket

CONSTANTS
    Messages(_),        \* what a device of a format sends
    Encode(_, _),       \* a message and its number as elements of the stream
    Reported(_, _),     \* the message the receiver should take it for
    Damaged(_, _),      \* the streams a message may be damaged to
    Command,
    Transactions,       \* the transaction ids a command may get
    Lost,               \* how many of the last elements a broken connection loses
    MaxFaults

ASSUME StreamAssumption == MaxFaults \in Nat /\ Lost \subseteq Nat

\* A command is text.
ASSUME CommandAssumption ==
    /\ Command \in Seq(Byte) /\ \A i \in DOMAIN Command : Command[i] # MsgTypeAck
    /\ Transactions \subseteq Byte \X Byte

Formats == {"binary", "ascii", "obd"}

\* What a stream is made of.
Elements(f) == IF f = "obd" THEN Obdii2g!Field ELSE Byte

Behind(stream, n) == SubSeq(stream, n + 1, Len(stream))

\* One turn of ConsumeStream, on what has arrived.
consume(f, stream) ==
    CASE f = "binary" -> consumeBinaryStream(stream)
      [] f = "ascii"  -> consumeASCIIStream(stream)
      [] f = "obd"    -> Obdii2g!consumeLine(stream)

\* The first n messages, one behind the other.
Stream(f, n) == FlattenSeq([i \in 1..n |-> Encode(f, i)])

\* What they put into a queue, and the acknowledgements they get, of what the
\* receiver should take each of them for.
Statuses(f, n)  == FlattenSeq([i \in 1..n |-> Reported(f, i).status])
Responses(f, n) == FlattenSeq([i \in 1..n |-> Reported(f, i).response])
AcksFor(f, n)   == FlattenSeq([i \in 1..n |-> Reported(f, i).ack])

\* Where a turn may begin if all arrives as it was sent, and how many messages
\* are whole before that: behind one of them, in ASCII behind any line end.
Starts(f) ==
    LET n == Len(Messages(f))
    IN  {s \in [at : 0..Len(Stream(f, n)), whole : 0..n] :
            /\ Len(Stream(f, s.whole)) <= s.at
            /\ s.whole < n => s.at < Len(Stream(f, s.whole + 1))
            /\ \/ s.at = Len(Stream(f, s.whole))
               \/ f = "ascii" /\ Stream(f, n)[s.at] = NewLine}

\* The turn that begins at s reads what the messages it completes say.
ReadsWhole(f, s) ==
    LET taken == consume(f, Behind(Stream(f, Len(Messages(f))), s.at))
    IN  taken.kind = "message" =>
            \E t \in Starts(f) :
                /\ t.at = s.at + taken.size /\ s.whole <= t.whole
                /\ Statuses(f, t.whole) = Statuses(f, s.whole) \o taken.status
                /\ Responses(f, t.whole) = Responses(f, s.whole) \o taken.response
                /\ AcksFor(f, t.whole) = AcksFor(f, s.whole) \o taken.ack

\* A turn that begins at s and waits leaves nothing unsaid of the messages that
\* have arrived.
WaitsForNothing(f, s) ==
    \A n \in s.whole..Len(Messages(f)) :
        /\ s.at <= Len(Stream(f, n))
        /\ consume(f, Behind(Stream(f, n), s.at)) = Waits
        => /\ Statuses(f, n) = Statuses(f, s.whole)
           /\ Responses(f, n) = Responses(f, s.whole)
           /\ AcksFor(f, n) = AcksFor(f, s.whole)

\* The messages and the code that reads them fit together.
ASSUME StreamCodec ==
    \A f \in Formats :
        /\ Len(Messages(f)) \in Nat
        /\ \A i \in 1..Len(Messages(f)) :
             /\ Encode(f, i) \in Seq(Elements(f)) /\ Encode(f, i) # <<>>
             /\ Damaged(f, Encode(f, i)) \subseteq Seq(Elements(f))
             /\ IsSequence(Reported(f, i).status) /\ IsSequence(Reported(f, i).response)
             /\ IsSequence(Reported(f, i).ack)
             /\ Len(Reported(f, i).ack) <= (IF f = "obd" THEN 0 ELSE 1)
        /\ \A s \in Starts(f) : ReadsWhole(f, s) /\ WaitsForNothing(f, s)

VARIABLES
    format,    \* "binary", "ascii" or "obd"
    place,     \* of ConsumeStream
    wire,      \* elements sent and not read
    open,      \* has the device not closed the connection?
    message,   \* the message in hand
    queue,     \* everything put into ProcessChan
    responses, \* everything put into ResponseChan
    written,   \* everything written to the connection, frame by frame
    sent,      \* how many messages the device has sent
    clean,     \* how many of them before the first damaged one
    faults, commanded

vars == <<format, place, wire, open, message, queue, responses, written, sent, clean,
          faults, commanded>>

Init ==
    /\ format \in Formats
    /\ place = "read" /\ wire = <<>> /\ open = TRUE
    /\ message = Message(0, <<>>, <<>>, <<>>)
    /\ queue = <<>> /\ responses = <<>> /\ written = <<>>
    /\ sent = 0 /\ clean = 0 /\ faults = 0 /\ commanded = FALSE

-----------------------------------------------------------------------------
(* The receiver.                                                             *)

Goes(from, to) == place = from /\ place' = to

\* Mutant: the bytes are looked at and not taken.
TakeMessage_Peeks ==
    LET taken == consume(format, wire)
    IN  /\ taken.kind = "message"
        /\ Goes("read", "queue")
        /\ message' = taken
        /\ UNCHANGED <<format, wire, open, queue, responses, written, sent, clean, faults,
                       commanded>>

TakeMessage ==
    LET taken == consume(format, wire)
    IN  /\ taken.kind = "message"
        /\ Goes("read", "queue")
        /\ message' = taken
        /\ wire' = Behind(wire, taken.size)
        /\ UNCHANGED <<format, open, queue, responses, written, sent, clean, faults,
                       commanded>>

\* Mutant: a full queue is never waited for.
MayDrop_Always == TRUE

\* OBDII2G waits 100 ms for a full queue, IntelliTrac as long as it takes.
MayDrop == format = "obd"

QueueMessage ==
    /\ Goes("queue", "ack")
    /\ \/ queue' = queue \o message.status
       \/ MayDrop /\ queue' = queue
    /\ responses' = responses \o message.response
    /\ UNCHANGED <<format, wire, open, message, written, sent, clean, faults, commanded>>

\* Mutant: a line gets no acknowledgement.
WriteAck_BinaryOnly ==
    /\ Goes("ack", "read")
    /\ written' = written \o (IF format = "binary" THEN message.ack ELSE <<>>)
    /\ UNCHANGED <<format, wire, open, message, queue, responses, sent, clean, faults,
                   commanded>>

\* A write to a connection the device has closed may still succeed.
WriteAck ==
    /\ Goes("ack", "read")
    /\ written' = written \o message.ack
    /\ UNCHANGED <<format, wire, open, message, queue, responses, sent, clean, faults,
                   commanded>>

\* A message that is not known, the end of the stream, or an acknowledgement
\* that cannot be written.
StreamEnds ==
    /\ \/ /\ Goes("read", "ended")
          /\ consume(format, wire) = Ends \/ (consume(format, wire) = Waits /\ ~open)
       \/ Goes("ack", "ended") /\ message.ack # <<>> /\ ~open
    /\ UNCHANGED <<format, wire, open, message, queue, responses, written, sent, clean,
                   faults, commanded>>

ConsumeStream == TakeMessage \/ QueueMessage \/ WriteAck \/ StreamEnds

\* One frame, between any two writes of ConsumeStream.
SendCommandToDevice ==
    /\ ~commanded /\ commanded' = TRUE
    /\ \/ /\ format = "binary"
          /\ \E transaction \in Transactions :
               written' = Append(written, sendBinaryCommand(Command, transaction))
       \/ /\ format = "ascii"
          /\ written' = Append(written, sendASCIICommand(Command))
       \/ /\ format = "obd"
          /\ written' = Append(written, Obdii2g!sendCommand(Command))
    /\ UNCHANGED <<format, place, wire, open, message, queue, responses, sent, clean,
                   faults>>

-----------------------------------------------------------------------------
(* The device.                                                               *)

Undamaged == clean = sent

Send ==
    /\ open /\ sent < Len(Messages(format))
    /\ sent' = sent + 1
    /\ LET stream == Encode(format, sent')
       IN  \/ /\ wire' = wire \o stream
              /\ clean' = IF Undamaged THEN clean + 1 ELSE clean
              /\ UNCHANGED faults
           \/ /\ faults < MaxFaults /\ faults' = faults + 1
              /\ \E s \in Damaged(format, stream) : wire' = wire \o s
              /\ UNCHANGED clean
    /\ UNCHANGED <<format, place, open, message, queue, responses, written, commanded>>

\* The connection breaks.
Break ==
    /\ open /\ faults < MaxFaults /\ faults' = faults + 1
    /\ open' = FALSE
    /\ \E n \in Lost : wire' = SubSeq(wire, 1, Len(wire) - n)
    /\ UNCHANGED <<format, place, message, queue, responses, written, sent, clean,
                   commanded>>

\* Nothing more is sent, and the handler is at rest.
Rest ==
    /\ ~open \/ sent = Len(Messages(format))
    /\ place = "ended" \/ (place = "read" /\ open /\ consume(format, wire) = Waits)
    /\ UNCHANGED vars

Next == ConsumeStream \/ SendCommandToDevice \/ Send \/ Break \/ Rest

\* Is a step of ConsumeStream enabled?
Runnable == place \in {"queue", "ack"} \/ (place = "read" /\ ~(open /\ consume(format, wire) = Waits))

\* Is Send?
MaySend == open /\ sent < Len(Messages(format))

\* Weak fairness of the handler and of the device, with the condition under
\* which they can take a step in place of ENABLED.
Spec ==
    /\ Init /\ [][Next]_vars
    /\ []<>~Runnable \/ []<><<ConsumeStream>>_vars
    /\ []<>~MaySend \/ []<><<Send>>_vars

-----------------------------------------------------------------------------
(* Properties.                                                               *)

\* s is t without some of its elements.
IsSubsequence(s, t) ==
    \E at \in [DOMAIN s -> DOMAIN t] :
        /\ \A i, j \in DOMAIN s : i < j => at[i] < at[j]
        /\ \A i \in DOMAIN s : s[i] = t[at[i]]

\* What a queue may hold of what the messages up to the first damaged one should
\* put into it: part of it, or all of it and what the receiver made of the rest.
Follows(inQueue, due) ==
    IsPrefix(inQueue, due) \/ (~Undamaged /\ IsPrefix(due, inQueue))

\* Of the messages before the first damaged one, the store gets what they say,
\* in order; in an OBDII2G stream what was not dropped, in the others without
\* a gap, and nothing of a later one before that.  Heartbeats and lines of
\* another kind between them, with bytes that read as commas and line ends, add
\* nothing and take nothing away.
QueuesAreWhatWasSent ==
    /\ Follows(responses, Responses(format, clean))
    /\ IF format = "obd"
       THEN \E k \in 0..Len(queue) :
                /\ IsSubsequence(SubSeq(queue, 1, k), Statuses(format, clean))
                /\ k < Len(queue) => ~Undamaged
       ELSE Follows(queue, Statuses(format, clean))

IsAck(frame) == Len(frame) = 6 /\ frame[4] = MsgTypeAck

\* The acknowledgements among the frames.
Acks ==
    FlattenSeq([i \in DOMAIN written |-> IF IsAck(written[i]) THEN <<written[i]>> ELSE <<>>])

\* The numbers of the undamaged messages that have one, in order.
Acknowledgeable ==
    FlattenSeq([i \in 1..clean |-> IF Reported(format, i).ack # <<>> THEN <<i>> ELSE <<>>])

\* The n-th acknowledgement is that of the n-th message that gets one, and by
\* then the message and all before it are in the queue, whatever commands are
\* written in between (intellitrac.go:159-197, 332-377, 412-450).
AckConfirms ==
    \A n \in DOMAIN Acks \cap DOMAIN Acknowledgeable :
        LET i == Acknowledgeable[n]
        IN  /\ Reported(format, i).ack = <<Acks[n]>>
            /\ IsPrefix(Statuses(format, i), queue)

\* On a connection that stays, with no message damaged, every message gets its
\* acknowledgement, and every response its place in the queue.
MessagesAreAnswered ==
    [](sent = Len(Messages(format)) /\ Undamaged
        => <>(~open \/ (/\ Len(Acks) = Len(Acknowledgeable)
                        /\ responses = Responses(format, sent))))

==============================================================================
