----------------------------- MODULE Fm1200Session -----------------------------
(***************************************************************************)
(* A Teltonika tracker and the connections it makes to the receiver, after  *)
(* the login.  The tracker sends one batch of records at a time and sends   *)
(* it again, over this or the next connection, until it reads a number of   *)
(* records equal to the batch's.  It may send a damaged packet, give a      *)
(* connection up with bytes in either direction, and answer commands.  Each *)
(* connection has a ConsumeStream of its own, which may still be queueing   *)
(* records when the tracker has long reconnected.                           *)
(***************************************************************************)
EXTENDS Fm1200Packet, SequencesExt

CONSTANTS
    MaxConns,           \* how often the tracker connects
    Batches,            \* the batches of records it has to deliver
    EncodeBatch(_),     \* the packet of a batch
    Reported(_),        \* the statuses of a batch, sorted by time as fm1200.go:248
    Command,            \* a command, as bytes
    Answer,             \* the tracker's answer to it
    EncodeResponse(_),  \* the packet of an answer
    DamagedAt,          \* the positions at which a packet may be damaged
    Lost,               \* how many of the last bytes a broken connection loses
    MaxFaults,          \* how many packets are damaged
    MaxCommands         \* how many commands are sent

ASSUME Fm1200Assumption ==
    /\ MaxConns \in Nat \ {0} /\ MaxFaults \in Nat /\ MaxCommands \in Nat
    /\ Batches \in Seq(Seq(Nat))
    /\ \A b \in DOMAIN Batches : EncodeBatch(Batches[b]) \in Seq(Byte)
    /\ EncodeResponse(Answer) \in Seq(Byte)
    /\ Lost \subseteq Nat

VARIABLES
    place,      \* of each connection's ConsumeStream
    wire,       \* bytes the tracker has sent and consumeMessage has not read
    open,       \* has the tracker not closed it?
    packet,     \* the packet being queued: its records that are left, and its
                \* NumberOfData
    checked,    \* the data whose checksum is still to be read
    queue,      \* everything put into ProcessChan
    responses,  \* everything put into ResponseChan
    acked,      \* the number of records acknowledged
    down,       \* bytes written to the tracker and not read by it
    current,    \* the tracker's connection, 0 when it has none
    batch,      \* the batch it is to deliver next
    awaiting,   \* has it sent that batch on this connection?
    faults, commanded

streams == <<place, packet, checked, queue, responses, acked>>
tracker == <<current, batch, awaiting, faults, commanded>>
vars == <<streams, wire, open, down, tracker>>

Conns == 1..MaxConns

\* No packet.
NoRecords == [left |-> <<>>, number |-> 0]

Init ==
    /\ place = [c \in Conns |-> "new"]
    /\ wire = [c \in Conns |-> <<>>]
    /\ open = [c \in Conns |-> FALSE]
    /\ packet = [c \in Conns |-> NoRecords]
    /\ checked = [c \in Conns |-> <<>>]
    /\ queue = [c \in Conns |-> <<>>]
    /\ responses = [c \in Conns |-> <<>>]
    /\ acked = [c \in Conns |-> 0]
    /\ down = [c \in Conns |-> <<>>]
    /\ current = 0 /\ batch = 1 /\ awaiting = FALSE
    /\ faults = 0 /\ commanded = 0

-----------------------------------------------------------------------------
(* The receiver.                                                             *)

Goes(c, from, to) == place[c] = from /\ place' = [place EXCEPT ![c] = to]

Reads(c, n) == wire' = [wire EXCEPT ![c] = SubSeq(@, n + 1, Len(@))]

\* sort.Slice orders the records by time; records of one time stay in any order.
InTimeOrder(records) ==
    {[i \in DOMAIN records |-> records[at[i]]] :
        at \in {p \in [DOMAIN records -> DOMAIN records] :
                  \A i, j \in DOMAIN records :
                    i < j => /\ p[i] # p[j]
                             /\ records[p[i]].timestamp <= records[p[j]].timestamp}}

\* What the tracker and the receiver agree upon: a batch is read as the packet
\* it was packed into, with the records the store should have, and the answer as
\* a response; a number of records and a command are read back from what the
\* receiver writes.
ASSUME Fm1200Codec ==
    /\ \A b \in DOMAIN Batches :
         LET message == consumeMessage(EncodeBatch(Batches[b]))
             number  == Len(Batches[b])
         IN  /\ message.kind = "records" /\ message.number = number
             /\ Len(EncodeBatch(Batches[b])) = 12 + message.size
             /\ IsSequence(Reported(Batches[b])) /\ Len(Reported(Batches[b])) = number
             /\ \A records \in InTimeOrder(message.records) :
                  Reported(Batches[b]) =
                      [i \in 1..number |-> ToProtobufDeviceStatus(records[i])]
             /\ number # 0 /\ Put(number, 4) \in Seq(Byte)
             /\ Uint32(Put(number, 4), 0) = number
    /\ LET message == consumeMessage(EncodeResponse(Answer))
       IN  /\ message.kind = "response" /\ message.data = Answer
           /\ Len(EncodeResponse(Answer)) = 12 + Len(message.of)
    /\ LET frame == SendCommandToDevice(Command)
       IN  /\ frame \in Seq(Byte) /\ Uint32(frame, 0) = 0
           /\ Uint32(frame, 4) \in Nat /\ Len(frame) = 12 + Uint32(frame, 4)

\* A packet whose checksum is right.
TakeRecords(c) ==
    \E message \in {consumeMessage(wire[c])} :
        /\ Goes(c, "read", "queue")
        /\ message.kind = "records"
        /\ Reads(c, 12 + message.size)
        /\ \E records \in InTimeOrder(message.records) :
             packet' = [packet EXCEPT ![c] =
                 [left |-> records, number |-> message.number]]
        /\ UNCHANGED <<open, checked, queue, responses, acked, down, tracker>>

\* A response is put into ResponseChan before its checksum is read.
TakeResponse(c) ==
    \E message \in {consumeMessage(wire[c])} :
        /\ Goes(c, "read", "check")
        /\ message.kind = "response"
        /\ Reads(c, 8 + Len(message.of))
        /\ responses' = [responses EXCEPT ![c] = Append(@, message.data)]
        /\ checked' = [checked EXCEPT ![c] = message.of]
        /\ UNCHANGED <<open, packet, queue, acked, down, tracker>>

\* Mutant: a wrong checksum is only logged.
CheckResponse_Continues(c) ==
    /\ Len(wire[c]) >= 4
    /\ Goes(c, "check", "read")
    /\ Reads(c, 4)
    /\ UNCHANGED <<open, packet, checked, queue, responses, acked, down, tracker>>

CheckResponse(c) ==
    /\ Len(wire[c]) >= 4
    /\ IF ValidateCrc(checked[c], Slice(wire[c], 0, 4))
       THEN Goes(c, "check", "read") ELSE Goes(c, "check", "ended")
    /\ Reads(c, 4)
    /\ UNCHANGED <<open, packet, checked, queue, responses, acked, down, tracker>>

QueueRecord(c) ==
    /\ place[c] = "queue" /\ packet[c].left # <<>>
    /\ queue' = [queue EXCEPT ![c] =
                    Append(@, ToProtobufDeviceStatus(Head(packet[c].left)))]
    /\ packet' = [packet EXCEPT ![c].left = Tail(@)]
    /\ UNCHANGED <<place, wire, open, checked, responses, acked, down, tracker>>

\* Mutant: NumberOfData is written as the byte it is.
Acknowledgement_Uint8(number) == Put(number, 1)

\* binary.Write of an int32.
Acknowledgement(number) == Put(number, 4)

\* Mutant: the acknowledgement does not wait for the queue.
WriteAck_Early(c) ==
    /\ Goes(c, "queue", "read")
    /\ acked' = [acked EXCEPT ![c] = @ + packet[c].number]
    /\ down' = [down EXCEPT ![c] = @ \o Acknowledgement(packet[c].number)]
    /\ packet' = [packet EXCEPT ![c] = NoRecords]
    /\ UNCHANGED <<wire, open, checked, queue, responses, tracker>>

\* A write to a connection the tracker has closed may still succeed.
WriteAck(c) ==
    /\ packet[c].left = <<>>
    /\ Goes(c, "queue", "read")
    /\ acked' = [acked EXCEPT ![c] = @ + packet[c].number]
    /\ down' = [down EXCEPT ![c] = @ \o Acknowledgement(packet[c].number)]
    /\ packet' = [packet EXCEPT ![c] = NoRecords]
    /\ UNCHANGED <<wire, open, checked, queue, responses, tracker>>

WriteAckFails(c) ==
    /\ packet[c].left = <<>> /\ ~open[c]
    /\ Goes(c, "queue", "ended")
    /\ UNCHANGED <<wire, open, packet, checked, queue, responses, acked, down, tracker>>

\* ConsumeStream returns: a malformed packet, or the end of the stream.  The
\* handler does the same with nil and with an error.
StreamEnds(c) ==
    /\ \/ /\ Goes(c, "read", "ended")
          /\ consumeMessage(wire[c]) \in IF open[c] THEN {Ends} ELSE {Ends, Waits}
       \/ Goes(c, "check", "ended") /\ Len(wire[c]) < 4 /\ ~open[c]
    /\ UNCHANGED <<wire, open, packet, checked, queue, responses, acked, down, tracker>>

ConsumeStream(c) ==
    \/ TakeRecords(c) \/ TakeResponse(c) \/ CheckResponse(c)
    \/ QueueRecord(c) \/ WriteAck(c) \/ WriteAckFails(c) \/ StreamEnds(c)

\* A SendCommand call writes to the tracker's connection.
SendsCommand(c) ==
    /\ place[c] \notin {"new", "ended"} /\ commanded < MaxCommands
    /\ commanded' = commanded + 1
    /\ down' = [down EXCEPT ![c] = @ \o SendCommandToDevice(Command)]
    /\ UNCHANGED <<streams, wire, open, current, batch, awaiting, faults>>

-----------------------------------------------------------------------------
(* The tracker.                                                              *)

Damaged(bytes) ==
    {[bytes EXCEPT ![i] = (@ + 1) % 256] : i \in DamagedAt \cap DOMAIN bytes}

\* A stream that begins with b ends, at the latest when a checksum is compared.
Fails(b) ==
    LET message == consumeMessage(b)
        size    == Len(message.of)
    IN  \/ message = Ends
        \/ /\ message.kind = "response" /\ Len(b) >= 12 + size
           /\ ~ValidateCrc(message.of, Slice(b, 8 + size, 4))

\* Packets and what damage makes of them.
Packets == {EncodeBatch(Batches[b]) : b \in DOMAIN Batches} \cup {EncodeResponse(Answer)}

Broken == UNION {Damaged(p) : p \in Packets}

\* A damaged packet is not taken for a good one: it is noticed with its last byte
\* or, when its size has become one larger, with the byte behind it.
DamageIsSeen == \A d \in Broken : Fails(d) \/ \A x \in Byte : Fails(Append(d, x))

\* The last connection is a good one, or nothing could be promised.
Sends(bytes) ==
    \/ /\ wire' = [wire EXCEPT ![current] = @ \o bytes]
       /\ UNCHANGED faults
    \/ /\ faults < MaxFaults /\ current < MaxConns
       /\ faults' = faults + 1
       /\ \E sent \in Damaged(bytes) : wire' = [wire EXCEPT ![current] = @ \o sent]

Connect ==
    /\ current = 0
    /\ \E c \in Conns :
         /\ place[c] = "new" /\ \A d \in 1..c - 1 : place[d] # "new"
         /\ Goes(c, "new", "read")
         /\ current' = c
         /\ open' = [open EXCEPT ![c] = TRUE]
    /\ UNCHANGED <<wire, packet, checked, queue, responses, acked, down,
                   batch, awaiting, faults, commanded>>

SendBatch ==
    /\ current # 0 /\ batch <= Len(Batches) /\ ~awaiting
    /\ Sends(EncodeBatch(Batches[batch]))
    /\ awaiting' = TRUE
    /\ UNCHANGED <<streams, open, down, current, batch, commanded>>

\* Four bytes that are not zero are a number of records.
ReadAck ==
    /\ current # 0 /\ Len(down[current]) >= 4
    /\ LET number == Uint32(down[current], 0)
       IN  /\ number # 0
           /\ batch' = IF awaiting /\ number = Len(Batches[batch])
                       THEN batch + 1 ELSE batch
           /\ awaiting' = FALSE
    /\ down' = [down EXCEPT ![current] = SubSeq(@, 5, Len(@))]
    /\ UNCHANGED <<streams, wire, open, current, faults, commanded>>

\* Four zeros are the preamble of a command.
ReadCommand ==
    /\ current # 0 /\ Len(down[current]) >= 8
    /\ Uint32(down[current], 0) = 0
    /\ LET size == Uint32(down[current], 4)
           data == Slice(down[current], 8, size)
       IN  /\ Len(down[current]) >= 12 + size
           /\ down' = [down EXCEPT ![current] = SubSeq(@, 13 + size, Len(@))]
           /\ IF /\ ValidateCrc(data, Slice(down[current], 8 + size, 4))
                 /\ ParseDeviceResponse(data, 1).data = Command
              THEN Sends(EncodeResponse(Answer))
              ELSE UNCHANGED <<wire, faults>>
    /\ UNCHANGED <<streams, open, current, batch, awaiting, commanded>>

\* The tracker closes a connection, or loses it with what has not been
\* delivered, and makes another one.
Disconnect ==
    /\ current # 0 /\ current < MaxConns
    /\ open' = [open EXCEPT ![current] = FALSE]
    /\ \E n \in Lost : wire' = [wire EXCEPT ![current] = SubSeq(@, 1, Len(@) - n)]
    /\ current' = 0 /\ awaiting' = FALSE
    /\ UNCHANGED <<streams, down, batch, faults, commanded>>

Tracker == Connect \/ SendBatch \/ ReadAck \/ ReadCommand

\* Everything is delivered, or the last connection is made, and no stream has
\* bytes left.
Rest ==
    /\ batch > Len(Batches) \/ current = MaxConns
    /\ \A c \in Conns : place[c] \in {"new", "ended"} \/ (open[c] /\ wire[c] = <<>>)
    /\ UNCHANGED vars

Next ==
    \/ \E c \in Conns : ConsumeStream(c) \/ SendsCommand(c)
    \/ Tracker \/ Disconnect \/ Rest

Spec == Init /\ [][Next]_vars

\* When ConsumeStream(c), the tracker's own steps and its loss of patience are
\* enabled.  (Stated rather than left to ENABLED, under which TLC parses the
\* bytes over and over.)
Runnable(c) ==
    \/ place[c] = "queue"
    \/ place[c] = "read" /\ (~open[c] \/ consumeMessage(wire[c]) # Waits)
    \/ place[c] = "check" /\ (~open[c] \/ Len(wire[c]) >= 4)

TrackerRunnable ==
    IF current = 0 THEN \E c \in Conns : place[c] = "new"
    ELSE (batch <= Len(Batches) /\ ~awaiting) \/ Len(down[current]) >= 4

Impatient == awaiting /\ current # 0 /\ current < MaxConns

\* Weak fairness: goroutines that can run do, a tracker goes on, and one that
\* waits for an acknowledgement gives up in the end.
FairSpec ==
    /\ Spec
    /\ \A c \in Conns : []<>~Runnable(c) \/ []<><<ConsumeStream(c)>>_vars
    /\ []<>~TrackerRunnable \/ []<><<Tracker>>_vars
    /\ []<>~Impatient \/ []<><<Disconnect>>_vars

-----------------------------------------------------------------------------
(* Properties.                                                               *)

Places == {"new", "read", "queue", "check", "ended"}

\* Type correctness of what the receiver keeps and of the tracker's counters.
TypeOK ==
    /\ place \in [Conns -> Places]
    /\ open \in [Conns -> BOOLEAN]
    /\ acked \in [Conns -> Nat]
    /\ \A c \in Conns :
         /\ packet[c] = [left |-> packet[c].left, number |-> packet[c].number]
         /\ IsSequence(packet[c].left) /\ packet[c].number \in Nat
         /\ IsSequence(queue[c])
    /\ wire \in [Conns -> Seq(Byte)] /\ DOMAIN packet = Conns /\ DOMAIN queue = Conns
    /\ current \in Conns \cup {0}
    /\ batch \in Nat \ {0} /\ awaiting \in BOOLEAN

\* Of each packet, the records queued and those left are as many as the number
\* it will be acknowledged with; a connection that reads has no packet.
Accounting ==
    \A c \in Conns :
        /\ place[c] \in {"new", "read", "check"} => packet[c] = NoRecords
        /\ Len(packet[c].left) <= packet[c].number
        /\ Len(queue[c]) + Len(packet[c].left) = acked[c] + packet[c].number

\* The inductive invariant.
IInv == TypeOK /\ Accounting

\* No connection acknowledges more records than it has queued, whatever the
\* bytes on it are: the number in the acknowledgement is that of the packet,
\* the records are queued one by one (fm1200.go:253-267).
AckedAreQueued == \A c \in Conns : acked[c] <= Len(queue[c])

\* The store reads on each connection what the tracker has measured, once and
\* in order, from the batch the connection began with: in spite of damaged
\* packets, of connections lost in the middle of one, and of records that an
\* older connection queues again (consumeMessage and all it calls).
StoredAsReported ==
    \A c \in Conns :
        \E first \in 1..Len(Batches) + 1 :
            IsPrefix(queue[c],
                     FlattenSeq([i \in 1..Len(Batches) + 1 - first |->
                                    Reported(Batches[first + i - 1])]))

\* A response that is not the tracker's answer, queued because its checksum
\* is read later (fm1200.go:219), is the last thing its connection yields.
WrongResponseIsLast ==
    \A c \in Conns : \A i \in DOMAIN responses[c] :
        responses[c][i] # Answer =>
            i = Len(responses[c]) /\ place[c] \in {"check", "ended"}

\* The batches of which the store has been given every record.
Stored ==
    {b \in DOMAIN Batches :
        Range(Reported(Batches[b])) \subseteq UNION {Range(queue[c]) : c \in Conns}}

\* The tracker gives a batch up only when the store has it (fm1200.go:253-270).
AtLeastOnce == INSTANCE Delivery WITH stored <- Stored, acked <- batch - 1
Delivered == AtLeastOnce!Spec

\* Every batch is acknowledged in the end, with the tracker's connections and
\* faults bounded, and no command is answered in a way that stops the batches.
EverythingIsAcked == <>(batch > Len(Batches))

=============================================================================
