------------------------------ MODULE Gt06Session ------------------------------
(***************************************************************************)
(* A GT06 device and the connections it makes to the receiver, from the     *)
(* login packet on.  The device sends its messages in order and only waits  *)
(* for the replies to its login and its heartbeats; a heartbeat without one *)
(* is sent again over the next connection, any other message is not.  One   *)
(* byte of a message may be damaged, and a connection may break with bytes  *)
(* in either direction.                                                     *)
(***************************************************************************)
EXTENDS Gt06Packet, SequencesExt

CONSTANTS
    MaxConns,            \* how often the device connects
    Messages,            \* what it has to send
    IsHeartbeat(_),      \* does it wait for a reply to a message?
    Encode(_, _),        \* the packet of a message with a serial number
    LoginPacket,
    Reported(_),         \* the status of a message, no status if it is refused
    DamagedAt,           \* the positions at which a packet may be damaged
    Lost,                \* how many of the last bytes a broken connection loses
    MaxFaults            \* how many packets are damaged and connections broken

ASSUME Gt06Assumption ==
    /\ MaxConns \in Nat \ {0} /\ MaxFaults \in Nat
    /\ IsSequence(Messages) /\ LoginPacket \in Seq(Byte)
    /\ \A m \in DOMAIN Messages : Encode(Messages[m], Put(m, 2)) \in Seq(Byte)
    /\ Lost \subseteq Nat

\* A message as it is sent, with its number as the serial number.
Packed(m) == Encode(Messages[m], Put(m, 2))

\* Is a packet read as one, and to its end?
IsWhole(bytes, packet) == packet.kind = "packet" /\ packet.size = Len(bytes)

\* The zone of the device's login.
LoginZone == parsePacket(LoginPacket, 0).information.zone

\* The login reads as a packet, and each message as what it reports, unless it
\* is refused: of packets on their own, nothing before them and nothing behind.
ASSUME Gt06Codec ==
    /\ IsWhole(LoginPacket, parsePacket(LoginPacket, 0))
    /\ \A m \in DOMAIN Messages :
         LET packet == parsePacket(Packed(m), LoginZone)
         IN  \/ packet = Ends
             \/ /\ IsWhole(Packed(m), packet)
                /\ ToProtobufDeviceStatus(packet) = Reported(Messages[m])

VARIABLES
    place,     \* of the handler of each connection
    wire,      \* bytes the device has sent and parsePacket has not read
    open,      \* has the device not closed it?
    zone,      \* LoginInformation.Timezone
    taken,     \* the packets ConsumeStream has read
    replied,   \* the positions in `taken` of the packets it has replied to
    queue,     \* everything put into ProcessChan
    down,      \* bytes written to the device and not read by it
    current,   \* the device's connection, 0 when it has none
    next,      \* the message it is to send next
    awaiting,  \* the reply it waits for
    sent,      \* the messages sent over each connection
    clean,     \* how many of them before the first damaged one
    confirmed, \* how many of them before the last heartbeat with a reply
    faults

receiver == <<place, zone, taken, replied, queue>>
device == <<current, next, awaiting, sent, clean, confirmed, faults>>
vars == <<receiver, wire, open, down, device>>

Conns == 1..MaxConns

Init ==
    /\ place = [c \in Conns |-> "new"]
    /\ wire = [c \in Conns |-> <<>>]
    /\ open = [c \in Conns |-> FALSE]
    /\ zone = [c \in Conns |-> 0]
    /\ taken = [c \in Conns |-> <<>>]
    /\ replied = [c \in Conns |-> <<>>]
    /\ queue = [c \in Conns |-> <<>>]
    /\ down = [c \in Conns |-> <<>>]
    /\ current = 0 /\ next = 1 /\ awaiting = "nothing"
    /\ sent = [c \in Conns |-> <<>>]
    /\ clean = [c \in Conns |-> 0]
    /\ confirmed = [c \in Conns |-> 0]
    /\ faults = 0

-----------------------------------------------------------------------------
(* The receiver.                                                             *)

Goes(c, from, to) == place[c] = from /\ place' = [place EXCEPT ![c] = to]

\* Mutant: a reader of its own for each packet, which has buffered what follows.
Reads_Buffers(c, n) == wire' = [wire EXCEPT ![c] = <<>>]

Reads(c, n) == wire' = [wire EXCEPT ![c] = SubSeq(@, n + 1, Len(@))]

Writes(c, bytes) == down' = [down EXCEPT ![c] = @ \o bytes]

\* Login reads a login packet and HandleConnection writes its reply.
Login(c) ==
    LET packet == parsePacket(wire[c], 0)
    IN  /\ Goes(c, "login", "read")
        /\ packet.kind = "packet" /\ packet.type = MSG_LoginData
        /\ Reads(c, packet.size)
        /\ zone' = [zone EXCEPT ![c] = packet.information.zone]
        /\ Writes(c, sendResponse(packet))
        /\ UNCHANGED <<open, taken, replied, queue, device>>

\* The packet in hand.
Newest(c) == taken[c][Len(taken[c])]

\* Mutant: the type of a login.
NeedsReply_Login(type) == type = MSG_LoginData

NeedsReply(type) == type = MSG_HeartbeatData

TakePacket(c) ==
    LET packet == parsePacket(wire[c], zone[c])
    IN  /\ place[c] = "read" /\ packet.kind = "packet"
        /\ Goes(c, "read", IF NeedsReply(packet.type) THEN "reply" ELSE "queue")
        /\ Reads(c, packet.size)
        /\ taken' = [taken EXCEPT ![c] = Append(@, packet)]
        /\ UNCHANGED <<open, zone, replied, queue, down, device>>

\* A heartbeat is replied to before its status is queued.  A write to a
\* connection the device has closed may still succeed.
SendReply(c) ==
    /\ Goes(c, "reply", "queue")
    /\ Writes(c, sendResponse(Newest(c)))
    /\ replied' = [replied EXCEPT ![c] = Append(@, Len(taken[c]))]
    /\ UNCHANGED <<wire, open, zone, taken, queue, device>>

\* Mutant: a full queue drops the status, as OBDII2G does.
QueueStatus_Drops(c) ==
    /\ Goes(c, "queue", "read")
    /\ queue' \in {queue, [queue EXCEPT ![c] = Append(@, ToProtobufDeviceStatus(Newest(c)))]}
    /\ UNCHANGED <<wire, open, zone, taken, replied, down, device>>

QueueStatus(c) ==
    /\ Goes(c, "queue", "read")
    /\ queue' = [queue EXCEPT ![c] = Append(@, ToProtobufDeviceStatus(Newest(c)))]
    /\ UNCHANGED <<wire, open, zone, taken, replied, down, device>>

\* A login that is none, a packet with an error, the end of the stream, or a
\* reply that cannot be written.
StreamEnds(c) ==
    /\ \/ /\ Goes(c, "login", "ended")
          /\ LET packet == parsePacket(wire[c], 0)
             IN  \/ packet = Ends
                 \/ packet = Waits /\ ~open[c]
                 \/ packet.kind = "packet" /\ (packet.type # MSG_LoginData \/ ~open[c])
       \/ /\ Goes(c, "read", "ended")
          /\ LET packet == parsePacket(wire[c], zone[c])
             IN  packet = Ends \/ (packet = Waits /\ ~open[c])
       \/ Goes(c, "reply", "ended") /\ ~open[c]
    /\ UNCHANGED <<wire, open, zone, taken, replied, queue, down, device>>

HandleConnection(c) ==
    Login(c) \/ TakePacket(c) \/ SendReply(c) \/ QueueStatus(c) \/ StreamEnds(c)

-----------------------------------------------------------------------------
(* The device.                                                               *)

\* A packet with the next byte at one position.
Damaged(bytes) ==
    {[bytes EXCEPT ![i] = (@ + 1) % 256] : i \in DamagedAt \cap DOMAIN bytes}

\* Nothing but a packet is read of it, whatever follows: it is one, or an error,
\* or becomes one with the next byte.
Framed(bytes) ==
    LET packet == parsePacket(bytes, LoginZone)
    IN  \/ IsWhole(bytes, packet)
        \/ packet = Ends
        \/ \A b \in Byte : parsePacket(Append(bytes, b), LoginZone) = Ends

\* What damage does to a packet does not go unseen where it moves the end of
\* the packet, and does not make a heartbeat of another message.
DamageIsSeen ==
    \A m \in DOMAIN Messages :
        \A bytes \in Damaged(Packed(m)) \cup {Packed(m)} :
            LET packet == parsePacket(bytes, LoginZone)
            IN  /\ Framed(bytes)
                /\ packet.kind = "packet" /\ packet.type = MSG_HeartbeatData =>
                     \A n \in DOMAIN Messages : packet.serial = Put(n, 2) => n = m

Connect ==
    /\ current = 0
    /\ \E c \in Conns :
         /\ place[c] = "new" /\ \A d \in 1..c - 1 : place[d] # "new"
         /\ Goes(c, "new", "login")
         /\ current' = c
         /\ open' = [open EXCEPT ![c] = TRUE]
         /\ wire' = [wire EXCEPT ![c] = LoginPacket]
    /\ awaiting' = "login"
    /\ UNCHANGED <<zone, taken, replied, queue, down, next, sent, clean, confirmed, faults>>

\* All messages of this connection are as they were sent.
Undamaged(c) == clean[c] = Len(sent[c])

SendMessage ==
    /\ current # 0 /\ awaiting = "nothing" /\ next <= Len(Messages)
    /\ sent' = [sent EXCEPT ![current] = Append(@, next)]
    /\ IF IsHeartbeat(Messages[next])
       THEN awaiting' = "reply" /\ next' = next
       ELSE awaiting' = "nothing" /\ next' = next + 1
    /\ LET packet == Packed(next)
       IN  \/ /\ wire' = [wire EXCEPT ![current] = @ \o packet]
              /\ clean' = IF Undamaged(current)
                          THEN [clean EXCEPT ![current] = @ + 1] ELSE clean
              /\ UNCHANGED faults
           \/ /\ faults < MaxFaults /\ faults' = faults + 1
              /\ \E p \in Damaged(packet) : wire' = [wire EXCEPT ![current] = @ \o p]
              /\ UNCHANGED clean
    /\ UNCHANGED <<receiver, open, down, current, confirmed>>

\* Ten bytes: start, length, type, serial number, checksum, stop.
IsReply(reply, type, serial) ==
    /\ Slice(reply, 0, 6) = <<120, 120, 5, type>> \o serial
    /\ Slice(reply, 6, 2) = Put(CrcWanway(Slice(reply, 2, 4)), 2)
    /\ Slice(reply, 8, 2) = StopBits

ReadReply ==
    /\ current # 0 /\ Len(down[current]) >= 10
    /\ down' = [down EXCEPT ![current] = SubSeq(@, 11, Len(@))]
    /\ LET reply == Slice(down[current], 0, 10)
       IN  IF awaiting = "login" /\ IsReply(reply, MSG_LoginData, <<0, 0>>)
           THEN awaiting' = "nothing" /\ UNCHANGED <<next, confirmed>>
           ELSE IF awaiting = "reply" /\ IsReply(reply, MSG_HeartbeatData, Put(next, 2))
           THEN /\ awaiting' = "nothing" /\ next' = next + 1
                /\ confirmed' = [confirmed EXCEPT ![current] = Len(sent[current]) - 1]
           ELSE UNCHANGED <<awaiting, next, confirmed>>
    /\ UNCHANGED <<receiver, wire, open, current, sent, clean, faults>>

Closes ==
    /\ open' = [open EXCEPT ![current] = FALSE]
    /\ current' = 0 /\ awaiting' = "nothing"
    /\ UNCHANGED <<receiver, down, next, sent, clean, confirmed>>

\* The connection breaks, and what has not been delivered is lost.
Break ==
    /\ current # 0 /\ faults < MaxFaults /\ faults' = faults + 1
    /\ \E n \in Lost : wire' = [wire EXCEPT ![current] = SubSeq(@, 1, Len(@) - n)]
    /\ Closes

\* The receiver has closed it, or a damaged packet has cost a reply.
GiveUp ==
    /\ current # 0 /\ current < MaxConns
    /\ place[current] = "ended" \/ (awaiting = "reply" /\ ~Undamaged(current))
    /\ UNCHANGED <<wire, faults>>
    /\ Closes

Device == Connect \/ SendMessage \/ ReadReply \/ GiveUp

\* When HandleConnection(c), and the device, are enabled.  (Stated rather than
\* left to ENABLED, under which TLC parses the bytes over and over.)
Runnable(c) ==
    \/ place[c] \in {"reply", "queue"}
    \/ place[c] \in {"login", "read"} /\ (~open[c] \/ parsePacket(wire[c], zone[c]) # Waits)

DeviceRunnable ==
    IF current = 0 THEN \E c \in Conns : place[c] = "new"
    ELSE \/ awaiting = "nothing" /\ next <= Len(Messages)
         \/ Len(down[current]) >= 10
         \/ /\ current < MaxConns
            /\ place[current] = "ended" \/ (awaiting = "reply" /\ ~Undamaged(current))

\* Nobody can go on.
Rest == (\A c \in Conns : ~Runnable(c)) /\ ~DeviceRunnable /\ UNCHANGED vars

Next == (\E c \in Conns : HandleConnection(c)) \/ Device \/ Break \/ Rest

Spec == Init /\ [][Next]_vars

\* Weak fairness of the goroutines and of the device, not of its faults.
FairSpec ==
    /\ Spec
    /\ \A c \in Conns : []<>~Runnable(c) \/ []<><<HandleConnection(c)>>_vars
    /\ []<>~DeviceRunnable \/ []<><<Device>>_vars

-----------------------------------------------------------------------------
(* Properties.                                                               *)

Places == {"new", "login", "read", "reply", "queue", "ended"}

\* Type correctness of what the receiver keeps of each connection.
TypeOK ==
    /\ place \in [Conns -> Places]
    /\ DOMAIN taken = Conns /\ DOMAIN replied = Conns /\ DOMAIN queue = Conns
    /\ \A c \in Conns :
         IsSequence(taken[c]) /\ IsSequence(queue[c]) /\ IsSequence(replied[c])

\* Packets are queued one by one, in the order they come in; the last one is
\* not queued before its reply, and never if that cannot be written.
QueueFollowsPackets(c) ==
    /\ Len(taken[c]) \in {Len(queue[c]), Len(queue[c]) + 1}
    /\ place[c] \in {"reply", "queue"} => Len(taken[c]) = Len(queue[c]) + 1
    /\ place[c] \in {"new", "login", "read"} => Len(taken[c]) = Len(queue[c])
    /\ \A i \in DOMAIN queue[c] : queue[c][i] = ToProtobufDeviceStatus(taken[c][i])

\* How many packets are past their reply.
Answered(c) == IF place[c] = "queue" THEN Len(taken[c]) ELSE Len(queue[c])

\* The heartbeats among these are replied to, each once and in order, and a
\* reply is due to nothing else.
HeartbeatsAreReplied(c) ==
    /\ \A i \in 1..Answered(c) :
         taken[c][i].type = MSG_HeartbeatData <=> i \in Range(replied[c])
    /\ \A i \in DOMAIN replied[c] : replied[c][i] \in 1..Answered(c)
    /\ \A i, j \in DOMAIN replied[c] : i < j => replied[c][i] < replied[c][j]
    /\ place[c] = "reply" => Newest(c).type = MSG_HeartbeatData

\* The inductive invariant.
IInv ==
    /\ TypeOK
    /\ \A c \in Conns : QueueFollowsPackets(c) /\ HeartbeatsAreReplied(c)

\* The store gets of each connection what the device sent over it, packet by
\* packet, up to the first one damaged: nothing is skipped, merged or made up,
\* and a message the receiver cannot read ends the connection (parsePacket and
\* all it calls, ToProtobufDeviceStatus).
QueueIsWhatWasSent ==
    \A c \in Conns : \A i \in DOMAIN queue[c] :
        IF i <= clean[c] THEN queue[c][i] = Reported(Messages[sent[c][i]])
        ELSE ~Undamaged(c)

\* When the device reads the reply to a heartbeat, everything it sent before
\* that heartbeat is in the queue (gt06.go:100-120).
ReplyConfirms ==
    \A c \in Conns : Len(queue[c]) >= confirmed[c]

\* The device gets through its messages, with as many connections as there are
\* messages the receiver refuses, and faults: no heartbeat waits for ever.
EverythingIsSent == <>(next > Len(Messages))

==============================================================================
