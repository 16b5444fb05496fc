-------------------------- MODULE WebSocketLoopProofs --------------------------
(***************************************************************************)
(* The loop of the websocket leaves no socket and no worker behind, for any *)
(* messages, capacity and number of faults: only the places, the close      *)
(* channel and the two ends of a connection matter, so that most steps are  *)
(* proved by what they leave alone.  The accounts of a connection only grow.*)
(* And the store is given what the platform feeds: the bytes on a connection*)
(* that is still read are the rest of the feed, up to the first message that*)
(* cannot be parsed.                                                        *)
(***************************************************************************)
EXTENDS WebSocketLoop, SequenceTheorems, TLAPS

USE LoopAssumption

\* What IInv is about.
control == <<storeType, place, conn, open, closeChan, worker>>

\* The constants of the loop are numbers, and its connections too.
LEMMA ConnsAreNumbers ==
    /\ MaxFaults \in Nat /\ CloseCapacity \in Nat \ {0}
    /\ \A c \in Conns : c \in Nat \ {0} /\ c <= MaxFaults + 1
  BY DEF Conns, CloseCapacity

\* The initial state has no connection.
LEMMA InitOK == Init => IInv
  BY ConnsAreNumbers DEF Init, IInv, TypeOK, OneSocket, NoWorkerForgotten, Served, Connected

\* A step that leaves the control alone keeps the invariant.
LEMMA StutterOK == ASSUME IInv, UNCHANGED control PROVE IInv'
  BY DEF IInv, TypeOK, OneSocket, NoWorkerForgotten, Served, Connected, control

\* The steps of startWebSocket before and after a connection.
LEMMA OutsideOK ==
    ASSUME IInv, getAuthToken \/ getAuthTokenFails \/ Dial \/ DialFails \/ Sleep
    PROVE  IInv'
<1>1. CASE getAuthToken
  BY <1>1 DEF getAuthToken, Goes, IInv, TypeOK, OneSocket, NoWorkerForgotten, Served,
              Connected, stores
<1>2. CASE getAuthTokenFails
  BY <1>2 DEF getAuthTokenFails, Goes, IInv, TypeOK, OneSocket, NoWorkerForgotten, Served,
              Connected, stores
<1>3. CASE Dial
  <2>1. /\ place = "dial" /\ place' = "login" /\ conn' = conn + 1 /\ conn' \in Conns
        /\ open' = [open EXCEPT ![conn'] = TRUE]
        /\ UNCHANGED <<storeType, closeChan, worker>>
    BY <1>3 DEF Dial, Goes, stores
  <2>2. conn \in Nat /\ conn' > conn /\ \A c \in Conns : c > conn' => c > conn
    BY <2>1, ConnsAreNumbers DEF IInv, TypeOK
  <2>3. TypeOK'
    BY <2>1, ConnsAreNumbers DEF IInv, TypeOK, Connected, Conns
  <2>4. OneSocket'
    BY <2>1 DEF IInv, TypeOK, OneSocket, Connected
  <2>5. NoWorkerForgotten'
    BY <2>1, <2>2, ConnsAreNumbers
    DEF IInv, TypeOK, OneSocket, NoWorkerForgotten, Served, Connected
  <2> QED
    BY <2>3, <2>4, <2>5 DEF IInv
<1>4. CASE DialFails
  BY <1>4 DEF DialFails, Goes, IInv, TypeOK, OneSocket, NoWorkerForgotten, Served,
              Connected, stores
<1>5. CASE Sleep
  BY <1>5 DEF Sleep, Goes, IInv, TypeOK, OneSocket, NoWorkerForgotten, Served,
              Connected, stores
<1> QED
  BY <1>1, <1>2, <1>3, <1>4, <1>5

\* The login on a connection.
LEMMA LoginOK ==
    ASSUME IInv, WriteLogin \/ LoginFails \/ ReadResponse
    PROVE  IInv'
<1>1. CASE WriteLogin
  BY <1>1 DEF WriteLogin, Goes, IInv, TypeOK, OneSocket, NoWorkerForgotten, Served,
              Connected, stores
<1>2. CASE LoginFails
  <2>1. /\ place \in {"login", "response"} /\ place' = "dial"
        /\ open' = [open EXCEPT ![conn] = FALSE]
        /\ UNCHANGED <<storeType, conn, closeChan, worker>>
    BY <1>2 DEF LoginFails, Goes, CloseFailed, stores
  <2> QED
    BY <2>1 DEF IInv, TypeOK, OneSocket, NoWorkerForgotten, Served, Connected
<1>3. CASE ReadResponse
  BY <1>3 DEF ReadResponse, Goes, IInv, TypeOK, OneSocket, NoWorkerForgotten, Served,
              Connected, stores
<1> QED
  BY <1>1, <1>2, <1>3

\* HandleMessage: its worker starts with the service and has its token when it
\* ends.
LEMMA HandleMessageOK == ASSUME IInv, HandleMessage PROVE IInv'
<1>1. CASE MakeStore
  <2>1. /\ place = "store" /\ place' = "consume"
        /\ worker' = [worker EXCEPT ![conn] = "select"]
        /\ UNCHANGED <<storeType, conn, open, closeChan>>
    BY <1>1 DEF MakeStore, Goes
  <2>2. conn \in Conns /\ closeChan[conn] = 0 /\ ~(conn > conn)
    BY <2>1, ConnsAreNumbers DEF IInv, NoWorkerForgotten, Connected
  <2> QED
    BY <2>1, <2>2 DEF IInv, TypeOK, OneSocket, NoWorkerForgotten, Served, Connected
<1>2. CASE MakeStorePanics
  BY <1>2 DEF MakeStorePanics, Goes, IInv, TypeOK, OneSocket, NoWorkerForgotten, Served,
              Connected, stores
<1>3. CASE ConsumeMessage
  <2>1. /\ place = "consume" /\ place' \in {"consume", "queue"}
        /\ UNCHANGED <<storeType, conn, open, closeChan, worker>>
    BY <1>3 DEF ConsumeMessage, stores
  <2> QED
    BY <2>1 DEF IInv, TypeOK, OneSocket, NoWorkerForgotten, Served, Connected
<1>4. CASE QueueStatus
  BY <1>4 DEF QueueStatus, Goes, IInv, TypeOK, OneSocket, NoWorkerForgotten, Served,
              Connected
<1>5. CASE ConsumeReturns
  <2>1. /\ place = "consume" /\ place' = "signal"
        /\ UNCHANGED <<storeType, conn, open, closeChan, worker>>
    BY <1>5 DEF ConsumeReturns, Goes, stores
  <2> QED
    BY <2>1 DEF IInv, TypeOK, OneSocket, NoWorkerForgotten, Served, Connected
<1>6. CASE SignalProcess
  <2>1. /\ place = "signal" /\ place' = "close"
        /\ closeChan' = [closeChan EXCEPT ![conn] = @ + 1]
        /\ UNCHANGED <<storeType, conn, open, worker>>
    BY <1>6 DEF SignalProcess, Goes
  <2>2. /\ conn \in Conns /\ worker[conn] \in {"select", "saving"} /\ closeChan[conn] \in Nat
        /\ ~(conn > conn)
    BY <2>1, ConnsAreNumbers DEF IInv, TypeOK, NoWorkerForgotten, Served, Connected
  <2>3. closeChan[conn] = 0 /\ closeChan'[conn] = 1
    BY <2>1, <2>2 DEF IInv, TypeOK, NoWorkerForgotten, Served
  <2>4. \A c \in Conns : c # conn => closeChan'[c] = closeChan[c]
    BY <2>1 DEF IInv, TypeOK
  <2>5. closeChan' \in [Conns -> Nat]
    BY <2>1, <2>2 DEF IInv, TypeOK
  <2>6. TypeOK' /\ OneSocket'
    BY <2>1, <2>5 DEF IInv, TypeOK, OneSocket, Connected
  <2>7. \A d \in Conns : worker'[d] \in {"select", "saving"} => closeChan'[d] = 1
    BY <2>1, <2>3, <2>4 DEF IInv, NoWorkerForgotten
  <2>8. \A d \in Conns : d > conn => d # conn
    BY ConnsAreNumbers, <2>2
  <2>9. NoWorkerForgotten'
    BY <2>1, <2>2, <2>4, <2>7, <2>8 DEF IInv, NoWorkerForgotten, Served, Connected
  <2> QED
    BY <2>6, <2>9 DEF IInv
<1>7. CASE Close
  <2>1. /\ place = "close" /\ place' = "dial" /\ open' = [open EXCEPT ![conn] = FALSE]
        /\ UNCHANGED <<storeType, conn, closeChan, worker>>
    BY <1>7 DEF Close, Goes, stores
  <2> QED
    BY <2>1 DEF IInv, TypeOK, OneSocket, NoWorkerForgotten, Served, Connected
<1> QED
  BY <1>1, <1>2, <1>3, <1>4, <1>5, <1>6, <1>7 DEF HandleMessage

\* A worker takes its token and is gone; its other steps change its place only.
LEMMA ProcessOK == ASSUME IInv, NEW c \in Conns, Process(c) PROVE IInv'
<1>1. CASE ProcessTakes(c)
  <2>1. /\ worker[c] = "select" /\ worker' = [worker EXCEPT ![c] = "saving"]
        /\ UNCHANGED <<storeType, place, conn, open, closeChan>>
    BY <1>1 DEF ProcessTakes
  <2> QED
    BY <2>1 DEF IInv, TypeOK, OneSocket, NoWorkerForgotten, Served, Connected
<1>2. CASE ProcessSaved(c) \/ ProcessFails(c)
  <2>1. /\ worker[c] = "saving" /\ worker' = [worker EXCEPT ![c] = "select"]
        /\ UNCHANGED <<storeType, place, conn, open, closeChan>>
    BY <1>2 DEF ProcessSaved, ProcessFails
  <2> QED
    BY <2>1 DEF IInv, TypeOK, OneSocket, NoWorkerForgotten, Served, Connected
<1>3. CASE ProcessStops(c)
  <2>1. /\ worker[c] = "select" /\ closeChan[c] > 0
        /\ worker' = [worker EXCEPT ![c] = "ended"]
        /\ closeChan' = [closeChan EXCEPT ![c] = @ - 1]
        /\ UNCHANGED <<storeType, place, conn, open>>
    BY <1>3 DEF ProcessStops
  <2>2. closeChan[c] = 1
    BY <2>1 DEF IInv, TypeOK, NoWorkerForgotten
  <2>3. closeChan' \in [Conns -> Nat] /\ closeChan'[c] = 0
    BY <2>1, <2>2 DEF IInv, TypeOK
  <2>4. c = conn => place \notin Served
    BY <2>1, <2>2 DEF IInv, NoWorkerForgotten, Served
  <2>5. \A d \in Conns : d # c => worker'[d] = worker[d] /\ closeChan'[d] = closeChan[d]
    BY <2>1 DEF IInv, TypeOK
  <2>6. worker'[c] = "ended" /\ worker' \in [Conns -> {"none", "select", "saving", "ended"}]
    BY <2>1 DEF IInv, TypeOK
  <2>7. ~(c > conn) /\ (c = conn => place \notin {"login", "response", "store"})
    BY <2>1 DEF IInv, NoWorkerForgotten
  <2>8. TypeOK' /\ OneSocket'
    BY <2>1, <2>3, <2>6 DEF IInv, TypeOK, OneSocket, Connected
  <2>9. NoWorkerForgotten'
    BY <2>1, <2>4, <2>5, <2>6, <2>7 DEF IInv, NoWorkerForgotten, Served, Connected
  <2> QED
    BY <2>8, <2>9 DEF IInv
<1> QED
  BY <1>1, <1>2, <1>3 DEF Process

\* The platform, the network and the store do not touch the control.
LEMMA OthersLeaveControl ==
    ASSUME \/ StoreHangs \/ Rest
           \/ \E c \in Conns : AnswerLogin(c) \/ Feed(c) \/ FeedsBad(c) \/ Breaks(c)
    PROVE  UNCHANGED control
  BY DEF AnswerLogin, Feed, FeedsBad, Breaks, StoreHangs, Rest, vars, stores, control

\* For any feed, queue and number of faults: when the loop dials, every socket
\* it had is closed, no worker of an earlier connection is without its token,
\* and there is always room for the token (receiver.go:238-273,
\* webSocketHandler.go:31-38).
THEOREM Invariance == Spec => []IInv
<1>1. IInv /\ [Next]_vars => IInv'
  <2> SUFFICES ASSUME IInv, [Next]_vars PROVE IInv'
    OBVIOUS
  <2>1. CASE startWebSocket
    BY <2>1, OutsideOK, LoginOK, HandleMessageOK DEF startWebSocket
  <2>2. CASE \E c \in Conns : Process(c)
    BY <2>2, ProcessOK
  <2>3. CASE \/ StoreHangs \/ Rest
             \/ \E c \in Conns : AnswerLogin(c) \/ Feed(c) \/ FeedsBad(c) \/ Breaks(c)
    BY <2>3, OthersLeaveControl, StutterOK
  <2>4. CASE UNCHANGED vars
    BY <2>4, StutterOK DEF vars, stores, control
  <2> QED
    BY <2>1, <2>2, <2>3, <2>4 DEF Next
<1> QED
  BY <1>1, InitOK, PTL DEF Spec

-----------------------------------------------------------------------------
(* What is read is given to the store.                                       *)

\* What can be on a wire, for any messages of the platform, and what can be in
\* a queue.
Sent == {Messages[i] : i \in Nat} \cup {Response(a) : a \in BOOLEAN} \cup {BadMessage}

Statuses == UNION {{ToProtobufDeviceStatusGPS(m.payload),
                    ToProtobufDeviceStatusAlarm(m.payload)} : m \in Sent}

\* The sequences, and what is empty between two steps of a goroutine.
FlowOK ==
    /\ conn \in Nat
    /\ fed \in [Conns -> Nat] /\ got \in [Conns -> Nat]
    /\ wire \in [Conns -> Seq(Sent)]
    /\ queue \in [Conns -> Seq(Statuses)]
    /\ inWork \in [Conns -> Seq(Statuses)]
    /\ tried \in [Conns -> Seq(Statuses)]
    /\ inHand \in Seq(Statuses)
    /\ worker \in [Conns -> {"none", "select", "saving", "ended"}]
    /\ \A c \in Conns : worker[c] # "saving" => inWork[c] = <<>>
    /\ place # "queue" => inHand = <<>>
    /\ place \in Connected => conn \in Conns

\* A message gives at most one status.
LEMMA StatusType == ASSUME NEW m \in Sent PROVE Status(m) \in Seq(Statuses)
<1>1. /\ ToProtobufDeviceStatusGPS(m.payload) \in Statuses
      /\ ToProtobufDeviceStatusAlarm(m.payload) \in Statuses
  BY ZenonT(30) DEF Statuses
<1> HIDE DEF Statuses
<1>2. \A s \in Statuses : <<s>> \in Seq(Statuses)
  OBVIOUS
<1>3. <<>> \in Seq(Statuses)
  OBVIOUS
<1> QED
  BY <1>1, <1>2, <1>3 DEF Status

\* Concatenation under names of its own, into which the provers do not look.
Joined(a, b, c)  == (a \o b) \o c
Grouped(a, b, c) == (a \o (b \o c)) \o <<>>
Emptied(a)       == a \o <<>>

\* What the accounts need to know of it.
LEMMA Joining ==
    /\ \A a \in Seq(Statuses) : Emptied(a) = a
    /\ \A a, b, c \in Seq(Statuses) : Joined(a, b, c) = Grouped(a, b, c)
<1>1. ASSUME NEW a \in Seq(Statuses) PROVE Emptied(a) = a
  BY ConcatEmptySeq DEF Emptied
<1>2. ASSUME NEW a \in Seq(Statuses), NEW b \in Seq(Statuses), NEW c \in Seq(Statuses)
      PROVE  Joined(a, b, c) = Grouped(a, b, c)
  <2>1. (a \o b) \o c = a \o (b \o c)
    BY ConcatAssociative
  <2>2. a \o (b \o c) \in Seq(Statuses)
    OBVIOUS
  <2>3. Emptied(a \o (b \o c)) = a \o (b \o c)
    BY <1>1, <2>2, Zenon
  <2> QED
    BY <2>1, <2>3, Zenon DEF Joined, Grouped, Emptied
<1> QED
  BY <1>1, <1>2

\* The account of a connection depends on its stores and on what is in hand.
LEMMA AccountStays ==
    ASSUME FlowOK, UNCHANGED <<conn, tried, inWork, queue, inHand>>, NEW c \in Conns
    PROVE  Account(c)' = Account(c)
  BY DEF Account

LEMMA FlowInit == Init => FlowOK
<1> SUFFICES ASSUME Init PROVE FlowOK
  OBVIOUS
<1>1. \A S : <<>> \in Seq(S)
  OBVIOUS
<1> QED
  BY <1>1 DEF Init, FlowOK, Connected

\* What AccountsGrow says of a step.
Grows ==
    \A c \in Conns :
        Account(c)' = IF got'[c] = got[c] THEN Account(c)
                      ELSE Account(c) \o Status(Head(wire[c]))

\* The steps that move the loop's goroutine only, or the wire.
LEMMA FlowMoves ==
    ASSUME FlowOK, UNCHANGED <<queue, worker, inWork, tried, reading, fed, conn>>,
           wire' \in [Conns -> Seq(Sent)],
           \/ place' = place
           \/ /\ place # "queue" /\ place' # "queue"
              /\ place' \in Connected => place \in Connected
    PROVE  FlowOK' /\ Grows
<1>1. FlowOK'
  BY DEF FlowOK, reading
<1> QED
  BY <1>1, AccountStays DEF reading, Grows

\* startWebSocket, except for HandleMessage.
LEMMA FlowOutside ==
    ASSUME FlowOK,
           \/ getAuthToken \/ getAuthTokenFails \/ Dial \/ DialFails \/ Sleep
           \/ WriteLogin \/ LoginFails \/ ReadResponse
    PROVE  FlowOK' /\ Grows
<1>1. CASE getAuthToken \/ getAuthTokenFails \/ DialFails \/ Sleep
  <2>1. /\ UNCHANGED <<queue, worker, inWork, tried, reading, fed, conn, wire>>
        /\ place # "queue" /\ place' \in {"dial", "exited", "sleep"}
    BY <1>1 DEF getAuthToken, getAuthTokenFails, DialFails, Sleep, Goes, stores, platform
  <2> QED
    BY <2>1, FlowMoves DEF FlowOK, Connected
<1>2. CASE Dial
  <2>1. /\ UNCHANGED <<queue, worker, inWork, tried, reading, fed, wire>>
        /\ place = "dial" /\ place' = "login" /\ conn' = conn + 1 /\ conn' \in Conns
    BY <1>2 DEF Dial, Goes, stores
  <2>2. inHand = <<>>
    BY <2>1 DEF FlowOK
  <2>3. FlowOK'
    BY <2>1, <2>2 DEF FlowOK, reading
  <2>4. \A c \in Conns : Account(c)' = Account(c)
    BY <2>1, <2>2 DEF Account, reading
  <2> QED
    BY <2>1, <2>3, <2>4 DEF Grows, reading
<1>3. CASE WriteLogin \/ LoginFails
  <2>1. /\ UNCHANGED <<queue, worker, inWork, tried, reading, fed, conn, wire>>
        /\ place \in {"login", "response"} /\ place' \in {"response", "dial"}
    BY <1>3 DEF WriteLogin, LoginFails, Goes, stores, platform
  <2> QED
    BY <2>1, FlowMoves DEF FlowOK, Connected
<1>4. CASE ReadResponse
  <2>1. /\ UNCHANGED <<queue, worker, inWork, tried, reading, fed, conn>>
        /\ place = "response" /\ place' = "store"
        /\ wire[conn] # <<>> /\ wire' = [wire EXCEPT ![conn] = Tail(@)]
    BY <1>4 DEF ReadResponse, Read, Goes, stores
  <2>2. conn \in Conns /\ wire[conn] \in Seq(Sent)
    BY <2>1 DEF FlowOK, Connected
  <2>3. Tail(wire[conn]) \in Seq(Sent)
    BY <2>1, <2>2
  <2>4. wire' \in [Conns -> Seq(Sent)]
    BY <2>1, <2>3 DEF FlowOK
  <2> QED
    BY <2>1, <2>4, FlowMoves DEF Connected
<1> QED
  BY <1>1, <1>2, <1>3, <1>4

\* A message moves from the wire to the hand.
LEMMA FlowConsume == ASSUME FlowOK, ConsumeMessage PROVE FlowOK' /\ Grows
<1> DEFINE message == Head(wire[conn])
           status  == Status(message)
<1>1. /\ place = "consume" /\ wire[conn] # <<>> /\ inHand' = status
      /\ place' \in {"consume", "queue"} /\ (place' = "consume" => inHand' = <<>>)
      /\ got' = [got EXCEPT ![conn] = @ + 1]
      /\ wire' = [wire EXCEPT ![conn] = Tail(@)]
      /\ UNCHANGED <<conn, queue, worker, inWork, tried, fed>>
  BY DEF ConsumeMessage, Read, stores
<1>2. conn \in Conns /\ wire[conn] \in Seq(Sent) /\ inHand = <<>> /\ got[conn] \in Nat
  BY <1>1 DEF FlowOK, Connected
<1>3. message \in Sent /\ Tail(wire[conn]) \in Seq(Sent)
  BY <1>1, <1>2
<1>4. status \in Seq(Statuses)
  BY <1>3, StatusType
<1> HIDE DEF message, status
<1>5. FlowOK'
  <2>1. wire' \in [Conns -> Seq(Sent)]
    BY <1>1, <1>3 DEF FlowOK
  <2>2. got' \in [Conns -> Nat]
    BY <1>1, <1>2 DEF FlowOK
  <2>3. inHand' \in Seq(Statuses) /\ (place' # "queue" => inHand' = <<>>)
    BY <1>1, <1>4
  <2> QED
    BY <1>1, <1>2, <2>1, <2>2, <2>3 DEF FlowOK
<1>6. ASSUME NEW c \in Conns, c # conn
      PROVE  got'[c] = got[c] /\ Account(c)' = Account(c)
  BY <1>1, <1>6 DEF Account, FlowOK
<1>7. ASSUME NEW c \in Conns, c = conn
      PROVE  got'[c] # got[c] /\ Account(c)' = Account(c) \o status
  <2> DEFINE rest == tried[c] \o inWork[c] \o queue[c]
  <2>1. rest \in Seq(Statuses)
    BY DEF FlowOK
  <2>2. Account(c) = rest \o <<>> /\ Account(c)' = rest \o status
    BY <1>1, <1>2, <1>7 DEF Account
  <2> HIDE DEF rest
  <2>3. rest \o <<>> = rest
    BY <2>1, ConcatEmptySeq
  <2>4. got'[c] = got[c] + 1
    BY <1>1, <1>2, <1>7 DEF FlowOK
  <2> QED
    BY <1>2, <1>7, <2>2, <2>3, <2>4
<1>8. ASSUME NEW c \in Conns
      PROVE  Account(c)' = IF got'[c] = got[c] THEN Account(c)
                           ELSE Account(c) \o Status(Head(wire[c]))
  <2>1. CASE c = conn
    <3>1. status = Status(Head(wire[c]))
      BY <2>1 DEF status, message
    <3> QED
      BY <1>7, <2>1, <3>1, Zenon
  <2>2. CASE c # conn
    BY <1>6, <2>2, Zenon
  <2> QED
    BY <2>1, <2>2, Zenon
<1> QED
  BY <1>5, <1>8 DEF Grows

\* A status moves from the hand to the end of the queue.
LEMMA FlowQueue == ASSUME FlowOK, QueueStatus PROVE FlowOK' /\ Grows
<1>1. /\ place = "queue" /\ place' = "consume" /\ inHand' = <<>>
      /\ queue' = [queue EXCEPT ![conn] = @ \o inHand]
      /\ UNCHANGED <<conn, worker, inWork, tried, got, fed, wire>>
  BY DEF QueueStatus, Goes, platform
<1>2. /\ conn \in Conns /\ queue[conn] \in Seq(Statuses) /\ inHand \in Seq(Statuses)
      /\ queue'[conn] = queue[conn] \o inHand
  BY <1>1 DEF FlowOK, Connected
<1>3. queue[conn] \o inHand \in Seq(Statuses) /\ <<>> \in Seq(Statuses)
  BY <1>2
<1>4. FlowOK'
  BY <1>1, <1>2, <1>3 DEF FlowOK, Connected
<1>5. ASSUME NEW c \in Conns, c # conn PROVE Account(c)' = Account(c)
  BY <1>1, <1>5 DEF Account, FlowOK
<1>6. ASSUME NEW c \in Conns, c = conn PROVE Account(c)' = Account(c)
  <2> DEFINE before == tried[c] \o inWork[c]
  <2>1. before \in Seq(Statuses) /\ queue[c] \in Seq(Statuses)
    BY DEF FlowOK
  <2>2. /\ Account(c) = before \o queue[c] \o inHand
        /\ Account(c)' = before \o (queue[c] \o inHand) \o <<>>
    BY <1>1, <1>2, <1>6 DEF Account
  <2> HIDE DEF before
  <2>3. Account(c) = Joined(before, queue[c], inHand)
    BY <2>2 DEF Joined
  <2>4. Account(c)' = Grouped(before, queue[c], inHand)
    BY <2>2 DEF Grouped
  <2>5. inHand \in Seq(Statuses)
    BY <1>2
  <2>6. Joined(before, queue[c], inHand) = Grouped(before, queue[c], inHand)
    BY <2>1, <2>5, Joining
  <2> QED
    BY <2>3, <2>4, <2>6, Zenon
<1> QED
  BY <1>1, <1>4, <1>5, <1>6 DEF Grows

\* The rest of HandleMessage.
LEMMA FlowHandle == ASSUME IInv, FlowOK, HandleMessage PROVE FlowOK' /\ Grows
<1>1. CASE MakeStore
  <2>1. /\ place = "store" /\ place' = "consume"
        /\ worker' = [worker EXCEPT ![conn] = "select"]
        /\ UNCHANGED <<conn, queue, inWork, tried, reading, wire, fed>>
    BY <1>1 DEF MakeStore, Goes, platform
  <2>2. worker[conn] = "none" /\ conn \in Conns
    BY <2>1 DEF IInv, NoWorkerForgotten, Connected
  <2>3. FlowOK'
    BY <2>1, <2>2 DEF FlowOK, reading, Connected
  <2> QED
    BY <2>1, <2>3, AccountStays DEF reading, Grows
<1>2. CASE MakeStorePanics \/ SignalProcess \/ Close
  <2>1. /\ UNCHANGED <<queue, worker, inWork, tried, reading, fed, conn, wire>>
        /\ place \in {"store", "signal", "close"}
        /\ place' \in {"crashed", "close", "dial"}
        /\ place' = "close" => place = "signal"
    BY <1>2 DEF MakeStorePanics, SignalProcess, Close, Goes, stores, platform
  <2> QED
    BY <2>1, FlowMoves DEF FlowOK, Connected
<1>3. CASE ConsumeReturns
  <2>1. /\ UNCHANGED <<queue, worker, inWork, tried, reading, fed, conn>>
        /\ place = "consume" /\ place' = "signal"
        /\ \/ wire' = wire
           \/ wire[conn] # <<>> /\ wire' = [wire EXCEPT ![conn] = Tail(@)]
    BY <1>3 DEF ConsumeReturns, Read, Goes, stores
  <2>2. conn \in Conns /\ wire[conn] \in Seq(Sent)
    BY <2>1 DEF FlowOK, Connected
  <2>3. wire[conn] # <<>> => Tail(wire[conn]) \in Seq(Sent)
    BY <2>2
  <2>4. wire' \in [Conns -> Seq(Sent)]
    BY <2>1, <2>3 DEF FlowOK
  <2> QED
    BY <2>1, <2>4, FlowMoves DEF Connected
<1> QED
  BY <1>1, <1>2, <1>3, FlowConsume, FlowQueue DEF HandleMessage

\* The worker moves a status from the head of the queue to those given to the
\* store, whatever the store answers.
LEMMA FlowProcess ==
    ASSUME FlowOK, NEW d \in Conns, Process(d)
    PROVE  FlowOK' /\ Grows
<1>1. /\ tried[d] \in Seq(Statuses) /\ inWork[d] \in Seq(Statuses)
      /\ queue[d] \in Seq(Statuses)
  BY DEF FlowOK
<1>2. CASE ProcessTakes(d)
  <2>1. /\ worker[d] = "select" /\ worker' = [worker EXCEPT ![d] = "saving"]
        /\ queue[d] # <<>>
        /\ inWork' = [inWork EXCEPT ![d] = <<Head(queue[d])>>]
        /\ queue' = [queue EXCEPT ![d] = Tail(@)]
        /\ UNCHANGED <<place, conn, tried, inHand, got, wire, fed>>
    BY <1>2 DEF ProcessTakes, reading, platform
  <2>2. /\ <<Head(queue[d])>> \in Seq(Statuses) /\ Tail(queue[d]) \in Seq(Statuses)
        /\ <<Head(queue[d])>> \o Tail(queue[d]) = queue[d]
        /\ inWork[d] = <<>>
    <3>1. /\ Head(queue[d]) \in Statuses /\ Tail(queue[d]) \in Seq(Statuses)
      BY <1>1, <2>1
    <3>2. <<Head(queue[d])>> \o Tail(queue[d]) = queue[d]
      BY <1>1, <2>1
    <3> QED
      BY <2>1, <3>1, <3>2 DEF FlowOK
  <2>3. FlowOK'
    BY <2>1, <2>2 DEF FlowOK
  <2>4. ASSUME NEW c \in Conns, c # d PROVE Account(c)' = Account(c)
    BY <2>1, <2>4 DEF Account, FlowOK
  <2>5. Account(d)' = Account(d)
    <3> DEFINE hand == IF d = conn THEN inHand ELSE <<>>
               one  == <<Head(queue[d])>>
    <3>1. /\ Account(d) = Emptied(tried[d]) \o queue[d] \o hand
          /\ Account(d)' = Joined(tried[d], one, Tail(queue[d])) \o hand
      BY <2>1, <2>2 DEF Account, FlowOK, Emptied, Joined
    <3> HIDE DEF hand
    <3>2. Emptied(tried[d]) = tried[d]
      BY <1>1, Joining
    <3>3. Joined(tried[d], one, Tail(queue[d])) = Grouped(tried[d], one, Tail(queue[d]))
      BY <1>1, <2>2, Joining
    <3>4. Grouped(tried[d], one, Tail(queue[d])) = Emptied(tried[d] \o queue[d])
      BY <2>2, Zenon DEF Grouped, Emptied
    <3>5. tried[d] \o queue[d] \in Seq(Statuses)
      BY <1>1
    <3>6. Emptied(tried[d] \o queue[d]) = tried[d] \o queue[d]
      BY <3>5, Joining
    <3> QED
      BY <3>1, <3>2, <3>3, <3>4, <3>6, Zenon
  <2> QED
    BY <2>1, <2>3, <2>4, <2>5 DEF Grows
<1>3. CASE ProcessSaved(d) \/ ProcessFails(d)
  <2>1. /\ worker[d] = "saving" /\ worker' = [worker EXCEPT ![d] = "select"]
        /\ tried' = [tried EXCEPT ![d] = @ \o inWork[d]]
        /\ inWork' = [inWork EXCEPT ![d] = <<>>]
        /\ UNCHANGED <<place, conn, queue, inHand, got, wire, fed>>
    BY <1>3 DEF ProcessSaved, ProcessFails, reading, platform
  <2>2. tried[d] \o inWork[d] \in Seq(Statuses) /\ <<>> \in Seq(Statuses)
    BY <1>1
  <2>3. FlowOK'
    BY <2>1, <2>2 DEF FlowOK
  <2>4. ASSUME NEW c \in Conns, c # d PROVE Account(c)' = Account(c)
    BY <2>1, <2>4 DEF Account, FlowOK
  <2>5. Account(d)' = Account(d)
    <3> DEFINE hand == IF d = conn THEN inHand ELSE <<>>
    <3>1. /\ Account(d) = tried[d] \o inWork[d] \o queue[d] \o hand
          /\ Account(d)' = tried[d] \o inWork[d] \o <<>> \o queue[d] \o hand
      BY <2>1 DEF Account, FlowOK
    <3>2. tried[d] \o inWork[d] \o <<>> = tried[d] \o inWork[d]
      BY <2>2, ConcatEmptySeq
    <3> QED
      BY <3>1, <3>2
  <2> QED
    BY <2>1, <2>3, <2>4, <2>5 DEF Grows
<1>4. CASE ProcessStops(d)
  <2>1. /\ worker[d] = "select" /\ worker' = [worker EXCEPT ![d] = "ended"]
        /\ UNCHANGED <<place, conn, queue, inWork, tried, reading, wire, fed>>
    BY <1>4 DEF ProcessStops, platform
  <2>2. FlowOK'
    BY <2>1 DEF FlowOK, reading
  <2> QED
    BY <2>1, <2>2, AccountStays DEF reading, Grows
<1> QED
  BY <1>2, <1>3, <1>4 DEF Process

\* The platform and the network change the wires, and the store nothing.
LEMMA FlowPlatform ==
    ASSUME FlowOK,
           \/ StoreHangs \/ Rest \/ UNCHANGED vars
           \/ \E c \in Conns : AnswerLogin(c) \/ Feed(c) \/ FeedsBad(c) \/ Breaks(c)
    PROVE  FlowOK' /\ Grows
<1>1. CASE StoreHangs \/ Rest \/ UNCHANGED vars
  <2>1. UNCHANGED <<place, queue, worker, inWork, tried, reading, fed, conn, wire>>
    BY <1>1 DEF StoreHangs, Rest, vars, stores, platform
  <2> QED
    BY <2>1, FlowMoves DEF FlowOK
<1>2. ASSUME NEW c \in Conns, AnswerLogin(c) \/ FeedsBad(c) \/ Breaks(c)
      PROVE  FlowOK' /\ Grows
  <2>1. UNCHANGED <<place, queue, worker, inWork, tried, reading, fed, conn>>
    BY <1>2 DEF AnswerLogin, FeedsBad, Breaks, stores
  <2>2. wire[c] \in Seq(Sent)
    BY DEF FlowOK
  <2>3. wire' \in [Conns -> Seq(Sent)]
    <3>1. CASE AnswerLogin(c)
      <4>1. wire' = [wire EXCEPT ![c] = Append(@, Response(token = session))]
        BY <3>1 DEF AnswerLogin
      <4>2. Response(token = session) \in Sent
        BY Zenon DEF Sent
      <4>3. Append(wire[c], Response(token = session)) \in Seq(Sent)
        BY <2>2, <4>2
      <4> QED
        BY <4>1, <4>3 DEF FlowOK
    <3>2. CASE FeedsBad(c)
      <4>1. wire' = [wire EXCEPT ![c] = Append(@, BadMessage)] /\ BadMessage \in Sent
        BY <3>2 DEF FeedsBad, Sent
      <4>2. Append(wire[c], BadMessage) \in Seq(Sent)
        BY <2>2, <4>1
      <4> QED
        BY <4>1, <4>2 DEF FlowOK
    <3>3. CASE Breaks(c)
      <4>1. PICK n \in 0..Len(wire[c]) : wire' = [wire EXCEPT ![c] = SubSeq(@, 1, n)]
        BY <3>3 DEF Breaks
      <4>2. SubSeq(wire[c], 1, n) \in Seq(Sent)
        BY <2>2
      <4> QED
        BY <4>1, <4>2 DEF FlowOK
    <3> QED
      BY <1>2, <3>1, <3>2, <3>3
  <2> QED
    BY <2>1, <2>3, FlowMoves
<1>3. ASSUME NEW c \in Conns, Feed(c) PROVE FlowOK' /\ Grows
  <2>1. /\ UNCHANGED <<place, queue, worker, inWork, tried, reading, conn>>
        /\ fed' = [fed EXCEPT ![c] = @ + 1]
        /\ wire' = [wire EXCEPT ![c] = Append(@, Messages[fed[c] + 1])]
    BY <1>3 DEF Feed, stores
  <2>2. fed[c] + 1 \in Nat /\ wire[c] \in Seq(Sent)
    BY DEF FlowOK
  <2>3. Messages[fed[c] + 1] \in Sent
    BY <2>2 DEF Sent
  <2>4. Append(wire[c], Messages[fed[c] + 1]) \in Seq(Sent)
    BY <2>2, <2>3
  <2>5. FlowOK'
    BY <2>1, <2>2, <2>4 DEF FlowOK, reading
  <2> QED
    BY <2>1, <2>5, AccountStays DEF reading, Grows
<1> QED
  BY <1>1, <1>2, <1>3

\* A step keeps the sequences in order, and the accounts grow by it.
LEMMA FlowStep == IInv /\ FlowOK /\ [Next]_vars => FlowOK' /\ Grows
<1> SUFFICES ASSUME IInv, FlowOK, [Next]_vars PROVE FlowOK' /\ Grows
  OBVIOUS
<1>1. CASE startWebSocket
  BY <1>1, FlowOutside, FlowHandle DEF startWebSocket
<1>2. CASE \E c \in Conns : Process(c)
  BY <1>2, FlowProcess
<1>3. CASE \/ StoreHangs \/ Rest \/ UNCHANGED vars
           \/ \E c \in Conns : AnswerLogin(c) \/ Feed(c) \/ FeedsBad(c) \/ Breaks(c)
  BY <1>3, FlowPlatform
<1> QED
  BY <1>1, <1>2, <1>3 DEF Next

\* For any feed, queue and number of faults: what a message says enters the
\* account of its connection when the message is consumed, and no step after that
\* keeps it from the store, offers it twice or out of order, the error of a save
\* included (howen.go:71-109, remoteRpcStore.go:34-53).
THEOREM AccountsOnlyGrow == Spec => AccountsGrow
<1>1. IInv /\ FlowOK /\ [Next]_vars => FlowOK' /\ Grows
  BY FlowStep
<1>2. Grows => [\A c \in Conns :
                  Account(c)' = IF got'[c] = got[c] THEN Account(c)
                                ELSE Account(c) \o Status(Head(wire[c]))]_vars
  BY DEF Grows
<1> QED
  BY <1>1, <1>2, Invariance, FlowInit, PTL DEF Spec, AccountsGrow


-----------------------------------------------------------------------------

HIDE LoopAssumption

\* The first n messages can be parsed.
Good(w, n) == \A i \in 1..n : w[i] # BadMessage

\* A wire w holds o answers to a login, and then the feed behind its first g
\* messages; while the peer p feeds, f is how far it has got.
Follows(w, g, f, o, p) ==
    /\ \A i \in 1..Len(w) :
         i > o /\ Good(w, i) =>
            g + i - o <= Len(Messages) /\ w[i] = Messages[g + i - o]
    /\ p = "feeding" /\ Good(w, Len(w)) => Len(w) >= o /\ f = g + Len(w) - o

LEMMA FeedType == Len(Messages) \in Nat
  BY FeedAssumption DEF IsSequence

\* An empty wire follows anything,
LEMMA FollowsEmpty ==
    ASSUME NEW g \in Nat, NEW f \in Nat, NEW o \in {0, 1}, NEW p, p # "feeding"
    PROVE  Follows(<<>>, g, f, o, p)
  BY DEF Follows

\* which does not follow a login that is answered,
LEMMA EmptyDoesNotFollow ==
    ASSUME NEW w \in Seq(Sent), NEW g \in Nat, NEW f \in Nat,
           Follows(w, g, f, 1, "feeding")
    PROVE  w # <<>>
<1> SUFFICES ASSUME w = <<>> PROVE FALSE
  OBVIOUS
<1>1. Len(w) = 0 /\ Good(w, Len(w))
  BY DEF Good
<1> QED
  BY <1>1 DEF Follows

\* an answer is none of the feed,
LEMMA FollowsAnswer ==
    ASSUME NEW r, r # BadMessage, NEW p
    PROVE  Follows(Append(<<>>, r), 0, 0, 1, p)
<1>1. Append(<<>>, r) = <<r>>
  OBVIOUS
<1> QED
  BY <1>1 DEF Follows

\* what the platform feeds next does,
LEMMA FollowsFeed ==
    ASSUME NEW w \in Seq(Sent), NEW g \in Nat, NEW f \in Nat, NEW o \in {0, 1},
           Follows(w, g, f, o, "feeding"), f < Len(Messages)
    PROVE  Follows(Append(w, Messages[f + 1]), g, f + 1, o, "feeding")
<1> DEFINE v == Append(w, Messages[f + 1])
<1>1. /\ Len(v) = Len(w) + 1 /\ Len(w) \in Nat
      /\ \A i \in 1..Len(w) : v[i] = w[i]
      /\ v[Len(w) + 1] = Messages[f + 1]
  OBVIOUS
<1> HIDE DEF v
<1>2. ASSUME NEW n \in Nat, n >= Len(w), Good(v, n) PROVE Good(w, Len(w))
  BY <1>1, <1>2 DEF Good
<1>3. ASSUME NEW i \in 1..Len(w), Good(v, i) PROVE Good(w, i)
  BY <1>1, <1>3 DEF Good
<1>4. ASSUME NEW i \in 1..Len(v), i > o, Good(v, i)
      PROVE  g + i - o <= Len(Messages) /\ v[i] = Messages[g + i - o]
  <2>1. CASE i \in 1..Len(w)
    BY <1>1, <1>3, <1>4, <2>1 DEF Follows
  <2>2. CASE i = Len(w) + 1
    <3>1. f = g + Len(w) - o
      BY <1>1, <1>2, <1>4, <2>2 DEF Follows
    <3>2. f + 1 = g + i - o
      BY <1>1, <2>2, <3>1
    <3> QED
      BY <1>1, <2>2, <3>2, FeedType
  <2> QED
    BY <1>1, <2>1, <2>2
<1>5. ASSUME Good(v, Len(v)) PROVE Len(v) >= o /\ f + 1 = g + Len(v) - o
  <2>1. Len(w) >= o /\ f = g + Len(w) - o
    BY <1>1, <1>2, <1>5 DEF Follows
  <2> QED
    BY <1>1, <2>1
<1> QED
  BY <1>4, <1>5 DEF Follows, v

\* and what cannot be parsed hides what comes after it.
LEMMA FollowsBad ==
    ASSUME NEW w \in Seq(Sent), NEW g \in Nat, NEW f \in Nat, NEW o \in {0, 1}, NEW p,
           Follows(w, g, f, o, p)
    PROVE  Follows(Append(w, BadMessage), g, f, o, p)
<1> DEFINE v == Append(w, BadMessage)
<1>1. /\ Len(v) = Len(w) + 1 /\ Len(w) \in Nat
      /\ \A i \in 1..Len(w) : v[i] = w[i]
      /\ v[Len(w) + 1] = BadMessage
  OBVIOUS
<1> HIDE DEF v
<1>2. ~Good(v, Len(v))
  BY <1>1 DEF Good
<1>3. ASSUME NEW i \in 1..Len(w), Good(v, i) PROVE Good(w, i)
  BY <1>1, <1>3 DEF Good
<1>4. ASSUME NEW i \in 1..Len(v), i > o, Good(v, i)
      PROVE  g + i - o <= Len(Messages) /\ v[i] = Messages[g + i - o]
  BY <1>1, <1>2, <1>3, <1>4 DEF Follows
<1> QED
  BY <1>2, <1>4 DEF Follows, v

\* What is left of a wire that is cut still does,
LEMMA FollowsCut ==
    ASSUME NEW w \in Seq(Sent), NEW g \in Nat, NEW f \in Nat, NEW o \in {0, 1}, NEW p,
           NEW n \in 0..Len(w), Follows(w, g, f, o, p)
    PROVE  Follows(SubSeq(w, 1, n), g, f, o, "closed")
<1> DEFINE v == SubSeq(w, 1, n)
<1>1. /\ Len(v) = n /\ n \in Nat /\ n <= Len(w)
      /\ \A i \in 1..n : v[i] = w[i]
  OBVIOUS
<1> HIDE DEF v
<1>2. ASSUME NEW i \in 1..Len(v), Good(v, i) PROVE Good(w, i) /\ i \in 1..Len(w)
  BY <1>1, <1>2 DEF Good
<1> QED
  BY <1>1, <1>2 DEF Follows, v

\* and so does a wire from which the answer is read,
LEMMA FollowsAnswerRead ==
    ASSUME NEW w \in Seq(Sent), NEW g \in Nat, NEW f \in Nat, NEW p,
           w # <<>>, w[1] # BadMessage, Follows(w, g, f, 1, p)
    PROVE  Follows(Tail(w), g, f, 0, p)
<1> DEFINE v == Tail(w)
<1>1. /\ Len(v) + 1 = Len(w) /\ Len(v) \in Nat
      /\ \A i \in 1..Len(v) : v[i] = w[i + 1]
  OBVIOUS
<1> HIDE DEF v
<1>2. ASSUME NEW i \in Nat, i <= Len(v), Good(v, i) PROVE Good(w, i + 1)
  <2> SUFFICES ASSUME NEW j \in 1..i + 1 PROVE w[j] # BadMessage
    BY DEF Good
  <2>1. CASE j = 1
    BY <2>1
  <2>2. CASE j # 1
    <3>1. j - 1 \in 1..i /\ j - 1 \in 1..Len(v)
      BY <1>1, <1>2, <2>2
    <3>2. w[(j - 1) + 1] = v[j - 1]
      BY <1>1, <3>1
    <3> QED
      BY <1>2, <3>1, <3>2 DEF Good
  <2> QED
    BY <2>1, <2>2
<1>3. ASSUME NEW i \in 1..Len(v), i > 0, Good(v, i)
      PROVE  g + i - 0 <= Len(Messages) /\ v[i] = Messages[g + i - 0]
  <2>1. i + 1 \in 1..Len(w) /\ i + 1 > 1 /\ Good(w, i + 1) /\ g + (i + 1) - 1 = g + i
    BY <1>1, <1>2, <1>3
  <2> QED
    BY <1>1, <2>1 DEF Follows
<1>4. ASSUME p = "feeding", Good(v, Len(v)) PROVE Len(v) >= 0 /\ f = g + Len(v) - 0
  <2>1. Good(w, Len(w))
    BY <1>1, <1>2, <1>4
  <2>2. Len(w) >= 1 /\ f = g + Len(w) - 1
    BY <1>4, <2>1, Zenon DEF Follows
  <2> QED
    BY <1>1, <2>2
<1> QED
  BY <1>3, <1>4 DEF Follows, v

\* or a message, which is the next of the feed.
LEMMA FollowsMessageRead ==
    ASSUME NEW w \in Seq(Sent), NEW g \in Nat, NEW f \in Nat, NEW p,
           w # <<>>, Head(w) # BadMessage, Follows(w, g, f, 0, p)
    PROVE  /\ Follows(Tail(w), g + 1, f, 0, p)
           /\ g + 1 <= Len(Messages) /\ Head(w) = Messages[g + 1]
<1> DEFINE v == Tail(w)
<1>1. /\ Len(v) + 1 = Len(w) /\ Len(v) \in Nat /\ Head(w) = w[1]
      /\ \A i \in 1..Len(v) : v[i] = w[i + 1]
  OBVIOUS
<1> HIDE DEF v
<1>2. ASSUME NEW i \in Nat, i <= Len(v), Good(v, i) PROVE Good(w, i + 1)
  <2> SUFFICES ASSUME NEW j \in 1..i + 1 PROVE w[j] # BadMessage
    BY DEF Good
  <2>1. CASE j = 1
    BY <1>1, <2>1
  <2>2. CASE j # 1
    <3>1. j - 1 \in 1..i /\ j - 1 \in 1..Len(v)
      BY <1>1, <1>2, <2>2
    <3>2. w[(j - 1) + 1] = v[j - 1]
      BY <1>1, <3>1
    <3> QED
      BY <1>2, <3>1, <3>2 DEF Good
  <2> QED
    BY <2>1, <2>2
<1>3. ASSUME NEW i \in 1..Len(v), i > 0, Good(v, i)
      PROVE  (g + 1) + i - 0 <= Len(Messages) /\ v[i] = Messages[(g + 1) + i - 0]
  <2>1. /\ i + 1 \in 1..Len(w) /\ i + 1 > 0 /\ Good(w, i + 1)
        /\ g + (i + 1) - 0 = (g + 1) + i - 0
    BY <1>1, <1>2, <1>3
  <2> QED
    BY <1>1, <2>1 DEF Follows
<1>4. ASSUME p = "feeding", Good(v, Len(v))
      PROVE  Len(v) >= 0 /\ f = (g + 1) + Len(v) - 0
  <2>1. Good(w, Len(w))
    BY <1>1, <1>2, <1>4
  <2>2. Len(w) >= 0 /\ f = g + Len(w) - 0
    BY <1>4, <2>1, Zenon DEF Follows
  <2> QED
    BY <1>1, <2>2
<1>5. g + 1 <= Len(Messages) /\ Head(w) = Messages[g + 1]
  <2>1. 1 \in 1..Len(w) /\ 1 > 0 /\ Good(w, 1) /\ g + 1 - 0 = g + 1
    BY <1>1 DEF Good
  <2> QED
    BY <1>1, <2>1 DEF Follows
<1> QED
  BY <1>3, <1>4, <1>5 DEF Follows, v

-----------------------------------------------------------------------------
(* The connection that is read.                                              *)

Peers == {"none", "new", "asked", "feeding", "refused", "closed"}

\* The places at which the answer to the login is still to be read, and those
\* from which the loop may come to read the feed.
LoggingIn == {"login", "response"}
Attending == LoggingIn \cup {"store", "consume", "queue"}

\* How many answers are ahead of the feed.
Ahead == IF place \in LoggingIn THEN 1 ELSE 0

\* Of the connections not yet made nothing is there; the platform answers the
\* newest one only; and what is on the wire of that one follows the feed.
WireOK ==
    /\ peer \in [Conns -> Peers]
    /\ \A c \in Conns : c > conn =>
         peer[c] = "none" /\ wire[c] = <<>> /\ fed[c] = 0 /\ got[c] = 0
    /\ \A c \in Conns : peer[c] \in {"new", "asked"} =>
         c = conn /\ place \in LoggingIn /\ wire[c] = <<>> /\ fed[c] = 0 /\ got[c] = 0
    /\ place = "login" => wire[conn] = <<>> /\ peer[conn] \in {"new", "closed"}
    /\ place = "response" /\ wire[conn] # <<>> => wire[conn][1] # BadMessage
    /\ place \in Attending =>
         Follows(wire[conn], got[conn], fed[conn], Ahead, peer[conn])

LEMMA WireInit == Init => WireOK
  BY DEF Init, WireOK, Conns, Peers, LoggingIn, Attending

\* The steps that leave the wires alone and stay within these groups of places.
LEMMA WireMoves ==
    ASSUME WireOK, UNCHANGED <<peer, wire, fed, got, conn>>,
           \/ place' = place
           \/ /\ place \notin LoggingIn /\ place' \notin LoggingIn
              /\ place' \in Attending => place \in Attending
    PROVE  WireOK'
  BY DEF WireOK, Ahead, Attending, LoggingIn

\* The steps of the loop, but for those that read.
LEMMA WireLoop ==
    ASSUME FlowOK, WireOK,
           \/ getAuthToken \/ getAuthTokenFails \/ Dial \/ DialFails \/ Sleep
           \/ WriteLogin \/ LoginFails \/ MakeStore \/ MakeStorePanics
           \/ QueueStatus \/ SignalProcess \/ Close
    PROVE  WireOK'
<1>1. CASE \/ getAuthToken \/ getAuthTokenFails \/ DialFails \/ Sleep \/ MakeStore
           \/ MakeStorePanics \/ QueueStatus \/ SignalProcess \/ Close
  <2>1. /\ UNCHANGED <<peer, wire, fed, got, conn>>
        /\ place \notin LoggingIn /\ place' \notin LoggingIn
        /\ place' \in Attending => place \in Attending
    BY <1>1 DEF getAuthToken, getAuthTokenFails, DialFails, Sleep, MakeStore,
                MakeStorePanics, QueueStatus, SignalProcess, Close, Goes, reading,
                platform, LoggingIn, Attending
  <2> QED
    BY <2>1, WireMoves
<1>2. CASE Dial
  <2>1. /\ place = "dial" /\ place' = "login" /\ conn' = conn + 1 /\ conn' \in Conns
        /\ peer' = [peer EXCEPT ![conn'] = "new"]
        /\ UNCHANGED <<wire, fed, got>>
    BY <1>2 DEF Dial, Goes, reading
  <2>2. conn' > conn /\ conn \in Nat /\ \A c \in Conns : c \in Nat
    BY <2>1, ConnsAreNumbers DEF FlowOK
  <2>3. wire[conn'] = <<>> /\ fed[conn'] = 0 /\ got[conn'] = 0
    BY <2>1, <2>2 DEF WireOK
  <2>4. peer' \in [Conns -> Peers] /\ peer'[conn'] = "new"
    BY <2>1 DEF WireOK, Peers
  <2>5. \A c \in Conns : c > conn' =>
          peer'[c] = "none" /\ wire'[c] = <<>> /\ fed'[c] = 0 /\ got'[c] = 0
    BY <2>1, <2>2 DEF WireOK
  <2>6. ASSUME NEW c \in Conns, peer'[c] \in {"new", "asked"} PROVE c = conn'
    BY <2>1, <2>6 DEF WireOK, LoggingIn
  <2>7. Follows(wire'[conn'], got'[conn'], fed'[conn'], Ahead', peer'[conn'])
    <3>1. Follows(<<>>, 0, 0, 1, "new")
      BY FollowsEmpty
    <3>2. Ahead' = 1
      BY <2>1 DEF Ahead, LoggingIn
    <3> QED
      BY <2>1, <2>3, <2>4, <3>1, <3>2
  <2> QED
    BY <2>1, <2>3, <2>4, <2>5, <2>6, <2>7 DEF WireOK, LoggingIn
<1>3. CASE WriteLogin
  <2>1. /\ place = "login" /\ place' = "response" /\ conn \in Conns
        /\ peer' = [peer EXCEPT ![conn] = IF @ = "new" THEN "asked" ELSE @]
        /\ UNCHANGED <<conn, wire, fed, got>>
    BY <1>3 DEF WriteLogin, Goes, reading, FlowOK, Connected
  <2>2. /\ wire[conn] = <<>> /\ peer[conn] \in {"new", "closed"}
        /\ peer'[conn] \in {"asked", "closed"}
        /\ \A c \in Conns : c # conn => peer'[c] = peer[c]
    BY <2>1 DEF WireOK
  <2>3. Follows(<<>>, got[conn], fed[conn], 1, peer'[conn])
    BY <2>1, <2>2, FollowsEmpty DEF FlowOK
  <2>4. Ahead' = 1
    BY <2>1 DEF Ahead, LoggingIn
  <2>5. peer' \in [Conns -> Peers]
    BY <2>1, <2>2 DEF WireOK, Peers
  <2>6. \A c \in Conns : c > conn => c # conn
    BY <2>1, ConnsAreNumbers
  <2>7. \A c \in Conns : c > conn' =>
          peer'[c] = "none" /\ wire'[c] = <<>> /\ fed'[c] = 0 /\ got'[c] = 0
    BY <2>1, <2>2, <2>6 DEF WireOK
  <2>8. ASSUME NEW c \in Conns, peer'[c] \in {"new", "asked"}
        PROVE  c = conn /\ wire[c] = <<>> /\ fed[c] = 0 /\ got[c] = 0
    BY <2>1, <2>2, <2>8 DEF WireOK
  <2> QED
    BY <2>1, <2>2, <2>3, <2>4, <2>5, <2>7, <2>8 DEF WireOK, LoggingIn
<1>4. CASE LoginFails
  <2>1. /\ place \in LoggingIn /\ place' = "dial" /\ peer[conn] = "closed"
        /\ UNCHANGED <<conn, peer, wire, fed, got>>
    BY <1>4 DEF LoginFails, ReadFails, Goes, LoggingIn, reading, platform
  <2> QED
    BY <2>1 DEF WireOK, LoggingIn, Attending
<1> QED
  BY <1>1, <1>2, <1>3, <1>4

\* The steps of the loop that read.
LEMMA WireReads ==
    ASSUME FlowOK, WireOK, ReadResponse \/ ConsumeMessage \/ ConsumeReturns
    PROVE  WireOK'
<1> DEFINE w == wire[conn]
<1>1. /\ place \in {"response", "consume"} /\ conn \in Conns /\ w \in Seq(Sent)
      /\ fed \in [Conns -> Nat] /\ got \in [Conns -> Nat]
      /\ \A c \in Conns : c > conn => c # conn
  BY ConnsAreNumbers DEF ReadResponse, ConsumeMessage, ConsumeReturns, Goes, FlowOK,
                         Connected
<1>2. CASE ReadResponse
  <2>1. /\ place = "response" /\ place' = "store" /\ w # <<>>
        /\ wire' = [wire EXCEPT ![conn] = Tail(@)]
        /\ UNCHANGED <<conn, peer, fed, got>>
    BY <1>2 DEF ReadResponse, Read, Goes, reading
  <2>2. w[1] # BadMessage /\ Follows(w, got[conn], fed[conn], 1, peer[conn])
    BY <2>1 DEF WireOK, Ahead, LoggingIn, Attending
  <2>3. Follows(Tail(w), got[conn], fed[conn], 0, peer[conn])
    BY <1>1, <2>1, <2>2, FollowsAnswerRead
  <2>4. Ahead' = 0 /\ wire'[conn] = Tail(w)
    BY <1>1, <2>1 DEF Ahead, LoggingIn, FlowOK
  <2>5. \A c \in Conns : peer[c] \notin {"new", "asked"}
    BY <2>1 DEF WireOK
  <2>6. \A c \in Conns : c # conn => wire'[c] = wire[c]
    BY <2>1 DEF FlowOK
  <2> QED
    BY <1>1, <2>1, <2>3, <2>4, <2>5, <2>6 DEF WireOK
<1>3. CASE ConsumeMessage
  <2>1. /\ place = "consume" /\ place' \in {"consume", "queue"}
        /\ w # <<>> /\ Head(w) # BadMessage
        /\ wire' = [wire EXCEPT ![conn] = Tail(@)]
        /\ got' = [got EXCEPT ![conn] = @ + 1]
        /\ UNCHANGED <<conn, peer, fed>>
    BY <1>3 DEF ConsumeMessage, Read
  <2>2. Follows(w, got[conn], fed[conn], 0, peer[conn])
    BY <2>1 DEF WireOK, Ahead, LoggingIn, Attending
  <2>3. Follows(Tail(w), got[conn] + 1, fed[conn], 0, peer[conn])
    BY <1>1, <2>1, <2>2, FollowsMessageRead
  <2>4. Ahead' = 0 /\ wire'[conn] = Tail(w) /\ got'[conn] = got[conn] + 1
    BY <1>1, <2>1 DEF Ahead, LoggingIn, FlowOK
  <2>5. \A c \in Conns : peer[c] \notin {"new", "asked"}
    BY <2>1 DEF WireOK, LoggingIn
  <2>6. \A c \in Conns : c # conn => wire'[c] = wire[c] /\ got'[c] = got[c]
    BY <2>1 DEF FlowOK
  <2> QED
    BY <1>1, <2>1, <2>3, <2>4, <2>5, <2>6 DEF WireOK
<1>4. CASE ConsumeReturns
  <2>1. /\ place = "consume" /\ place' = "signal"
        /\ \A c \in Conns : c # conn => wire'[c] = wire[c]
        /\ UNCHANGED <<conn, peer, fed, got>>
    BY <1>4 DEF ConsumeReturns, Read, Goes, reading, FlowOK
  <2>2. \A c \in Conns : peer[c] \notin {"new", "asked"}
    BY <2>1 DEF WireOK, LoggingIn
  <2> QED
    BY <1>1, <2>1, <2>2 DEF WireOK, Attending, LoggingIn
<1> QED
  BY <1>2, <1>3, <1>4

\* The steps of the platform and of the network.
LEMMA WirePlatform ==
    ASSUME FlowOK, WireOK, NEW d \in Conns,
           AnswerLogin(d) \/ Feed(d) \/ FeedsBad(d) \/ Breaks(d)
    PROVE  WireOK'
<1> DEFINE w == wire[d]
<1>1. /\ UNCHANGED <<place, conn, got>>
      /\ \A c \in Conns : c # d =>
            wire'[c] = wire[c] /\ fed'[c] = fed[c] /\ peer'[c] = peer[c]
  BY DEF AnswerLogin, Feed, FeedsBad, Breaks, reading, FlowOK, WireOK
<1>2. /\ w \in Seq(Sent) /\ fed[d] \in Nat /\ got[d] \in Nat /\ Ahead \in {0, 1}
      /\ \A c \in Conns : c > conn => c # conn
  BY ConnsAreNumbers DEF FlowOK, Ahead
<1>3. ~(d > conn)
  BY DEF WireOK, AnswerLogin, Feed, FeedsBad, Breaks
<1>4. Ahead' = Ahead
  BY <1>1 DEF Ahead
<1> DEFINE Kept ==
        /\ peer'[d] \in Peers \ {"none", "new", "asked"} /\ DOMAIN peer' = Conns
        /\ \A c \in Conns : c # d => peer'[c] = peer[c]
        /\ d = conn =>
             /\ place \in Attending =>
                    Follows(wire'[d], got[d], fed'[d], Ahead, peer'[d])
             /\ place = "login" => wire'[d] = <<>> /\ peer'[d] = "closed"
             /\ place = "response" /\ wire'[d] # <<>> => wire'[d][1] # BadMessage
<1>5. ASSUME Kept, peer' \in [Conns -> Peers] PROVE WireOK'
  <2> USE DEF WireOK
  <2>1. \A c \in Conns : c > conn' =>
          peer'[c] = "none" /\ wire'[c] = <<>> /\ fed'[c] = 0 /\ got'[c] = 0
    BY <1>1, <1>3
  <2>2. ASSUME NEW c \in Conns, peer'[c] \in {"new", "asked"}
        PROVE  /\ c = conn' /\ place' \in LoggingIn /\ wire'[c] = <<>> /\ fed'[c] = 0
               /\ got'[c] = 0
    BY <1>1, <1>5, <2>2
  <2>3. place' = "login" => wire'[conn'] = <<>> /\ peer'[conn'] \in {"new", "closed"}
    BY <1>1, <1>5 DEF FlowOK, Connected
  <2>4. place' = "response" /\ wire'[conn'] # <<>> => wire'[conn'][1] # BadMessage
    BY <1>1, <1>5 DEF FlowOK, Connected
  <2>5. place' \in Attending =>
          Follows(wire'[conn'], got'[conn'], fed'[conn'], Ahead', peer'[conn'])
    BY <1>1, <1>4, <1>5 DEF FlowOK, Connected, Attending, LoggingIn
  <2> QED
    BY <1>5, <2>1, <2>2, <2>3, <2>4, <2>5
<1>6. CASE AnswerLogin(d)
  <2>1. /\ peer[d] = "asked" /\ peer'[d] \in {"feeding", "refused"}
        /\ peer' \in [Conns -> Peers]
        /\ wire'[d] = Append(w, Response(token = session)) /\ fed' = fed
    BY <1>6 DEF AnswerLogin, WireOK, FlowOK, Peers
  <2>2. /\ d = conn /\ place \in LoggingIn /\ w = <<>> /\ fed[d] = 0 /\ got[d] = 0
        /\ place = "response"
    BY <2>1 DEF WireOK, LoggingIn
  <2>3. Response(token = session) # BadMessage
    BY DEF Response, BadMessage
  <2>4. Follows(wire'[d], got[d], fed'[d], Ahead, peer'[d])
    BY <2>1, <2>2, <2>3, FollowsAnswer DEF Ahead
  <2>5. wire'[d][1] # BadMessage
    BY <2>1, <2>2, <2>3
  <2> QED
    BY <1>1, <1>5, <2>1, <2>2, <2>4, <2>5 DEF WireOK, Peers
<1>7. CASE Feed(d)
  <2>1. /\ peer[d] = "feeding" /\ peer' = peer /\ fed[d] < Len(Messages)
        /\ wire'[d] = Append(w, Messages[fed[d] + 1]) /\ fed'[d] = fed[d] + 1
    BY <1>7 DEF Feed, FlowOK
  <2>2. ASSUME d = conn, place \in Attending
        PROVE  Follows(wire'[d], got[d], fed'[d], Ahead, peer'[d])
    <3>1. Follows(w, got[d], fed[d], Ahead, "feeding")
      BY <2>1, <2>2 DEF WireOK
    <3> QED
      BY <1>2, <2>1, <3>1, FollowsFeed
  <2>3. d = conn => place # "login"
    BY <2>1 DEF WireOK
  <2>4. ASSUME d = conn, place = "response" PROVE wire'[d][1] # BadMessage
    <3>1. Follows(w, got[d], fed[d], 1, "feeding")
      BY <2>1, <2>4 DEF WireOK, Ahead, Attending, LoggingIn
    <3>2. w # <<>>
      BY <1>2, <3>1, EmptyDoesNotFollow
    <3> QED
      BY <1>2, <2>1, <2>4, <3>2 DEF WireOK
  <2> QED
    BY <1>1, <1>5, <2>1, <2>2, <2>3, <2>4 DEF WireOK, Peers
<1>8. CASE FeedsBad(d)
  <2>1. /\ peer[d] = "feeding" /\ peer' = peer
        /\ wire'[d] = Append(w, BadMessage) /\ fed' = fed
    BY <1>8 DEF FeedsBad, FlowOK
  <2>2. ASSUME d = conn, place \in Attending
        PROVE  Follows(wire'[d], got[d], fed'[d], Ahead, peer'[d])
    <3>1. Follows(w, got[d], fed[d], Ahead, peer[d])
      BY <2>2 DEF WireOK
    <3> QED
      BY <1>2, <2>1, <3>1, FollowsBad
  <2>3. d = conn => place # "login"
    BY <2>1 DEF WireOK
  <2>4. ASSUME d = conn, place = "response" PROVE wire'[d][1] # BadMessage
    <3>1. Follows(w, got[d], fed[d], 1, "feeding")
      BY <2>1, <2>4 DEF WireOK, Ahead, Attending, LoggingIn
    <3>2. w # <<>>
      BY <1>2, <3>1, EmptyDoesNotFollow
    <3> QED
      BY <1>2, <2>1, <2>4, <3>2 DEF WireOK
  <2> QED
    BY <1>1, <1>5, <2>1, <2>2, <2>3, <2>4 DEF WireOK, Peers
<1>9. CASE Breaks(d)
  <2>1. PICK n \in 0..Len(w) : wire'[d] = SubSeq(w, 1, n)
    BY <1>9 DEF Breaks, FlowOK
  <2>2. peer' = [peer EXCEPT ![d] = "closed"] /\ fed' = fed
    BY <1>9 DEF Breaks
  <2>3. peer' \in [Conns -> Peers] /\ peer'[d] = "closed"
    BY <2>2 DEF WireOK, Peers
  <2>4. ASSUME d = conn, place \in Attending
        PROVE  Follows(wire'[d], got[d], fed'[d], Ahead, peer'[d])
    <3>1. Follows(w, got[d], fed[d], Ahead, peer[d])
      BY <2>4 DEF WireOK
    <3> QED
      BY <1>2, <2>1, <2>2, <2>3, <3>1, FollowsCut
  <2>5. ASSUME d = conn, place = "login" PROVE wire'[d] = <<>>
    <3>1. w = <<>>
      BY <2>5 DEF WireOK
    <3> QED
      BY <2>1, <3>1
  <2>6. ASSUME d = conn, place = "response", wire'[d] # <<>>
        PROVE  wire'[d][1] # BadMessage
    <3>1. n \in 1..Len(w) /\ wire'[d][1] = w[1] /\ w # <<>>
      BY <1>2, <2>1, <2>6
    <3> QED
      BY <2>6, <3>1 DEF WireOK
  <2> QED
    BY <1>1, <1>5, <2>3, <2>4, <2>5, <2>6 DEF WireOK, Peers
<1> QED
  BY <1>6, <1>7, <1>8, <1>9

\* Every step keeps what is on the wires.
LEMMA WireStep == ASSUME FlowOK, WireOK, [Next]_vars PROVE WireOK'
<1>1. CASE startWebSocket
  BY <1>1, WireLoop, WireReads DEF startWebSocket, HandleMessage
<1>2. CASE (\E c \in Conns : Process(c)) \/ StoreHangs \/ Rest \/ UNCHANGED vars
  <2>1. UNCHANGED <<place, conn, peer, wire, fed, got>>
    BY <1>2 DEF Process, ProcessTakes, ProcessSaved, ProcessFails, ProcessStops,
                StoreHangs, Rest, vars, reading, platform
  <2> QED
    BY <2>1, WireMoves
<1>3. CASE \E c \in Conns : AnswerLogin(c) \/ Feed(c) \/ FeedsBad(c) \/ Breaks(c)
  BY <1>3, WirePlatform
<1> QED
  BY <1>1, <1>2, <1>3 DEF Next

-----------------------------------------------------------------------------
(* The accounts.                                                             *)

\* A connection whose count of consumed messages changes is the one that is
\* read, and the message is the next of its feed.
LEMMA ConsumedIsNext ==
    ASSUME FlowOK, WireOK, [Next]_vars, NEW c \in Conns, got'[c] # got[c]
    PROVE  /\ got'[c] = got[c] + 1 /\ got[c] + 1 \in 1..Len(Messages)
           /\ Head(wire[c]) = Messages[got[c] + 1]
<1>1. ConsumeMessage
  BY DEF Next, startWebSocket, HandleMessage, getAuthToken, getAuthTokenFails, Dial,
         DialFails, Sleep, WriteLogin, LoginFails, ReadResponse, MakeStore,
         MakeStorePanics, QueueStatus, ConsumeReturns, SignalProcess, Close, Process,
         ProcessTakes, ProcessSaved, ProcessFails, ProcessStops, AnswerLogin, Feed,
         FeedsBad, Breaks, StoreHangs, Rest, vars, reading
<1>2. /\ place = "consume" /\ wire[conn] # <<>> /\ Head(wire[conn]) # BadMessage
      /\ got' = [got EXCEPT ![conn] = @ + 1]
  BY <1>1 DEF ConsumeMessage
<1>3. c = conn /\ wire[c] \in Seq(Sent) /\ got[c] \in Nat /\ fed[c] \in Nat
  BY <1>2 DEF FlowOK
<1>4. Follows(wire[c], got[c], fed[c], 0, peer[c])
  BY <1>2, <1>3 DEF WireOK, Ahead, LoggingIn, Attending
<1>5. got[c] + 1 <= Len(Messages) /\ Head(wire[c]) = Messages[got[c] + 1]
  BY <1>2, <1>3, <1>4, FollowsMessageRead
<1>6. got'[c] = got[c] + 1
  BY <1>2, <1>3 DEF FlowOK
<1> QED
  BY <1>3, <1>5, <1>6, FeedType

\* The accounts begin empty.
LEMMA AccountsInit == Init => FeedIsAccountedFor
<1> SUFFICES ASSUME Init, NEW c \in Conns PROVE Account(c) = ReportedUpTo[got[c]]
  BY DEF FeedIsAccountedFor
<1>1. got[c] = 0 /\ ReportedUpTo[0] = <<>>
  BY FeedAssumption DEF Init
<1>2. Account(c) = <<>> \o <<>> \o <<>> \o <<>>
  BY DEF Init, Account
<1> QED
  BY <1>1, <1>2

\* For any feed that can be parsed, any queue and any number of faults: what
\* each message says is given to the store once and in the order of the feed, or
\* in hand, or still in the queue of its connection, failed saves and hung
\* stores included (howen.go:71-109, webSocketHandler.go:23-48,
\* remoteRpcStore.go:34-53).
THEOREM FeedReachesStore == Spec => []FeedIsAccountedFor
<1>1. FlowOK /\ WireOK /\ FeedIsAccountedFor /\ Grows /\ [Next]_vars
        => WireOK' /\ FeedIsAccountedFor'
  <2> SUFFICES ASSUME FlowOK, WireOK, FeedIsAccountedFor, Grows, [Next]_vars
               PROVE  FeedIsAccountedFor'
    BY WireStep
  <2> SUFFICES ASSUME NEW c \in Conns PROVE Account(c)' = ReportedUpTo[got'[c]]
    BY DEF FeedIsAccountedFor
  <2>1. Account(c) = ReportedUpTo[got[c]]
    BY DEF FeedIsAccountedFor
  <2>2. CASE got'[c] = got[c]
    BY <2>1, <2>2 DEF Grows
  <2>3. CASE got'[c] # got[c]
    <3> DEFINE n == got[c] + 1
    <3>1. got'[c] = n /\ n \in 1..Len(Messages) /\ Head(wire[c]) = Messages[n]
      BY <2>3, ConsumedIsNext
    <3>2. n - 1 = got[c]
      BY DEF FlowOK
    <3> HIDE DEF n
    <3>3. ReportedUpTo[n] = ReportedUpTo[n - 1] \o Status(Messages[n])
      BY <3>1, FeedAssumption
    <3>4. Account(c)' = Account(c) \o Status(Head(wire[c]))
      BY <2>3, Zenon DEF Grows
    <3> QED
      BY <2>1, <3>1, <3>2, <3>3, <3>4, Zenon
  <2> QED
    BY <2>2, <2>3
<1>2. IInv /\ FlowOK /\ [Next]_vars => FlowOK' /\ Grows
  BY FlowStep
<1> QED
  BY <1>1, <1>2, Invariance, FlowInit, WireInit, AccountsInit, PTL DEF Spec

================================================================================
