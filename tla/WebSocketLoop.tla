----------------------------- MODULE WebSocketLoop -----------------------------
(***************************************************************************)
(* startWebSocket: the token of one HTTP login, then a loop that dials the  *)
(* Howen platform, logs in, hands the connection to HandleMessage with a    *)
(* store of its own, and dials again when that ends.  The workers of the    *)
(* stores of earlier connections run on beside the loop.                    *)
(*                                                                         *)
(* The platform answers a login whose token is not of its present session   *)
(* with a refusal, and otherwise feeds its messages.  Its faults, those of   *)
(* the network and those of the store are bounded: every connection that    *)
(* ends takes one, so that there are at most MaxFaults + 1.                 *)
(***************************************************************************)
EXTENDS HowenMessage

CONSTANTS
    Messages,   \* what the platform feeds on a connection
    Reported,   \* what the store should be given for each of them
    Capacity,   \* of ProcessChan (200 in the code)
    InFlight,   \* how many messages the platform sends ahead of the reader
    MaxFaults

ASSUME LoopAssumption ==
    Capacity \in Nat \ {0} /\ InFlight \in Nat \ {0} /\ MaxFaults \in Nat

\* Not JSON, or not of the types the code expects.
BadMessage == [action |-> "bad"]

\* What the first n messages of a feed should put into the store.
ReportedUpTo[n \in 0..Len(Messages)] ==
    IF n = 0 THEN <<>> ELSE ReportedUpTo[n - 1] \o Reported[n]

\* The feed can be parsed, and what should be stored is what Status makes of it.
ASSUME FeedAssumption ==
    /\ IsSequence(Messages)
    /\ ReportedUpTo[0] = <<>>
    /\ \A n \in 1..Len(Messages) :
         /\ Messages[n] # BadMessage
         /\ ReportedUpTo[n] = ReportedUpTo[n - 1] \o Status(Messages[n])

VARIABLES
    storeType,  \* "remote" or "local", a flag of the process
    place,      \* of startWebSocket's goroutine
    token,      \* what getAuthToken returned: the platform's session, or 0
    conn,       \* how often Dial has succeeded; connections are numbered by it
    open,       \* per connection: not yet closed by the receiver
    queue,      \* its ProcessChan
    closeChan,  \* the tokens in its CloseChan
    worker,     \* place of its Process worker
    inHand,     \* the status the handler is about to queue
    inWork,     \* per connection: the status its worker is saving
    tried,      \* per connection: the statuses given to the store, in that order,
                \* of which it may have refused some
    session,    \* of the platform
    peer,       \* per connection: what the platform does with it
    wire,       \* per connection: messages sent and not read
    fed, got,   \* per connection: how many of Messages were sent, and consumed
    hung,       \* the remote store no longer answers
    faults

stores   == <<queue, closeChan, worker, inWork, tried>>
reading  == <<inHand, got>>
platform == <<session, peer, wire, fed, hung>>
vars     == <<storeType, place, token, conn, open, stores, reading, platform, faults>>

Conns == 1 .. MaxFaults + 1

\* Of CloseChan: makeRemoteRpcStore makes room for one token, makeJsonStore for
\* as many as for records.
CloseCapacity == IF storeType = "remote" THEN 1 ELSE Capacity

\* Answers to a login.
Response(accepted) == [action |-> "80000", accepted |-> accepted]

Init ==
    /\ storeType \in {"remote", "local"}
    /\ place = "token" /\ token = 0 /\ conn = 0
    /\ open = [c \in Conns |-> FALSE]
    /\ queue = [c \in Conns |-> <<>>]
    /\ closeChan = [c \in Conns |-> 0]
    /\ worker = [c \in Conns |-> "none"]
    /\ inHand = <<>>
    /\ inWork = [c \in Conns |-> <<>>]
    /\ tried = [c \in Conns |-> <<>>]
    /\ session = 1
    /\ peer = [c \in Conns |-> "none"]
    /\ wire = [c \in Conns |-> <<>>]
    /\ fed = [c \in Conns |-> 0] /\ got = [c \in Conns |-> 0]
    /\ hung = FALSE /\ faults = 0

Goes(from, to) == place = from /\ place' = to

Fault == faults < MaxFaults /\ faults' = faults + 1

-----------------------------------------------------------------------------
(* startWebSocket.                                                           *)

\* An answer that holds no token is no error.
getAuthToken ==
    /\ Goes("token", "dial")
    /\ \/ token' = session /\ UNCHANGED faults
       \/ token' = 0 /\ Fault
    /\ UNCHANGED <<storeType, conn, open, stores, reading, platform>>

\* log.Fatal ends the process, with the TCP listener in it.
getAuthTokenFails ==
    /\ Goes("token", "exited") /\ Fault
    /\ UNCHANGED <<storeType, token, conn, open, stores, reading, platform>>

Dial ==
    /\ Goes("dial", "login") /\ conn + 1 \in Conns
    /\ conn' = conn + 1
    /\ open' = [open EXCEPT ![conn'] = TRUE]
    /\ peer' = [peer EXCEPT ![conn'] = "new"]
    /\ UNCHANGED <<storeType, token, stores, reading, session, wire, fed, hung,
                   faults>>

DialFails ==
    /\ Goes("dial", "sleep") /\ Fault
    /\ UNCHANGED <<storeType, token, conn, open, stores, reading, platform>>

\* Five seconds.
Sleep ==
    /\ Goes("sleep", "dial")
    /\ UNCHANGED <<storeType, token, conn, open, stores, reading, platform, faults>>

\* The login reaches the platform unless it has closed the connection; then
\* the write may succeed all the same.
WriteLogin ==
    /\ Goes("login", "response")
    /\ peer' = [peer EXCEPT ![conn] = IF @ = "new" THEN "asked" ELSE @]
    /\ UNCHANGED <<storeType, token, conn, open, stores, reading, session, wire, fed,
                   hung, faults>>

\* Mutant: the connection is left to the deferred Close.
CloseFailed_Deferred == open

\* Before it dials again the loop closes the connection.
CloseFailed == [open EXCEPT ![conn] = FALSE]

\* Nothing more can be read: the platform has closed the connection.
ReadFails == peer[conn] = "closed" /\ wire[conn] = <<>>

\* The write of the login fails, or the read of the answer.
LoginFails ==
    /\ \/ Goes("login", "dial") /\ peer[conn] = "closed"
       \/ Goes("response", "dial") /\ ReadFails
    /\ open' = CloseFailed
    /\ UNCHANGED <<storeType, token, conn, stores, reading, platform, faults>>

Read == wire' = [wire EXCEPT ![conn] = Tail(@)]

\* Whatever the answer says.
ReadResponse ==
    /\ Goes("response", "store") /\ wire[conn] # <<>>
    /\ Read
    /\ UNCHANGED <<storeType, token, conn, open, stores, reading, session, peer, fed,
                   hung, faults>>

-----------------------------------------------------------------------------
(* HandleMessage.                                                            *)

\* makeAsyncStore, and `go dataStore.Process(ctx)`.
MakeStore ==
    /\ Goes("store", "consume")
    /\ worker' = [worker EXCEPT ![conn] = "select"]
    /\ UNCHANGED <<storeType, token, conn, open, queue, closeChan, inWork, tried,
                   reading, platform, faults>>

\* A directory or a file that cannot be opened: nobody recovers the panic.
MakeStorePanics ==
    /\ Goes("store", "crashed") /\ storeType = "local" /\ Fault
    /\ UNCHANGED <<storeType, token, conn, open, stores, reading, platform>>

\* A message that can be parsed.
ConsumeMessage ==
    /\ place = "consume" /\ wire[conn] # <<>>
    /\ LET message == Head(wire[conn])
       IN  /\ message # BadMessage
           /\ inHand' = Status(message)
           /\ place' = IF inHand' = <<>> THEN "consume" ELSE "queue"
           /\ got' = [got EXCEPT ![conn] = @ + 1]
    /\ Read
    /\ UNCHANGED <<storeType, token, conn, open, stores, session, peer, fed, hung,
                   faults>>

QueueStatus ==
    /\ Goes("queue", "consume") /\ Len(queue[conn]) < Capacity
    /\ queue' = [queue EXCEPT ![conn] = @ \o inHand]
    /\ inHand' = <<>>
    /\ UNCHANGED <<storeType, token, conn, open, closeChan, worker, inWork, tried,
                   got, platform, faults>>

\* ConsumeConnection returns on the first message that cannot be read or parsed.
ConsumeReturns ==
    /\ Goes("consume", "signal")
    /\ \/ ReadFails /\ UNCHANGED wire
       \/ wire[conn] # <<>> /\ Head(wire[conn]) = BadMessage /\ Read
    /\ UNCHANGED <<storeType, token, conn, open, stores, reading, session, peer, fed,
                   hung, faults>>

\* Mutant: the worker is forgotten.
SignalProcess_Forgotten ==
    /\ Goes("signal", "close")
    /\ UNCHANGED <<storeType, token, conn, open, stores, reading, platform, faults>>

\* The deferred calls: `GetCloseChan() <- true`, which blocks while the buffer
\* is full, then Close, and the loop goes round.
SignalProcess ==
    /\ Goes("signal", "close") /\ closeChan[conn] < CloseCapacity
    /\ closeChan' = [closeChan EXCEPT ![conn] = @ + 1]
    /\ UNCHANGED <<storeType, token, conn, open, queue, worker, inWork, tried,
                   reading, platform, faults>>

Close ==
    /\ Goes("close", "dial")
    /\ open' = [open EXCEPT ![conn] = FALSE]
    /\ UNCHANGED <<storeType, token, conn, stores, reading, platform, faults>>

HandleMessage ==
    \/ MakeStore \/ MakeStorePanics \/ ConsumeMessage \/ QueueStatus \/ ConsumeReturns
    \/ SignalProcess \/ Close

startWebSocket ==
    \/ getAuthToken \/ getAuthTokenFails \/ Dial \/ DialFails \/ Sleep \/ WriteLogin
    \/ LoginFails \/ ReadResponse \/ HandleMessage

-----------------------------------------------------------------------------
(* The worker of a connection's store: select takes any case that is ready.  *)

Alive == place \notin {"exited", "crashed"}

ProcessTakes(c) ==
    /\ Alive /\ worker[c] = "select" /\ queue[c] # <<>>
    /\ worker' = [worker EXCEPT ![c] = "saving"]
    /\ inWork' = [inWork EXCEPT ![c] = <<Head(queue[c])>>]
    /\ queue' = [queue EXCEPT ![c] = Tail(@)]
    /\ UNCHANGED <<storeType, place, token, conn, open, closeChan, tried, reading,
                   platform, faults>>

ProcessSaved(c) ==
    /\ Alive /\ worker[c] = "saving" /\ ~hung
    /\ worker' = [worker EXCEPT ![c] = "select"]
    /\ tried' = [tried EXCEPT ![c] = @ \o inWork[c]]
    /\ inWork' = [inWork EXCEPT ![c] = <<>>]
    /\ UNCHANGED <<storeType, place, token, conn, open, queue, closeChan, reading,
                   platform, faults>>

\* Mutants: a failed save ends the worker, or puts the status back at the end
\* of the queue.
ProcessFails_Returns(c) ==
    /\ Alive /\ worker[c] = "saving" /\ ~hung /\ Fault
    /\ worker' = [worker EXCEPT ![c] = "ended"]
    /\ tried' = [tried EXCEPT ![c] = @ \o inWork[c]]
    /\ inWork' = [inWork EXCEPT ![c] = <<>>]
    /\ UNCHANGED <<storeType, place, token, conn, open, queue, closeChan, reading,
                   platform>>

ProcessFails_Requeues(c) ==
    /\ Alive /\ worker[c] = "saving" /\ ~hung /\ Fault
    /\ worker' = [worker EXCEPT ![c] = "select"]
    /\ queue' = [queue EXCEPT ![c] = @ \o inWork[c]]
    /\ inWork' = [inWork EXCEPT ![c] = <<>>]
    /\ UNCHANGED <<storeType, place, token, conn, open, tried, closeChan, reading,
                   platform>>

\* SaveDeviceStatus answers with an error, or the line is not written to the
\* file: the status is lost, at most a log says so, and the worker goes on.
ProcessFails(c) ==
    /\ Alive /\ worker[c] = "saving" /\ ~hung /\ Fault
    /\ worker' = [worker EXCEPT ![c] = "select"]
    /\ tried' = [tried EXCEPT ![c] = @ \o inWork[c]]
    /\ inWork' = [inWork EXCEPT ![c] = <<>>]
    /\ UNCHANGED <<storeType, place, token, conn, open, queue, closeChan, reading,
                   platform>>

\* With what is left in the queue.
ProcessStops(c) ==
    /\ Alive /\ worker[c] = "select" /\ closeChan[c] > 0
    /\ worker' = [worker EXCEPT ![c] = "ended"]
    /\ closeChan' = [closeChan EXCEPT ![c] = @ - 1]
    /\ UNCHANGED <<storeType, place, token, conn, open, queue, inWork, tried, reading,
                   platform, faults>>

Process(c) ==
    ProcessTakes(c) \/ ProcessSaved(c) \/ ProcessFails(c) \/ ProcessStops(c)

-----------------------------------------------------------------------------
(* The platform, the network and the store behind the client.                *)

AnswerLogin(c) ==
    /\ peer[c] = "asked"
    /\ peer' = [peer EXCEPT ![c] = IF token = session THEN "feeding" ELSE "refused"]
    /\ wire' = [wire EXCEPT ![c] = Append(@, Response(token = session))]
    /\ UNCHANGED <<storeType, place, token, conn, open, stores, reading, session, fed,
                   hung, faults>>

Feed(c) ==
    /\ peer[c] = "feeding" /\ fed[c] < Len(Messages) /\ Len(wire[c]) < InFlight
    /\ fed' = [fed EXCEPT ![c] = @ + 1]
    /\ wire' = [wire EXCEPT ![c] = Append(@, Messages[fed[c] + 1])]
    /\ UNCHANGED <<storeType, place, token, conn, open, stores, reading, session,
                   peer, hung, faults>>

\* Faults.

FeedsBad(c) ==
    /\ Fault /\ peer[c] = "feeding"
    /\ wire' = [wire EXCEPT ![c] = Append(@, BadMessage)]
    /\ UNCHANGED <<storeType, place, token, conn, open, stores, reading, session,
                   peer, fed, hung>>

\* What was sent last may be lost with the connection.  The platform's session
\* may end with it, and its tokens.
Breaks(c) ==
    /\ Fault /\ peer[c] \notin {"none", "closed"}
    /\ peer' = [peer EXCEPT ![c] = "closed"]
    /\ \E n \in 0..Len(wire[c]) : wire' = [wire EXCEPT ![c] = SubSeq(@, 1, n)]
    /\ session' \in {session, session + 1}
    /\ UNCHANGED <<storeType, place, token, conn, open, stores, reading, fed, hung>>

StoreHangs ==
    /\ Fault /\ storeType = "remote" /\ ~hung
    /\ hung' = TRUE
    /\ UNCHANGED <<storeType, place, token, conn, open, stores, reading, session,
                   peer, wire, fed>>

\* Nothing is left to do: the loop waits for messages that do not come, or for
\* a store that hangs, or the process has ended.
Rest ==
    /\ \/ ~Alive
       \/ place = "consume" /\ wire[conn] = <<>> /\ peer[conn] # "closed"
       \/ place = "queue" /\ hung
    /\ UNCHANGED vars

Next ==
    \/ startWebSocket
    \/ \E c \in Conns :
         Process(c) \/ AnswerLogin(c) \/ Feed(c) \/ FeedsBad(c) \/ Breaks(c)
    \/ StoreHangs \/ Rest

Spec == Init /\ [][Next]_vars

\* When the loop, a worker, and the platform can take a step.
LoopRunnable ==
    \/ place \in {"token", "dial", "sleep", "login", "store", "close"}
    \/ place \in {"response", "consume"} /\ (wire[conn] # <<>> \/ ReadFails)
    \/ place = "queue" /\ Len(queue[conn]) < Capacity
    \/ place = "signal" /\ closeChan[conn] < CloseCapacity

WorkerRunnable(c) ==
    /\ Alive
    /\ \/ worker[c] = "select" /\ (queue[c] # <<>> \/ closeChan[c] > 0)
       \/ worker[c] = "saving" /\ ~hung

PlatformRunnable(c) ==
    \/ peer[c] = "asked"
    \/ peer[c] = "feeding" /\ fed[c] < Len(Messages) /\ Len(wire[c]) < InFlight

\* Weak fairness of the loop, of the workers and of the platform, as one each,
\* which is enough as their work is finite; none of faults.
FairSpec ==
    /\ Spec
    /\ []<>~LoopRunnable \/ []<><<startWebSocket>>_vars
    /\ \/ []<>(\A c \in Conns : ~WorkerRunnable(c))
       \/ []<><<\E c \in Conns : Process(c)>>_vars
    /\ \/ []<>(\A c \in Conns : ~PlatformRunnable(c))
       \/ []<><<\E c \in Conns : AnswerLogin(c) \/ Feed(c)>>_vars

-----------------------------------------------------------------------------
(* Properties.                                                               *)

Connected == {"login", "response", "store", "consume", "queue", "signal", "close"}

\* The places of HandleMessage while its worker has no token.
Served == {"consume", "queue", "signal"}

\* Type correctness of what the loop keeps.
TypeOK ==
    /\ storeType \in {"remote", "local"}
    /\ place \in Connected \cup {"token", "dial", "sleep", "exited", "crashed"}
    /\ conn \in 0 .. MaxFaults + 1
    /\ open \in [Conns -> BOOLEAN]
    /\ closeChan \in [Conns -> Nat]
    /\ worker \in [Conns -> {"none", "select", "saving", "ended"}]

\* No socket is left behind: the loop dials only when all are closed, on every
\* path that leads back, although the deferred Close of the loop never runs
\* (receiver.go:238-273).
OneSocket == \A c \in Conns : open[c] => c = conn /\ place \in Connected \cup {"crashed"}

\* No worker is left behind: one that outlives its connection has its token,
\* and the buffer has room for it (webSocketHandler.go:31-38).
NoWorkerForgotten ==
    /\ \A c \in Conns :
         worker[c] \in {"select", "saving"} =>
            closeChan[c] = 1 \/ (c = conn /\ place \in Served)
    /\ \A c \in Conns : c > conn => worker[c] = "none" /\ closeChan[c] = 0 /\ ~open[c]
    /\ place \in Served => worker[conn] \in {"select", "saving"} /\ closeChan[conn] = 0
    /\ place \in {"login", "response", "store"} =>
            worker[conn] = "none" /\ closeChan[conn] = 0
    /\ place \in Connected => conn \in Conns

\* What the loop needs to be right about its connections, for any messages.
IInv == TypeOK /\ OneSocket /\ NoWorkerForgotten

\* The statuses of a connection that were given to the store, are being given,
\* are queued, and are about to be queued.
Account(c) ==
    tried[c] \o inWork[c] \o queue[c] \o (IF c = conn THEN inHand ELSE <<>>)

\* What each message says is given to the store once and in the order of the
\* feed, or in hand, or still in the queue of its connection, whose worker may
\* have ended with it (howen.go:71-109, webSocketHandler.go:23-48).  The store
\* may refuse it, and then it is lost, for a failed save is not repeated
\* (remoteRpcStore.go:40-43); but it takes no other status with it.
FeedIsAccountedFor == \A c \in Conns : Account(c) = ReportedUpTo[got[c]]

\* No step of the loop, of a worker or of a fault keeps a status from the
\* store, offers it twice or out of order, a failed save included: the account
\* of a connection grows by what a message says when the message is consumed,
\* and else stays as it is.
AccountsGrow ==
    [][\A c \in Conns :
         Account(c)' = IF got'[c] = got[c] THEN Account(c)
                       ELSE Account(c) \o Status(Head(wire[c]))]_vars

\* What the comment "Attach vehicle status if populated" says (howen/types.go:463):
\* an alarm whose code sets a flag is queued with its vehicle status.
PopulatedStatusIsAttached ==
    place = "queue" =>
        LET message == Messages[got[conn]]
        IN  message.action = AlarmAction /\ Flags(message.payload.ec) # {} =>
                Head(inHand).vehicleStatus # <<>>

Stable == token = session /\ ~hung /\ Alive

\* When the faults are over, the platform's session is the one of the token,
\* the store answers and the process runs, there is a connection whose whole
\* feed has been given to the store, which has saved all of it but for the
\* statuses whose own save failed.  (A token that has gone stale is never
\* fetched again, and then there is none.)
FeedResumes ==
    []<>Stable => <>(conn > 0 /\ got[conn] = Len(Messages) /\ place = "consume"
                        /\ tried[conn] = ReportedUpTo[Len(Messages)])

\* Of the connections that have ended no worker runs in the end, unless the
\* store hangs.
LeftWorkersEnd ==
    []<>(\/ \A c \in Conns : c < conn => worker[c] \notin {"select", "saving"}
         \/ hung \/ ~Alive)

================================================================================
