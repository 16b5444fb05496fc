----------------------------- MODULE AsyncStore -----------------------------
(***************************************************************************)
(* The store of one connection: the handler's goroutine puts records on    *)
(* ProcessChan and command responses on ResponseChan, the goroutines       *)
(* Process and Response take them off and save them, and the handler's     *)
(* deferred calls tell both to stop.                                       *)
(*                                                                         *)
(* setup says who is at work and never changes: RemoteRpcStore or          *)
(* JsonLinesStore; the TcpHandler or the WebSocketHandler, which starts no *)
(* Response worker and neither closes the channels nor cancels the         *)
(* context; a protocol that waits for room in a full queue, or OBDII2G,    *)
(* which waits 100 ms and drops the record.                                *)
(***************************************************************************)
EXTENDS Naturals, Sequences

CONSTANTS
    Capacity,       \* of ProcessChan and ResponseChan (200 in the code)
    MaxRecords,     \* bound on the records offered on the connection
    MaxResponses    \* bound on the command responses

ASSUME CapacityAssumption == Capacity \in Nat \ {0}
ASSUME BoundsAssumption == MaxRecords \in Nat /\ MaxResponses \in Nat

VARIABLES
    setup,
    handler,            \* place of the handler's goroutine
    processor,          \* place of the goroutine running Process
    responder,          \* place of the goroutine running Response
    processChan, responseChan,
    closeChan, closeResponseChan,  \* tokens in the buffer, and closed or not
    ctxDone,            \* the connection's context is cancelled
    hung,               \* the remote store no longer answers
    offered, accepted, attempted,  \* records offered, accepted, handed on
    answered, relayed   \* responses accepted and handed on

channels == <<processChan, responseChan, closeChan, closeResponseChan>>
history  == <<offered, accepted, attempted, answered, relayed>>
vars     == <<setup, handler, processor, responder, channels, ctxDone, hung, history>>

Setups == [kind : {"remote", "json"}, listener : {"tcp", "websocket"},
           dropsWhenFull : BOOLEAN]

Kind     == setup.kind
Listener == setup.listener

\* The websocket handler only reads records; HOWEN has no command responses.
HasResponder == Listener = "tcp"

\* The close channels hold one token in makeRemoteRpcStore and as many as the
\* data channels in makeJsonStore.
CloseCapacity == IF Kind = "remote" THEN 1 ELSE Capacity

CloseChans == [tokens : Nat, state : {"open", "closed"}]
EmptyChan  == [tokens |-> 0, state |-> "open"]

Init ==
    /\ setup \in Setups
    /\ handler = "serve"
    /\ processor = "select"
    /\ responder = IF HasResponder THEN "select" ELSE "absent"
    /\ processChan = <<>> /\ responseChan = <<>>
    /\ closeChan = EmptyChan
    /\ closeResponseChan = EmptyChan
    /\ ctxDone = FALSE /\ hung = FALSE
    /\ offered = 0 /\ accepted = 0 /\ attempted = <<>>
    /\ answered = 0 /\ relayed = <<>>

-----------------------------------------------------------------------------
(* The handler's goroutine inside ConsumeStream or ConsumeConnection.        *)

\* A message has been parsed to a record, which is about to be sent.
Offer ==
    /\ handler = "serve" /\ offered < MaxRecords
    /\ handler' = "offer"
    /\ offered' = offered + 1
    /\ UNCHANGED <<setup, processor, responder, channels, ctxDone, hung,
                   accepted, attempted, answered, relayed>>

SendRecord ==
    /\ handler = "offer" /\ Len(processChan) < Capacity
    /\ processChan' = Append(processChan, accepted + 1)
    /\ accepted' = accepted + 1
    /\ handler' = "serve"
    /\ UNCHANGED <<setup, processor, responder, responseChan, closeChan,
                   closeResponseChan, ctxDone, hung, offered, attempted,
                   answered, relayed>>

\* Mutant: a full queue ends the stream like an error.
DropRecord_EndsStream ==
    /\ handler = "offer" /\ setup.dropsWhenFull /\ Len(processChan) = Capacity
    /\ handler' = "signalProcess"
    /\ UNCHANGED <<setup, processor, responder, channels, ctxDone, hung, history>>

\* The timer of processPacket fires while the queue is full.
DropRecord ==
    /\ handler = "offer" /\ setup.dropsWhenFull /\ Len(processChan) = Capacity
    /\ handler' = "serve"
    /\ UNCHANGED <<setup, processor, responder, channels, ctxDone, hung, history>>

\* A command response is about to be sent.
OfferResponse ==
    /\ handler = "serve" /\ HasResponder /\ answered < MaxResponses
    /\ handler' = "respond"
    /\ UNCHANGED <<setup, processor, responder, channels, ctxDone, hung, history>>

SendResponse ==
    /\ handler = "respond" /\ Len(responseChan) < Capacity
    /\ responseChan' = Append(responseChan, answered + 1)
    /\ answered' = answered + 1
    /\ handler' = "serve"
    /\ UNCHANGED <<setup, processor, responder, processChan, closeChan,
                   closeResponseChan, ctxDone, hung, offered, accepted,
                   attempted, relayed>>

\* The stream ends; the deferred calls start.
StreamEnds ==
    /\ handler = "serve"
    /\ handler' = "signalProcess"
    /\ UNCHANGED <<setup, processor, responder, channels, ctxDone, hung, history>>

-----------------------------------------------------------------------------
(* The deferred calls.                                                       *)

\* A send of true on a close channel blocks while its buffer is full.
PutToken(ch) ==
    /\ ch.tokens < CloseCapacity /\ ch.state = "open"
    /\ ch' = [ch EXCEPT !.tokens = @ + 1]

SignalProcess ==
    /\ handler = "signalProcess"
    /\ PutToken(closeChan)
    /\ handler' = IF Listener = "tcp" THEN "signalResponse" ELSE "done"
    /\ UNCHANGED <<setup, processor, responder, processChan, responseChan,
                   closeResponseChan, ctxDone, hung, history>>

SignalResponse ==
    /\ handler = "signalResponse"
    /\ PutToken(closeResponseChan)
    /\ handler' = "closeChannels"
    /\ UNCHANGED <<setup, processor, responder, processChan, responseChan, closeChan,
                   ctxDone, hung, history>>

\* Mutant: the channels are not closed.
CloseChannels_NotClosed ==
    /\ handler = "closeChannels"
    /\ handler' = "cancel"
    /\ UNCHANGED <<setup, processor, responder, channels, ctxDone, hung, history>>

CloseChannels ==
    /\ handler = "closeChannels"
    /\ closeChan' = [closeChan EXCEPT !.state = "closed"]
    /\ closeResponseChan' = [closeResponseChan EXCEPT !.state = "closed"]
    /\ handler' = "cancel"
    /\ UNCHANGED <<setup, processor, responder, processChan, responseChan, ctxDone,
                   hung, history>>

Cancel ==
    /\ handler = "cancel"
    /\ ctxDone' = TRUE
    /\ handler' = "done"
    /\ UNCHANGED <<setup, processor, responder, channels, hung, history>>

-----------------------------------------------------------------------------
(* The workers.  A select with several ready cases takes any of them.        *)

\* Mutant: the newest record first.
ProcessTakes_Newest ==
    /\ processor = "select" /\ processChan # <<>>
    /\ attempted' = Append(attempted, processChan[Len(processChan)])
    /\ processChan' = SubSeq(processChan, 1, Len(processChan) - 1)
    /\ processor' = "save"
    /\ UNCHANGED <<setup, handler, responder, responseChan, closeChan,
                   closeResponseChan, ctxDone, hung, offered, accepted,
                   answered, relayed>>

ProcessTakes ==
    /\ processor = "select" /\ processChan # <<>>
    /\ attempted' = Append(attempted, Head(processChan))
    /\ processChan' = Tail(processChan)
    /\ processor' = "save"
    /\ UNCHANGED <<setup, handler, responder, responseChan, closeChan,
                   closeResponseChan, ctxDone, hung, offered, accepted,
                   answered, relayed>>

\* Mutant: Process returns when a save fails.
ProcessSaved_StopsOnError ==
    /\ processor = "save" /\ ~hung
    /\ processor' \in {"select", "ended"}
    /\ UNCHANGED <<setup, handler, responder, channels, ctxDone, hung, history>>

\* SaveDeviceStatus succeeds, or fails and is logged, or the line is written.
\* The call runs under context.Background(), so cancelling does not end it.
ProcessSaved ==
    /\ processor = "save" /\ ~hung
    /\ processor' = "select"
    /\ UNCHANGED <<setup, handler, responder, channels, ctxDone, hung, history>>

\* Receiving from ch succeeds at once: a token is there, or ch is closed.
Ready(ch) == ch.tokens > 0 \/ ch.state = "closed"
TakeToken(ch) == ch' = IF ch.tokens > 0 THEN [ch EXCEPT !.tokens = @ - 1] ELSE ch

ProcessStopsOnClose ==
    /\ processor = "select" /\ Ready(closeChan)
    /\ TakeToken(closeChan)
    /\ processor' = "ended"
    /\ UNCHANGED <<setup, handler, responder, processChan, responseChan,
                   closeResponseChan, ctxDone, hung, history>>

\* JsonLinesStore does not look at the context.
ProcessStopsOnCancel ==
    /\ processor = "select" /\ Kind = "remote" /\ ctxDone
    /\ processor' = "ended"
    /\ UNCHANGED <<setup, handler, responder, channels, ctxDone, hung, history>>

\* Mutant: a response stays queued until it is saved, and is saved again.
ResponseTakes_Keeps ==
    /\ responder = "select" /\ responseChan # <<>> /\ Len(relayed) <= MaxResponses
    /\ relayed' = Append(relayed, Head(responseChan))
    /\ responder' = "save"
    /\ UNCHANGED <<setup, handler, processor, channels, ctxDone, hung, offered,
                   accepted, attempted, answered>>

ResponseTakes ==
    /\ responder = "select" /\ responseChan # <<>>
    /\ relayed' = Append(relayed, Head(responseChan))
    /\ responseChan' = Tail(responseChan)
    /\ responder' = "save"
    /\ UNCHANGED <<setup, handler, processor, processChan, closeChan,
                   closeResponseChan, ctxDone, hung, offered, accepted,
                   attempted, answered>>

\* SaveDeviceResponse runs under the connection's context.
ResponseSaved ==
    /\ responder = "save" /\ (~hung \/ ctxDone)
    /\ responder' = "select"
    /\ UNCHANGED <<setup, handler, processor, channels, ctxDone, hung, history>>

RemoteResponseStopsOnClose ==
    /\ responder = "select" /\ Kind = "remote" /\ Ready(closeResponseChan)
    /\ TakeToken(closeResponseChan)
    /\ responder' = "ended"
    /\ UNCHANGED <<setup, handler, processor, processChan, responseChan, closeChan,
                   ctxDone, hung, history>>

\* JsonLinesStore.Response listens on CloseChan, the channel Process has.
JsonResponseStopsOnClose ==
    /\ responder = "select" /\ Kind = "json" /\ Ready(closeChan)
    /\ TakeToken(closeChan)
    /\ responder' = "ended"
    /\ UNCHANGED <<setup, handler, processor, processChan, responseChan,
                   closeResponseChan, ctxDone, hung, history>>

ResponseStopsOnCancel ==
    /\ responder = "select" /\ Kind = "remote" /\ ctxDone
    /\ responder' = "ended"
    /\ UNCHANGED <<setup, handler, processor, channels, ctxDone, hung, history>>

\* The remote store stops answering.
StoreHangs ==
    /\ Kind = "remote" /\ ~hung
    /\ hung' = TRUE
    /\ UNCHANGED <<setup, handler, processor, responder, channels, ctxDone, history>>

-----------------------------------------------------------------------------
Handles ==
    \/ SendRecord \/ DropRecord \/ SendResponse
    \/ SignalProcess \/ SignalResponse \/ CloseChannels \/ Cancel

Process == ProcessTakes \/ ProcessSaved \/ ProcessStopsOnClose \/ ProcessStopsOnCancel

Response ==
    \/ ResponseTakes \/ ResponseSaved \/ RemoteResponseStopsOnClose
    \/ JsonResponseStopsOnClose \/ ResponseStopsOnCancel

\* Saving a record with a store that will never answer.
ProcessStuck == hung /\ processor = "save"

\* Where the three goroutines may come to rest; the deadlock check says that
\* they rest nowhere else.
Rest ==
    /\ \/ /\ handler = "done" /\ responder \in {"ended", "absent"}
          /\ processor = "ended" \/ ProcessStuck
       \/ handler = "offer" /\ Len(processChan) = Capacity /\ ProcessStuck
       \/ handler = "respond" /\ Len(responseChan) = Capacity
          /\ hung /\ responder = "save"
    /\ UNCHANGED vars

Next ==
    \/ Offer \/ OfferResponse \/ StreamEnds \/ Handles
    \/ Process \/ Response \/ StoreHangs \/ Rest

Spec == Init /\ [][Next]_vars

\* The goroutines are scheduled; the store answers until it hangs.  Nothing
\* says that a device sends anything or ever hangs up.
FairSpec == Spec /\ WF_vars(Handles) /\ WF_vars(Process) /\ WF_vars(Response)

-----------------------------------------------------------------------------
(* Properties.                                                               *)

Serving == {"serve", "offer", "respond"}

TypeOK ==
    /\ setup \in Setups
    /\ handler \in Serving \cup {"signalProcess", "signalResponse",
                                 "closeChannels", "cancel", "done"}
    /\ processor \in {"select", "save", "ended"}
    /\ responder \in {"select", "save", "ended", "absent"}
    /\ processChan \in Seq(Nat) /\ responseChan \in Seq(Nat)
    /\ closeChan \in CloseChans /\ closeResponseChan \in CloseChans
    /\ ctxDone \in BOOLEAN /\ hung \in BOOLEAN
    /\ offered \in Nat /\ accepted \in Nat /\ attempted \in Seq(Nat)
    /\ answered \in Nat /\ relayed \in Seq(Nat)

\* The queues never exceed their capacity, and what is in flight is exactly
\* what was accepted and not yet handed on, in order: no record or response
\* is lost, repeated or overtaken inside the store.
InOrder(queue, handed, count) ==
    /\ Len(queue) <= Capacity
    /\ count = Len(handed) + Len(queue)
    /\ \A i \in 1..Len(handed) : handed[i] = i
    /\ \A i \in 1..Len(queue) : queue[i] = Len(handed) + i

QueuesInOrder ==
    /\ InOrder(processChan, attempted, accepted)
    /\ InOrder(responseChan, relayed, answered)

\* The deferred calls never block on a close channel: whichever worker takes
\* whichever token, there is room when the handler puts one.
CleanupNeverBlocks ==
    /\ handler = "signalProcess" => closeChan.tokens < CloseCapacity
    /\ handler = "signalResponse" => closeResponseChan.tokens < CloseCapacity

\* As long as the connection is served both workers are there to take what
\* the handler sends: none of the signals that end them is raised.
WorkersOutliveService ==
    handler \in Serving =>
        /\ processor # "ended" /\ responder # "ended"
        /\ ~Ready(closeChan) /\ ~Ready(closeResponseChan) /\ ~ctxDone

\* What the two invariants above rest on: a signal is raised by the deferred
\* call that is there for it and not before.
SignalsInOrder ==
    /\ handler \in Serving \cup {"signalProcess"} => ~Ready(closeChan)
    /\ handler \in Serving \cup {"signalProcess", "signalResponse"} =>
          ~Ready(closeResponseChan)
    /\ ctxDone => handler = "done"

\* The inductive invariant.
IInv ==
    /\ TypeOK /\ QueuesInOrder /\ CleanupNeverBlocks /\ WorkersOutliveService
    /\ SignalsInOrder

\* The records, and the responses, flow as StatusPipe promises.
Phase(worker) ==
    IF handler \in Serving THEN "open"
    ELSE IF worker = "ended" THEN "closed" ELSE "closing"

Records == INSTANCE StatusPipe WITH phase <- Phase(processor)
Responses == INSTANCE StatusPipe WITH
    accepted <- answered, attempted <- relayed, phase <- Phase(responder)

RecordsFlow == Records!PipeSpec
ResponsesFlow == Responses!PipeSpec

\* Once the handler has run its deferred calls both workers end; Process is
\* the one that a hung store can keep, because it ignores the cancellation.
WorkersEnd ==
    handler = "done" ~> /\ processor = "ended" \/ ProcessStuck
                        /\ responder \in {"ended", "absent"}

\* A handler waits on a full queue only while the store hangs.
BackpressureClears ==
    handler \in {"offer", "respond"} ~> handler \notin {"offer", "respond"} \/ hung

\* While the connection stays open and the store answers, every accepted
\* record reaches the backend.
AcceptedIsAttempted ==
    \A n \in 1..MaxRecords :
        accepted >= n ~> Len(attempted) >= n \/ handler \notin Serving \/ hung
-----------------------------------------------------------------------------
(* What TcpHandler says of a connection that is being served.                *)

Full(queue) == Len(queue) >= Capacity

Blocked ==
    \/ handler = "offer" /\ Full(processChan)
    \/ handler = "respond" /\ Full(responseChan)

Place ==
    CASE Blocked                        -> "blocked"
      [] handler \in Serving /\ ~Blocked -> "serve"
      [] handler \in {"signalProcess", "signalResponse", "closeChannels"} ->
            "closeStore"
      [] handler \in {"cancel", "done"}  -> "lockClean"

Handler == INSTANCE TcpHandler WITH
    StoreTypes <- {"local", "remote"},
    Conns <- {"conn"}, Addrs <- {"address"}, Devices <- {"device"},
    Commandable <- {}, Calls <- {}, None <- "none",
    process <- "up", mu <- "none", storeHung <- hung,
    storeType <- IF Kind = "json" THEN "local" ELSE "remote",
    pc <- [c \in {"conn"} |-> Place],
    addr <- [c \in {"conn"} |-> "address"],
    device <- [c \in {"conn"} |-> "device"],
    dataStore <- [c \in {"conn"} |-> "made"],
    peer <- [c \in {"conn"} |-> "open"],
    ticker <- [c \in {"conn"} |-> "ticking"],
    connToProtocolMap <- [a \in {"address"} |-> "conn"],
    connToStoreMap <- [a \in {"address"} |-> "conn"],
    imeiToConnMap <-
        [d \in {"device"} |-> [conn |-> "conn", protocol |-> "conn"]],
    callPc <- [k \in {} |-> "idle"], callImei <- [k \in {} |-> "none"],
    target <- [k \in {} |-> "none"], reply <- [k \in {} |-> "none"]

\* Behind the TCP handler, queues and workers amount to what TcpHandler says of
\* the service: a full queue holds the handler up and does not end the
\* connection, and only a connection that has left its stream is closed.
ServiceIsHandlers == [][Listener = "tcp" => Handler!Next]_(Handler!vars)
=============================================================================
