-------------------------- MODULE AsyncStoreProofs --------------------------
(***************************************************************************)
(* IInv is inductive for any capacity of the queues and any number of      *)
(* records, and with it AsyncStore implements StatusPipe.                  *)
(***************************************************************************)
EXTENDS AsyncStore, SequenceTheorems, TLAPS

-----------------------------------------------------------------------------
(* The queue argument, once for records and once for responses.              *)

\* Putting the next record at the end of a queue keeps it in order.
LEMMA PutInOrder ==
  ASSUME NEW queue \in Seq(Nat), NEW handed \in Seq(Nat), NEW count \in Nat,
         InOrder(queue, handed, count), Len(queue) < Capacity
  PROVE  InOrder(Append(queue, count + 1), handed, count + 1)
<1> DEFINE q == Append(queue, count + 1)
<1>1. /\ Len(q) = Len(queue) + 1 /\ q[Len(queue) + 1] = count + 1
      /\ \A i \in 1..Len(queue) : q[i] = queue[i]
  OBVIOUS
<1>2. Len(queue) \in Nat /\ Len(handed) \in Nat /\ Capacity \in Nat
  BY CapacityAssumption
<1>3. /\ count = Len(handed) + Len(queue)
      /\ \A i \in 1..Len(handed) : handed[i] = i
      /\ \A i \in 1..Len(queue) : queue[i] = Len(handed) + i
  BY DEF InOrder
<1> HIDE DEF q
<1>4. Len(q) <= Capacity /\ count + 1 = Len(handed) + Len(q)
  BY <1>1, <1>2, <1>3
<1>5. ASSUME NEW i \in 1..Len(q) PROVE q[i] = Len(handed) + i
  <2>1. CASE i = Len(queue) + 1 BY <1>1, <1>2, <1>3, <2>1
  <2>2. CASE i # Len(queue) + 1
    <3>1. i \in 1..Len(queue) BY <1>1, <1>2, <2>2
    <3> QED BY <1>1, <1>3, <3>1
  <2> QED BY <2>1, <2>2
<1>6. InOrder(q, handed, count + 1) BY <1>3, <1>4, <1>5 DEF InOrder
<1> QED BY <1>6 DEF q

\* Handing on the head of a queue keeps it in order.
LEMMA TakeInOrder ==
  ASSUME NEW queue \in Seq(Nat), NEW handed \in Seq(Nat), NEW count \in Nat,
         InOrder(queue, handed, count), queue # <<>>
  PROVE  /\ InOrder(Tail(queue), Append(handed, Head(queue)), count)
         /\ Head(queue) = Len(handed) + 1 /\ Len(handed) < count
<1> DEFINE q == Tail(queue)
           h == Append(handed, Head(queue))
<1>1. /\ Len(queue) \in Nat \ {0} /\ Len(handed) \in Nat /\ Capacity \in Nat
      /\ Head(queue) = queue[1]
  BY CapacityAssumption
<1>2. /\ q \in Seq(Nat) /\ Len(q) = Len(queue) - 1
      /\ \A i \in 1..Len(q) : q[i] = queue[i + 1]
  BY <1>1
<1>3. /\ Len(h) = Len(handed) + 1 /\ h[Len(handed) + 1] = Head(queue)
      /\ \A i \in 1..Len(handed) : h[i] = handed[i]
  BY <1>1
<1>4. /\ Len(queue) <= Capacity /\ count = Len(handed) + Len(queue)
      /\ \A i \in 1..Len(handed) : handed[i] = i
      /\ \A i \in 1..Len(queue) : queue[i] = Len(handed) + i
  BY DEF InOrder
<1>5. Head(queue) = Len(handed) + 1 /\ Len(handed) < count
  BY <1>1, <1>4
<1> HIDE DEF q, h
<1>6. Len(q) <= Capacity /\ count = Len(h) + Len(q)
  BY <1>1, <1>2, <1>3, <1>4
<1>7. ASSUME NEW i \in 1..Len(h) PROVE h[i] = i
  <2>1. CASE i = Len(handed) + 1 BY <1>3, <1>5, <2>1
  <2>2. CASE i # Len(handed) + 1
    <3>1. i \in 1..Len(handed) BY <1>1, <1>3, <2>2
    <3> QED BY <1>3, <1>4, <3>1
  <2> QED BY <2>1, <2>2
<1>8. ASSUME NEW i \in 1..Len(q) PROVE q[i] = Len(h) + i
  <2>1. i + 1 \in 1..Len(queue) /\ i \in Nat BY <1>1, <1>2
  <2>2. q[i] = Len(handed) + (i + 1) BY <1>2, <1>4, <2>1
  <2> QED BY <1>1, <1>3, <2>1, <2>2
<1>9. InOrder(q, h, count) BY <1>6, <1>7, <1>8 DEF InOrder
<1> QED BY <1>5, <1>9 DEF q, h

-----------------------------------------------------------------------------
LEMMA InitIInv == Init => IInv
<1> SUFFICES ASSUME Init PROVE IInv OBVIOUS
<1> USE CapacityAssumption DEF Init
<1>1. TypeOK
  <2>1. EmptyChan \in CloseChans BY DEF EmptyChan, CloseChans
  <2>2. <<>> \in Seq(Nat) OBVIOUS
  <2> QED BY <2>1, <2>2 DEF TypeOK, Serving
<1>2. InOrder(<<>>, <<>>, 0) BY DEF InOrder
<1>3. QueuesInOrder BY <1>2 DEF QueuesInOrder
<1>4. CleanupNeverBlocks BY DEF CleanupNeverBlocks
<1>5. WorkersOutliveService BY DEF WorkersOutliveService, Ready, EmptyChan
<1>6. SignalsInOrder BY DEF SignalsInOrder, Ready, EmptyChan
<1> QED BY <1>1, <1>3, <1>4, <1>5, <1>6 DEF IInv

\* What the operations on a close channel return.
LEMMA CloseChanTypes ==
  ASSUME NEW ch \in CloseChans
  PROVE  /\ [ch EXCEPT !.tokens = @ + 1] \in CloseChans
         /\ [ch EXCEPT !.state = "closed"] \in CloseChans
         /\ ch.tokens > 0 => [ch EXCEPT !.tokens = @ - 1] \in CloseChans
BY DEF CloseChans

LEMMA NextTypeOK == TypeOK /\ [Next]_vars => TypeOK'
<1> SUFFICES ASSUME TypeOK, [Next]_vars PROVE TypeOK' OBVIOUS
<1> USE DEF TypeOK, channels, history, Serving
<1>1. CASE Offer \/ OfferResponse \/ StreamEnds
  BY <1>1 DEF Offer, OfferResponse, StreamEnds
<1>2. CASE SendRecord
  <2>1. Append(processChan, accepted + 1) \in Seq(Nat) OBVIOUS
  <2> QED BY <1>2, <2>1 DEF SendRecord
<1>3. CASE SendResponse
  <2>1. Append(responseChan, answered + 1) \in Seq(Nat) OBVIOUS
  <2> QED BY <1>3, <2>1 DEF SendResponse
<1>4. CASE DropRecord BY <1>4 DEF DropRecord
<1>5. CASE SignalProcess
  <2>1. closeChan' \in CloseChans BY <1>5, CloseChanTypes DEF SignalProcess, PutToken
  <2> QED BY <1>5, <2>1 DEF SignalProcess
<1>6. CASE SignalResponse
  <2>1. closeResponseChan' \in CloseChans BY <1>6, CloseChanTypes DEF SignalResponse, PutToken
  <2> QED BY <1>6, <2>1 DEF SignalResponse
<1>7. CASE CloseChannels \/ Cancel
  BY <1>7, CloseChanTypes DEF CloseChannels, Cancel
<1>8. CASE ProcessTakes
  <2>1. Tail(processChan) \in Seq(Nat) /\ Head(processChan) \in Nat
    BY <1>8 DEF ProcessTakes
  <2>2. Append(attempted, Head(processChan)) \in Seq(Nat) BY <2>1
  <2> QED BY <1>8, <2>1, <2>2 DEF ProcessTakes
<1>9. CASE ResponseTakes
  <2>1. Tail(responseChan) \in Seq(Nat) /\ Head(responseChan) \in Nat
    BY <1>9 DEF ResponseTakes
  <2>2. Append(relayed, Head(responseChan)) \in Seq(Nat) BY <2>1
  <2> QED BY <1>9, <2>1, <2>2 DEF ResponseTakes
<1>10. CASE \/ ProcessSaved \/ ResponseSaved
            \/ ProcessStopsOnCancel \/ ResponseStopsOnCancel
  BY <1>10 DEF ProcessSaved, ResponseSaved, ProcessStopsOnCancel, ResponseStopsOnCancel
<1>11. CASE ProcessStopsOnClose \/ JsonResponseStopsOnClose
  <2>1. closeChan' \in CloseChans
    BY <1>11, CloseChanTypes
    DEF ProcessStopsOnClose, JsonResponseStopsOnClose, TakeToken
  <2> QED BY <1>11, <2>1 DEF ProcessStopsOnClose, JsonResponseStopsOnClose
<1>12. CASE RemoteResponseStopsOnClose
  <2>1. closeResponseChan' \in CloseChans
    BY <1>12, CloseChanTypes DEF RemoteResponseStopsOnClose, TakeToken
  <2> QED BY <1>12, <2>1 DEF RemoteResponseStopsOnClose
<1>13. CASE StoreHangs \/ Rest \/ UNCHANGED vars BY <1>13 DEF StoreHangs, Rest, vars
<1> QED
  BY <1>1, <1>2, <1>3, <1>4, <1>5, <1>6, <1>7, <1>8, <1>9, <1>10, <1>11, <1>12, <1>13
  DEF Next, Handles, Process, Response

\* Only the four steps below touch the queues.
LEMMA NextQueuesInOrder == IInv /\ [Next]_vars => QueuesInOrder'
<1> SUFFICES ASSUME IInv, [Next]_vars PROVE QueuesInOrder' OBVIOUS
<1>0. /\ processChan \in Seq(Nat) /\ attempted \in Seq(Nat) /\ accepted \in Nat
      /\ responseChan \in Seq(Nat) /\ relayed \in Seq(Nat) /\ answered \in Nat
      /\ InOrder(processChan, attempted, accepted)
      /\ InOrder(responseChan, relayed, answered)
  BY DEF IInv, TypeOK, QueuesInOrder
<1>1. CASE SendRecord
  BY <1>0, <1>1, PutInOrder DEF SendRecord, QueuesInOrder
<1>2. CASE SendResponse
  BY <1>0, <1>2, PutInOrder DEF SendResponse, QueuesInOrder
<1>3. CASE ProcessTakes
  BY <1>0, <1>3, TakeInOrder DEF ProcessTakes, QueuesInOrder
<1>4. CASE ResponseTakes
  BY <1>0, <1>4, TakeInOrder DEF ResponseTakes, QueuesInOrder
<1>5. CASE UNCHANGED <<processChan, responseChan, accepted, attempted, answered, relayed>>
  BY <1>0, <1>5 DEF QueuesInOrder
<1> QED
  BY <1>1, <1>2, <1>3, <1>4, <1>5
  DEF Next, Handles, Process, Response, Offer, OfferResponse, StreamEnds,
      DropRecord, SignalProcess, SignalResponse, CloseChannels, Cancel,
      ProcessSaved, ProcessStopsOnClose, ProcessStopsOnCancel, ResponseSaved,
      RemoteResponseStopsOnClose, JsonResponseStopsOnClose,
      ResponseStopsOnCancel, StoreHangs, Rest, vars, channels, history

\* A signal that is not raised can only be raised by the deferred call for it.
LEMMA NextSignals ==
  IInv /\ [Next]_vars => SignalsInOrder' /\ WorkersOutliveService'
<1> SUFFICES ASSUME IInv, [Next]_vars
    PROVE  SignalsInOrder' /\ WorkersOutliveService'
  OBVIOUS
<1> USE DEF IInv, TypeOK, SignalsInOrder, WorkersOutliveService, Serving, channels
<1>1. CASE Offer \/ OfferResponse \/ SendRecord \/ SendResponse \/ DropRecord
  BY <1>1 DEF Offer, OfferResponse, SendRecord, SendResponse, DropRecord
<1>2. CASE StreamEnds BY <1>2 DEF StreamEnds
<1>3. CASE SignalProcess BY <1>3 DEF SignalProcess
<1>4. CASE SignalResponse BY <1>4 DEF SignalResponse
<1>5. CASE CloseChannels BY <1>5 DEF CloseChannels
<1>6. CASE Cancel BY <1>6 DEF Cancel
<1>7. CASE ProcessTakes \/ ProcessSaved \/ ResponseTakes \/ ResponseSaved
  BY <1>7, SMTT(30) DEF ProcessTakes, ProcessSaved, ResponseTakes, ResponseSaved
<1>8. CASE ProcessStopsOnCancel \/ ResponseStopsOnCancel
  BY <1>8 DEF ProcessStopsOnCancel, ResponseStopsOnCancel
<1>9. CASE ProcessStopsOnClose \/ JsonResponseStopsOnClose
  BY <1>9 DEF ProcessStopsOnClose, JsonResponseStopsOnClose
<1>10. CASE RemoteResponseStopsOnClose BY <1>10 DEF RemoteResponseStopsOnClose
<1>11. CASE StoreHangs \/ Rest \/ UNCHANGED vars
  BY <1>11 DEF StoreHangs, Rest, vars
<1> QED
  BY <1>1, <1>2, <1>3, <1>4, <1>5, <1>6, <1>7, <1>8, <1>9, <1>10, <1>11
  DEF Next, Handles, Process, Response

LEMMA SignalsRoom == TypeOK /\ SignalsInOrder => CleanupNeverBlocks
<1>1. CloseCapacity \in Nat \ {0} BY CapacityAssumption DEF CloseCapacity
<1>2. \A ch \in CloseChans : ~Ready(ch) => ch.tokens = 0
  BY DEF CloseChans, Ready
<1> QED BY <1>1, <1>2 DEF TypeOK, SignalsInOrder, CleanupNeverBlocks

LEMMA NextIInv == IInv /\ [Next]_vars => IInv'
<1> SUFFICES ASSUME IInv, [Next]_vars PROVE IInv' OBVIOUS
<1>1. TypeOK' BY NextTypeOK DEF IInv
<1>2. QueuesInOrder' BY NextQueuesInOrder
<1>3. SignalsInOrder' /\ WorkersOutliveService' BY NextSignals
<1>4. TypeOK' /\ SignalsInOrder' => CleanupNeverBlocks' BY SignalsRoom, PTL
<1> QED BY <1>1, <1>2, <1>3, <1>4 DEF IInv

-----------------------------------------------------------------------------
\* In every reachable state of a store all its safety invariants hold.
THEOREM Invariance == Spec => []IInv
BY InitIInv, NextIInv, PTL DEF Spec

\* No record or response is lost, repeated or reordered inside the store, and
\* the queues keep to their capacity (remoteRpcStore.go, jsonLinesStore.go).
THEOREM StoreKeepsOrder == Spec => []QueuesInOrder
<1>1. IInv => QueuesInOrder BY DEF IInv
<1> QED BY <1>1, Invariance, PTL

\* The deferred sends on the close channels of tcpHandler.go:107-108 and
\* webSocketHandler.go:34 never block, for any capacity of at least one.
THEOREM CleanupGoesThrough == Spec => []CleanupNeverBlocks
<1>1. IInv => CleanupNeverBlocks BY DEF IInv
<1> QED BY <1>1, Invariance, PTL

\* While a connection is served its workers are not told to stop.
THEOREM ServiceKeepsWorkers == Spec => []WorkersOutliveService
<1>1. IInv => WorkersOutliveService BY DEF IInv
<1> QED BY <1>1, Invariance, PTL

-----------------------------------------------------------------------------
(* Refinement: every step of the store is a step of the pipe or a stutter.   *)

LEMMA RecordsInit == Init => Records!PipeInit
BY DEF Init, Records!PipeInit, Phase, Serving

LEMMA RecordsStep ==
  IInv /\ [Next]_vars => [Records!PipeNext]_Records!pipeVars
<1> SUFFICES ASSUME IInv, [Next]_vars
    PROVE  Records!PipeNext \/ UNCHANGED Records!pipeVars
  OBVIOUS
<1> USE DEF Phase, Serving, channels, history, Records!PipeNext, Records!pipeVars
<1>1. CASE SendRecord
  BY <1>1 DEF SendRecord, Records!Accept
<1>2. CASE ProcessTakes
  <2>1. Head(processChan) = Len(attempted) + 1 /\ Len(attempted) < accepted
    BY <1>2, TakeInOrder DEF ProcessTakes, IInv, TypeOK, QueuesInOrder
  <2> QED BY <1>2, <2>1 DEF ProcessTakes, Records!Attempt
<1>3. CASE StreamEnds
  BY <1>3 DEF StreamEnds, Records!BeginClose, IInv, WorkersOutliveService
<1>4. CASE \/ ProcessStopsOnClose \/ ProcessStopsOnCancel
           \/ RemoteResponseStopsOnClose \/ JsonResponseStopsOnClose
           \/ ResponseStopsOnCancel
  <2>1. handler \notin Serving
    BY <1>4 DEF ProcessStopsOnClose, ProcessStopsOnCancel,
       RemoteResponseStopsOnClose, JsonResponseStopsOnClose,
       ResponseStopsOnCancel, IInv, WorkersOutliveService
  <2> QED
    BY <1>4, <2>1 DEF ProcessStopsOnClose, ProcessStopsOnCancel,
       RemoteResponseStopsOnClose, JsonResponseStopsOnClose,
       ResponseStopsOnCancel, Records!Stop
<1>5. CASE Offer \/ OfferResponse \/ SendResponse \/ DropRecord
  BY <1>5 DEF Offer, OfferResponse, SendResponse, DropRecord
<1>6. CASE SignalProcess \/ SignalResponse \/ CloseChannels \/ Cancel
  BY <1>6 DEF SignalProcess, SignalResponse, CloseChannels, Cancel
<1>7. CASE ResponseTakes \/ ProcessSaved \/ ResponseSaved
  BY <1>7 DEF ResponseTakes, ProcessSaved, ResponseSaved
<1>8. CASE StoreHangs \/ Rest \/ UNCHANGED vars
  BY <1>8 DEF StoreHangs, Rest, vars
<1> QED
  BY <1>1, <1>2, <1>3, <1>4, <1>5, <1>6, <1>7, <1>8
  DEF Next, Handles, Process, Response

LEMMA ResponsesInit == Init => Responses!PipeInit
BY DEF Init, Responses!PipeInit, Phase, Serving

LEMMA ResponsesStep ==
  IInv /\ [Next]_vars => [Responses!PipeNext]_Responses!pipeVars
<1> SUFFICES ASSUME IInv, [Next]_vars
    PROVE  Responses!PipeNext \/ UNCHANGED Responses!pipeVars
  OBVIOUS
<1> USE DEF Phase, Serving, channels, history, Responses!PipeNext, Responses!pipeVars
<1>1. CASE SendResponse
  BY <1>1 DEF SendResponse, Responses!Accept
<1>2. CASE ResponseTakes
  <2>1. Head(responseChan) = Len(relayed) + 1 /\ Len(relayed) < answered
    BY <1>2, TakeInOrder DEF ResponseTakes, IInv, TypeOK, QueuesInOrder
  <2> QED BY <1>2, <2>1 DEF ResponseTakes, Responses!Attempt
<1>3. CASE StreamEnds
  BY <1>3 DEF StreamEnds, Responses!BeginClose, IInv, WorkersOutliveService
<1>4. CASE \/ ProcessStopsOnClose \/ ProcessStopsOnCancel
           \/ RemoteResponseStopsOnClose \/ JsonResponseStopsOnClose
           \/ ResponseStopsOnCancel
  <2>1. handler \notin Serving
    BY <1>4 DEF ProcessStopsOnClose, ProcessStopsOnCancel,
       RemoteResponseStopsOnClose, JsonResponseStopsOnClose,
       ResponseStopsOnCancel, IInv, WorkersOutliveService
  <2> QED
    BY <1>4, <2>1 DEF ProcessStopsOnClose, ProcessStopsOnCancel,
       RemoteResponseStopsOnClose, JsonResponseStopsOnClose,
       ResponseStopsOnCancel, Responses!Stop
<1>5. CASE Offer \/ OfferResponse \/ SendRecord \/ DropRecord
  BY <1>5 DEF Offer, OfferResponse, SendRecord, DropRecord
<1>6. CASE SignalProcess \/ SignalResponse \/ CloseChannels \/ Cancel
  BY <1>6 DEF SignalProcess, SignalResponse, CloseChannels, Cancel
<1>7. CASE ProcessTakes \/ ProcessSaved \/ ResponseSaved
  BY <1>7 DEF ProcessTakes, ProcessSaved, ResponseSaved
<1>8. CASE StoreHangs \/ Rest \/ UNCHANGED vars
  BY <1>8 DEF StoreHangs, Rest, vars
<1> QED
  BY <1>1, <1>2, <1>3, <1>4, <1>5, <1>6, <1>7, <1>8
  DEF Next, Handles, Process, Response

\* RemoteRpcStore and JsonLinesStore hand on the records of a connection as
\* StatusPipe says: each once, in order, and none lost before the close begins.
THEOREM RecordsImplementPipe == Spec => RecordsFlow
<1>1. Spec => Records!PipeInit /\ [][Records!PipeNext]_Records!pipeVars
  BY RecordsInit, RecordsStep, Invariance, PTL DEF Spec
<1> QED BY <1>1 DEF RecordsFlow, Records!PipeSpec

\* The same for command responses.
THEOREM ResponsesImplementPipe == Spec => ResponsesFlow
<1>1. Spec => Responses!PipeInit /\ [][Responses!PipeNext]_Responses!pipeVars
  BY ResponsesInit, ResponsesStep, Invariance, PTL DEF Spec
<1> QED BY <1>1 DEF ResponsesFlow, Responses!PipeSpec

-----------------------------------------------------------------------------
(* Refinement: behind the TCP handler, every step of the store is a step of  *)
(* TcpHandler or a stutter.                                                  *)

\* The steps that change nothing but the place of the handler.
LEMMA SamePlace ==
  ASSUME Place' = Place, UNCHANGED <<setup, hung>>
  PROVE  UNCHANGED Handler!vars
BY DEF Handler!vars, Handler!server, Handler!handlers, Handler!maps,
   Handler!calls, Kind

LEMMA ServiceStep ==
  ASSUME IInv, [Next]_vars, Listener = "tcp"
  PROVE  Handler!Next \/ UNCHANGED Handler!vars
<1> DEFINE conn == "conn"
<1>1. TypeOK /\ Capacity \in Nat BY CapacityAssumption DEF IInv
<1> USE DEF Handler!server, Handler!maps, Handler!calls, Handler!Go
<1>2. CASE Offer \/ OfferResponse
  <2>1. /\ UNCHANGED <<setup, hung>> /\ Place = "serve"
        /\ Place' \in {"serve", "blocked"}
    BY <1>2 DEF Offer, OfferResponse, Place, Blocked, Serving, channels
  <2>2. CASE Place' = "serve" BY <2>1, <2>2, SamePlace
  <2>3. CASE Place' = "blocked"
    <3>1. Handler!Backpressure(conn) BY <2>1, <2>3 DEF Handler!Backpressure, Kind
    <3> QED BY <3>1 DEF Handler!Next, Handler!HandleConnection
  <2> QED BY <2>1, <2>2, <2>3
<1>3. CASE ProcessTakes \/ ResponseTakes \/ DropRecord \/ SendRecord \/ SendResponse
  <2>1. /\ UNCHANGED <<setup, hung>>
        /\ Place' = Place \/ (Place = "blocked" /\ Place' = "serve")
    <3>1. CASE ProcessTakes
      BY <1>1, <3>1 DEF ProcessTakes, Place, Blocked, Full, TypeOK, Serving
    <3>2. CASE ResponseTakes
      BY <1>1, <3>2 DEF ResponseTakes, Place, Blocked, Full, TypeOK, Serving
    <3>3. CASE DropRecord
      BY <1>1, <3>3 DEF DropRecord, Place, Blocked, Full, Serving
    <3>4. CASE SendRecord
      BY <1>1, <3>4 DEF SendRecord, Place, Blocked, Full, TypeOK, Serving
    <3>5. CASE SendResponse
      BY <1>1, <3>5 DEF SendResponse, Place, Blocked, Full, TypeOK, Serving
    <3> QED BY <1>3, <3>1, <3>2, <3>3, <3>4, <3>5
  <2>2. CASE Place' = Place BY <2>1, <2>2, SamePlace
  <2>3. CASE Place = "blocked" /\ Place' = "serve"
    <3>1. Handler!WorkerDrains(conn) BY <2>1, <2>3 DEF Handler!WorkerDrains, Kind
    <3> QED BY <3>1 DEF Handler!Next, Handler!HandleConnection
  <2> QED BY <2>1, <2>2, <2>3
<1>4. CASE StreamEnds
  <2>1. UNCHANGED <<setup, hung>> /\ Place = "serve" /\ Place' = "closeStore"
    BY <1>4 DEF StreamEnds, Place, Blocked, Serving
  <2>2. Handler!ConsumeReturns(conn) BY <2>1 DEF Handler!ConsumeReturns, Kind
  <2> QED BY <2>2 DEF Handler!Next, Handler!HandleConnection
<1>5. CASE CloseChannels
  <2>1. UNCHANGED <<setup, hung>> /\ Place = "closeStore" /\ Place' = "lockClean"
    BY <1>5 DEF CloseChannels, Place, Blocked, Serving
  <2>2. Handler!CloseStore(conn) BY <2>1 DEF Handler!CloseStore, Kind
  <2> QED
    BY <2>2 DEF Handler!Next, Handler!HandleConnection, Handler!Proceeds,
       Handler!Cleanup
<1>6. CASE SignalProcess \/ SignalResponse \/ Cancel
  <2>1. UNCHANGED <<setup, hung>> /\ Place' = Place
    BY <1>6 DEF SignalProcess, SignalResponse, Cancel, Place, Blocked, Serving,
       Listener
  <2> QED BY <2>1, SamePlace
<1>7. CASE StoreHangs
  <2>1. Place' = Place BY <1>7 DEF StoreHangs, Place, Blocked, Full, Serving, channels
  <2>2. Handler!StoreHangs
    BY <1>7, <2>1 DEF StoreHangs, Handler!StoreHangs, Handler!handlers, Kind
  <2> QED BY <2>2 DEF Handler!Next
<1>8. CASE \/ ProcessSaved \/ ProcessStopsOnClose \/ ProcessStopsOnCancel
           \/ ResponseSaved \/ RemoteResponseStopsOnClose
           \/ JsonResponseStopsOnClose \/ ResponseStopsOnCancel
           \/ Rest \/ UNCHANGED vars
  <2>1. UNCHANGED <<setup, hung, handler, processChan, responseChan>>
    BY <1>8 DEF ProcessSaved, ProcessStopsOnClose, ProcessStopsOnCancel,
       ResponseSaved, RemoteResponseStopsOnClose, JsonResponseStopsOnClose,
       ResponseStopsOnCancel, Rest, vars, channels
  <2>2. Place' = Place BY <2>1 DEF Place, Blocked, Full
  <2> QED BY <2>1, <2>2, SamePlace
<1> QED
  BY <1>2, <1>3, <1>4, <1>5, <1>6, <1>7, <1>8 DEF Next, Handles, Process, Response

\* The places serve, blocked and closeStore of TcpHandler are what the queues,
\* the workers and the deferred calls of the store come to, for any capacity.
THEOREM ServiceImplementsHandler == Spec => ServiceIsHandlers
<1>1. IInv /\ [Next]_vars => [Listener = "tcp" => Handler!Next]_(Handler!vars)
  BY ServiceStep
<1> QED BY <1>1, Invariance, PTL DEF Spec, ServiceIsHandlers
=============================================================================
