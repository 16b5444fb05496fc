-------------------------- MODULE DeviceLoginProofs --------------------------
(***************************************************************************)
(* The login loop keeps its promises whatever sizes the reader fetches its *)
(* bytes in and whichever store verifies the device.                       *)
(***************************************************************************)
EXTENDS DeviceLogin, TLAPS

\* The places in the list of protocols.
LEMMA Order ==
    ASSUME TypeOK
    PROVE  /\ Len(AllowedProtocols) = 5
           /\ tried \in 1..5
           /\ tried = 1 => Protocol = "INTELLITRAC_A"
           /\ tried = 2 => Protocol = "OBDII2G"
           /\ tried = 3 => Protocol = "GT06"
           /\ tried = 4 => Protocol = "TR06"
           /\ tried = 5 => Protocol = "FM1200"
  <1>1. Len(AllowedProtocols) = 5
    BY DEF AllowedProtocols
  <1>2. tried \in 1..5
    BY <1>1 DEF TypeOK
  <1> QED
    BY <1>1, <1>2 DEF Protocol, AllowedProtocols

\* What the tables say of each protocol.
LEMMA Sizes ==
    ASSUME TypeOK
    PROVE  /\ HeadSize = IF tried = 1 THEN 4 ELSE 2
           /\ tried = 1 => BodySize = IF stream.marked THEN 22 ELSE 8
           /\ tried = 2 => BodySize = 40
           /\ tried \in {3, 4} => BodySize = 22
           /\ tried = 5 => BodySize = 17
           /\ BytesToSkip = IF tried = 5 THEN 17 ELSE 0
           /\ Reads <=> tried \in {1, 3, 4}
  <1>1. HeadSize = IF tried = 1 THEN 4 ELSE 2
    BY Order DEF HeadSize
  <1>2. tried = 1 => BodySize = IF stream.marked THEN 22 ELSE 8
    BY Order DEF BodySize
  <1>3. tried = 2 => BodySize = 40
    BY Order DEF BodySize
  <1>4. tried \in {3, 4} => BodySize = 22
    BY Order DEF BodySize
  <1>5. tried = 5 => BodySize = 17
    BY Order DEF BodySize
  <1>6. BytesToSkip = IF tried = 5 THEN 17 ELSE 0
    BY <1>5, Order DEF BytesToSkip
  <1>7. Reads <=> tried \in {1, 3, 4}
    BY Order DEF Reads
  <1> QED
    BY <1>1, <1>2, <1>3, <1>4, <1>5, <1>6, <1>7

LEMMA Verdicts ==
    ASSUME TypeOK
    PROVE  /\ tried = 1 => (Recognises <=> stream.marked \/ stream.opening = "FAF8")
           /\ tried = 2 => (Recognises <=> stream.opening = "$$")
           /\ tried \in {3, 4} => (Recognises <=> stream.opening \in {"7878", "7979"})
           /\ tried = 5 => (Recognises <=> stream.opening = "000F")
           /\ tried \in {1, 5} => Parses
           /\ tried \in {2, 3, 4} => (Parses <=> stream.body = "login")
  <1>1. tried = 1 => (Recognises <=> stream.marked \/ stream.opening = "FAF8")
    BY Order DEF Recognises
  <1>2. tried = 2 => (Recognises <=> stream.opening = "$$")
    BY Order DEF Recognises
  <1>3. tried \in {3, 4} => (Recognises <=> stream.opening \in {"7878", "7979"})
    BY Order DEF Recognises
  <1>4. tried = 5 => (Recognises <=> stream.opening = "000F")
    BY Order DEF Recognises
  <1>5. tried \in {1, 5} => Parses
    BY Order DEF Parses
  <1>6. tried \in {2, 3, 4} => (Parses <=> stream.body = "login")
    BY Order DEF Parses
  <1> QED
    BY <1>1, <1>2, <1>3, <1>4, <1>5, <1>6

\* The devices there are, and what their login messages look like.
LEMMA Devices ==
    ASSUME TypeOK
    PROVE  /\ stream.opening \in Openings /\ stream.marked \in BOOLEAN
           /\ stream.body \in Bodies
           /\ Genuine => stream.body = "login"
           /\ \/ stream.sender = "binary" /\ stream.marked
              \/ stream.sender = "ascii" /\ stream.opening = "FAF8"
              \/ stream.sender = "aquila" /\ stream.opening = "$$" /\ ~stream.marked
              \/ /\ stream.sender = "wanway" /\ stream.opening \in {"7878", "7979"}
                 /\ ~stream.marked
              \/ stream.sender = "teltonika" /\ stream.opening = "000F" /\ ~stream.marked
              \/ stream.sender = "stranger"
  BY DEF TypeOK, Streams, Stream, Openings, Bodies, Genuine

\* The first protocol that recognises a device's login message is the
\* device's own, makes a login of it, and needs no byte more than it has.
LEMMA Routing ==
    ASSUME TypeOK, Passed, Recognises, Genuine
    PROVE  /\ Protocol = Speaks[stream.sender]
           /\ Parses
           /\ ~TakenForBinary => BodySize = LoginSize[stream.sender]
           /\ stream.sender = "aquila" <=> tried = 2
  <1>1. CASE tried = 1
    <2>1. stream.sender \in {"binary", "ascii"}
      BY <1>1, Devices, Verdicts DEF Genuine
    <2>2. Speaks[stream.sender] = "INTELLITRAC_A"
      BY <2>1 DEF Speaks
    <2>3. ~TakenForBinary => BodySize = LoginSize[stream.sender]
      BY <1>1, <2>1, Devices, Sizes DEF TakenForBinary, LoginSize
    <2> QED
      BY <1>1, <2>1, <2>2, <2>3, Order, Verdicts
  <1>2. CASE tried = 2
    <2>1. stream.sender = "aquila"
      BY <1>2, Devices, Verdicts DEF Genuine, Passed
    <2> QED
      BY <1>2, <2>1, Devices, Order, Sizes, Verdicts DEF Speaks, LoginSize
  <1>3. CASE tried = 3
    <2>1. stream.sender = "wanway"
      BY <1>3, Devices, Verdicts DEF Genuine, Passed
    <2> QED
      BY <1>3, <2>1, Devices, Order, Sizes, Verdicts DEF Speaks, LoginSize
  <1>4. CASE tried = 4
    BY <1>4, Verdicts DEF Passed
  <1>5. CASE tried = 5
    <2>1. stream.sender = "teltonika"
      BY <1>5, Devices, Verdicts DEF Genuine, Passed
    <2> QED
      BY <1>5, <2>1, Devices, Order, Sizes, Verdicts DEF Speaks, LoginSize
  <1> QED
    BY <1>1, <1>2, <1>3, <1>4, <1>5, Order

\* No login message is left over when the last protocol has declined.
LEMMA Unrouted ==
    ASSUME TypeOK, Passed, tried = 5, ~Recognises
    PROVE  ~Genuine
  BY Devices, Verdicts DEF Passed, Genuine

\* The tables depend on the stream and on the place in the list only.
LEMMA Stable ==
    ASSUME stream' = stream, tried' = tried
    PROVE  /\ HeadSize' = HeadSize /\ BodySize' = BodySize
           /\ (Recognises' <=> Recognises)
           /\ Protocol' = Protocol /\ GetProtocolType' = GetProtocolType
           /\ (Genuine' <=> Genuine) /\ (TakenForBinary' <=> TakenForBinary)
           /\ (Passed' <=> Passed)
  <1>1. Protocol' = Protocol
    BY DEF Protocol, AllowedProtocols
  <1>2. BodySize' = BodySize
    BY <1>1 DEF BodySize
  <1>3. Recognises' <=> Recognises
    BY <1>1 DEF Recognises
  <1>4. GetProtocolType' = GetProtocolType
    BY <1>1 DEF GetProtocolType
  <1> QED
    BY <1>1, <1>2, <1>3, <1>4 DEF HeadSize, Genuine, TakenForBinary, Passed

\* The types and sizes that the arithmetic below needs.
LEMMA Basics ==
    ASSUME IInv
    PROVE  /\ TypeOK /\ fetched \in Nat /\ consumed \in Nat /\ tried \in 1..5
           /\ Len(AllowedProtocols) = 5
           /\ HeadSize = (IF tried = 1 THEN 4 ELSE 2) /\ BodySize \in Nat
  <1>1. TypeOK
    BY DEF IInv
  <1>2. fetched \in Nat /\ consumed \in Nat
    BY <1>1 DEF TypeOK
  <1>3. tried \in 1..5 /\ Len(AllowedProtocols) = 5
    BY <1>1, Order
  <1>4. HeadSize = (IF tried = 1 THEN 4 ELSE 2)
    BY <1>1, Sizes
  <1>5. BodySize \in Nat
    <2>1. CASE tried = 1
      BY <1>1, <2>1, Sizes
    <2>2. CASE tried = 2
      BY <1>1, <2>2, Sizes
    <2>3. CASE tried \in {3, 4}
      BY <1>1, <2>3, Sizes
    <2>4. CASE tried = 5
      BY <1>1, <2>4, Sizes
    <2> QED
      BY <1>3, <2>1, <2>2, <2>3, <2>4
  <1> QED
    BY <1>1, <1>2, <1>3, <1>4, <1>5

\* While a Login is at work nothing has been taken from the reader.
LEMMA Untouched ==
    ASSUME IInv, Waiting
    PROVE  /\ consumed = 0 /\ err = "none"
           /\ step = "head" /\ ~Has(Needs) => tried = 1
           /\ step = "body" /\ Genuine /\ ~TakenForBinary /\ ~Has(Needs) =>
                 fetched < LoginSize[stream.sender]
  <1>1. consumed = 0 /\ err = "none"
    BY DEF IInv, Waiting, DeclinedLeaveStream, ReaderFacts
  <1>2. step = "head" /\ ~Has(Needs) => tried = 1
    BY <1>1, Basics DEF IInv, ReaderFacts, Has, Needs
  <1>3. step = "body" /\ Genuine /\ ~TakenForBinary => BodySize = LoginSize[stream.sender]
    BY Routing DEF IInv, ReaderFacts
  <1>4. BodySize \in Nat /\ fetched \in Nat
    BY Basics
  <1> QED
    BY <1>1, <1>2, <1>3, <1>4 DEF Has, Needs

LEMMA FetchStep ==
    ASSUME IInv, NEW n \in Fetches, Fetch(n)
    PROVE  IInv'
  <1> USE DEF Fetch
  <1>1. TypeOK'
    BY FetchesAssumption DEF IInv, TypeOK
  <1>2. Passed'
    BY Stable DEF IInv
  <1>3. ReaderFacts'
    BY Stable, Basics, FetchesAssumption DEF IInv, ReaderFacts
  <1>4. DeclinedLeaveStream'
    BY DEF IInv, DeclinedLeaveStream
  <1>5. GenuineLoginIsRouted'
    BY Stable DEF IInv, GenuineLoginIsRouted
  <1>6. LoginNeedsNoMoreBytes'
    <2>1. consumed = 0 /\ Waiting
      BY Untouched
    <2>2. CASE step = "head"
      <3>1. tried = 1
        BY <2>1, <2>2, Untouched
      <3>2. HeadSize = 4
        BY <3>1, Sizes DEF IInv
      <3>3. Genuine => LoginSize[stream.sender] >= 4
        BY Devices DEF IInv, Genuine, LoginSize
      <3> QED
        BY <2>1, <2>2, <3>2, <3>3, Stable, FetchesAssumption, Devices
        DEF IInv, LoginNeedsNoMoreBytes, Has, Needs, LoginSize, Genuine
    <2>3. CASE step = "body"
      <3>1. Genuine /\ ~TakenForBinary => BodySize = LoginSize[stream.sender]
        BY <2>3, Routing DEF IInv, ReaderFacts
      <3> QED
        BY <2>1, <2>3, <3>1, Stable, FetchesAssumption, Basics
        DEF IInv, LoginNeedsNoMoreBytes, Has, Needs
    <2> QED
      BY <2>1, <2>2, <2>3 DEF Waiting
  <1>7. StreamStartsAtBoundary'
    BY DEF Waiting, StreamStartsAtBoundary
  <1>8. AcceptedTypeSpeaksProtocol'
    BY DEF Waiting, AcceptedTypeSpeaksProtocol
  <1> QED
    BY <1>1, <1>2, <1>3, <1>4, <1>5, <1>6, <1>7, <1>8 DEF IInv

LEMMA ReadFailsStep ==
    ASSUME IInv, ReadFails
    PROVE  IInv'
  <1> USE DEF ReadFails, Reject
  <1>1. TypeOK'
    BY DEF IInv, TypeOK
  <1> QED
    BY <1>1, Stable DEF IInv, ReaderFacts, DeclinedLeaveStream,
       GenuineLoginIsRouted, LoginNeedsNoMoreBytes, Waiting,
       StreamStartsAtBoundary, AcceptedTypeSpeaksProtocol

LEMMA DeclinesStep ==
    ASSUME IInv, Declines
    PROVE  IInv'
  <1>0. /\ TypeOK /\ fetched \in Nat /\ consumed \in Nat /\ tried \in 1..5
        /\ Len(AllowedProtocols) = 5 /\ HeadSize = (IF tried = 1 THEN 4 ELSE 2)
    BY Basics
  <1>1. Waiting /\ consumed = 0
    BY Untouched DEF Declines, Waiting
  <1>2. step = "head" /\ fetched >= HeadSize /\ ~Recognises
    <2>1. step = "head" /\ Has(HeadSize) /\ ~Recognises
      BY Zenon DEF Declines
    <2>2. fetched - consumed >= HeadSize
      BY <2>1 DEF Has
    <2> QED
      BY <1>0, <1>1, <2>1, <2>2
  <1>3. CASE tried < 5
    <2>1. /\ tried' = tried + 1
          /\ UNCHANGED <<storeType, stream, fetched, consumed, step, err, deviceType>>
      BY <1>0, <1>3 DEF Declines
    <2>2. TypeOK'
      <3>1. tried' \in 1..Len(AllowedProtocols)
        BY <1>0, <2>1, <1>3
      <3> QED
        BY <2>1, <3>1 DEF IInv, TypeOK
    <2>3. Passed'
      BY <1>0, <1>2, <2>1, Verdicts DEF IInv, Passed
    <2>4. fetched >= 4
      BY <1>0, <1>2 DEF IInv, ReaderFacts
    <2>5. ReaderFacts'
      BY <1>2, <2>1, <2>4 DEF IInv, ReaderFacts
    <2>6. LoginNeedsNoMoreBytes'
      <3>1. HeadSize' \in {2, 4}
        BY DEF HeadSize
      <3> QED
        BY <1>1, <1>2, <2>1, <2>4, <3>1, <1>0 DEF LoginNeedsNoMoreBytes, Has, Needs
    <2> QED
      BY <1>1, <1>2, <2>1, <2>2, <2>3, <2>5, <2>6 DEF IInv, DeclinedLeaveStream,
         GenuineLoginIsRouted, StreamStartsAtBoundary, AcceptedTypeSpeaksProtocol,
         Genuine, ReaderFacts
  <1>4. CASE tried = 5
    <2>1. /\ step' = "rejected" /\ err' = "unknown device type"
          /\ UNCHANGED <<storeType, stream, fetched, consumed, tried, deviceType>>
      <3>1. ~(tried < Len(AllowedProtocols))
        BY <1>0, <1>4
      <3> QED
        BY <3>1, Zenon DEF Declines, Reject
    <2>2. ~Genuine
      BY <1>2, <1>4, Unrouted DEF IInv
    <2>3. TypeOK'
      BY <2>1 DEF IInv, TypeOK
    <2> QED
      BY <1>1, <2>1, <2>2, <2>3, Stable DEF IInv, ReaderFacts,
         DeclinedLeaveStream, GenuineLoginIsRouted, LoginNeedsNoMoreBytes,
         Waiting, StreamStartsAtBoundary, AcceptedTypeSpeaksProtocol
  <1> QED
    BY <1>0, <1>3, <1>4

LEMMA RecognisedStep ==
    ASSUME IInv, Recognised
    PROVE  IInv'
  <1> USE DEF Recognised
  <1>1. consumed = 0 /\ err = "none"
    BY Untouched DEF Waiting
  <1>2. TypeOK'
    BY DEF IInv, TypeOK
  <1>3. ReaderFacts'
    BY <1>1, Stable, Basics DEF IInv, ReaderFacts, Has
  <1>4. GenuineLoginIsRouted'
    BY <1>1, Stable, Routing DEF IInv, GenuineLoginIsRouted
  <1>5. LoginNeedsNoMoreBytes'
    BY <1>1, Stable, Routing, Basics DEF IInv, LoginNeedsNoMoreBytes, Has, Needs
  <1> QED
    BY <1>1, <1>2, <1>3, <1>4, <1>5, Stable DEF IInv, DeclinedLeaveStream,
       StreamStartsAtBoundary, AcceptedTypeSpeaksProtocol

LEMMA LoginFailsStep ==
    ASSUME IInv, LoginFails
    PROVE  IInv'
  <1> USE DEF LoginFails, Reject
  <1>1. TypeOK'
    <2>1. BodySize \in Nat /\ consumed \in Nat
      BY Basics
    <2>2. consumed' = consumed + BodySize \/ consumed' = consumed
      BY Zenon
    <2>3. consumed' \in Nat
      <3> HIDE DEF LoginFails
      <3> QED
        BY <2>1, <2>2
    <2> QED
      BY <2>3 DEF IInv, TypeOK
  <1>2. ~Genuine
    BY Routing DEF IInv, ReaderFacts
  <1> QED
    BY <1>1, <1>2, Stable DEF IInv, ReaderFacts, DeclinedLeaveStream,
       GenuineLoginIsRouted, LoginNeedsNoMoreBytes, Waiting,
       StreamStartsAtBoundary, AcceptedTypeSpeaksProtocol

LEMMA LoginReturnsStep ==
    ASSUME IInv, LoginReturns
    PROVE  IInv'
  <1> USE DEF LoginReturns
  <1>1. consumed = 0 /\ err = "none"
    BY Untouched DEF Waiting
  <1>2. consumed' = IF tried = 2 THEN 0 ELSE BodySize
    <2>1. BytesToSkip = (IF tried = 5 THEN 17 ELSE 0)
      BY Sizes, Basics
    <2>2. Reads <=> tried \in {1, 3, 4}
      BY Sizes, Basics
    <2>3. tried = 5 => BodySize = 17
      BY Sizes, Basics
    <2> QED
      BY <1>1, <2>1, <2>2, <2>3, Basics
  <1>3. (Protocol = "OBDII2G") <=> tried = 2
    BY Order DEF IInv
  <1>4. consumed' \in Nat
    BY <1>2, Basics
  <1>5. TypeOK'
    BY <1>4 DEF IInv, TypeOK
  <1>6. ReaderFacts'
    BY <1>1, <1>2, <1>3, Stable DEF IInv, ReaderFacts
  <1>7. GenuineLoginIsRouted'
    BY <1>1, Stable DEF IInv, GenuineLoginIsRouted
  <1>8. StreamStartsAtBoundary'
    <2>1. Genuine /\ ~TakenForBinary =>
            /\ BodySize = LoginSize[stream.sender]
            /\ stream.sender = "aquila" <=> tried = 2
      BY Routing DEF IInv, ReaderFacts
    <2> QED
      BY <1>2, <2>1, Stable DEF StreamStartsAtBoundary
  <1> QED
    BY <1>1, <1>5, <1>6, <1>7, <1>8, Stable DEF IInv, DeclinedLeaveStream,
       LoginNeedsNoMoreBytes, Waiting, AcceptedTypeSpeaksProtocol

\* Both names a protocol goes by list the same device types.
LEMMA Types ==
    ASSUME TypeOK, NEW type
    PROVE  /\ Listed(GetProtocolType, type) => type \in DeviceTypes
           /\ Listed(GetProtocolType, type) => Listed(Protocol, type)
           /\ Listed(GetProtocolType, GetDeviceTypesForProtocol[GetProtocolType][1])
  <1>1. CASE tried \in {1, 2, 5}
    BY <1>1, Order DEF GetProtocolType, GetDeviceTypesForProtocol, Listed, DeviceTypes
  <1>2. CASE tried = 3
    BY <1>2, Order, SMTT(30) DEF GetProtocolType, GetDeviceTypesForProtocol, Listed, DeviceTypes
  <1>3. CASE tried = 4
    BY <1>3, Order DEF GetProtocolType, GetDeviceTypesForProtocol, Listed, DeviceTypes
  <1> QED
    BY <1>1, <1>2, <1>3, Order

LEMMA AcceptsStep ==
    ASSUME IInv, NEW type, step = "verify", Listed(GetProtocolType, type), Accepts(type)
    PROVE  IInv'
  <1> USE DEF Accepts
  <1>1. TypeOK'
    BY Types DEF IInv, TypeOK
  <1>2. AcceptedTypeSpeaksProtocol'
    BY Types, Stable DEF IInv, AcceptedTypeSpeaksProtocol, Listed
  <1> QED
    BY <1>1, <1>2, Stable DEF IInv, ReaderFacts, DeclinedLeaveStream,
       GenuineLoginIsRouted, LoginNeedsNoMoreBytes, Waiting, StreamStartsAtBoundary

LEMMA UnauthorizedStep ==
    ASSUME IInv, Unauthorized
    PROVE  IInv'
  <1> USE DEF Unauthorized, Reject
  <1>1. TypeOK'
    BY DEF IInv, TypeOK
  <1> QED
    BY <1>1, Stable DEF IInv, ReaderFacts, DeclinedLeaveStream,
       GenuineLoginIsRouted, LoginNeedsNoMoreBytes, Waiting,
       StreamStartsAtBoundary, AcceptedTypeSpeaksProtocol

LEMMA StutterStep ==
    ASSUME IInv, UNCHANGED vars
    PROVE  IInv'
  <1> USE DEF vars
  <1>1. TypeOK'
    BY DEF IInv, TypeOK
  <1> QED
    BY <1>1, Stable DEF IInv, ReaderFacts, DeclinedLeaveStream, Listed, Has, Needs,
       GenuineLoginIsRouted, LoginNeedsNoMoreBytes, Waiting,
       StreamStartsAtBoundary, AcceptedTypeSpeaksProtocol

-----------------------------------------------------------------------------
\* The invariant of the login loop (tcpHandler.go, attemptDeviceLogin) holds
\* for every way the bytes may arrive and every answer of the store.
THEOREM Invariance == Spec => []IInv
  <1>1. Init => IInv
    <2> SUFFICES ASSUME Init PROVE IInv
      OBVIOUS
    <2>1. TypeOK
      BY DEF Init, TypeOK, AllowedProtocols
    <2>2. HeadSize = 4
      BY <2>1, Sizes DEF Init
    <2>3. LoginNeedsNoMoreBytes
      BY <2>1, Devices DEF Init, LoginNeedsNoMoreBytes, LoginSize, Genuine
    <2> QED
      BY <2>1, <2>3 DEF Init, IInv, Passed, ReaderFacts, DeclinedLeaveStream,
         GenuineLoginIsRouted, StreamStartsAtBoundary, AcceptedTypeSpeaksProtocol
  <1>2. IInv /\ [Next]_vars => IInv'
    <2> SUFFICES ASSUME IInv, [Next]_vars PROVE IInv'
      OBVIOUS
    <2>1. CASE \E n \in Fetches : Fetch(n)
      BY <2>1, FetchStep
    <2>2. CASE ReadFails
      BY <2>2, ReadFailsStep
    <2>3. CASE Declines
      BY <2>3, DeclinesStep
    <2>4. CASE Recognised
      BY <2>4, RecognisedStep
    <2>5. CASE LoginFails
      BY <2>5, LoginFailsStep
    <2>6. CASE LoginReturns
      BY <2>6, LoginReturnsStep
    <2>7. CASE VerifyLocally
      BY <2>7, AcceptsStep, Types DEF VerifyLocally, IInv
    <2>8. CASE \E sameImei \in BOOLEAN, type \in DeviceTypes : VerifyRemotely(sameImei, type)
      BY <2>8, AcceptsStep DEF VerifyRemotely
    <2>9. CASE Unauthorized
      BY <2>9, UnauthorizedStep
    <2>10. CASE Rest \/ UNCHANGED vars
      BY <2>10, StutterStep DEF Rest
    <2> QED
      BY <2>1, <2>2, <2>3, <2>4, <2>5, <2>6, <2>7, <2>8, <2>9, <2>10 DEF Next
  <1> QED
    BY <1>1, <1>2, PTL DEF Spec

\* Every protocol sees the stream from its first byte.
THEOREM DeclinedProtocolsTakeNothing == Spec => []DeclinedLeaveStream
  BY Invariance, PTL DEF IInv

\* The overlap of the openings never sends a login to a wrong protocol.
THEOREM LoginsReachTheirProtocol == Spec => []GenuineLoginIsRouted
  BY Invariance, PTL DEF IInv

\* No Login waits for bytes that its device does not send on its own account.
THEOREM LoginsAreNotKeptWaiting == Spec => []LoginNeedsNoMoreBytes
  BY Invariance, PTL DEF IInv

\* ConsumeStream is handed the reader at a message boundary.
THEOREM StreamsStartAtBoundary == Spec => []StreamStartsAtBoundary
  BY Invariance, PTL DEF IInv

\* The swapped names of GT06 and TR06 never let in a type of another protocol.
THEOREM TypesSpeakTheirProtocol == Spec => []AcceptedTypeSpeaksProtocol
  BY Invariance, PTL DEF IInv

-----------------------------------------------------------------------------
(* The login refines the first steps of TcpHandler.                          *)

\* Every step of the login is the handler's step to the next place, or none.
LEMMA LoginStep ==
    ASSUME IInv, [Next]_vars
    PROVE  Handler!Next \/ UNCHANGED Handler!vars
  <1> DEFINE conn == "conn"
  <1>1. TypeOK /\ (err = "none" <=> step # "rejected")
    BY DEF IInv, ReaderFacts
  <1>2. CASE LoginReturns
    <2>1. Handler!LoginReads(conn, "device")
      BY <1>2 DEF LoginReturns, Handler!LoginReads, Handler!Go, Place, Named,
         Waiting, Handler!server, Handler!maps, Handler!calls
    <2> QED
      BY <2>1 DEF Handler!Next, Handler!HandleConnection
  <1>3. CASE VerifyLocally \/ \E sameImei \in BOOLEAN, type \in DeviceTypes :
                                  VerifyRemotely(sameImei, type)
    <2>1. step = "verify" /\ step' = "accepted" /\ err' = err
          /\ UNCHANGED storeType
      BY <1>3 DEF VerifyLocally, VerifyRemotely, Accepts
    <2>2. Handler!VerifySucceeds(conn)
      BY <2>1 DEF Handler!VerifySucceeds, Handler!Go, Place, Named, Waiting,
         Handler!server, Handler!maps, Handler!calls
    <2> QED
      BY <2>2 DEF Handler!Next, Handler!HandleConnection, Handler!Proceeds,
         Handler!Verify
  <1>4. CASE Unauthorized
    <2>1. Handler!VerifyRefuses(conn)
      BY <1>4 DEF Unauthorized, Reject, Handler!VerifyRefuses, Handler!Closes, Handler!Go, Place,
         Named, Waiting, Handler!server, Handler!maps, Handler!calls
    <2> QED
      BY <2>1 DEF Handler!Next, Handler!HandleConnection, Handler!Proceeds,
         Handler!Verify
  <1>5. CASE \/ ReadFails \/ LoginFails
             \/ Declines /\ step' = "rejected"
    <2>1. /\ Waiting /\ step' = "rejected" /\ ~Named /\ ~Named'
          /\ UNCHANGED storeType
      BY <1>1, <1>5 DEF ReadFails, LoginFails, Declines, Reject, Waiting, Named
    <2>2. Handler!LoginFails(conn)
      BY <2>1 DEF Handler!LoginFails, Handler!Closes, Handler!Go, Place, Waiting,
         Handler!server, Handler!maps, Handler!calls
    <2> QED
      BY <2>2 DEF Handler!Next, Handler!HandleConnection, Handler!Proceeds
  <1>6. CASE \/ \E n \in Fetches : Fetch(n)
             \/ Recognised
             \/ Declines /\ step' # "rejected"
             \/ Rest \/ UNCHANGED vars
    <2>1. UNCHANGED <<storeType, err>> /\ Place' = Place
      BY <1>1, <1>6 DEF Fetch, Recognised, Declines, Reject, Rest, vars, Place, Waiting
    <2>2. Named' <=> Named
      BY <1>1, <1>6 DEF Fetch, Recognised, Declines, Reject, Rest, vars, Named
    <2> QED
      BY <2>1, <2>2 DEF Handler!vars, Handler!server, Handler!handlers,
         Handler!maps, Handler!calls
  <1> QED
    BY <1>2, <1>3, <1>4, <1>5, <1>6 DEF Next

\* What TcpHandler assumes of a login, the five Login functions and the store's
\* verdict do: it reads an IMEI and verifies it, or fails.
THEOREM LoginImplementsHandler == Spec => LoginIsHandlers
  <1>1. IInv /\ [Next]_vars => [Handler!Next]_(Handler!vars)
    BY LoginStep
  <1> QED
    BY <1>1, Invariance, PTL DEF Spec, LoginIsHandlers
=============================================================================
