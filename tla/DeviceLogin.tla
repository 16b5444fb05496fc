----------------------------- MODULE DeviceLogin -----------------------------
(***************************************************************************)
(* attemptDeviceLogin: the handler offers one buffered reader to the Login *)
(* of one protocol after the other until one recognises the device, and    *)
(* asks the store whether the device may log in.                           *)
(*                                                                         *)
(* A stream is what the Login functions can tell of it: its first two      *)
(* bytes, whether the next two are 00 02, and whether what follows is a    *)
(* login message of the protocol the opening belongs to.  sender names the *)
(* device behind it; no action looks at it.  The reader has `fetched`      *)
(* bytes from the socket so far and handed out `consumed` of them.         *)
(***************************************************************************)
EXTENDS Integers, Sequences

CONSTANTS
    StoreTypes,  \* the values of the -storeType flag to start with
    Fetches      \* the amounts of bytes the reader may have fetched

ASSUME StoreTypesAssumption == StoreTypes \subseteq {"local", "remote"}
ASSUME FetchesAssumption == Fetches \subseteq Nat

VARIABLES storeType, stream, fetched, consumed, tried, step, err, deviceType

vars == <<storeType, stream, fetched, consumed, tried, step, err, deviceType>>

-----------------------------------------------------------------------------
(* Devices and their login messages.                                         *)

Openings == {"$$", "7878", "7979", "FAF8", "000F", "other"}
Bodies   == {"login", "message", "malformed"}

Stream(sender, openings, marks, bodies) ==
    [sender : {sender}, opening : openings, marked : marks, body : bodies]

\* The first two bytes of a binary IntelliTrac heartbeat are a transaction
\* id, the third and fourth byte of an ASCII one a sequence id.
Streams ==
    Stream("binary", Openings, {TRUE}, {"login"})
        \cup Stream("ascii", {"FAF8"}, BOOLEAN, {"login"})
        \cup Stream("aquila", {"$$"}, {FALSE}, {"login"})
        \cup Stream("wanway", {"7878", "7979"}, {FALSE}, {"login"})
        \cup Stream("teltonika", {"000F"}, {FALSE}, {"login"})
        \cup Stream("stranger", Openings, BOOLEAN, Bodies)

Speaks == [binary |-> "INTELLITRAC_A", ascii |-> "INTELLITRAC_A",
           aquila |-> "OBDII2G", wanway |-> "GT06", teltonika |-> "FM1200"]

\* The size of a device's login message.  A line of OBDII2G has 22 fields and
\* thus at least 40 bytes; the second length byte of a 7979 frame is ignored.
LoginSize == [binary |-> 22, ascii |-> 8, aquila |-> 40, wanway |-> 22,
              teltonika |-> 17]

Genuine == stream.sender # "stranger"

-----------------------------------------------------------------------------
(* The protocols.                                                            *)

AllowedProtocols == <<"INTELLITRAC_A", "OBDII2G", "GT06", "TR06", "FM1200">>

Protocol == AllowedProtocols[tried]

\* Bytes peeked before a protocol decides whether the stream is its own.
HeadSize == IF Protocol = "INTELLITRAC_A" THEN 4 ELSE 2

\* Mutant: the opening of the ASCII heartbeat is all that is looked at.
Recognises_OpeningOnly ==
    CASE Protocol = "INTELLITRAC_A"    -> stream.opening = "FAF8"
      [] Protocol = "OBDII2G"          -> stream.opening = "$$"
      [] Protocol \in {"GT06", "TR06"} -> stream.opening \in {"7878", "7979"}
      [] Protocol = "FM1200"           -> stream.opening = "000F"

Recognises ==
    CASE Protocol = "INTELLITRAC_A"    -> stream.marked \/ stream.opening = "FAF8"
      [] Protocol = "OBDII2G"          -> stream.opening = "$$"
      [] Protocol \in {"GT06", "TR06"} -> stream.opening \in {"7878", "7979"}
      [] Protocol = "FM1200"           -> stream.opening = "000F"

\* Mutant: the OBDII2G Login asks for a longer piece of its first line.
BodySize_LongPeek ==
    CASE Protocol = "INTELLITRAC_A"    -> IF stream.marked THEN 22 ELSE 8
      [] Protocol = "OBDII2G"          -> 41
      [] Protocol \in {"GT06", "TR06"} -> 22
      [] Protocol = "FM1200"           -> 17

\* Bytes needed after that: a heartbeat, a peek at the head of a line, a
\* frame (of the length of a login frame), the length and the IMEI.
BodySize ==
    CASE Protocol = "INTELLITRAC_A"    -> IF stream.marked THEN 22 ELSE 8
      [] Protocol = "OBDII2G"          -> 40
      [] Protocol \in {"GT06", "TR06"} -> 22
      [] Protocol = "FM1200"           -> 17

\* Does Login make a login of those bytes?  IntelliTrac only warns about odd
\* heartbeats, FM1200 takes any 15 bytes for an IMEI.
Parses ==
    Protocol \in {"OBDII2G", "GT06", "TR06"} => stream.body = "login"

\* Login reads its bytes, or peeks at them.
Reads == Protocol \in {"INTELLITRAC_A", "GT06", "TR06"}

\* Mutant: the length of the IMEI without the two bytes that hold it.
BytesToSkip_ImeiOnly == IF Protocol = "FM1200" THEN 15 ELSE 0

\* What the handler is told to discard.  The line OBDII2G has peeked at stays
\* in the reader: it is also the first record of the stream.
BytesToSkip == IF Protocol = "FM1200" THEN BodySize ELSE 0

\* GT06 and TR06 answer with each other's name.
GetProtocolType ==
    CASE Protocol = "GT06" -> "TR06"
      [] Protocol = "TR06" -> "GT06"
      [] OTHER             -> Protocol

GetDeviceTypesForProtocol ==
    [FM1200 |-> <<"TELTONIKA">>, INTELLITRAC_A |-> <<"INTELLITRAC">>,
     OBDII2G |-> <<"AQUILA">>, GT06 |-> <<"CONCOX", "WANWAY">>,
     TR06 |-> <<"WANWAY", "CONCOX">>]

DeviceTypes == {"TELTONIKA", "INTELLITRAC", "AQUILA", "CONCOX", "WANWAY", "HOWEN"}

Listed(p, type) ==
    LET types == GetDeviceTypesForProtocol[p]
    IN  \E i \in 1..Len(types) : types[i] = type

-----------------------------------------------------------------------------
Needs   == IF step = "head" THEN HeadSize ELSE BodySize
Waiting == step \in {"head", "body"}
Has(n)  == fetched - consumed >= n

Init ==
    /\ storeType \in StoreTypes
    /\ stream \in Streams
    /\ fetched = 0 /\ consumed = 0
    /\ tried = 1 /\ step = "head"
    /\ err = "none" /\ deviceType = "none"

\* A peek or read that has too few bytes fetches what the socket has.
Fetch(n) ==
    /\ Waiting /\ ~Has(Needs)
    /\ n \in Fetches /\ n > fetched
    /\ fetched' = n
    /\ UNCHANGED <<storeType, stream, consumed, tried, step, err, deviceType>>

Reject(e) == step' = "rejected" /\ err' = e

\* The peer closes or resets, or the 20 s of the read deadline are over: the
\* error is no ErrUnknownProtocol, so no other protocol is tried.
ReadFails ==
    /\ Waiting /\ ~Has(Needs)
    /\ consumed' = IF step = "body" /\ Reads THEN fetched ELSE consumed
    /\ Reject("read failed")
    /\ UNCHANGED <<storeType, stream, fetched, tried, deviceType>>

\* Mutant: the four bytes are read, not peeked at.
Declines_Reads ==
    /\ step = "head" /\ Has(HeadSize) /\ ~Recognises
    /\ consumed' = IF Protocol = "INTELLITRAC_A" THEN consumed + 4 ELSE consumed
    /\ IF tried < Len(AllowedProtocols)
       THEN tried' = tried + 1 /\ UNCHANGED <<step, err>>
       ELSE UNCHANGED tried /\ Reject("unknown device type")
    /\ UNCHANGED <<storeType, stream, fetched, deviceType>>

\* ErrUnknownProtocol: the next protocol is given the same reader.
Declines ==
    /\ step = "head" /\ Has(HeadSize) /\ ~Recognises
    /\ IF tried < Len(AllowedProtocols)
       THEN tried' = tried + 1 /\ UNCHANGED <<step, err>>
       ELSE UNCHANGED tried /\ Reject("unknown device type")
    /\ UNCHANGED <<storeType, stream, fetched, consumed, deviceType>>

Recognised ==
    /\ step = "head" /\ Has(HeadSize) /\ Recognises
    /\ step' = "body"
    /\ UNCHANGED <<storeType, stream, fetched, consumed, tried, err, deviceType>>

LoginFails ==
    /\ step = "body" /\ Has(BodySize) /\ ~Parses
    /\ consumed' = IF Reads THEN consumed + BodySize ELSE consumed
    /\ Reject("invalid login")
    /\ UNCHANGED <<storeType, stream, fetched, tried, deviceType>>

\* Mutant: the device is served without asking the store.
LoginReturns_Unverified ==
    /\ step = "body" /\ Has(BodySize) /\ Parses
    /\ consumed' = consumed + (IF Reads THEN BodySize ELSE 0) + BytesToSkip
    /\ step' = "accepted"
    /\ deviceType' = GetDeviceTypesForProtocol[GetProtocolType][1]
    /\ UNCHANGED <<storeType, stream, fetched, tried, err>>

\* Login returns an IMEI, which is never empty, and the handler discards what
\* it was told to.
LoginReturns ==
    /\ step = "body" /\ Has(BodySize) /\ Parses
    /\ consumed' = consumed + (IF Reads THEN BodySize ELSE 0) + BytesToSkip
    /\ step' = "verify"
    /\ UNCHANGED <<storeType, stream, fetched, tried, err, deviceType>>

Accepts(type) ==
    /\ deviceType' = type
    /\ step' = "accepted"
    /\ UNCHANGED <<storeType, stream, fetched, consumed, tried, err>>

\* The local store takes the first device type of the protocol.
VerifyLocally ==
    /\ step = "verify" /\ storeType = "local"
    /\ Accepts(GetDeviceTypesForProtocol[GetProtocolType][1])

\* Mutant: the type the store answers is believed.
VerifyRemotely_AnyType(sameImei, type) ==
    /\ step = "verify" /\ storeType = "remote"
    /\ sameImei
    /\ Accepts(type)

\* The remote store answers with an IMEI and a device type.
VerifyRemotely(sameImei, type) ==
    /\ step = "verify" /\ storeType = "remote"
    /\ sameImei /\ Listed(GetProtocolType, type)
    /\ Accepts(type)

\* It answers with another IMEI, another type or an error.
Unauthorized ==
    /\ step = "verify" /\ storeType = "remote"
    /\ Reject("unauthorized")
    /\ UNCHANGED <<storeType, stream, fetched, consumed, tried, deviceType>>

Rest == step \in {"accepted", "rejected"} /\ UNCHANGED vars

Next ==
    \/ \E n \in Fetches : Fetch(n)
    \/ ReadFails \/ Declines \/ Recognised \/ LoginFails \/ LoginReturns
    \/ VerifyLocally \/ Unauthorized
    \/ \E sameImei \in BOOLEAN, type \in DeviceTypes : VerifyRemotely(sameImei, type)
    \/ Rest

Spec == Init /\ [][Next]_vars

-----------------------------------------------------------------------------
(* Properties.                                                               *)

TypeOK ==
    /\ storeType \in StoreTypes
    /\ stream \in Streams
    /\ fetched \in Nat /\ consumed \in Nat
    /\ tried \in 1..Len(AllowedProtocols)
    /\ step \in {"head", "body", "verify", "accepted", "rejected"}
    /\ err \in {"none", "read failed", "unknown device type", "invalid login",
                "unauthorized"}
    /\ deviceType \in DeviceTypes \cup {"none"}

\* Every protocol is given the stream from its first byte: one that declines
\* has only peeked.  So the verdict on a stream does not depend on which
\* protocols were tried before.
DeclinedLeaveStream ==
    step = "head" \/ err = "unknown device type" => consumed = 0

\* The login message of every supported device is handled by the device's own
\* protocol, although the openings overlap (any two bytes may be the
\* transaction id of a binary heartbeat), and none is called unknown.
GenuineLoginIsRouted ==
    Genuine =>
        /\ step \in {"body", "verify", "accepted"} =>
              Protocol = Speaks[stream.sender]
        /\ err \notin {"unknown device type", "invalid login"}

\* An ASCII heartbeat with sequence id 2 is taken for a binary one.
TakenForBinary == stream.sender = "ascii" /\ stream.marked

\* A device that has sent its login message is not kept waiting for bytes it
\* has no reason to send before it is answered.
LoginNeedsNoMoreBytes ==
    Genuine /\ ~TakenForBinary /\ Waiting /\ fetched >= LoginSize[stream.sender] =>
        Has(Needs)

\* ConsumeStream starts at a message boundary: behind the login message, or
\* before it when the protocol reads it again as a record.
StreamStartsAtBoundary ==
    Genuine /\ ~TakenForBinary /\ step \in {"verify", "accepted"} =>
        consumed = IF stream.sender = "aquila" THEN 0 ELSE LoginSize[stream.sender]

\* A device is served only as a type that speaks the protocol it logged in
\* with, under the name the handler tried and under the one the protocol
\* object answers with.
AcceptedTypeSpeaksProtocol ==
    step = "accepted" =>
        Listed(Protocol, deviceType) /\ Listed(GetProtocolType, deviceType)

\* What the comments on the ASCII heartbeat say (intellitrac.go:89, 96: "bytes
\* 2-3 = Sequence ID"): a heartbeat of 8 bytes is read, whatever the id.
AsciiHeartbeatIsEightBytes ==
    stream.sender = "ascii" /\ step = "accepted" => consumed = LoginSize["ascii"]

\* What the invariants rest on: the bytes peeked at are still there, and the
\* protocols before the current one did not recognise the stream.
Passed ==
    /\ tried >= 2 => ~stream.marked /\ stream.opening # "FAF8"
    /\ tried >= 3 => stream.opening # "$$"
    /\ tried >= 4 => stream.opening \notin {"7878", "7979"}

ReaderFacts ==
    /\ tried >= 2 /\ step = "head" => fetched >= 4
    /\ step = "body" => fetched >= HeadSize /\ consumed = 0
    /\ step \in {"body", "verify", "accepted"} => Recognises
    /\ step \in {"verify", "accepted"} =>
          consumed = IF Protocol = "OBDII2G" THEN 0 ELSE BodySize
    /\ err = "none" <=> step # "rejected"

IInv ==
    /\ TypeOK /\ Passed /\ ReaderFacts /\ DeclinedLeaveStream
    /\ GenuineLoginIsRouted /\ LoginNeedsNoMoreBytes /\ StreamStartsAtBoundary
    /\ AcceptedTypeSpeaksProtocol
-----------------------------------------------------------------------------
(* What TcpHandler says of a login, for one connection that is accepted and  *)
(* not yet in the maps.                                                      *)

Place ==
    CASE Waiting           -> "login"
      [] step = "verify"   -> "verify"
      [] step = "accepted" -> "lockLogin"
      [] step = "rejected" -> "done"

\* Some Login has returned an IMEI.
Named == step \in {"verify", "accepted"} \/ err = "unauthorized"

Handler == INSTANCE TcpHandler WITH
    Conns <- {"conn"}, Addrs <- {"address"}, Devices <- {"device"},
    Commandable <- {}, Calls <- {}, None <- "none",
    process <- "up", storeHung <- FALSE, mu <- "none",
    pc <- [c \in {"conn"} |-> Place],
    addr <- [c \in {"conn"} |-> "address"],
    device <- [c \in {"conn"} |-> IF Named THEN "device" ELSE "none"],
    dataStore <- [c \in {"conn"} |-> "none"],
    peer <- [c \in {"conn"} |-> IF Place = "done" THEN "gone" ELSE "open"],
    ticker <- [c \in {"conn"} |-> "off"],
    connToProtocolMap <- [a \in {"address"} |-> "none"],
    connToStoreMap <- [a \in {"address"} |-> "none"],
    imeiToConnMap <- [d \in {"device"} |-> "none"],
    callPc <- [k \in {} |-> "idle"], callImei <- [k \in {} |-> "none"],
    target <- [k \in {} |-> "none"], reply <- [k \in {} |-> "none"]

\* Whatever five Login functions do with the reader, the handler sees a login
\* that reads an IMEI and verifies it, or one that fails: no device is let in
\* unverified, and none is refused by a store that was not asked.
LoginIsHandlers == [][Handler!Next]_(Handler!vars)
=============================================================================
