---------------------------- MODULE MCFm1200Session ----------------------------
(***************************************************************************)
(* A small instance: two batches, one of codec 8 with two records, one of   *)
(* codec 8 extended with a VIN, as the tracker packs them.  Another one has *)
(* a batch whose records are packed newest first.                           *)
(***************************************************************************)
EXTENDS Fm1200Session

\* What the tracker measures.
Report(n) ==
    CASE n = 1 -> [time |-> 10, lon |-> -3, lat |-> 7, speed |-> 60, metres |-> 5200,
                   ignition |-> 1, key |-> <<0, 0, 0, 0, 0, 0, 3, 1>>, vin |-> <<>>]
      [] n = 2 -> [time |-> 20, lon |-> -5, lat |-> 8, speed |-> 0, metres |-> 900,
                   ignition |-> 0, key |-> <<>>, vin |-> <<>>]
      [] n = 3 -> [time |-> 30, lon |-> 300, lat |-> -9, speed |-> 90, metres |-> 7999,
                   ignition |-> 1, key |-> <<>>, vin |-> <<87, 49>>]

\* Properties of n bytes, given as pairs of an id and a value.
Group(w, pairs) ==
    Put(Len(pairs), w)
        \o FlattenSeq([i \in DOMAIN pairs |-> Put(pairs[i][1], w) \o pairs[i][2]])

Record(codec, r) ==
    LET w == IF codec = 8 THEN 1 ELSE 2
        keys == IF r.key = <<>> THEN <<>> ELSE << <<78, r.key>> >>
    IN  Put(0, 4) \o Put(r.time, 4) \o <<0>>
        \o Put(r.lon, 4) \o Put(r.lat, 4) \o Put(100, 2) \o Put(270, 2) \o <<9>>
        \o Put(IF codec = 8 THEN r.speed ELSE 0, 2)
        \o Put(0, w) \o Put(4, w)
        \o Group(w, << <<239, Put(r.ignition, 1)>>,
                       <<IF codec = 8 THEN 21 ELSE 37, Put(IF codec = 8 THEN 4 ELSE r.speed, 1)>> >>)
        \o Group(w, << <<67, Put(4200, 2)>> >>)
        \o Group(w, << <<IF codec = 8 THEN 16 ELSE 87, Put(r.metres, 4)>> >>)
        \o Group(w, keys)
        \o (IF codec = 8 THEN <<>>
            ELSE <<0, 1>> \o Put(256, 2) \o Put(Len(r.vin), 2) \o r.vin)

Packed(data) == Put(0, 4) \o Put(Len(data), 4) \o data \o <<0, 0>>
                    \o Put(CrcTeltonika(data), 2)

TwoBatches == << <<1, 2>>, <<3>> >>

\* The newer record first, as in the packet of fm1200_test.go:44.
OneUnsortedBatch == << <<2, 1>> >>

MCEncode(b) ==
    LET codec == IF b = <<3>> THEN Codec8E ELSE 8
    IN  Packed(<<codec, Len(b)>>
               \o FlattenSeq([i \in DOMAIN b |-> Record(codec, Report(b[i]))])
               \o <<Len(b)>>)

MCEncodeResponse(text) ==
    Packed(<<codec12, 1, 6>> \o Put(Len(text), 4) \o text \o <<1>>)

Status(r, codec) ==
    [timestamp |-> r.time, longitude |-> r.lon, latitude |-> r.lat,
     altitude |-> 100, course |-> 270, satellites |-> 9, speed |-> r.speed,
     odometer |-> r.metres \div 1000, temperature |-> 0, fuelLtr |-> 0,
     fuelPct |-> 0, fuelGps |-> 0, rpm |-> 0,
     identificationId |-> Reverse(r.key), vin |-> r.vin,
     ignition |-> r.ignition = 1, greenDriving |-> 0, alarms |-> {},
     gsmNetwork |-> IF codec = 8 THEN 4 ELSE 0, coolantTemperature |-> 0,
     engineLoad |-> 0, batteryLevel |-> 100]

MCReported(b) ==
    IF b = <<3>> THEN <<Status(Report(3), Codec8E)>>
    ELSE <<Status(Report(1), 8), Status(Report(2), 8)>>

OneCommand == <<103, 0, 5>>
OneAnswer  == <<0, 7>>

\* The records of a batch's packet as statuses, in the packet's order.
InPacketOrder(b) ==
    LET message == consumeMessage(EncodeBatch(b))
    IN  [i \in 1..message.number |-> ToProtobufDeviceStatus(message.records[i])]

\* What fm1200_test.go:66-90 asserts of ProcessChan: the records of a packet
\* leave it in the packet's order, the test's the newest first.  They leave it
\* sorted by time (fm1200.go:248).
RecordsLeaveInPacketOrder ==
    \A c \in Conns :
        \E first \in 1..Len(Batches) + 1 :
            IsPrefix(queue[c],
                     FlattenSeq([i \in 1..Len(Batches) + 1 - first |->
                                    InPacketOrder(Batches[first + i - 1])]))

\* The damage of this instance is seen.
ASSUME MCDamageIsSeen == DamageIsSeen

=============================================================================
