----------------------------- MODULE Fm1200Packet -----------------------------
(***************************************************************************)
(* The packets of Teltonika trackers, byte by byte: what consumeMessage     *)
(* makes of the bytes on a connection, what becomes of a record on its way  *)
(* to the store, and the frame of a command.                                *)
(*                                                                          *)
(* A parser takes the data and the position it starts at and returns the    *)
(* position it ends at, Eof when the data is too short.                     *)
(***************************************************************************)
EXTENDS Bytes, FiniteSets

Codec8E == 142
codec12 == 12

\* Counts and property ids have two bytes in codec 8 extended, else one.
Width(codec) == IF codec = Codec8E THEN 2 ELSE 1

\* A counted group of properties of n bytes each.  A property given twice has
\* its last value.
readNByteProperties(b, at, codec, n) ==
    LET w     == Width(codec)
        start == Advance(b, at, w)
        count == UintN(b, at, w)
        end   == Advance(b, start, count * (w + n))
        place(i)    == start + (i - 1) * (w + n)
        property(i) == UintN(b, place(i), w)
        given(p)    == {i \in 1..count : property(i) = p}
    IN  IF start = Eof \/ end = Eof THEN [end |-> Eof]
        ELSE [end |-> end,
              properties |->
                  [p \in {property(i) : i \in 1..count} |->
                      LET i == CHOOSE i \in given(p) : \A j \in given(p) : j <= i
                      IN  Slice(b, place(i) + w, n)]]

\* Properties that carry their own length, in codec 8 extended only.
readNXByteProperties(b, at) ==
    LET start == Advance(b, at, 2)
        count == Uint16(b, at)
        size(p) == Uint16(b, p + 2)
        place[i \in 1..count + 1] ==
            IF i = 1 THEN start
            ELSE LET p == place[i - 1]
                 IN  IF Advance(b, p, 4) = Eof THEN Eof
                     ELSE Advance(b, p, 4 + size(p))
        given(p) == {i \in 1..count : Uint16(b, place[i]) = p}
    IN  IF start = Eof \/ place[count + 1] = Eof THEN [end |-> Eof]
        ELSE [end |-> place[count + 1],
              properties |->
                  [p \in {Uint16(b, place[i]) : i \in 1..count} |->
                      LET i == CHOOSE i \in given(p) : \A j \in given(p) : j <= i
                      IN  Slice(b, place[i] + 4, size(place[i]))]]

\* Event id, number of properties (compared with nothing) and the groups.
\* After an error in one group the next ones are tried, but not used.
parseIOElements(b, at, codec) ==
    LET group[n \in {0, 1, 2, 4, 8}] ==
            IF n = 0 THEN [end |-> Advance(b, at, 2 * Width(codec))]
            ELSE readNByteProperties(b, group[n \div 2].end, codec, n)
        gx == IF codec = Codec8E THEN readNXByteProperties(b, group[8].end)
              ELSE [end |-> group[8].end, properties |-> <<>>]
    IN  IF gx.end = Eof THEN [end |-> Eof]
        ELSE [end |-> gx.end, b1 |-> group[1].properties, b2 |-> group[2].properties,
              b4 |-> group[4].properties, b8 |-> group[8].properties,
              bx |-> gx.properties]

\* 15 bytes; a coordinate is in 1e-7 degrees, its float32 is left out.
parseGpsElement(b, at) ==
    [longitude |-> Int32(b, at), latitude |-> Int32(b, at + 4),
     altitude |-> Uint16(b, at + 8), angle |-> Uint16(b, at + 10),
     satellites |-> Uint8(b, at + 12), speed |-> Uint16(b, at + 13)]

\* Timestamp, priority, GPS element, IO element.
readSingleRecord(b, at, codec) ==
    LET start == Advance(b, at, 24)
        record(io) ==
            IF io.end = Eof THEN [end |-> Eof]
            ELSE [end |-> io.end, timestamp |-> Uint64(b, at),
                  gps |-> parseGpsElement(b, at + 9), io |-> io]
    IN  record(parseIOElements(b, start, codec))

\* A number of records, and the number again.
parseDataToRecord(b, at, codec) ==
    LET start  == Advance(b, at, 1)
        number == Uint8(b, at)
        record[i \in 0..number] ==
            IF i = 0 THEN [end |-> start]
            ELSE LET next == record[i - 1].end
                 IN  IF next = Eof THEN [end |-> Eof]
                     ELSE readSingleRecord(b, next, codec)
        end    == Advance(b, record[number].end, 1)
    IN  IF \/ start = Eof \/ end = Eof
           \/ Uint8(b, end - 1) # number
        THEN [end |-> Eof]
        ELSE [end |-> end, number |-> number, records |-> [i \in 1..number |-> record[i]]]

ValidateCrc(data, expected) == <<0, 0>> \o Put(CrcTeltonika(data), 2) = expected

\* Quantity, type, size, data, quantity.  Neither the type nor the second
\* quantity is looked at.
ParseDeviceResponse(b, at) ==
    LET start == Advance(b, at, 6)
        size  == Uint32(b, at + 2)
        end   == Advance(b, start, size + 1)
    IN  IF start = Eof \/ end = Eof THEN [end |-> Eof]
        ELSE [end |-> end, data |-> Slice(b, start, size)]

-----------------------------------------------------------------------------
(* What goes to the store.                                                   *)

\* A missing property reads as zero.
Number(properties, p) ==
    IF p \notin DOMAIN properties THEN 0
    ELSE LET v == properties[p]
         IN  IF Len(v) = 4 THEN Uint32(v, 0) ELSE UintN(v, 0, Len(v))

Signed(properties, p) ==
    IF p \in DOMAIN properties THEN Int32(properties[p], 0) ELSE 0

\* The first source that is not zero.
FirstOf(sources) ==
    IF \E i \in DOMAIN sources : sources[i] # 0
    THEN sources[CHOOSE i \in DOMAIN sources :
                    /\ sources[i] # 0
                    /\ \A j \in 1..i - 1 : sources[j] = 0]
    ELSE 0

\* A key's bytes from last to first; nothing for a key of zero.
ConvertDecimalToHexAndReverse(key) ==
    IF \A i \in DOMAIN key : key[i] = 0 THEN <<>>
    ELSE [i \in DOMAIN key |-> key[Len(key) + 1 - i]]

\* The record of a status.  Coordinates stay integers; the alarms of
\* VehicleStatus are the set of their properties that are not zero.
ToProtobufDeviceStatus(r) ==
    LET b1(p) == Number(r.io.b1, p)
        b2(p) == Number(r.io.b2, p)
        b4(p) == Signed(r.io.b4, p)
        b8(p) == IF p \in DOMAIN r.io.b8
                 THEN ConvertDecimalToHexAndReverse(r.io.b8[p]) ELSE <<>>
        bx(p) == IF p \in DOMAIN r.io.bx THEN r.io.bx[p] ELSE <<>>
    IN  [timestamp |-> r.timestamp,
         longitude |-> r.gps.longitude, latitude |-> r.gps.latitude,
         altitude |-> r.gps.altitude, course |-> r.gps.angle,
         satellites |-> r.gps.satellites,
         speed |-> FirstOf(<<b1(37), r.gps.speed, b1(81)>>),
         odometer |-> IF b4(389) # 0 THEN b4(389)
                      ELSE Quotient(FirstOf(<<b4(87), b4(16)>>), 1000),
         temperature |-> IF b1(53) > 0 THEN (b1(53) * 10) % 256
                         ELSE Number(r.io.b4, 72),
         fuelLtr |-> Quotient(FirstOf(<<b4(390), b2(84)>>), 10),
         fuelPct |-> FirstOf(<<b1(48), b1(89)>>),
         fuelGps |-> Number(r.io.b4, 12) \div 1000,
         rpm |-> FirstOf(<<b2(36), b2(85)>>),
         identificationId |-> IF b8(78) # <<>> THEN b8(78) ELSE b8(207),
         vin |-> IF bx(256) # <<>> THEN bx(256) ELSE bx(325),
         ignition |-> b1(1) > 0 \/ b1(239) > 0,
         greenDriving |-> b1(253),
         alarms |-> {p \in {175, 246, 247, 251, 252, 255} : b1(p) > 0},
         gsmNetwork |-> b1(21), coolantTemperature |-> b1(32), engineLoad |-> b1(31),
         batteryLevel |-> b2(67) \div (IF b2(67) <= 4200 THEN 42 ELSE 90)]

-----------------------------------------------------------------------------
(* What a connection makes of the bytes it has.                              *)

\* The frame of a command: preamble, size, codec, quantity, type, the
\* command behind its size, quantity, checksum of all after the size.
SendCommandToDevice(command) ==
    LET data == <<codec12, 1, 5>> \o Put(Len(command), 4) \o command \o <<1>>
    IN  <<0, 0, 0, 0>> \o Put(Len(data), 4) \o data \o <<0, 0>>
            \o Put(CrcTeltonika(data), 2)

\* What consumeMessage does with the bytes b that have arrived.
consumeMessage(b) ==
    LET size  == Uint32(b, 4)
        data  == Slice(b, 8, size)
        codec == data[1]
        trailer  == Slice(b, 8 + size, 4)
        response == ParseDeviceResponse(data, 1)
        records(packet) ==
            IF packet.end = Eof THEN Ends
            ELSE IF Len(b) < 12 + size THEN Waits
            ELSE IF ~ValidateCrc(data, trailer) THEN Ends
            ELSE [kind |-> "records", size |-> size,
                  number |-> packet.number, records |-> packet.records]
    IN  CASE Len(b) < 4                         -> Waits
          [] Len(b) >= 4 /\ Slice(b, 0, 4) # <<0, 0, 0, 0>> -> Ends
          [] OTHER ->
             IF Len(b) < 8 THEN Waits
             ELSE IF Len(b) < 8 + size THEN Waits
             ELSE IF size = 0 THEN Ends
             ELSE IF codec = codec12
             THEN IF response.end = Eof THEN Ends
                  ELSE [kind |-> "response", data |-> response.data, of |-> data]
             ELSE records(parseDataToRecord(data, 1, codec))

==============================================================================
