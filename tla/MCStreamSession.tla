---------------------------- MODULE MCStreamSession ----------------------------
(***************************************************************************)
(* A small instance: four or five messages in each format.  Two other ones *)
(* have one message each: a line that ends with the fuel level, and a      *)
(* position with an odometer.                                              *)
(***************************************************************************)
EXTENDS StreamSession

Clock == <<23, 59, 58, 24, 2, 29>>
Modem == <<0, 0, 1, 2, 3, 4, 5, 6>>

\* The data of a position: clock, coordinates, altitude, speed, course,
\* odometer, precision, satellites, inputs, status, clocks.
Data(metres) ==
    Clock \o Put(3012345, 4) \o Put(-7, 4) \o Put(-3, 3) \o Put(250, 2)
        \o Put(1800, 2) \o Put(metres, 4) \o <<9, 8>> \o Put(1, 2) \o <<3>> \o Put(0, 4)
        \o Clock \o Clock

\* What the odometer shows: a position of the first instance is one of a vehicle
\* that has not moved.
Metres(m) == IF m = "moved" THEN 5200 ELSE 0

Fields(n, m) == [i \in 1..n |-> [number |-> m, parameters |-> <<>>, last |-> FALSE]]

\* Parameters: the engine's speed of a message, the vehicle's, a fuel level of
\* half a tank, and a negative response instead of the oil's temperature.
Parameter(pid, bytes) == [pid |-> pid, bytes |-> bytes]
FuelLevel == 128
Rpm(i)  == Parameter(12, <<4, 65, 12, i, 248>>)
Speed   == Parameter(13, <<3, 65, 13, 50>>)
Fuel    == Parameter(47, <<3, 65, 47, FuelLevel>>)
NoOil   == Parameter(92, <<3, 127, 92>>)

\* The last parameter of a line: its hex string goes on with the checksum.
AtLineEnd(parameter) == [parameter EXCEPT !.bytes = <<>>]

\* The "packet" ends with a parameter that has no value, the "fuel" line with
\* the fuel level.
Parameters(m, i) ==
    IF m = "fuel" THEN <<Rpm(i), Speed, NoOil, AtLineEnd(Fuel)>>
    ELSE <<Rpm(i), Speed, Fuel, AtLineEnd(NoOil)>>

\* A line of 22 fields.
ObdLine(time, m, i) ==
    [Fields(22, i) EXCEPT ![6].number = time, ![18].number = 3600, ![17].number = 2048,
                          ![22].last = TRUE, ![22].parameters = Parameters(m, i)]

MCMessages(f) ==
    CASE f = "binary" -> <<"position", "text", "heartbeat", "response", "garmin">>
      [] f = "ascii"  -> <<"heartbeat", "position", "response", "heartbeat", "position">>
      [] f = "obd"    -> <<"packet", "short", "late", "packet">>

FuelMessages(f) == IF f = "obd" THEN <<"fuel">> ELSE <<>>
MovedMessages(f) == IF f = "binary" THEN <<"moved">> ELSE <<>>

\* IntelliTrac: the sequence number of the last heartbeat holds a line end and
\* a comma.
MCEncode(f, i) ==
    LET m == Messages(f)[i]
        transaction == <<1, i>>
    IN  CASE f = "binary" /\ m \in {"position", "moved"} ->
                transaction \o <<0, 2>> \o Modem \o Put(150, 2) \o Put(46, 2)
                    \o Data(Metres(m))
          [] f = "binary" /\ m = "text" ->
                transaction \o <<2, 2, 0, 3>> \o Modem \o <<72, 105, 33>> \o Clock \o Clock
          [] f = "binary" /\ m = "heartbeat" ->
                transaction \o <<0, 2>> \o Modem \o Put(171, 2) \o Put(6, 2) \o Clock
          [] f = "binary" /\ m = "response" ->
                transaction \o <<1, 1, 0, 2, 79, 75>>
          [] f = "binary" /\ m = "garmin" -> transaction \o <<3, 2, 0, 1, 65>>
          [] f = "ascii" /\ m = "heartbeat" ->
                IF i = 1 THEN <<250, 248, 0, 7, 0, 1, 2, 3>>
                ELSE <<250, 248, Comma, NewLine, 0, 1, 2, 3>>
          [] f = "ascii" /\ m = "position" ->
                [k \in 1..29 |-> IF k % 2 = 0 THEN Comma ELSE 48 + i] \o <<13, NewLine>>
          [] f = "ascii" /\ m = "response" -> <<79, 75, Comma, 53, 13, NewLine>>
          [] f = "obd" /\ m \in {"packet", "fuel"} -> ObdLine(1000000 + i, m, i)
          [] f = "obd" /\ m = "late" -> ObdLine(0, m, i)
          [] OTHER -> [Fields(3, i) EXCEPT ![3].last = TRUE]

AsciiPosition == [position |-> "unread"]

\* A fuel level that ends a line is not read (obdii2g/types.go:302-316), an
\* odometer is divided by a thousand (intellitrac.go:234).
MCReported(f, i) ==
    LET m == Messages(f)[i]
        fuel == IF m = "fuel" THEN 0 ELSE FuelLevel
    IN  CASE f = "binary" /\ m \in {"position", "moved"} ->
                Message(62, <<[timestamp |-> <<24, 2, 29, 23, 59, 58>>,
                               latitude |-> 3012345, longitude |-> -7, altitude |-> -3,
                               speed |-> 250, course |-> 1800, odometer |-> Metres(m) \div 1000,
                               satellites |-> 8, ignition |-> TRUE]>>,
                        <<>>, <<<<1, i, 0, 3, 0, 0>>>>)
          [] f = "binary" /\ m = "text" -> Message(29, <<>>, <<>>, <<<<1, i, 2, 3, 0, 0>>>>)
          [] f = "binary" /\ m = "heartbeat" ->
                Message(22, <<>>, <<>>, <<<<1, i, 0, 3, 0, 0>>>>)
          [] f = "binary" /\ m = "response" -> Message(8, <<>>, << <<79, 75>> >>, <<>>)
          [] f = "ascii" /\ m = "position" ->
                Message(31, <<AsciiPosition>>, <<>>, <<<<0, 0, 0, 3, 0, 0>>>>)
          [] f = "obd" /\ m \in {"packet", "fuel"} ->
                Message(22, <<[timestamp |-> 1000000 + i, latitude |-> i, longitude |-> i,
                               course |-> i, satellites |-> i, speed |-> 50,
                               vehicleStatus |-> [flags |-> {11}, harshCornering |-> FALSE],
                               batteryLevel |-> 50, odometer |-> i, gsmNetwork |-> 0,
                               fuelPct |-> (fuel * 100) \div 255, rpm |-> 64 * i + 62,
                               parameters |->
                                  [pid \in {4, 5, 15, 16, 31, 33, 34, 48, 49, 51, 66, 67, 92}
                                      |-> 0] @@ (47 :> fuel)]>>,
                        <<>>, <<>>)
          [] OTHER -> Message(0, <<>>, <<>>, <<>>)

\* A byte is one more, the type of a line's last field is another.
MCDamaged(f, s) ==
    IF f = "obd"
    THEN {[s EXCEPT ![Len(s)].last = FALSE]}
            \cup {[s EXCEPT ![k].number = 0] : k \in {6} \cap DOMAIN s}
    ELSE {[s EXCEPT ![k] = (@ + 1) % 256] : k \in {1, 4, 6, 14, 16} \cap DOMAIN s}

\* What obdii2g/types.go:302 says of a line, that its parameters are the field
\* "before '*'": the store reads the last of them, the fuel level, like any
\* other.  The code does not take the '*' and the checksum off.
LastParameterIsRead ==
    format = "obd" => \A i \in DOMAIN queue : queue[i].parameters[47] = FuelLevel

\* What intellitrac_a/types.go:109 says of the odometer in the store, that it is
\* in metres: it is the one of the vehicle.  The code has divided it by 1000.
OdometerIsInMetres ==
    format = "binary" =>
        \A i \in DOMAIN queue : queue[i].odometer = Metres(Messages(format)[i])

OneCommand == <<86, 63>>
SomeTransactions == {<<0, 0>>, <<1, 1>>}

==============================================================================
