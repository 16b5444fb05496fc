---------------------------- MODULE MCGt06Session ----------------------------
(***************************************************************************)
(* A small instance: a position, a heartbeat, a long packet, the external   *)
(* voltage, a position and a heartbeat, as a device at 7.5 degrees east     *)
(* packs them after a login from UTC+5:30.  Two other ones have a heartbeat *)
(* with the ignition on, and an alarm.                                      *)
(***************************************************************************)
EXTENDS Gt06Session

SixMessages == <<"position", "heartbeat", "long", "voltage", "position", "heartbeat">>
OneRunning == <<"running">>
OneAlarm == <<"alarm">>

\* Terminal information: in bit 1 the ignition, in bits 6 and 7 the GPS signal
\* and the oil and electricity (the comments of gt06.go:673-678).
TerminalInfo(m) == IF m = "running" THEN 2 ELSE 192

Clock == <<24, 2, 29, 23, 59, 58>>
GPS == Clock \o <<201>> \o Put(1800000, 4) \o Put(13500000, 4) \o <<60>> \o Put(5210, 2)
Cell == <<1, 2, 3, 4, 5, 6, 7, 8>>

\* The type of a message, and what follows it.
Content(m) ==
    CASE m = "login"     -> <<1>> \o Cell \o <<0, 3>> \o Put(530 * 16, 2)
      [] m = "position"  -> <<34>> \o GPS \o Cell \o <<1, 0, 0>> \o Put(77, 4)
      [] m \in {"heartbeat", "running"} -> <<19, TerminalInfo(m), 4, 3, 0, 2>>
      [] m = "alarm"     -> <<38>> \o GPS \o Cell \o <<TerminalInfo(m), 4, 3, 3, 1, 2>>
      [] m = "voltage"   -> <<148, 0, 4, 226>>
      [] m = "long"      -> <<148, 4>> \o [i \in 1..258 |-> 48 + (i % 10)]

\* The start and length of a packet: one byte, or two after another start.
Start(m) ==
    LET length == Len(Content(m)) + 4
    IN  IF m \in {"voltage", "long"} THEN <<121, 121>> \o Put(length, 2)
        ELSE <<120, 120>> \o Put(length, 1)

\* The checksum of a long packet, which nobody computes, is left zero.
Checksum(m, bytes) == IF m = "long" THEN <<0, 0>> ELSE Put(CrcWanway(bytes), 2)

MCEncode(m, serial) ==
    LET bytes == Put(Len(Content(m)) + 4, 1) \o Content(m) \o serial
    IN  Start(m) \o Content(m) \o serial \o Checksum(m, bytes) \o StopBits

MCLoginPacket == MCEncode("login", <<0, 0>>)

MCIsHeartbeat(m) == m \in {"heartbeat", "running"}

\* What the bytes of GPS say, in the zone of the login.
Measured == [timestamp |-> [clock |-> Clock, zone |-> 330],
             latitude |-> 1800000, longitude |-> 13500000, speed |-> 60, course |-> 90]

\* No message type.
Refused == [message |-> -1]

\* An alarm is queued as a mere message type (types.go:320, gt06.go:308-312), a
\* heartbeat with its ignition off (gt06.go:677).
MCReported(m) ==
    CASE m = "position" ->
            [message |-> MSG_PositioningData, ignition |-> TRUE,
             position |-> Measured]
      [] m \in {"heartbeat", "running"} ->
            [message |-> MSG_HeartbeatData, ignition |-> FALSE, gsmNetwork |-> 3,
             batteryLevel |-> 60]
      [] m = "alarm"   -> [message |-> MSG_AlarmData]
      [] m = "voltage" -> [message |-> MSG_TransmissionInstruction]
      [] OTHER         -> Refused

\* What gt06.go:677 says of a heartbeat, that bit 1 of its terminal information
\* is ACCHigh: the store reads the ignition the device reports.  The code
\* compares bit 5 with bit 1.
IgnitionIsReported ==
    \A c \in Conns : \A i \in DOMAIN queue[c] :
        LET m == Messages[sent[c][i]]
        IN  MCIsHeartbeat(m) => queue[c][i].ignition = (Bit(TerminalInfo(m), 1) = 1)

\* What types.go:320-326 says of an alarm, that its "GPS and position-related
\* data" is set: the store reads where it was raised.  The case is of a pointer,
\* and parsePacketInformation returns a value.
AlarmPositionIsStored ==
    \A c \in Conns : \A i \in DOMAIN queue[c] :
        Messages[sent[c][i]] = "alarm" =>
            "position" \in DOMAIN queue[c][i] /\ queue[c][i].position = Measured

\* Of this instance, damage is seen: no byte of DamagedAt moves the end of a
\* packet behind other packets, or makes a heartbeat of another one.
ASSUME MCDamageIsSeen == DamageIsSeen

==============================================================================
