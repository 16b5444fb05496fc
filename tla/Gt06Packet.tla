------------------------------ MODULE Gt06Packet ------------------------------
(***************************************************************************)
(* The packets of GT06 (Concox) devices, byte by byte: what parsePacket     *)
(* makes of the bytes on a connection, the status a packet becomes, and the *)
(* reply to a packet.                                                       *)
(*                                                                         *)
(* The parsers of the information get the data of a packet, whose first     *)
(* byte is the message type; `Bad` is any of the errors they return.        *)
(***************************************************************************)
EXTENDS Bytes

MSG_LoginData               == 1
MSG_HeartbeatData           == 19
MSG_PositioningData         == 34
MSG_EG_HeartbeatData        == 35
MSG_AlarmData               == 38
MSG_TransmissionInstruction == 148

Bad == [kind |-> "bad"]

StopBits == <<13, 10>>

\* Time zone of a login, in minutes: four digits shifted by four bits, hours
\* and minutes, and the sign in bit 3.
parseLoginInformation(data) ==
    LET offset  == (IF data[12] < 128 THEN data[12] ELSE data[12] - 256) * 256 + data[13]
        digits  == offset \div 16
        hours   == Quotient(digits, 100)
        minutes == digits - 100 * hours
        sign    == IF Bit(data[13], 3) = 1 THEN -1 ELSE 1
    IN  IF Len(data) < 13 THEN Bad
        ELSE [kind |-> "login", zone |-> sign * (60 * hours + minutes)]

\* Ten of the sixteen bits.
parseGpsCourse(courseValue) == courseValue % 1024

\* Six bytes from the year on, in the zone of the login.
parseTimestamp(data, at, zone) == [clock |-> Slice(data, at, 6), zone |-> zone]

\* 18 bytes; coordinates in 1/1800000 degrees.
parseGPSInformation(data, at, zone) ==
    [timestamp |-> parseTimestamp(data, at, zone),
     latitude |-> Int32(data, at + 7), longitude |-> Int32(data, at + 11),
     speed |-> Uint8(data, at + 15),
     course |-> parseGpsCourse(Uint16(data, at + 16))]

\* GPS, 8 bytes of the cell, ACC, reporting mode, realtime, mileage.  More
\* bytes are not looked at.
parsePositioningData(data, zone) ==
    IF Len(data) < 34 THEN Bad
    ELSE [kind |-> "position", gps |-> parseGPSInformation(data, 1, zone),
          ACCHigh |-> Uint8(data, 27) = 1]

\* The mask of one bit is compared with another: it is never true.
parseTerminalInfoFromByte(b) == [ACCHigh |-> 32 * Bit(b, 5) = 2]

\* Terminal information, battery, GSM strength, GSM strength again: the second
\* one counts.  Then alarm and language, of which any value will do.
parseStatusInformation(data, at) ==
    IF Uint8(data, at + 1) = 255 \/ Uint8(data, at + 3) = 255 THEN Bad
    ELSE [kind |-> "status",
          ACCHigh |-> parseTerminalInfoFromByte(Uint8(data, at)).ACCHigh]

\* GPS, 8 bytes of the cell, six of status.
parseAlarmData(data, zone) ==
    IF Len(data) < 33 \/ parseStatusInformation(data, 27) = Bad THEN Bad
    ELSE [kind |-> "alarm", gps |-> parseGPSInformation(data, 1, zone),
          ACCHigh |-> parseStatusInformation(data, 27).ACCHigh]

\* Terminal information, battery, GSM strength, two bytes, and no more.
parseHeartbeatData(data) ==
    IF Len(data) # 6 \/ Uint8(data, 2) = 255 \/ Uint8(data, 3) = 255 THEN Bad
    ELSE [kind |-> "heartbeat", battery |-> Uint8(data, 2), gsm |-> Uint8(data, 3),
          ACCHigh |-> parseTerminalInfoFromByte(Uint8(data, 1)).ACCHigh]

\* A type, two bytes, and no more.
parseInformationTransmissionPacket(data) ==
    IF Len(data) # 4 THEN Bad ELSE [kind |-> "transmission"]

\* Every other message type is an error, the type 255 among them.
parsePacketInformation(data, type, zone) ==
    CASE type = MSG_LoginData               -> parseLoginInformation(data)
      [] type = MSG_PositioningData         -> parsePositioningData(data, zone)
      [] type = MSG_AlarmData               -> parseAlarmData(data, zone)
      [] type \in {MSG_HeartbeatData, MSG_EG_HeartbeatData} -> parseHeartbeatData(data)
      [] type = MSG_TransmissionInstruction -> parseInformationTransmissionPacket(data)
      [] OTHER                              -> Bad

\* Without data the type reads as zero.
parsePacketData(data, zone) ==
    IF data = <<>> THEN Bad ELSE parsePacketInformation(data, data[1], zone)

-----------------------------------------------------------------------------

EndsWell(stop) == stop = StopBits

\* PacketLength is a byte, also of the two bytes behind 7979.
PacketLength(b) == IF b[1] = 121 THEN Uint16(b, 2) % 256 ELSE Uint8(b, 2)

\* What parsePacket makes of the bytes that have arrived: start bits, length,
\* data of the length less 4 (as bytes count), serial number, checksum (read,
\* not compared), stop bits.
parsePacket(b, zone) ==
    LET head == IF b[1] = 121 THEN 4 ELSE 3
        size == (PacketLength(b) - 4) % 256
        data == Slice(b, head, size)
        information == parsePacketData(data, zone)
        start == Slice(b, 0, 2)
    IN  IF Len(b) < 2 THEN Waits
        ELSE IF start \notin {<<120, 120>>, <<121, 121>>} THEN Ends
        ELSE IF Len(b) < head \/ Len(b) < head + size THEN Waits
        ELSE IF information = Bad THEN Ends
        ELSE IF Len(b) < head + size + 6 THEN Waits
        ELSE IF ~EndsWell(Slice(b, head + size + 4, 2)) THEN Ends
        ELSE [kind |-> "packet", type |-> data[1], information |-> information,
              serial |-> Slice(b, head + size, 2), size |-> head + size + 6]

\* Percent of a battery level; -1 of an unknown one.
resolveBatteryLevel(level) ==
    IF level \in 0..6 THEN <<0, 10, 25, 40, 60, 80, 100>>[level + 1] ELSE -1

\* A position, or a heartbeat, or the mere type of the packet: of an alarm
\* too, whose information is a value where the switch expects a pointer.
ToProtobufDeviceStatus(packet) ==
    LET v == packet.information
    IN  CASE v.kind = "position" ->
               [message |-> packet.type, position |-> v.gps, ignition |-> v.ACCHigh]
          [] v.kind = "heartbeat" ->
               [message |-> packet.type, ignition |-> v.ACCHigh, gsmNetwork |-> v.gsm,
                batteryLevel |-> resolveBatteryLevel(v.battery)]
          [] OTHER -> [message |-> packet.type]

\* The reply to a packet: start, five, type, the packet's serial number,
\* checksum of these but the start, stop.
sendResponse(packet) ==
    LET body == <<5, packet.type>> \o packet.serial
    IN  <<120, 120>> \o body \o Put(CrcWanway(body), 2) \o StopBits

==============================================================================
