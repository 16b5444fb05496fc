----------------------------- MODULE Obdii2gPacket -----------------------------
(***************************************************************************)
(* The lines of OBDII2G (Aquila) devices.  A field of a line is read as a    *)
(* number, or as OBD parameters if there are separators in it; a parameter   *)
(* has a PID and the bytes of its hex string, or none where that is not hex, *)
(* as in the last parameter of a line, which runs into the checksum.         *)
(***************************************************************************)
EXTENDS Bytes

\* A field, and whether a line ends with it.
Field ==
    [number : Int, parameters : Seq([pid : Int, bytes : Seq(Byte)]), last : BOOLEAN]

\* time.Parse takes numbers of twelve digits.
IsTime(number) == number >= 1000000

Bad == [kind |-> "bad"]

\* The second byte of a PID: the first one of all of them is 01.
pidEngineLoad == 4
pidCoolantTemp == 5
pidEngineRpm == 12
pidVehicleSpeed == 13
pidIntakeAirTemp == 15
pidMafAirFlow == 16
pidRunTime == 31
pidDistanceMILOn == 33
pidFuelRailPressure == 34
pidFuelLevelInput == 47
pidWarmupsSinceClear == 48
pidDistanceSinceClear == 49
pidBarometricPressure == 51
pidControlModuleVoltage == 66
pidAbsoluteLoadValue == 67
pidEngineOilTemp == 92

OneByte == {pidVehicleSpeed, pidEngineLoad, pidFuelLevelInput, pidWarmupsSinceClear,
            pidBarometricPressure}
Temperature == {pidCoolantTemp, pidIntakeAirTemp, pidEngineOilTemp}
TwoBytes == {pidEngineRpm, pidRunTime, pidDistanceMILOn, pidDistanceSinceClear,
             pidMafAirFlow, pidFuelRailPressure, pidControlModuleVoltage,
             pidAbsoluteLoadValue}

\* A length, a type (7F is a negative response), the PID again, data.  The
\* scale of a value is left out, but the offset of a temperature.
parseValue(pid, bytes) ==
    LET data == Slice(bytes, 3, Len(bytes) - 3)
    IN  IF Len(bytes) < 3 \/ bytes[2] = 127 THEN Bad
        ELSE IF pid \in OneByte /\ Len(data) >= 1
        THEN [kind |-> "value", value |-> Uint8(data, 0)]
        ELSE IF pid \in Temperature /\ Len(data) >= 1
        THEN [kind |-> "value", value |-> Uint8(data, 0) - 40]
        ELSE IF pid \in TwoBytes /\ Len(data) >= 2
        THEN [kind |-> "value", value |-> Uint16(data, 0)]
        ELSE Bad

\* 22 fields and a time, or no packet.  There is a checksum, which nobody
\* compares, and an IMEI, which may be another device's.
ParsePacket(fields) ==
    LET number(i) == fields[i + 1].number
    IN  IF Len(fields) < 22 \/ ~IsTime(number(5)) THEN Bad
        ELSE [kind |-> "packet", MessageCode |-> number(2), Latitude |-> number(3),
              Longitude |-> number(4), Timestamp |-> number(5), GSMSignal |-> number(7),
              Speed |-> number(8), AccumulatedDist |-> number(9), Course |-> number(10),
              Satellites |-> number(11), EventFlag |-> number(16),
              ExternalBattery |-> number(17), OBD |-> fields[Len(fields)].parameters]

\* The value given last for a PID; zero if there is none, or it is not valid.
getOBDFloatValue(packet, pid) ==
    LET given == {i \in DOMAIN packet.OBD : packet.OBD[i].pid = pid}
        last  == CHOOSE i \in given : \A j \in given : j <= i
        value == parseValue(pid, packet.OBD[last].bytes)
    IN  IF given = {} \/ value = Bad THEN 0 ELSE value.value

\* From the 32 bits of the event flag, and from the code of the message.
parseVehicleStatus(packet) ==
    [flags |-> {i \in {2, 3, 11, 13, 25, 26, 27} : Bit(packet.EventFlag, i) = 1},
     harshCornering |-> packet.MessageCode = 23]

\* Percent of the range from 3.0 to 4.2 V.
calculateBatteryLevel(millivolts) ==
    IF millivolts <= 3000 THEN 0
    ELSE IF millivolts >= 4200 THEN 100 ELSE (millivolts - 3000) \div 12

\* 0..31 as six levels, 99 is unknown.
convertGSMSignalToLevel(raw) ==
    IF raw = 99 \/ raw <= 0 THEN 0
    ELSE IF raw > 31 THEN 5 ELSE (raw * 6) \div 32

\* The speed of the engine counts before the one of the GPS.
ToProtobuf(packet) ==
    LET obd(pid) == getOBDFloatValue(packet, pid)
    IN  [timestamp |-> packet.Timestamp, latitude |-> packet.Latitude,
         longitude |-> packet.Longitude, course |-> packet.Course,
         satellites |-> packet.Satellites,
         speed |-> IF obd(pidVehicleSpeed) # 0 THEN obd(pidVehicleSpeed)
                   ELSE packet.Speed,
         vehicleStatus |-> parseVehicleStatus(packet),
         batteryLevel |-> calculateBatteryLevel(packet.ExternalBattery),
         odometer |-> packet.AccumulatedDist,
         gsmNetwork |-> convertGSMSignalToLevel(packet.GSMSignal),
         fuelPct |-> (obd(pidFuelLevelInput) * 100) \div 255,
         rpm |-> obd(pidEngineRpm) \div 4,
         parameters |->
            [pid \in (OneByte \cup Temperature \cup TwoBytes)
                        \ {pidVehicleSpeed, pidEngineRpm} |-> obd(pid)]]

\* What processPacket queues: nothing for a line that is no packet.
processPacket(fields) ==
    IF ParsePacket(fields) = Bad THEN <<>> ELSE <<ToProtobuf(ParsePacket(fields))>>

\* One turn of ConsumeStream: the fields up to the first that ends a line.
consumeLine(fields) ==
    LET ends == {i \in DOMAIN fields : fields[i].last}
        end  == CHOOSE i \in ends : \A j \in ends : i <= j
    IN  IF ends = {} THEN Waits
        ELSE Message(end, processPacket(Slice(fields, 0, end)), <<>>, <<>>)

\* A number sign, the command, and the line end spelled out: a backslash and an
\* r, a backslash and an n.
sendCommand(command) == <<35>> \o command \o <<92, 114, 92, 110>>

==============================================================================
