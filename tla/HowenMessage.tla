----------------------------- MODULE HowenMessage -----------------------------
(***************************************************************************)
(* The JSON messages of the Howen platform and what is stored of them.  A   *)
(* number arrives as text: written as an integer, as a decimal (its         *)
(* fraction is left out), or not a number, as a missing field is.           *)
(***************************************************************************)
EXTENDS Bytes

GpsAction   == "80003"
AlarmAction == "80004"

\* Decimals are numbers to ParseFloat, but not to Atoi.
parseToFloat32(text) == IF text.form = "other" THEN 0 ELSE text.value
parseToInt32(text)   == IF text.form = "integer" THEN text.value ELSE 0

parseIgnition(value) == value = 1

\* What a GPS message, and an alarm, say of the place.
Position(location) ==
    [latitude |-> parseToFloat32(location.latitude),
     longitude |-> parseToFloat32(location.longitude),
     altitude |-> parseToFloat32(location.altitude),
     speed |-> parseToFloat32(location.speed),
     course |-> parseToFloat32(location.direct)]

\* The battery is a percentage of 12 V.
ToProtobufDeviceStatusGPS(payload) ==
    [imei |-> payload.deviceID, position |-> Position(payload.location),
     satellites |-> parseToInt32(payload.location.satellites),
     batteryLevel |-> Quotient(parseToFloat32(payload.bat) * 100, 12),
     fuelLtr |-> parseToFloat32(payload.fuel), rpm |-> parseToFloat32(payload.mobile),
     odometer |-> parseToFloat32(payload.mileage),
     ignition |-> parseIgnition(parseToFloat32(payload.key))]

\* The event codes of each flag of a vehicle's status.
EventCodes ==
    [CrashDetection |-> {217, 218}, DriverDistraction |-> {118}, ExcessiveIdling |-> {32},
     EntringGeofence |-> {200}, ExitingGeofence |-> {201}, FatigueDriving |-> {17},
     ExcessiveParking |-> {11}, FuelRefuel |-> {210}, FuelTheft |-> {211},
     RashDriving |-> {24, 25, 26, 27, 212, 213, 214}, InputsTriggering |-> 220..227,
     OutputsTriggering |-> {228, 229}, OverSpeeding |-> {48}, TrackerOffline |-> {1}]

Flags(code) == {flag \in DOMAIN EventCodes : code \in EventCodes[flag]}

\* Codes 103 and 126 are known and have no flag.
Unknown(code) == Flags(code) = {} /\ code \notin {103, 126}

\* Four flags are stored; with any other, the ignition goes as well.
Attached == {"OverSpeeding", "RashDriving", "CrashDetection", "ExcessiveIdling"}

\* A position at zero degrees both ways is none.
ToProtobufDeviceStatusAlarm(payload) ==
    LET position == Position(payload.location)
    IN  [imei |-> payload.deviceID, unknownEvent |-> Unknown(payload.ec),
         position |-> IF position.latitude # 0 \/ position.longitude # 0
                      THEN <<position>> ELSE <<>>,
         vehicleStatus |->
            IF Flags(payload.ec) \cap Attached = {} THEN <<>>
            ELSE <<[flags |-> Flags(payload.ec),
                    ignition |-> parseIgnition(parseToFloat32(payload.key))]>>]

\* What ConsumeMessage puts into ProcessChan for a message: nothing for other
\* actions.
Status(message) ==
    CASE message.action = GpsAction   -> <<ToProtobufDeviceStatusGPS(message.payload)>>
      [] message.action = AlarmAction -> <<ToProtobufDeviceStatusAlarm(message.payload)>>
      [] OTHER                        -> <<>>

===============================================================================
