---------------------------- MODULE MCWebSocketLoop ----------------------------
(***************************************************************************)
(* Small instances: a feed of a position, a change of a device's state and  *)
(* a speeding alarm; and a feed of one alarm whose flag is not stored.      *)
(***************************************************************************)
EXTENDS WebSocketLoop

Integer(n) == [form |-> "integer", value |-> n]
Decimal(n) == [form |-> "decimal", value |-> n]
NoNumber   == [form |-> "other"]

Location(latitude, longitude) ==
    [latitude |-> Decimal(latitude), longitude |-> Decimal(longitude),
     altitude |-> Integer(-3), speed |-> Integer(60), direct |-> NoNumber,
     satellites |-> Integer(7)]

Gps ==
    [action |-> GpsAction,
     payload |-> [deviceID |-> "howen", location |-> Location(12, -77), bat |-> Integer(12),
                  fuel |-> Decimal(30), mobile |-> NoNumber, mileage |-> Decimal(900),
                  key |-> Integer(1)]]

\* An alarm with and one without the place it was raised at.
AlarmAt(code, location) ==
    [action |-> AlarmAction,
     payload |-> [deviceID |-> "howen", location |-> location, key |-> Integer(0),
                  ec |-> code]]

Nowhere == [Location(0, 0) EXCEPT !.latitude = NoNumber, !.longitude = NoNumber]

Place(latitude, longitude) ==
    [latitude |-> latitude, longitude |-> longitude, altitude |-> -3, speed |-> 60,
     course |-> 0]

MCMessages ==
    <<Gps, [action |-> "80005"], AlarmAt(48, Location(-33, 0))>>

MCReported ==
    << <<[imei |-> "howen", position |-> Place(12, -77), satellites |-> 7,
          batteryLevel |-> 100, fuelLtr |-> 30, rpm |-> 0, odometer |-> 900,
          ignition |-> TRUE]>>,
       <<>>,
       <<[imei |-> "howen", unknownEvent |-> FALSE, position |-> <<Place(-33, 0)>>,
          vehicleStatus |-> <<[flags |-> {"OverSpeeding"}, ignition |-> FALSE]>>]>> >>

\* Driver distraction.
DistractionMessages == <<AlarmAt(118, Nowhere)>>

DistractionReported ==
    << <<[imei |-> "howen", unknownEvent |-> FALSE, position |-> <<>>,
          vehicleStatus |-> <<>>]>> >>

================================================================================
