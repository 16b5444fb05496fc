\* One connection, one alarm, no fault.
CONSTANTS
    MaxConns = 1
    Messages <- OneAlarm
    IsHeartbeat <- MCIsHeartbeat
    Encode <- MCEncode
    LoginPacket <- MCLoginPacket
    Reported <- MCReported
    DamagedAt = {1, 3, 4, 8, 10, 16}
    Lost = {0}
    MaxFaults = 0
SPECIFICATION Spec
INVARIANT AlarmPositionIsStored
