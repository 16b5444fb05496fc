\* One connection, one heartbeat with the ignition on, no fault.
CONSTANTS
    MaxConns = 1
    Messages <- OneRunning
    IsHeartbeat <- MCIsHeartbeat
    Encode <- MCEncode
    LoginPacket <- MCLoginPacket
    Reported <- MCReported
    DamagedAt = {1, 3, 4, 8, 10, 16}
    Lost = {0}
    MaxFaults = 0
SPECIFICATION Spec
INVARIANT IgnitionIsReported
