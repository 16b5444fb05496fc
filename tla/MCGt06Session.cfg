\* Six messages, one of them refused, one fault, three connections.
CONSTANTS
    MaxConns = 3
    Messages <- SixMessages
    IsHeartbeat <- MCIsHeartbeat
    Encode <- MCEncode
    LoginPacket <- MCLoginPacket
    Reported <- MCReported
    DamagedAt = {1, 3, 4, 8, 10, 16}
    Lost = {0, 3, 12}
    MaxFaults = 1
SPECIFICATION FairSpec
INVARIANTS IInv QueueIsWhatWasSent ReplyConfirms
PROPERTIES EverythingIsSent
