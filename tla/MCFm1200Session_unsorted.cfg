\* One connection, one batch that is not in time order, no damage, no command.
CONSTANTS
    MaxConns = 1
    Batches <- OneUnsortedBatch
    EncodeBatch <- MCEncode
    Reported <- MCReported
    Command <- OneCommand
    Answer <- OneAnswer
    EncodeResponse <- MCEncodeResponse
    DamagedAt = {4, 8, 9, 10, 17, 24}
    Lost = {0}
    MaxFaults = 0
    MaxCommands = 0
SPECIFICATION Spec
INVARIANT RecordsLeaveInPacketOrder
