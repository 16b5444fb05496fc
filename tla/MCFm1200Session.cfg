\* Two connections, one damaged packet, one command.
CONSTANTS
    MaxConns = 2
    Batches <- TwoBatches
    EncodeBatch <- MCEncode
    Reported <- MCReported
    Command <- OneCommand
    Answer <- OneAnswer
    EncodeResponse <- MCEncodeResponse
    DamagedAt = {4, 8, 9, 10, 17, 24}
    Lost = {0, 2, 30}
    MaxFaults = 1
    MaxCommands = 1
SPECIFICATION FairSpec
INVARIANTS IInv AckedAreQueued StoredAsReported WrongResponseIsLast
PROPERTIES Delivered EverythingIsAcked
