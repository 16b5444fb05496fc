\* IntelliTrac in binary, one position of a vehicle that has moved, no fault.
CONSTANTS
    Messages <- MovedMessages
    Encode <- MCEncode
    Reported <- MCReported
    Damaged <- MCDamaged
    Command <- OneCommand
    Transactions <- SomeTransactions
    Lost = {0}
    MaxFaults = 0
SPECIFICATION Spec
INVARIANT OdometerIsInMetres
