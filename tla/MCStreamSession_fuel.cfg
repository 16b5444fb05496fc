\* OBDII2G, one line that ends with the fuel level, no fault.
CONSTANTS
    Messages <- FuelMessages
    Encode <- MCEncode
    Reported <- MCReported
    Damaged <- MCDamaged
    Command <- OneCommand
    Transactions <- SomeTransactions
    Lost = {0}
    MaxFaults = 0
SPECIFICATION Spec
INVARIANT LastParameterIsRead
