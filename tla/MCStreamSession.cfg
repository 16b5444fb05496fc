\* Three formats, two faults, one command.
CONSTANTS
    Messages <- MCMessages
    Encode <- MCEncode
    Reported <- MCReported
    Damaged <- MCDamaged
    Command <- OneCommand
    Transactions <- SomeTransactions
    Lost = {0, 1, 3, 10}
    MaxFaults = 2
SPECIFICATION Spec
INVARIANTS QueuesAreWhatWasSent AckConfirms
PROPERTIES MessagesAreAnswered
