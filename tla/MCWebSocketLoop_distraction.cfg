\* One alarm whose flag is not stored, no faults.
CONSTANTS
    Messages <- DistractionMessages
    Reported <- DistractionReported
    Capacity = 1
    InFlight = 1
    MaxFaults = 0
SPECIFICATION Spec
INVARIANT PopulatedStatusIsAttached
