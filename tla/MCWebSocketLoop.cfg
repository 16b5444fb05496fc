\* A queue of one, two faults.
CONSTANTS
    Messages <- MCMessages
    Reported <- MCReported
    Capacity = 1
    InFlight = 1
    MaxFaults = 2
SPECIFICATION FairSpec
INVARIANTS IInv FeedIsAccountedFor
PROPERTIES FeedResumes LeftWorkersEnd
