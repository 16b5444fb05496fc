\* Both stores behind both listeners; the queues fill, the store may hang.
CONSTANTS
    Capacity = 2
    MaxRecords = 4
    MaxResponses = 3
SPECIFICATION FairSpec
INVARIANTS IInv
PROPERTIES RecordsFlow ResponsesFlow ServiceIsHandlers WorkersEnd BackpressureClears AcceptedIsAttempted
