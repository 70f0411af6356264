SPECIFICATION FairSpec
CONSTANTS
    TurnTimeout = 2
    TotalTimeout = 5
    QueueBound = 3
    Horizon = 7
INVARIANTS
    TypeOK
    OneWriteOutlives
PROPERTIES
    StreamPromise
    DeadlineCuts
    StreamEnds
    ProducerStops
CHECK_DEADLOCK FALSE
