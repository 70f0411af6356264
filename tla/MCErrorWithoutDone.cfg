SPECIFICATION Spec
CONSTANTS
    TurnTimeout = 2
    TotalTimeout = 5
    QueueBound = 3
    Horizon = 7
INVARIANT
    ErrorWithoutDone
CHECK_DEADLOCK FALSE
