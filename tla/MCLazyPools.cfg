SPECIFICATION PoolsSpec
CONSTANTS
    Requests = {r1, r2, r3, r4}
    NONE = NONE
INVARIANT
    OnlyOvertakenLeak
CHECK_DEADLOCK FALSE
