SPECIFICATION Spec
CONSTANTS
    Jobs = {j1, j2, j3}
    NChunks = 2
    MaxFaults = 2
INVARIANTS
    TypeOK
    SettledComplete
    RedeliveryRepairs
PROPERTY
    StatusSettles
CHECK_DEADLOCK FALSE
