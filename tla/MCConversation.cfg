SPECIFICATION Spec
CONSTANTS
    Turns = {u1, u2, u3}
    Limits = {0, 1, 2, 3}
    DefaultLimit = 4
INVARIANTS
    ModelSeesTheTurn
    LossNeedsOverlap
CHECK_DEADLOCK FALSE
