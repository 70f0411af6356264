SPECIFICATION Spec
CONSTANTS
    c1 = c1
    c2 = c2
    c3 = c3
    x1 = x1
    x2 = x2
    Calls <- MCCalls
    Orders = {o1}
    NoOrder = NoOrder
    Charges <- MCCharges
    NoCharge = NoCharge
    RawStatuses = {"in_process", "approved"}
    MaxStatuses = 2
SYMMETRY MCSymmetry
INVARIANTS
    TypeOK
    BookFollowsGateway
    CheckIsCurrent
    
PROPERTY
    RegressionNeedsOverlap
CHECK_DEADLOCK FALSE
