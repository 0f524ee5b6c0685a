SPECIFICATION Spec
CONSTANTS
    Key = {k1, k2}
    NoKey = NoKey
    MaxRequests = 2
    MaxProcs = 2
    MaxCrashes = 1
INVARIANTS
    CarriedOut
    OneDelivery
PROPERTIES
    RightCall
    DecisionSpec
CHECK_DEADLOCK FALSE
SYMMETRY KeySymmetry
