SPECIFICATION Spec
CONSTANTS
    Step = {s1, s2}
    MaxPlans = 2
    MaxEpoch = 1
    MaxRequests = 1
    MaxProcs = 2
    MaxTurns = 2
    MaxCrashes = 1
INVARIANTS
    TypeOK
    BoundaryAccounted
    NewCompletionReportable
PROPERTIES
    OncePerCompletion
    ReleasedByItsFinal
    LedgerSpec
CHECK_DEADLOCK FALSE
SYMMETRY StepSymmetry
