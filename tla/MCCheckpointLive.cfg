SPECIFICATION FairSpec
CONSTANTS
    Step = {s1}
    MaxPlans = 1
    MaxEpoch = 0
    MaxRequests = 2
    MaxProcs = 2
    MaxTurns = 2
    MaxCrashes = 0
PROPERTIES
    HandoffConcludes
CHECK_DEADLOCK FALSE
