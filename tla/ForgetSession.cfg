SPECIFICATION FairSpec
CONSTANTS
    Relay = {r1, r2}
    MaxRemovals = 2
    MaxFaults = 1
INVARIANTS
    TypeOK
    ScratchOutlivesProcess
    FencesHaveHolders
PROPERTIES
    LedgerSpec
    ForgetSettles
CHECK_DEADLOCK FALSE
