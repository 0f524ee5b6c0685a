SPECIFICATION FairSpec
CONSTANTS
    Key = {k1, k2}
    Handler = {h1}
    MaxWriters = 3
    MaxTurns = 2
    MaxCrashes = 1
INVARIANTS
    TypeOK
    OneTurnPerKey
    LiveRowHasWriter

    
CHECK_DEADLOCK FALSE
