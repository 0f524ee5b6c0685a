SPECIFICATION Spec
CONSTANTS
    Key = {k1}
    Handler = {h1}
    MaxWriters = 3
    MaxTurns = 1
    MaxCrashes = 0
INVARIANT RecoveryNeverStrands
CHECK_DEADLOCK FALSE
