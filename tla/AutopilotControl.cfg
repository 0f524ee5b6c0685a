SPECIFICATION Spec
CONSTANTS
    MaxControls = 2
    MaxGen = 4
    MaxQueue = 2
    MaxToggles = 2
    MaxSends = 1
    MaxCrashes = 1
    MaxRefreshes = 0
INVARIANTS ScheduledIsLast BackoffArmed RevokedNeverSent IssuedInFlight
PROPERTY LedgerSpec
CHECK_DEADLOCK FALSE
