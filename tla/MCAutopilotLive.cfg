SPECIFICATION FairSpec
CONSTANTS
    MaxControls = 2
    MaxGen = 6
    MaxQueue = 2
    MaxToggles = 1
    MaxSends = 0
    MaxCrashes = 0
    MaxRefreshes = 1
PROPERTIES Continues Settles
CHECK_DEADLOCK FALSE
