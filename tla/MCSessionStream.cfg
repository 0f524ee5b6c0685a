SPECIFICATION FairSpec
CONSTANTS
    Window = 1
    Retries = 1
    Rejected = {2}
    MaxEvents = 3
    MaxPrunes = 1
    MaxDrops = 2
    MaxFails = 2
    MaxVisits = 1
INVARIANTS TypeOK InOrderOnce WireContiguous QuietIsCurrent
PROPERTIES FeedSpec CatchesUp
CHECK_DEADLOCK FALSE
