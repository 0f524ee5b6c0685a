SPECIFICATION Spec
CONSTANTS
    Handler = {h1, h2}
    Ceremony = {c1, c2, c3}
    Ticket = {t1}
    Credential = {k1, k2}
    Synced = {k2}
    None = None
    Capacity = 2
    Life = 1
    SessionLife = 1
    MaxTime = 1
    MaxCount = 2
    MaxVersion = 1
SYMMETRY Symmetry
INVARIANTS
    TypeOK
    SingleUse
    OpenSessionHasDevice
    CounterIsHighest
PROPERTY AccessSpec
CHECK_DEADLOCK FALSE
