SPECIFICATION Spec
CONSTANTS
    Session = {s1, s2, s3}
    None = None
    MaxEpoch = 2
    MaxEvents = 1
SYMMETRY SessionSymmetry
INVARIANT OneSupervisor
PROPERTY LedgerSpec
CHECK_DEADLOCK FALSE
