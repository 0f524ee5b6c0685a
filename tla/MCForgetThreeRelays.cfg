SPECIFICATION Spec
CONSTANTS
    Relay = {r1, r2, r3}
    MaxRemovals = 2
    MaxFaults = 0
SYMMETRY RelaySymmetry
INVARIANT CompletedMeansDeleted
CHECK_DEADLOCK FALSE
