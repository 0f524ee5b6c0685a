--------------------------- MODULE CheckpointLedger ----------------------------
(***************************************************************************)
(* What the checkpoint hand-off promises, without requests, deadlines,     *)
(* processes or crashes: a boundary is a target in one of its completion   *)
(* epochs; it is recorded once, it alone occupies the hand-off until it is *)
(* released, and it is never recorded again.                               *)
(***************************************************************************)
CONSTANTS Boundary, NoBoundary

VARIABLES recorded, pending

Init == recorded = {} /\ pending = NoBoundary

Record(b) ==
    /\ pending = NoBoundary /\ b \notin recorded
    /\ recorded' = recorded \cup {b} /\ pending' = b

Release ==
    /\ pending # NoBoundary
    /\ pending' = NoBoundary /\ UNCHANGED recorded

Next == (\E b \in Boundary : Record(b)) \/ Release

Spec == Init /\ [][Next]_<<recorded, pending>>

TypeOK == recorded \subseteq Boundary /\ pending \in recorded \cup {NoBoundary}
================================================================================
