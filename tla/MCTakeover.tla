------------------------------ MODULE MCTakeover -------------------------------
EXTENDS Takeover, TLC

SessionSymmetry == Permutations(Session)
================================================================================
