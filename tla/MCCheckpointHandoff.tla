------------------------- MODULE MCCheckpointHandoff ---------------------------
EXTENDS CheckpointHandoff, TLC

StepSymmetry == Permutations(Step)
================================================================================
