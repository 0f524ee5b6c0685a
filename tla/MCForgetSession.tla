---------------------------- MODULE MCForgetSession -----------------------------
EXTENDS ForgetSession, TLC

RelaySymmetry == Permutations(Relay)
================================================================================
