-------------------------- MODULE MCHeldInteractions --------------------------
EXTENDS HeldInteractions, TLC

\* the keys of clients are alike
KeySymmetry == Permutations(Key)
===============================================================================
