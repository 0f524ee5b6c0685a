---------------------------- MODULE MCAuthorization ----------------------------
EXTENDS Authorization, TLC

Symmetry == Permutations(Handler) \cup Permutations(Ceremony)
================================================================================
