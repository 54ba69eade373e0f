---------------------------- MODULE MCRegistry ----------------------------
EXTENDS Registry, TLC

Symm == Permutations(Req)
=============================================================================
