---------------------------- MODULE MCFederation ----------------------------
EXTENDS Federation, TLC

CONSTANTS d1, d2, x1, y1, x2

MCKnown == {Pair(d1, x1), Pair(d1, y1), Pair(d2, x2)}
Symm == Permutations(Node) \cup Permutations(Query) \cup Permutations(RequestID)
=============================================================================
