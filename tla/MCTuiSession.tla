--------------------------- MODULE MCTuiSession ---------------------------
EXTENDS TuiSession, TLC

CONSTANTS t1, t2, t3

Symmetry == Permutations(Tasks)
=============================================================================
