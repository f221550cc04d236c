---------------------------- MODULE MCScratchPad ----------------------------
EXTENDS ScratchPad, TLC

CONSTANTS p1, p2, t1, t2, t3

Symmetry == Permutations(Tasks) \cup Permutations(Pads)
=============================================================================
