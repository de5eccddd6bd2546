----------------------------- MODULE MCRecording -----------------------------
EXTENDS Recording, TLC

CONSTANTS c1, c2, w1, w2, p1, p2, p3

MCSymmetry == Permutations(Child) \cup Permutations(Proc) \cup Permutations(Camera)
==============================================================================
