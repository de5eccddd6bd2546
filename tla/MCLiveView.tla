----------------------------- MODULE MCLiveView -----------------------------
EXTENDS LiveView, TLC

CONSTANTS t1, t2, t3, l1, l2, l3, p1, p2, s1, s2, u1, u2

MCUserOf == [s \in {s1, s2} |-> u1]
MCSymmetry == Permutations(Task) \cup Permutations(Proc) \cup Permutations(Socket)
==============================================================================
