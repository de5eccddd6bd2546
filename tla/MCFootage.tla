------------------------------ MODULE MCFootage ------------------------------
EXTENDS Footage, TLC

CONSTANTS c1, p1, p2, w1, w2

MCSymmetry == {f @@ g : f \in Permutations(Purger), g \in Permutations(Process)}
==============================================================================
