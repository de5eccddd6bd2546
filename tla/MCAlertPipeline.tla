---------------------------- MODULE MCAlertPipeline ----------------------------
EXTENDS AlertPipeline, TLC

CONSTANTS c1, c2

MCSymmetry == Permutations(Child)
==============================================================================
