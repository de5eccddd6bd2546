------------------------------ MODULE MCSessions ------------------------------
EXTENDS Sessions, TLC

CONSTANTS u1, r1, r2, ip

(* Requests differ by nothing; for the runs without a temporal property. *)
Symmetry == Permutations(Request)
===============================================================================
