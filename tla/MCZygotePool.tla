--------------------------- MODULE MCZygotePool ---------------------------
(* Instances of ZygotePool: jobs of one language, or one of a second one. *)
EXTENDS ZygotePool, TLC

CONSTANTS k1, k2, j1, j2, j3, p1, p2, p3

OneKey  == [j \in Jobs |-> k1]
TwoKeys == [j \in Jobs |-> IF j = j3 THEN k2 ELSE k1]

Symmetry == Permutations(Parents)
===========================================================================
