---------------------------- MODULE MCSumCluster ----------------------------
(* Small instances of SumCluster: one client uploads everything.           *)
EXTENDS SumCluster, TLC

CONSTANTS c1, r1, r2, r3

OneClient == [r \in Records |-> c1]

Symmetry == Permutations(Sums)
=============================================================================
