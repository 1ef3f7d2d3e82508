---------------------------- MODULE MCWhaleScan ----------------------------
(* Small instances of WhaleScan.                                            *)
EXTENDS WhaleScan, TLC

CONSTANTS c1, c2

MCVolume == [c \in Candidates |-> IF c = c1 THEN 1 ELSE 2]
Symmetry == Permutations(Runs)
=============================================================================
