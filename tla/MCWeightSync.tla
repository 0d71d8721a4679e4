------------------------------ MODULE MCWeightSync ------------------------------
(* Instances of WeightSync for TLC. *)
EXTENDS WeightSync, TLC

CONSTANTS n1, n2, n3, s1, s2, p1, p2

Symmetry == Permutations(Sample) \cup Permutations(Param)

===============================================================================
