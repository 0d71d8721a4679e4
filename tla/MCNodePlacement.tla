----------------------------- MODULE MCNodePlacement ----------------------------
(* Instances of NodePlacement for TLC. *)
EXTENDS NodePlacement

CONSTANTS a, b, c, n1, n2

\* b runs on n1 only; the others run on either.
Requests ==
  [w \in Worker |->
     [role |-> IF w = b THEN "sampler" ELSE "trainer",
      memory |-> 3, host |-> 1, owner |-> w, shareable |-> TRUE]]

\* n1 takes both roles, and of its driver's update a slice of before is left;
\* n2 has a larger device and takes trainers only.
MCSlices ==
  [n \in Node |->
     IF n = n1
     THEN {[pool |-> n, generation |-> 1, total |-> 1, devices |-> <<2, 2>>],
           [pool |-> n, generation |-> 2, total |-> 1, devices |-> <<4>>]}
     ELSE {[pool |-> n, generation |-> 1, total |-> 1, devices |-> <<7>>]}]

MCLabels ==
  [n \in Node |->
     IF n = n1 THEN [trainer |-> "none", sampler |-> "none"]
               ELSE [trainer |-> "true", sampler |-> "none"]]

MCAllocatable == [n \in Node |-> IF n = n1 THEN 2 ELSE 1]
===============================================================================
