------------------------------ MODULE MCTrainerTurn -----------------------------
(* Instances of TrainerTurn for TLC. *)
EXTENDS TrainerTurn

CONSTANTS t1, t2

\* Two requests of any kind, in one batch or two; the second trainer is the
\* rival for the claim.
TwoAndOne == [w \in Trainer |-> IF w = t1 THEN 2 ELSE 1]
AnyAndWork == [w \in Trainer |-> IF w = t1 THEN Op ELSE {"work"}]

===============================================================================
