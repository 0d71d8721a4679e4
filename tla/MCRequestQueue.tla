----------------------------- MODULE MCRequestQueue ----------------------------
(* Instances of RequestQueue for TLC. *)
EXTENDS RequestQueue

CONSTANTS a, b

\* Tenant a can have a request queued whenever one of its is answered.
TwoAndOne == [r \in Request |-> IF r = 3 THEN b ELSE a]

===============================================================================
