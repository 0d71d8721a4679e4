----------------------------- MODULE MCSessionReaper ----------------------------
(* Instances of SessionReaper for TLC. *)
EXTENDS SessionReaper

CONSTANTS s1, s2, o1

===============================================================================
