----------------------------- MODULE MCClaimLedger ----------------------------
(* Constants for TLC: two names, and a second incarnation of the first.     *)
EXTENDS ClaimLedger, TLC
CONSTANTS a, b, a1, a2, b1

MCName == {a, b}
MCWorker == {a1, a2, b1}
MCNameOf == (a1 :> a) @@ (a2 :> a) @@ (b1 :> b)

\* One name alone, where caches lag.
HeirName == {a}
HeirWorker == {a1, a2}
HeirNameOf == (a1 :> a) @@ (a2 :> a)
===============================================================================
