------------------------------ MODULE DeviceLease ------------------------------
(***************************************************************************)
(* What the time slicer promises the workers of a claim, without its       *)
(* queue, its connections and its failures: one holder per claim, memory   *)
(* put on the devices only by the holder, and a grant that moves on only   *)
(* when the holder's memory is off the devices or the holder is leaving.   *)
(***************************************************************************)
CONSTANTS Workload, Claim, ClaimOf, NoWorkload

VARIABLES
  holder,    \* who has each claim's grant
  onDevice,  \* the workers with memory on their claim's devices
  leaving    \* the workers that are exiting, or have to

vars == <<holder, onDevice, leaving>>

Init ==
  /\ holder = [k \in Claim |-> NoWorkload]
  /\ onDevice = {}
  /\ leaving = {}

\* Parked memory may come back to the devices with the grant.
Grant(w) ==
  /\ holder[ClaimOf[w]] = NoWorkload
  /\ holder' = [holder EXCEPT ![ClaimOf[w]] = w]
  /\ \/ UNCHANGED onDevice
     \/ w \notin leaving /\ onDevice' = onDevice \cup {w}
  /\ UNCHANGED leaving

Load(w) ==
  /\ holder[ClaimOf[w]] = w
  /\ w \notin leaving
  /\ onDevice' = onDevice \cup {w}
  /\ UNCHANGED <<holder, leaving>>

\* The holder's memory comes off the devices and the grant is free.
GiveBack(w) ==
  /\ holder[ClaimOf[w]] = w
  /\ holder' = [holder EXCEPT ![ClaimOf[w]] = NoWorkload]
  /\ onDevice' = onDevice \ {w}
  /\ w \notin leaving
  /\ UNCHANGED leaving

\* The grant of a holder that leaves, or has to, is free while its memory is
\* still there.
Abandon(w) ==
  /\ holder[ClaimOf[w]] = w
  /\ holder' = [holder EXCEPT ![ClaimOf[w]] = NoWorkload]
  /\ leaving' = leaving \cup {w}
  /\ UNCHANGED onDevice

Leave(w) ==
  /\ leaving' = leaving \cup {w}
  /\ UNCHANGED <<holder, onDevice>>

\* The process is gone, and its memory with it.
Gone(w) ==
  /\ onDevice' = onDevice \ {w}
  /\ leaving' = leaving \ {w}
  /\ UNCHANGED holder

Next == \E w \in Workload :
  Grant(w) \/ Load(w) \/ GiveBack(w) \/ Abandon(w) \/ Leave(w) \/ Gone(w)

Spec == Init /\ [][Next]_vars

===============================================================================
