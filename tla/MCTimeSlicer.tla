----------------------------- MODULE MCTimeSlicer -----------------------------
(* Instances of TimeSlicer for TLC. *)
EXTENDS TimeSlicer

\* Every worker shares one claim.
OneClaim == [w \in Workload |-> CHOOSE k \in Claim : TRUE]

Symmetry == Permutations(Workload) \cup Permutations(Conn)

\* Connection identities are interchangeable and, without overlap, a worker
\* has one connection at a time.  Where a run cannot use symmetry (liveness),
\* workers and connections are numbered and each worker keeps to its own.
OwnConnection == \A c \in Conn : owner'[c] \in {c, NoWorkload}

\* Where a process's memory is decides nothing about the queue: the liveness
\* run leaves out the steps that put it on the devices.
OffDevice == \A w \in Workload : mem'[w] # "device"

===============================================================================
