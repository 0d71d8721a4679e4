--------------------------- MODULE TimeSlicerProofs ---------------------------
(***************************************************************************)
(* For every set of workers, claims and connections and both scheduling    *)
(* policies: the invariants of Spec, that Spec implements DeviceLease, and *)
(* what survives processes that overlap, restarts of the daemon and blind  *)
(* checkpoints (RoughSpec): every waiter has its handler and its record.   *)
(***************************************************************************)
EXTENDS TimeSlicer, SequenceLemmas, TLAPS

\* The live process of a worker has one connection, its handler does what
\* the process waits for, and the record is bound to that connection.
OneSession ==
  /\ \A c \in Conn : phase[c] = "closed" <=> owner[c] = NoWorkload
  /\ \A c, d \in Conn : owner[c] = owner[d] /\ owner[c] # NoWorkload => c = d
  /\ \A w \in Workload : conn[w] # NoConn => owner[conn[w]] = w
  /\ \A w \in Workload :
       /\ status[w] \in {"down", "exiting"} => conn[w] = NoConn
       /\ conn[w] = NoConn => status[w] \in {"down", "exiting", "faulted"}

SessionPhase ==
  \A w \in Workload :
    /\ status[w] \in {"ready", "holding"} => phase[conn[w]] = "idle"
    /\ status[w] = "faulted" => \A c \in Conn : owner[c] = w => phase[c] = "idle"
    /\ status[w] = "asking" => phase[conn[w]] \in {"waiting", "restoring"}
    /\ status[w] = "parking" => phase[conn[w]] = "checkpointing"

\* A handler's worker is registered through it, or has no claim to anything;
\* a record is bound to a connection of its worker.
SessionRecord ==
  /\ \A c \in Conn : owner[c] # NoWorkload =>
       \/ workloads[owner[c]].conn = c
       \/ /\ workloads[owner[c]].conn = NoConn
          /\ status[owner[c]] \in {"down", "exiting", "faulted"}
          /\ phase[c] = "idle"
          /\ running[ClaimOf[owner[c]]] # owner[c]
  /\ \A w \in Workload :
       workloads[w].conn # NoConn => owner[workloads[w].conn] = w

\* A turn in progress has the grant, and a grant belongs to a turn or to a
\* connection that still has to be closed.
TurnHasGrant ==
  /\ \A c \in Conn : phase[c] \in {"restoring", "checkpointing"}
       => running[ClaimOf[owner[c]]] = owner[c]
  /\ HolderHasGrant

GrantHasSession ==
  \A k \in Claim : running[k] # NoWorkload =>
    /\ ClaimOf[running[k]] = k
    /\ status[running[k]] \notin {"ready"}
    /\ \E c \in Conn : owner[c] = running[k] /\ phase[c] # "waiting"

\* The record of a process that is not at fault is registered and healthy, that
\* of one that is has failed.
SessionHealthy ==
  \A w \in Workload :
    /\ status[w] \in {"ready", "asking", "holding", "parking"}
         => workloads[w].registered /\ ~workloads[w].failed
    /\ status[w] = "faulted" => workloads[w].failed

MemoryHasTurn ==
  \A w \in Workload :
    mem[w] = "device" => status[w] \in {"holding", "parking", "faulted", "exiting"}

LeaseInv ==
  /\ TypeOK
  /\ OneSession
  /\ SessionPhase
  /\ SessionRecord
  /\ TurnHasGrant
  /\ GrantHasSession
  /\ SessionHealthy
  /\ MemoryHasTurn

-----------------------------------------------------------------------------
(* Init and the daemon's steps *)

LEMMA InitLease == Init => LeaseInv
<1> SUFFICES ASSUME Init PROVE LeaseInv
  OBVIOUS
<1>1. TypeOK
  BY SlicerAssumption
  DEF Init, TypeOK, NoState, WorkloadState, Phase, Status, Memory
<1>2. OneSession /\ SessionPhase /\ SessionRecord
  BY DEF Init, NoState, OneSession, SessionPhase, SessionRecord
<1>3. TurnHasGrant /\ GrantHasSession /\ SessionHealthy /\ MemoryHasTurn
  BY DEF Init, TurnHasGrant, HolderHasGrant, LetGo, GrantHasSession, SessionHealthy, MemoryHasTurn
<1> QED BY <1>1, <1>2, <1>3 DEF LeaseInv

LEMMA ClearWorkloadType ==
  ASSUME TypeOK, NEW w \in Workload, ClearWorkload(w)
  PROVE  /\ waiting' \in Seq(Workload)
         /\ running' \in [Claim -> Workload \cup {NoWorkload}]
         /\ \A k \in Claim : running'[k] = IF running[k] = w THEN NoWorkload ELSE running[k]
BY RemoveFirstType DEF TypeOK, ClearWorkload

\* A record whose marks change is still a record.
LEMMA MarkType ==
  ASSUME TypeOK, NEW w \in Workload, NEW a \in BOOLEAN, NEW b \in BOOLEAN
  PROVE  /\ [workloads EXCEPT ![w].checkpointed = a] \in [Workload -> WorkloadState]
         /\ [workloads EXCEPT ![w].checkpointed = a, ![w].failed = b] \in [Workload -> WorkloadState]
<1>1. workloads[w] \in WorkloadState
  BY DEF TypeOK
<1>2. /\ [workloads[w] EXCEPT !.checkpointed = a] \in WorkloadState
      /\ [workloads[w] EXCEPT !.checkpointed = a, !.failed = b] \in WorkloadState
  BY <1>1 DEF WorkloadState
<1> QED BY <1>2 DEF TypeOK

\* The client of a busy handler is the live process of its worker, or gone.
LEMMA BusyHandler ==
  ASSUME LeaseInv, NEW c \in Conn, phase[c] # "closed"
  PROVE  /\ owner[c] \in Workload
         /\ ClaimOf[owner[c]] \in Claim
         /\ \A d \in Conn : owner[d] = owner[c] => d = c
         /\ Live(c) => status[owner[c]] \notin {"down", "exiting"}
         /\ ~Live(c) => /\ conn[owner[c]] = NoConn
                        /\ status[owner[c]] \in {"down", "exiting", "faulted"}
         /\ phase[c] # "idle" => status[owner[c]] # "faulted"
         /\ Live(c) <=> conn[owner[c]] = c
         /\ \A v \in Workload : v # owner[c] => conn[v] # c
<1>1. owner[c] \in Workload /\ c # NoConn
  BY SlicerAssumption DEF LeaseInv, TypeOK, OneSession
<1>2. conn[owner[c]] \in Conn \cup {NoConn}
  BY <1>1 DEF LeaseInv, TypeOK
<1>3. conn[owner[c]] # NoConn => conn[owner[c]] = c
  BY <1>1, <1>2, SlicerAssumption DEF LeaseInv, OneSession
<1>4. phase[c] # "idle" => status[owner[c]] # "faulted"
  BY <1>1 DEF LeaseInv, SessionPhase
<1> QED BY <1>1, <1>2, <1>3, <1>4, SlicerAssumption DEF LeaseInv, OneSession, Live

LEMMA LiveWorker ==
  ASSUME LeaseInv, NEW w \in Workload
  PROVE  /\ status[w] \in {"ready", "asking", "holding", "parking"} => conn[w] # NoConn
         /\ conn[w] # NoConn => /\ conn[w] \in Conn
                               /\ owner[conn[w]] = w
                               /\ Live(conn[w])
                               /\ \A d \in Conn : owner[d] = w => d = conn[w]
BY SlicerAssumption DEF LeaseInv, TypeOK, OneSession, Live

LEMMA GrantStep ==
  ASSUME LeaseInv, NEW c \in Conn, Grant(c)
  PROVE  LeaseInv'
<1> DEFINE w == owner[c]
           k == ClaimOf[w]
<1>1. /\ phase[c] = "waiting"
      /\ running[k] = NoWorkload
      /\ waiting' = RemoveFirst(waiting, w)
      /\ running' = [running EXCEPT ![k] = w]
      /\ UNCHANGED <<workloads, released, owner, conn, mem>>
      /\ \/ phase' = [phase EXCEPT ![c] = "restoring"] /\ UNCHANGED status
         \/ /\ phase' = [phase EXCEPT ![c] = "idle"]
            /\ status' = IF Live(c) THEN [status EXCEPT ![w] = "holding"] ELSE status
  BY DEF Grant, Take, Answer
<1>2. /\ w \in Workload
      /\ k \in Claim
      /\ \A d \in Conn : owner[d] = w => d = c
      /\ Live(c) <=> status[w] \notin {"down", "exiting"}
      /\ Live(c) <=> conn[w] = c
      /\ status[w] # "faulted"
      /\ \A v \in Workload : v # w => conn[v] # c
  BY <1>1, BusyHandler
<1> HIDE DEF w, k
<1>3. TypeOK'
  <2>1. waiting' \in Seq(Workload)
    BY <1>1, RemoveFirstType DEF LeaseInv, TypeOK
  <2>2. status' \in [Workload -> Status] /\ phase' \in [Conn -> Phase]
    BY <1>1, <1>2 DEF LeaseInv, TypeOK, Status, Phase
  <2> QED BY <1>1, <1>2, <2>1, <2>2 DEF LeaseInv, TypeOK
<1>4. status[w] \in {"asking", "down", "exiting"}
  BY <1>1, <1>2 DEF LeaseInv, TypeOK, OneSession, SessionPhase, Status, w
<1>5. OneSession'
  BY <1>1, <1>2, <1>4 DEF LeaseInv, TypeOK, OneSession
<1>6. SessionPhase'
  BY <1>1, <1>2, <1>4 DEF LeaseInv, TypeOK, OneSession, SessionPhase
<1>7. SessionRecord'
  BY <1>1, <1>2, <1>4 DEF LeaseInv, TypeOK, OneSession, SessionRecord, w
<1>8. TurnHasGrant'
  BY <1>1, <1>2, <1>4, SlicerAssumption DEF LeaseInv, TypeOK, OneSession, TurnHasGrant, HolderHasGrant, LetGo, w, k
<1>9. GrantHasSession'
  BY <1>1, <1>2, <1>4 DEF LeaseInv, TypeOK, OneSession, GrantHasSession, w, k
<1>10. SessionHealthy' /\ MemoryHasTurn'
  BY <1>1, <1>2, <1>4 DEF LeaseInv, TypeOK, SessionHealthy, MemoryHasTurn
<1> QED BY <1>3, <1>5, <1>6, <1>7, <1>8, <1>9, <1>10 DEF LeaseInv

LEMMA RestoreStep ==
  ASSUME LeaseInv, NEW c \in Conn, RestoreOk(c) \/ RestoreFailed(c)
  PROVE  LeaseInv'
<1> DEFINE w == owner[c]
<1>1. /\ phase[c] = "restoring"
      /\ workloads' = [workloads EXCEPT ![w].checkpointed = FALSE]
      /\ phase' = [phase EXCEPT ![c] = "idle"]
      /\ status' = IF Live(c) THEN [status EXCEPT ![w] = "holding"] ELSE status
      /\ mem' \in {mem, [mem EXCEPT ![w] = "device"]}
      /\ ~Live(c) => mem' = mem
      /\ UNCHANGED <<waiting, running, released, owner, conn>>
  BY DEF RestoreOk, RestoreFailed, RestoreDone, Answer
<1>2. /\ w \in Workload
      /\ \A d \in Conn : owner[d] = w => d = c
      /\ Live(c) <=> status[w] \notin {"down", "exiting"}
      /\ Live(c) <=> conn[w] = c
      /\ status[w] # "faulted"
      /\ \A v \in Workload : v # w => conn[v] # c
  BY <1>1, BusyHandler
<1>3. status[w] \in {"asking", "down", "exiting"} /\ running[ClaimOf[w]] = w
  BY <1>1, <1>2
  DEF LeaseInv, TypeOK, OneSession, SessionPhase, TurnHasGrant, Status, w
<1> HIDE DEF w
<1>4. TypeOK'
  <2>1. workloads' \in [Workload -> WorkloadState]
    BY <1>1, <1>2, MarkType DEF LeaseInv
  <2> QED BY <1>1, <1>2, <2>1 DEF LeaseInv, TypeOK, Status, Phase, Memory
<1>5. OneSession'
  BY <1>1, <1>2, <1>3 DEF LeaseInv, TypeOK, OneSession
<1>6. SessionPhase'
  BY <1>1, <1>2, <1>3 DEF LeaseInv, TypeOK, OneSession, SessionPhase
<1>7. SessionRecord'
  <2>1. \A v \in Workload : workloads'[v].conn = workloads[v].conn
    BY <1>1, <1>2 DEF LeaseInv, TypeOK, WorkloadState
  <2> QED BY <1>1, <1>2, <1>3, <2>1 DEF LeaseInv, TypeOK, OneSession, SessionRecord, w
<1>8. TurnHasGrant'
  BY <1>1, <1>2, <1>3 DEF LeaseInv, TypeOK, OneSession, TurnHasGrant, HolderHasGrant, LetGo, w
<1>9. GrantHasSession'
  BY <1>1, <1>2, <1>3 DEF LeaseInv, TypeOK, OneSession, GrantHasSession, w
<1>10. SessionHealthy' /\ MemoryHasTurn'
  BY <1>1, <1>2, <1>3
  DEF LeaseInv, TypeOK, WorkloadState, SessionHealthy, MemoryHasTurn
<1> QED BY <1>4, <1>5, <1>6, <1>7, <1>8, <1>9, <1>10 DEF LeaseInv

LEMMA ReleasedStep ==
  ASSUME LeaseInv, NEW c \in Conn, CheckpointParked(c) \/ CheckpointSkipped(c)
  PROVE  LeaseInv'
<1> DEFINE w == owner[c]
<1>1. /\ phase[c] = "checkpointing"
      /\ \E parked \in BOOLEAN :
           workloads' = [workloads EXCEPT ![w].checkpointed = parked /\ workloads[w].registered]
      /\ released' = Append(RemoveFirst(released, w), w)
      /\ ClearWorkload(w)
      /\ phase' = [phase EXCEPT ![c] = "idle"]
      /\ status' = IF Live(c) THEN [status EXCEPT ![w] = "ready"] ELSE status
      /\ \/ mem' = mem /\ (Live(c) => mem[w] # "device")
         \/ mem' = IF Live(c) THEN [mem EXCEPT ![w] = "parked"] ELSE mem
      /\ UNCHANGED <<owner, conn>>
  BY DEF CheckpointParked, CheckpointSkipped, Released, Answer
<1>2. /\ w \in Workload
      /\ \A d \in Conn : owner[d] = w => d = c
      /\ Live(c) <=> status[w] \notin {"down", "exiting"}
      /\ Live(c) <=> conn[w] = c
      /\ status[w] # "faulted"
      /\ \A v \in Workload : v # w => conn[v] # c
  BY <1>1, BusyHandler
<1>3. status[w] \in {"parking", "down", "exiting"} /\ running[ClaimOf[w]] = w
  <2>1. running[ClaimOf[w]] = w
    BY <1>1 DEF LeaseInv, TurnHasGrant, w
  <2>2. Live(c) => status[w] = "parking"
    BY <1>1, <1>2 DEF LeaseInv, TypeOK, OneSession, SessionPhase, Status
  <2> QED BY <1>2, <2>1, <2>2
<1>4. /\ waiting' \in Seq(Workload)
      /\ running' \in [Claim -> Workload \cup {NoWorkload}]
      /\ \A k \in Claim : running'[k] = IF running[k] = w THEN NoWorkload ELSE running[k]
  BY <1>1, <1>2, ClearWorkloadType DEF LeaseInv
<1>5. \A v \in Workload : /\ workloads'[v].conn = workloads[v].conn
                          /\ workloads'[v].registered = workloads[v].registered
                          /\ workloads'[v].failed = workloads[v].failed
  BY <1>1, <1>2 DEF LeaseInv, TypeOK, WorkloadState
<1> HIDE DEF w
<1>6. TypeOK'
  <2>1. released' \in Seq(Workload)
    BY <1>1, <1>2, RemoveFirstType, AppendProperties DEF LeaseInv, TypeOK
  <2>2. workloads' \in [Workload -> WorkloadState]
    <3>1. PICK parked \in BOOLEAN :
            workloads' = [workloads EXCEPT ![w].checkpointed = parked /\ workloads[w].registered]
      BY <1>1
    <3> DEFINE b == parked /\ workloads[w].registered
    <3>2. b \in BOOLEAN /\ workloads' = [workloads EXCEPT ![w].checkpointed = b]
      BY <3>1
    <3> HIDE DEF b
    <3> QED BY <1>2, <3>2, MarkType DEF LeaseInv
  <2> QED BY <1>1, <1>2, <1>4, <2>1, <2>2 DEF LeaseInv, TypeOK, Status, Phase, Memory
<1>7. OneSession'
  BY <1>1, <1>2, <1>3 DEF LeaseInv, TypeOK, OneSession
<1>8. SessionPhase'
  BY <1>1, <1>2, <1>3 DEF LeaseInv, TypeOK, OneSession, SessionPhase
<1>9. \A v \in Workload : v # w /\ running[ClaimOf[v]] = v => running'[ClaimOf[v]] = v
  BY <1>4, SlicerAssumption
<1>10. \A v \in Workload : running[ClaimOf[v]] # v => running'[ClaimOf[v]] # v
  BY <1>4, SlicerAssumption
<1>12. SessionRecord'
  <2>1. \A d \in Conn : owner[d] # NoWorkload => owner[d] \in Workload
    BY DEF LeaseInv, TypeOK
  <2>2. \A d \in Conn : d # c => phase'[d] = phase[d]
    BY <1>1 DEF LeaseInv, TypeOK
  <2>3. \A v \in Workload : v # w => status'[v] = status[v]
    BY <1>1 DEF LeaseInv, TypeOK
  <2>4. workloads[w].conn = c
    <3>1. w # NoWorkload
      BY <1>2, SlicerAssumption
    <3> QED BY <1>1, <3>1 DEF LeaseInv, SessionRecord, w
  <2> QED BY <1>1, <1>2, <1>5, <1>10, <2>1, <2>2, <2>3, <2>4 DEF LeaseInv, SessionRecord, w
<1>13. TurnHasGrant'
  <2>1. \A d \in Conn : phase'[d] \in {"restoring", "checkpointing"} =>
          d # c /\ phase'[d] = phase[d] /\ owner[d] \in Workload /\ owner[d] # w
    BY <1>1, <1>2 DEF LeaseInv, TypeOK, OneSession
  <2>2. \A v \in Workload : status'[v] \in {"holding", "parking", "faulted"} =>
          v # w /\ status'[v] = status[v]
    BY <1>1, <1>2, <1>3 DEF LeaseInv, TypeOK
  <2> QED BY <1>1, <1>9, <2>1, <2>2 DEF LeaseInv, TurnHasGrant, HolderHasGrant, LetGo
<1>14. GrantHasSession'
  BY <1>1, <1>2, <1>3, <1>4 DEF LeaseInv, TypeOK, OneSession, GrantHasSession, w
<1>15. SessionHealthy' /\ MemoryHasTurn'
  BY <1>1, <1>2, <1>3, <1>5
  DEF LeaseInv, TypeOK, SessionHealthy, MemoryHasTurn
<1> QED BY <1>6, <1>7, <1>8, <1>12, <1>13, <1>14, <1>15 DEF LeaseInv

LEMMA CheckpointFailedStep ==
  ASSUME LeaseInv, NEW c \in Conn, CheckpointFailed(c)
  PROVE  LeaseInv'
<1> DEFINE w == owner[c]
<1>1. /\ phase[c] = "checkpointing"
      /\ workloads' = [workloads EXCEPT ![w].checkpointed = FALSE,
                                        ![w].failed = workloads[w].registered]
      /\ phase' = [phase EXCEPT ![c] = "idle"]
      /\ status' = IF Live(c) THEN [status EXCEPT ![w] = "faulted"] ELSE status
      /\ UNCHANGED <<waiting, running, released, owner, conn, mem>>
  BY DEF CheckpointFailed, Answer
<1>2. /\ w \in Workload
      /\ \A d \in Conn : owner[d] = w => d = c
      /\ Live(c) <=> status[w] \notin {"down", "exiting"}
      /\ Live(c) <=> conn[w] = c
      /\ status[w] # "faulted"
      /\ \A v \in Workload : v # w => conn[v] # c
  BY <1>1, BusyHandler
<1>3. status[w] \in {"parking", "down", "exiting"} /\ running[ClaimOf[w]] = w
  <2>1. running[ClaimOf[w]] = w
    BY <1>1 DEF LeaseInv, TurnHasGrant, w
  <2>2. Live(c) => status[w] = "parking"
    BY <1>1, <1>2 DEF LeaseInv, TypeOK, OneSession, SessionPhase, Status
  <2> QED BY <1>2, <2>1, <2>2
<1>4. \A v \in Workload : /\ workloads'[v].conn = workloads[v].conn
                          /\ workloads'[v].registered = workloads[v].registered
                          /\ v # w => workloads'[v].failed = workloads[v].failed
  BY <1>1, <1>2 DEF LeaseInv, TypeOK, WorkloadState
<1> HIDE DEF w
<1>5. TypeOK'
  <2>1. workloads[w].registered \in BOOLEAN
    BY <1>2 DEF LeaseInv, TypeOK, WorkloadState
  <2>2. workloads' \in [Workload -> WorkloadState]
    BY <1>1, <1>2, <2>1, MarkType DEF LeaseInv
  <2> QED BY <1>1, <1>2, <2>2 DEF LeaseInv, TypeOK, Status, Phase
<1>6. OneSession'
  BY <1>1, <1>2, <1>3 DEF LeaseInv, TypeOK, OneSession
<1>7. SessionPhase'
  BY <1>1, <1>2, <1>3 DEF LeaseInv, TypeOK, OneSession, SessionPhase
<1>8. SessionRecord'
  BY <1>1, <1>2, <1>3, <1>4 DEF LeaseInv, TypeOK, OneSession, SessionRecord, w
<1>9. TurnHasGrant'
  BY <1>1, <1>2, <1>3 DEF LeaseInv, TypeOK, OneSession, TurnHasGrant, HolderHasGrant, LetGo, w
<1>10. GrantHasSession'
  BY <1>1, <1>2, <1>3 DEF LeaseInv, TypeOK, OneSession, GrantHasSession, w
<1>11. SessionHealthy' /\ MemoryHasTurn'
  BY <1>1, <1>2, <1>3, <1>4
  DEF LeaseInv, TypeOK, SessionHealthy, MemoryHasTurn
<1> QED BY <1>5, <1>6, <1>7, <1>8, <1>9, <1>10, <1>11 DEF LeaseInv

LEMMA ConnectionClosedStep ==
  ASSUME LeaseInv, NEW c \in Conn, ConnectionClosed(c)
  PROVE  LeaseInv'
<1> DEFINE w == owner[c]
<1>1. /\ phase[c] = "idle"
      /\ ~Live(c)
      /\ phase' = [phase EXCEPT ![c] = "closed"]
      /\ owner' = [owner EXCEPT ![c] = NoWorkload]
      /\ UNCHANGED <<released, conn, status, mem>>
      /\ workloads[w].conn # c => UNCHANGED <<workloads, waiting, running>>
      /\ workloads[w].conn = c =>
           /\ ClearWorkload(w)
           /\ workloads' = [workloads EXCEPT ![w].conn = NoConn,
                                             ![w].failed = TRUE,
                                             ![w].checkpointed = FALSE]
  BY DEF ConnectionClosed, clientVars
<1>2. /\ w \in Workload
      /\ ClaimOf[w] \in Claim
      /\ \A d \in Conn : owner[d] = w => d = c
      /\ status[w] \in {"down", "exiting", "faulted"}
      /\ conn[w] = NoConn
      /\ c # NoConn
      /\ \A v \in Workload : conn[v] # c
  BY <1>1, BusyHandler, SlicerAssumption
<1>3. /\ waiting' \in Seq(Workload)
      /\ running' \in [Claim -> Workload \cup {NoWorkload}]
      /\ \A k \in Claim : running'[k] \in {running[k], NoWorkload}
      /\ \A k \in Claim : running[k] # w => running'[k] = running[k]
      /\ workloads[w].conn = c => \A k \in Claim : running'[k] # w
  BY <1>1, <1>2, ClearWorkloadType, SlicerAssumption DEF LeaseInv, TypeOK
<1>4. workloads' \in [Workload -> WorkloadState]
  BY <1>1, <1>2 DEF LeaseInv, TypeOK, WorkloadState
<1>5. \A v \in Workload : v # w => workloads'[v] = workloads[v]
  BY <1>1, <1>2 DEF LeaseInv, TypeOK
<1> HIDE DEF w
<1>6. TypeOK'
  BY <1>1, <1>2, <1>3, <1>4 DEF LeaseInv, TypeOK, Phase
<1>7. OneSession'
  BY <1>1, <1>2, SlicerAssumption DEF LeaseInv, TypeOK, OneSession, w
<1>8. SessionPhase'
  <2>1. \A v \in Workload : status[v] \in {"ready", "holding", "asking", "parking"}
          => conn[v] \in Conn /\ conn[v] # c
    BY <1>2, LiveWorker
  <2>2. \A d \in Conn : d # c => phase'[d] = phase[d] /\ owner'[d] = owner[d]
    BY <1>1 DEF LeaseInv, TypeOK
  <2>3. owner'[c] = NoWorkload
    BY <1>1 DEF LeaseInv, TypeOK
  <2> QED BY <1>1, <2>1, <2>2, <2>3, SlicerAssumption DEF LeaseInv, SessionPhase
<1>9. SessionRecord'
  <2> SUFFICES ASSUME NEW d \in Conn, owner'[d] # NoWorkload
               PROVE  \/ workloads'[owner'[d]].conn = d
                      \/ /\ workloads'[owner'[d]].conn = NoConn
                         /\ status'[owner'[d]] \in {"down", "exiting", "faulted"}
                         /\ phase'[d] = "idle"
                         /\ running'[ClaimOf[owner'[d]]] # owner'[d]
    <3>1. ASSUME NEW v \in Workload, workloads'[v].conn # NoConn
          PROVE  owner'[workloads'[v].conn] = v
      <4>1. workloads[v].conn # c /\ workloads'[v].conn = workloads[v].conn
        BY <1>1, <1>2, <1>5, <3>1 DEF LeaseInv, TypeOK, WorkloadState, SessionRecord, w
      <4>2. workloads[v].conn \in Conn
        BY <3>1, <4>1 DEF LeaseInv, TypeOK, WorkloadState
      <4> QED BY <1>1, <3>1, <4>1, <4>2 DEF LeaseInv, TypeOK, SessionRecord
    <3> QED BY <3>1 DEF SessionRecord
  <2>1. /\ d # c
        /\ owner'[d] = owner[d]
        /\ owner[d] \in Workload
        /\ ClaimOf[owner[d]] \in Claim
        /\ owner[d] # w
    BY <1>1, <1>2, SlicerAssumption DEF LeaseInv, TypeOK
  <2> QED BY <1>1, <1>3, <1>5, <2>1, SlicerAssumption DEF LeaseInv, TypeOK, SessionRecord
<1>10. TurnHasGrant'
  BY <1>1, <1>2, <1>3, SlicerAssumption
  DEF LeaseInv, TypeOK, OneSession, TurnHasGrant, HolderHasGrant, LetGo, w
<1>11. GrantHasSession'
  <2> SUFFICES ASSUME NEW k \in Claim, running'[k] # NoWorkload
               PROVE  /\ ClaimOf[running'[k]] = k
                      /\ status'[running'[k]] \notin {"ready"}
                      /\ \E d \in Conn : owner'[d] = running'[k] /\ phase'[d] # "waiting"
    BY DEF GrantHasSession
  <2>1. running'[k] = running[k] /\ running[k] # NoWorkload
    BY <1>3
  <2>2. running[k] # w
    BY <1>1, <1>2, <1>3, <2>1 DEF LeaseInv, GrantHasSession, SessionRecord, w
  <2>3. PICK d \in Conn : owner[d] = running[k] /\ phase[d] # "waiting"
    BY <2>1 DEF LeaseInv, GrantHasSession
  <2>4. d # c
    BY <2>2, <2>3 DEF w
  <2> QED BY <1>1, <2>1, <2>3, <2>4 DEF LeaseInv, TypeOK, GrantHasSession
<1>12. SessionHealthy' /\ MemoryHasTurn'
  <2>1. workloads[w].failed => workloads'[w].failed
    BY <1>1, <1>2 DEF LeaseInv, TypeOK, WorkloadState
  <2> QED BY <1>1, <1>2, <1>5, <2>1 DEF LeaseInv, SessionHealthy, MemoryHasTurn
<1> QED BY <1>6, <1>7, <1>8, <1>9, <1>10, <1>11, <1>12 DEF LeaseInv

-----------------------------------------------------------------------------
(* The workers' steps *)

LEMMA StartStep ==
  ASSUME LeaseInv, NEW w \in Workload, NEW c \in Conn, StartAlone(w, c)
  PROVE  LeaseInv'
<1>1. /\ status[w] = "down"
      /\ phase[c] = "closed"
      /\ \A d \in Conn : owner[d] # w
      /\ workloads' = [workloads EXCEPT ![w] = Registered(w, c)]
      /\ phase' = [phase EXCEPT ![c] = "idle"]
      /\ owner' = [owner EXCEPT ![c] = w]
      /\ conn' = [conn EXCEPT ![w] = c]
      /\ status' = [status EXCEPT ![w] = "ready"]
      /\ UNCHANGED <<waiting, running, released, mem>>
  BY DEF StartAlone, Start, Connect
<1>2. /\ Registered(w, c) \in WorkloadState
      /\ Registered(w, c).conn = c
      /\ Registered(w, c).registered
      /\ ~Registered(w, c).failed
  BY DEF LeaseInv, TypeOK, WorkloadState, Registered
<1>3. /\ owner[c] = NoWorkload
      /\ \A v \in Workload : conn[v] # c
  BY <1>1, SlicerAssumption DEF LeaseInv, TypeOK, OneSession
<1>4. \A k \in Claim : running[k] # w
  BY <1>1, SlicerAssumption DEF LeaseInv, TypeOK, GrantHasSession
<1>5. TypeOK'
  BY <1>1, <1>2 DEF LeaseInv, TypeOK, Phase, Status
<1>6. OneSession'
  BY <1>1, <1>3, SlicerAssumption DEF LeaseInv, TypeOK, OneSession
<1>7. SessionPhase'
  BY <1>1, <1>3 DEF LeaseInv, TypeOK, OneSession, SessionPhase
<1>8. SessionRecord'
  <2>1. \A v \in Workload : workloads[v].conn # c
    BY <1>3, SlicerAssumption DEF LeaseInv, SessionRecord
  <2>2. /\ workloads'[w].conn = c
        /\ \A v \in Workload : v # w => workloads'[v] = workloads[v] /\ status'[v] = status[v]
        /\ owner'[c] = w
        /\ \A d \in Conn : d # c => owner'[d] = owner[d] /\ phase'[d] = phase[d]
    BY <1>1, <1>2 DEF LeaseInv, TypeOK
  <2>3. /\ \A d \in Conn : owner[d] # NoWorkload => owner[d] \in Workload /\ owner[d] # w
        /\ \A v \in Workload : workloads[v].conn # NoConn => workloads[v].conn \in Conn
    BY <1>1 DEF LeaseInv, TypeOK, WorkloadState
  <2> QED BY <1>1, <2>1, <2>2, <2>3 DEF LeaseInv, SessionRecord
<1>9. TurnHasGrant'
  BY <1>1, <1>3 DEF LeaseInv, TypeOK, OneSession, TurnHasGrant, HolderHasGrant, LetGo
<1>10. GrantHasSession'
  BY <1>1, <1>3, <1>4 DEF LeaseInv, TypeOK, OneSession, GrantHasSession
<1>11. SessionHealthy' /\ MemoryHasTurn'
  BY <1>1, <1>2 DEF LeaseInv, TypeOK, SessionHealthy, MemoryHasTurn
<1> QED BY <1>5, <1>6, <1>7, <1>8, <1>9, <1>10, <1>11 DEF LeaseInv

LEMMA AcquireStep ==
  ASSUME LeaseInv, NEW w \in Workload, Acquire(w)
  PROVE  LeaseInv'
<1> DEFINE c == conn[w]
<1>0. status[w] = "ready"
  BY DEF Acquire, CanAsk, Refused, LeaseInv, SessionHealthy
<1>1. /\ status[w] = "ready"
      /\ c # NoConn
      /\ workloads' = [workloads EXCEPT ![w].registered = TRUE]
      /\ waiting' = Append(waiting, w)
      /\ phase' = [phase EXCEPT ![c] = "waiting"]
      /\ status' = [status EXCEPT ![w] = "asking"]
      /\ UNCHANGED <<running, released, owner, conn, mem>>
  BY <1>0 DEF Acquire, CanAsk, CreateIfMissing
<1>2. c \in Conn /\ owner[c] = w /\ \A d \in Conn : owner[d] = w => d = c
  BY <1>1, LiveWorker
<1>3. phase[c] = "idle"
  BY <1>1 DEF LeaseInv, SessionPhase
<1>4. workloads' = workloads
  BY <1>1 DEF LeaseInv, TypeOK, WorkloadState, SessionHealthy
<1>5. \A k \in Claim : running[k] # w
  BY <1>1, SlicerAssumption DEF LeaseInv, TypeOK, GrantHasSession
<1>6. \A v \in Workload : v # w => conn[v] # c
  BY <1>1, <1>2 DEF LeaseInv, OneSession
<1> HIDE DEF c
<1>7. TypeOK'
  <2>1. waiting' \in Seq(Workload)
    BY <1>1, AppendProperties DEF LeaseInv, TypeOK
  <2> QED BY <1>1, <1>2, <1>4, <2>1 DEF LeaseInv, TypeOK, Phase, Status
<1>8. OneSession'
  BY <1>1, <1>2, <1>3 DEF LeaseInv, TypeOK, OneSession
<1>9. SessionPhase'
  BY <1>1, <1>2, <1>6 DEF LeaseInv, TypeOK, SessionPhase, c
<1>10. SessionRecord'
  BY <1>1, <1>2, <1>3, <1>4, SlicerAssumption DEF LeaseInv, TypeOK, SessionRecord
<1>11. TurnHasGrant'
  BY <1>1, <1>2 DEF LeaseInv, TypeOK, TurnHasGrant, HolderHasGrant, LetGo
<1>12. GrantHasSession'
  BY <1>1, <1>2, <1>5 DEF LeaseInv, TypeOK, GrantHasSession
<1>13. SessionHealthy' /\ MemoryHasTurn'
  BY <1>1, <1>4 DEF LeaseInv, TypeOK, SessionHealthy, MemoryHasTurn
<1> QED BY <1>7, <1>8, <1>9, <1>10, <1>11, <1>12, <1>13 DEF LeaseInv

LEMMA LoadStep ==
  ASSUME LeaseInv, NEW w \in Workload, Load(w)
  PROVE  LeaseInv'
<1>1. /\ status[w] = "holding"
      /\ mem' = [mem EXCEPT ![w] = "device"]
      /\ UNCHANGED <<workloads, waiting, running, released, phase, owner, conn, status>>
  BY DEF Load, daemonVars, connVars
<1>2. TypeOK' /\ MemoryHasTurn'
  BY <1>1 DEF LeaseInv, TypeOK, Memory, MemoryHasTurn
<1>3. OneSession' /\ SessionPhase' /\ SessionRecord'
  BY <1>1 DEF LeaseInv, OneSession, SessionPhase, SessionRecord
<1>4. TurnHasGrant' /\ GrantHasSession' /\ SessionHealthy'
  BY <1>1 DEF LeaseInv, TurnHasGrant, HolderHasGrant, LetGo, GrantHasSession, SessionHealthy
<1> QED BY <1>2, <1>3, <1>4 DEF LeaseInv

LEMMA ReleaseStep ==
  ASSUME LeaseInv, NEW w \in Workload, Release(w)
  PROVE  LeaseInv'
<1> DEFINE c == conn[w]
<1>1. /\ status[w] = "holding"
      /\ c # NoConn
      /\ running[ClaimOf[w]] = w
      /\ phase' = [phase EXCEPT ![c] = "checkpointing"]
      /\ status' = [status EXCEPT ![w] = "parking"]
      /\ UNCHANGED <<workloads, waiting, running, released, owner, conn, mem>>
  BY DEF Release, daemonVars
<1>2. c \in Conn /\ owner[c] = w /\ \A d \in Conn : owner[d] = w => d = c
  BY <1>1, LiveWorker
<1>3. phase[c] = "idle"
  BY <1>1 DEF LeaseInv, SessionPhase
<1>4. \A v \in Workload : v # w => conn[v] # c
  BY <1>1, <1>2 DEF LeaseInv, OneSession
<1> HIDE DEF c
<1>5. TypeOK'
  BY <1>1, <1>2 DEF LeaseInv, TypeOK, Phase, Status
<1>6. OneSession'
  BY <1>1, <1>2, <1>3 DEF LeaseInv, TypeOK, OneSession
<1>7. SessionPhase'
  BY <1>1, <1>2, <1>4 DEF LeaseInv, TypeOK, SessionPhase, c
<1>8. SessionRecord'
  <2>1. \A d \in Conn : owner[d] # NoWorkload => owner[d] \in Workload
    BY DEF LeaseInv, TypeOK
  <2> QED BY <1>1, <1>2, <2>1 DEF LeaseInv, TypeOK, SessionRecord
<1>9. TurnHasGrant'
  BY <1>1, <1>2 DEF LeaseInv, TypeOK, TurnHasGrant, HolderHasGrant, LetGo
<1>10. GrantHasSession'
  BY <1>1, <1>2 DEF LeaseInv, TypeOK, GrantHasSession
<1>11. SessionHealthy' /\ MemoryHasTurn'
  BY <1>1 DEF LeaseInv, TypeOK, SessionHealthy, MemoryHasTurn
<1> QED BY <1>5, <1>6, <1>7, <1>8, <1>9, <1>10, <1>11 DEF LeaseInv

LEMMA LeaveStep ==
  ASSUME LeaseInv, NEW w \in Workload, Leave(w)
  PROVE  LeaseInv'
<1>1. /\ status[w] \in {"ready", "holding", "faulted"}
      /\ conn[w] # NoConn
      /\ ClearWorkload(w)
      /\ workloads' = [workloads EXCEPT ![w] = NoState]
      /\ conn' = [conn EXCEPT ![w] = NoConn]
      /\ status' = [status EXCEPT ![w] = "exiting"]
      /\ UNCHANGED <<released, phase, owner, mem>>
  BY DEF Leave, connVars
<1>2. /\ waiting' \in Seq(Workload)
      /\ running' \in [Claim -> Workload \cup {NoWorkload}]
      /\ \A k \in Claim : running'[k] = IF running[k] = w THEN NoWorkload ELSE running[k]
  BY <1>1, ClearWorkloadType DEF LeaseInv
<1>3. \A d \in Conn : owner[d] = w => phase[d] = "idle"
  BY <1>1, LiveWorker DEF LeaseInv, SessionPhase
<1>4. w # NoWorkload
  BY SlicerAssumption
<1>5. TypeOK'
  <2>1. NoState \in WorkloadState
    BY DEF NoState, WorkloadState
  <2> QED BY <1>1, <1>2, <2>1 DEF LeaseInv, TypeOK, Status
<1>6. OneSession'
  BY <1>1, SlicerAssumption DEF LeaseInv, TypeOK, OneSession
<1>7. SessionPhase'
  BY <1>1 DEF LeaseInv, TypeOK, SessionPhase
<1>8. SessionRecord'
  <2>1. NoState.conn = NoConn
    BY DEF NoState
  <2>2. \A v \in Workload : ClaimOf[v] \in Claim
    BY SlicerAssumption
  <2>3. \A d \in Conn : owner[d] # NoWorkload => owner[d] \in Workload
    BY DEF LeaseInv, TypeOK
  <2> QED BY <1>1, <1>2, <1>3, <1>4, <2>1, <2>2, <2>3 DEF LeaseInv, TypeOK, SessionRecord
<1>9. TurnHasGrant'
  <2>1. \A v \in Workload : ClaimOf[v] \in Claim
    BY SlicerAssumption
  <2>2. \A d \in Conn : phase[d] \in {"restoring", "checkpointing"} =>
          owner[d] \in Workload /\ owner[d] # w
    BY <1>3, BusyHandler
  <2>3. \A v \in Workload : v # w => /\ workloads'[v] = workloads[v]
                                   /\ conn'[v] = conn[v]
                                   /\ status'[v] = status[v]
    BY <1>1 DEF LeaseInv, TypeOK
  <2>4. status'[w] = "exiting"
    BY <1>1 DEF LeaseInv, TypeOK
  <2> QED BY <1>1, <1>2, <2>1, <2>2, <2>3, <2>4
      DEF LeaseInv, TurnHasGrant, HolderHasGrant, LetGo
<1>10. GrantHasSession'
  BY <1>1, <1>2 DEF LeaseInv, TypeOK, GrantHasSession
<1>11. SessionHealthy' /\ MemoryHasTurn'
  BY <1>1 DEF LeaseInv, TypeOK, SessionHealthy, MemoryHasTurn
<1> QED BY <1>5, <1>6, <1>7, <1>8, <1>9, <1>10, <1>11 DEF LeaseInv

\* A faulted process whose ACQUIRE is refused closes its connection.
LEMMA RefusedStep ==
  ASSUME LeaseInv, NEW w \in Workload, AcquireRefused(w), ~IsWaiting(w)
  PROVE  LeaseInv'
<1>1. /\ status[w] = "faulted"
      /\ conn' = [conn EXCEPT ![w] = NoConn]
      /\ UNCHANGED <<workloads, waiting, running, released, phase, owner, status, mem>>
  <2>1. status[w] \in {"ready", "faulted"} /\ Refused(w)
    BY DEF AcquireRefused, CanAsk
  <2>2. ClaimOf[w] \in Claim /\ w # NoWorkload
    BY SlicerAssumption
  <2>3. status[w] # "ready"
    BY <2>1, <2>2 DEF Refused, LeaseInv, SessionHealthy, GrantHasSession
  <2> QED BY <2>1, <2>3 DEF AcquireRefused, daemonVars, connVars
<1>2. TypeOK'
  BY <1>1 DEF LeaseInv, TypeOK
<1>3. OneSession'
  BY <1>1 DEF LeaseInv, TypeOK, OneSession
<1>4. SessionPhase' /\ SessionRecord'
  BY <1>1 DEF LeaseInv, TypeOK, SessionPhase, SessionRecord
<1>5. TurnHasGrant'
  BY <1>1 DEF LeaseInv, TypeOK, TurnHasGrant, HolderHasGrant, LetGo
<1>6. GrantHasSession' /\ SessionHealthy' /\ MemoryHasTurn'
  BY <1>1 DEF LeaseInv, GrantHasSession, SessionHealthy, MemoryHasTurn
<1> QED BY <1>2, <1>3, <1>4, <1>5, <1>6 DEF LeaseInv

\* It connects again when the daemon has noticed that: its record is bound to
\* no connection then, and the new one is not bound to it.
LEMMA ReconnectStep ==
  ASSUME LeaseInv, NEW w \in Workload, NEW c \in Conn, Reconnect(w, c)
  PROVE  LeaseInv'
<1>1. /\ status[w] = "faulted"
      /\ conn[w] = NoConn
      /\ phase[c] = "closed"
      /\ \A d \in Conn : owner[d] = w => phase[d] # "idle"
      /\ phase' = [phase EXCEPT ![c] = "idle"]
      /\ owner' = [owner EXCEPT ![c] = w]
      /\ conn' = [conn EXCEPT ![w] = c]
      /\ UNCHANGED <<workloads, waiting, running, released, status, mem>>
  BY DEF Reconnect, Connect, daemonVars, LeaseInv, OneSession
<1>2. \A d \in Conn : owner[d] # w
  BY <1>1 DEF LeaseInv, SessionPhase
<1>3. owner[c] = NoWorkload /\ \A v \in Workload : conn[v] # c
  BY <1>1, SlicerAssumption DEF LeaseInv, TypeOK, OneSession
<1>4. workloads[w].conn = NoConn
  BY <1>2 DEF LeaseInv, TypeOK, WorkloadState, SessionRecord
<1>5. \A k \in Claim : running[k] # w
  BY <1>2, SlicerAssumption DEF LeaseInv, GrantHasSession
<1>6. ClaimOf[w] \in Claim /\ w # NoWorkload /\ c # NoConn
  BY SlicerAssumption
<1>7. TypeOK'
  BY <1>1 DEF LeaseInv, TypeOK, Phase
<1>8. OneSession'
  BY <1>1, <1>2, <1>3, <1>6 DEF LeaseInv, TypeOK, OneSession
<1>9. SessionPhase'
  BY <1>1, <1>2, <1>3 DEF LeaseInv, TypeOK, OneSession, SessionPhase
<1>10. SessionRecord'
  <2>1. \A v \in Workload : workloads[v].conn # c
    BY <1>3, <1>6, SlicerAssumption DEF LeaseInv, SessionRecord
  <2> QED BY <1>1, <1>4, <1>5, <1>6, <2>1 DEF LeaseInv, TypeOK, SessionRecord
<1>11. TurnHasGrant'
  BY <1>1, <1>3, <1>4, <1>6 DEF LeaseInv, TypeOK, TurnHasGrant, HolderHasGrant, LetGo
<1>12. GrantHasSession'
  BY <1>1, <1>3 DEF LeaseInv, TypeOK, GrantHasSession
<1>13. SessionHealthy' /\ MemoryHasTurn'
  BY <1>1 DEF LeaseInv, SessionHealthy, MemoryHasTurn
<1> QED BY <1>7, <1>8, <1>9, <1>10, <1>11, <1>12, <1>13 DEF LeaseInv

\* A process that ends, in whatever way, with or without its memory.
LEMMA EndStep ==
  ASSUME LeaseInv, NEW w \in Workload, Quit(w) \/ Exit(w) \/ Crash(w)
  PROVE  LeaseInv'
<1>1. /\ conn' = [conn EXCEPT ![w] = NoConn]
      /\ \/ status' = [status EXCEPT ![w] = "exiting"] /\ mem' = mem
         \/ status' = [status EXCEPT ![w] = "down"] /\ mem' = [mem EXCEPT ![w] = "none"]
      /\ UNCHANGED <<workloads, waiting, running, released, phase, owner>>
  BY DEF Quit, Exit, Crash, Gone, daemonVars, connVars
<1>2. TypeOK'
  BY <1>1 DEF LeaseInv, TypeOK, Status, Memory
<1>3. OneSession'
  BY <1>1, SlicerAssumption DEF LeaseInv, TypeOK, OneSession
<1>4. SessionPhase'
  BY <1>1 DEF LeaseInv, TypeOK, SessionPhase
<1>5. SessionRecord'
  <2>1. \A d \in Conn : owner[d] # NoWorkload => owner[d] \in Workload
    BY DEF LeaseInv, TypeOK
  <2> QED BY <1>1, <2>1 DEF LeaseInv, TypeOK, SessionRecord
<1>6. TurnHasGrant'
  BY <1>1 DEF LeaseInv, TypeOK, TurnHasGrant, HolderHasGrant, LetGo
<1>7. GrantHasSession'
  BY <1>1 DEF LeaseInv, TypeOK, GrantHasSession
<1>8. SessionHealthy' /\ MemoryHasTurn'
  BY <1>1 DEF LeaseInv, TypeOK, SessionHealthy, MemoryHasTurn
<1> QED BY <1>2, <1>3, <1>4, <1>5, <1>6, <1>7, <1>8 DEF LeaseInv

LEMMA StutterLease == ASSUME LeaseInv, UNCHANGED vars PROVE LeaseInv'
BY DEF vars, daemonVars, connVars, clientVars, LeaseInv, TypeOK, OneSession, SessionPhase,
       SessionRecord, TurnHasGrant, HolderHasGrant, LetGo, GrantHasSession, SessionHealthy, MemoryHasTurn

-----------------------------------------------------------------------------
(* The queue *)

\* The daemon's deque and its handlers agree.
QueueInv == LeaseInv /\ QueueMatchesHandlers

LEMMA QueueInvElements ==
  ASSUME QueueInv
  PROVE  /\ waiting \in Seq(Workload)
         /\ Injective(waiting)
         /\ \A w \in Workload : w \in Range(waiting) <=>
              \E c \in Conn : owner[c] = w /\ phase[c] = "waiting"
         /\ Range(waiting) \subseteq Workload
         /\ \A w \in Range(waiting) : running[ClaimOf[w]] # w
<1>1. \A c \in Conn : phase[c] = "waiting" => owner[c] \in Workload
  BY DEF QueueInv, LeaseInv, TypeOK, OneSession
<1> QED BY <1>1 DEF QueueInv, LeaseInv, TypeOK, QueueMatchesHandlers, Injective

\* What a step has to show to keep the queue and the handlers in agreement.
LEMMA QueueGoal ==
  ASSUME Injective(waiting'),
         Range(waiting') \subseteq Workload,
         \A c \in Conn : phase'[c] = "waiting" => owner'[c] \in Range(waiting'),
         \A w \in Range(waiting') : \E c \in Conn : owner'[c] = w /\ phase'[c] = "waiting",
         \A w \in Range(waiting') : running'[ClaimOf[w]] # w
  PROVE  QueueMatchesHandlers'
BY DEF QueueMatchesHandlers, Injective

\* A worker whose handler does not wait loses no place.
LEMMA ClearKeepsQueue ==
  ASSUME QueueInv, NEW w \in Workload, ClearWorkload(w), w \notin Range(waiting)
  PROVE  /\ Injective(waiting')
         /\ Range(waiting') = Range(waiting)
         /\ \A v \in Range(waiting) : running'[ClaimOf[v]] # v
<1>1. Injective(waiting') /\ Range(waiting') = Range(waiting)
  BY QueueInvElements, RemoveFirstInjective DEF ClearWorkload
<1>2. \A k \in Claim : running'[k] \in {running[k], NoWorkload}
  BY DEF ClearWorkload
<1> QED BY <1>1, <1>2, QueueInvElements, SlicerAssumption

LEMMA QueueGrant ==
  ASSUME QueueInv, NEW c \in Conn, Grant(c)
  PROVE  QueueMatchesHandlers'
<1> DEFINE w == owner[c]
<1>1. /\ phase[c] = "waiting"
      /\ waiting' = RemoveFirst(waiting, w)
      /\ running' = [running EXCEPT ![ClaimOf[w]] = w]
      /\ owner' = owner
      /\ phase' \in {[phase EXCEPT ![c] = "restoring"], [phase EXCEPT ![c] = "idle"]}
  BY DEF Grant, Take, Answer
<1>2. w \in Workload /\ ClaimOf[w] \in Claim /\ \A d \in Conn : owner[d] = w => d = c
  BY <1>1, BusyHandler DEF QueueInv
<1>3. \A d \in Conn : phase'[d] = "waiting" <=> d # c /\ phase[d] = "waiting"
  BY <1>1 DEF QueueInv, LeaseInv, TypeOK
<1>4. Injective(waiting') /\ Range(waiting') = Range(waiting) \ {w}
  BY <1>1, QueueInvElements, RemoveFirstInjective
<1>5. \A v \in Workload : v # w /\ running[ClaimOf[v]] # v => running'[ClaimOf[v]] # v
  BY <1>1, <1>2, SlicerAssumption DEF QueueInv, LeaseInv, TypeOK
<1>6. \A d \in Conn : phase[d] = "waiting" => owner[d] \in Workload
  BY BusyHandler DEF QueueInv
<1> HIDE DEF w
<1>7. /\ \A d \in Conn : phase'[d] = "waiting" => owner'[d] \in Range(waiting')
      /\ \A v \in Range(waiting') : \E d \in Conn : owner'[d] = v /\ phase'[d] = "waiting"
      /\ \A v \in Range(waiting') : running'[ClaimOf[v]] # v
  BY <1>1, <1>2, <1>3, <1>4, <1>5, <1>6, QueueInvElements DEF w
<1> QED BY <1>4, <1>7, QueueInvElements, QueueGoal

LEMMA QueueAcquire ==
  ASSUME QueueInv, NEW w \in Workload, Acquire(w)
  PROVE  QueueMatchesHandlers'
<1>1. /\ conn[w] # NoConn
      /\ w \notin Range(waiting)
      /\ running[ClaimOf[w]] # w
      /\ waiting' = Append(waiting, w)
      /\ phase' = [phase EXCEPT ![conn[w]] = "waiting"]
      /\ UNCHANGED <<running, owner>>
  BY DEF Acquire, CanAsk, Refused, IsWaiting
<1>2. conn[w] \in Conn /\ owner[conn[w]] = w
  BY <1>1, LiveWorker DEF QueueInv
<1>3. Injective(waiting') /\ Range(waiting') = Range(waiting) \cup {w}
  BY <1>1, QueueInvElements, AppendKeepsInjective
<1>4. \A d \in Conn : phase'[d] = "waiting" <=> d = conn[w] \/ phase[d] = "waiting"
  BY <1>1, <1>2 DEF QueueInv, LeaseInv, TypeOK
<1>5. \A d \in Conn : phase[d] = "waiting" => owner[d] \in Workload
  BY BusyHandler DEF QueueInv
<1>6. /\ \A d \in Conn : phase'[d] = "waiting" => owner'[d] \in Range(waiting')
      /\ \A v \in Range(waiting') : \E d \in Conn : owner'[d] = v /\ phase'[d] = "waiting"
      /\ \A v \in Range(waiting') : running'[ClaimOf[v]] # v
  BY <1>1, <1>2, <1>3, <1>4, <1>5, QueueInvElements
<1> QED BY <1>3, <1>6, QueueInvElements, QueueGoal

\* The steps that leave the set of waiting handlers and the deque's elements
\* as they are.
LEMMA QueueKept ==
  ASSUME QueueInv,
         Injective(waiting'),
         Range(waiting') = Range(waiting),
         \A d \in Conn : phase'[d] = "waiting" <=> phase[d] = "waiting",
         \A d \in Conn : phase[d] = "waiting" => owner'[d] = owner[d],
         \A v \in Range(waiting) : running'[ClaimOf[v]] # v
  PROVE  QueueMatchesHandlers'
<1>1. \A d \in Conn : phase[d] = "waiting" => owner[d] \in Workload
  BY BusyHandler DEF QueueInv
<1> QED BY <1>1, QueueInvElements, QueueGoal

LEMMA QueueServe ==
  ASSUME QueueInv, NEW c \in Conn, Serve(c)
  PROVE  QueueMatchesHandlers'
<1> DEFINE w == owner[c]
<1>1. CASE Grant(c)
  BY <1>1, QueueGrant
<1>2. CASE RestoreOk(c) \/ RestoreFailed(c) \/ CheckpointFailed(c)
  <2>1. /\ phase[c] \in {"restoring", "checkpointing"}
        /\ phase' = [phase EXCEPT ![c] = "idle"]
        /\ UNCHANGED <<waiting, running, owner>>
    BY <1>2 DEF RestoreOk, RestoreFailed, RestoreDone, CheckpointFailed, Answer
  <2>2. \A d \in Conn : phase'[d] = "waiting" <=> phase[d] = "waiting"
    BY <2>1 DEF QueueInv, LeaseInv, TypeOK
  <2> QED BY <2>1, <2>2, QueueInvElements, QueueKept
<1>3. CASE CheckpointParked(c) \/ CheckpointSkipped(c)
  <2>1. /\ phase[c] = "checkpointing"
        /\ ClearWorkload(w)
        /\ phase' = [phase EXCEPT ![c] = "idle"]
        /\ UNCHANGED owner
    BY <1>3 DEF CheckpointParked, CheckpointSkipped, Released, Answer
  <2>2. \A d \in Conn : phase'[d] = "waiting" <=> phase[d] = "waiting"
    BY <2>1 DEF QueueInv, LeaseInv, TypeOK
  <2>3. w \in Workload /\ \A d \in Conn : owner[d] = w => d = c
    BY <2>1, BusyHandler DEF QueueInv
  <2>4. w \notin Range(waiting)
    BY <2>1, <2>3, QueueInvElements
  <2> HIDE DEF w
  <2> QED BY <2>1, <2>2, <2>3, <2>4, ClearKeepsQueue, QueueKept
<1>4. CASE ConnectionClosed(c)
  <2>1. /\ phase[c] = "idle"
        /\ ClearWorkload(w) \/ UNCHANGED <<waiting, running>>
        /\ phase' = [phase EXCEPT ![c] = "closed"]
        /\ owner' = [owner EXCEPT ![c] = NoWorkload]
    BY <1>4 DEF ConnectionClosed
  <2>2. /\ \A d \in Conn : phase'[d] = "waiting" <=> phase[d] = "waiting"
        /\ \A d \in Conn : phase[d] = "waiting" => owner'[d] = owner[d]
    BY <2>1 DEF QueueInv, LeaseInv, TypeOK
  <2>3. w \in Workload /\ \A d \in Conn : owner[d] = w => d = c
    BY <2>1, BusyHandler DEF QueueInv
  <2>4. w \notin Range(waiting)
    BY <2>1, <2>3, QueueInvElements
  <2> HIDE DEF w
  <2>5. CASE ClearWorkload(w)
    BY <2>2, <2>3, <2>4, <2>5, ClearKeepsQueue, QueueKept
  <2>6. CASE UNCHANGED <<waiting, running>>
    BY <2>2, <2>6, QueueInvElements, QueueKept
  <2> QED BY <2>1, <2>5, <2>6
<1> QED BY <1>1, <1>2, <1>3, <1>4 DEF Serve

LEMMA QueueWork ==
  ASSUME QueueInv, NEW w \in Workload, Work(w)
  PROVE  QueueMatchesHandlers'
<1>1. CASE Acquire(w)
  BY <1>1, QueueAcquire
<1>2. CASE Release(w)
  <2>1. /\ status[w] = "holding"
        /\ conn[w] # NoConn
        /\ phase' = [phase EXCEPT ![conn[w]] = "checkpointing"]
        /\ UNCHANGED <<waiting, running, owner>>
    BY <1>2 DEF Release, daemonVars
  <2>2. conn[w] \in Conn /\ phase[conn[w]] = "idle"
    BY <2>1, LiveWorker DEF QueueInv, LeaseInv, SessionPhase
  <2>3. \A d \in Conn : phase'[d] = "waiting" <=> phase[d] = "waiting"
    BY <2>1, <2>2 DEF QueueInv, LeaseInv, TypeOK
  <2> QED BY <2>1, <2>3, QueueInvElements, QueueKept
<1>3. CASE Leave(w)
  <2>1. /\ status[w] \in {"ready", "holding", "faulted"}
        /\ conn[w] # NoConn
        /\ ClearWorkload(w)
        /\ UNCHANGED <<phase, owner>>
    BY <1>3 DEF Leave, connVars
  <2>2. \A d \in Conn : owner[d] = w => phase[d] = "idle"
    BY <2>1, LiveWorker DEF QueueInv, LeaseInv, SessionPhase
  <2>3. w \notin Range(waiting)
    BY <2>2, QueueInvElements
  <2> QED BY <2>1, <2>3, ClearKeepsQueue, QueueKept
<1>4. CASE AcquireRefused(w) \/ Load(w) \/ Quit(w) \/ Exit(w) \/ Crash(w)
  <2>1. UNCHANGED <<waiting, running, phase, owner>>
    BY <1>4 DEF AcquireRefused, Load, Quit, Exit, Crash, Gone, daemonVars, connVars
  <2> QED BY <2>1, QueueInvElements, QueueKept
<1> QED BY <1>1, <1>2, <1>3, <1>4 DEF Work

LEMMA InitQueue == Init => QueueInv
<1>1. Init => QueueMatchesHandlers
  BY DEF Init, QueueMatchesHandlers, Range
<1> QED BY <1>1, InitLease DEF QueueInv

LEMMA QueueStep == QueueInv /\ [Next]_vars => QueueInv'
<1> SUFFICES ASSUME QueueInv, [Next]_vars PROVE LeaseInv' /\ QueueMatchesHandlers'
  BY DEF QueueInv
<1>0. LeaseInv
  BY DEF QueueInv
<1>1. ASSUME NEW c \in Conn, Serve(c) PROVE LeaseInv' /\ QueueMatchesHandlers'
  <2>1. LeaseInv'
    BY <1>0, <1>1, GrantStep, RestoreStep, ReleasedStep, CheckpointFailedStep, ConnectionClosedStep
    DEF Serve
  <2> QED BY <1>1, <2>1, QueueServe
<1>2. ASSUME NEW w \in Workload, Work(w) PROVE LeaseInv' /\ QueueMatchesHandlers'
  <2>1. ASSUME AcquireRefused(w) PROVE ~IsWaiting(w)
    <3>1. status[w] \in {"ready", "faulted"} /\ conn[w] # NoConn
      BY <2>1 DEF AcquireRefused, CanAsk
    <3>2. \A d \in Conn : owner[d] = w => phase[d] = "idle"
      BY <3>1, LiveWorker DEF QueueInv, LeaseInv, SessionPhase
    <3> QED BY <3>2, QueueInvElements DEF IsWaiting
  <2>2. LeaseInv'
    BY <1>0, <1>2, <2>1, AcquireStep, RefusedStep, LoadStep, ReleaseStep, LeaveStep, EndStep
    DEF Work
  <2> QED BY <1>2, <2>2, QueueWork
<1>3. ASSUME NEW w \in Workload, NEW c \in Conn, StartAlone(w, c) \/ Reconnect(w, c)
      PROVE  LeaseInv' /\ QueueMatchesHandlers'
  <2>1. LeaseInv'
    BY <1>0, <1>3, StartStep, ReconnectStep
  <2>2. /\ phase[c] = "closed"
        /\ phase' = [phase EXCEPT ![c] = "idle"]
        /\ owner' = [owner EXCEPT ![c] = w]
        /\ UNCHANGED <<waiting, running>>
    BY <1>3 DEF StartAlone, Start, Reconnect, Connect, daemonVars
  <2>3. /\ \A d \in Conn : phase'[d] = "waiting" <=> phase[d] = "waiting"
        /\ \A d \in Conn : phase[d] = "waiting" => owner'[d] = owner[d]
    BY <2>2 DEF QueueInv, LeaseInv, TypeOK
  <2> QED BY <2>1, <2>2, <2>3, QueueInvElements, QueueKept
<1>4. CASE UNCHANGED vars
  <2>1. UNCHANGED <<waiting, running, phase, owner>>
    BY <1>4 DEF vars, daemonVars, connVars
  <2> QED BY <1>0, <1>4, <2>1, StutterLease, QueueInvElements, QueueKept
<1> QED BY <1>1, <1>2, <1>3, <1>4 DEF Next

-----------------------------------------------------------------------------
(* What every behaviour of the time slicer satisfies *)

\* The sessions, the grants, the queue and the memory of the workers stay
\* consistent: the inductive invariant behind the theorems below.
THEOREM LeaseInvariant == Spec => []QueueInv
BY InitQueue, QueueStep, PTL DEF Spec

\* The daemon's and the workers' state is well formed.
THEOREM TypeCorrect == Spec => []TypeOK
<1>1. QueueInv => TypeOK
  BY DEF QueueInv, LeaseInv
<1> QED BY <1>1, LeaseInvariant, PTL

\* A process in its turn has the grant at the daemon, and one that could not be
\* parked as long as it keeps the connection it registered through.
THEOREM HoldersHaveGrants == Spec => []HolderHasGrant
<1>1. QueueInv => HolderHasGrant
  BY DEF QueueInv, LeaseInv, TurnHasGrant
<1> QED BY <1>1, LeaseInvariant, PTL

\* Two processes never have memory on the same devices, apart from one that is
\* exiting, or was faulted and closed its connection over a refused ACQUIRE.
THEOREM DevicesAreExclusive == Spec => []DeviceExclusive
<1>1. QueueInv => DeviceExclusive
  BY DEF QueueInv, LeaseInv, TurnHasGrant, HolderHasGrant, MemoryHasTurn, DeviceExclusive, Leaving
<1> QED BY <1>1, LeaseInvariant, PTL

\* No grant is leaked: whoever has one will give it back or lose it.
THEOREM SeatsAreOccupied == Spec => []SeatHasOccupant
<1>1. QueueInv => SeatHasOccupant
  <2> SUFFICES ASSUME LeaseInv, NEW k \in Claim, running[k] # NoWorkload
               PROVE  Occupies(running[k])
    BY DEF QueueInv, SeatHasOccupant
  <2> DEFINE w == running[k]
  <2>1. w \in Workload /\ ClaimOf[w] = k /\ status[w] # "ready"
    BY DEF LeaseInv, TypeOK, GrantHasSession
  <2>2. PICK c \in Conn : owner[c] = w /\ phase[c] # "waiting"
    BY DEF LeaseInv, GrantHasSession
  <2>3. phase[c] \in {"idle", "restoring", "checkpointing"}
    BY <2>1, <2>2, SlicerAssumption DEF LeaseInv, TypeOK, OneSession, Phase
  <2>4. CASE phase[c] \in {"restoring", "checkpointing"}
    BY <2>2, <2>4 DEF Occupies
  <2>5. CASE phase[c] = "idle" /\ Live(c)
    <3>1. conn[w] = c /\ c # NoConn
      BY <2>2, <2>5, SlicerAssumption DEF Live
    <3>2. status[w] \notin {"down", "exiting"}
      BY <2>1, <3>1 DEF LeaseInv, OneSession
    <3>3. status[w] \notin {"asking", "parking"}
      BY <2>1, <2>5, <3>1 DEF LeaseInv, SessionPhase
    <3>4. workloads[w].conn = c
      BY <2>1, <2>2, SlicerAssumption DEF LeaseInv, SessionRecord
    <3>5. ~LetGo(w)
      BY <3>1, <3>4 DEF LetGo
    <3>6. status[w] \in {"holding", "faulted"}
      BY <2>1, <3>2, <3>3 DEF LeaseInv, TypeOK, Status
    <3> QED BY <3>5, <3>6 DEF Occupies
  <2>6. CASE phase[c] = "idle" /\ ~Live(c)
    <3>1. w # NoWorkload
      OBVIOUS
    <3>2. workloads[w].conn = c
      BY <2>1, <2>2, <3>1 DEF LeaseInv, SessionRecord
    <3> QED BY <2>2, <2>6, <3>2 DEF Occupies
  <2> QED BY <2>3, <2>4, <2>5, <2>6
<1> QED BY <1>1, LeaseInvariant, PTL

\* The deque holds exactly the names whose handlers wait, each once, and none
\* of them has the grant it waits for.
THEOREM QueuesMatchHandlers == Spec => []QueueMatchesHandlers
<1>1. QueueInv => QueueMatchesHandlers
  BY DEF QueueInv
<1> QED BY <1>1, LeaseInvariant, PTL

\* An ACQUIRE is refused if and only if its process was faulted, and no other
\* client meets an error answer.
THEOREM OnlyFaultedAreRefused == Spec => []OnlyFaultedRefused
<1>1. QueueInv => OnlyFaultedRefused
  <2> SUFFICES ASSUME QueueInv PROVE OnlyFaultedRefused
    OBVIOUS
  <2>1. ASSUME NEW w \in Workload, CanAsk(w) PROVE Refused(w) <=> status[w] = "faulted"
    <3>1. status[w] \in {"ready", "faulted"} /\ conn[w] # NoConn
      BY <2>1 DEF CanAsk
    <3>2. \A d \in Conn : owner[d] = w => phase[d] = "idle"
      BY <3>1, LiveWorker DEF QueueInv, LeaseInv, SessionPhase
    <3>3. w \notin Range(waiting)
      BY <3>2, QueueInvElements
    <3>4. status[w] = "ready" => running[ClaimOf[w]] # w
      BY SlicerAssumption DEF QueueInv, LeaseInv, GrantHasSession
    <3>5. workloads[w].failed <=> status[w] = "faulted"
      BY <3>1 DEF QueueInv, LeaseInv, SessionHealthy
    <3> QED BY <3>1, <3>3, <3>4, <3>5 DEF Refused, IsWaiting
  <2>2. \A w \in Workload : status[w] = "holding" => conn[w] # NoConn /\ running[ClaimOf[w]] = w
    BY DEF QueueInv, LeaseInv, OneSession, TurnHasGrant, HolderHasGrant
  <2>3. \A c \in Conn : phase[c] = "waiting" => IsWaiting(owner[c])
    BY BusyHandler, QueueInvElements DEF QueueInv, IsWaiting
  <2> QED BY <2>1, <2>2, <2>3 DEF OnlyFaultedRefused
<1> QED BY <1>1, LeaseInvariant, PTL

-----------------------------------------------------------------------------
(* The time slicer implements the lease its workers rely on *)

Device == {w \in Workload : mem[w] = "device"}
Departing == {w \in Workload : Leaving(w)}

\* A step that moves neither grants nor memory nor who is leaving.
LEMMA LeaseStutter ==
  ASSUME UNCHANGED running, Device' = Device, Departing' = Departing
  PROVE  [Lease!Next]_(Lease!vars)
BY DEF Lease!vars, Device, Departing

\* A free claim's grant goes to a worker.
LEMMA LeaseGrant ==
  ASSUME NEW w \in Workload, running[ClaimOf[w]] = NoWorkload,
         running' = [running EXCEPT ![ClaimOf[w]] = w],
         Device' = Device, Departing' = Departing
  PROVE  Lease!Next
<1>1. Lease!Grant(w)
  BY DEF Lease!Grant, Device, Departing
<1> QED BY <1>1 DEF Lease!Next

\* The holder's memory goes on its devices, or comes off them with the grant.
LEMMA LeaseLoad ==
  ASSUME NEW w \in Workload, running[ClaimOf[w]] = w, w \notin Departing,
         UNCHANGED running, Device' = Device \cup {w}, Departing' = Departing
  PROVE  Lease!Next
<1>1. Lease!Load(w)
  BY DEF Lease!Load, Device, Departing
<1> QED BY <1>1 DEF Lease!Next

LEMMA LeaseGiveBack ==
  ASSUME NEW w \in Workload, running[ClaimOf[w]] = w, w \notin Departing,
         running' = [running EXCEPT ![ClaimOf[w]] = NoWorkload],
         Device' = Device \ {w}, Departing' = Departing
  PROVE  Lease!Next
<1>1. Lease!GiveBack(w)
  BY DEF Lease!GiveBack, Device, Departing
<1> QED BY <1>1 DEF Lease!Next

LEMMA LeaseAbandon ==
  ASSUME NEW w \in Workload, running[ClaimOf[w]] = w,
         running' = [running EXCEPT ![ClaimOf[w]] = NoWorkload],
         Device' = Device, Departing' = Departing \cup {w}
  PROVE  Lease!Next
<1>1. Lease!Abandon(w)
  BY DEF Lease!Abandon, Device, Departing
<1> QED BY <1>1 DEF Lease!Next

LEMMA LeaseLeave ==
  ASSUME NEW w \in Workload, UNCHANGED running,
         Device' = Device, Departing' = Departing \cup {w}
  PROVE  Lease!Next
<1>1. Lease!Leave(w)
  BY DEF Lease!Leave, Device, Departing
<1> QED BY <1>1 DEF Lease!Next

\* Who is leaving depends on the worker's status and its two connections.
LEMMA DepartingGoal ==
  ASSUME NEW w \in Workload,
         \A v \in Workload : v # w => /\ status'[v] = status[v]
                                     /\ conn'[v] = conn[v]
                                     /\ workloads'[v].conn = workloads[v].conn
  PROVE  /\ Leaving(w)' = Leaving(w) => Departing' = Departing
         /\ Leaving(w)' => Departing' = Departing \cup {w}
         /\ ~Leaving(w)' => Departing' = Departing \ {w}
<1>1. \A v \in Workload : v # w => Leaving(v)' = Leaving(v)
  BY DEF Leaving, LetGo
<1> HIDE DEF Leaving
<1> QED BY <1>1 DEF Departing

\* What a handler's step changes, and where its worker is.
LEMMA ServedWorker ==
  ASSUME LeaseInv, NEW c \in Conn, Serve(c)
  PROVE  /\ owner[c] \in Workload
         /\ ClaimOf[owner[c]] \in Claim
         /\ conn' = conn
         /\ \A v \in Workload : v # owner[c] =>
              status'[v] = status[v] /\ workloads'[v] = workloads[v]
         /\ ~Live(c) => status' = status /\ conn[owner[c]] = NoConn
         /\ Live(c) => /\ conn[owner[c]] = c
                       /\ c # NoConn
                       /\ status[owner[c]] \notin {"down", "exiting"}
         /\ phase[c] # "idle" => status[owner[c]] # "faulted"
<1>1. phase[c] # "closed"
  BY DEF Serve, Grant, RestoreOk, RestoreFailed, RestoreDone, CheckpointParked,
         CheckpointSkipped, Released, CheckpointFailed, ConnectionClosed
<1>2. conn' = conn
  BY DEF Serve, Grant, RestoreOk, RestoreFailed, RestoreDone, CheckpointParked,
         CheckpointSkipped, Released, CheckpointFailed, ConnectionClosed, clientVars
<1>3. ~Live(c) => status' = status
  BY DEF Serve, Grant, RestoreOk, RestoreFailed, RestoreDone, CheckpointParked,
         CheckpointSkipped, Released, CheckpointFailed, ConnectionClosed, clientVars, Answer
<1>4. \A v \in Workload : v # owner[c] => status'[v] = status[v]
  BY DEF Serve, Grant, RestoreOk, RestoreFailed, RestoreDone, CheckpointParked,
         CheckpointSkipped, Released, CheckpointFailed, ConnectionClosed, clientVars,
         Answer, LeaseInv, TypeOK
<1>5. \A v \in Workload : v # owner[c] => workloads'[v] = workloads[v]
  BY DEF Serve, Grant, RestoreOk, RestoreFailed, RestoreDone, CheckpointParked,
         CheckpointSkipped, Released, CheckpointFailed, ConnectionClosed, LeaseInv, TypeOK
<1> QED BY <1>1, <1>2, <1>3, <1>4, <1>5, BusyHandler, SlicerAssumption DEF LeaseInv

\* A worker that is neither exiting nor faulted is not leaving.
LEMMA NotLeaving ==
  ASSUME NEW w \in Workload, status[w] \notin {"exiting", "faulted"}
  PROVE  ~Leaving(w)
BY DEF Leaving, LetGo

LEMMA LeaseGrantStep ==
  ASSUME LeaseInv, NEW c \in Conn, NEW w \in Workload, owner[c] = w,
         Grant(c)
  PROVE  [Lease!Next]_(Lease!vars)
<1> DEFINE k == ClaimOf[w]
<1>1. Serve(c)
  BY DEF Serve
<1>2. /\ w \in Workload
      /\ k \in Claim
      /\ conn' = conn
      /\ \A v \in Workload : v # w => status'[v] = status[v] /\ workloads'[v] = workloads[v]
  BY <1>1, ServedWorker
<1>3. /\ phase[c] = "waiting"
      /\ running[k] = NoWorkload
      /\ running' = [running EXCEPT ![k] = w]
      /\ mem' = mem
      /\ workloads' = workloads
      /\ status' \in {status, [status EXCEPT ![w] = "holding"]}
      /\ ~Live(c) => status' = status
  BY DEF Grant, Take, Answer
<1>4. Leaving(w)' = Leaving(w)
  <2>1. CASE status' = status
    BY <1>2, <1>3, <2>1 DEF Leaving, LetGo
  <2>2. CASE status' # status
    <3>1. status[w] \notin {"down", "exiting", "faulted"}
      BY <1>1, <1>3, <2>2, ServedWorker
    <3>2. status'[w] = "holding"
      BY <1>2, <1>3, <2>2 DEF LeaseInv, TypeOK
    <3> QED BY <3>1, <3>2 DEF Leaving, LetGo
  <2> QED BY <2>1, <2>2
<1> HIDE DEF k
<1>5. Departing' = Departing
  BY <1>2, <1>4, DepartingGoal
<1>6. Device' = Device
  BY <1>3 DEF Device
<1> QED BY <1>2, <1>3, <1>5, <1>6, LeaseGrant DEF k

LEMMA LeaseRestoreStep ==
  ASSUME LeaseInv, NEW c \in Conn, NEW w \in Workload, owner[c] = w,
         RestoreOk(c) \/ RestoreFailed(c)
  PROVE  [Lease!Next]_(Lease!vars)
<1> DEFINE k == ClaimOf[w]
<1>1. Serve(c)
  BY DEF Serve
<1>2. /\ w \in Workload
      /\ k \in Claim
      /\ conn' = conn
      /\ \A v \in Workload : v # w => status'[v] = status[v] /\ workloads'[v] = workloads[v]
      /\ Live(c) => status[w] \notin {"down", "exiting"}
  BY <1>1, ServedWorker
<1>3. /\ phase[c] = "restoring"
      /\ running' = running
      /\ workloads' = [workloads EXCEPT ![w].checkpointed = FALSE]
      /\ status' = IF Live(c) THEN [status EXCEPT ![w] = "holding"] ELSE status
      /\ \/ mem' = mem
         \/ /\ Live(c)
            /\ mem' = [mem EXCEPT ![w] = "device"]
  BY DEF RestoreOk, RestoreFailed, RestoreDone, Answer
<1>4. running[k] = w /\ status[w] # "faulted"
  BY <1>1, <1>3, ServedWorker DEF LeaseInv, TurnHasGrant
<1>5. workloads'[w].conn = workloads[w].conn
  BY <1>2, <1>3 DEF LeaseInv, TypeOK, WorkloadState
<1>6. /\ Leaving(w)' = Leaving(w)
      /\ Live(c) => ~Leaving(w)
  <2>1. CASE Live(c)
    <3>1. status'[w] = "holding"
      BY <1>2, <1>3, <2>1 DEF LeaseInv, TypeOK
    <3> QED BY <1>2, <1>4, <2>1, <3>1 DEF Leaving, LetGo
  <2>2. CASE ~Live(c)
    BY <1>2, <1>3, <1>5, <2>2 DEF Leaving, LetGo
  <2> QED BY <2>1, <2>2
<1> HIDE DEF k
<1>7. Departing' = Departing
  BY <1>2, <1>6, DepartingGoal
<1>8. CASE mem' = mem
  <2>1. Device' = Device
    BY <1>8 DEF Device
  <2> QED BY <1>3, <1>7, <2>1, LeaseStutter
<1>9. CASE Live(c) /\ mem' = [mem EXCEPT ![w] = "device"]
  <2>1. Device' = Device \cup {w}
    BY <1>2, <1>9 DEF Device, LeaseInv, TypeOK
  <2>2. w \notin Departing
    BY <1>6, <1>9 DEF Departing
  <2> QED BY <1>2, <1>3, <1>4, <1>7, <2>1, <2>2, LeaseLoad DEF k
<1> QED BY <1>3, <1>8, <1>9

LEMMA LeaseReleasedStep ==
  ASSUME LeaseInv, NEW c \in Conn, NEW w \in Workload, owner[c] = w,
         CheckpointParked(c) \/ CheckpointSkipped(c)
  PROVE  [Lease!Next]_(Lease!vars)
<1> DEFINE k == ClaimOf[w]
<1>1. Serve(c)
  BY DEF Serve
<1>2. /\ w \in Workload
      /\ k \in Claim
      /\ conn' = conn
      /\ \A v \in Workload : v # w => status'[v] = status[v] /\ workloads'[v] = workloads[v]
      /\ Live(c) => status[w] \notin {"down", "exiting"}
      /\ ~Live(c) => conn[w] = NoConn
  BY <1>1, ServedWorker
<1>3. /\ phase[c] = "checkpointing"
      /\ ClearWorkload(w)
      /\ status' = IF Live(c) THEN [status EXCEPT ![w] = "ready"] ELSE status
      /\ \/ mem' = mem /\ (Live(c) => mem[w] # "device")
         \/ mem' = IF Live(c) THEN [mem EXCEPT ![w] = "parked"] ELSE mem
  BY DEF CheckpointParked, CheckpointSkipped, Released, Answer
<1>4. running[k] = w /\ status[w] # "faulted"
  BY <1>1, <1>3, ServedWorker DEF LeaseInv, TurnHasGrant
<1>5. running' = [running EXCEPT ![k] = NoWorkload]
  <2>1. \A j \in Claim : running[j] = w => j = k
    BY <1>2, SlicerAssumption DEF LeaseInv, GrantHasSession
  <2> QED BY <1>2, <1>3, <1>4, <2>1 DEF ClearWorkload, LeaseInv, TypeOK
<1>6. Leaving(w) <=> ~Live(c) /\ status[w] = "exiting"
  BY <1>2, <1>4 DEF Leaving, LetGo
<1>7. Leaving(w)' <=> Leaving(w)
  <2>1. CASE Live(c)
    <3>1. status'[w] = "ready"
      BY <1>2, <1>3, <2>1 DEF LeaseInv, TypeOK
    <3> QED BY <1>6, <2>1, <3>1 DEF Leaving, LetGo
  <2>2. CASE ~Live(c)
    <3>1. status'[w] = status[w]
      BY <1>3, <2>2
    <3> QED BY <1>4, <1>6, <2>2, <3>1 DEF Leaving, LetGo
  <2> QED BY <2>1, <2>2
<1> HIDE DEF k
<1>8. Leaving(w) => Departing' = Departing \cup {w}
  BY <1>2, <1>7, DepartingGoal
<1>9. ~Leaving(w) => Departing' = Departing /\ w \notin Departing
  <2>1. ~Leaving(w) => w \notin Departing
    BY DEF Departing
  <2>2. ~Leaving(w) => Departing' = Departing \ {w}
    BY <1>2, <1>7, DepartingGoal
  <2> QED BY <2>1, <2>2
<1>10. CASE Leaving(w)
  <2>1. Device' = Device
    BY <1>3, <1>6, <1>10 DEF Device
  <2> QED BY <1>2, <1>4, <1>5, <1>8, <1>10, <2>1, LeaseAbandon DEF k
<1>11. CASE ~Leaving(w)
  <2>1. mem[w] = "device" => Live(c)
    BY <1>1, <1>2, <1>4, <1>6, <1>11, ServedWorker
    DEF LeaseInv, MemoryHasTurn, OneSession
  <2>2. Device' = Device \ {w}
    BY <1>2, <1>3, <2>1 DEF Device, LeaseInv, TypeOK
  <2> QED BY <1>2, <1>4, <1>5, <1>9, <1>11, <2>2, LeaseGiveBack DEF k
<1> QED BY <1>10, <1>11

LEMMA LeaseFailedStep ==
  ASSUME LeaseInv, NEW c \in Conn, NEW w \in Workload, owner[c] = w,
         CheckpointFailed(c)
  PROVE  [Lease!Next]_(Lease!vars)
<1>1. Serve(c)
  BY DEF Serve
<1>2. /\ w \in Workload
      /\ conn' = conn
      /\ \A v \in Workload : v # w => status'[v] = status[v] /\ workloads'[v] = workloads[v]
      /\ Live(c) => conn[w] = c /\ c # NoConn /\ status[w] \notin {"down", "exiting"}
  BY <1>1, ServedWorker
<1>3. /\ phase[c] = "checkpointing"
      /\ running' = running
      /\ mem' = mem
      /\ workloads' = [workloads EXCEPT ![w].checkpointed = FALSE,
                                        ![w].failed = workloads[w].registered]
      /\ status' = IF Live(c) THEN [status EXCEPT ![w] = "faulted"] ELSE status
  BY DEF CheckpointFailed, Answer
<1>4. workloads[w].conn = c /\ status[w] # "faulted"
  BY <1>1, <1>2, <1>3, ServedWorker, SlicerAssumption DEF LeaseInv, SessionRecord
<1>5. workloads'[w].conn = c
  BY <1>2, <1>3, <1>4 DEF LeaseInv, TypeOK, WorkloadState
<1>6. Leaving(w)' = Leaving(w)
  <2>1. CASE Live(c)
    <3>1. status'[w] = "faulted"
      BY <1>2, <1>3, <2>1 DEF LeaseInv, TypeOK
    <3> QED BY <1>2, <1>4, <1>5, <2>1, <3>1 DEF Leaving, LetGo
  <2>2. CASE ~Live(c)
    BY <1>2, <1>3, <1>4, <1>5, <2>2 DEF Leaving, LetGo
  <2> QED BY <2>1, <2>2
<1>7. Departing' = Departing
  BY <1>2, <1>6, DepartingGoal
<1>8. Device' = Device
  BY <1>3 DEF Device
<1> QED BY <1>3, <1>7, <1>8, LeaseStutter

LEMMA LeaseClosedStep ==
  ASSUME LeaseInv, NEW c \in Conn, NEW w \in Workload, owner[c] = w,
         ConnectionClosed(c)
  PROVE  [Lease!Next]_(Lease!vars)
<1> DEFINE k == ClaimOf[w]
<1>1. Serve(c)
  BY DEF Serve
<1>2. /\ ~Live(c)
      /\ ClearWorkload(w) \/ running' = running
      /\ UNCHANGED <<status, mem>>
  BY DEF ConnectionClosed, clientVars
<1>3. /\ w \in Workload
      /\ k \in Claim
      /\ conn' = conn
      /\ conn[w] = NoConn
      /\ \A v \in Workload : v # w => status'[v] = status[v] /\ workloads'[v] = workloads[v]
  BY <1>1, <1>2, ServedWorker
<1>4. Leaving(w)' = Leaving(w)
  BY <1>2, <1>3 DEF Leaving, LetGo
<1>5. mem[w] = "device" => Leaving(w)
  <2>1. status[w] \in {"down", "exiting", "faulted"}
    BY <1>3 DEF LeaseInv, OneSession
  <2> QED BY <1>3, <2>1 DEF LeaseInv, MemoryHasTurn, Leaving, LetGo
<1>6. \A j \in Claim : running[j] = w => j = k
  BY <1>3, SlicerAssumption DEF LeaseInv, GrantHasSession
<1> HIDE DEF k
<1>7. Departing' = Departing
  BY <1>3, <1>4, DepartingGoal
<1>8. Device' = Device
  BY <1>2 DEF Device
<1>9. CASE running' = running
  BY <1>7, <1>8, <1>9, LeaseStutter
<1>10. CASE ClearWorkload(w) /\ running[k] # w
  <2>1. running' = running
    BY <1>3, <1>6, <1>10 DEF ClearWorkload, LeaseInv, TypeOK
  <2> QED BY <1>9, <2>1
<1>11. CASE ClearWorkload(w) /\ running[k] = w
  <2>1. running' = [running EXCEPT ![k] = NoWorkload]
    BY <1>3, <1>6, <1>11 DEF ClearWorkload, LeaseInv, TypeOK
  <2>2. CASE Leaving(w)
    <3>1. Departing' = Departing \cup {w}
      BY <1>3, <1>7, <2>2 DEF Departing
    <3> QED BY <1>3, <1>8, <1>11, <2>1, <3>1, LeaseAbandon DEF k
  <2>3. CASE ~Leaving(w)
    <3>1. w \notin Departing /\ Device' = Device \ {w}
      BY <1>5, <1>8, <2>3 DEF Device, Departing
    <3> QED BY <1>3, <1>7, <1>11, <2>1, <3>1, LeaseGiveBack DEF k
  <2> QED BY <2>2, <2>3
<1> QED BY <1>2, <1>9, <1>10, <1>11

LEMMA LeaseServe ==
  ASSUME LeaseInv, NEW c \in Conn, Serve(c)
  PROVE  [Lease!Next]_(Lease!vars)
<1>1. PICK w \in Workload : owner[c] = w
  BY ServedWorker
<1> QED
  BY <1>1, LeaseGrantStep, LeaseRestoreStep, LeaseReleasedStep, LeaseFailedStep, LeaseClosedStep
  DEF Serve

LEMMA LeaseWork ==
  ASSUME LeaseInv, NEW w \in Workload, Work(w)
  PROVE  [Lease!Next]_(Lease!vars)
<1>1. CASE Acquire(w) \/ Release(w)
  <2>1. /\ UNCHANGED <<running, mem, conn>>
        /\ status[w] \in {"ready", "holding"}
        /\ status' \in {[status EXCEPT ![w] = "asking"], [status EXCEPT ![w] = "parking"]}
        /\ \A v \in Workload : v # w => workloads'[v] = workloads[v]
    BY <1>1 DEF Acquire, CreateIfMissing, CanAsk, Refused, Release, daemonVars,
                LeaseInv, TypeOK, SessionHealthy
  <2>2. /\ status'[w] \in {"asking", "parking"}
        /\ \A v \in Workload : v # w => status'[v] = status[v]
    BY <2>1 DEF LeaseInv, TypeOK
  <2>3. Leaving(w)' = Leaving(w)
    BY <2>1, <2>2 DEF Leaving, LetGo
  <2>4. Departing' = Departing
    BY <2>1, <2>2, <2>3, DepartingGoal
  <2>5. Device' = Device
    BY <2>1 DEF Device
  <2> QED BY <2>1, <2>4, <2>5, LeaseStutter
<1>2. CASE AcquireRefused(w)
  <2>1. /\ status[w] \in {"ready", "faulted"}
        /\ conn' = [conn EXCEPT ![w] = NoConn]
        /\ UNCHANGED <<running, workloads, status, mem>>
    BY <1>2 DEF AcquireRefused, CanAsk, daemonVars
  <2>2. /\ conn'[w] = NoConn
        /\ \A v \in Workload : v # w => conn'[v] = conn[v]
    BY <2>1 DEF LeaseInv, TypeOK
  <2>3. Device' = Device
    BY <2>1 DEF Device
  <2>4. CASE status[w] = "ready"
    <3>1. Leaving(w)' = Leaving(w)
      BY <2>1, <2>4 DEF Leaving, LetGo
    <3>2. Departing' = Departing
      BY <2>1, <2>2, <3>1, DepartingGoal
    <3> QED BY <2>1, <2>3, <3>2, LeaseStutter
  <2>5. CASE status[w] = "faulted"
    <3>1. Leaving(w)'
      BY <2>1, <2>2, <2>5 DEF Leaving, LetGo
    <3>2. Departing' = Departing \cup {w}
      BY <2>1, <2>2, <3>1, DepartingGoal
    <3>3. Lease!Next
      BY <2>1, <2>3, <3>2, LeaseLeave
    <3> QED BY <3>3
  <2> QED BY <2>1, <2>4, <2>5
<1>3. CASE Load(w)
  <2>1. /\ status[w] = "holding"
        /\ mem' = [mem EXCEPT ![w] = "device"]
        /\ UNCHANGED <<running, status, conn, workloads>>
    BY <1>3 DEF Load, daemonVars
  <2>2. Device' = Device \cup {w}
    BY <2>1 DEF Device, LeaseInv, TypeOK
  <2>3. running[ClaimOf[w]] = w /\ w \notin Departing
    BY <2>1 DEF LeaseInv, TurnHasGrant, HolderHasGrant, Leaving, LetGo, Departing
  <2>4. Departing' = Departing
    BY <2>1 DEF Departing, Leaving, LetGo
  <2> QED BY <2>1, <2>2, <2>3, <2>4, LeaseLoad
<1>4. CASE Leave(w) \/ Quit(w)
  <2>1. /\ status' = [status EXCEPT ![w] = "exiting"]
        /\ mem' = mem
        /\ conn' = [conn EXCEPT ![w] = NoConn]
        /\ ClearWorkload(w) \/ running' = running
        /\ \A v \in Workload : v # w => workloads'[v] = workloads[v]
    BY <1>4 DEF Leave, Quit, daemonVars, LeaseInv, TypeOK
  <2>2. /\ status'[w] = "exiting"
        /\ \A v \in Workload : v # w => status'[v] = status[v] /\ conn'[v] = conn[v]
    BY <2>1 DEF LeaseInv, TypeOK
  <2>3. Leaving(w)'
    BY <2>2 DEF Leaving
  <2>4. Departing' = Departing \cup {w}
    BY <2>1, <2>2, <2>3, DepartingGoal
  <2>5. Device' = Device
    BY <2>1 DEF Device
  <2>6. CASE running' = running
    <3>1. Lease!Next
      BY <2>4, <2>5, <2>6, LeaseLeave
    <3> QED BY <3>1
  <2>7. CASE ClearWorkload(w) /\ running' # running
    <3>1. \A j \in Claim : running[j] = w => j = ClaimOf[w]
      BY SlicerAssumption DEF LeaseInv, GrantHasSession
    <3>2. running[ClaimOf[w]] = w
      <4>1. PICK k \in Claim : running[k] = w
        BY <2>7 DEF ClearWorkload, LeaseInv, TypeOK
      <4> QED BY <3>1, <4>1
    <3>3. running' = [running EXCEPT ![ClaimOf[w]] = NoWorkload]
      BY <2>7, <3>1, <3>2, SlicerAssumption DEF ClearWorkload, LeaseInv, TypeOK
    <3>4. Lease!Next
      BY <2>4, <2>5, <3>2, <3>3, LeaseAbandon
    <3> QED BY <3>4
  <2> QED BY <2>1, <2>6, <2>7
<1>5. CASE Exit(w) \/ Crash(w)
  <2>1. /\ status' = [status EXCEPT ![w] = "down"]
        /\ mem' = [mem EXCEPT ![w] = "none"]
        /\ conn' = [conn EXCEPT ![w] = NoConn]
        /\ UNCHANGED <<running, workloads>>
    BY <1>5 DEF Exit, Crash, Gone, daemonVars
  <2>2. /\ status'[w] = "down"
        /\ \A v \in Workload : v # w => status'[v] = status[v] /\ conn'[v] = conn[v]
    BY <2>1 DEF LeaseInv, TypeOK
  <2>3. ~Leaving(w)'
    BY <2>2 DEF Leaving, LetGo
  <2>4. Departing' = Departing \ {w}
    BY <2>1, <2>2, <2>3, DepartingGoal
  <2>5. Device' = Device \ {w}
    BY <2>1 DEF Device, LeaseInv, TypeOK
  <2>6. Lease!Gone(w)
    BY <2>1, <2>4, <2>5 DEF Lease!Gone, Device, Departing
  <2> QED BY <2>6 DEF Lease!Next
<1> QED BY <1>1, <1>2, <1>3, <1>4, <1>5 DEF Work

LEMMA LeaseConnect ==
  ASSUME LeaseInv, NEW w \in Workload, NEW c \in Conn, StartAlone(w, c) \/ Reconnect(w, c)
  PROVE  [Lease!Next]_(Lease!vars)
<1>1. /\ UNCHANGED <<running, mem>>
      /\ phase[c] = "closed"
      /\ conn' = [conn EXCEPT ![w] = c]
      /\ \A v \in Workload : v # w => workloads'[v] = workloads[v] /\ status'[v] = status[v]
  BY DEF StartAlone, Start, Reconnect, Connect, daemonVars, LeaseInv, TypeOK
<1>2. conn'[w] = c /\ \A v \in Workload : v # w => conn'[v] = conn[v]
  BY <1>1 DEF LeaseInv, TypeOK
<1>3. Leaving(w)' = Leaving(w)
  <2>1. CASE StartAlone(w, c)
    <3>1. status[w] = "down" /\ status'[w] = "ready"
      BY <2>1 DEF StartAlone, Start, LeaseInv, TypeOK
    <3> QED BY <3>1 DEF Leaving, LetGo
  <2>2. CASE Reconnect(w, c)
    <3>1. conn[w] = NoConn /\ UNCHANGED <<status, workloads>>
      BY <2>2 DEF Reconnect, daemonVars
    <3>2. workloads[w].conn # c
      BY <1>1, SlicerAssumption DEF LeaseInv, SessionRecord, OneSession
    <3> QED BY <1>2, <3>1, <3>2 DEF Leaving, LetGo
  <2> QED BY <2>1, <2>2
<1>4. Departing' = Departing
  BY <1>1, <1>2, <1>3, DepartingGoal
<1>5. Device' = Device
  BY <1>1 DEF Device
<1> QED BY <1>1, <1>4, <1>5, LeaseStutter

\* The daemon, its handlers and its workers implement the lease: memory is put
\* on the devices under the grant only, and the grant moves on only when that
\* memory is off them, or its process is exiting or was faulted and refused.
THEOREM ImplementsLease == Spec => LeaseSpec
<1>1. Init => Lease!Init
  BY DEF Init, Lease!Init, Leaving, LetGo
<1>2. QueueInv /\ [Next]_vars => [Lease!Next]_(Lease!vars)
  <2> SUFFICES ASSUME LeaseInv, [Next]_vars PROVE [Lease!Next]_(Lease!vars)
    BY DEF QueueInv
  <2>1. ASSUME NEW c \in Conn, Serve(c) PROVE [Lease!Next]_(Lease!vars)
    BY <2>1, LeaseServe
  <2>2. ASSUME NEW w \in Workload, Work(w) PROVE [Lease!Next]_(Lease!vars)
    BY <2>2, LeaseWork
  <2>3. ASSUME NEW w \in Workload, NEW c \in Conn, StartAlone(w, c) \/ Reconnect(w, c)
        PROVE  [Lease!Next]_(Lease!vars)
    BY <2>3, LeaseConnect
  <2>4. CASE UNCHANGED vars
    <3>1. UNCHANGED <<running, status, mem, conn, workloads>>
      BY <2>4 DEF vars, daemonVars, clientVars
    <3>2. Device' = Device /\ Departing' = Departing
      BY <3>1 DEF Device, Departing, Leaving, LetGo
    <3> QED BY <3>1, <3>2, LeaseStutter
  <2> QED BY <2>1, <2>2, <2>3, <2>4 DEF Next
<1> QED BY <1>1, <1>2, LeaseInvariant, PTL DEF Spec, LeaseSpec, Lease!Spec

-----------------------------------------------------------------------------
(* The queue when processes overlap and the daemon restarts *)

\* What is left of a session then: a handler works for a worker, and the one
\* that a process is connected to waits only if the process has asked.
RoughSession ==
  /\ \A c \in Conn : phase[c] # "closed" => owner[c] \in Workload
  /\ \A w \in Workload :
       conn[w] # NoConn =>
         /\ owner[conn[w]] = w
         /\ phase[conn[w]] # "closed"
         /\ phase[conn[w]] = "waiting" => status[w] = "asking"

RoughInv == TypeOK /\ RoughSession /\ WaitersAreServed

LEMMA InitRough == Init => RoughInv
<1> SUFFICES ASSUME Init PROVE RoughInv
  OBVIOUS
<1>1. TypeOK
  BY InitLease DEF LeaseInv
<1>2. RoughSession
  BY DEF Init, RoughSession
<1>3. WaitersAreServed
  BY DEF Init, WaitersAreServed, Range
<1> QED BY <1>1, <1>2, <1>3 DEF RoughInv

\* Waiters stay served when none comes, the others keep their handlers and
\* nobody's record is dropped.
LEMMA ServedGoal ==
  ASSUME RoughInv, Injective(waiting'), Range(waiting') \subseteq Range(waiting),
         \A v \in Range(waiting') : workloads'[v].registered,
         \A v \in Range(waiting'), d \in Conn :
           owner'[d] = v /\ phase'[d] = "waiting"
             <=> owner[d] = v /\ phase[d] = "waiting"
  PROVE  WaitersAreServed'
BY DEF RoughInv, WaitersAreServed, Injective

\* The deque has each name once.
LEMMA DequeElements ==
  ASSUME RoughInv
  PROVE  /\ waiting \in Seq(Workload)
         /\ Injective(waiting)
         /\ \A v \in Range(waiting) : v \in Workload /\ workloads[v].registered
BY DEF RoughInv, TypeOK, WaitersAreServed, Injective, Range

\* Clearing a name takes its place and leaves the others'.
LEMMA ClearKeepsPlaces ==
  ASSUME RoughInv, NEW w \in Workload, ClearWorkload(w)
  PROVE  /\ waiting' \in Seq(Workload)
         /\ running' \in [Claim -> Workload \cup {NoWorkload}]
         /\ Injective(waiting')
         /\ Range(waiting') = Range(waiting) \ {w}
<1>1. waiting' = RemoveFirst(waiting, w)
  BY DEF ClearWorkload
<1> QED BY <1>1, DequeElements, ClearWorkloadType, RemoveFirstInjective DEF RoughInv

\* A handler that has not to wait (any more) goes on, and its client with it.
Proceeds(c) ==
  /\ \E p \in Phase \ {"closed", "waiting"} : phase' = [phase EXCEPT ![c] = p]
  /\ UNCHANGED owner
  /\ \/ UNCHANGED status
     \/ Live(c) /\ \E s \in Status : status' = [status EXCEPT ![owner[c]] = s]
  /\ conn' \in {conn, [conn EXCEPT ![owner[c]] = NoConn]}

LEMMA ProceedKeeps ==
  ASSUME RoughInv, NEW c \in Conn, phase[c] # "closed", Proceeds(c)
  PROVE  /\ phase' \in [Conn -> Phase]
         /\ owner' \in [Conn -> Workload \cup {NoWorkload}]
         /\ conn' \in [Workload -> Conn \cup {NoConn}]
         /\ status' \in [Workload -> Status]
         /\ RoughSession'
         /\ \A d \in Conn : phase'[d] = "waiting" <=> d # c /\ phase[d] = "waiting"
<1>1. owner[c] \in Workload
  BY DEF RoughInv, RoughSession
<1>2. PICK p \in Phase \ {"closed", "waiting"} : phase' = [phase EXCEPT ![c] = p]
  BY DEF Proceeds
<1>3. /\ phase' \in [Conn -> Phase]
      /\ owner' \in [Conn -> Workload \cup {NoWorkload}]
      /\ conn' \in [Workload -> Conn \cup {NoConn}]
      /\ status' \in [Workload -> Status]
      /\ \A d \in Conn : phase'[d] = IF d = c THEN p ELSE phase[d]
  BY <1>1, <1>2 DEF Proceeds, RoughInv, TypeOK
<1>4. \A w \in Workload : conn'[w] # NoConn => conn'[w] = conn[w]
  BY <1>1 DEF Proceeds, RoughInv, TypeOK
<1>5. \A w \in Workload : status'[w] = status[w] \/ conn[w] = c
  BY <1>1 DEF Proceeds, RoughInv, TypeOK, Live
<1>6. RoughSession'
  <2>1. \A d \in Conn : phase'[d] # "closed" => owner'[d] \in Workload
    BY <1>1, <1>3 DEF Proceeds, RoughInv, RoughSession
  <2>2. ASSUME NEW w \in Workload, conn'[w] # NoConn
        PROVE  /\ owner'[conn'[w]] = w
               /\ phase'[conn'[w]] # "closed"
               /\ phase'[conn'[w]] = "waiting" => status'[w] = "asking"
    <3>1. conn[w] # NoConn /\ conn'[w] = conn[w] /\ conn[w] \in Conn
      BY <1>4, <2>2 DEF RoughInv, TypeOK
    <3>2. /\ owner[conn[w]] = w
          /\ phase[conn[w]] # "closed"
          /\ phase[conn[w]] = "waiting" => status[w] = "asking"
      BY <3>1 DEF RoughInv, RoughSession
    <3> QED BY <1>3, <1>5, <3>1, <3>2 DEF Proceeds
  <2> QED BY <2>1, <2>2 DEF RoughSession
<1> QED BY <1>2, <1>3, <1>6

\* A grant, an error for a waiter that lost its place, the end of a restore and
\* the end of a checkpoint.
LEMMA RoughHandler ==
  ASSUME RoughInv, NEW c \in Conn,
         \/ Grant(c) \/ Unavailable(c)
         \/ RestoreOk(c) \/ RestoreFailed(c) \/ CheckpointFailed(c)
         \/ CheckpointParked(c) \/ CheckpointSkipped(c) \/ CheckpointBlind(c)
  PROVE  RoughInv'
<1> DEFINE w == owner[c]
<1>1. phase[c] \in {"waiting", "restoring", "checkpointing"}
  BY DEF Grant, Unavailable, RestoreOk, RestoreFailed, RestoreDone, CheckpointFailed,
         CheckpointParked, CheckpointSkipped, CheckpointBlind, Released
<1>2. w \in Workload /\ ClaimOf[w] \in Claim
  BY <1>1, SlicerAssumption DEF RoughInv, RoughSession
<1>3. Proceeds(c)
  <2>1. ASSUME NEW s \in Status, Answer(c, s), conn' \in {conn, [conn EXCEPT ![w] = NoConn]}
        PROVE  Proceeds(c)
    BY <2>1 DEF Answer, Proceeds, Phase
  <2>2. CASE Grant(c)
    <3>1. CASE Answer(c, "holding")
      BY <2>1, <2>2, <3>1 DEF Grant, Status
    <3>2. CASE phase' = [phase EXCEPT ![c] = "restoring"] /\ UNCHANGED <<owner, status>>
      BY <2>2, <3>2 DEF Grant, Proceeds, Phase
    <3> QED BY <2>2, <3>1, <3>2 DEF Grant
  <2>3. CASE Unavailable(c)
    BY <2>1, <2>3 DEF Unavailable, Status
  <2>4. CASE RestoreOk(c) \/ RestoreFailed(c)
    BY <2>1, <2>4 DEF RestoreOk, RestoreFailed, RestoreDone, Status
  <2>5. CASE CheckpointFailed(c)
    BY <2>1, <2>5 DEF CheckpointFailed, Status
  <2>6. CASE CheckpointParked(c) \/ CheckpointSkipped(c) \/ CheckpointBlind(c)
    BY <2>1, <2>6 DEF CheckpointParked, CheckpointSkipped, CheckpointBlind, Released, Status
  <2> QED BY <2>2, <2>3, <2>4, <2>5, <2>6
<1>4. /\ workloads' \in [Workload -> WorkloadState]
      /\ \A v \in Workload : workloads'[v].registered = workloads[v].registered
  <2>1. CASE UNCHANGED workloads
    BY <2>1 DEF RoughInv, TypeOK
  <2>2. CASE \E a \in BOOLEAN, b \in BOOLEAN :
               workloads' \in {[workloads EXCEPT ![w].checkpointed = a],
                               [workloads EXCEPT ![w].checkpointed = a, ![w].failed = b]}
    <3>1. workloads' \in [Workload -> WorkloadState]
      BY <1>2, <2>2, MarkType DEF RoughInv
    <3>2. workloads \in [Workload -> WorkloadState]
      BY DEF RoughInv, TypeOK
    <3> HIDE DEF w
    <3> QED BY <1>2, <2>2, <3>1, <3>2 DEF WorkloadState
  <2>3. workloads[w].registered \in BOOLEAN
    BY <1>2 DEF RoughInv, TypeOK, WorkloadState
  <2>4. CASE Grant(c) \/ Unavailable(c)
    BY <2>1, <2>4 DEF Grant, Unavailable
  <2>5. CASE RestoreOk(c) \/ RestoreFailed(c)
    BY <2>2, <2>5 DEF RestoreOk, RestoreFailed, RestoreDone
  <2>6. CASE CheckpointFailed(c)
    BY <2>2, <2>3, <2>6 DEF CheckpointFailed
  <2>7. CASE CheckpointParked(c) \/ CheckpointSkipped(c) \/ CheckpointBlind(c)
    <3>1. PICK parked \in BOOLEAN :
            workloads' = [workloads EXCEPT ![w].checkpointed = parked /\ workloads[w].registered]
      BY <2>7 DEF CheckpointParked, CheckpointSkipped, CheckpointBlind, Released
    <3> DEFINE b == parked /\ workloads[w].registered
    <3>2. b \in BOOLEAN /\ workloads' = [workloads EXCEPT ![w].checkpointed = b]
      BY <3>1
    <3> HIDE DEF b
    <3> QED BY <2>2, <3>2
  <2> QED BY <2>4, <2>5, <2>6, <2>7
<1>5. /\ waiting' \in Seq(Workload)
      /\ running' \in [Claim -> Workload \cup {NoWorkload}]
      /\ Injective(waiting')
      /\ \/ Range(waiting') = Range(waiting) \ {w}
         \/ Range(waiting') = Range(waiting) /\ phase[c] # "waiting"
  <2>1. CASE UNCHANGED <<waiting, running>> /\ phase[c] # "waiting"
    BY <2>1, DequeElements DEF RoughInv, TypeOK
  <2>2. CASE ClearWorkload(w)
    BY <1>2, <2>2, ClearKeepsPlaces
  <2>3. CASE Grant(c)
    <3>1. waiting' = RemoveFirst(waiting, w) /\ running' = [running EXCEPT ![ClaimOf[w]] = w]
      BY <2>3 DEF Grant, Take
    <3>2. /\ waiting' \in Seq(Workload) /\ Injective(waiting')
          /\ Range(waiting') = Range(waiting) \ {w}
      BY <1>2, <3>1, DequeElements, RemoveFirstType, RemoveFirstInjective
    <3> QED BY <1>2, <3>1, <3>2 DEF RoughInv, TypeOK
  <2>4. CASE Unavailable(c)
    BY <2>2, <2>4 DEF Unavailable
  <2>5. CASE RestoreOk(c) \/ RestoreFailed(c) \/ CheckpointFailed(c)
    BY <2>1, <2>5 DEF RestoreOk, RestoreFailed, RestoreDone, CheckpointFailed
  <2>6. CASE CheckpointParked(c) \/ CheckpointSkipped(c) \/ CheckpointBlind(c)
    BY <2>2, <2>6 DEF CheckpointParked, CheckpointSkipped, CheckpointBlind, Released
  <2> QED BY <2>3, <2>4, <2>5, <2>6
<1>6. released' \in Seq(Workload)
  <2>1. CASE CheckpointParked(c) \/ CheckpointSkipped(c) \/ CheckpointBlind(c)
    <3>1. released' = Append(RemoveFirst(released, w), w)
      BY <2>1 DEF CheckpointParked, CheckpointSkipped, CheckpointBlind, Released
    <3>2. released \in Seq(Workload)
      BY DEF RoughInv, TypeOK
    <3> QED BY <1>2, <3>1, <3>2, RemoveFirstType, AppendProperties
  <2>2. CASE UNCHANGED released
    BY <2>2 DEF RoughInv, TypeOK
  <2> QED BY <2>1, <2>2 DEF Grant, Unavailable, RestoreOk, RestoreFailed, RestoreDone,
                            CheckpointFailed
<1>7. mem' \in [Workload -> Memory]
  <2>1. mem' = mem \/ \E m \in Memory : mem' = [mem EXCEPT ![w] = m]
    BY DEF Grant, Unavailable, RestoreOk, RestoreFailed, CheckpointFailed,
           CheckpointParked, CheckpointSkipped, CheckpointBlind, Memory
  <2> QED BY <2>1 DEF RoughInv, TypeOK
<1>8. /\ phase' \in [Conn -> Phase]
      /\ owner' \in [Conn -> Workload \cup {NoWorkload}]
      /\ conn' \in [Workload -> Conn \cup {NoConn}]
      /\ status' \in [Workload -> Status]
      /\ RoughSession'
      /\ \A d \in Conn : phase'[d] = "waiting" <=> d # c /\ phase[d] = "waiting"
      /\ owner' = owner
  BY <1>1, <1>3, ProceedKeeps DEF Proceeds
<1>9. TypeOK'
  BY <1>4, <1>5, <1>6, <1>7, <1>8 DEF TypeOK
<1>10. \A v \in Range(waiting') : workloads'[v].registered
  BY <1>4, <1>5, DequeElements
<1>11. \A v \in Range(waiting'), d \in Conn :
         owner'[d] = v /\ phase'[d] = "waiting" <=> owner[d] = v /\ phase[d] = "waiting"
  BY <1>5, <1>8
<1>12. WaitersAreServed'
  BY <1>5, <1>10, <1>11, ServedGoal
<1> QED BY <1>8, <1>9, <1>12 DEF RoughInv

\* The end of a connection.
LEMMA RoughClosed ==
  ASSUME RoughInv, NEW c \in Conn, ConnectionClosed(c)
  PROVE  RoughInv'
<1> DEFINE w == owner[c]
<1>1. /\ phase[c] = "idle" /\ ~Live(c)
      /\ phase' = [phase EXCEPT ![c] = "closed"]
      /\ owner' = [owner EXCEPT ![c] = NoWorkload]
      /\ UNCHANGED <<released, conn, status, mem>>
  BY DEF ConnectionClosed, clientVars
<1>2. w \in Workload
  BY <1>1 DEF RoughInv, RoughSession
<1>3. /\ workloads' \in [Workload -> WorkloadState]
      /\ \A v \in Workload : workloads'[v].registered = workloads[v].registered
      /\ waiting' \in Seq(Workload)
      /\ running' \in [Claim -> Workload \cup {NoWorkload}]
      /\ Injective(waiting')
      /\ Range(waiting') \subseteq Range(waiting)
  <2>1. CASE UNCHANGED <<workloads, waiting, running>>
    BY <2>1, DequeElements DEF RoughInv, TypeOK
  <2>2. CASE /\ ClearWorkload(w)
             /\ workloads' = [workloads EXCEPT ![w].conn = NoConn,
                                               ![w].failed = TRUE,
                                               ![w].checkpointed = FALSE]
    <3>1. workloads[w] \in WorkloadState
      BY <1>2 DEF RoughInv, TypeOK
    <3> DEFINE r == [workloads[w] EXCEPT !.conn = NoConn, !.failed = TRUE,
                                         !.checkpointed = FALSE]
    <3>2. r \in WorkloadState /\ r.registered = workloads[w].registered
      BY <3>1 DEF WorkloadState
    <3>3. workloads' = [workloads EXCEPT ![w] = r]
      BY <2>2
    <3> HIDE DEF r, w
    <3>4. /\ workloads' \in [Workload -> WorkloadState]
          /\ \A v \in Workload : workloads'[v].registered = workloads[v].registered
      BY <1>2, <3>2, <3>3 DEF RoughInv, TypeOK
    <3> QED BY <1>2, <2>2, <3>4, ClearKeepsPlaces
  <2> QED BY <2>1, <2>2 DEF ConnectionClosed
<1>4. TypeOK'
  BY <1>1, <1>3 DEF RoughInv, TypeOK, Phase
<1>5. \A d \in Conn : d # c => phase'[d] = phase[d] /\ owner'[d] = owner[d]
  BY <1>1 DEF RoughInv, TypeOK
<1>6. phase'[c] = "closed"
  BY <1>1 DEF RoughInv, TypeOK
<1>7. RoughSession'
  <2>1. \A v \in Workload : conn[v] # NoConn => conn[v] \in Conn \ {c}
    <3>1. conn[w] # c /\ \A v \in Workload : conn[v] = c /\ c # NoConn => v = w
      BY <1>1, <1>2, SlicerAssumption DEF RoughInv, RoughSession, Live
    <3>2. conn \in [Workload -> Conn \cup {NoConn}]
      BY DEF RoughInv, TypeOK
    <3> QED BY <3>1, <3>2
  <2> QED BY <1>1, <1>5, <1>6, <2>1 DEF RoughInv, RoughSession
<1>8. WaitersAreServed'
  <2>1. \A v \in Range(waiting') : workloads'[v].registered
    BY <1>3, DequeElements
  <2>2. \A v \in Range(waiting'), d \in Conn :
          owner'[d] = v /\ phase'[d] = "waiting" <=> owner[d] = v /\ phase[d] = "waiting"
    BY <1>1, <1>5, <1>6
  <2> QED BY <1>3, <2>1, <2>2, ServedGoal
<1> QED BY <1>4, <1>7, <1>8 DEF RoughInv

\* A new connection, with or without a registration.
LEMMA RoughConnect ==
  ASSUME RoughInv, NEW w \in Workload, NEW c \in Conn,
         Start(w, c) \/ Reconnect(w, c)
  PROVE  RoughInv'
<1>1. /\ phase[c] = "closed"
      /\ phase' = [phase EXCEPT ![c] = "idle"]
      /\ owner' = [owner EXCEPT ![c] = w]
      /\ conn' = [conn EXCEPT ![w] = c]
      /\ status' \in {status, [status EXCEPT ![w] = "ready"]}
      /\ UNCHANGED <<waiting, running, released, mem>>
  BY DEF Start, Reconnect, Connect, daemonVars
<1>2. /\ workloads' \in [Workload -> WorkloadState]
      /\ \A v \in Workload : workloads[v].registered => workloads'[v].registered
  <2>1. workloads[w] \in WorkloadState /\ workloads \in [Workload -> WorkloadState]
    BY DEF RoughInv, TypeOK
  <2>2. CASE workloads' = [workloads EXCEPT ![w] = Registered(w, c)]
    <3>1. Registered(w, c) \in WorkloadState /\ Registered(w, c).registered = TRUE
      BY <2>1 DEF Registered, WorkloadState
    <3> QED BY <2>1, <2>2, <3>1
  <2>3. CASE UNCHANGED workloads
    BY <2>1, <2>3
  <2> QED BY <2>2, <2>3 DEF Start, Reconnect, daemonVars
<1>3. TypeOK'
  BY <1>1, <1>2 DEF RoughInv, TypeOK, Phase, Status
<1>4. /\ \A d \in Conn : d # c => phase'[d] = phase[d] /\ owner'[d] = owner[d]
      /\ phase'[c] = "idle" /\ owner'[c] = w
      /\ conn'[w] = c
      /\ \A v \in Workload : v # w => conn'[v] = conn[v] /\ status'[v] = status[v]
  BY <1>1 DEF RoughInv, TypeOK
<1>5. RoughSession'
  <2>1. ASSUME NEW v \in Workload, v # w, conn[v] # NoConn
        PROVE  conn[v] \in Conn \ {c}
    BY <1>1, <2>1 DEF RoughInv, TypeOK, RoughSession
  <2> QED BY <1>4, <2>1 DEF RoughInv, RoughSession
<1>6. WaitersAreServed'
  <2>1. \A v \in Range(waiting') : workloads'[v].registered
    BY <1>1, <1>2, DequeElements
  <2>2. \A v \in Range(waiting'), d \in Conn :
          owner'[d] = v /\ phase'[d] = "waiting" <=> owner[d] = v /\ phase[d] = "waiting"
    BY <1>1, <1>4
  <2> QED BY <1>1, <2>1, <2>2, DequeElements, ServedGoal
<1> QED BY <1>3, <1>5, <1>6 DEF RoughInv

\* A name goes on the deque when no handler waits for it: one does then.
LEMMA RoughAcquire ==
  ASSUME RoughInv, NEW w \in Workload, Acquire(w)
  PROVE  RoughInv'
<1> DEFINE c == conn[w]
<1>1. /\ c # NoConn
      /\ w \notin Range(waiting)
      /\ \A d \in Conn : ~(owner[d] = w /\ phase[d] = "waiting")
      /\ workloads' = [workloads EXCEPT ![w].registered = TRUE]
      /\ waiting' = Append(waiting, w)
      /\ phase' = [phase EXCEPT ![c] = "waiting"]
      /\ status' = [status EXCEPT ![w] = "asking"]
      /\ UNCHANGED <<running, released, owner, conn, mem>>
  BY DEF Acquire, CanAsk, Refused, IsWaiting, CreateIfMissing
<1>2. c \in Conn /\ owner[c] = w /\ \A v \in Workload : conn[v] = c => v = w
  BY <1>1 DEF RoughInv, TypeOK, RoughSession
<1>3. /\ workloads' \in [Workload -> WorkloadState]
      /\ \A v \in Workload : v # w => workloads'[v] = workloads[v]
      /\ workloads'[w].registered = TRUE
  <2>1. workloads[w] \in WorkloadState /\ workloads \in [Workload -> WorkloadState]
    BY DEF RoughInv, TypeOK
  <2> DEFINE r == [workloads[w] EXCEPT !.registered = TRUE]
  <2>2. r \in WorkloadState /\ r.registered = TRUE
    BY <2>1 DEF WorkloadState
  <2>3. workloads' = [workloads EXCEPT ![w] = r]
    BY <1>1
  <2> HIDE DEF r
  <2> QED BY <2>1, <2>2, <2>3
<1>4. /\ waiting' \in Seq(Workload)
      /\ Injective(waiting')
      /\ Range(waiting') = Range(waiting) \cup {w}
  BY <1>1, DequeElements, AppendKeepsInjective, AppendProperties
<1> HIDE DEF c
<1>5. /\ \A d \in Conn : d # c => phase'[d] = phase[d]
      /\ phase'[c] = "waiting"
      /\ \A v \in Workload : v # w => status'[v] = status[v]
      /\ status'[w] = "asking"
  BY <1>1, <1>2 DEF RoughInv, TypeOK
<1>6. TypeOK'
  BY <1>1, <1>2, <1>3, <1>4 DEF RoughInv, TypeOK, Phase, Status
<1>7. RoughSession'
  BY <1>1, <1>2, <1>5 DEF RoughInv, TypeOK, RoughSession, c
<1>8. WaitersAreServed'
  <2>1. ASSUME NEW v \in Range(waiting')
        PROVE  /\ workloads'[v].registered
               /\ \E e \in Conn : \A d \in Conn :
                    owner'[d] = v /\ phase'[d] = "waiting" <=> d = e
    <3>1. CASE v = w
      BY <1>1, <1>2, <1>3, <1>5, <3>1
    <3>2. CASE v # w
      <4>1. v \in Range(waiting) /\ v \in Workload
        BY <1>4, <3>2, DequeElements
      <4>2. workloads'[v].registered
        BY <1>3, <3>2, <4>1, DequeElements
      <4>3. \A d \in Conn : owner'[d] = v /\ phase'[d] = "waiting"
                              <=> owner[d] = v /\ phase[d] = "waiting"
        BY <1>1, <1>2, <1>5, <3>2
      <4> QED BY <4>1, <4>2, <4>3 DEF RoughInv, WaitersAreServed
    <3> QED BY <3>1, <3>2
  <2> QED BY <1>4, <2>1 DEF WaitersAreServed, Injective
<1> QED BY <1>6, <1>7, <1>8 DEF RoughInv

\* A handler that starts to checkpoint was not waiting: its client holds.
LEMMA RoughRelease ==
  ASSUME RoughInv, NEW w \in Workload, Release(w)
  PROVE  RoughInv'
<1> DEFINE c == conn[w]
<1>1. /\ c # NoConn /\ status[w] = "holding"
      /\ phase' = [phase EXCEPT ![c] = "checkpointing"]
      /\ status' = [status EXCEPT ![w] = "parking"]
      /\ UNCHANGED <<workloads, waiting, running, released, owner, conn, mem>>
  BY DEF Release, daemonVars
<1>2. /\ c \in Conn /\ owner[c] = w /\ phase[c] \notin {"closed", "waiting"}
      /\ \A v \in Workload : conn[v] = c => v = w
  BY <1>1 DEF RoughInv, TypeOK, RoughSession
<1> HIDE DEF c
<1>3. /\ \A d \in Conn : d # c => phase'[d] = phase[d]
      /\ phase'[c] = "checkpointing"
      /\ \A v \in Workload : v # w => status'[v] = status[v]
  BY <1>1, <1>2 DEF RoughInv, TypeOK
<1>4. TypeOK'
  BY <1>1, <1>2 DEF RoughInv, TypeOK, Phase, Status
<1>5. RoughSession'
  BY <1>1, <1>2, <1>3 DEF RoughInv, TypeOK, RoughSession, c
<1>6. WaitersAreServed'
  <2>1. \A d \in Conn : phase'[d] = "waiting" <=> phase[d] = "waiting"
    BY <1>2, <1>3
  <2> QED BY <1>1, <2>1, DequeElements, ServedGoal
<1> QED BY <1>4, <1>5, <1>6 DEF RoughInv

\* A client that closes its connection or dies, after unregistering or not,
\* leaves the handlers to notice; one that loads leaves them alone.
LEMMA RoughClient ==
  ASSUME RoughInv, NEW w \in Workload,
         \/ AcquireRefused(w) \/ ReleaseRefused(w) \/ Load(w)
         \/ Leave(w) \/ Quit(w) \/ Exit(w) \/ Crash(w)
  PROVE  RoughInv'
<1>1. /\ UNCHANGED <<released, phase, owner>>
      /\ \/ conn' = [conn EXCEPT ![w] = NoConn]
         \/ conn' = conn /\ status' = status
      /\ \/ status' = status
         \/ \E s \in Status : status' = [status EXCEPT ![w] = s]
      /\ mem' = mem \/ \E m \in Memory : mem' = [mem EXCEPT ![w] = m]
  BY DEF AcquireRefused, ReleaseRefused, Load, Leave, Quit, Exit, Crash, Gone,
         daemonVars, connVars, Status, Memory
<1>2. /\ workloads' \in [Workload -> WorkloadState]
      /\ \A v \in Range(waiting') : workloads'[v].registered
      /\ waiting' \in Seq(Workload)
      /\ running' \in [Claim -> Workload \cup {NoWorkload}]
      /\ Injective(waiting')
      /\ Range(waiting') \subseteq Range(waiting)
  <2>1. CASE UNCHANGED <<workloads, waiting, running>>
    BY <2>1, DequeElements DEF RoughInv, TypeOK
  <2>2. CASE Leave(w)
    <3>1. ClearWorkload(w) /\ workloads' = [workloads EXCEPT ![w] = NoState]
      BY <2>2 DEF Leave
    <3>2. /\ waiting' \in Seq(Workload)
          /\ running' \in [Claim -> Workload \cup {NoWorkload}]
          /\ Injective(waiting')
          /\ Range(waiting') = Range(waiting) \ {w}
      BY <3>1, ClearKeepsPlaces
    <3>3. /\ workloads' \in [Workload -> WorkloadState]
          /\ \A v \in Workload : v # w => workloads'[v] = workloads[v]
      BY <3>1 DEF RoughInv, TypeOK, NoState, WorkloadState
    <3> QED BY <3>2, <3>3, DequeElements
  <2> QED BY <2>1, <2>2
      DEF AcquireRefused, ReleaseRefused, Load, Quit, Exit, Crash, Gone, daemonVars
<1>3. TypeOK'
  <2>1. conn' \in [Workload -> Conn \cup {NoConn}]
    BY <1>1 DEF RoughInv, TypeOK
  <2>2. status' \in [Workload -> Status]
    BY <1>1 DEF RoughInv, TypeOK
  <2>3. mem' \in [Workload -> Memory]
    BY <1>1 DEF RoughInv, TypeOK
  <2>4. UNCHANGED <<released, phase, owner>>
    BY <1>1
  <2> QED BY <1>2, <2>1, <2>2, <2>3, <2>4 DEF RoughInv, TypeOK
<1>4. RoughSession'
  <2>1. \A v \in Workload : conn'[v] # NoConn => conn'[v] = conn[v] /\ status'[v] = status[v]
    BY <1>1 DEF RoughInv, TypeOK
  <2> QED BY <1>1, <2>1 DEF RoughInv, RoughSession
<1>5. WaitersAreServed'
  BY <1>1, <1>2, ServedGoal
<1> QED BY <1>3, <1>4, <1>5 DEF RoughInv

\* A daemon that has restarted knows nobody.
LEMMA RoughRestart ==
  ASSUME RoughInv, DaemonRestart
  PROVE  RoughInv'
<1>1. TypeOK'
  BY SlicerAssumption
  DEF RoughInv, TypeOK, DaemonRestart, NoState, WorkloadState, Phase, Status
<1>2. RoughSession'
  BY DEF DaemonRestart, RoughSession
<1>3. WaitersAreServed'
  BY DEF DaemonRestart, WaitersAreServed, Range
<1> QED BY <1>1, <1>2, <1>3 DEF RoughInv

LEMMA RoughStep == ASSUME RoughInv, [RoughNext]_vars PROVE RoughInv'
<1>1. ASSUME NEW c \in Conn, Serve(c) \/ Unavailable(c) \/ CheckpointBlind(c)
      PROVE  RoughInv'
  BY <1>1, RoughHandler, RoughClosed DEF Serve
<1>2. ASSUME NEW w \in Workload, Work(w) \/ AcquireRefused(w) \/ ReleaseRefused(w)
      PROVE  RoughInv'
  BY <1>2, RoughAcquire, RoughRelease, RoughClient DEF Work
<1>3. ASSUME NEW w \in Workload, NEW c \in Conn, Start(w, c) \/ Reconnect(w, c)
      PROVE  RoughInv'
  BY <1>3, RoughConnect
<1>4. CASE UNCHANGED vars
  BY <1>4 DEF vars, daemonVars, connVars, clientVars, RoughInv, TypeOK, RoughSession,
              WaitersAreServed
<1> QED BY <1>1, <1>2, <1>3, <1>4, RoughRestart DEF RoughNext, OverlapNext

\* Whatever processes overlap, are killed or fail to park, and however often
\* the daemon restarts or its listing of processes fails, its records, its
\* deque and its seats stay well formed.
THEOREM RoughTypeCorrect == RoughSpec => []TypeOK
<1>1. RoughInv => TypeOK
  BY DEF RoughInv
<1> QED BY <1>1, InitRough, RoughStep, PTL DEF RoughSpec

\* Then, too, each waiting name is known to the daemon, stands on the deque
\* once and has exactly one handler that waits for it.
THEOREM WaitersStayServed == RoughSpec => []WaitersAreServed
<1>1. RoughInv => WaitersAreServed
  BY DEF RoughInv
<1> QED BY <1>1, InitRough, RoughStep, PTL DEF RoughSpec

===============================================================================
