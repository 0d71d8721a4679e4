------------------------------ MODULE TimeSlicer ------------------------------
(***************************************************************************)
(* The accelerator time slicer: the daemon that grants turns on a claim's  *)
(* devices (src/accel_timeslicer/single_node.py), its connection handlers  *)
(* (serve.py) and the worker processes that call it through the socket     *)
(* client (time_slicer.py).                                                *)
(*                                                                         *)
(* The daemon is one asyncio loop and never awaits with its lock held, so  *)
(* each locked section is one action.  A RELEASE runs its checkpoint, and  *)
(* an ACQUIRE its restore, outside the lock in a thread; those are the     *)
(* "checkpointing" and "restoring" phases of the handler.  A handler reads *)
(* its next line only after the command before it has been answered, so    *)
(* it notices that its client is gone only when it is "idle".              *)
(***************************************************************************)
EXTENDS SequencesExt

CONSTANTS
  Workload,     \* names under which worker processes register
  Claim,        \* accelerator claims (the devices a set of workers shares)
  ClaimOf,      \* the claim stamped on each worker
  Conn,         \* connection identities, id(writer) in serve.py
  NoConn,       \* "connection_id is None"
  NoWorkload,   \* "no holder"
  Policy        \* scheduling_policy

ASSUME SlicerAssumption ==
  /\ ClaimOf \in [Workload -> Claim]
  /\ NoConn \notin Conn
  /\ NoWorkload \notin Workload
  /\ Policy \in {"fifo", "lrs"}

VARIABLES
  workloads,  \* the daemon's WorkloadState per name
  waiting,    \* waiting_workloads, the deque of names
  running,    \* the name that holds each claim's grant
  released,   \* names ordered by last_release_time, oldest first
  phase,      \* what the handler of each connection is doing
  owner,      \* the worker that opened each connection
  conn,       \* the connection each live process has open
  status,     \* where each worker process is in its loop
  mem         \* where each live process's accelerator memory is

daemonVars == <<workloads, waiting, running, released>>
connVars == <<phase, owner>>
clientVars == <<conn, status, mem>>
vars == <<daemonVars, connVars, clientVars>>

Phase == {"closed", "idle", "waiting", "restoring", "checkpointing"}
Status == {"down", "ready", "asking", "holding", "parking", "faulted", "exiting"}
Memory == {"none", "device", "parked"}

\* registered = FALSE stands for a name missing from the workloads dict.
WorkloadState == [registered : BOOLEAN, conn : Conn \cup {NoConn},
                  checkpointed : BOOLEAN, failed : BOOLEAN]
NoState == [registered |-> FALSE, conn |-> NoConn,
            checkpointed |-> FALSE, failed |-> FALSE]

\* The state of every component is well formed.
TypeOK ==
  /\ workloads \in [Workload -> WorkloadState]
  /\ waiting \in Seq(Workload)
  /\ running \in [Claim -> Workload \cup {NoWorkload}]
  /\ released \in Seq(Workload)
  /\ phase \in [Conn -> Phase]
  /\ owner \in [Conn -> Workload \cup {NoWorkload}]
  /\ conn \in [Workload -> Conn \cup {NoConn}]
  /\ status \in [Workload -> Status]
  /\ mem \in [Workload -> Memory]

Init ==
  /\ workloads = [w \in Workload |-> NoState]
  /\ waiting = <<>>
  /\ running = [k \in Claim |-> NoWorkload]
  /\ released = <<>>
  /\ phase = [c \in Conn |-> "closed"]
  /\ owner = [c \in Conn |-> NoWorkload]
  /\ conn = [w \in Workload |-> NoConn]
  /\ status = [w \in Workload |-> "down"]
  /\ mem = [w \in Workload |-> "none"]

-----------------------------------------------------------------------------
(* Helpers.  An operator marked "Mutated" is no part of the model: it is a  *)
(* plausible error in the definition after it, kept to show that the        *)
(* properties notice it.                                                    *)

IsWaiting(w) == w \in Range(waiting)
Live(c) == owner[c] # NoWorkload /\ conn[owner[c]] = c

\* A faulted process that met an error answer has closed the connection which
\* its record is bound to; one that it opens later is bound to nothing.
LetGo(w) ==
  /\ status[w] = "faulted"
  /\ conn[w] = NoConn \/ workloads[w].conn # conn[w]

\* The workers whose memory may be on the devices of somebody else's claim.
Leaving(w) == status[w] = "exiting" \/ LetGo(w)

\* Mutated: the most recently released first.
LastReleaseNewest(w) ==
  IF w \in Range(released)
  THEN Len(released) - (CHOOSE i \in DOMAIN released : released[i] = w)
  ELSE Len(released)

\* last_release_time: its rank, 0 for a name that was never released.
LastRelease(w) ==
  IF w \in Range(released) THEN CHOOSE i \in DOMAIN released : released[i] = w ELSE 0

\* The waiter the claim's next grant goes to: the earliest under fifo, the
\* earliest of the least recently released otherwise.
NextWaiter(k) ==
  LET q == SelectSeq(waiting, LAMBDA w : ClaimOf[w] = k)
      first == CHOOSE i \in DOMAIN q : \A j \in DOMAIN q :
                 \/ LastRelease(q[i]) < LastRelease(q[j])
                 \/ LastRelease(q[i]) = LastRelease(q[j]) /\ i <= j
  IN  CASE q = <<>> -> NoWorkload
        [] q # <<>> /\ Policy = "fifo" -> Head(q)
        [] OTHER -> q[first]

\* Mutated: the grant is forgotten.
ClearPlaceOnly(w) ==
  /\ waiting' = RemoveFirst(waiting, w)
  /\ UNCHANGED running

\* Mutated: whoever holds the claim loses it.
ClearWholeClaim(w) ==
  /\ waiting' = RemoveFirst(waiting, w)
  /\ running' = [running EXCEPT ![ClaimOf[w]] = NoWorkload]

\* clear_workload: off the waiting deque and off every claim it holds.
ClearWorkload(w) ==
  /\ waiting' = RemoveFirst(waiting, w)
  /\ running' = [k \in Claim |-> IF running[k] = w THEN NoWorkload ELSE running[k]]

\* The handler writes its answer and goes back to reading; the answer moves
\* the client on only if the client is still there.
Answer(c, s) ==
  /\ phase' = [phase EXCEPT ![c] = "idle"]
  /\ status' = IF Live(c) THEN [status EXCEPT ![owner[c]] = s] ELSE status
  /\ UNCHANGED owner

-----------------------------------------------------------------------------
(* Connections and registration *)

\* Mutated: the name is kept in place of the connection.
ConnectByName(w, c) ==
  /\ phase[c] = "closed"
  /\ \A d \in Conn : owner[d] = w => phase[d] # "idle"
  /\ phase' = [phase EXCEPT ![c] = "idle"]
  /\ owner' = [owner EXCEPT ![c] = w]
  /\ conn' = [conn EXCEPT ![w] = w]

\* The client connects.  The loop sees the end of an idle connection before
\* the first line of one the same worker opens afterwards.
Connect(w, c) ==
  /\ phase[c] = "closed"
  /\ \A d \in Conn : owner[d] = w => phase[d] # "idle"
  /\ phase' = [phase EXCEPT ![c] = "idle"]
  /\ owner' = [owner EXCEPT ![c] = w]
  /\ conn' = [conn EXCEPT ![w] = c]

\* Mutated: an earlier process's failure sticks.
RegisteredStillFailed(w, c) ==
  [workloads[w] EXCEPT !.registered = TRUE, !.conn = c]

\* REGISTER: a new record, or the known one taken over by the connection with
\* its failure cleared.
Registered(w, c) ==
  [workloads[w] EXCEPT !.registered = TRUE, !.conn = c, !.failed = FALSE]

\* A worker process starts, connects and registers.
Start(w, c) ==
  /\ status[w] = "down"
  /\ Connect(w, c)
  /\ workloads' = [workloads EXCEPT ![w] = Registered(w, c)]
  /\ status' = [status EXCEPT ![w] = "ready"]
  /\ UNCHANGED <<waiting, running, released, mem>>

\* The same when the daemon has no connection of an earlier process left.
StartAlone(w, c) ==
  /\ \A d \in Conn : owner[d] # w
  /\ Start(w, c)

\* After an error closed its connection, the client connects again for its
\* next command.  It does not register again.
Reconnect(w, c) ==
  /\ status[w] \in {"ready", "faulted"}
  /\ conn[w] = NoConn
  /\ Connect(w, c)
  /\ UNCHANGED <<daemonVars, status, mem>>

\* An idle handler reads the end of its stream.  Every record bound to the
\* connection loses its place and its grant and is failed.
ConnectionClosed(c) ==
  /\ phase[c] = "idle"
  /\ ~Live(c)
  /\ LET w == owner[c] IN
       IF workloads[w].conn = c
       THEN /\ ClearWorkload(w)
            /\ workloads' = [workloads EXCEPT ![w].conn = NoConn,
                                              ![w].failed = TRUE,
                                              ![w].checkpointed = FALSE]
       ELSE UNCHANGED <<workloads, waiting, running>>
  /\ phase' = [phase EXCEPT ![c] = "closed"]
  /\ owner' = [owner EXCEPT ![c] = NoWorkload]
  /\ UNCHANGED <<released, clientVars>>

-----------------------------------------------------------------------------
(* ACQUIRE *)

\* A process between turns.  A faulted one asks, too: for the saves of its
\* batch when it does not offload, and for its next batch when the one before
\* ended in an exception.  A handler whose name was taken off the deque wakes
\* before the daemon reads another command, see Unavailable.
CanAsk(w) ==
  /\ status[w] \in {"ready", "faulted"}
  /\ conn[w] # NoConn
  /\ \A c \in Conn : owner[c] = w /\ phase[c] = "waiting" => IsWaiting(w)

\* Mutated: only a failed workload is refused.
RefusedIfFailed(w) == workloads[w].failed

\* acquire's two early error returns.
Refused(w) ==
  \/ workloads[w].failed
  \/ IsWaiting(w)
  \/ running[ClaimOf[w]] = w

\* An ACQUIRE under an unknown name creates its record, bound to no
\* connection.
CreateIfMissing(w) == workloads' = [workloads EXCEPT ![w].registered = TRUE]

Acquire(w) ==
  /\ CanAsk(w)
  /\ ~Refused(w)
  /\ CreateIfMissing(w)
  /\ waiting' = Append(waiting, w)
  /\ phase' = [phase EXCEPT ![conn[w]] = "waiting"]
  /\ status' = [status EXCEPT ![w] = "asking"]
  /\ UNCHANGED <<running, released, owner, conn, mem>>

\* An error answer makes the client close its connection; the process goes on
\* to its next batch.
AcquireRefused(w) ==
  /\ CanAsk(w)
  /\ Refused(w)
  /\ conn' = [conn EXCEPT ![w] = NoConn]
  /\ UNCHANGED <<daemonVars, connVars, status, mem>>

\* Mutated: the name stays on the deque.
TakeAndStay(w) ==
  /\ running' = [running EXCEPT ![ClaimOf[w]] = w]
  /\ UNCHANGED waiting

\* Off the deque and into the seat.
Take(w) ==
  /\ waiting' = RemoveFirst(waiting, w)
  /\ running' = [running EXCEPT ![ClaimOf[w]] = w]

\* A waiter whose turn it is takes the grant, and restores the workload
\* first if its last release checkpointed it.
Grant(c) ==
  /\ phase[c] = "waiting"
  /\ LET w == owner[c]
         k == ClaimOf[w]
     IN  /\ IsWaiting(w)
         /\ running[k] = NoWorkload
         /\ NextWaiter(k) = w
         /\ Take(w)
         /\ IF workloads[w].checkpointed
            THEN /\ phase' = [phase EXCEPT ![c] = "restoring"]
                 /\ UNCHANGED <<owner, status>>
            ELSE Answer(c, "holding")
  /\ UNCHANGED <<workloads, released, conn, mem>>

\* A waiter whose name was cleared meanwhile is answered with an error.
Unavailable(c) ==
  /\ phase[c] = "waiting"
  /\ ~IsWaiting(owner[c])
  /\ ClearWorkload(owner[c])
  /\ Answer(c, "ready")
  /\ conn' = IF Live(c) THEN [conn EXCEPT ![owner[c]] = NoConn] ELSE conn
  /\ UNCHANGED <<workloads, released, mem>>

\* run_restore swallows a failure: either way the record stops being
\* checkpointed and the client is told that it holds the devices.
RestoreDone(c) ==
  /\ phase[c] = "restoring"
  /\ workloads' = [workloads EXCEPT ![owner[c]].checkpointed = FALSE]
  /\ Answer(c, "holding")
  /\ UNCHANGED <<waiting, running, released, conn>>

RestoreOk(c) ==
  /\ RestoreDone(c)
  /\ mem' = IF Live(c) /\ mem[owner[c]] = "parked"
            THEN [mem EXCEPT ![owner[c]] = "device"] ELSE mem

RestoreFailed(c) ==
  /\ RestoreDone(c)
  /\ UNCHANGED mem

-----------------------------------------------------------------------------
(* RELEASE *)

Release(w) ==
  /\ status[w] = "holding"
  /\ conn[w] # NoConn
  /\ workloads[w].registered
  /\ running[ClaimOf[w]] = w
  /\ phase' = [phase EXCEPT ![conn[w]] = "checkpointing"]
  /\ status' = [status EXCEPT ![w] = "parking"]
  /\ UNCHANGED <<daemonVars, owner, conn, mem>>

\* The release of a grant the daemon no longer knows is an error.
ReleaseRefused(w) ==
  /\ status[w] = "holding"
  /\ \/ conn[w] = NoConn
     \/ running[ClaimOf[w]] # w
  /\ conn' = [conn EXCEPT ![w] = NoConn]
  /\ status' = [status EXCEPT ![w] = "ready"]
  /\ UNCHANGED <<daemonVars, connVars, mem>>

Released(c, parked) ==
  LET w == owner[c] IN
  /\ phase[c] = "checkpointing"
  /\ workloads' = [workloads EXCEPT ![w].checkpointed = parked /\ workloads[w].registered]
  /\ released' = Append(RemoveFirst(released, w), w)
  /\ ClearWorkload(w)
  /\ Answer(c, "ready")
  /\ UNCHANGED conn

\* The restorer froze the process and moved its memory off the devices.
CheckpointParked(c) ==
  /\ Released(c, TRUE)
  /\ mem' = IF Live(c) THEN [mem EXCEPT ![owner[c]] = "parked"] ELSE mem

\* The restorer found no process of this workload on the devices.
CheckpointSkipped(c) ==
  /\ Live(c) => mem[owner[c]] # "device"
  /\ Released(c, FALSE)
  /\ UNCHANGED mem

\* The restorer lists no process at all when nvidia-smi fails, so it skips
\* one that is on the devices and the release succeeds.
CheckpointBlind(c) ==
  /\ Live(c) /\ mem[owner[c]] = "device"
  /\ Released(c, FALSE)
  /\ UNCHANGED mem

\* Mutated: the grant is freed as after a successful release.
CheckpointFailedFrees(c) ==
  /\ phase[c] = "checkpointing"
  /\ workloads' = [workloads EXCEPT ![owner[c]].checkpointed = FALSE,
                                    ![owner[c]].failed = workloads[owner[c]].registered]
  /\ ClearWorkload(owner[c])
  /\ Answer(c, "faulted")
  /\ UNCHANGED <<released, conn, mem>>

\* A workload that could not be parked keeps its grant and is failed.
CheckpointFailed(c) ==
  /\ phase[c] = "checkpointing"
  /\ workloads' = [workloads EXCEPT ![owner[c]].checkpointed = FALSE,
                                    ![owner[c]].failed = workloads[owner[c]].registered]
  /\ Answer(c, "faulted")
  /\ UNCHANGED <<waiting, running, released, conn, mem>>

-----------------------------------------------------------------------------
(* The worker process *)

\* The holder puts something on the devices: an engine, a training step.
Load(w) ==
  /\ status[w] = "holding"
  /\ mem[w] = "none"
  /\ mem' = [mem EXCEPT ![w] = "device"]
  /\ UNCHANGED <<daemonVars, connVars, conn, status>>

\* exit_gracefully: UNREGISTER, close, then exit.  A trainer does so between
\* turns, a sampler on its shutdown request in a turn, and on SIGTERM anywhere.
Leave(w) ==
  /\ status[w] \in {"ready", "holding", "faulted"}
  /\ conn[w] # NoConn
  /\ ClearWorkload(w)
  /\ workloads' = [workloads EXCEPT ![w] = NoState]
  /\ conn' = [conn EXCEPT ![w] = NoConn]
  /\ status' = [status EXCEPT ![w] = "exiting"]
  /\ UNCHANGED <<released, connVars, mem>>

\* exit_gracefully of a process that finds itself faulted: it closes without
\* unregistering.  It need not come to that: without further requests, or when
\* each of its batches fails, it goes on polling.
Quit(w) ==
  /\ status[w] = "faulted"
  /\ conn' = [conn EXCEPT ![w] = NoConn]
  /\ status' = [status EXCEPT ![w] = "exiting"]
  /\ UNCHANGED <<daemonVars, connVars, mem>>

Gone(w) ==
  /\ conn' = [conn EXCEPT ![w] = NoConn]
  /\ status' = [status EXCEPT ![w] = "down"]
  /\ mem' = [mem EXCEPT ![w] = "none"]
  /\ UNCHANGED <<daemonVars, connVars>>

\* os._exit, after the connection was closed.
Exit(w) == status[w] = "exiting" /\ Gone(w)

\* The process is killed: its memory and its socket go with it.
Crash(w) == status[w] \notin {"down", "exiting"} /\ Gone(w)

-----------------------------------------------------------------------------
(* Specifications *)

Serve(c) ==
  \/ Grant(c)
  \/ RestoreOk(c)
  \/ RestoreFailed(c)
  \/ CheckpointParked(c)
  \/ CheckpointSkipped(c)
  \/ CheckpointFailed(c)
  \/ ConnectionClosed(c)

Work(w) ==
  \/ Acquire(w)
  \/ AcquireRefused(w)
  \/ Load(w)
  \/ Release(w)
  \/ Leave(w)
  \/ Quit(w)
  \/ Exit(w)
  \/ Crash(w)

\* A daemon that stays up, and workers whose replacement registers only once
\* every connection of the process before it is closed.  The other two error
\* answers are left out: OnlyFaultedRefused says that they are never given.
Next ==
  \/ \E c \in Conn : Serve(c)
  \/ \E w \in Workload : Work(w)
  \/ \E w \in Workload, c \in Conn : StartAlone(w, c) \/ Reconnect(w, c)

Spec == Init /\ [][Next]_vars

\* The daemon does not wait for that: a replacement may register while a
\* handler still works for the process before it.
OverlapNext ==
  \/ \E c \in Conn : Serve(c) \/ Unavailable(c)
  \/ \E w \in Workload : Work(w) \/ ReleaseRefused(w)
  \/ \E w \in Workload, c \in Conn : Start(w, c) \/ Reconnect(w, c)

OverlapSpec == Init /\ [][OverlapNext]_vars

\* The daemon process restarts: it keeps nothing on disk.  Every connection
\* breaks, and a command that was pending fails at the client.
DaemonRestart ==
  /\ workloads' = [w \in Workload |-> NoState]
  /\ waiting' = <<>>
  /\ running' = [k \in Claim |-> NoWorkload]
  /\ released' = <<>>
  /\ phase' = [c \in Conn |-> "closed"]
  /\ owner' = [c \in Conn |-> NoWorkload]
  /\ conn' = [w \in Workload |-> NoConn]
  /\ status' = [w \in Workload |->
                  IF status[w] \in {"asking", "parking"} THEN "ready" ELSE status[w]]
  /\ UNCHANGED mem

\* Everything at once: replacements that overlap, a restarting daemon and a
\* restorer whose process listing fails.  A faulted process that a restarted
\* daemon grants a turn counts as a sound one from then on.
RoughNext ==
  \/ OverlapNext
  \/ DaemonRestart
  \/ \E c \in Conn : CheckpointBlind(c)

RoughSpec == Init /\ [][RoughNext]_vars

\* Handlers finish what they do, a free claim is granted when somebody waits
\* for it, holders release in the end and processes that exit are gone.  No
\* worker has to ask, and a faulted one does not have to exit.
GrantOn(k) == \E c \in Conn : phase[c] = "waiting" /\ ClaimOf[owner[c]] = k /\ Grant(c)

Settle(c) ==
  \/ RestoreOk(c)
  \/ RestoreFailed(c)
  \/ CheckpointParked(c)
  \/ CheckpointSkipped(c)
  \/ CheckpointFailed(c)
  \/ ConnectionClosed(c)

Fairness ==
  /\ \A k \in Claim : WF_vars(GrantOn(k))
  /\ \A c \in Conn : WF_vars(Settle(c))
  /\ \A w \in Workload : WF_vars(Release(w) \/ Exit(w))

FairSpec == Spec /\ Fairness

\* The least recently released first serves everybody once failures cease: a
\* name that is killed, taken down or not parked in each of its turns is never
\* released and would go first for ever.  Who is faulted by then may stay.
NoFailure ==
  \A w \in Workload :
    /\ status'[w] = "faulted" => status[w] = "faulted"
    /\ status'[w] = "exiting" => status[w] \in {"ready", "faulted", "exiting"}
    /\ status'[w] = "down" => status[w] \in {"down", "exiting"}

LrsSpec == FairSpec /\ <>[][NoFailure]_vars

-----------------------------------------------------------------------------
(* Properties *)

\* A process that uses the devices or is being parked has its claim's grant at
\* the daemon: two views that only messages connect.  One that could not be
\* parked has it as long as it keeps the connection it registered through.
HolderHasGrant ==
  \A w \in Workload :
    \/ status[w] \in {"holding", "parking"}
    \/ status[w] = "faulted" /\ ~LetGo(w)
    => running[ClaimOf[w]] = w

\* No two processes have memory on the same devices, unless one of them is
\* exiting, or was faulted and closed its connection over a refused ACQUIRE.
DeviceExclusive ==
  \A v, w \in Workload :
    /\ v # w
    /\ ClaimOf[v] = ClaimOf[w]
    /\ mem[v] = "device"
    /\ mem[w] = "device"
    => Leaving(v) \/ Leaving(w)

\* Every grant has an occupant with whom it ends: a process in its turn or one
\* that could not be parked, a handler working on it, or an ended connection
\* whose closing frees it.
Occupies(w) ==
  \/ status[w] \in {"holding", "parking"}
  \/ status[w] = "faulted" /\ ~LetGo(w)
  \/ \E c \in Conn : /\ owner[c] = w
                     /\ \/ phase[c] \in {"restoring", "checkpointing"}
                        \/ phase[c] = "idle" /\ ~Live(c) /\ workloads[w].conn = c

SeatHasOccupant ==
  \A k \in Claim : running[k] # NoWorkload => Occupies(running[k])

\* The deque holds exactly the names whose handlers wait, each once, and
\* none of them also holds its claim: no waiter is forgotten or doubled.
QueueMatchesHandlers ==
  /\ \A i, j \in DOMAIN waiting : waiting[i] = waiting[j] => i = j
  /\ Range(waiting) = {owner[c] : c \in {d \in Conn : phase[d] = "waiting"}}
  /\ \A w \in Range(waiting) : running[ClaimOf[w]] # w

\* Who could not be parked gets no further turn, through whatever connection
\* it asks, and nobody else meets an error answer: every other ACQUIRE is
\* taken, every RELEASE finds its grant, no waiter loses its place.
OnlyFaultedRefused ==
  /\ \A w \in Workload : CanAsk(w) => (Refused(w) <=> status[w] = "faulted")
  /\ \A w \in Workload :
       status[w] = "holding" => conn[w] # NoConn /\ running[ClaimOf[w]] = w
  /\ \A c \in Conn : phase[c] = "waiting" => IsWaiting(owner[c])

\* Whatever processes overlap or restarts happen, next_waiter finds every
\* waiting name in the workloads dict, and exactly one handler waits for it.
WaitersAreServed ==
  /\ \A i, j \in DOMAIN waiting : waiting[i] = waiting[j] => i = j
  /\ \A w \in Range(waiting) :
       /\ workloads[w].registered
       /\ \E c \in Conn : \A d \in Conn : owner[d] = w /\ phase[d] = "waiting" <=> d = c

\* A process that asked for its claim is answered, or dies, unless one that
\* could not be parked stays and keeps the grant for good.
NoStarvation ==
  \A w \in Workload :
    \/ []<>(status[w] # "asking")
    \/ <>[](\E v \in Workload : status[v] = "faulted" /\ running[ClaimOf[w]] = v)

\* The seat protocol a claim's workers rely on, see DeviceLease.
Lease == INSTANCE DeviceLease WITH
  holder <- running,
  onDevice <- {w \in Workload : mem[w] = "device"},
  leaving <- {w \in Workload : Leaving(w)}

LeaseSpec == Lease!Spec

===============================================================================
