------------------------------ MODULE SessionReaper -----------------------------
(***************************************************************************)
(* Whose workers run: the API server's handlers bind client sessions to    *)
(* owners (src/server/session_registry.py) and ask the worker manager for  *)
(* an owner's workers (src/server/scheduler_worker_manager.py); its reaper *)
(* tears down the workers of owners without a live session                 *)
(* (src/server/api_server.py).  The registry is in Redis, one command is   *)
(* one step; the locks are in the memory of the one API server.            *)
(***************************************************************************)
EXTENDS FiniteSets

CONSTANTS
  Session,  \* client sessions
  Owner,    \* runtimes: a fully fine-tuned model, or a LoRA base model
  Shared,   \* the LoRA ones, which no single model's deletion tears down
  Role,     \* trainer and sampler
  None,     \* nobody
  Reaper    \* reap_dead_sessions, as the holder of a lock

ASSUME ReaperAssumption ==
  /\ Shared \subseteq Owner
  /\ None \notin Session \cup Owner \cup {Reaper}
  /\ Reaper \notin Session

VARIABLES
  client,    \* the program behind a session: "new", "alive" or "gone"
  using,     \* the workers that its calls were answered for
  \* the registry
  live,      \* the sessions with an unexpired heartbeat
  owners,    \* open_rl:owners
  members,   \* open_rl:owner:<owner>
  \* the Workload objects
  workload,  \* of each owner and role: "none", "up" or "deleting"
  late,      \* history: those that a call created, and left up, after the
             \* reaper had dropped its session
  \* the API server
  lock,      \* owner_locks: who holds each
  pc,        \* where the handler of each session is
  owner,     \* the owner of the worker it asks for
  role,      \* and its role
  reaper,    \* where reap_dead_sessions is
  sweep,     \* owners left of its sweep
  target,    \* the owner it is at
  seen,      \* members left to check in in_use
  dead,      \* the one it found dead
  found      \* workers left to delete in release_owner

clientVars == <<client, using>>
registryVars == <<live, owners, members>>
handlerVars == <<pc, owner, role>>
reaperVars == <<reaper, sweep, target, seen, dead, found>>
workloadVars == <<workload, late>>
vars == <<clientVars, registryVars, workloadVars, lock, handlerVars, reaperVars>>

HandlerPC == {"idle", "lock", "beat", "list", "join", "ensure", "check"}
ReaperPC == {"sleep", "next", "members", "live", "drop", "again", "release",
             "delete", "forget", "unlist"}

\* Every component of the state is well formed.
TypeOK ==
  /\ client \in [Session -> {"new", "alive", "gone"}]
  /\ using \in [Session -> SUBSET (Owner \X Role)]
  /\ live \in SUBSET Session
  /\ owners \in SUBSET Owner
  /\ members \in [Owner -> SUBSET Session]
  /\ workload \in [Owner \X Role -> {"none", "up", "deleting"}]
  /\ late \in SUBSET (Owner \X Role)
  /\ lock \in [Owner -> Session \cup {None, Reaper}]
  /\ pc \in [Session -> HandlerPC]
  /\ owner \in [Session -> Owner \cup {None}]
  /\ role \in [Session -> Role \cup {None}]
  /\ reaper \in ReaperPC
  /\ sweep \in SUBSET Owner
  /\ target \in Owner \cup {None}
  /\ seen \in SUBSET Session
  /\ dead \in Session \cup {None}
  /\ found \in SUBSET Role

Init ==
  /\ client = [s \in Session |-> "new"]
  /\ using = [s \in Session |-> {}]
  /\ live = {}
  /\ owners = {}
  /\ members = [o \in Owner |-> {}]
  /\ workload = [w \in Owner \X Role |-> "none"]
  /\ late = {}
  /\ lock = [o \in Owner |-> None]
  /\ pc = [s \in Session |-> "idle"]
  /\ owner = [s \in Session |-> None]
  /\ role = [s \in Session |-> None]
  /\ reaper = "sleep"
  /\ sweep = {}
  /\ target = None
  /\ seen = {}
  /\ dead = None
  /\ found = {}

-----------------------------------------------------------------------------
(* Clients and their heartbeats.  A definition marked "Mutated" is no part  *)
(* of the model: it is a plausible error in the one after it.               *)

\* create_session
CreateSession(s) ==
  /\ client[s] = "new"
  /\ client' = [client EXCEPT ![s] = "alive"]
  /\ live' = live \cup {s}
  /\ UNCHANGED <<using, owners, members, workloadVars, lock, handlerVars, reaperVars>>

\* The program ends, or is cut off.
ClientGone(s) ==
  /\ client[s] = "alive"
  /\ client' = [client EXCEPT ![s] = "gone"]
  /\ using' = [using EXCEPT ![s] = {}]
  /\ UNCHANGED <<registryVars, workloadVars, lock, handlerVars, reaperVars>>

\* No heartbeat for ttl_seconds.  A call of the session may still be under way:
\* ensure waits for up to three minutes.
Expire(s) ==
  /\ s \in live
  /\ client[s] = "gone"
  /\ live' = live \ {s}
  /\ UNCHANGED <<clientVars, owners, members, workloadVars, lock, handlerVars, reaperVars>>

\* create_model, create_model_from_state and create_sampling_session bind the
\* session and ask for a trainer or a sampler; bind_session takes the lock.
Ask(s, o, r) ==
  /\ client[s] = "alive"
  /\ pc[s] = "idle"
  /\ pc' = [pc EXCEPT ![s] = "lock"]
  /\ owner' = [owner EXCEPT ![s] = o]
  /\ role' = [role EXCEPT ![s] = r]
  /\ UNCHANGED <<clientVars, registryVars, workloadVars, lock, reaperVars>>

\* save_weights_for_sampler asks for the sampler of a model it has a trainer
\* for, and binds nothing.
AskUnbound(s, o, r) ==
  /\ client[s] = "alive"
  /\ pc[s] = "idle"
  /\ \E q \in Role : <<o, q>> \in using[s]
  /\ pc' = [pc EXCEPT ![s] = "ensure"]
  /\ owner' = [owner EXCEPT ![s] = o]
  /\ role' = [role EXCEPT ![s] = r]
  /\ UNCHANGED <<clientVars, registryVars, workloadVars, lock, reaperVars>>

-----------------------------------------------------------------------------
(* bind_session *)

\* Mutated: attaching takes no lock.
LockNot(s) ==
  /\ pc[s] = "lock"
  /\ pc' = [pc EXCEPT ![s] = "beat"]
  /\ UNCHANGED <<clientVars, registryVars, workloadVars, lock, owner, role, reaperVars>>

Lock(s) ==
  /\ pc[s] = "lock"
  /\ lock[owner[s]] = None
  /\ lock' = [lock EXCEPT ![owner[s]] = s]
  /\ pc' = [pc EXCEPT ![s] = "beat"]
  /\ UNCHANGED <<clientVars, registryVars, workloadVars, owner, role, reaperVars>>

\* attach counts as a heartbeat.
AttachBeat(s) ==
  /\ pc[s] = "beat"
  /\ live' = live \cup {s}
  /\ pc' = [pc EXCEPT ![s] = "list"]
  /\ UNCHANGED <<clientVars, owners, members, workloadVars, lock, owner, role, reaperVars>>

\* Mutated: the owner is expected to be listed already.
AttachListNot(s) ==
  /\ pc[s] = "list"
  /\ pc' = [pc EXCEPT ![s] = "join"]
  /\ UNCHANGED <<clientVars, registryVars, workloadVars, lock, owner, role, reaperVars>>

AttachList(s) ==
  /\ pc[s] = "list"
  /\ owners' = owners \cup {owner[s]}
  /\ pc' = [pc EXCEPT ![s] = "join"]
  /\ UNCHANGED <<clientVars, live, members, workloadVars, lock, owner, role, reaperVars>>

\* The session joins the owner's set, and the lock is free again.
AttachJoin(s) ==
  /\ pc[s] = "join"
  /\ members' = [members EXCEPT ![owner[s]] = @ \cup {s}]
  /\ lock' = [lock EXCEPT ![owner[s]] = None]
  /\ pc' = [pc EXCEPT ![s] = "ensure"]
  /\ UNCHANGED <<clientVars, live, owners, workloadVars, owner, role, reaperVars>>

-----------------------------------------------------------------------------
(* ensure *)

\* The handler is through; what it returned is what its client relies on.
Answered(s) ==
  /\ pc' = [pc EXCEPT ![s] = "idle"]
  /\ owner' = [owner EXCEPT ![s] = None]
  /\ role' = [role EXCEPT ![s] = None]

Promised(s) ==
  using' = [using EXCEPT ![s] = IF client[s] = "alive" THEN @ \cup {<<owner[s], role[s]>>} ELSE @]

\* Creating the Workload; a name that exists is a conflict.  The session may
\* have been dropped since it joined, if its client is gone.
Create(s) ==
  /\ pc[s] = "ensure"
  /\ IF workload[<<owner[s], role[s]>>] = "none"
     THEN /\ workload' = [workload EXCEPT ![<<owner[s], role[s]>>] = "up"]
          /\ late' = IF s \in members[owner[s]] THEN late
                     ELSE late \cup {<<owner[s], role[s]>>}
          /\ Answered(s)
          /\ Promised(s)
     ELSE /\ pc' = [pc EXCEPT ![s] = "check"]
          /\ UNCHANGED <<using, workloadVars, owner, role>>
  /\ UNCHANGED <<client, registryVars, lock, reaperVars>>

\* still_deleting: one that is not is reused, else the creation is retried.
Check(s) ==
  /\ pc[s] = "check"
  /\ IF workload[<<owner[s], role[s]>>] = "up"
     THEN Answered(s) /\ Promised(s)
     ELSE pc' = [pc EXCEPT ![s] = "ensure"] /\ UNCHANGED <<using, owner, role>>
  /\ UNCHANGED <<client, registryVars, workloadVars, lock, reaperVars>>

\* ensure gives up after three minutes, or a call to Kubernetes fails.
EnsureFails(s) ==
  /\ pc[s] \in {"ensure", "check"}
  /\ Answered(s)
  /\ UNCHANGED <<clientVars, registryVars, workloadVars, lock, reaperVars>>

\* delete_model of a fully fine-tuned model, by its client: nobody can rely on
\* its workers from then on.  release_owner runs without the lock.
DeleteModel(s, o) ==
  /\ client[s] = "alive"
  /\ pc[s] = "idle"
  /\ o \notin Shared
  /\ \E r \in Role : <<o, r>> \in using[s]
  /\ workload' = [w \in Owner \X Role |->
                    IF w[1] = o /\ workload[w] = "up" THEN "deleting" ELSE workload[w]]
  /\ late' = {w \in late : w[1] # o}
  /\ using' = [t \in Session |-> {w \in using[t] : w[1] # o}]
  /\ UNCHANGED <<client, registryVars, lock, handlerVars, reaperVars>>

\* The scheduler's finalizer is done.
WorkloadGone(o, r) ==
  /\ workload[<<o, r>>] = "deleting"
  /\ workload' = [workload EXCEPT ![<<o, r>>] = "none"]
  /\ UNCHANGED <<late, clientVars, registryVars, lock, handlerVars, reaperVars>>

-----------------------------------------------------------------------------
(* reap_dead_sessions *)

\* reap_owner leaves the owner it is at.
Unlock ==
  /\ lock' = [lock EXCEPT ![target] = None]
  /\ target' = None
  /\ reaper' = "next"

SweepBegin ==
  /\ reaper = "sleep"
  /\ owners # {}
  /\ sweep' = owners
  /\ reaper' = "next"
  /\ UNCHANGED <<clientVars, registryVars, workloadVars, lock, handlerVars, target, seen, dead, found>>

SweepEnd ==
  /\ reaper = "next"
  /\ sweep = {}
  /\ reaper' = "sleep"
  /\ UNCHANGED <<clientVars, registryVars, workloadVars, lock, handlerVars, sweep, target, seen, dead, found>>

\* reap_owner takes the owner's lock.
ReapLock(o) ==
  /\ reaper = "next"
  /\ o \in sweep
  /\ lock[o] = None
  /\ lock' = [lock EXCEPT ![o] = Reaper]
  /\ sweep' = sweep \ {o}
  /\ target' = o
  /\ reaper' = "members"
  /\ UNCHANGED <<clientVars, registryVars, workloadVars, handlerVars, seen, dead, found>>

\* in_use: the members,
ReapMembers ==
  /\ reaper = "members"
  /\ seen' = members[target]
  /\ reaper' = "live"
  /\ UNCHANGED <<clientVars, registryVars, workloadVars, lock, handlerVars, sweep, target, dead, found>>

\* whether each is live,
ReapLive(s) ==
  /\ reaper = "live"
  /\ s \in seen
  /\ IF s \in live
     THEN seen' = seen \ {s} /\ UNCHANGED reaper
     ELSE UNCHANGED seen /\ reaper' = "drop"
  /\ dead' = IF s \in live THEN dead ELSE s
  /\ UNCHANGED <<clientVars, registryVars, workloadVars, lock, handlerVars, sweep, target, found>>

\* Mutated: a dead session is passed over.
ReapDropNot ==
  /\ reaper = "drop"
  /\ seen' = seen \ {dead}
  /\ dead' = None
  /\ reaper' = "live"
  /\ UNCHANGED <<clientVars, registryVars, workloadVars, lock, handlerVars, sweep, target, found>>

\* if not its removal,
ReapDrop ==
  /\ reaper = "drop"
  /\ members' = [members EXCEPT ![target] = @ \ {dead}]
  /\ seen' = seen \ {dead}
  /\ dead' = None
  /\ reaper' = "live"
  /\ UNCHANGED <<clientVars, live, owners, workloadVars, lock, handlerVars, sweep, target, found>>

\* and whether any is left.
ReapAgain ==
  /\ reaper = "live"
  /\ seen = {}
  /\ IF members[target] = {}
     THEN reaper' = "release" /\ UNCHANGED <<lock, target>>
     ELSE Unlock
  /\ UNCHANGED <<clientVars, registryVars, workloadVars, handlerVars, sweep, seen, dead, found>>

\* Mutated: the Workloads of every owner.
ReapListAll ==
  /\ reaper = "release"
  /\ found' = {w \in Owner \X Role : workload[w] # "none"}
  /\ reaper' = "delete"
  /\ UNCHANGED <<clientVars, registryVars, workloadVars, lock, handlerVars, sweep, target, seen, dead>>

\* release_owner lists the owner's Workloads
ReapList ==
  /\ reaper = "release"
  /\ found' = {r \in Role : workload[<<target, r>>] # "none"}
  /\ reaper' = "delete"
  /\ UNCHANGED <<clientVars, registryVars, workloadVars, lock, handlerVars, sweep, target, seen, dead>>

\* and deletes each; one that is gone does not matter.
ReapDelete(r) ==
  /\ reaper = "delete"
  /\ r \in found
  /\ workload' = [workload EXCEPT ![<<target, r>>] = IF @ = "up" THEN "deleting" ELSE @]
  /\ late' = late \ {<<target, r>>}
  /\ found' = found \ {r}
  /\ UNCHANGED <<clientVars, registryVars, lock, handlerVars, reaper, sweep, target, seen, dead>>

\* forget deletes the owner's set
ReapForget ==
  /\ reaper = "delete"
  /\ found = {}
  /\ members' = [members EXCEPT ![target] = {}]
  /\ reaper' = "unlist"
  /\ UNCHANGED <<clientVars, live, owners, workloadVars, lock, handlerVars, sweep, target, seen, dead, found>>

\* and unlists the owner; the lock is free again.
ReapUnlist ==
  /\ reaper = "unlist"
  /\ owners' = owners \ {target}
  /\ Unlock
  /\ UNCHANGED <<clientVars, live, members, workloadVars, handlerVars, sweep, seen, dead, found>>

\* A call raises: the owner is left to the next sweep.
ReapFails ==
  /\ reaper \notin {"sleep", "next"}
  /\ Unlock
  /\ seen' = {}
  /\ dead' = None
  /\ found' = {}
  /\ UNCHANGED <<clientVars, registryVars, workloadVars, handlerVars, sweep>>

\* The API server restarts: its handlers and locks are gone, the store stays.
ServerRestart ==
  /\ lock' = [o \in Owner |-> None]
  /\ pc' = [s \in Session |-> "idle"]
  /\ owner' = [s \in Session |-> None]
  /\ role' = [s \in Session |-> None]
  /\ reaper' = "sleep"
  /\ sweep' = {}
  /\ target' = None
  /\ seen' = {}
  /\ dead' = None
  /\ found' = {}
  /\ UNCHANGED <<clientVars, registryVars, workloadVars>>

-----------------------------------------------------------------------------
(* Specifications *)

Handle(s) ==
  \/ Lock(s)
  \/ AttachBeat(s)
  \/ AttachList(s)
  \/ AttachJoin(s)
  \/ Create(s)
  \/ Check(s)

\* ensure ends, one way or another: its deadline is three minutes.
Ensured(s) == (Create(s) \/ Check(s) \/ EnsureFails(s)) /\ pc'[s] = "idle"

Reap ==
  \/ SweepBegin
  \/ SweepEnd
  \/ \E o \in Owner : ReapLock(o)
  \/ ReapMembers
  \/ \E s \in Session : ReapLive(s)
  \/ ReapDrop
  \/ ReapAgain
  \/ ReapList
  \/ \E r \in Role : ReapDelete(r)
  \/ ReapForget
  \/ ReapUnlist

Smooth ==
  \/ \E s \in Session :
       \/ CreateSession(s)
       \/ ClientGone(s)
       \/ Handle(s)
       \/ EnsureFails(s)
       \/ Expire(s)
       \/ \E o \in Owner :
            \/ DeleteModel(s, o)
            \/ \E r \in Role : Ask(s, o, r) \/ AskUnbound(s, o, r)
  \/ Reap
  \/ \E o \in Owner, r \in Role : WorkloadGone(o, r)

Next == Smooth \/ ReapFails \/ ServerRestart

Spec == Init /\ [][Next]_vars

\* The reaper sweeps, heartbeats expire, handlers go on, an asyncio.Lock is
\* handed out in the order it was asked for, and in the end nothing fails any
\* more.
Fairness ==
  /\ WF_vars(Reap)
  /\ \A o \in Owner : SF_vars(ReapLock(o))
  /\ \A s \in Session :
       /\ WF_vars(Handle(s))
       /\ SF_vars(Lock(s))
       /\ WF_vars(Ensured(s))
       /\ WF_vars(Expire(s))
  /\ <>[][Smooth]_vars

FairSpec == Spec /\ Fairness

-----------------------------------------------------------------------------
(* Properties *)

\* The workers that a running client was given stay up, whatever other
\* sessions end and whenever the reaper or a restart comes in between, until
\* the model is deleted.
UsedWorkersStay ==
  \A s \in Session : \A w \in using[s] : workload[w] = "up"

\* A worker that is up is one the reaper will find: its owner is listed.  The
\* exception is a worker that was created after the reaper had dropped the
\* session it was created for: its owner may be forgotten by then.
WorkersAreListed ==
  \A o \in Owner, r \in Role :
    workload[<<o, r>>] = "up" => o \in owners \/ <<o, r>> \in late

Interested(o) ==
  {s \in Session : client[s] = "alive" /\ (s \in members[o] \/ owner[s] = o)}

\* Left over for good, unless somebody asks for its owner again.
Stray(o, r) == <<o, r>> \in late /\ o \notin owners

\* The workers of an owner whose clients are all gone go too, except those
\* that were created after their owner was forgotten.
AbandonedWorkersGo ==
  \A o \in Owner :
    Interested(o) = {}
      ~> \/ Interested(o) # {}
         \/ \A r \in Role : workload[<<o, r>>] # "up" \/ Stray(o, r)

===============================================================================
