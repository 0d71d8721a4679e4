# OpenRL in TLA+

OpenRL (`src/src`, `src/scheduler`) serves fine-tuning and reinforcement
learning over a Tinker-compatible HTTP API: clients create models, send
`forward_backward`, `optim_step` and `save_weights_for_sampler` requests, and
sample from the weights they have trained. This directory holds a
specification of the parts whose correctness depends on what several processes
do at the same time, the TLC configurations that check it on small instances,
and TLAPS proofs of what matters most for instances of any size.

Paths below are relative to the repository's root (`src/...` in
`PROJECT.json`'s maps is one directory up).

## The system

| component | code | state it keeps | operations |
|---|---|---|---|
| API server | `src/server/api_server.py` | none of its own; sessions and models in the state store | turns HTTP calls into queued requests, polls futures, launches and releases workers, reaps dead sessions |
| request store | `src/server/store.py` | per-model queues, rotation list and set, futures | `put_request`, `get_requests`, `get_requests_for_model`, sampling queues, `set_future`, `get_future` |
| session registry | `src/server/session_registry.py` | heartbeats with an expiry, the owners that have workers, the sessions of each | `heartbeat`, `live`, `attach`, `owners`, `in_use`, `forget` |
| worker managers | `src/server/worker_manager.py`, `scheduler_worker_manager.py` | processes, or Kubernetes workloads, per model and role | `ensure`, `release`, `release_owner` |
| training requests processor | `src/server/training_requests_processor.py` | the batch in hand, whether it is registered with the slicer | `run_once`, `answer_batch`, `handle_batch`, `publish_checkpoint`, `exit_gracefully` |
| trainers | `src/training/*_trainer_worker.py` | weights, optimizer, deltas, where the memory is | `optim_step`, `save_state`, `save_state_delta`, `sleep`, `wake_up` |
| samplers | `src/server/vllm_sampler.py`, `lora_sampler.py` | engine, loaded weight version | reload on a published version, generate, leave |
| delta weight transfer | `src/server/delta_weight_transfer_engine.py` | the engine's base weights | `receive_weights`, in-place and snapshot application |
| accelerator time slicer | `src/accel_timeslicer/` | records, waiters, grants and release times, in memory only | REGISTER, ACQUIRE, RELEASE, UNREGISTER, connection end; checkpoint and restore of CUDA processes |
| scheduler controller | `src/scheduler/controller/internal/controller` | ClaimLedger objects, ResourceClaims, pods, workload status | place, join, cut a claim, fall back to sharing, tear down |
| placement | `src/scheduler/controller/internal/placement` | none (pure) | `SelectClaim`, `Catalog`, `Tiers`: which claim to share, which devices a claim of one's own may have |
| estimator, vLLM options, metadata, codec, losses | `src/server/*`, `src/training/losses.py` | none (pure) | arithmetic and formatting |

How they interact: the API server and the workers share Redis only: a request
goes into its model's queue, a worker pops it, does the operation and stores
the answer under the request's id, which the client polls. LoRA models of one
base model share one worker that serves their queues in rotation. A fully
fine-tuned model has a trainer and a sampler of its own, which usually share
accelerators with other models' workers; the workers of a claim take turns
under the time slicer daemon of their node, over a Unix socket whose end tells
the daemon that a worker is gone. A trainer saves weights to a shared volume;
its sampler loads the version a sampling request names. Which workers there are
follows the clients: the API server asks for a model's workers when a session
needs them and deletes them when no session with a heartbeat is left. Where the
workers run is decided by the scheduler controller, whose only durable memory
of who sits on which claim is the ClaimLedger object.

Where it is hard, and what has to hold:

* **time slicer**: a worker can be killed while it waits, computes, is being
  checkpointed or restored; a checkpoint can fail or find nothing; daemon and
  worker learn of each other's state only through one socket. Never two
  processes on the same devices; no grant lost; no waiter forgotten.
* **request store**: put and get are several Redis commands each, of different
  processes. Nothing handled twice, nobody starved, nothing queued and
  forgotten.
* **training requests processor**: batches fail half way, stores raise between
  operation and answer, saves are reordered behind other work, a process that
  could not be parked must not touch its devices again. Work only with the
  grant; every popped request answered with what became of it.
* **samplers and deltas**: reload and generation interleave; a delta applies
  to one base version only; old versions are pruned while they may be needed. A
  sample comes from the weights that were saved under the name it gives.
* **sessions**: attaching a session races the reaper's look at its owner;
  creating a worker races its deletion; the API server restarts between any two
  Redis commands. A client keeps the workers it was given; no worker outlives
  its clients.
* **scheduler**: reconcilers act on cached reads and write with optimistic
  locking; a crash falls between any two writes. An exclusive worker is never
  co-seated, a pod's worker keeps its seat until the pod is gone, the last
  release deletes claim and ledger.
* **placement**: the fleet is read once and counted on for a whole pass;
  joiners book before they look at the node's memory; kube-scheduler has the
  last word. Joiners do not overcommit a node together, and a seat or a node
  that stays free is used by who waits for one.

## Modules

| module | models | kind |
|---|---|---|
| `TimeSlicer` | the slicer daemon, its handlers, its client and the worker process around it | state machine, properties |
| `DeviceLease` | what a claim's workers rely on: one holder, memory on the devices only in a turn or while its worker is leaving | abstract specification |
| `TenantLine` | what the rotation set promises each tenant: its requests are taken and handled in line, each once | abstract specification |
| `RequestQueue` | Redis store, API server's `enqueue`, worker's loop for one LoRA rotation set | state machine, properties |
| `ClaimLedger` | the scheduler's reconciler, and the Workloads, ClaimLedgers, ResourceClaims and pods it works on | state machine, properties |
| `NodePlacement` | pools, tiers, seats and their memory, the passes that act on them, kube-scheduler | state machine, properties |
| `TrainerTurn` | the dedicated trainers of a claim: batches, turns, answers and exits | state machine, properties |
| `WeightSync` | a model's trainer, its saved versions and its sampler | state machine, properties |
| `SessionReaper` | sessions, owners and workers at the API server, and its reaper | state machine, properties |
| `MCTimeSlicer`, `MCRequestQueue`, `MCClaimLedger`, `MCNodePlacement`, `MCTrainerTurn`, `MCWeightSync`, `MCSessionReaper` | constants for TLC | instances |
| `SequenceLemmas` | facts about `RemoveFirst`, `Append`, `Tail`, rotations, least indices, and a batch before a queue | proofs |
| `TimeSlicerProofs`, `RequestQueueProofs`, `ClaimLedgerProofs`, `NodePlacementProofs`, `TrainerTurnProofs`, `WeightSyncProofs`, `SessionReaperProofs` | inductive invariants and theorems | proofs |

### TimeSlicer

The daemon is one asyncio loop that never awaits with its lock held, so each
locked section is an action. `workloads`, `waiting`, `running` and `released`
are `SingleNodeTimeSlicer`'s fields (`released` orders the names by
`last_release_time`; only the order is used). A release runs its checkpoint and
an acquire its restore in a thread, outside the lock: the handler is in `phase`
"checkpointing" or "restoring" meanwhile, and everything else goes on. `phase`
and `owner` describe the connection handlers of `serve.py`, `conn`, `status`
and `mem` the worker processes. A worker's process is "ready", "asking"
(ACQUIRE sent), "holding", "parking" (RELEASE sent), "faulted" (its checkpoint
failed), "exiting" (connection closed, process still there) or "down". A
faulted process may ask again: for the saves of the same batch, when its worker
does not offload (`training_requests_processor.py:205`), or for its next batch,
when the one before ended in an exception, which `run_once` raises (150-151)
before it looks at `faulted` (155). It is refused, its client closes the
connection, and once it has closed the one it registered through it has "let
go" (`LetGo`); it goes on polling and is refused through every connection it
opens later. Or it quits, or it stays for good. `mem` is where its accelerator
memory is: on the devices, parked in host memory by a checkpoint, or nowhere.

Decisions worth knowing:

* A handler reads its next line only after it answered the one before, so it
  notices the end of its connection only when it is "idle"; a killed worker's
  waiting place can therefore be granted after its death, and is freed when
  the handler reads on.
* A client that dies between two commands closes its socket: the loop sees
  that before the first line of a connection opened later (`Connect`).
* A worker name keeps one claim. `register` under another claim, which drops
  the old grant, is not modelled.
* `RestoreFailed` follows `run_restore`, which logs and goes on.
* A process that is told to terminate while it asks or is being parked counts
  as one that is killed (`Crash`).
* A sampler whose first turn failed starts its engine again outside any turn
  (`vllm_sampler.py:322-323`); that is not modelled.
* A faulted process that a restarted daemon grants a turn counts as a sound one
  (`RoughSpec`).
* `CheckpointSkipped` is the checkpoint of a process that has nothing on the
  devices; `CheckpointBlind` that of one that has, when `nvidia-smi` fails and
  lists no process.

Three next-state relations share the actions. `Next` is a daemon that stays up
and replacements that start when the connections of the process before them are
closed, with refused ACQUIREs and reconnections. It leaves the other two error
answers out: `OnlyFaultedRefused`, checked and proved for it, says that their
guards never hold, and that an ACQUIRE is refused exactly when a faulted
process asks. `OverlapNext` lets a replacement register while a handler still
works for its predecessor, with every error answer. `RoughNext` adds daemon
restarts and blind checkpoints.

`DeviceLease` has three variables: the holder of each claim, the workers with
memory on the devices, and those that are leaving. A grant ends with the
holder's memory off the devices, unless the holder is one that leaves, and one
that leaves puts nothing there again. Two modules implement it. `TimeSlicer`
does with `holder <- running`, `onDevice` the workers whose memory is on the
devices and `leaving` those that are exiting or have let go (`Leaving`): a
faulted process keeps the grant as long as it keeps the connection it
registered through. Its restore is a step after the grant. `TrainerTurn` does
with its `holder` and the faulted trainers as those that leave; there the grant
and the restore are one step, so `Grant` may bring parked memory back.

### RequestQueue

Every Redis command of `put_request` and `get_requests` is an action, since
Redis executes commands one at a time and the API server and the worker run
several each: RPUSH, SADD, RPUSH on one side; LINDEX, BRPOPLPUSH, LLEN, LREM,
SREM, LPOP, LMOVE on the other. `put` is how far the API server's handler of
each request is, `pc`, `target`, `left`, `batch` and `done` are the worker's
local variables. One worker polls a rotation set (`docs/designs/009`, 1:1
worker mapping), so there is one `pc`. The operation itself is not modelled:
its result or its own error is the request's answer. `Broken` is a kill of
the worker or a Redis call that raises anywhere in the loop, `PutBroken` the
same for a handler of the API server, `StoreError` a `set_future` that raises,
with `answer_batch`'s reaction. An answer expires
300 s after it was stored or last read, so any answer may be gone at any time
(`Expire`). Ids are fresh in the code; `Renew` lets one be used again once its
answer is gone and no queue and no batch has it, so that tenants can send for
ever. `torn` is a history variable: the tenants for whom an error fell between
SADD and RPUSH, or between LREM and SREM.

`TenantLine` forgets the rotation, the set and the commands: each tenant's
requests stand in `line`, the first `taken` of them are with a worker, and only
one tenant's are. `RequestQueue` implements it: a tenant's line is what the
worker has of it in hand (`InHand`, the batch but for what is done, and nothing
once the batch has failed), then its queue. A pop is `Take`, the end of an
operation is `Handle`, a failed batch or a break is `Lose`, a put is `Join`;
the commands on the rotation change nothing.

### ClaimLedger

A *worker* is one incarnation of a Workload object, told apart by its UID;
incarnations under one name follow each other and share the name of the pod.
A claim is named after the UID of the worker that cuts it (`claimNameFor`) and
a ledger after its claim, so both are indexed by that worker. `ledger[k] = {}`
means that there is no ledger: `releaseSeatAndReclaim` deletes it with the last
seat. `cr` is the object ("new" before its finalizer, "held", "deleting",
"gone"), `status` its `status.claimName`, `owned` the claims whose owner
reference names the ledger that exists now.

controller-runtime reconciles one name at a time and names concurrently, so
the pass of a name is a process: `at` is where it is, `scope` its
`placementScope`, `call` the `ensureSeat` or `releaseSeatAndReclaim` it is in.
An action is a call to the API server, or several reads in a row of which no
write depends on the gap. Each read-decide-write loop of `ledger.go` is a read
(`EnsureSeat`, `ReleaseSeat`) and a conditional write that succeeds when the
ledger is what was read (`Current`). `Abort` stands for a call that fails and
for a killed controller: the pass is over, the objects stay as they are.
Workloads, claims and ledgers are read past the cache, as `fleetReader` does;
pods and the list of `seatedClaims` come from caches, which lag if `PodLag` and
`SeatLag` say so. `scope.hidden` is a history variable of a teardown: whether
what it read there lacked the pod, or a seat that the status does not name
either (`Hidden`).

Decisions worth knowing:

* `PatchStatus` loses a write only to the object's deletion: no one else
  writes a Workload. A conflict is no error (`patchStatus`), so the pass goes
  on without it.
* Host memory, roles, tiers, grace periods and the verdicts of kube-scheduler
  are `NodePlacement`'s. Here, where they decide, both ways are open (`Verify`
  may yield, `Keep` and `Found` may skip the sharing, `stuck` is any verdict
  about a pod that is not bound).
* A pod that was never bound goes at once when it is deleted, a running one
  stops first. An allocated claim stays terminating until no pod uses it.
* The two reads of `fallBackToSharing` after the booking are one (`Verify`).
* Not modelled: pods that finish, validation failures, a pod of another
  worker under the name (`PodConflict`), the placement timeout.

### NodePlacement

What `ClaimLedger` leaves open. `Pool` is a node as `fleet.go` reads it: the
devices of the latest complete generation of its slices, the smallest one's
memory, its allocatable host memory and its roles. `Tiers` are the alternatives
that a worker's own claim states, from the `Catalog` of device sizes; `Suits`
are the nodes that meet one. `SelectClaim` is the choice of a claim to join:
eligible by role, size, `shareable` and booked host memory, then by the number
of owners and of seats.

`cr`, `assigned`, `seats`, `claim` and `on` are the objects: the Workloads and
their `status.claimName`, the ledgers' seats, the claims and where they were
allocated. `pod` is each worker's pod ("waiting", "refused" by kube-scheduler,
"wedged" when it was for longer than the grace period, "bound", "stopping").
`at` and `scope` are a pass and what it knows, as in `ClaimLedger`. `foreign`
are pods of others, `closed` the nodes that refuse pods for a reason which the
fleet does not count, `churn` counts failures, evictions, deletions, such pods
and such nodes. `landed` is a history variable: the nodes where memory came
that no joiner has verified since.

Decisions worth knowing:

* Workloads exist from the start and are placed once each. Bookings and
  releases, with the deletion of claim and ledger, are one step each:
  `ClaimLedger` has what happens inside them. A pass starts from one reading of
  the fleet (`Begin`), and `Verify` reads it again, as the code does.
* A claim that was allocated keeps its devices until it is gone, also without
  pods. It is terminating as long as a pod uses it.
* A node refuses pods for its host memory, its devices and its role, which the
  fleet counts, too, and for everything else, CPU, room for pods, a cordon, a
  taint, while it is in `closed` (`Close`, `Open`). Pods on it stay.
* The names in `claimLess` are left to chance, and so is kube-scheduler's
  choice of a node (`PreferTightFit` only asks for preferences).
* Slices and labels do not change.

### TrainerTurn

The trainers of one claim, each with its own queue, and the slicer between
them. `reqs[w]` is every request that was put for trainer `w`, in order, with
what its operation did (`ran`), what `answer_batch` has for it (`result`) and
what `set_future` stored (`answer`); `taken` counts what was popped and `from`
where the batch begins, so the batch is a range of positions and nothing is
copied. `pc` follows `run_once`: "acquire" and "waiting" for a turn, "granted",
"working" and "sleep" under it, "saving" (under a turn of its own unless
`cpu_offload`), "store", and "exiting" or "down". `failure` is the exception
that `answer_batch` returns, `faulted` the client's mark that a release could
not park the process. `waiting`, `holder`, `failed` and `conn` are the slicer's
waiting list, grant, records and connections.

Decisions worth knowing:

* The slicer is seen at its commands: ACQUIRE, its grant, RELEASE, the end of a
  connection. `TimeSlicer` has the steps inside them, restarts and both
  policies; here the oldest waiter is next.
* `Pop` takes all there is in one step. `PopBroken` is a Redis error between
  the pops, after which the popped part is lost. `lossy` is a history variable
  that says so, and that `StoreError` lost results.
* An operation may end "done" or with an error of its own. `WakeUp` and `Sleep`
  may raise when weights are offloaded (they do nothing otherwise).
* A refused ACQUIRE closes the client's connection, so `Finish` and `SeeClose`
  act for a trainer that still runs, too.
* A trainer that is down stays down; `TimeSlicer` has replacements.

### WeightSync

A parameter's value is the number of the optimizer step that changed it last,
so a delta is the set of parameters a step changed and that step's number, and
patching twice is the same as patching once. `inbox` is the trainer's queue and
`steps` and `saves` the rest of its batch. A trainer under a time slicer does
the work of a batch before its saves, so of the queue it matters how many steps
there are and which names, in order, are to be saved (without a slicer requests
are handled one by one as they come; that is not modelled). `dirs` are the
version directories in the order of their modification times, `file` what each
holds: `whole` once its metadata.json is there, the trainer's `weights` at the
save, and the `delta`. `state` follows a sampling request, `engine` is what the
vLLM engine computes with, `mode` how much of it is awake, `resting` is
`IS_ENGINE_SLEEPING`, `loaded` `CURRENT_LOADED_SAMPLER_WEIGHTS`, `lock` who
holds `reload_lock`.

Decisions worth knowing:

* The files of a version hold the delta only (or the weights only, under the
  full strategy); `file[n].weights` is what the version should mean, and what
  `SamplesSavedWeights` compares with.
* Both ways of applying a delta end in the same engine weights (`Received`).
  A transfer that raises may have copied any part of it (`TransferFails`).
* A save is two steps, the directory and its files, since samplers read the
  volume meanwhile. One under a name that exists writes into its directory and
  leaves the modification time.
* Every way to lose an answer is a step: a command that raises between the BLPOP
  and the LPOPs (`PopBroken`, `store.py:242-260`), a `set_future` that raises
  for a result, which its task swallows (`vllm_sampler.py:288-291`), or for a
  failure, which `fail_requests` swallows (350-353; `Failed`), and the death of
  the process (`Restart`). Such a request is "lost". `SleepBroken` is an
  `engine.sleep` at the end of a batch that raises (430-433), before or after
  the engine went to sleep; `IS_ENGINE_SLEEPING` stays false then.
* A restart of the sampler starts from the base model (`Restart`). Under the
  delta strategy nothing brings the missing deltas back, so `LockstepNext` has
  restarts under the full strategy only; see below.
* `asample` with a model id instead of a version, which picks the newest
  `sampler-N`, is not modelled.

`Next` lets clients ask for anything at any time. `LockstepNext` is the loop of
the reinforcement learning recipes (`src/examples`): one step, one save under a
new name, samples of it until one succeeds, each after the answer to the one
before.

### SessionReaper

An *owner* is a runtime: a fully fine-tuned model, or the base model that LoRA
models share. `live`, `owners` and `members` are the registry's keys, each
Redis command a step. `pc` is the handler of each session (a client has one
call in progress): `bind_session` under the owner's lock, then the worker
manager's `ensure`. `reaper`, `sweep`, `target`, `seen`, `dead` and `found` are
the local variables of `reap_dead_sessions`, `reap_owner`, `in_use` and
`release_owner`. `client` and `using` belong to the program behind a session:
`using` are the workers it was told that it has.

Decisions worth knowing:

* A session expires when its client is gone (`Expire`), also while a call of it
  is in progress: `ensure` may wait for 180 s outside the owner's lock, a
  session lives for 120 s. A client that runs sends heartbeats in time. `late`
  is a history variable: the workers that are up and were created for a session
  which the reaper had dropped by then.
* `save_weights_for_sampler` asks for a sampler without binding the session
  (`AskUnbound`); its client has the model's trainer, so it is bound.
* `ServerRestart` forgets handlers, locks and the sweep. There is one replica.
* Deleting a Workload is two steps, the deletion mark and its end by the
  scheduler's finalizer (`WorkloadGone`, `ClaimLedger`'s `Leave`), and `ensure`
  runs into both (`Check`).

## What is checked

| run | specification, bounds | properties |
|---|---|---|
| `slicer_safety` | `Spec`; 3 workers, 1 claim, 3 connections, lrs | `TypeOK`, `HolderHasGrant`, `DeviceExclusive`, `SeatHasOccupant`, `QueueMatchesHandlers`, `OnlyFaultedRefused`, and `LeaseSpec` (the refinement) |
| `slicer_live` | `LrsSpec`; 3 workers with a connection each | `NoStarvation` |
| `slicer_rough` | `RoughSpec`; 2 workers, 3 connections, fifo | `WaitersAreServed` |
| `slicer_overlap` | `OverlapSpec` | `DeviceExclusive`, violated |
| `queue` | `FairSpec`; tenant a with 2 request ids, b with 1 | `TypeOK`, `OneEntry`, `HeadIsTarget`, `MarkedIsListed`, `ListedIsServed`, and `LineSpec` (the refinement) |
| `ledger` | `Spec`; name a with workers a1 and a2 (exclusive), name b with b1; fresh caches | `TypeOK`, `ExclusiveAlone`, `OthersSeatsStay` |
| `ledger_heirs` | `FairSpec`; name a with a1 (exclusive) and a2; lagging caches, evictions | `NoSeatOutlives`, `TeardownWaits`, `TeardownEnds` |
| `placement` | `FairSpec`; 3 workers of which one is a sampler, 2 nodes with room for 2 and for 1, binpack, 1 event from outside, one node that may close | `TypeOK`, `KeptJoinsFit`, `FreeNodeIsUsed`, `FreeSeatIsUsed` |
| `turns` | `FairSpec`; a trainer with 2 requests of any kind, a rival with 1 of work | `TypeOK`, `WorkHoldsGrant`, `SaveFollowsEarlierWork`, `AnswerIsOutcome`, `RequestsAreAnswered`, and `LeaseSpec` (the refinement) |
| `sync` | `FairLockstepSpec`; 2 steps, 3 versions of which 1 older is kept, 2 samples at once, 2 parameters | `TypeOK`, `SamplesSavedWeights`, `GeneratesAwake`, `VersionIsThere`, `SamplesAreAnswered` |
| `sync_steps` | `Spec`; 2 steps, 2 versions, 1 sample | `SamplesSavedWeights`, violated |
| `sessions` | `FairSpec`; 2 sessions, 1 owner, both roles | `TypeOK`, `UsedWorkersStay`, `WorkersAreListed`, `AbandonedWorkersGo` |

Bounds. Workers of different claims share only the deque, so one claim and
three workers give every contest there is: a holder, a waiter who is next and
one who is not. Without overlap each worker has one connection at a time; with
overlap two workers and three connections give a replacement beside the handler
of its predecessor and a rival for the claim. Nothing counts, so there is no
other bound. In `queue` two ids of one tenant are the least that let it have a
request queued at every moment and two handlers of it race; the second tenant
is who may starve. In `ledger` the second name is the rival in every booking
and release, and the second incarnation of the first meets whatever the first
has left, as an exclusive worker in a shared claim included. Lagging caches and
evictions concern a name and its own remains, and run with one name; with two
they are beyond TLC. So the promises of a teardown (`NoSeatOutlives`,
`TeardownWaits`, `TeardownEnds`) are checked there. In `placement` three
workers are the holder of a claim and two joiners that race for its last seat;
the nodes differ in device and role, and a worker that either takes may go
where the sampler, which has one node only, wants to go. The other node has room
for one of them; with room for two it was explored once (242 454 states, no
error). One event from outside
is a failed call, an eviction, a deletion, a pod of others or the closing of a
node (`MaxChurn`); `Unsteady` bounds the nodes that may close to the one which
takes both roles. With the other one in its place TLC found no error either
(179 628 states). `KeptJoinsFit` was also explored once with failures and
deletions at any time (3 workers, 743 776 states) and with pods of others at
any time (2 workers and 1 node, 1 686 240 states), without error. In `turns`
two requests make a batch of two, of any two kinds in any order, or two
batches; the rival needs one request to take the grant whenever it is free.
`MaxPuts` bounds the requests. In `sync` two samples are the least that share a
batch, ask for a version while another one is loaded, or outlast one; three
versions with `Keep = 1` make the loop prune. `MaxStep` bounds the optimizer
steps and with them the rounds, `MaxQueue` the trainer's queue. In `sessions`
one session can lose a worker to another's end or deletion, and a second role
gives an owner with half of its workers; owners meet in the sweep only. (Two
owners, one of them shared, and one role were explored for safety once:
2 762 682 states and no error.) All state spaces are finite and explored whole, with
symmetry of workers and connections in the safety runs.

In `slicer_live` two constraints cut interleavings that the property cannot
see: each worker keeps to one connection identity (they are interchangeable),
and processes put nothing on the devices (the queue does not depend on it;
`slicer_safety` runs with memory).

Fairness. `TimeSlicer!Fairness`: a free claim with a waiter is granted
(asyncio wakes the waiters on every change, `notify_all`), handlers finish
checkpoints and restores (subprocesses with timeouts) and read the end of
their streams, a holder releases in the end (`async with` around each turn)
and a process that exits is gone. No worker has to ask, start, load or quit: a
faulted one may poll for ever, with the grant.
Under lrs that is not enough: a name that is killed, or fails to park, in each
of its turns is never released, keeps release time 0.0 and goes first for ever
(`single_node.py:45`), so a worker that was served once starves behind two
such names. `LrsSpec` therefore assumes that failures cease (`NoFailure`: in the
end no process is killed or terminated in a turn and none becomes faulted); TLC
finds the starvation without that assumption. Who is faulted by then may stay,
and `NoStarvation` exempts the waiters of a claim whose grant such a process
keeps for good. `RequestQueue!QueueFairness`: the worker's
loop goes on, and errors cease in the end for the same reason.
`ClaimLedger!Fairness`: each name's passes go on (every return that leaves work
asks for a retry or waits for a watch event), the kubelet, garbage collection
and the informers catch up, and calls stop failing in the end (`Steady`).
`TeardownEnds` is checked for one name: with two, the bounded retries of a
release can lose against the bookings of the other for ever, which neither the
code nor fairness excludes.
`NodePlacement!Fairness`: passes go on, kube-scheduler, the kubelet and DRA
act, and events from outside end. Two joiners that verify at the same time can
both yield, and fairness of each alone lets them do so for ever; the code counts
on the chance of requeues and delays (`workload_controller.go:548`). The strong
fairness of `VerifyAlone` is that: if again and again one of them can be alone,
some time one is.
`TrainerTurn!Fairness`: a trainer's loop goes on (no operation hangs), and the
daemon grants and reads ends of streams as above; nothing is assumed of kills,
faults or errors, which may come for ever. `WeightSync`: the sampler goes on;
trainer and clients may stop anywhere. `SessionReaper!Fairness`: the reaper's
loop sweeps, handlers go on, `asyncio.Lock` serves its waiters in order (strong
fairness of `Lock` and `ReapLock`), an `ensure` is over at its deadline
(`Ensured`), a dead session's heartbeat expires, and in the end calls stop
failing and the server restarting (`<>[][Smooth]_vars`): a sweep that fails each
time releases nothing.

Each property of a passing run has a mutant: an operator marked "Mutated"
before a definition is a plausible error in it, and is no part of the model.

## What disagrees with the code's own statements

The violated runs, and what else the models made plain:

* `slicer_overlap`: `release` frees the grant by name after its checkpoint,
  whoever holds it by then. When a worker dies during its checkpoint and its
  replacement registers and is granted meanwhile, two workers share the
  devices. The same window can leave a grant that nobody frees (a replacement
  takes over the record while the predecessor's handler holds the grant), or
  mark the fresh replacement as failed.
* `sync_steps`: under the delta strategy, which is the default, a version holds
  what the last optimizer step changed. With several steps before a save
  (`examples/sft/pig-latin` does that) the changes of the others reach no
  version, and the sampler computes with weights the trainer never had.
* Without a run, in the time slicer: a failed restore is answered as a success
  and never retried (`single_node.py:179`; lines 25-26 say that the next
  acquire restores). A process that could not be parked closes its connection,
  which frees the grant, and exits afterwards
  (`training_requests_processor.py:118`; lines 156-157 say that the grant moves
  on only once the memory is gone). Nor does it have to exit for that: a faulted
  process that asks again is refused, closes its connection
  (`time_slicer.py:121-123`) and loses its grant with the memory on the devices,
  where lines 53-54 and 114-115 of that file, and `single_node.py:114-116`, say
  that the grant stays until the process is gone. It can go on polling beside
  the next holder for good. `DeviceExclusive` and `HolderHasGrant` are the
  promises without the processes that exit or have let go. One that neither
  exits nor asks keeps the grant, and its rivals wait (`NoStarvation`).
* Without a run, in a trainer's turns: with `cpu_offload` off and a batch of
  work and a save, the first RELEASE can fault and the ACQUIRE for the save be
  refused. The client then closes its connection (`time_slicer.py:122`), which
  the comment at lines 114-115 says must not happen: the grant moves on with
  the memory still on the devices. `OverlapNeedsFault` is what remains. And
  `run_once` raises the batch's failure before it looks at `faulted`, so such a
  process goes on polling (`Zombie`): if its sleep failed and its connection is
  open, it keeps the grant for good and its rivals wait. A `shutdown_workers` in
  a batch that fails is lost with it.
* Without a run, in the weights' way to the sampler: under the delta strategy a
  version that is sampled again after a newer one is patched over it, though
  `docs/fft/fft.md` (5.C) speaks of immutable checkpoints that can be pulled
  independently; and a sampler that restarts has the base model under the next
  delta. A save under a used name keeps the directory's place, so it can be
  pruned by its own publication, and is not loaded again where it is the loaded
  version. Pruning does not spare named checkpoints. Requests of two versions
  in one batch put the engine to sleep under each other's generation
  (`vllm_sampler.py:234`: the lock covers the reload only). A version is read
  as one that changes nothing while its metadata.json is not there. After a
  failed reload the KV cache sleeps while `IS_ENGINE_SLEEPING` is false, and so
  may the whole engine after an `engine.sleep` that raised; the next batch of
  the loaded version does not wake it (`GeneratesAwake` exempts the latter).
  Answers are lost in the ways listed above, though `vllm_sampler.py:345` has
  every popped request answered. The
  comment at `training_requests_processor.py:41-43` says that the sampler
  applies each delta as it lands; nobody subscribes to the publication.
* Without a run, in the sessions: `ensure` may wait for 180 s outside the
  owner's lock, longer than a session lives without a heartbeat (120 s). The
  reaper can then forget the owner before the worker is created, and nobody
  reaps that worker, though `session_registry.py:14` says that the registry has
  every owner with workers. `WorkersAreListed` and `AbandonedWorkersGo` exempt
  exactly the workers that were created so (`late`). A heartbeat that comes
  late, between the reaper's GET and SREM, loses the session its place. A client
  without a session id is in no set. The FFT sampler's `sampler_ready` key
  expires after an hour and is not renewed (`vllm_sampler.py:395`; the LoRA
  sampler renews it), so `create_sampling_session` times out from then on.
* Without a run, in the queue: the worker reads LLEN 0 and then takes the
  tenant out of the rotation with LREM and SREM (`store.py:194`). A put whose
  RPUSH and SADD fall in between finds the tenant still in the set and does not
  list it, so its request is in no rotation until the tenant sends another,
  where `store.py:26` has `get_requests` block until a request is available.
  (`ListedIsServed` is about tenants that are listed; `MarkedIsListed` has no
  mark without its entry, and here there is neither.)
* Without a run: one `set_future` that raises overwrites the results stored
  before it in the batch (`answer_batch`; `training_requests_processor.py:165`
  promises each request its result or the failure).
* Without a run, in the scheduler: a worker that is deleted right after its pod
  was created is torn down by a pass whose cache lacks the pod
  (`workload_controller.go:488`), and the pod runs on without seat and object
  until garbage collection finds it, though lines 478-479 have the object
  survive until the pod "is verifiably gone". `TeardownWaits` exempts the pod
  that this one read did not show. When a
  controller dies between the deletions of a wedged claim's ledger and of the
  claim, the worker's next pass books on the claim anew and starts a pod;
  garbage collection deletes the claim, the pod keeps it terminating, and every
  later pass waits for it to go, where `ledger.go:125-127` says that garbage
  collection finishes. `deleteClaim` deletes by name, so a pass
  that goes on after another worker has booked on the claim again deletes it
  under fresh seats. `ensurePlacementClaim` books with `createMissing` on any
  claim that is assigned, a joined one included, so a ledger's absence is not
  the lasting tombstone that `ledger.go:51-55` describes. A move to a shared
  claim that breaks off after the booking leaves the worker two seats until its
  next pass. Teardown misses a seat that neither the
  cache shows (`ledger.go:187`) nor the status names, though lines 98-100 and
  501-502 of `workload_controller.go` have the finalizer guarantee the seats'
  release; `NoSeatOutlives` exempts such a seat.
* Without a run, in the placement. With binpack, a node that refuses a pod for
  a reason which the fleet does not count (CPU, a cordon) lets the worker
  abandon its claim and join it, or another one there, again, for ever, though
  another node is free: `SelectClaim` knows nothing of the refusals.
  `scheduler/docs/design.md:904-905` says that abandoning prevents this, and
  lines 881-882 name CPU and "another required resource" among the reasons.
  `FreeNodeIsUsed` holds for workers whom no claim on a closed node draws
  (`Drawn`), and TLC finds the loop without that exemption. Beside a closed node
  two workers can also move for ever, each to the claim that the other has just
  given up and cut anew (`Overtaken`, which `FreeSeatIsUsed` exempts). A founder
  that abandons a claim where a co-tenant sits adopts it again by name
  (`cutDedicatedClaim`) and nobody checks the node's memory; nor does `Keep`
  when it books again on the claim that the status names, after a move that
  broke off. These are the steps that put a node into `landed`. `Catalog` takes
  sizes that are equal in whole GiB for the smallest (`tiers.go:42`), so a
  worker that fits the larger one only has no tier and waits, and `Explain` says
  that it waits for capacity. `design.md` has joins prefer the smallest
  accelerator, `claimLess` does not look at it. Booking and verifying look at
  the seats and host memory only, so a pass that hangs while a claim is given up
  and cut anew can join it on a node of another size or role.
* A daemon restart forgets grants and grants the claim again while the holder
  of before computes; a failing `nvidia-smi` makes a release succeed with the
  memory on the devices. Both are steps of `RoughNext`, whose run claims only
  what survives them.
* A worker killed between LREM and SREM, or an API server between SADD and
  RPUSH, hides a tenant from the rotation until its keys are repaired; a
  worker killed with a batch loses it, and its clients poll for ever.

## What is proved

`TimeSlicerProofs`, for any sets of workers, claims and connections and both
policies, from `SlicerAssumption` (a claim for each worker, distinct null
values, a known policy): `LeaseInv` is inductive. `HolderHasGrant` alone is
not: a grant could be freed under a holder by a stale handler. The invariant
adds that a live process has exactly one connection whose handler does what
the process waits for (`OneSession`, `SessionPhase`), that the record is bound
to that connection or the connection is the remains of a dead process without
a grant (`SessionRecord`), that a grant belongs to a turn or to a connection
still to be closed (`GrantHasSession`) and that memory is on the devices only
in a turn, in an exit or after a fault (`MemoryHasTurn`). A faulted process has
a failed record, whatever it asks and however often it connects, so it never
has a turn again. From it follow every invariant of
`slicer_safety` and, step by step, that `Spec` implements `DeviceLease`
(`ImplementsLease`).

Little of `LeaseInv` survives daemon restarts and
replacements that register early. `RoughInv` is what does: a handler works for a
worker, a process that is connected has a connection of its own, and its handler
waits only while the process asks. With it `TypeOK` (`RoughTypeCorrect`) and
`WaitersAreServed` (`WaitersStayServed`) are proved of `RoughSpec`.

`RequestQueueProofs`, for any tenants and requests and with every break, from
`QueueAssumption`: `QInv` is inductive. The strengthening that `OneEntry` needs
is that a tenant the worker has unlisted and not yet unmarked is still in the
set, so that no handler lists it in between; the same facts carry
`MarkedIsListed` (`MarksLeadToTurns`), which is inductive with them.
`HandledOnce`, which the run has as part of `LineSpec`, needs that queues and
batch are disjoint and where the batch can be nonempty. LREM is written as the
removal of one occurrence, which `OneEntry` justifies. `QueuesAreLines` is the
refinement of `TenantLine`. It needs from `QInv` that a request in line has no
answer and stands there once, and one thing more, `OrderInv`: a batch that is
worked on is of one tenant, the target. Then each command is one step of the
line or none, and the lemmas about a batch before a queue (`HandOverHead`,
`NextInLine`, `DropPrefix`, `AppendInLine`) say which.

`ClaimLedgerProofs`, for any names, incarnations, exclusive workers, strategy
and caches, from `LedgerAssumption` (a name for each worker, exclusive ones
among the workers, `None` outside them): `LedgerInv` is inductive. Beside types
it says what a pass needs at each place (`PassOK`) and that workers, seats,
statuses, pods, cached pods and the fleet a pass has read `Fits` together: an
exclusive worker goes with its own claim only and its claim with nobody else.
`ExclusiveAlone` follows at once, with stale reads, crashes and recreated
workers included. The proof does not use `ensureSeat`'s recheck on the ledger:
that names derive from UIDs and that `SelectClaim` asks for a seated, shareable
claim is enough, so the recheck is a second line of defence. The mutant that
blinds both (`ExclusiveSeats`) is what breaks it. `OthersSeatsStay` follows from
the version check.

`TeardownWaits` and `NoSeatOutlives` are proved for lagging caches, too: what
they exempt is the pod or the seat that the teardown's own reads did not show.
`WorkloadsOutliveTheirPods` adds that a pass past its pod (`Leaving`) still has
none but a hidden one, and that a pass works for a worker with the finalizer
(`WorkersHeld`). `WorkloadsOutliveTheirSeats` adds that such a pass has every
seat of its worker on its list but hidden ones, and that a claim is reclaimed
when its name has no seat there (`SeatsHeld`). `PassAdvances` carries them: it
says once, for all steps of a pass, where each can lead, for which worker and
for which release.

`NodePlacementProofs`, for any workers, nodes, requests and strategy, with any
failures and pods of others, from `PlacementAssumption` (nodes have devices
with memory, amounts are natural numbers). `TypeOK` is not inductive: a pass
that keeps, records or gives up its claim must have one, and one that joins must
have one to join. `PassHasClaim` says so for each place of a pass;
`PassesHaveClaims` and `PlacementWellFormed` are the theorems. `MemoryInv` is
what `JoinersFitTogether` rests on (`KeptJoinsFit`, for `Spec` with any number
of failures and pods of others). It bounds, on every node that is not in
`landed`, a sum that is larger than the one of `KeptJoinsFit` and that steps
cannot raise unseen (`Counts`): a seat counts as soon as the worker's pod, its
status or its pass has the claim, and it does not while the pass has booked and
not yet verified it. So every step leaves the sum alone or makes it smaller, or
puts the node into `landed`, or is the verification, which has just compared all
that is booked there with what the node has. The facts about sums are proved
from the definition of `SumFunctionOnSet` by taking a smallest counterexample,
which needs finite sets (`SmallestSubset`); that is why
`PlacementAssumption` asks for finitely many workers.

`TrainerTurnProofs`, for any trainers and any number of requests, with kills,
faults and errors anywhere, from `TurnAssumption`. `TurnInv` is inductive for
the turns: who waits is in the list, once, and nobody else but who died waiting
(`QueueIsWho`); a turn, or the wait for one, means a name that is not failed, a
faulted process has a failed name, and unfaulted memory is on the devices in a
turn only (`TurnsAreGranted`). `BatchInv` is inductive for the requests: results
agree with what ran and answers with results, everything up to the batch has a
result or was lost, the work of a batch has one once its phase is "save", and
what was not popped was not touched (`BatchesAreWhole`). `WorkHoldsGrant` and
`OverlapNeedsFault` follow from the first, `SaveFollowsEarlierWork` and
`AnswerIsOutcome` from the second. `TurnsImplementLease` is the refinement of
`DeviceLease`, step by step from `TurnInv`: memory that is on the devices has a
turn or is a faulted trainer's, so a step that ends a turn finds the memory
parked or its owner among those that leave.

`WeightSyncProofs`, for any parameters, names, samples and bounds, from
`SyncAssumption`. `SyncTypes` is inductive for every run: beside `TypeOK` it
says that one version more than are kept means that one is being written.
`LockstepInv` is inductive for the recipes' loop and both strategies. That a
sample has the weights saved under its name is the end of a long chain: there
is one request at a time and none while somebody samples (`OneAtATime`), so
everybody asks for the newest version (`AsksForNewest`), which is whole, on the
volume and what the trainer has (`NewestIsWhole`); names are new
(`NamesAreFresh`), so a loaded name is a loaded version (`LoadedIsSaved`); and
the engine is never more than the trainer's last delta behind it
(`OneDeltaBehind`), so one patch is enough. The last part is what `sync_steps`
breaks, and what a restart under the delta strategy would break:
`LockstepNext` has restarts under the full strategy only. `WakesInTurns` gives
that nobody generates on a sleeping engine.
`SamplesComeFromTheirVersion`, `GenerationStaysAwake` and `VersionsStay` follow.

`SessionReaperProofs`, for any sessions, owners and roles, with failures and
restarts, from `ReaperAssumption`. `UsedWorkersStay` is far from inductive:
that a worker stays needs that its client is a member of its owner
(`UsersAreMembers`), which needs that whoever `in_use` found dead is dead (its
client is gone, and a gone client does not attach), that a handler which
attaches and a reaper which releases hold the owner's lock and cannot be there
at once (`HandlersHold`, `ReaperHolds`), and that `release_owner` and `forget`
run only for an owner without living members (`ReleaseIsDue`).
`WorkersAreListed` needs that members are listed, except between `forget`'s two
commands; what a call creates after its session was dropped is `late` at once.

Only model-checked: liveness (`NoStarvation`, `ListedIsServed`, `TeardownEnds`,
`RequestsAreAnswered`, `SamplesAreAnswered`, `AbandonedWorkersGo`,
`FreeNodeIsUsed`, `FreeSeatIsUsed`), which is out of the prover's reach, and
that the two violated properties are violated. Every other property of a run
is a theorem.

## What is not modelled

Not at all: tensor work and losses, estimators and option parsing, the codec,
HTTP parsing, Kubernetes declarations, examples, site and manifests. They have
no state that several actors share. Neither are the LoRA sampler (a proxy to
vLLM), `LocalWorkerManager`, which spawns subprocesses on a developer's
machine, and the loading of saved training states.

What would be next: `InMemoryStore`, whose rotation serves the first nonempty
set always, as another implementation of `TenantLine`; slices and labels that
change under `NodePlacement`; replacements of a trainer that is down in
`TrainerTurn`.
