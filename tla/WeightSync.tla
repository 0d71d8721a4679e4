------------------------------- MODULE WeightSync -------------------------------
(***************************************************************************)
(* How the weights of a fully fine-tuned model get from its trainer        *)
(* (src/training/fft_trainer_worker.py) over the shared volume to its      *)
(* sampler (src/server/vllm_sampler.py).  Under the delta strategy a saved *)
(* version holds only what the last optimizer step changed, and the        *)
(* sampler patches its engine's weights with it                            *)
(* (src/server/delta_weight_transfer_engine.py).                           *)
(*                                                                         *)
(* A parameter's value is the number of the step that changed it last.     *)
(***************************************************************************)
EXTENDS Naturals, Sequences, SequencesExt

CONSTANTS
  Param,     \* parameters of the model
  Name,      \* names that versions are saved under
  Sample,    \* sampling requests
  None,      \* no name, no request
  Keep,      \* SAMPLER_VERSIONS_KEPT
  MaxStep,   \* bound: optimizer steps
  MaxQueue   \* bound: requests in the trainer's queue

ASSUME SyncAssumption ==
  /\ None \notin Name \cup Sample
  /\ Keep \in Nat \ {0}
  /\ MaxStep \in Nat
  /\ MaxQueue \in Nat

VARIABLES
  strategy,  \* OPEN_RL_WEIGHT_SYNC_STRATEGY: "delta" or "full"
  \* the trainer
  inbox,     \* its queue: how many optimizer steps, and the names to save
  steps,     \* optimizer steps left of its batch
  saves,     \* names left to save of its batch
  step,      \* optimizer steps done
  weights,   \* its parameters
  delta,     \* _latest_delta_tensors: which parameters, changed by which step
  \* the volume
  dirs,      \* version directories, oldest first
  file,      \* what each holds, and the weights it was saved from
  \* the clients
  told,      \* names whose saves were answered, in order
  sampled,   \* the version the last answered sample came from
  \* the sampler
  state,     \* where each sampling request is
  name,      \* its weights_path
  engine,    \* the parameters in the vLLM engine
  mode,      \* the engine: "asleep", its "weights" awake, or "awake"
  resting,   \* IS_ENGINE_SLEEPING
  loaded,    \* CURRENT_LOADED_SAMPLER_WEIGHTS
  lock,      \* who holds reload_lock
  turn       \* a batch is running

trainerVars == <<inbox, steps, saves, step, weights, delta>>
volumeVars == <<dirs, file>>
clientVars == <<told, sampled>>
requestVars == <<state, name>>
engineVars == <<engine, mode, resting, loaded, lock, turn>>
vars == <<strategy, trainerVars, volumeVars, clientVars, requestVars, engineVars>>

Weights == [Param -> Nat]
Delta == [on : SUBSET Param, step : Nat]
File == [whole : BOOLEAN, weights : Weights, delta : Delta]

\* "loading": the engine sleeps and only its weights are back; "ready": the
\* transfer is done; "lost": popped by a process that died, or Redis failed
\* between the pops of its batch, or did not take its answer.
State == {"new", "queued", "taken", "loading", "ready", "generating",
          "ok", "failed", "lost"}

\* Every component is well formed, the volume holds no more than one version
\* beyond those kept, and the lock is held by a request that loads.
TypeOK ==
  /\ strategy \in {"delta", "full"}
  /\ inbox \in [steps : Nat, saves : Seq(Name)]
  /\ steps \in Nat
  /\ saves \in Seq(Name)
  /\ step \in Nat
  /\ weights \in Weights
  /\ delta \in Delta
  /\ dirs \in Seq(Name)
  /\ Len(dirs) <= Keep + 1
  /\ file \in [Name -> File]
  /\ told \in Seq(Name)
  /\ sampled \in Name \cup {None}
  /\ state \in [Sample -> State]
  /\ name \in [Sample -> Name \cup {None}]
  /\ engine \in Weights
  /\ mode \in {"asleep", "weights", "awake"}
  /\ resting \in BOOLEAN
  /\ loaded \in Name \cup {None}
  /\ lock \in Sample \cup {None}
  /\ turn \in BOOLEAN
  /\ \A s \in Sample : state[s] \in {"loading", "ready"} <=> lock = s

NoRequests == [steps |-> 0, saves |-> <<>>]
Base == [p \in Param |-> 0]
NoDelta == [on |-> {}, step |-> 0]

\* The engine is put to sleep right after it was initialised.
Init ==
  /\ strategy \in {"delta", "full"}
  /\ inbox = NoRequests
  /\ steps = 0
  /\ saves = <<>>
  /\ step = 0
  /\ weights = Base
  /\ delta = NoDelta
  /\ dirs = <<>>
  /\ file = [n \in Name |-> [whole |-> FALSE, weights |-> Base, delta |-> NoDelta]]
  /\ told = <<>>
  /\ sampled = None
  /\ state = [s \in Sample |-> "new"]
  /\ name = [s \in Sample |-> None]
  /\ engine = Base
  /\ mode = "asleep"
  /\ resting = TRUE
  /\ loaded = None
  /\ lock = None
  /\ turn = FALSE

\* index_copy_ of a delta's values: they are absolute.
Patched(w, d) == [p \in Param |-> IF p \in d.on THEN d.step ELSE w[p]]

-----------------------------------------------------------------------------
(* The trainer.  A definition marked "Mutated" is no part of the model: it  *)
(* is a plausible error in the one after it.                                *)

\* run_once pops all there is; handle_batch does the saves last, so it does not
\* matter where in the queue the steps are among the saves.
TrainerPop ==
  /\ steps = 0 /\ saves = <<>>
  /\ inbox # NoRequests
  /\ steps' = inbox.steps
  /\ saves' = inbox.saves
  /\ inbox' = NoRequests
  /\ UNCHANGED <<strategy, step, weights, delta, volumeVars, clientVars,
                 requestVars, engineVars>>

\* Mutated: a delta is what changed against the first weights, not the last.
OptimStepTwiceShadowed ==
  /\ steps > 0
  /\ steps' = steps - 1
  /\ step' = step + 1
  /\ \E on \in SUBSET Param :
       /\ weights' = Patched(weights, [on |-> on, step |-> step + 1])
       /\ delta' = [on |-> on \ delta.on, step |-> step + 1]
  /\ UNCHANGED <<strategy, inbox, saves, volumeVars, clientVars, requestVars, engineVars>>

\* optim_step: the delta is the difference to the shadow of the step before.
OptimStep ==
  /\ steps > 0
  /\ steps' = steps - 1
  /\ step' = step + 1
  /\ \E on \in SUBSET Param :
       /\ weights' = Patched(weights, [on |-> on, step |-> step + 1])
       /\ delta' = [on |-> on, step |-> step + 1]
  /\ UNCHANGED <<strategy, inbox, saves, volumeVars, clientVars, requestVars, engineVars>>

\* save_for_sampler: the directory is there before its files are.  One that is
\* written again keeps its place: its modification time does not change.
SaveStart ==
  /\ steps = 0 /\ saves # <<>>
  /\ Head(saves) \notin Range(dirs) \/ file[Head(saves)].whole
  /\ dirs' = IF Head(saves) \in Range(dirs) THEN dirs ELSE Append(dirs, Head(saves))
  /\ file' = [file EXCEPT ![Head(saves)].whole = FALSE]
  /\ UNCHANGED <<strategy, trainerVars, clientVars, requestVars, engineVars>>

\* Mutated: one version fewer than SAMPLER_VERSIONS_KEPT.
OlderVersionsOneMore == SubSeq(dirs, 1, Len(dirs) - Keep + 1)

\* Mutated: one version more than SAMPLER_VERSIONS_KEPT.
OlderVersionsOneLess == SubSeq(dirs, 1, Len(dirs) - Keep - 1)

\* older_versions
OlderVersions == SubSeq(dirs, 1, Len(dirs) - Keep)

\* The files and metadata.json are written; publish_checkpoint prunes; the
\* save is answered.  The subscribers of the publish are nobody.
SaveDone ==
  /\ steps = 0 /\ saves # <<>>
  /\ Head(saves) \in Range(dirs) /\ ~file[Head(saves)].whole
  /\ file' = [file EXCEPT ![Head(saves)] =
                [whole |-> TRUE, weights |-> weights, delta |-> delta]]
  /\ dirs' = SubSeq(dirs, Len(OlderVersions) + 1, Len(dirs))
  /\ told' = Append(told, Head(saves))
  /\ saves' = Tail(saves)
  /\ UNCHANGED <<strategy, inbox, steps, step, weights, delta, sampled, requestVars, engineVars>>

-----------------------------------------------------------------------------
(* The sampler *)

Asking == {s \in Sample : state[s] \in {"taken", "loading", "ready", "generating"}}
Queue == {s \in Sample : state[s] = "queued"}

\* The requests that are popped fail.  set_future may raise, which fail_requests
\* swallows, and so does the task of a request.
Failed(popped) ==
  \E unset \in SUBSET popped :
    state' = [s \in Sample |-> IF s \in unset THEN "lost"
                             ELSE IF s \in popped THEN "failed" ELSE state[s]]

\* Mutated: a turn serves one request, whichever.
TakeBatchOne ==
  /\ ~turn
  /\ turn' = TRUE
  /\ \E s \in Queue : state' = [state EXCEPT ![s] = "taken"]
  /\ mode' = IF resting THEN "awake" ELSE mode
  /\ resting' = FALSE
  /\ UNCHANGED <<strategy, trainerVars, volumeVars, clientVars, name, engine, loaded, lock>>

\* A turn: every queued request is popped, the sleeping engine woken.
TakeBatch ==
  /\ ~turn
  /\ Queue # {}
  /\ turn' = TRUE
  /\ state' = [s \in Sample |-> IF s \in Queue THEN "taken" ELSE state[s]]
  /\ mode' = IF resting THEN "awake" ELSE mode
  /\ resting' = FALSE
  /\ UNCHANGED <<strategy, trainerVars, volumeVars, clientVars, name, engine, loaded, lock>>

\* get_sampling_requests_for_model: a command raises after the BLPOP or some of
\* the LPOPs.  What they popped is in nobody's hands.
PopBroken ==
  /\ ~turn
  /\ \E popped \in SUBSET Queue :
       /\ popped # {}
       /\ state' = [s \in Sample |-> IF s \in popped THEN "lost" ELSE state[s]]
  /\ UNCHANGED <<strategy, trainerVars, volumeVars, clientVars, name, engineVars>>

\* The turn or the wake-up raises: fail_requests answers what was popped.
TurnBroken ==
  /\ ~turn
  /\ Queue # {}
  /\ Failed(Queue)
  /\ UNCHANGED <<strategy, trainerVars, volumeVars, clientVars, name, engineVars>>

\* Mutated: nobody waits for the lock of a reload.
LockIgnored(s) ==
  /\ state[s] = "taken"
  /\ IF name[s] = loaded \/ lock # None
     THEN state' = [state EXCEPT ![s] = "generating"] /\ UNCHANGED <<lock, mode>>
     ELSE /\ state' = [state EXCEPT ![s] = "loading"]
          /\ lock' = s
          /\ mode' = "weights"
  /\ UNCHANGED <<strategy, trainerVars, volumeVars, clientVars, name, engine, resting, loaded, turn>>

\* reload_lock: another version than the one loaded puts the whole engine to
\* sleep and wakes its weights.
Lock(s) ==
  /\ state[s] = "taken"
  /\ lock = None
  /\ IF name[s] = loaded
     THEN state' = [state EXCEPT ![s] = "generating"] /\ UNCHANGED <<lock, mode>>
     ELSE /\ state' = [state EXCEPT ![s] = "loading"]
          /\ lock' = s
          /\ mode' = "weights"
  /\ UNCHANGED <<strategy, trainerVars, volumeVars, clientVars, name, engine, resting, loaded, turn>>

\* receive_weights: a delta is copied into the engine's weights, in place or
\* by way of a host snapshot of them; under the full strategy all are loaded
\* anew.  A directory without metadata.json is read as one that changes nothing.
Received(n) ==
  IF n \in Range(dirs) /\ file[n].whole
  THEN IF strategy = "delta" THEN Patched(engine, file[n].delta) ELSE file[n].weights
  ELSE engine

Transfer(s) ==
  /\ state[s] = "loading"
  /\ name[s] \in Range(dirs)
  /\ engine' = Received(name[s])
  /\ state' = [state EXCEPT ![s] = "ready"]
  /\ UNCHANGED <<strategy, trainerVars, volumeVars, clientVars, name, mode, resting, loaded, lock, turn>>

\* The transfer raises: the directory is missing, or it breaks off half way.
\* The request fails, the engine's KV cache stays asleep.
TransferFails(s) ==
  /\ state[s] = "loading"
  /\ \E on \in SUBSET Param :
       engine' = [p \in Param |-> IF p \in on THEN Received(name[s])[p] ELSE engine[p]]
  /\ Failed({s})
  /\ lock' = None
  /\ UNCHANGED <<strategy, trainerVars, volumeVars, clientVars, name, mode, resting, loaded, turn>>

\* The KV cache wakes up too; the version is the loaded one.
Loaded(s) ==
  /\ state[s] = "ready"
  /\ mode' = "awake"
  /\ resting' = FALSE
  /\ loaded' = name[s]
  /\ lock' = None
  /\ state' = [state EXCEPT ![s] = "generating"]
  /\ UNCHANGED <<strategy, trainerVars, volumeVars, clientVars, name, engine, turn>>

\* run_generation_backend and set_future.
Generate(s) ==
  /\ state[s] = "generating"
  /\ \/ state' = [state EXCEPT ![s] = "ok"] /\ sampled' = name[s]
     \/ Failed({s}) /\ UNCHANGED sampled
  /\ UNCHANGED <<strategy, trainerVars, volumeVars, told, name, engineVars>>

\* All of the batch is answered: the engine sleeps until the next turn.
BatchEnd ==
  /\ turn
  /\ Asking = {}
  /\ turn' = FALSE
  /\ mode' = "asleep"
  /\ resting' = TRUE
  /\ UNCHANGED <<strategy, trainerVars, volumeVars, clientVars, requestVars, engine, loaded, lock>>

\* engine.sleep raises, before or after the engine went to sleep; the flag is not
\* set, so the next turn does not wake it.
SleepBroken ==
  /\ turn
  /\ Asking = {}
  /\ turn' = FALSE
  /\ mode' \in {mode, "asleep"}
  /\ UNCHANGED <<strategy, trainerVars, volumeVars, clientVars, requestVars, engine, resting,
                 loaded, lock>>

\* The sampler dies, or could not be parked and exits for a restart, or its
\* engine died and its requests are failed first: a new engine has the base
\* model's weights.
Restart ==
  /\ engine' = Base
  /\ mode' = "asleep"
  /\ resting' = TRUE
  /\ loaded' = None
  /\ lock' = None
  /\ turn' = FALSE
  /\ \E failed \in SUBSET Asking :
       state' = [s \in Sample |-> IF s \in failed THEN "failed"
                                ELSE IF s \in Asking THEN "lost" ELSE state[s]]
  /\ UNCHANGED <<strategy, trainerVars, volumeVars, clientVars, name>>

-----------------------------------------------------------------------------
(* The clients *)

Queued == inbox.steps + Len(inbox.saves)

AskOptim ==
  /\ step + steps + inbox.steps < MaxStep
  /\ Queued < MaxQueue
  /\ inbox' = [inbox EXCEPT !.steps = @ + 1]
  /\ UNCHANGED <<strategy, steps, saves, step, weights, delta, volumeVars, clientVars,
                 requestVars, engineVars>>

AskSave(n) ==
  /\ Queued < MaxQueue
  /\ inbox' = [inbox EXCEPT !.saves = Append(@, n)]
  /\ UNCHANGED <<strategy, steps, saves, step, weights, delta, volumeVars, clientVars,
                 requestVars, engineVars>>

\* A client samples from a version that it was told is saved.
AskSample(s, n) ==
  /\ state[s] \in {"new", "ok", "failed", "lost"}
  /\ n \in Range(told)
  /\ state' = [state EXCEPT ![s] = "queued"]
  /\ name' = [name EXCEPT ![s] = n]
  /\ UNCHANGED <<strategy, trainerVars, volumeVars, clientVars, engineVars>>

Pending == Queue \cup Asking

TrainerIdle == inbox = NoRequests /\ steps = 0 /\ saves = <<>>

AllAnswered == TrainerIdle /\ Pending = {}

\* The newest version has been sampled from, and holds the last step.
Synced ==
  \/ step = 0
  \/ /\ told # <<>>
     /\ sampled = Last(told)
     /\ file[sampled].delta.step = step

\* The loop of the reinforcement learning recipes: a step, a save under a new
\* name, samples of it until one succeeds; each waits for the ones before.
Lockstep ==
  \/ AllAnswered /\ Synced /\ AskOptim
  \/ /\ AllAnswered
     /\ \E n \in Name : n \notin Range(told)
     /\ AskSave(CHOOSE n \in Name : n \notin Range(told))
  \/ \E s \in Sample :
       /\ TrainerIdle
       /\ told # <<>>
       /\ AskSample(s, Last(told))

-----------------------------------------------------------------------------
(* Specifications *)

Train == TrainerPop \/ OptimStep \/ SaveStart \/ SaveDone

Serve ==
  \/ TakeBatch
  \/ BatchEnd
  \/ \E s \in Sample : Lock(s) \/ Transfer(s) \/ TransferFails(s) \/ Loaded(s) \/ Generate(s)

\* What Redis, the turn and the engine do to a batch.
Broken == PopBroken \/ TurnBroken \/ SleepBroken

\* Under the delta strategy a sampler that restarts has the base model's weights
\* and never gets the deltas of the versions before: that case is left out here.
LockstepNext ==
  \/ Lockstep
  \/ Train
  \/ Serve
  \/ Broken
  \/ strategy = "full" /\ Restart

Next ==
  \/ AskOptim
  \/ \E n \in Name : AskSave(n)
  \/ \E s \in Sample, n \in Name : AskSample(s, n)
  \/ Train
  \/ Serve
  \/ Broken
  \/ Restart

Spec == Init /\ [][Next]_vars
LockstepSpec == Init /\ [][LockstepNext]_vars

\* A sampler that runs goes on.
FairLockstepSpec == LockstepSpec /\ WF_vars(Serve)

-----------------------------------------------------------------------------
(* Properties *)

\* A request generates from the weights that were saved under the name it
\* gives: all that the model was trained for before the save.
SamplesSavedWeights ==
  \A s \in Sample : state[s] = "generating" => engine = file[name[s]].weights

\* The engine is all awake while a request generates: no reload and no end of
\* a batch puts it to sleep under a request.  It is asleep only if an
\* engine.sleep raised that had put it to sleep, so that nothing knows of it.
GeneratesAwake ==
  \A s \in Sample :
    state[s] = "generating" => mode = "awake" \/ (mode = "asleep" /\ ~resting)

\* A version that is asked for is on the volume, whole, until it is loaded:
\* neither pruned nor half written.
VersionIsThere ==
  \A s \in Sample : state[s] \in {"queued", "taken", "loading"} =>
    name[s] \in Range(dirs) /\ file[name[s]].whole

\* A request that is queued gets an answer, unless the sampler dies with it or
\* Redis fails while it is popped or answered: no broken turn, wake-up, transfer
\* or sleep, and no batch before it, leaves it waiting.
SamplesAreAnswered ==
  \A s \in Sample :
    state[s] = "queued" ~> state[s] \in {"ok", "failed", "lost"}

===============================================================================
