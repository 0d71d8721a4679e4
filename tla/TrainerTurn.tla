------------------------------- MODULE TrainerTurn ------------------------------
(***************************************************************************)
(* Fully fine-tuned models: one trainer process per model                  *)
(* (src/server/training_requests_processor.py) drains the model's queue,   *)
(* takes turns on a claim it shares with other trainers, and stores an     *)
(* answer for every request.  The time slicer appears at the level of its  *)
(* commands (src/accel_timeslicer): TimeSlicer has its inner steps, its    *)
(* policies and its restarts.                                              *)
(***************************************************************************)
EXTENDS Naturals, Sequences, SequencesExt, FiniteSetsExt

CONSTANTS
  Trainer,   \* the trainers of one claim
  None,      \* no trainer
  Sends,     \* what the clients of each send
  MaxPuts    \* bound: how many requests the API server puts for each

ASSUME TurnAssumption ==
  /\ None \notin Trainer
  /\ Sends \in [Trainer -> SUBSET {"work", "save", "shutdown"}]
  /\ MaxPuts \in [Trainer -> Nat]

VARIABLES
  \* the store
  reqs,     \* every request put for a trainer, in order, with what became of it
  taken,    \* how many of them the trainer has popped
  \* the trainer process
  pc,       \* where it is
  from,     \* its batch are the requests after from, up to taken
  phase,    \* handle_batch does the "work" first and the "save"s after it
  failure,  \* answer_batch's exception
  faulted,  \* the client's faulted: a release could not park this process
  offload,  \* cpu_offload: saves read host memory, without a turn
  mem,      \* its accelerator memory: "none", on the "device" or "parked"
  lossy,    \* history: a store call raised and left requests without answer
  \* the time slicer
  waiting,  \* waiting_workloads
  holder,   \* running
  failed,   \* the records' failed
  conn      \* the connections the trainers registered over

storeVars == <<reqs, taken>>
turnVars == <<phase, failure, faulted, mem>>
slicerVars == <<waiting, holder, failed, conn>>
vars == <<storeVars, pc, from, turnVars, offload, lossy, slicerVars>>

\* What a client sends: gradient work, a save, or the end of its model.
Op == {"work", "save", "shutdown"}

\* ran: what the operation did; result: what answer_batch has for it; answer:
\* what set_future stored.
Request == [op : Op, ran : {"no", "done", "error"},
            result : {"none", "done", "error", "failure"},
            answer : {"none", "done", "error", "failure"}]

PC == {"start", "idle", "acquire", "waiting", "granted", "working", "sleep",
       "release", "saving", "store", "exiting", "down"}

\* Every component is well formed; the batch is popped and its requests put.
TypeOK ==
  /\ reqs \in [Trainer -> Seq(Request)]
  /\ taken \in [Trainer -> Nat]
  /\ pc \in [Trainer -> PC]
  /\ from \in [Trainer -> Nat]
  /\ phase \in [Trainer -> {"work", "save"}]
  /\ failure \in [Trainer -> BOOLEAN]
  /\ faulted \in [Trainer -> BOOLEAN]
  /\ offload \in [Trainer -> BOOLEAN]
  /\ mem \in [Trainer -> {"none", "device", "parked"}]
  /\ lossy \in [Trainer -> BOOLEAN]
  /\ waiting \in Seq(Trainer)
  /\ holder \in Trainer \cup {None}
  /\ failed \in [Trainer -> BOOLEAN]
  /\ conn \in [Trainer -> {"none", "open", "closing", "closed"}]
  /\ \A w \in Trainer : from[w] <= taken[w] /\ taken[w] <= Len(reqs[w])

Init ==
  /\ reqs = [w \in Trainer |-> <<>>]
  /\ taken = [w \in Trainer |-> 0]
  /\ pc = [w \in Trainer |-> "start"]
  /\ from = [w \in Trainer |-> 0]
  /\ phase = [w \in Trainer |-> "work"]
  /\ failure = [w \in Trainer |-> FALSE]
  /\ faulted = [w \in Trainer |-> FALSE]
  /\ offload \in [Trainer -> BOOLEAN]
  /\ mem = [w \in Trainer |-> "none"]
  /\ lossy = [w \in Trainer |-> FALSE]
  /\ waiting = <<>>
  /\ holder = None
  /\ failed = [w \in Trainer |-> FALSE]
  /\ conn = [w \in Trainer |-> "none"]

-----------------------------------------------------------------------------
(* The batch.  A definition marked "Mutated" is no part of the model: it is *)
(* a plausible error in the one after it.                                   *)

Batch(w) == from[w] + 1 .. taken[w]

OpsOf(w, op) == {i \in Batch(w) : reqs[w][i].op = op}

\* What handle_batch has not handled yet, of one phase.
Todo(w, op) == {i \in OpsOf(w, op) : reqs[w][i].result = "none"}

Unstored(w) ==
  {i \in Batch(w) : reqs[w][i].result # "none" /\ reqs[w][i].answer = "none"}

\* Mutated: the failure replaces the results of what ran before it.
FailAll(w) ==
  reqs' = [reqs EXCEPT ![w] = [i \in DOMAIN @ |->
             IF i \in OpsOf(w, "work") \cup OpsOf(w, "save")
             THEN [@[i] EXCEPT !.result = "failure"] ELSE @[i]]]

\* answer_batch: whatever has no result yet gets the failure as its answer.
FailRest(w) ==
  reqs' = [reqs EXCEPT ![w] = [i \in DOMAIN @ |->
             IF i \in Todo(w, "work") \cup Todo(w, "save")
             THEN [@[i] EXCEPT !.result = "failure"] ELSE @[i]]]

\* A request joins the queue; nobody reads the queue of a process that is down.
Put(w) ==
  /\ Len(reqs[w]) < MaxPuts[w]
  /\ pc[w] # "down"
  /\ \E op \in Sends[w] :
       reqs' = [reqs EXCEPT ![w] =
         Append(@, [op |-> op, ran |-> "no", result |-> "none", answer |-> "none"])]
  /\ UNCHANGED <<taken, pc, from, turnVars, offload, lossy, slicerVars>>

\* run registers with the slicer before it polls.
Register(w) ==
  /\ pc[w] = "start"
  /\ pc' = [pc EXCEPT ![w] = "idle"]
  /\ failed' = [failed EXCEPT ![w] = FALSE]
  /\ conn' = [conn EXCEPT ![w] = "open"]
  /\ UNCHANGED <<storeVars, from, turnVars, offload, lossy, waiting, holder>>

\* get_requests_for_model: BLPOP and LPOPs until the queue is empty.  Work is
\* done under a turn and before all saves; saves alone need a turn only if the
\* weights are not offloaded.
Pop(w) ==
  /\ pc[w] = "idle"
  /\ taken[w] < Len(reqs[w])
  /\ taken' = [taken EXCEPT ![w] = Len(reqs[w])]
  /\ from' = [from EXCEPT ![w] = taken[w]]
  /\ LET ops == {reqs[w][i].op : i \in taken[w] + 1 .. Len(reqs[w])} IN
     /\ phase' = [phase EXCEPT ![w] = IF "work" \in ops THEN "work" ELSE "save"]
     /\ pc' = [pc EXCEPT ![w] = CASE "work" \in ops -> "acquire"
                                  [] "work" \notin ops /\ "save" \notin ops -> "store"
                                  [] OTHER -> IF offload[w] THEN "saving" ELSE "acquire"]
  /\ UNCHANGED <<reqs, failure, faulted, mem, offload, lossy, slicerVars>>

\* A Redis call raises in the drain: what was popped is gone, and run goes on.
PopBroken(w) ==
  /\ pc[w] = "idle"
  /\ \E n \in taken[w] + 1 .. Len(reqs[w]) :
       /\ taken' = [taken EXCEPT ![w] = n]
       /\ from' = [from EXCEPT ![w] = n]
  /\ lossy' = [lossy EXCEPT ![w] = TRUE]
  /\ UNCHANGED <<reqs, pc, turnVars, offload, slicerVars>>

-----------------------------------------------------------------------------
(* Turns *)

\* ACQUIRE of a name that is not failed.
Ask(w) ==
  /\ pc[w] = "acquire"
  /\ ~failed[w]
  /\ waiting' = Append(waiting, w)
  /\ pc' = [pc EXCEPT ![w] = "waiting"]
  /\ UNCHANGED <<storeVars, from, turnVars, offload, lossy, holder, failed, conn>>

\* ACQUIRE of a failed name: the client closes its connection and raises, and
\* the batch fails.  The daemon has seen the end of the old connection before
\* it reads the first command of a new one.
Refused(w) ==
  /\ pc[w] = "acquire"
  /\ failed[w]
  /\ conn[w] # "closing"
  /\ conn' = [conn EXCEPT ![w] = IF @ = "open" THEN "closing" ELSE @]
  /\ FailRest(w)
  /\ failure' = [failure EXCEPT ![w] = TRUE]
  /\ pc' = [pc EXCEPT ![w] = "store"]
  /\ UNCHANGED <<taken, from, phase, faulted, mem, offload, lossy, waiting, holder, failed>>

\* The free claim goes to who waits longest, restored from host memory; a
\* trainer that died waiting is granted too.
Grant(w) ==
  /\ waiting # <<>>
  /\ w = Head(waiting)
  /\ holder = None
  /\ holder' = w
  /\ waiting' = Tail(waiting)
  /\ IF pc[w] = "waiting"
     THEN /\ pc' = [pc EXCEPT ![w] = IF phase[w] = "work" THEN "granted" ELSE "saving"]
          /\ mem' = [mem EXCEPT ![w] = IF @ = "parked" THEN "device" ELSE @]
     ELSE UNCHANGED <<pc, mem>>
  /\ UNCHANGED <<storeVars, from, phase, failure, faulted, offload, lossy, failed, conn>>

\* wake_up, before the block that ends with sleep: it may raise.
WakeUp(w) ==
  /\ pc[w] = "granted"
  /\ mem' = [mem EXCEPT ![w] = "device"]
  /\ \/ pc' = [pc EXCEPT ![w] = "working"] /\ UNCHANGED failure
     \/ /\ offload[w]
        /\ pc' = [pc EXCEPT ![w] = "release"]
        /\ failure' = [failure EXCEPT ![w] = TRUE]
  /\ UNCHANGED <<storeVars, from, phase, faulted, offload, lossy, slicerVars>>

\* handle_request: an operation's own error is its answer.
Handle(w, op) ==
  /\ pc[w] = (IF op = "work" THEN "working" ELSE "saving")
  /\ Todo(w, op) # {}
  /\ \E res \in {"done", "error"} :
       reqs' = [reqs EXCEPT ![w][Min(Todo(w, op))] = [@ EXCEPT !.ran = res, !.result = res]]
  /\ UNCHANGED <<taken, pc, from, turnVars, offload, lossy, slicerVars>>

\* Mutated: the turn ends with the first operation.
SleepEarly(w) ==
  /\ pc[w] = "working"
  /\ pc' = [pc EXCEPT ![w] = "release"]
  /\ UNCHANGED <<storeVars, from, turnVars, offload, lossy, slicerVars>>

\* sleep, whatever the operations did; an error of its own fails the batch.
Sleep(w) ==
  /\ pc[w] = "working"
  /\ Todo(w, "work") = {}
  /\ pc' = [pc EXCEPT ![w] = "release"]
  /\ \/ UNCHANGED failure
     \/ offload[w] /\ failure' = [failure EXCEPT ![w] = TRUE]
  /\ UNCHANGED <<storeVars, from, phase, faulted, mem, offload, lossy, slicerVars>>

\* The last save under a turn.
SavedInTurn(w) ==
  /\ pc[w] = "saving"
  /\ Todo(w, "save") = {}
  /\ pc' = [pc EXCEPT ![w] = IF offload[w] THEN "store" ELSE "release"]
  /\ UNCHANGED <<storeVars, from, turnVars, offload, lossy, slicerVars>>

\* Mutated: saves need no turn, offloaded or not.
GoOnWithoutTurn(w) ==
  IF failure[w]
  THEN FailRest(w) /\ pc' = [pc EXCEPT ![w] = "store"] /\ UNCHANGED phase
  ELSE /\ phase' = [phase EXCEPT ![w] = "save"]
       /\ pc' = [pc EXCEPT ![w] = IF Todo(w, "save") = {} THEN "store" ELSE "saving"]
       /\ UNCHANGED reqs

\* After RELEASE's answer: the failure, or the saves, or the answers.
GoOn(w) ==
  IF failure[w]
  THEN FailRest(w) /\ pc' = [pc EXCEPT ![w] = "store"] /\ UNCHANGED phase
  ELSE /\ phase' = [phase EXCEPT ![w] = "save"]
       /\ pc' = [pc EXCEPT ![w] = CASE Todo(w, "save") = {} -> "store"
                                    [] Todo(w, "save") # {} /\ offload[w] -> "saving"
                                    [] OTHER -> "acquire"]
       /\ UNCHANGED reqs

\* RELEASE of a process that the restorer parks, or that has nothing to park.
Release(w) ==
  /\ pc[w] = "release"
  /\ mem' = [mem EXCEPT ![w] = IF @ = "device" THEN "parked" ELSE @]
  /\ holder' = None
  /\ GoOn(w)
  /\ UNCHANGED <<taken, from, failure, faulted, offload, lossy, waiting, failed, conn>>

\* Mutated: the client raises as for any other refusal.
ReleaseFaultUnnoted(w) ==
  /\ pc[w] = "release"
  /\ mem[w] = "device"
  /\ failed' = [failed EXCEPT ![w] = TRUE]
  /\ GoOn(w)
  /\ UNCHANGED <<taken, from, failure, faulted, offload, mem, lossy, waiting, holder, conn>>

\* RELEASE of a process that cannot be parked: it keeps the grant and its
\* connection, is failed, and goes on to its answers.
ReleaseFaulted(w) ==
  /\ pc[w] = "release"
  /\ mem[w] = "device"
  /\ failed' = [failed EXCEPT ![w] = TRUE]
  /\ faulted' = [faulted EXCEPT ![w] = TRUE]
  /\ GoOn(w)
  /\ UNCHANGED <<taken, from, failure, offload, mem, lossy, waiting, holder, conn>>

-----------------------------------------------------------------------------
(* Answers and exits *)

\* set_future of one result; their order is left out.
Store(w) ==
  /\ pc[w] = "store"
  /\ \E i \in Unstored(w) :
       reqs' = [reqs EXCEPT ![w][i].answer = reqs[w][i].result]
  /\ UNCHANGED <<taken, pc, from, turnVars, offload, lossy, slicerVars>>

\* Mutated: the next batch skips a request.
BatchOverPast(w) ==
  /\ from' = [from EXCEPT ![w] = taken[w] + 1]
  /\ phase' = [phase EXCEPT ![w] = "work"]
  /\ failure' = [failure EXCEPT ![w] = FALSE]

\* run_once is over: its locals are gone.
BatchOver(w) ==
  /\ from' = [from EXCEPT ![w] = taken[w]]
  /\ phase' = [phase EXCEPT ![w] = "work"]
  /\ failure' = [failure EXCEPT ![w] = FALSE]

\* So is everything of a process that ended.
Gone(w) ==
  /\ pc' = [pc EXCEPT ![w] = "down"]
  /\ mem' = [mem EXCEPT ![w] = "none"]
  /\ faulted' = [faulted EXCEPT ![w] = FALSE]
  /\ BatchOver(w)

\* set_future raises: the results that remain are lost, and so are the checks
\* at the end of run_once.
StoreError(w) ==
  /\ pc[w] = "store"
  /\ Unstored(w) # {}
  /\ pc' = [pc EXCEPT ![w] = "idle"]
  /\ lossy' = [lossy EXCEPT ![w] = TRUE]
  /\ BatchOver(w)
  /\ UNCHANGED <<storeVars, faulted, mem, offload, slicerVars>>

\* The end of run_once: the failure is raised first and run goes on; a faulted
\* process closes its connection; one told to shut down unregisters before.
Finish(w) ==
  /\ pc[w] = "store"
  /\ Unstored(w) = {}
  /\ LET leaves == ~failure[w] /\ (faulted[w] \/ OpsOf(w, "shutdown") # {}) IN
     /\ pc' = [pc EXCEPT ![w] = IF leaves THEN "exiting" ELSE "idle"]
     /\ conn' = [conn EXCEPT ![w] = IF leaves /\ @ = "open" THEN "closing" ELSE @]
     /\ holder' = IF leaves /\ ~faulted[w] /\ holder = w THEN None ELSE holder
  /\ BatchOver(w)
  /\ UNCHANGED <<storeVars, faulted, mem, offload, lossy, waiting, failed>>

\* os._exit
Exit(w) ==
  /\ pc[w] = "exiting"
  /\ Gone(w)
  /\ UNCHANGED <<storeVars, offload, lossy, slicerVars>>

\* The process is killed.
Kill(w) ==
  /\ pc[w] # "down"
  /\ Gone(w)
  /\ conn' = [conn EXCEPT ![w] = IF @ = "open" THEN "closing" ELSE @]
  /\ UNCHANGED <<storeVars, offload, lossy, waiting, holder, failed>>

\* Mutated: the grant of a trainer that is gone stays with it.
SeeCloseKeepsGrant(w) ==
  /\ conn[w] = "closing"
  /\ w \notin Range(waiting)
  /\ conn' = [conn EXCEPT ![w] = "closed"]
  /\ failed' = [failed EXCEPT ![w] = TRUE]
  /\ UNCHANGED <<storeVars, pc, from, turnVars, offload, lossy, waiting, holder>>

\* connection_closed, once no handler waits for the name.
SeeClose(w) ==
  /\ conn[w] = "closing"
  /\ w \notin Range(waiting)
  /\ conn' = [conn EXCEPT ![w] = "closed"]
  /\ holder' = IF holder = w THEN None ELSE holder
  /\ failed' = [failed EXCEPT ![w] = TRUE]
  /\ UNCHANGED <<storeVars, pc, from, turnVars, offload, lossy, waiting>>

-----------------------------------------------------------------------------
(* Specifications *)

Run(w) ==
  \/ Register(w)
  \/ Pop(w)
  \/ Ask(w)
  \/ Refused(w)
  \/ WakeUp(w)
  \/ Handle(w, "work")
  \/ Handle(w, "save")
  \/ Sleep(w)
  \/ SavedInTurn(w)
  \/ Release(w)
  \/ ReleaseFaulted(w)
  \/ Store(w)
  \/ Finish(w)
  \/ Exit(w)

Slice(w) == Grant(w) \/ SeeClose(w)

Next ==
  \E w \in Trainer :
    \/ Put(w)
    \/ Run(w)
    \/ Slice(w)
    \/ PopBroken(w)
    \/ StoreError(w)
    \/ Kill(w)

Spec == Init /\ [][Next]_vars

\* A process that runs goes on, and the daemon's loop serves who waits and
\* reads ends of streams.  Nobody has to send, and nothing has to fail.
Fairness ==
  \A w \in Trainer : WF_vars(Run(w)) /\ WF_vars(Grant(w)) /\ WF_vars(SeeClose(w))

FairSpec == Spec /\ Fairness

-----------------------------------------------------------------------------
(* Properties *)

OnDevice == {w \in Trainer : mem[w] = "device"}

\* The places of a turn: the claim was granted and is not yet released.
InTurn(w) ==
  pc[w] \in {"granted", "working", "release"} \/ (pc[w] = "saving" /\ ~offload[w])

\* A trainer computes, and saves from the devices, only with the grant in its
\* hands; one that could not be parked never gets another turn.
WorkHoldsGrant ==
  \A w \in Trainer : InTurn(w) => holder = w /\ ~faulted[w]

\* Whoever has memory on the devices outside its turn was told that it could
\* not be parked: every healthy process that does not hold the claim is off it.
OverlapNeedsFault ==
  \A w \in OnDevice : ~faulted[w] => holder = w

\* The lease that the trainers of a claim rely on, see DeviceLease: a trainer
\* that could not be parked is the one that has to leave.
Lease == INSTANCE DeviceLease WITH
  Workload <- Trainer, Claim <- {"claim"}, ClaimOf <- [w \in Trainer |-> "claim"],
  NoWorkload <- None, holder <- [k \in {"claim"} |-> holder],
  onDevice <- OnDevice, leaving <- {w \in Trainer : faulted[w]}

\* Batches, turns, failures, refusals and exits implement the lease: memory
\* goes to the devices in a turn only, and the claim moves on when it is off
\* them again or the trainer was told that it could not be parked.
LeaseSpec == Lease!Spec

\* A save that ran has every work request before it behind it, in its own
\* batch or an earlier one, run, refused with its batch or lost by the store:
\* weights are not saved ahead of training that was asked for before.
SaveFollowsEarlierWork ==
  \A w \in Trainer : \A j \in DOMAIN reqs[w] : \A i \in 1 .. j - 1 :
    /\ reqs[w][j].op = "save"
    /\ reqs[w][j].ran # "no"
    /\ reqs[w][i].op = "work"
    => reqs[w][i].result # "none" \/ lossy[w]

\* The stored answer says what happened, whatever failed later in the batch:
\* an operation's own result if it ran, the batch's failure only if it did not.
AnswerIsOutcome ==
  \A w \in Trainer : \A i \in DOMAIN reqs[w] :
    LET r == reqs[w][i] IN
    r.answer # "none" => r.answer = (IF r.ran = "no" THEN "failure" ELSE r.ran)

\* Faulted, yet polling for the next batch: the exception of the batch, or of
\* a set_future, went past the exit of run_once.
Zombie(w) == faulted[w] /\ pc[w] = "idle"

Unanswered(w) ==
  {i \in 1 .. taken[w] : reqs[w][i].op # "shutdown" /\ reqs[w][i].answer = "none"}

\* Whatever the trainer has popped is answered, however batches fail and
\* rivals are killed or cannot be parked, unless the trainer is killed, the
\* store raises, or a trainer survives its fault.
RequestsAreAnswered ==
  \A w \in Trainer :
    Unanswered(w) # {}
      ~> \/ Unanswered(w) = {}
         \/ pc[w] = "down" \/ lossy[w]
         \/ \E z \in Trainer : Zombie(z)

===============================================================================
