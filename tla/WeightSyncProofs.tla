----------------------------- MODULE WeightSyncProofs -----------------------------
(***************************************************************************)
(* For any parameters, names, samples and bounds: TypeOK of every run, and *)
(* of the recipes' loop (LockstepSpec) that a sample comes from the        *)
(* weights that were saved under its name, from an engine that is awake    *)
(* and a version that is there.                                            *)
(***************************************************************************)
EXTENDS WeightSync, SequenceLemmas, TLAPS

-----------------------------------------------------------------------------
(* The invariants *)

\* The save in hand has its directory, and not yet its files.
Writing ==
  /\ steps = 0 /\ saves # <<>>
  /\ Head(saves) \in Range(dirs)
  /\ ~file[Head(saves)].whole

\* One version beyond those kept is the one that is being written.
SyncTypes == TypeOK /\ (Len(dirs) <= Keep \/ Writing)

\* At most one request is with the trainer, and while it is nobody samples.
OneAtATime ==
  /\ inbox.steps + steps + Len(inbox.saves) + Len(saves) <= 1
  /\ ~TrainerIdle => Pending = {}

\* Names are used once, and directories are of versions that were told, but
\* for the one in hand, which is the newest.
NamesAreFresh ==
  /\ inbox.saves # <<>> => Head(inbox.saves) \notin Range(told)
  /\ saves # <<>> => Head(saves) \notin Range(told)
  /\ \A n \in Range(dirs) : n \in Range(told) \/ (saves # <<>> /\ n = Head(saves))
  /\ saves # <<>> /\ Head(saves) \in Range(dirs) => Last(dirs) = Head(saves)
  /\ {loaded, sampled} \subseteq Range(told) \cup {None}

\* What the trainer knows of its last step.
DeltaIsLast ==
  /\ delta.step = step
  /\ step = 0 => delta.on = {}

\* The newest version: whole, on the volume, and what the trainer has unless a
\* step was done since.
NewestIsWhole ==
  told # <<>> =>
    /\ Last(told) \in Range(dirs)
    /\ file[Last(told)].whole
    /\ file[Last(told)].delta.step <= step
    /\ file[Last(told)].delta.step = step =>
         file[Last(told)].weights = weights /\ file[Last(told)].delta = delta

\* Who asks, asks for the newest version; who generates has it loaded.
AsksForNewest ==
  \A s \in Sample :
    /\ s \in Pending => told # <<>> /\ name[s] = Last(told)
    /\ state[s] \in {"loading", "ready"} => loaded # name[s]
    /\ state[s] = "generating" => loaded = name[s]

\* Requests are with the engine in turns, which begin with waking it; a
\* transfer of the newest version leaves it half awake only until it is loaded.
WakesInTurns ==
  /\ ~turn => Asking = {}
  /\ turn => ~resting
  /\ told # <<>> /\ loaded = Last(told) => mode # "weights"

\* Who is ready to take the newest version for loaded has its weights, and so
\* has everyone when it is loaded.
LoadedIsSaved ==
  /\ \A s \in Sample : state[s] = "ready" => engine = file[name[s]].weights
  /\ told # <<>> /\ loaded = Last(told) => engine = file[loaded].weights

\* Under the delta strategy the engine is never more than the last delta behind
\* the trainer, and not behind at all when the trainer does a step.
OneDeltaBehind ==
  strategy = "delta" =>
    /\ Patched(engine, delta) = weights
    /\ inbox.steps + steps > 0 => engine = weights
    /\ told # <<>> /\ sampled = Last(told) => loaded = sampled
    /\ told # <<>> =>
         /\ Patched(engine, file[Last(told)].delta) = file[Last(told)].weights
         /\ file[Last(told)].delta.step < step => engine = file[Last(told)].weights

LockstepInv ==
  /\ SyncTypes
  /\ OneAtATime
  /\ NamesAreFresh
  /\ DeltaIsLast
  /\ NewestIsWhole
  /\ AsksForNewest
  /\ WakesInTurns
  /\ LoadedIsSaved
  /\ OneDeltaBehind

-----------------------------------------------------------------------------
(* Operators of the model *)

\* A delta of well-formed weights patches them into well-formed ones.
LEMMA PatchedType ==
  ASSUME NEW w \in Weights, NEW d \in Delta
  PROVE  Patched(w, d) \in Weights
  BY DEF Patched, Weights, Delta

\* What is pruned leaves at most Keep versions, and the newest one.
LEMMA PruneKeepsNewest ==
  ASSUME dirs \in Seq(Name)
  PROVE  /\ Len(OlderVersions) \in 0..Len(dirs)
         /\ Len(dirs) - Len(OlderVersions) <= Keep
         /\ dirs # <<>> => Len(OlderVersions) < Len(dirs)
<1>1. Keep \in Nat \ {0} /\ Len(dirs) \in Nat /\ (dirs # <<>> => Len(dirs) > 0)
  BY SyncAssumption
<1>2. \A i \in 1..(Len(dirs) - Keep) : dirs[i] \in Name
  BY <1>1
<1>3. Len(OlderVersions) = IF 1 <= Len(dirs) - Keep THEN Len(dirs) - Keep - 1 + 1
                                                   ELSE 0
  BY <1>1, <1>2, SubSeqProperties DEF OlderVersions
<1> QED BY <1>1, <1>3

\* Whoever fails is told so, or lost.
LEMMA FailedEffect ==
  ASSUME state \in [Sample -> State], NEW popped \in SUBSET Sample, Failed(popped)
  PROVE  /\ state' \in [Sample -> State]
         /\ \A s \in popped : state'[s] \in {"failed", "lost"}
         /\ \A s \in Sample \ popped : state'[s] = state[s]
<1>1. PICK unset \in SUBSET popped :
        state' = [s \in Sample |-> IF s \in unset THEN "lost"
                                 ELSE IF s \in popped THEN "failed" ELSE state[s]]
  BY DEF Failed
<1>2. \A s \in Sample :
        \/ s \in unset /\ state'[s] = "lost"
        \/ s \in popped \ unset /\ state'[s] = "failed"
        \/ s \notin popped /\ state'[s] = state[s]
  BY <1>1
<1>3. state' \in [Sample -> State]
  BY <1>1 DEF State
<1> QED BY <1>2, <1>3

\* Popped requests are lost to an error of Redis.
LEMMA PopBrokenEffect ==
  ASSUME state \in [Sample -> State], PopBroken
  PROVE  /\ state' \in [Sample -> State]
         /\ \A s \in Sample :
              state'[s] = state[s] \/ (state[s] = "queued" /\ state'[s] = "lost")
  BY DEF PopBroken, State, Queue

\* A sampler that dies answers or loses what it was asked.
LEMMA RestartEffect ==
  ASSUME state \in [Sample -> State], Restart
  PROVE  /\ state' \in [Sample -> State]
         /\ \A s \in Sample :
              \/ s \in Asking /\ state'[s] \in {"failed", "lost"}
              \/ s \notin Asking /\ state'[s] = state[s]
<1>1. PICK failed \in SUBSET Asking :
        state' = [s \in Sample |-> IF s \in failed THEN "failed"
                                 ELSE IF s \in Asking THEN "lost" ELSE state[s]]
  BY DEF Restart
<1>2. \A s \in Sample :
        \/ s \in failed /\ state'[s] = "failed"
        \/ s \in Asking \ failed /\ state'[s] = "lost"
        \/ s \notin Asking /\ state'[s] = state[s]
  BY <1>1
<1>3. state' \in [Sample -> State]
  BY <1>1 DEF State
<1> QED BY <1>2, <1>3

\* Received weights are well formed.
LEMMA ReceivedType ==
  ASSUME TypeOK, NEW n \in Name
  PROVE  Received(n) \in Weights
  BY PatchedType DEF TypeOK, Received, File

-----------------------------------------------------------------------------
(* Types *)

\* The initial state is well formed.
LEMMA InitTypes == Init => SyncTypes
<1> SUFFICES ASSUME Init PROVE SyncTypes
  OBVIOUS
<1>1. Base \in Weights /\ NoDelta \in Delta
  BY DEF Base, NoDelta, Weights, Delta
<1>2. file \in [Name -> File]
  BY <1>1 DEF Init, File
<1>3. inbox \in [steps : Nat, saves : Seq(Name)]
  BY DEF Init, NoRequests
<1>4. /\ dirs \in Seq(Name) /\ told \in Seq(Name) /\ saves \in Seq(Name)
      /\ Len(dirs) <= Keep
      /\ Len(dirs) <= Keep + 1
  BY SyncAssumption DEF Init
<1>5. \A s \in Sample : state[s] = "new" /\ lock # s
  BY SyncAssumption DEF Init
<1>6. state \in [Sample -> State] /\ name \in [Sample -> Name \cup {None}]
  BY DEF Init, State
<1>7. TypeOK
  BY <1>1, <1>2, <1>3, <1>4, <1>5, <1>6, SyncAssumption DEF Init, TypeOK
<1> QED BY <1>4, <1>7, SyncAssumption DEF SyncTypes

\* An action of the trainer keeps everything well formed.
LEMMA TrainTypes == SyncTypes /\ Train => SyncTypes'
<1> SUFFICES ASSUME SyncTypes, Train PROVE SyncTypes'
  OBVIOUS
<1> USE DEF SyncTypes
<1>1. CASE TrainerPop
  BY <1>1
  DEF TrainerPop, TypeOK, Writing, NoRequests, volumeVars, clientVars, requestVars,
      engineVars
<1>2. CASE OptimStep
  <2>1. PICK on \in SUBSET Param :
          /\ weights' = Patched(weights, [on |-> on, step |-> step + 1])
          /\ delta' = [on |-> on, step |-> step + 1]
    BY <1>2 DEF OptimStep
  <2>2. delta' \in Delta /\ weights' \in Weights
    <3>1. [on |-> on, step |-> step + 1] \in Delta /\ weights \in Weights
      BY DEF TypeOK, Delta
    <3> QED BY <2>1, <3>1, PatchedType
  <2>3. steps' \in Nat /\ step' \in Nat
    BY <1>2 DEF OptimStep, TypeOK
  <2> QED BY <1>2, <2>2, <2>3
    DEF OptimStep, TypeOK, Writing, volumeVars, clientVars, requestVars, engineVars
<1>3. CASE SaveStart
  <2>1. Head(saves) \in Name /\ dirs \in Seq(Name)
    BY <1>3 DEF SaveStart, TypeOK
  <2>2. ~Writing
    BY <1>3 DEF SaveStart, Writing
  <2>3. /\ dirs' \in Seq(Name)
        /\ Head(saves) \in Range(dirs')
        /\ Len(dirs') <= Keep + 1
    BY <1>3, <2>1, <2>2, AppendIsLast, SyncAssumption DEF SaveStart, TypeOK
  <2>4. /\ file' \in [Name -> File]
        /\ ~file'[Head(saves)].whole
    BY <1>3, <2>1 DEF SaveStart, TypeOK, File
  <2>5. Writing'
    BY <1>3, <2>3, <2>4 DEF SaveStart, Writing, trainerVars
  <2> QED BY <1>3, <2>3, <2>4, <2>5
    DEF SaveStart, TypeOK, trainerVars, clientVars, requestVars, engineVars
<1>4. CASE SaveDone
  <2>1. Head(saves) \in Name /\ Tail(saves) \in Seq(Name) /\ dirs \in Seq(Name)
    BY <1>4 DEF SaveDone, TypeOK
  <2>2. dirs' \in Seq(Name) /\ Len(dirs') <= Keep /\ Len(dirs') <= Keep + 1
    <3>1. dirs' \in Seq(Name) /\ Len(dirs') <= Keep
      BY <1>4, <2>1, PruneKeepsNewest, DropKeepsLast DEF SaveDone
    <3> QED BY <3>1, SyncAssumption
  <2>3. file' \in [Name -> File]
    BY <1>4, <2>1 DEF SaveDone, TypeOK, File
  <2>4. told' \in Seq(Name)
    BY <1>4, <2>1 DEF SaveDone, TypeOK
  <2> QED BY <1>4, <2>1, <2>2, <2>3, <2>4, SyncAssumption
    DEF SaveDone, TypeOK, requestVars, engineVars
<1> QED BY <1>1, <1>2, <1>3, <1>4 DEF Train

\* So does one of the sampler.
LEMMA ServeTypes ==
  SyncTypes /\ (Serve \/ Broken \/ Restart) => SyncTypes'
<1> SUFFICES ASSUME SyncTypes, Serve \/ Broken \/ Restart PROVE SyncTypes'
  OBVIOUS
<1> USE DEF SyncTypes, State, trainerVars, volumeVars, clientVars, requestVars,
            engineVars
<1>1. CASE TakeBatch
  BY <1>1 DEF TakeBatch, TypeOK, Writing, Queue
<1>2. CASE BatchEnd \/ SleepBroken
  BY <1>2 DEF BatchEnd, SleepBroken, TypeOK, Writing
<1>3. CASE PopBroken \/ TurnBroken
  <2>1. /\ state' \in [Sample -> State]
        /\ \A s \in Sample :
             \/ state'[s] = state[s]
             \/ state[s] = "queued" /\ state'[s] \in {"failed", "lost"}
    <3>1. state \in [Sample -> State] /\ Queue \in SUBSET Sample
      BY DEF TypeOK, Queue
    <3>2. CASE PopBroken
      BY <3>1, <3>2, PopBrokenEffect
    <3>3. CASE TurnBroken
      BY <3>1, <3>3, FailedEffect DEF TurnBroken, Queue
    <3> QED BY <1>3, <3>2, <3>3
  <2>2. \A s \in Sample :
          state'[s] \in {"loading", "ready"} <=> state[s] \in {"loading", "ready"}
    BY <2>1
  <2>3. UNCHANGED <<strategy, trainerVars, volumeVars, clientVars, name, engineVars>>
    BY <1>3 DEF PopBroken, TurnBroken
  <2> HIDE DEF State
  <2>4. TypeOK'
    BY <2>1, <2>2, <2>3 DEF TypeOK
  <2>5. Writing' <=> Writing
    BY <2>3 DEF Writing
  <2> QED BY <2>3, <2>4, <2>5
<1>4. CASE Restart
  <2>1. engine' \in Weights
    BY <1>4 DEF Restart, Base, Weights
  <2>2. /\ state' \in [Sample -> State]
        /\ \A s \in Sample : state'[s] \notin {"loading", "ready"}
    BY <1>4, RestartEffect DEF TypeOK, Asking
  <2> QED BY <1>4, <2>1, <2>2, SyncAssumption DEF Restart, TypeOK, Writing
<1>5. ASSUME NEW s \in Sample, Lock(s) PROVE SyncTypes'
  <2>1. TypeOK'
    <3>1. /\ lock = None /\ state \in [Sample -> State]
          /\ \A t \in Sample : state[t] \notin {"loading", "ready"}
      BY <1>5, SyncAssumption DEF Lock, TypeOK
    <3>2. UNCHANGED <<strategy, trainerVars, volumeVars, clientVars, name,
                      engine, resting, loaded, turn>>
      BY <1>5 DEF Lock
    <3>3. /\ state' \in [Sample -> State]
          /\ lock' \in Sample \cup {None}
          /\ mode' \in {"asleep", "weights", "awake"}
          /\ \A t \in Sample : state'[t] \in {"loading", "ready"} <=> lock' = t
      <4>1. CASE name[s] = loaded
        <5>1. /\ state' = [state EXCEPT ![s] = "generating"]
              /\ UNCHANGED <<lock, mode>>
          BY <1>5, <4>1 DEF Lock
        <5> QED BY <3>1, <5>1, SyncAssumption DEF TypeOK
      <4>2. CASE name[s] # loaded
        <5>1. /\ state' = [state EXCEPT ![s] = "loading"]
              /\ lock' = s
              /\ mode' = "weights"
          BY <1>5, <4>2 DEF Lock
        <5> QED BY <3>1, <5>1
      <4> QED BY <4>1, <4>2
    <3> HIDE DEF State
    <3> QED BY <3>2, <3>3 DEF TypeOK
  <2>2. (Writing' <=> Writing) /\ UNCHANGED dirs
    BY <1>5 DEF Lock, Writing
  <2> QED BY <2>1, <2>2
<1>6. ASSUME NEW s \in Sample, Transfer(s) PROVE SyncTypes'
  <2>1. name[s] \in Name
    BY <1>6, RangeOfSeq DEF Transfer, TypeOK
  <2>2. engine' \in Weights
    BY <1>6, <2>1, ReceivedType DEF Transfer
  <2> QED BY <1>6, <2>2 DEF Transfer, TypeOK, Writing
<1>7. ASSUME NEW s \in Sample, TransferFails(s) PROVE SyncTypes'
  <2>1. Received(name[s]) \in Weights
    BY <1>7, ReceivedType, RangeOfSeq DEF TypeOK, Received
  <2>2. engine' \in Weights
    BY <1>7, <2>1 DEF TransferFails, TypeOK, Weights
  <2>3. /\ state[s] = "loading" /\ lock' = None
        /\ Failed({s})
        /\ UNCHANGED <<strategy, trainerVars, volumeVars, clientVars, name, mode, resting,
                       loaded, turn>>
    BY <1>7 DEF TransferFails
  <2>4. /\ state' \in [Sample -> State]
        /\ \A t \in Sample : state'[t] \notin {"loading", "ready"} /\ lock' # t
    <3>1. lock = s /\ state \in [Sample -> State]
      BY <2>3 DEF TypeOK
    <3>2. /\ state' \in [Sample -> State]
          /\ state'[s] \in {"failed", "lost"}
          /\ \A t \in Sample \ {s} : state'[t] = state[t]
      BY <2>3, <3>1, FailedEffect
    <3>3. \A t \in Sample \ {s} : state[t] \notin {"loading", "ready"}
      BY <3>1 DEF TypeOK
    <3> QED BY <2>3, <3>2, <3>3, SyncAssumption
  <2> HIDE DEF State
  <2>5. TypeOK'
    BY <2>2, <2>3, <2>4 DEF TypeOK
  <2>6. Writing' <=> Writing
    BY <2>3 DEF Writing
  <2> QED BY <2>3, <2>5, <2>6
<1>8. ASSUME NEW s \in Sample, Loaded(s) PROVE SyncTypes'
  <2>1. /\ state' \in [Sample -> State]
        /\ \A t \in Sample : state'[t] \notin {"loading", "ready"} /\ lock' # t
    BY <1>8, SyncAssumption DEF Loaded, TypeOK
  <2>2. name[s] \in Name \cup {None}
    BY DEF TypeOK
  <2> QED BY <1>8, <2>1, <2>2 DEF Loaded, TypeOK, Writing
<1>9. ASSUME NEW s \in Sample, Generate(s) PROVE SyncTypes'
  <2>1. /\ state' \in [Sample -> State]
        /\ \A t \in Sample :
             state'[t] \in {"loading", "ready"} <=> state[t] \in {"loading", "ready"}
    <3>1. state \in [Sample -> State] /\ state[s] = "generating"
      BY <1>9 DEF Generate, TypeOK
    <3>2. CASE Failed({s})
      BY <3>1, <3>2, FailedEffect
    <3>3. CASE state' = [state EXCEPT ![s] = "ok"]
      BY <3>1, <3>3
    <3> QED BY <1>9, <3>2, <3>3 DEF Generate
  <2>2. UNCHANGED <<strategy, trainerVars, volumeVars, told, name, engineVars>>
        /\ sampled' \in {sampled, name[s]}
    BY <1>9 DEF Generate
  <2>3. TypeOK'
    BY <2>1, <2>2 DEF TypeOK
  <2> QED BY <2>2, <2>3 DEF Writing
<1> QED BY <1>1, <1>2, <1>3, <1>4, <1>5, <1>6, <1>7, <1>8, <1>9 DEF Serve, Broken

\* And so does a client.
LEMMA AskTypes ==
  ASSUME SyncTypes,
         \/ AskOptim
         \/ \E n \in Name : AskSave(n)
         \/ \E s \in Sample, n \in Name : AskSample(s, n)
  PROVE  SyncTypes'
<1> USE DEF SyncTypes, State, volumeVars, clientVars, trainerVars, requestVars,
            engineVars
<1>1. CASE AskOptim
  <2>1. inbox' \in [steps : Nat, saves : Seq(Name)]
    <3>1. /\ inbox \in [steps : Nat, saves : Seq(Name)]
          /\ inbox' = [inbox EXCEPT !.steps = inbox.steps + 1]
      BY <1>1 DEF AskOptim, TypeOK
    <3> QED BY <3>1
  <2> QED BY <1>1, <2>1 DEF AskOptim, TypeOK, Writing
<1>2. ASSUME NEW n \in Name, AskSave(n) PROVE SyncTypes'
  <2>1. inbox' \in [steps : Nat, saves : Seq(Name)]
    <3>1. /\ inbox \in [steps : Nat, saves : Seq(Name)]
          /\ inbox' = [inbox EXCEPT !.saves = Append(inbox.saves, n)]
      BY <1>2 DEF AskSave, TypeOK
    <3> QED BY <3>1
  <2> QED BY <1>2, <2>1 DEF AskSave, TypeOK, Writing
<1>3. ASSUME NEW s \in Sample, NEW n \in Name, AskSample(s, n) PROVE SyncTypes'
  BY <1>3 DEF AskSample, TypeOK, Writing
<1> QED BY <1>1, <1>2, <1>3

\* TypeOK holds whatever clients ask for.
THEOREM SyncWellFormed == Spec => []TypeOK
<1>1. SyncTypes /\ [Next]_vars => SyncTypes'
  <2> SUFFICES ASSUME SyncTypes, [Next]_vars PROVE SyncTypes'
    OBVIOUS
  <2>1. CASE Next
    BY <2>1, TrainTypes, ServeTypes, AskTypes DEF Next
  <2>2. CASE UNCHANGED vars
    BY <2>2
    DEF SyncTypes, TypeOK, Writing, vars, trainerVars, volumeVars, clientVars,
        requestVars, engineVars
  <2> QED BY <2>1, <2>2
<1>2. SyncTypes => TypeOK
  BY DEF SyncTypes
<1> QED BY InitTypes, <1>1, <1>2, PTL DEF Spec

-----------------------------------------------------------------------------
(* The recipes' loop *)

\* The initial state satisfies the invariant of the loop.
LEMMA InitLockstep == Init => LockstepInv
<1> SUFFICES ASSUME Init PROVE LockstepInv
  OBVIOUS
<1>1. SyncTypes
  BY InitTypes
<1>2. Pending = {} /\ Asking = {}
  BY DEF Init, Pending, Asking, Queue
<1>3. OneAtATime
  BY <1>2 DEF Init, OneAtATime, NoRequests, TrainerIdle
<1>4. NamesAreFresh
  BY DEF Init, NamesAreFresh, NoRequests, Range
<1>5. DeltaIsLast /\ NewestIsWhole
  BY DEF Init, DeltaIsLast, NewestIsWhole, NoDelta
<1>6. AsksForNewest /\ WakesInTurns /\ LoadedIsSaved
  BY <1>2 DEF Init, AsksForNewest, WakesInTurns, LoadedIsSaved
<1>7. OneDeltaBehind
  BY DEF Init, OneDeltaBehind, NoRequests, Patched, Base, NoDelta
<1> QED BY <1>1, <1>3, <1>4, <1>5, <1>6, <1>7 DEF LockstepInv

\* At most one of four counters is positive if their sum is at most one.
LEMMA OneOfFour ==
  ASSUME NEW i \in Nat, NEW j \in Nat, NEW k \in Nat, NEW m \in Nat,
         i + j + k + m <= 1
  PROVE  /\ j > 0 => m = 0 /\ i = 0 /\ k = 0 /\ j = 1
         /\ m >= 1 => m = 1 /\ j = 0 /\ i = 0 /\ k = 0
         /\ i = 0 \/ k = 0
  OBVIOUS

\* While the trainer is busy nobody asks, and the request it has is the only
\* one.
LEMMA BusyAlone ==
  ASSUME LockstepInv
  PROVE  /\ ~TrainerIdle => Pending = {} /\ Asking = {}
         /\ steps > 0 => saves = <<>> /\ inbox = NoRequests /\ steps = 1
         /\ saves # <<>> => steps = 0 /\ inbox = NoRequests /\ Tail(saves) = <<>>
         /\ saves = <<>> /\ steps = 0 => inbox.steps = 0 \/ inbox.saves = <<>>
<1>1. /\ inbox \in [steps : Nat, saves : Seq(Name)]
      /\ steps \in Nat /\ inbox.steps \in Nat
      /\ saves \in Seq(Name) /\ Len(saves) \in Nat
      /\ inbox.saves \in Seq(Name) /\ Len(inbox.saves) \in Nat
  BY DEF LockstepInv, SyncTypes, TypeOK
<1>2. /\ inbox.steps + steps + Len(inbox.saves) + Len(saves) <= 1
      /\ ~TrainerIdle => Pending = {}
  BY DEF LockstepInv, OneAtATime
<1>3. Pending = {} => Asking = {}
  BY DEF Pending
<1>4. /\ saves # <<>> => Len(saves) >= 1
      /\ saves = <<>> => Len(saves) = 0
      /\ inbox.saves # <<>> => Len(inbox.saves) >= 1
  BY <1>1
<1>5. inbox.steps = 0 /\ inbox.saves = <<>> => inbox = NoRequests
  BY <1>1 DEF NoRequests
<1>6. Len(saves) = 1 => Tail(saves) = <<>>
  <2>1. Len(saves) = 1 => Len(Tail(saves)) = 0 /\ Tail(saves) \in Seq(Name)
    BY <1>1
  <2> QED BY <2>1, EmptySeq
<1>7. /\ steps > 0 => Len(saves) = 0 /\ inbox.steps = 0 /\ Len(inbox.saves) = 0 /\ steps = 1
      /\ Len(saves) >= 1 => Len(saves) = 1 /\ steps = 0 /\ inbox.steps = 0
                              /\ Len(inbox.saves) = 0
      /\ inbox.steps = 0 \/ Len(inbox.saves) = 0
  BY <1>1, <1>2, OneOfFour
<1>8. Len(inbox.saves) = 0 => inbox.saves = <<>>
  BY <1>1, EmptySeq
<1>9. Len(saves) = 0 => saves = <<>>
  BY <1>1, EmptySeq
<1> QED BY <1>2, <1>3, <1>4, <1>5, <1>6, <1>7, <1>8, <1>9

\* The trainer pops the one request there is.
LEMMA PopKeeps == LockstepInv /\ TrainerPop /\ SyncTypes' => LockstepInv'
<1> SUFFICES ASSUME LockstepInv, TrainerPop, SyncTypes' PROVE LockstepInv'
  OBVIOUS
<1> USE DEF TrainerPop, volumeVars, clientVars, requestVars, engineVars
<1>1. /\ Pending = {} /\ Pending' = {}
      /\ Asking' = Asking
  BY BusyAlone DEF TrainerIdle, Pending, Asking, Queue
<1>2. OneAtATime'
  <2>1. /\ inbox \in [steps : Nat, saves : Seq(Name)]
        /\ inbox.steps + steps + Len(inbox.saves) + Len(saves) <= 1
        /\ steps = 0 /\ Len(saves) = 0
    BY DEF LockstepInv, SyncTypes, TypeOK, OneAtATime
  <2>2. inbox'.steps = 0 /\ Len(inbox'.saves) = 0
    BY DEF NoRequests
  <2> QED BY <1>1, <2>1, <2>2 DEF OneAtATime
<1>3. NamesAreFresh'
  BY DEF LockstepInv, NamesAreFresh, NoRequests
<1>4. DeltaIsLast' /\ NewestIsWhole'
  BY DEF LockstepInv, DeltaIsLast, NewestIsWhole
<1>5. AsksForNewest' /\ WakesInTurns' /\ LoadedIsSaved'
  BY <1>1 DEF LockstepInv, AsksForNewest, WakesInTurns, LoadedIsSaved
<1>6. OneDeltaBehind'
  <2>1. inbox'.steps + steps' > 0 => inbox.steps + steps > 0
    BY DEF LockstepInv, SyncTypes, TypeOK, NoRequests
  <2> QED BY <2>1 DEF LockstepInv, OneDeltaBehind, Patched
<1> QED BY <1>2, <1>3, <1>4, <1>5, <1>6 DEF LockstepInv

\* A step is done on weights that the engine has.
LEMMA OptimKeeps == LockstepInv /\ OptimStep /\ SyncTypes' => LockstepInv'
<1> SUFFICES ASSUME LockstepInv, OptimStep, SyncTypes' PROVE LockstepInv'
  OBVIOUS
<1> USE DEF OptimStep, volumeVars, clientVars, requestVars, engineVars
<1>1. /\ saves = <<>> /\ inbox = NoRequests /\ steps = 1
      /\ Pending = {} /\ Pending' = {}
      /\ Asking' = Asking
  BY BusyAlone DEF TrainerIdle, Pending, Asking, Queue
<1>2. step \in Nat /\ step' = step + 1
  BY DEF LockstepInv, SyncTypes, TypeOK
<1>3. OneAtATime'
  BY <1>1 DEF OneAtATime, NoRequests
<1>4. NamesAreFresh' /\ AsksForNewest' /\ WakesInTurns' /\ LoadedIsSaved'
  BY <1>1
  DEF LockstepInv, NamesAreFresh, AsksForNewest, WakesInTurns, LoadedIsSaved
<1>5. DeltaIsLast'
  BY <1>2 DEF DeltaIsLast
<1>6. told # <<>> => Last(told) \in Name
  BY LastIsElement DEF LockstepInv, SyncTypes, TypeOK
<1>7. told # <<>> => file[Last(told)].delta.step \in Nat
  BY <1>6 DEF LockstepInv, SyncTypes, TypeOK, File, Delta
<1>8. NewestIsWhole'
  BY <1>2, <1>7 DEF LockstepInv, NewestIsWhole
<1>9. OneDeltaBehind'
  <2> SUFFICES ASSUME strategy = "delta" PROVE OneDeltaBehind'
    BY DEF OneDeltaBehind
  <2>1. engine = weights
    BY <1>1 DEF LockstepInv, OneDeltaBehind, NoRequests
  <2>2. Patched(engine, delta)' = weights'
    BY <2>1 DEF Patched
  <2>3. inbox'.steps + steps' = 0
    BY <1>1 DEF NoRequests
  <2>4. told # <<>> => engine = file[Last(told)].weights
    BY <1>2, <1>7, <2>1 DEF LockstepInv, OneDeltaBehind, NewestIsWhole
  <2> QED BY <2>2, <2>3, <2>4 DEF LockstepInv, OneDeltaBehind, Patched
<1> QED BY <1>3, <1>4, <1>5, <1>8, <1>9 DEF LockstepInv

\* The directory of a new name does not disturb the versions that were told.
LEMMA SaveStartKeeps == LockstepInv /\ SaveStart /\ SyncTypes' => LockstepInv'
<1> SUFFICES ASSUME LockstepInv, SaveStart, SyncTypes' PROVE LockstepInv'
  OBVIOUS
<1> USE DEF SaveStart, trainerVars, clientVars, requestVars, engineVars
<1>1. Pending = {} /\ Asking = {} /\ Pending' = {} /\ Asking' = {}
  BY BusyAlone DEF TrainerIdle, Pending, Asking, Queue
<1>2. /\ dirs \in Seq(Name) /\ Head(saves) \in Name /\ told \in Seq(Name)
      /\ file \in [Name -> File]
  BY DEF LockstepInv, SyncTypes, TypeOK
<1>3. Head(saves) \notin Range(told)
  BY DEF LockstepInv, NamesAreFresh
<1>4. /\ Range(dirs') = Range(dirs) \cup {Head(saves)}
      /\ Last(dirs') = Head(saves)
  BY <1>2, AppendIsLast DEF LockstepInv, NamesAreFresh
<1>5. told # <<>> => Last(told) \in Name /\ file'[Last(told)] = file[Last(told)]
  BY <1>2, <1>3, LastIsElement
<1>6. OneAtATime'
  BY <1>1 DEF LockstepInv, OneAtATime, TrainerIdle
<1>7. NamesAreFresh'
  BY <1>4 DEF LockstepInv, NamesAreFresh
<1>8. DeltaIsLast' /\ NewestIsWhole'
  BY <1>4, <1>5 DEF LockstepInv, DeltaIsLast, NewestIsWhole
<1>9. AsksForNewest' /\ WakesInTurns' /\ LoadedIsSaved'
  BY <1>1, <1>5
  DEF LockstepInv, AsksForNewest, WakesInTurns, LoadedIsSaved, Pending, Asking, Queue
<1>10. OneDeltaBehind'
  BY <1>5 DEF LockstepInv, OneDeltaBehind, Patched
<1> QED BY <1>6, <1>7, <1>8, <1>9, <1>10 DEF LockstepInv

\* The version that is told is the newest, survives the pruning, and is not
\* loaded yet.
LEMMA SaveDoneKeeps == LockstepInv /\ SaveDone /\ SyncTypes' => LockstepInv'
<1> SUFFICES ASSUME LockstepInv, SaveDone, SyncTypes' PROVE LockstepInv'
  OBVIOUS
<1> DEFINE h == Head(saves)
<1> USE DEF SaveDone, requestVars, engineVars
<1>1. /\ Pending = {} /\ Asking = {} /\ Pending' = {} /\ Asking' = {}
      /\ saves # <<>> /\ saves' = <<>> /\ steps = 0 /\ inbox = NoRequests
  BY BusyAlone DEF TrainerIdle, Pending, Asking, Queue
<1>2. /\ dirs \in Seq(Name) /\ h \in Name /\ told \in Seq(Name)
      /\ dirs # <<>>
      /\ file \in [Name -> File]
      /\ None \notin Name
  BY SyncAssumption DEF LockstepInv, SyncTypes, TypeOK, Range
<1>3. h \notin Range(told) /\ Last(dirs) = h
  BY DEF LockstepInv, NamesAreFresh
<1>4. Range(dirs') \subseteq Range(dirs) /\ h \in Range(dirs')
  <2>1. /\ dirs' \in Seq(Name) /\ dirs' # <<>>
        /\ Last(dirs') = h
        /\ Range(dirs') \subseteq Range(dirs)
    BY <1>2, <1>3, PruneKeepsNewest, DropKeepsLast
  <2> QED BY <2>1, LastIsElement
<1>5. /\ told' # <<>> /\ Last(told') = h
      /\ Range(told') = Range(told) \cup {h}
  <2>1. told' = Append(told, h)
    OBVIOUS
  <2> HIDE DEF h, SaveDone
  <2> QED BY <1>2, <2>1, AppendIsLast
<1>6. /\ file'[h] = [whole |-> TRUE, weights |-> weights, delta |-> delta]
      /\ h \notin {loaded, sampled}
  BY <1>2, <1>3 DEF LockstepInv, NamesAreFresh
<1>7. OneAtATime'
  <2>1. inbox' = NoRequests /\ saves' = <<>> /\ steps' = 0
    BY <1>1
  <2> HIDE DEF SaveDone
  <2> QED BY <1>1, <2>1 DEF OneAtATime, NoRequests
<1>8. NamesAreFresh'
  BY <1>1, <1>4, <1>5 DEF LockstepInv, NamesAreFresh, NoRequests
<1>9. DeltaIsLast' /\ NewestIsWhole'
  BY <1>4, <1>5, <1>6 DEF LockstepInv, SyncTypes, TypeOK, DeltaIsLast, NewestIsWhole
<1>10. AsksForNewest' /\ WakesInTurns'
  <2>1. UNCHANGED <<turn, resting, mode, loaded, state>>
    OBVIOUS
  <2>2. loaded' # Last(told')
    BY <1>5, <1>6
  <2> QED BY <1>1, <2>1, <2>2
          DEF LockstepInv, AsksForNewest, WakesInTurns, Pending, Asking, Queue
<1>11. LoadedIsSaved'
  BY <1>1, <1>5, <1>6 DEF LockstepInv, LoadedIsSaved, Asking
<1>12. OneDeltaBehind'
  <2>1. delta.step = step /\ step \in Nat
    BY DEF LockstepInv, DeltaIsLast, SyncTypes, TypeOK
  <2>2. inbox'.steps + steps' = 0
    BY <1>1 DEF NoRequests
  <2> SUFFICES ASSUME strategy = "delta" PROVE OneDeltaBehind'
    BY DEF OneDeltaBehind
  <2>3. Patched(engine, delta) = weights
    BY DEF LockstepInv, OneDeltaBehind
  <2>4. Patched(engine, delta)' = weights'
    BY <2>3 DEF Patched
  <2>5. Patched(engine, file[Last(told)].delta)' = Patched(engine, delta)
    BY <1>5, <1>6 DEF Patched
  <2>6. file'[Last(told')].weights = weights /\ file'[Last(told')].delta = delta
    BY <1>5, <1>6
  <2>7. sampled' # Last(told')
    BY <1>5, <1>6
  <2> QED BY <2>1, <2>2, <2>3, <2>4, <2>5, <2>6, <2>7 DEF OneDeltaBehind
<1> QED BY <1>7, <1>8, <1>9, <1>10, <1>11, <1>12 DEF LockstepInv

\* Patching once more, or after a part of a patch, changes nothing.
LEMMA PatchedAgain ==
  ASSUME NEW w \in Weights, NEW d \in Delta, NEW on \in SUBSET Param
  PROVE  /\ Patched(Patched(w, d), d) = Patched(w, d)
         /\ Patched([p \in Param |-> IF p \in on THEN Patched(w, d)[p] ELSE w[p]], d)
              = Patched(w, d)
  BY DEF Patched, Weights, Delta

\* What the sampler does leaves alone what the trainer, the volume and the
\* clients are about.
LEMMA ServingKeeps ==
  ASSUME LockstepInv, UNCHANGED <<strategy, trainerVars, volumeVars, told>>,
         Pending' \subseteq Pending,
         {loaded', sampled'} \subseteq {loaded, sampled} \cup Range(told) \cup {None}
  PROVE  /\ OneAtATime' /\ NamesAreFresh' /\ DeltaIsLast' /\ NewestIsWhole'
<1> USE DEF trainerVars, volumeVars
<1>1. OneAtATime'
  BY DEF LockstepInv, OneAtATime, TrainerIdle
<1>2. NamesAreFresh'
  BY DEF LockstepInv, NamesAreFresh
<1>3. DeltaIsLast' /\ NewestIsWhole'
  BY DEF LockstepInv, DeltaIsLast, NewestIsWhole
<1> QED BY <1>1, <1>2, <1>3

\* Where only the requests move, the engine's part of the invariant is kept.
LEMMA EngineRests ==
  ASSUME LockstepInv, UNCHANGED <<strategy, trainerVars, volumeVars, told, engine>>,
         strategy = "delta" => UNCHANGED <<loaded, sampled>>
  PROVE  OneDeltaBehind'
  BY DEF LockstepInv, OneDeltaBehind, trainerVars, volumeVars, Patched

\* A turn begins, ends or breaks.
LEMMA TurnKeeps ==
  LockstepInv /\ (TakeBatch \/ BatchEnd \/ Broken) /\ SyncTypes' => LockstepInv'
<1> SUFFICES ASSUME LockstepInv, TakeBatch \/ BatchEnd \/ Broken, SyncTypes'
             PROVE  LockstepInv'
  OBVIOUS
<1> USE DEF clientVars, requestVars, engineVars
<1>1. state \in [Sample -> State] /\ Queue \in SUBSET Sample
  BY DEF LockstepInv, SyncTypes, TypeOK, Queue
<1>2. \A s \in Sample :
        \/ state'[s] = state[s]
        \/ state[s] = "queued" /\ state'[s] \in {"failed", "lost"}
        \/ state[s] = "queued" /\ state'[s] = "taken" /\ TakeBatch
  <2>1. CASE TakeBatch
    BY <1>1, <2>1 DEF TakeBatch, Queue
  <2>2. CASE BatchEnd \/ SleepBroken
    BY <2>2 DEF BatchEnd, SleepBroken
  <2>3. CASE PopBroken
    BY <1>1, <2>3, PopBrokenEffect
  <2>4. CASE TurnBroken
    BY <1>1, <2>4, FailedEffect DEF TurnBroken, Queue
  <2> QED BY <2>1, <2>2, <2>3, <2>4 DEF Broken
<1>3. UNCHANGED <<strategy, trainerVars, volumeVars, told, sampled, engine, loaded, name>>
  BY DEF TakeBatch, BatchEnd, Broken, PopBroken, TurnBroken, SleepBroken
<1>4. Pending' \subseteq Pending /\ (~TakeBatch => Asking' = Asking)
  BY <1>2 DEF Pending, Asking, Queue
<1>5. OneAtATime' /\ NamesAreFresh' /\ DeltaIsLast' /\ NewestIsWhole'
  BY <1>3, <1>4, ServingKeeps
<1>6. OneDeltaBehind'
  BY <1>3, EngineRests
<1>7. \A s \in Sample :
        state'[s] \in {"loading", "ready", "generating"} => state[s] = state'[s]
  BY <1>2
<1>8. AsksForNewest'
  BY <1>3, <1>4, <1>7 DEF LockstepInv, AsksForNewest
<1>9. LoadedIsSaved'
  BY <1>3, <1>7 DEF LockstepInv, LoadedIsSaved, volumeVars
<1>10. WakesInTurns'
  <2>1. CASE TakeBatch
    BY <1>3, <2>1 DEF LockstepInv, WakesInTurns, TakeBatch
  <2>2. CASE ~TakeBatch
    <3>1. /\ UNCHANGED <<turn, resting>>
             \/ (Asking = {} /\ turn' = FALSE)
          /\ mode' \in {mode, "asleep"}
      BY <2>2 DEF Broken, BatchEnd, PopBroken, TurnBroken, SleepBroken
    <3> QED BY <1>3, <1>4, <2>2, <3>1 DEF LockstepInv, WakesInTurns
  <2> QED BY <2>1, <2>2
<1> QED BY <1>5, <1>6, <1>8, <1>9, <1>10 DEF LockstepInv

\* A request takes the lock, or finds its version loaded.
LEMMA LockKeeps ==
  ASSUME LockstepInv, NEW s \in Sample, Lock(s), SyncTypes'
  PROVE  LockstepInv'
<1> USE DEF Lock, clientVars, State
<1>1. state \in [Sample -> State] /\ s \in Asking /\ s \in Pending
  BY DEF LockstepInv, SyncTypes, TypeOK, Asking, Pending
<1>2. Pending' = Pending /\ Asking' = Asking
  BY <1>1 DEF Pending, Asking, Queue
<1>3. OneAtATime' /\ NamesAreFresh' /\ DeltaIsLast' /\ NewestIsWhole'
  BY <1>2, ServingKeeps
<1>4. OneDeltaBehind'
  BY EngineRests
<1>5. AsksForNewest'
  BY <1>1, <1>2 DEF LockstepInv, AsksForNewest
<1>6. LoadedIsSaved'
  BY <1>1 DEF LockstepInv, LoadedIsSaved, volumeVars
<1>7. name[s] = Last(told)
  BY <1>1 DEF LockstepInv, AsksForNewest
<1>8. WakesInTurns'
  BY <1>1, <1>2, <1>7 DEF LockstepInv, WakesInTurns, Asking
<1> QED BY <1>3, <1>4, <1>5, <1>6, <1>8 DEF LockstepInv

\* What a request that loads receives: the newest version, all of it.
LEMMA LoadsNewest ==
  ASSUME LockstepInv, NEW s \in Sample, state[s] = "loading"
  PROVE  /\ told # <<>> /\ name[s] = Last(told) /\ name[s] \in Name
         /\ loaded # name[s]
         /\ file[name[s]].weights \in Weights /\ file[name[s]].delta \in Delta
         /\ Received(name[s]) = file[name[s]].weights
         /\ strategy = "delta" =>
              Received(name[s]) = Patched(engine, file[name[s]].delta)
<1>1. s \in Pending
  BY DEF Pending, Asking, Queue
<1>2. told # <<>> /\ name[s] = Last(told) /\ loaded # name[s]
  BY <1>1 DEF LockstepInv, AsksForNewest
<1>3. name[s] \in Name
  BY <1>2, LastIsElement DEF LockstepInv, SyncTypes, TypeOK
<1>4. file[name[s]].weights \in Weights /\ file[name[s]].delta \in Delta
  BY <1>3 DEF LockstepInv, SyncTypes, TypeOK, File
<1>5. name[s] \in Range(dirs) /\ file[name[s]].whole
  BY <1>2 DEF LockstepInv, NewestIsWhole
<1>6. strategy = "delta" =>
        /\ Received(name[s]) = Patched(engine, file[name[s]].delta)
        /\ Received(name[s]) = file[name[s]].weights
  BY <1>2, <1>5 DEF LockstepInv, OneDeltaBehind, Received
<1>7. strategy # "delta" => Received(name[s]) = file[name[s]].weights
  BY <1>5 DEF Received
<1> QED BY <1>2, <1>3, <1>4, <1>6, <1>7

\* An engine that takes the newest delta, or a part of it, is where it has to
\* be: the delta is the trainer's last, or the engine has it already.
LEMMA PatchKeeps ==
  ASSUME LockstepInv, strategy = "delta", told # <<>>, Pending # {},
         NEW on \in SUBSET Param, loaded # Last(told),
         UNCHANGED <<strategy, trainerVars, volumeVars, told, loaded, sampled>>,
         engine' = [p \in Param |->
                      IF p \in on THEN Patched(engine, file[Last(told)].delta)[p]
                                  ELSE engine[p]]
  PROVE  OneDeltaBehind'
<1> DEFINE L == Last(told)
           d == file[L].delta
<1> USE DEF trainerVars, volumeVars
<1>1. /\ L \in Name /\ engine \in Weights
      /\ file[L].weights \in Weights /\ d \in Delta
  BY LastIsElement DEF LockstepInv, SyncTypes, TypeOK, File
<1>2. Patched(engine', d) = Patched(engine, d)
  BY <1>1, PatchedAgain
<1>3. /\ Patched(engine, delta) = weights
      /\ Patched(engine, d) = file[L].weights
      /\ d.step < step => engine = file[L].weights
      /\ sampled = L => loaded = sampled
  BY DEF LockstepInv, OneDeltaBehind
<1>4. engine = file[L].weights => engine' = engine
  BY <1>1, <1>3 DEF Weights
<1>5. d = delta \/ d.step < step
  BY <1>1 DEF LockstepInv, NewestIsWhole, SyncTypes, TypeOK, Delta
<1>6. Patched(engine', delta) = weights
  BY <1>2, <1>3, <1>4, <1>5
<1>7. ~(inbox.steps + steps > 0)
  BY DEF LockstepInv, OneAtATime, TrainerIdle, NoRequests
<1> HIDE DEF trainerVars, volumeVars
<1>8. UNCHANGED <<delta, weights, inbox, steps, step, file>>
  BY DEF trainerVars, volumeVars
<1> QED BY <1>2, <1>3, <1>4, <1>6, <1>7, <1>8 DEF OneDeltaBehind, Patched

\* The newest version is received, and the engine has its weights.
LEMMA TransferKeeps ==
  ASSUME LockstepInv, NEW s \in Sample, Transfer(s), SyncTypes'
  PROVE  LockstepInv'
<1> USE DEF Transfer, clientVars
<1>1. state \in [Sample -> State] /\ s \in Asking /\ s \in Pending /\ engine \in Weights
  BY DEF LockstepInv, SyncTypes, TypeOK, Asking, Pending
<1>2. Pending' = Pending /\ Asking' = Asking
  BY <1>1 DEF Pending, Asking, Queue
<1>3. OneAtATime' /\ NamesAreFresh' /\ DeltaIsLast' /\ NewestIsWhole'
  BY <1>2, ServingKeeps
<1>4. /\ told # <<>> /\ name[s] = Last(told) /\ loaded # name[s]
      /\ engine' = file[name[s]].weights
      /\ strategy = "delta" => engine' = Patched(engine, file[Last(told)].delta)
  BY LoadsNewest
<1>5. OneDeltaBehind'
  <2>1. CASE strategy = "delta"
    <3>1. engine' = [p \in Param |->
                       IF p \in Param THEN Patched(engine, file[Last(told)].delta)[p]
                                      ELSE engine[p]]
      BY <1>4, <2>1 DEF Patched
    <3> QED BY <1>1, <1>4, <2>1, <3>1, PatchKeeps
  <2>2. CASE strategy # "delta"
    BY <2>2 DEF OneDeltaBehind
  <2> QED BY <2>1, <2>2
<1>6. AsksForNewest'
  BY <1>1, <1>2 DEF LockstepInv, AsksForNewest
<1>7. LoadedIsSaved'
  <2>1. lock = s /\ \A t \in Sample : state'[t] = "ready" => lock = t \/ t = s
    BY <1>1 DEF LockstepInv, SyncTypes, TypeOK
  <2> QED BY <1>4, <2>1 DEF LoadedIsSaved, volumeVars
<1>8. WakesInTurns'
  BY <1>1, <1>2 DEF LockstepInv, WakesInTurns
<1> QED BY <1>3, <1>5, <1>6, <1>7, <1>8 DEF LockstepInv

\* A transfer that breaks off leaves an engine that the next one completes.
LEMMA TransferFailsKeeps ==
  ASSUME LockstepInv, NEW s \in Sample, TransferFails(s), SyncTypes'
  PROVE  LockstepInv'
<1> USE DEF TransferFails, clientVars
<1>1. /\ state \in [Sample -> State] /\ s \in Asking /\ s \in Pending
      /\ engine \in Weights /\ engine' \in Weights
  BY DEF LockstepInv, SyncTypes, TypeOK, Asking, Pending
<1>f. /\ state' \in [Sample -> State]
      /\ state'[s] \in {"failed", "lost"}
      /\ \A t \in Sample \ {s} : state'[t] = state[t]
  BY <1>1, FailedEffect
<1>2. Pending' = Pending \ {s} /\ Asking' = Asking \ {s}
  BY <1>f DEF Pending, Asking, Queue
<1>3. OneAtATime' /\ NamesAreFresh' /\ DeltaIsLast' /\ NewestIsWhole'
  BY <1>2, ServingKeeps
<1>4. /\ told # <<>> /\ name[s] = Last(told) /\ loaded # name[s]
      /\ strategy = "delta" =>
           Received(name[s]) = Patched(engine, file[Last(told)].delta)
  BY LoadsNewest
<1>5. OneDeltaBehind'
  <2>1. CASE strategy = "delta"
    <3>1. PICK on \in SUBSET Param :
            engine' = [p \in Param |-> IF p \in on THEN Received(name[s])[p]
                                                   ELSE engine[p]]
      OBVIOUS
    <3>2. engine' = [p \in Param |->
                       IF p \in on THEN Patched(engine, file[Last(told)].delta)[p]
                                   ELSE engine[p]]
      BY <1>4, <2>1, <3>1
    <3> QED BY <1>1, <1>4, <2>1, <3>2, PatchKeeps
  <2>2. CASE strategy # "delta"
    BY <2>2 DEF OneDeltaBehind
  <2> QED BY <2>1, <2>2
<1>6. AsksForNewest'
  BY <1>f, <1>2 DEF LockstepInv, AsksForNewest
<1>7. LoadedIsSaved'
  <2>1. \A t \in Sample : state'[t] # "ready"
    BY <1>f DEF LockstepInv, SyncTypes, TypeOK
  <2> QED BY <1>4, <2>1 DEF LoadedIsSaved
<1>8. WakesInTurns'
  BY <1>1, <1>2 DEF LockstepInv, WakesInTurns
<1> QED BY <1>3, <1>5, <1>6, <1>7, <1>8 DEF LockstepInv

\* The newest version is the loaded one.
LEMMA LoadedKeeps ==
  ASSUME LockstepInv, NEW s \in Sample, Loaded(s), SyncTypes'
  PROVE  LockstepInv'
<1> USE DEF Loaded, clientVars
<1>1. state \in [Sample -> State] /\ s \in Asking /\ s \in Pending
  BY DEF LockstepInv, SyncTypes, TypeOK, Asking, Pending
<1>2. Pending' = Pending /\ Asking' = Asking
  BY <1>1 DEF Pending, Asking, Queue
<1>3. told # <<>> /\ name[s] = Last(told) /\ name[s] \in Range(told)
  BY <1>1, LastIsElement DEF LockstepInv, AsksForNewest, SyncTypes, TypeOK
<1>4. OneAtATime' /\ NamesAreFresh' /\ DeltaIsLast' /\ NewestIsWhole'
  BY <1>2, <1>3, ServingKeeps
<1>5. /\ turn
      /\ \A t \in Sample : state'[t] \notin {"loading", "ready"}
  BY <1>1 DEF LockstepInv, WakesInTurns, SyncTypes, TypeOK
<1>6. OneDeltaBehind'
  BY <1>3 DEF LockstepInv, OneDeltaBehind, trainerVars, volumeVars, Patched
<1>7. AsksForNewest'
  BY <1>1, <1>2, <1>3, <1>5 DEF LockstepInv, AsksForNewest, Pending, Asking, Queue
<1>8. LoadedIsSaved'
  BY <1>1, <1>5 DEF LockstepInv, LoadedIsSaved, volumeVars
<1>9. WakesInTurns'
  BY <1>5 DEF WakesInTurns
<1> QED BY <1>4, <1>6, <1>7, <1>8, <1>9 DEF LockstepInv

\* A request is answered from the version that is loaded.
LEMMA GenerateKeeps ==
  ASSUME LockstepInv, NEW s \in Sample, Generate(s), SyncTypes'
  PROVE  LockstepInv'
<1> USE DEF Generate, engineVars
<1>1. state \in [Sample -> State] /\ s \in Asking /\ s \in Pending
  BY DEF LockstepInv, SyncTypes, TypeOK, Asking, Pending
<1>f. /\ state'[s] \in {"ok", "failed", "lost"}
      /\ \A t \in Sample \ {s} : state'[t] = state[t]
  BY <1>1, FailedEffect
<1>2. /\ Pending' = Pending \ {s} /\ Asking' = Asking \ {s}
      /\ \A t \in Sample : state'[t] = state[t] \/ state'[t] \in {"ok", "failed", "lost"}
  BY <1>1, <1>f DEF Pending, Asking, Queue
<1>3. /\ told # <<>> /\ name[s] = Last(told) /\ name[s] \in Range(told)
      /\ loaded = name[s]
  BY <1>1, LastIsElement DEF LockstepInv, AsksForNewest, SyncTypes, TypeOK
<1>4. OneAtATime' /\ NamesAreFresh' /\ DeltaIsLast' /\ NewestIsWhole'
  BY <1>2, <1>3, ServingKeeps
<1>5. OneDeltaBehind'
  BY <1>3 DEF LockstepInv, OneDeltaBehind, trainerVars, volumeVars, Patched
<1>6. AsksForNewest'
  BY <1>2 DEF LockstepInv, AsksForNewest
<1>7. LoadedIsSaved'
  BY <1>2 DEF LockstepInv, LoadedIsSaved, volumeVars
<1>8. WakesInTurns'
  BY <1>2 DEF LockstepInv, WakesInTurns
<1> QED BY <1>4, <1>5, <1>6, <1>7, <1>8 DEF LockstepInv

\* Under the full strategy a sampler may start anew.
LEMMA RestartKeeps ==
  ASSUME LockstepInv, strategy = "full", Restart, SyncTypes'
  PROVE  LockstepInv'
<1> USE DEF Restart, clientVars
<1>1. state \in [Sample -> State]
  BY DEF LockstepInv, SyncTypes, TypeOK
<1>2. /\ Asking' = {} /\ Pending' \subseteq Pending
      /\ \A s \in Sample : state'[s] \notin {"loading", "ready", "generating"}
  BY <1>1 DEF Pending, Asking, Queue
<1>3. OneAtATime' /\ NamesAreFresh' /\ DeltaIsLast' /\ NewestIsWhole'
  BY <1>2, ServingKeeps
<1>4. AsksForNewest' /\ WakesInTurns'
  BY <1>2 DEF LockstepInv, AsksForNewest, WakesInTurns
<1>5. LoadedIsSaved'
  <2>1. told # <<>> => Last(told) # None
    BY LastIsElement, SyncAssumption DEF LockstepInv, SyncTypes, TypeOK
  <2> QED BY <1>2, <2>1 DEF LoadedIsSaved
<1>6. OneDeltaBehind'
  BY DEF OneDeltaBehind
<1> QED BY <1>3, <1>4, <1>5, <1>6 DEF LockstepInv

\* When all is answered and the newest version sampled, the engine has the
\* trainer's weights.
LEMMA SyncedEngine ==
  ASSUME LockstepInv, Synced, strategy = "delta"
  PROVE  engine = weights
<1>1. CASE step = 0
  <2>1. delta.on = {} /\ Patched(engine, delta) = weights /\ engine \in Weights
    BY <1>1 DEF LockstepInv, DeltaIsLast, OneDeltaBehind, SyncTypes, TypeOK
  <2> QED BY <2>1 DEF Patched, Weights
<1>2. CASE step # 0
  <2>1. told # <<>> /\ sampled = Last(told) /\ file[sampled].delta.step = step
    BY <1>2 DEF Synced
  <2>2. loaded = sampled /\ file[sampled].weights = weights
    BY <2>1 DEF LockstepInv, OneDeltaBehind, NewestIsWhole
  <2> QED BY <2>1, <2>2 DEF LockstepInv, LoadedIsSaved
<1> QED BY <1>1, <1>2

\* A client asks for a step, a save or a sample in its turn.
LEMMA LockstepKeeps == LockstepInv /\ Lockstep => LockstepInv'
<1> SUFFICES ASSUME LockstepInv, Lockstep PROVE LockstepInv'
  OBVIOUS
<1> USE DEF volumeVars, clientVars, requestVars, engineVars, trainerVars
<1>1. CASE AllAnswered /\ Synced /\ AskOptim
  <2> USE <1>1
  <2>1. SyncTypes'
    BY AskTypes DEF LockstepInv
  <2>2. /\ Pending = {} /\ Pending' = {} /\ Asking' = Asking
        /\ inbox = NoRequests /\ steps = 0 /\ saves = <<>>
    BY DEF AllAnswered, TrainerIdle, AskOptim, Pending, Asking, Queue
  <2>3. inbox' = [steps |-> 1, saves |-> <<>>]
    BY <2>2 DEF AskOptim, NoRequests
  <2>4. UNCHANGED <<strategy, steps, saves, step, weights, delta, volumeVars,
                    clientVars, requestVars, engineVars>>
    BY DEF AskOptim
  <2>5. OneAtATime'
    BY <2>2, <2>3, <2>4 DEF OneAtATime
  <2>6. NamesAreFresh'
    BY <2>3, <2>4 DEF LockstepInv, NamesAreFresh
  <2>7. DeltaIsLast' /\ NewestIsWhole'
    BY <2>4 DEF LockstepInv, DeltaIsLast, NewestIsWhole
  <2>8. AsksForNewest' /\ WakesInTurns' /\ LoadedIsSaved'
    BY <2>2, <2>4 DEF LockstepInv, AsksForNewest, WakesInTurns, LoadedIsSaved
  <2>9. OneDeltaBehind'
    BY <2>4, SyncedEngine DEF LockstepInv, OneDeltaBehind, Patched
  <2> QED BY <2>1, <2>5, <2>6, <2>7, <2>8, <2>9 DEF LockstepInv
<1>2. CASE /\ AllAnswered
           /\ \E n \in Name : n \notin Range(told)
           /\ AskSave(CHOOSE n \in Name : n \notin Range(told))
  <2> DEFINE m == CHOOSE n \in Name : n \notin Range(told)
  <2>1. m \in Name /\ m \notin Range(told) /\ AskSave(m) /\ AllAnswered
    BY <1>2
  <2> HIDE DEF m
  <2>2. SyncTypes'
    BY <2>1, AskTypes DEF LockstepInv
  <2>3. /\ Pending = {} /\ Pending' = {} /\ Asking' = Asking
        /\ inbox = NoRequests /\ steps = 0 /\ saves = <<>>
    BY <2>1 DEF AllAnswered, TrainerIdle, AskSave, Pending, Asking, Queue
  <2>4. inbox' = [steps |-> 0, saves |-> <<m>>]
    BY <2>1, <2>3 DEF AskSave, NoRequests
  <2>5. UNCHANGED <<strategy, steps, saves, step, weights, delta, volumeVars,
                    clientVars, requestVars, engineVars>>
    BY <2>1 DEF AskSave
  <2>6. OneAtATime'
    BY <2>3, <2>4, <2>5 DEF OneAtATime
  <2>7. NamesAreFresh'
    BY <2>1, <2>4, <2>5 DEF LockstepInv, NamesAreFresh
  <2>8. DeltaIsLast' /\ NewestIsWhole'
    BY <2>5 DEF LockstepInv, DeltaIsLast, NewestIsWhole
  <2>9. AsksForNewest' /\ WakesInTurns' /\ LoadedIsSaved'
    BY <2>3, <2>5 DEF LockstepInv, AsksForNewest, WakesInTurns, LoadedIsSaved
  <2>10. OneDeltaBehind'
    BY <2>3, <2>4, <2>5 DEF LockstepInv, OneDeltaBehind, Patched
  <2> QED BY <2>2, <2>6, <2>7, <2>8, <2>9, <2>10 DEF LockstepInv
<1>3. ASSUME NEW s \in Sample, TrainerIdle, told # <<>>, AskSample(s, Last(told))
      PROVE  LockstepInv'
  <2> USE <1>3
  <2>1. Last(told) \in Name
    BY LastIsElement DEF LockstepInv, SyncTypes, TypeOK
  <2>2. SyncTypes'
    BY <2>1, AskTypes DEF LockstepInv
  <2>3. /\ state \in [Sample -> State] /\ name \in [Sample -> Name \cup {None}]
        /\ state' = [state EXCEPT ![s] = "queued"]
        /\ name' = [name EXCEPT ![s] = Last(told)]
        /\ state[s] \in {"new", "ok", "failed", "lost"}
        /\ UNCHANGED <<strategy, trainerVars, volumeVars, clientVars, engineVars>>
    BY DEF LockstepInv, SyncTypes, TypeOK, AskSample
  <2>4. /\ Pending' = Pending \cup {s} /\ Asking' = Asking /\ s \notin Asking
        /\ \A t \in Sample : t # s => state'[t] = state[t] /\ name'[t] = name[t]
        /\ state'[s] = "queued" /\ name'[s] = Last(told)
    BY <2>3 DEF Pending, Asking, Queue
  <2> HIDE <1>3
  <2>5. OneAtATime'
    BY <1>3, <2>3 DEF LockstepInv, OneAtATime, TrainerIdle
  <2>6. NamesAreFresh' /\ DeltaIsLast' /\ NewestIsWhole'
    BY <2>3 DEF LockstepInv, NamesAreFresh, DeltaIsLast, NewestIsWhole
  <2>7. AsksForNewest'
    BY <1>3, <2>3, <2>4 DEF LockstepInv, AsksForNewest
  <2>8. WakesInTurns'
    BY <2>3, <2>4 DEF LockstepInv, WakesInTurns, Asking
  <2>9. LoadedIsSaved'
    BY <2>3, <2>4 DEF LockstepInv, LoadedIsSaved
  <2>10. OneDeltaBehind'
    BY <2>3 DEF LockstepInv, OneDeltaBehind, Patched
  <2> QED BY <2>2, <2>5, <2>6, <2>7, <2>8, <2>9, <2>10 DEF LockstepInv
<1> QED BY <1>1, <1>2, <1>3 DEF Lockstep

-----------------------------------------------------------------------------
(* The theorems *)

\* Every step of the loop keeps its invariant.
LEMMA LockstepInductive == LockstepInv /\ [LockstepNext]_vars => LockstepInv'
<1> SUFFICES ASSUME LockstepInv, [LockstepNext]_vars PROVE LockstepInv'
  OBVIOUS
<1>1. CASE Train
  <2>1. SyncTypes'
    BY <1>1, TrainTypes DEF LockstepInv
  <2> QED BY <1>1, <2>1, PopKeeps, OptimKeeps, SaveStartKeeps, SaveDoneKeeps DEF Train
<1>2. CASE Serve \/ Broken \/ (strategy = "full" /\ Restart)
  <2>1. SyncTypes'
    BY <1>2, ServeTypes DEF LockstepInv
  <2> QED BY <1>2, <2>1, TurnKeeps, LockKeeps, TransferKeeps, TransferFailsKeeps,
             LoadedKeeps, GenerateKeeps, RestartKeeps DEF Serve
<1>3. CASE Lockstep
  BY <1>3, LockstepKeeps
<1>4. CASE UNCHANGED vars
  <2> USE <1>4 DEF vars, trainerVars, volumeVars, clientVars, requestVars, engineVars
  <2>1. Pending' = Pending /\ Asking' = Asking
    BY DEF Pending, Asking, Queue
  <2>2. SyncTypes'
    BY DEF LockstepInv, SyncTypes, TypeOK, Writing
  <2>3. OneAtATime' /\ NamesAreFresh' /\ DeltaIsLast' /\ NewestIsWhole'
    BY <2>1 DEF LockstepInv, OneAtATime, TrainerIdle, NamesAreFresh, DeltaIsLast,
                NewestIsWhole
  <2>4. AsksForNewest' /\ WakesInTurns' /\ LoadedIsSaved' /\ OneDeltaBehind'
    BY <2>1 DEF LockstepInv, AsksForNewest, WakesInTurns, LoadedIsSaved, OneDeltaBehind,
                Patched
  <2> QED BY <2>2, <2>3, <2>4 DEF LockstepInv
<1> QED BY <1>1, <1>2, <1>3, <1>4 DEF LockstepNext

\* In the recipes' loop a request generates from the weights that were saved
\* under the name it gives, however many transfers and turns broke off before:
\* with deltas for as long as the sampler does not start anew, with whole
\* versions through its restarts, too.
THEOREM SamplesComeFromTheirVersion == LockstepSpec => []SamplesSavedWeights
<1>1. LockstepInv => SamplesSavedWeights
  <2> SUFFICES ASSUME LockstepInv, NEW s \in Sample, state[s] = "generating"
               PROVE  engine = file[name[s]].weights
    BY DEF SamplesSavedWeights
  <2>1. s \in Pending
    BY DEF Pending, Asking, Queue
  <2> QED BY <2>1 DEF LockstepInv, AsksForNewest, LoadedIsSaved
<1> QED BY InitLockstep, LockstepInductive, <1>1, PTL DEF LockstepSpec

\* No reload and no end of a batch puts the engine to sleep under a request of
\* the loop.
THEOREM GenerationStaysAwake == LockstepSpec => []GeneratesAwake
<1>1. LockstepInv => GeneratesAwake
  <2> SUFFICES ASSUME LockstepInv, NEW s \in Sample, state[s] = "generating"
               PROVE  mode = "awake" \/ (mode = "asleep" /\ ~resting)
    BY DEF GeneratesAwake
  <2>1. s \in Asking /\ s \in Pending
    BY DEF Asking, Pending
  <2>2. turn /\ told # <<>> /\ loaded = Last(told)
    BY <2>1 DEF LockstepInv, AsksForNewest, WakesInTurns
  <2>3. mode \in {"asleep", "weights", "awake"}
    BY DEF LockstepInv, SyncTypes, TypeOK
  <2> QED BY <2>2, <2>3 DEF LockstepInv, WakesInTurns
<1> QED BY InitLockstep, LockstepInductive, <1>1, PTL DEF LockstepSpec

\* A version that the loop asks for is there, whole, until it is loaded.
THEOREM VersionsStay == LockstepSpec => []VersionIsThere
<1>1. LockstepInv => VersionIsThere
  <2> SUFFICES ASSUME LockstepInv, NEW s \in Sample,
                      state[s] \in {"queued", "taken", "loading"}
               PROVE  name[s] \in Range(dirs) /\ file[name[s]].whole
    BY DEF VersionIsThere
  <2>1. s \in Pending
    BY DEF Pending, Asking, Queue
  <2> QED BY <2>1 DEF LockstepInv, AsksForNewest, NewestIsWhole
<1> QED BY InitLockstep, LockstepInductive, <1>1, PTL DEF LockstepSpec

\* TypeOK holds in the loop, too.
THEOREM LockstepWellFormed == LockstepSpec => []TypeOK
<1>1. LockstepInv => TypeOK
  BY DEF LockstepInv, SyncTypes
<1> QED BY InitLockstep, LockstepInductive, <1>1, PTL DEF LockstepSpec

===============================================================================
