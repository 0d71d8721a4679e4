---------------------------- MODULE TrainerTurnProofs ---------------------------
(***************************************************************************)
(* For any trainers and any requests: who computes holds the claim, who is *)
(* on the devices without it was told that it could not be parked, a save  *)
(* never overtakes training asked for before it, and every stored answer   *)
(* says what happened.  TurnInv is about the turns and uses no request,    *)
(* BatchInv is about the requests and the batch they are in.  The turns    *)
(* implement DeviceLease.                                                  *)
(***************************************************************************)
EXTENDS TrainerTurn, SequenceLemmas, TLAPS

USE TurnAssumption DEF storeVars, turnVars, slicerVars

\* The part of TypeOK that is not about requests.
TurnTypes ==
  /\ pc \in [Trainer -> PC]
  /\ phase \in [Trainer -> {"work", "save"}]
  /\ failure \in [Trainer -> BOOLEAN]
  /\ faulted \in [Trainer -> BOOLEAN]
  /\ offload \in [Trainer -> BOOLEAN]
  /\ mem \in [Trainer -> {"none", "device", "parked"}]
  /\ lossy \in [Trainer -> BOOLEAN]
  /\ waiting \in Seq(Trainer)
  /\ holder \in Trainer \cup {None}
  /\ failed \in [Trainer -> BOOLEAN]
  /\ conn \in [Trainer -> {"none", "open", "closing", "closed"}]

\* Who waits is in the queue, once, and nobody else is but who died waiting.
QueueIsWho ==
  /\ Injective(waiting)
  /\ \A w \in Trainer : pc[w] = "waiting" => w \in Range(waiting)
  /\ \A w \in Range(waiting) : pc[w] \in {"waiting", "down"}

\* A turn is granted, and its name is in order; memory is on the devices only
\* then, or after a fault; and only a name out of order loses its connection.
TurnsAreGranted ==
  \A w \in Trainer :
    /\ InTurn(w) => holder = w /\ ~failed[w]
    /\ pc[w] = "waiting" => ~failed[w]
    /\ faulted[w] => failed[w]
    /\ mem[w] = "device" /\ ~faulted[w] => InTurn(w)
    /\ conn[w] = "closing" => failed[w] \/ pc[w] \in {"exiting", "down"}
    /\ pc[w] = "start" => ~faulted[w] /\ mem[w] = "none"
    /\ pc[w] \in {"acquire", "waiting"} /\ phase[w] = "save" => ~offload[w]

TurnInv == TurnTypes /\ QueueIsWho /\ TurnsAreGranted

-----------------------------------------------------------------------------
(* Turns *)

LEMMA TurnInit == Init => TurnInv
<1> SUFFICES ASSUME Init PROVE TurnInv
  OBVIOUS
<1>1. TurnTypes
  BY DEF Init, TurnTypes, PC
<1>2. QueueIsWho
  BY DEF Init, QueueIsWho, Injective, Range
<1>3. TurnsAreGranted
  BY DEF Init, TurnsAreGranted, InTurn
<1> QED
  BY <1>1, <1>2, <1>3 DEF TurnInv

\* Steps that leave the queue alone and nobody who waited or waits behind.
LEMMA SameQueue ==
  ASSUME QueueIsWho, waiting \in Seq(Trainer), UNCHANGED waiting, NEW w \in Trainer,
         \A v \in Trainer : v # w => pc'[v] = pc[v],
         pc'[w] # "waiting",
         pc[w] # "waiting" \/ pc'[w] = "down",
         pc[w] # "down"
  PROVE  QueueIsWho'
<1>1. \A v \in Range(waiting) : v \in Trainer
  BY DEF Range
<1>2. Injective(waiting)' /\ Range(waiting)' = Range(waiting)
  BY DEF QueueIsWho
<1> QED
  BY <1>1, <1>2 DEF QueueIsWho

LEMMA AskTurn ==
  ASSUME TurnInv, NEW w \in Trainer, Ask(w)
  PROVE  TurnInv'
<1> USE DEF TurnInv, Ask
<1>1. w \notin Range(waiting)
  BY DEF QueueIsWho
<1>2. /\ Injective(waiting')
      /\ Range(waiting') = Range(waiting) \cup {w}
      /\ waiting' \in Seq(Trainer)
  BY <1>1, AppendKeepsInjective DEF TurnTypes, QueueIsWho
<1>3. TurnTypes' /\ QueueIsWho' /\ TurnsAreGranted'
  BY <1>2 DEF TurnTypes, PC, QueueIsWho, TurnsAreGranted, InTurn
<1> QED
  BY <1>3

LEMMA GrantTurn ==
  ASSUME TurnInv, NEW w \in Trainer, Grant(w)
  PROVE  TurnInv'
<1> USE DEF TurnInv, Grant
<1>1. /\ Injective(waiting')
      /\ Range(waiting') = Range(waiting) \ {w}
      /\ waiting' \in Seq(Trainer)
  BY TailKeepsInjective DEF TurnTypes, QueueIsWho
<1>2. TurnTypes'
  BY <1>1 DEF TurnTypes, PC
<1>3. QueueIsWho'
  <2>1. \A v \in Range(waiting) : v \in Trainer
    BY DEF Range, TurnTypes
  <2>2. /\ Head(waiting) = w
        /\ \A v \in Trainer : v # w => pc'[v] = pc[v]
        /\ pc'[w] # "waiting"
    BY DEF TurnTypes, PC
  <2> HIDE DEF Grant
  <2> QED
    BY <1>1, <2>1, <2>2 DEF QueueIsWho
<1>4. TurnsAreGranted'
  BY DEF TurnTypes, PC, TurnsAreGranted, InTurn
<1> QED
  BY <1>2, <1>3, <1>4

\* What a trainer does between its turns and in them.
LEMMA RunTurn ==
  ASSUME TurnInv, NEW w \in Trainer, Run(w)
  PROVE  TurnInv'
<1> USE DEF TurnInv
<1>1. CASE Register(w)
  BY <1>1, SameQueue DEF Register, TurnTypes, PC, TurnsAreGranted, InTurn
<1>2. CASE Pop(w)
  <2>1. TurnTypes'
    BY <1>2 DEF Pop, TurnTypes, PC
  <2>2. QueueIsWho'
    BY <1>2, SameQueue DEF Pop, TurnTypes
  <2>3. TurnsAreGranted'
    BY <1>2 DEF Pop, TurnTypes, PC, TurnsAreGranted, InTurn
  <2> QED
    BY <2>1, <2>2, <2>3
<1>3. CASE Ask(w)
  BY <1>3, AskTurn
<1>4. CASE Refused(w)
  <2>1. TurnTypes'
    BY <1>4 DEF Refused, TurnTypes, PC
  <2>2. QueueIsWho'
    BY <1>4, SameQueue DEF Refused, TurnTypes
  <2>3. TurnsAreGranted'
    BY <1>4 DEF Refused, TurnTypes, PC, TurnsAreGranted, InTurn
  <2> QED
    BY <2>1, <2>2, <2>3
<1>5. CASE WakeUp(w)
  <2>1. TurnTypes'
    BY <1>5 DEF WakeUp, TurnTypes, PC
  <2>2. QueueIsWho'
    BY <1>5, SameQueue DEF WakeUp, TurnTypes
  <2>3. TurnsAreGranted'
    BY <1>5 DEF WakeUp, TurnTypes, PC, TurnsAreGranted, InTurn
  <2> QED
    BY <2>1, <2>2, <2>3
<1>6. ASSUME Handle(w, "work") \/ Handle(w, "save") PROVE TurnInv'
  BY <1>6 DEF Handle, TurnTypes, QueueIsWho, TurnsAreGranted, InTurn
<1>7. CASE Sleep(w)
  <2>1. TurnTypes'
    BY <1>7 DEF Sleep, TurnTypes, PC
  <2>2. QueueIsWho'
    BY <1>7, SameQueue DEF Sleep, TurnTypes
  <2>3. TurnsAreGranted'
    BY <1>7 DEF Sleep, TurnTypes, PC, TurnsAreGranted, InTurn
  <2> QED
    BY <2>1, <2>2, <2>3
<1>8. CASE SavedInTurn(w)
  <2>1. TurnTypes'
    BY <1>8 DEF SavedInTurn, TurnTypes, PC
  <2>2. QueueIsWho'
    BY <1>8, SameQueue DEF SavedInTurn, TurnTypes
  <2>3. TurnsAreGranted'
    BY <1>8 DEF SavedInTurn, TurnTypes, PC, TurnsAreGranted, InTurn
  <2> QED
    BY <2>1, <2>2, <2>3
<1>9. CASE Release(w)
  <2>1. TurnTypes'
    BY <1>9 DEF Release, GoOn, TurnTypes, PC
  <2>2. QueueIsWho'
    BY <1>9, SameQueue DEF Release, GoOn, TurnTypes
  <2>3. TurnsAreGranted'
    BY <1>9 DEF Release, GoOn, TurnTypes, PC, TurnsAreGranted, InTurn
  <2> QED
    BY <2>1, <2>2, <2>3
<1>10. CASE ReleaseFaulted(w)
  <2>1. TurnTypes'
    BY <1>10 DEF ReleaseFaulted, GoOn, TurnTypes, PC
  <2>2. QueueIsWho'
    BY <1>10, SameQueue DEF ReleaseFaulted, GoOn, TurnTypes
  <2>3. TurnsAreGranted'
    BY <1>10 DEF ReleaseFaulted, GoOn, TurnTypes, PC, TurnsAreGranted, InTurn
  <2> QED
    BY <2>1, <2>2, <2>3
<1>11. CASE Store(w)
  BY <1>11 DEF Store, TurnTypes, QueueIsWho, TurnsAreGranted, InTurn
<1>12. CASE Finish(w)
  <2>1. TurnTypes'
    BY <1>12 DEF Finish, BatchOver, TurnTypes, PC
  <2>2. QueueIsWho'
    BY <1>12, SameQueue DEF Finish, BatchOver, TurnTypes
  <2>3. TurnsAreGranted'
    BY <1>12 DEF Finish, BatchOver, TurnTypes, PC, TurnsAreGranted, InTurn
  <2> QED
    BY <2>1, <2>2, <2>3
<1>13. CASE Exit(w)
  <2>1. TurnTypes'
    BY <1>13 DEF Exit, Gone, BatchOver, TurnTypes, PC
  <2>2. QueueIsWho'
    BY <1>13, SameQueue DEF Exit, Gone, BatchOver, TurnTypes
  <2>3. TurnsAreGranted'
    BY <1>13 DEF Exit, Gone, BatchOver, TurnTypes, PC, TurnsAreGranted, InTurn
  <2> QED
    BY <2>1, <2>2, <2>3
<1> QED
  BY <1>1, <1>2, <1>3, <1>4, <1>5, <1>6, <1>7, <1>8, <1>9, <1>10, <1>11, <1>12, <1>13 DEF Run

LEMMA TurnStep == TurnInv /\ [Next]_vars => TurnInv'
<1> SUFFICES ASSUME TurnInv, [Next]_vars PROVE TurnInv'
  OBVIOUS
<1> USE DEF TurnInv
<1>1. ASSUME NEW w \in Trainer, Put(w) PROVE TurnInv'
  BY <1>1 DEF Put, TurnTypes, QueueIsWho, TurnsAreGranted, InTurn
<1>2. ASSUME NEW w \in Trainer, Run(w) PROVE TurnInv'
  BY <1>2, RunTurn
<1>3. ASSUME NEW w \in Trainer, Slice(w) PROVE TurnInv'
  <2>1. CASE SeeClose(w)
    BY <1>3, <2>1 DEF SeeClose, TurnTypes, PC, QueueIsWho, TurnsAreGranted, InTurn
  <2> QED
    BY <1>3, <2>1, GrantTurn DEF Slice
<1>4. ASSUME NEW w \in Trainer, PopBroken(w) PROVE TurnInv'
  BY <1>4 DEF PopBroken, TurnTypes, PC, QueueIsWho, TurnsAreGranted, InTurn
<1>5. ASSUME NEW w \in Trainer, StoreError(w) PROVE TurnInv'
  BY <1>5, SameQueue DEF StoreError, BatchOver, TurnTypes, PC, TurnsAreGranted, InTurn
<1>6. ASSUME NEW w \in Trainer, Kill(w) PROVE TurnInv'
  BY <1>6, SameQueue DEF Kill, Gone, BatchOver, TurnTypes, PC, TurnsAreGranted, InTurn
<1>7. CASE UNCHANGED vars
  BY <1>7 DEF vars, TurnTypes, QueueIsWho, TurnsAreGranted, InTurn
<1> QED
  BY <1>1, <1>2, <1>3, <1>4, <1>5, <1>6, <1>7 DEF Next

-----------------------------------------------------------------------------
(* Requests *)

StoreTypes ==
  /\ reqs \in [Trainer -> Seq(Request)]
  /\ taken \in [Trainer -> Nat]
  /\ from \in [Trainer -> Nat]
  /\ \A w \in Trainer : from[w] <= taken[w] /\ taken[w] <= Len(reqs[w])

\* A result says what ran, and an answer is a result.
Consistent(r) ==
  /\ r.result = "none" => r.ran = "no"
  /\ r.result # "none" => r.result = (IF r.ran = "no" THEN "failure" ELSE r.ran)
  /\ r.answer # "none" => r.answer = r.result

ResultsAreOutcomes ==
  \A w \in Trainer : \A i \in 1 .. Len(reqs[w]) : Consistent(reqs[w][i])

\* Batches end with a result for everything, phases with one for their own.
Between == {"start", "idle", "exiting", "down"}

BatchesAreWhole ==
  \A w \in Trainer :
    /\ pc[w] \in Between => from[w] = taken[w]
    /\ \A i \in 1 .. from[w] :
         reqs[w][i].op # "shutdown" => reqs[w][i].result # "none" \/ lossy[w] \/ pc[w] = "down"
    /\ \A i \in taken[w] + 1 .. Len(reqs[w]) : reqs[w][i].result = "none"
    /\ phase[w] = "save" => Todo(w, "work") = {}
    /\ pc[w] = "release" /\ ~failure[w] => Todo(w, "work") = {}
    /\ pc[w] = "saving" => phase[w] = "save"
    /\ pc[w] = "store" => Todo(w, "work") = {} /\ Todo(w, "save") = {}

Ordered ==
  \A w \in Trainer : \A j \in 1 .. Len(reqs[w]) : \A i \in 1 .. j - 1 :
    /\ reqs[w][j].op = "save"
    /\ reqs[w][j].ran # "no"
    /\ reqs[w][i].op = "work"
    => reqs[w][i].result # "none" \/ lossy[w]

BatchInv == StoreTypes /\ ResultsAreOutcomes /\ BatchesAreWhole /\ Ordered

LEMMA BatchInit == Init => BatchInv
  BY DEF Init, BatchInv, StoreTypes, ResultsAreOutcomes, BatchesAreWhole, Ordered, Todo, OpsOf,
     Batch, Between

\* What the updates of a request do, request by request.
LEMMA FailRestEffect ==
  ASSUME StoreTypes, NEW w \in Trainer, FailRest(w)
  PROVE  /\ reqs' \in [Trainer -> Seq(Request)]
         /\ \A v \in Trainer : v # w => reqs'[v] = reqs[v]
         /\ Len(reqs'[w]) = Len(reqs[w])
         /\ \A i \in 1 .. Len(reqs[w]) :
              reqs'[w][i] = IF i \in Todo(w, "work") \cup Todo(w, "save")
                            THEN [reqs[w][i] EXCEPT !.result = "failure"] ELSE reqs[w][i]
<1> DEFINE T == Todo(w, "work") \cup Todo(w, "save")
           s == [i \in 1 .. Len(reqs[w]) |->
                  IF i \in T THEN [reqs[w][i] EXCEPT !.result = "failure"] ELSE reqs[w][i]]
<1>1. reqs[w] \in Seq(Request) /\ DOMAIN reqs[w] = 1 .. Len(reqs[w]) /\ Len(reqs[w]) \in Nat
  BY DEF StoreTypes
<1>2. \A r \in Request : [r EXCEPT !.result = "failure"] \in Request
  BY DEF Request
<1>3. \A i \in 1 .. Len(reqs[w]) : s[i] \in Request
  BY <1>1, <1>2
<1>4. s \in Seq(Request) /\ Len(s) = Len(reqs[w])
  <2>1. s \in [1 .. Len(reqs[w]) -> Request]
    BY <1>3
  <2>2. DOMAIN s = 1 .. Len(reqs[w])
    OBVIOUS
  <2> HIDE DEF s
  <2>3. s \in Seq(Request)
    <3>1. [1 .. Len(reqs[w]) -> Request] \in {[1 .. n -> Request] : n \in Nat}
      BY <1>1
    <3>2. Seq(Request) = UNION {[1 .. n -> Request] : n \in Nat}
      BY SeqDef
    <3> QED
      BY <2>1, <3>1, <3>2
  <2> QED
    BY <1>1, <2>2, <2>3, LenProperties
<1>5. reqs' = [reqs EXCEPT ![w] = s]
  BY <1>1 DEF FailRest
<1> HIDE DEF T
<1>6. \A i \in 1 .. Len(reqs[w]) :
        s[i] = IF i \in T THEN [reqs[w][i] EXCEPT !.result = "failure"] ELSE reqs[w][i]
  OBVIOUS
<1> HIDE DEF s
<1> QED
  BY <1>4, <1>5, <1>6 DEF StoreTypes, T

\* Request m of w has run, with the result res.
Handled(w, m, res) ==
  /\ reqs' \in [Trainer -> Seq(Request)]
  /\ \A v \in Trainer : v # w => reqs'[v] = reqs[v]
  /\ Len(reqs'[w]) = Len(reqs[w])
  /\ \A i \in 1 .. Len(reqs[w]) :
       reqs'[w][i] = IF i = m THEN [reqs[w][m] EXCEPT !.ran = res, !.result = res]
                     ELSE reqs[w][i]

LEMMA HandleEffect ==
  ASSUME StoreTypes, NEW w \in Trainer, NEW op \in {"work", "save"}, Handle(w, op)
  PROVE  \E m \in Todo(w, op), res \in {"done", "error"} : Handled(w, m, res)
<1> DEFINE m == Min(Todo(w, op))
<1>1. PICK res \in {"done", "error"} :
        reqs' = [reqs EXCEPT ![w][m] = [@ EXCEPT !.ran = res, !.result = res]]
  BY DEF Handle
<1>2. Todo(w, op) \in SUBSET (1 .. Len(reqs[w])) /\ Todo(w, op) # {}
  BY DEF Handle, Todo, OpsOf, Batch, StoreTypes
<1>3. m \in Todo(w, op) /\ m \in 1 .. Len(reqs[w])
  <2>1. Len(reqs[w]) \in Nat
    BY DEF StoreTypes
  <2> HIDE DEF m
  <2>2. Min(Todo(w, op)) \in Todo(w, op)
    BY <1>2, <2>1, LeastIndex
  <2> QED
    BY <1>2, <2>2 DEF m
<1> HIDE DEF m
<1> DEFINE r == [reqs[w][m] EXCEPT !.ran = res, !.result = res]
<1>4. reqs[w][m] \in Request
  BY <1>3 DEF StoreTypes
<1>5. r \in Request
  BY <1>4 DEF Request
<1>6. reqs' = [reqs EXCEPT ![w] = [@ EXCEPT ![m] = r]]
  BY <1>1, <1>3, <1>4 DEF StoreTypes
<1> HIDE DEF r
<1>7. /\ [reqs[w] EXCEPT ![m] = r] \in Seq(Request)
      /\ Len([reqs[w] EXCEPT ![m] = r]) = Len(reqs[w])
  BY <1>3, <1>5, ExceptSeq DEF StoreTypes
<1>8. /\ reqs' \in [Trainer -> Seq(Request)]
      /\ \A v \in Trainer : v # w => reqs'[v] = reqs[v]
      /\ Len(reqs'[w]) = Len(reqs[w])
      /\ \A i \in 1 .. Len(reqs[w]) : reqs'[w][i] = IF i = m THEN r ELSE reqs[w][i]
  BY <1>3, <1>6, <1>7 DEF StoreTypes
<1> QED
  BY <1>3, <1>8 DEF r, Handled

LEMMA StoreEffect ==
  ASSUME StoreTypes, NEW w \in Trainer, Store(w)
  PROVE  \E m \in Unstored(w) :
           /\ reqs' \in [Trainer -> Seq(Request)]
           /\ \A v \in Trainer : v # w => reqs'[v] = reqs[v]
           /\ Len(reqs'[w]) = Len(reqs[w])
           /\ \A i \in 1 .. Len(reqs[w]) :
                reqs'[w][i] = IF i = m THEN [reqs[w][m] EXCEPT !.answer = reqs[w][m].result]
                              ELSE reqs[w][i]
<1>1. PICK m \in Unstored(w) : reqs' = [reqs EXCEPT ![w][m].answer = reqs[w][m].result]
  BY DEF Store
<1>2. m \in 1 .. Len(reqs[w])
  BY DEF Unstored, Batch, StoreTypes
<1> DEFINE r == [reqs[w][m] EXCEPT !.answer = reqs[w][m].result]
<1>3. reqs[w][m] \in Request
  BY <1>2 DEF StoreTypes
<1>4. r \in Request
  BY <1>3 DEF Request
<1>5. reqs' = [reqs EXCEPT ![w] = [@ EXCEPT ![m] = r]]
  BY <1>1, <1>2, <1>3 DEF StoreTypes
<1> HIDE DEF r
<1>6. /\ [reqs[w] EXCEPT ![m] = r] \in Seq(Request)
      /\ Len([reqs[w] EXCEPT ![m] = r]) = Len(reqs[w])
  BY <1>2, <1>4, ExceptSeq DEF StoreTypes
<1>7. /\ reqs' \in [Trainer -> Seq(Request)]
      /\ \A v \in Trainer : v # w => reqs'[v] = reqs[v]
      /\ Len(reqs'[w]) = Len(reqs[w])
      /\ \A i \in 1 .. Len(reqs[w]) : reqs'[w][i] = IF i = m THEN r ELSE reqs[w][i]
  BY <1>2, <1>5, <1>6 DEF StoreTypes
<1> QED
  BY <1>7 DEF r

-----------------------------------------------------------------------------
(* Batches *)

\* Steps that touch no request and no batch.
LEMMA SameRequests ==
  ASSUME BatchInv, NEW w \in Trainer, UNCHANGED <<reqs, taken, from, lossy>>,
         \A v \in Trainer : v # w => pc'[v] = pc[v] /\ phase'[v] = phase[v] /\ failure'[v] = failure[v],
         pc[w] = "down" => pc'[w] = "down",
         pc'[w] \in Between => from[w] = taken[w],
         phase'[w] = "save" => Todo(w, "work") = {},
         pc'[w] = "release" /\ ~failure'[w] => Todo(w, "work") = {},
         pc'[w] = "saving" => phase'[w] = "save",
         pc'[w] = "store" => Todo(w, "work") = {} /\ Todo(w, "save") = {}
  PROVE  BatchInv'
<1> USE DEF BatchInv
<1>1. \A v \in Trainer : \A op \in Op : Todo(v, op)' = Todo(v, op)
  BY DEF Todo, OpsOf, Batch
<1>2. StoreTypes'
  BY DEF StoreTypes
<1>3. ResultsAreOutcomes'
  BY DEF ResultsAreOutcomes, Consistent
<1>4. Ordered'
  BY DEF Ordered
<1>5. BatchesAreWhole'
  BY <1>1 DEF BatchesAreWhole, Op
<1> QED
  BY <1>2, <1>3, <1>4, <1>5

\* The end of a batch that has all its results, or that nobody goes on with.
LEMMA EndOfBatch ==
  ASSUME BatchInv, NEW w \in Trainer, UNCHANGED reqs,
         taken' \in [Trainer -> Nat], from' \in [Trainer -> Nat], taken[w] <= taken'[w],
         taken'[w] <= Len(reqs[w]), from'[w] = taken'[w],
         \A v \in Trainer : v # w =>
           /\ pc'[v] = pc[v] /\ phase'[v] = phase[v] /\ failure'[v] = failure[v]
           /\ taken'[v] = taken[v] /\ from'[v] = from[v],
         lossy \in [Trainer -> BOOLEAN], lossy' \in [Trainer -> BOOLEAN],
         \A v \in Trainer : lossy[v] => lossy'[v],
         pc'[w] \in {"idle", "exiting", "down"},
         pc[w] = "down" => pc'[w] = "down",
         pc[w] = "exiting" => pc'[w] = "down",
         (pc[w] = "store" /\ taken'[w] = taken[w]) \/ lossy'[w] \/ pc'[w] = "down"
  PROVE  BatchInv'
<1> USE DEF BatchInv
<1>1. Todo(w, "work")' = {} /\ Todo(w, "save")' = {}
  BY DEF Todo, OpsOf, Batch
<1>2. \A v \in Trainer : v # w => \A op \in Op : Todo(v, op)' = Todo(v, op)
  BY DEF Todo, OpsOf, Batch
<1>3. StoreTypes'
  <2>1. \A v \in Trainer : v # w => from'[v] <= taken'[v] /\ taken'[v] <= Len(reqs[v])
    BY DEF StoreTypes
  <2>2. from'[w] <= taken'[w] /\ taken'[w] <= Len(reqs[w])
    OBVIOUS
  <2>3. reqs' \in [Trainer -> Seq(Request)]
    BY DEF StoreTypes
  <2> QED
    BY <2>1, <2>2, <2>3 DEF StoreTypes
<1>7. ResultsAreOutcomes'
  BY DEF ResultsAreOutcomes, Consistent
<1>8. Ordered'
  BY DEF Ordered
<1>4. \A i \in 1 .. from'[w] :
        reqs[w][i].op # "shutdown" => reqs[w][i].result # "none" \/ lossy'[w] \/ pc'[w] = "down"
  <2> SUFFICES ASSUME pc[w] = "store", taken'[w] = taken[w], NEW i \in 1 .. taken[w],
                      reqs[w][i].op # "shutdown", ~lossy[w]
               PROVE  reqs[w][i].result # "none"
    OBVIOUS
  <2>1. reqs[w][i] \in Request
    BY DEF StoreTypes
  <2>2. CASE i <= from[w]
    <3>1. i \in 1 .. from[w]
      BY <2>2 DEF StoreTypes
    <3>2. \A k \in 1 .. from[w] :
            reqs[w][k].op # "shutdown" => reqs[w][k].result # "none" \/ lossy[w] \/ pc[w] = "down"
      BY DEF BatchesAreWhole
    <3> HIDE DEF BatchInv
    <3> QED
      BY <3>1, <3>2
  <2>3. CASE i > from[w]
    <3>1. i \in Batch(w)
      BY <2>3 DEF StoreTypes, Batch
    <3>2. reqs[w][i].op \in {"work", "save"}
      BY <2>1 DEF Request, Op
    <3>3. Todo(w, "work") = {} /\ Todo(w, "save") = {}
      BY DEF BatchesAreWhole
    <3> QED
      BY <3>1, <3>2, <3>3 DEF Todo, OpsOf
  <2> QED
    BY <2>2, <2>3 DEF StoreTypes
<1>5. \A i \in taken'[w] + 1 .. Len(reqs[w]) : reqs[w][i].result = "none"
  BY DEF StoreTypes, BatchesAreWhole
<1>6. BatchesAreWhole'
  <2> DEFINE Whole(v) ==
        /\ pc[v] \in Between => from[v] = taken[v]
        /\ \A i \in 1 .. from[v] :
             reqs[v][i].op # "shutdown" => reqs[v][i].result # "none" \/ lossy[v] \/ pc[v] = "down"
        /\ \A i \in taken[v] + 1 .. Len(reqs[v]) : reqs[v][i].result = "none"
        /\ phase[v] = "save" => Todo(v, "work") = {}
        /\ pc[v] = "release" /\ ~failure[v] => Todo(v, "work") = {}
        /\ pc[v] = "saving" => phase[v] = "save"
        /\ pc[v] = "store" => Todo(v, "work") = {} /\ Todo(v, "save") = {}
  <2>1. ASSUME NEW v \in Trainer, v # w PROVE Whole(v)'
    <3>1. Todo(v, "work")' = Todo(v, "work") /\ Todo(v, "save")' = Todo(v, "save")
      BY <1>2, <2>1 DEF Op
    <3>2. /\ pc'[v] = pc[v] /\ phase'[v] = phase[v] /\ failure'[v] = failure[v]
          /\ taken'[v] = taken[v] /\ from'[v] = from[v] /\ reqs'[v] = reqs[v]
          /\ lossy[v] => lossy'[v]
      BY <2>1
    <3>3. Whole(v)
      BY DEF BatchesAreWhole
    <3> HIDE DEF BatchInv
    <3> QED
      BY <3>1, <3>2, <3>3
  <2>2. Whole(w)'
    BY <1>1, <1>4, <1>5
  <2> HIDE DEF Whole
  <2>3. \A v \in Trainer : Whole(v)'
    BY <2>1, <2>2
  <2> QED
    BY <2>3 DEF BatchesAreWhole, Whole
<1> QED
  BY <1>3, <1>6, <1>7, <1>8

LEMMA PutKeeps ==
  ASSUME BatchInv, NEW w \in Trainer, Put(w)
  PROVE  BatchInv'
<1> USE DEF BatchInv
<1>0. Sends[w] \subseteq Op
  BY DEF TurnAssumption, Op
<1>1. PICK op \in Op : reqs' = [reqs EXCEPT ![w] =
         Append(reqs[w], [op |-> op, ran |-> "no", result |-> "none", answer |-> "none"])]
  BY <1>0 DEF Put
<1> DEFINE r == [op |-> op, ran |-> "no", result |-> "none", answer |-> "none"]
<1>2. r \in Request
  BY DEF Request
<1>3. /\ reqs' \in [Trainer -> Seq(Request)]
      /\ Len(reqs'[w]) = Len(reqs[w]) + 1
      /\ \A i \in 1 .. Len(reqs[w]) : reqs'[w][i] = reqs[w][i]
      /\ reqs'[w][Len(reqs[w]) + 1] = r
      /\ \A v \in Trainer : v # w => reqs'[v] = reqs[v]
  BY <1>1, <1>2, AppendProperties DEF StoreTypes
<1>4. StoreTypes'
  BY <1>3 DEF Put, StoreTypes
<1>5. ResultsAreOutcomes'
  <2>1. Consistent(r)
    BY DEF Consistent
  <2> HIDE DEF r
  <2>2. \A i \in 1 .. Len(reqs'[w]) : Consistent(reqs'[w][i])
    <3>1. \A i \in 1 .. Len(reqs[w]) : Consistent(reqs'[w][i])
      BY <1>3 DEF ResultsAreOutcomes
    <3>2. Consistent(reqs'[w][Len(reqs[w]) + 1])
      BY <1>3, <2>1
    <3>3. Len(reqs[w]) \in Nat
      BY DEF StoreTypes
    <3> QED
      BY <1>3, <3>1, <3>2, <3>3
  <2>3. \A v \in Trainer : v # w => \A i \in 1 .. Len(reqs'[v]) : Consistent(reqs'[v][i])
    BY <1>3 DEF ResultsAreOutcomes
  <2> QED
    BY <2>2, <2>3 DEF ResultsAreOutcomes, Consistent
<1>6. \A v \in Trainer : \A o \in Op : Todo(v, o)' = Todo(v, o)
  BY <1>3 DEF Put, StoreTypes, Todo, OpsOf, Batch
<1>7. BatchesAreWhole'
  <2>1. \A v \in Trainer : Todo(v, "work")' = Todo(v, "work") /\ Todo(v, "save")' = Todo(v, "save")
    BY <1>6 DEF Op
  <2>2. UNCHANGED <<taken, pc, from, phase, failure, lossy>>
    BY DEF Put
  <2>3. ASSUME NEW v \in Trainer, NEW i \in taken[v] + 1 .. Len(reqs'[v])
        PROVE  reqs'[v][i].result = "none"
    <3>1. CASE v = w
      <4>1. CASE i = Len(reqs[w]) + 1
        BY <1>3, <3>1, <4>1
      <4>2. CASE i # Len(reqs[w]) + 1
        <5>1. i \in taken[w] + 1 .. Len(reqs[w]) /\ i \in 1 .. Len(reqs[w])
          BY <1>3, <3>1, <4>2 DEF StoreTypes
        <5> QED
          BY <1>3, <3>1, <5>1 DEF BatchesAreWhole
      <4> QED
        BY <4>1, <4>2
    <3>2. CASE v # w
      BY <1>3, <3>2 DEF BatchesAreWhole
    <3> QED
      BY <3>1, <3>2
  <2>4. ASSUME NEW v \in Trainer, NEW i \in 1 .. from[v], reqs'[v][i].op # "shutdown"
        PROVE  reqs'[v][i].result # "none" \/ lossy[v] \/ pc[v] = "down"
    <3>1. i \in 1 .. Len(reqs[v])
      BY DEF StoreTypes
    <3>2. reqs'[v][i] = reqs[v][i]
      BY <1>3, <3>1
    <3> QED
      BY <2>4, <3>2 DEF BatchesAreWhole
  <2> QED
    BY <2>1, <2>2, <2>3, <2>4 DEF BatchesAreWhole
<1>8. Ordered'
  BY <1>3 DEF Put, StoreTypes, Ordered
<1> QED
  BY <1>4, <1>5, <1>7, <1>8

\* Steps that give requests of the batch a result or an answer: results stay,
\* and a save runs only after the work before it.
LEMMA RequestsAdvance ==
  ASSUME BatchInv, NEW w \in Trainer, UNCHANGED <<taken, from, lossy, phase>>,
         reqs' \in [Trainer -> Seq(Request)],
         \A v \in Trainer : v # w =>
           reqs'[v] = reqs[v] /\ pc'[v] = pc[v] /\ failure'[v] = failure[v],
         Len(reqs'[w]) = Len(reqs[w]),
         \A i \in 1 .. Len(reqs[w]) :
           /\ Consistent(reqs'[w][i])
           /\ reqs'[w][i].op = reqs[w][i].op
           /\ reqs[w][i].result # "none" => reqs'[w][i].result # "none"
           /\ i > taken[w] => reqs'[w][i] = reqs[w][i],
         \A j \in 1 .. Len(reqs[w]) :
           \/ reqs'[w][j].ran = "no"
           \/ reqs[w][j].ran # "no"
           \/ reqs[w][j].op # "save"
           \/ \A i \in 1 .. j - 1 : reqs[w][i].op = "work" => reqs[w][i].result # "none" \/ lossy[w],
         pc[w] # "down",
         \/ pc'[w] = pc[w] /\ failure'[w] = failure[w]
         \/ pc'[w] = "store" /\ Todo(w, "work")' = {} /\ Todo(w, "save")' = {}
  PROVE  BatchInv'
<1> USE DEF BatchInv
<1>1. StoreTypes'
  BY DEF StoreTypes
<1>2. ResultsAreOutcomes'
  <2> SUFFICES ASSUME NEW v \in Trainer, NEW i \in 1 .. Len(reqs'[v])
               PROVE  Consistent(reqs'[v][i])
    BY DEF ResultsAreOutcomes, Consistent
  <2>1. CASE v = w
    BY <2>1
  <2>2. CASE v # w
    BY <2>2 DEF ResultsAreOutcomes
  <2> QED
    BY <2>1, <2>2
<1>3. \A v \in Trainer : \A op \in Op : Todo(v, op)' \subseteq Todo(v, op)
  <2> SUFFICES ASSUME NEW v \in Trainer, NEW op \in Op, NEW i \in Todo(v, op)'
               PROVE  i \in Todo(v, op)
    OBVIOUS
  <2>1. i \in Batch(v) /\ reqs'[v][i].op = op /\ reqs'[v][i].result = "none"
    BY DEF Todo, OpsOf, Batch
  <2>2. i \in 1 .. Len(reqs[v])
    BY <2>1 DEF Batch, StoreTypes
  <2>3. reqs[v][i].op = op /\ reqs[v][i].result = "none"
    BY <2>1, <2>2
  <2> QED
    BY <2>1, <2>3 DEF Todo, OpsOf
<1>4. BatchesAreWhole'
  <2> DEFINE Whole(v) ==
        /\ pc[v] \in Between => from[v] = taken[v]
        /\ \A i \in 1 .. from[v] :
             reqs[v][i].op # "shutdown" => reqs[v][i].result # "none" \/ lossy[v] \/ pc[v] = "down"
        /\ \A i \in taken[v] + 1 .. Len(reqs[v]) : reqs[v][i].result = "none"
        /\ phase[v] = "save" => Todo(v, "work") = {}
        /\ pc[v] = "release" /\ ~failure[v] => Todo(v, "work") = {}
        /\ pc[v] = "saving" => phase[v] = "save"
        /\ pc[v] = "store" => Todo(v, "work") = {} /\ Todo(v, "save") = {}
  <2>1. \A v \in Trainer : Todo(v, "work")' \subseteq Todo(v, "work")
                           /\ Todo(v, "save")' \subseteq Todo(v, "save")
    BY <1>3 DEF Op
  <2>2. ASSUME NEW v \in Trainer, v # w PROVE Whole(v)'
    <3>1. /\ pc'[v] = pc[v] /\ failure'[v] = failure[v] /\ reqs'[v] = reqs[v]
          /\ UNCHANGED <<taken, from, lossy, phase>>
      BY <2>2
    <3>2. Todo(v, "work")' \subseteq Todo(v, "work") /\ Todo(v, "save")' \subseteq Todo(v, "save")
      BY <2>1
    <3> QED
      BY <3>1, <3>2 DEF BatchesAreWhole
  <2>3. Whole(w)'
    <3>1. \A i \in 1 .. from[w] :
            reqs'[w][i].op # "shutdown" => reqs'[w][i].result # "none" \/ lossy[w]
      <4> SUFFICES ASSUME NEW i \in 1 .. from[w], reqs'[w][i].op # "shutdown", ~lossy[w]
                   PROVE  reqs'[w][i].result # "none"
        OBVIOUS
      <4>1. i \in 1 .. Len(reqs[w])
        BY DEF StoreTypes
      <4>2. reqs[w][i].result # "none"
        BY <4>1 DEF BatchesAreWhole
      <4> QED
        BY <4>1, <4>2
    <3>2. \A i \in taken[w] + 1 .. Len(reqs[w]) : reqs'[w][i].result = "none"
      <4> SUFFICES ASSUME NEW i \in taken[w] + 1 .. Len(reqs[w])
                   PROVE  reqs'[w][i].result = "none"
        OBVIOUS
      <4>1. i \in 1 .. Len(reqs[w]) /\ i > taken[w]
        BY DEF StoreTypes
      <4>2. reqs[w][i].result = "none"
        BY DEF BatchesAreWhole
      <4> QED
        BY <4>1, <4>2
    <3>3. /\ pc'[w] \in Between => from[w] = taken[w]
          /\ phase[w] = "save" => Todo(w, "work")' = {}
          /\ pc'[w] = "release" /\ ~failure'[w] => Todo(w, "work")' = {}
          /\ pc'[w] = "saving" => phase[w] = "save"
          /\ pc'[w] = "store" => Todo(w, "work")' = {} /\ Todo(w, "save")' = {}
      BY <2>1 DEF BatchesAreWhole, Between
    <3> QED
      BY <3>1, <3>2, <3>3
  <2> HIDE DEF Whole
  <2>4. \A v \in Trainer : Whole(v)'
    BY <2>2, <2>3
  <2> QED
    BY <2>4 DEF BatchesAreWhole, Whole
<1>5. Ordered'
  <2> SUFFICES ASSUME NEW v \in Trainer, NEW j \in 1 .. Len(reqs'[v]), NEW i \in 1 .. j - 1,
                      reqs'[v][j].op = "save", reqs'[v][j].ran # "no", reqs'[v][i].op = "work",
                      ~lossy[v]
               PROVE  reqs'[v][i].result # "none"
    BY DEF Ordered
  <2>1. j \in 1 .. Len(reqs[v]) /\ i \in 1 .. Len(reqs[v])
    <3>1. Len(reqs'[v]) = Len(reqs[v]) /\ Len(reqs[v]) \in Nat
      BY DEF StoreTypes
    <3> QED
      BY <3>1
  <2>2. reqs[v][j].op = "save" /\ reqs[v][i].op = "work"
    BY <2>1
  <2>3. reqs[v][i].result # "none"
    BY <2>1, <2>2 DEF Ordered
  <2> QED
    BY <2>1, <2>3
<1> QED
  BY <1>1, <1>2, <1>4, <1>5

\* answer_batch: what has no result yet fails.
LEMMA FailRestKeeps ==
  ASSUME BatchInv, NEW w \in Trainer, FailRest(w), UNCHANGED <<taken, from, lossy, phase>>,
         \A v \in Trainer : v # w => pc'[v] = pc[v] /\ failure'[v] = failure[v],
         pc[w] # "down", pc'[w] = "store"
  PROVE  BatchInv'
<1> USE DEF BatchInv
<1> DEFINE T == Todo(w, "work") \cup Todo(w, "save")
<1>1. /\ reqs' \in [Trainer -> Seq(Request)]
      /\ \A v \in Trainer : v # w => reqs'[v] = reqs[v]
      /\ Len(reqs'[w]) = Len(reqs[w])
      /\ \A i \in 1 .. Len(reqs[w]) :
           reqs'[w][i] = IF i \in T THEN [reqs[w][i] EXCEPT !.result = "failure"] ELSE reqs[w][i]
  BY FailRestEffect
<1>2. \A i \in T : i <= taken[w] /\ i \in 1 .. Len(reqs[w]) /\ reqs[w][i].result = "none"
  BY DEF Todo, OpsOf, Batch, StoreTypes
<1>3. ASSUME NEW i \in 1 .. Len(reqs[w])
      PROVE  /\ Consistent(reqs'[w][i])
             /\ reqs'[w][i].op = reqs[w][i].op
             /\ reqs'[w][i].ran = reqs[w][i].ran
             /\ reqs[w][i].result # "none" => reqs'[w][i].result # "none"
             /\ i > taken[w] => reqs'[w][i] = reqs[w][i]
             /\ i \in T => reqs'[w][i].result # "none"
  <2>1. reqs[w][i] \in Request /\ Consistent(reqs[w][i]) /\ taken[w] \in Nat
    BY DEF StoreTypes, ResultsAreOutcomes
  <2>2. CASE i \in T
    <3> HIDE DEF T
    <3>1. reqs'[w][i] = [reqs[w][i] EXCEPT !.result = "failure"] /\ i <= taken[w]
      BY <1>1, <1>2, <2>2
    <3>2. reqs[w][i].result = "none"
      BY <1>2, <2>2
    <3> QED
      BY <2>1, <3>1, <3>2 DEF Consistent, Request
  <2>3. CASE i \notin T
    <3> HIDE DEF T
    <3>1. reqs'[w][i] = reqs[w][i]
      BY <1>1, <2>3
    <3> QED
      BY <2>1, <2>3, <3>1
  <2> QED
    BY <2>2, <2>3
<1>4. Todo(w, "work")' = {} /\ Todo(w, "save")' = {}
  <2> SUFFICES ASSUME NEW op \in {"work", "save"}, NEW i \in Todo(w, op)' PROVE FALSE
    OBVIOUS
  <2>1. i \in Batch(w) /\ reqs'[w][i].op = op /\ reqs'[w][i].result = "none"
    BY DEF Todo, OpsOf, Batch
  <2>2. i \in 1 .. Len(reqs[w])
    BY <2>1 DEF Batch, StoreTypes
  <2>3. reqs[w][i].op = op /\ reqs[w][i].result = "none"
    BY <1>3, <2>1, <2>2
  <2>4. i \in T
    BY <2>1, <2>3 DEF Todo, OpsOf
  <2> QED
    BY <1>3, <2>1, <2>2, <2>4
<1> HIDE DEF T
<1>5. \A j \in 1 .. Len(reqs[w]) : reqs'[w][j].ran = "no" \/ reqs[w][j].ran # "no"
  BY <1>3
<1> QED
  BY <1>1, <1>3, <1>4, <1>5, RequestsAdvance

\* handle_request: a save runs when its batch has no work left, and every
\* batch before it has its results.
LEMMA HandleKeeps ==
  ASSUME BatchInv, NEW w \in Trainer, NEW op \in {"work", "save"}, Handle(w, op)
  PROVE  BatchInv'
<1>1. PICK m \in Todo(w, op), res \in {"done", "error"} : Handled(w, m, res)
  BY HandleEffect DEF BatchInv
<1> USE DEF BatchInv, Handled
<1>2. m \in 1 .. Len(reqs[w]) /\ m > from[w] /\ m <= taken[w] /\ reqs[w][m].op = op
  BY DEF Todo, OpsOf, Batch, StoreTypes
<1>3. ASSUME NEW i \in 1 .. Len(reqs[w])
      PROVE  /\ Consistent(reqs'[w][i])
             /\ reqs'[w][i].op = reqs[w][i].op
             /\ reqs[w][i].result # "none" => reqs'[w][i].result # "none"
             /\ i > taken[w] => reqs'[w][i] = reqs[w][i]
             /\ i # m => reqs'[w][i] = reqs[w][i]
  <2>1. reqs[w][i] \in Request /\ Consistent(reqs[w][i]) /\ taken[w] \in Nat
    BY DEF StoreTypes, ResultsAreOutcomes
  <2>2. CASE i = m
    <3>1. reqs'[w][i] = [reqs[w][i] EXCEPT !.ran = res, !.result = res]
      BY <1>1, <2>2
    <3>2. reqs[w][i].result = "none"
      BY <2>2 DEF Todo
    <3>3. reqs[w][i].answer = "none"
      BY <2>1, <3>2 DEF Consistent, Request
    <3> QED
      BY <1>2, <2>1, <2>2, <3>1, <3>2, <3>3 DEF Consistent, Request
  <2>3. CASE i # m
    <3>1. reqs'[w][i] = reqs[w][i]
      BY <1>1, <2>3
    <3> QED
      BY <2>1, <2>3, <3>1
  <2> QED
    BY <2>2, <2>3
<1>4. pc[w] # "down" /\ UNCHANGED <<taken, from, lossy, phase, pc, failure>>
  BY DEF Handle
<1>5. ASSUME NEW j \in 1 .. Len(reqs[w])
      PROVE  \/ reqs'[w][j].ran = "no"
             \/ reqs[w][j].ran # "no"
             \/ reqs[w][j].op # "save"
             \/ \A i \in 1 .. j - 1 : reqs[w][i].op = "work" => reqs[w][i].result # "none" \/ lossy[w]
  <2>1. CASE j # m
    BY <1>3, <2>1
  <2>2. CASE j = m /\ op = "work"
    BY <1>2, <2>2
  <2>3. CASE j = m /\ op = "save"
    <3>1. Todo(w, "work") = {} /\ pc[w] = "saving"
      BY <2>3 DEF Handle, BatchesAreWhole
    <3>2. ASSUME NEW i \in 1 .. j - 1, reqs[w][i].op = "work", ~lossy[w]
          PROVE  reqs[w][i].result # "none"
      <4>1. CASE i <= from[w]
        <5>1. i \in 1 .. from[w]
          BY <1>2, <2>3, <4>1 DEF StoreTypes
        <5>2. reqs[w][i].result # "none" \/ lossy[w] \/ pc[w] = "down"
          BY <3>2, <5>1 DEF BatchesAreWhole
        <5> QED
          BY <3>1, <3>2, <5>2
      <4>2. CASE i > from[w]
        <5>1. i \in Batch(w)
          BY <1>2, <2>3, <4>2 DEF Batch, StoreTypes
        <5> QED
          BY <3>1, <3>2, <5>1 DEF Todo, OpsOf
      <4> QED
        BY <4>1, <4>2 DEF StoreTypes
    <3> QED
      BY <3>2
  <2> QED
    BY <2>1, <2>2, <2>3
<1> QED
  BY <1>1, <1>3, <1>4, <1>5, RequestsAdvance

\* set_future stores a result.
LEMMA StoreKeeps ==
  ASSUME BatchInv, NEW w \in Trainer, Store(w)
  PROVE  BatchInv'
<1>1. PICK m \in Unstored(w) :
        /\ reqs' \in [Trainer -> Seq(Request)]
        /\ \A v \in Trainer : v # w => reqs'[v] = reqs[v]
        /\ Len(reqs'[w]) = Len(reqs[w])
        /\ \A i \in 1 .. Len(reqs[w]) :
             reqs'[w][i] = IF i = m THEN [reqs[w][m] EXCEPT !.answer = reqs[w][m].result]
                           ELSE reqs[w][i]
  BY StoreEffect DEF BatchInv
<1> USE DEF BatchInv
<1>2. m \in 1 .. Len(reqs[w]) /\ m <= taken[w]
  BY DEF Unstored, Batch, StoreTypes
<1>3. ASSUME NEW i \in 1 .. Len(reqs[w])
      PROVE  /\ Consistent(reqs'[w][i])
             /\ reqs'[w][i].op = reqs[w][i].op
             /\ reqs'[w][i].ran = reqs[w][i].ran
             /\ reqs[w][i].result # "none" => reqs'[w][i].result # "none"
             /\ i > taken[w] => reqs'[w][i] = reqs[w][i]
  <2>1. reqs[w][i] \in Request /\ Consistent(reqs[w][i]) /\ taken[w] \in Nat
    BY DEF StoreTypes, ResultsAreOutcomes
  <2>2. CASE i = m
    <3>1. reqs'[w][i] = [reqs[w][i] EXCEPT !.answer = reqs[w][i].result]
      BY <1>1, <2>2
    <3> QED
      BY <1>2, <2>1, <2>2, <3>1 DEF Consistent, Request
  <2>3. CASE i # m
    <3>1. reqs'[w][i] = reqs[w][i]
      BY <1>1, <2>3
    <3> QED
      BY <2>1, <3>1
  <2> QED
    BY <2>2, <2>3
<1>4. pc[w] # "down" /\ UNCHANGED <<taken, from, lossy, phase, pc, failure>>
  BY DEF Store
<1>5. \A j \in 1 .. Len(reqs[w]) : reqs'[w][j].ran = "no" \/ reqs[w][j].ran # "no"
  BY <1>3
<1> QED
  BY <1>1, <1>3, <1>4, <1>5, RequestsAdvance

\* get_requests_for_model: the batch before has its results, and a batch
\* without work starts with its saves.
LEMMA PopKeeps ==
  ASSUME BatchInv, pc \in [Trainer -> PC], phase \in [Trainer -> {"work", "save"}],
         NEW w \in Trainer, Pop(w)
  PROVE  BatchInv'
<1> USE DEF BatchInv
<1> DEFINE N == taken[w] + 1 .. Len(reqs[w])
           ops == {reqs[w][i].op : i \in N}
<1>1. /\ UNCHANGED <<reqs, failure, lossy>>
      /\ taken' = [taken EXCEPT ![w] = Len(reqs[w])]
      /\ from' = [from EXCEPT ![w] = taken[w]]
      /\ pc[w] = "idle" /\ from[w] = taken[w]
      /\ \A v \in Trainer : v # w => pc'[v] = pc[v] /\ phase'[v] = phase[v]
      /\ pc'[w] \in {"acquire", "store", "saving"}
      /\ phase'[w] = "save" => "work" \notin ops
      /\ pc'[w] = "saving" => phase'[w] = "save"
      /\ pc'[w] = "store" => "work" \notin ops /\ "save" \notin ops
  BY DEF Pop, BatchesAreWhole, Between
<1>2. StoreTypes'
  BY <1>1 DEF StoreTypes
<1>3. ResultsAreOutcomes' /\ Ordered'
  BY <1>1 DEF ResultsAreOutcomes, Consistent, Ordered
<1>4. \A v \in Trainer : v # w => \A op \in Op : Todo(v, op)' = Todo(v, op)
  BY <1>1 DEF StoreTypes, Todo, OpsOf, Batch
<1>5. \A op \in Op : op \notin ops => Todo(w, op)' = {}
  <2> SUFFICES ASSUME NEW op \in Op, NEW i \in Todo(w, op)' PROVE op \in ops
    OBVIOUS
  <2>1. i \in N /\ reqs[w][i].op = op
    BY <1>1 DEF StoreTypes, Todo, OpsOf, Batch
  <2> QED
    BY <2>1
<1>6. BatchesAreWhole'
  <2> DEFINE Whole(v) ==
        /\ pc[v] \in Between => from[v] = taken[v]
        /\ \A i \in 1 .. from[v] :
             reqs[v][i].op # "shutdown" => reqs[v][i].result # "none" \/ lossy[v] \/ pc[v] = "down"
        /\ \A i \in taken[v] + 1 .. Len(reqs[v]) : reqs[v][i].result = "none"
        /\ phase[v] = "save" => Todo(v, "work") = {}
        /\ pc[v] = "release" /\ ~failure[v] => Todo(v, "work") = {}
        /\ pc[v] = "saving" => phase[v] = "save"
        /\ pc[v] = "store" => Todo(v, "work") = {} /\ Todo(v, "save") = {}
  <2>1. ASSUME NEW v \in Trainer, v # w PROVE Whole(v)'
    <3>1. Todo(v, "work")' = Todo(v, "work") /\ Todo(v, "save")' = Todo(v, "save")
      BY <1>4, <2>1 DEF Op
    <3>2. taken'[v] = taken[v] /\ from'[v] = from[v]
      BY <1>1, <2>1 DEF StoreTypes
    <3> QED
      BY <1>1, <2>1, <3>1, <3>2 DEF BatchesAreWhole
  <2>2. Whole(w)'
    <3>1. taken'[w] = Len(reqs[w]) /\ from'[w] = from[w] /\ Len(reqs[w]) \in Nat
      BY <1>1 DEF StoreTypes
    <3>2. \A i \in 1 .. from[w] :
            reqs[w][i].op # "shutdown" => reqs[w][i].result # "none" \/ lossy[w]
      BY <1>1 DEF BatchesAreWhole
    <3> HIDE DEF ops
    <3>3. /\ phase'[w] = "save" => Todo(w, "work")' = {}
          /\ pc'[w] = "store" => Todo(w, "work")' = {} /\ Todo(w, "save")' = {}
      BY <1>1, <1>5 DEF Op
    <3> QED
      BY <1>1, <3>1, <3>2, <3>3 DEF Between
  <2> HIDE DEF Whole
  <2>3. \A v \in Trainer : Whole(v)'
    BY <2>1, <2>2
  <2> QED
    BY <2>3 DEF BatchesAreWhole, Whole
<1> QED
  BY <1>2, <1>3, <1>6

\* The slicer's side of a turn.
LEMMA SliceKeeps ==
  ASSUME TurnInv, BatchInv, NEW w \in Trainer, Slice(w)
  PROVE  BatchInv'
<1> USE DEF TurnInv, TurnTypes, BatchInv
<1>1. CASE SeeClose(w)
  BY <1>1, SameRequests DEF SeeClose, BatchesAreWhole
<1>2. CASE Grant(w)
  <2>1. UNCHANGED <<reqs, taken, from, lossy, phase, failure>>
    BY <1>2 DEF Grant
  <2>2. /\ \A v \in Trainer : v # w => pc'[v] = pc[v]
        /\ pc'[w] = pc[w] \/ pc'[w] = "granted" \/ (pc'[w] = "saving" /\ phase[w] = "save")
        /\ pc[w] = "down" => pc'[w] = "down"
    BY <1>2 DEF Grant
  <2>3. /\ pc[w] \in Between => from[w] = taken[w]
        /\ phase[w] = "save" => Todo(w, "work") = {}
        /\ pc[w] = "release" /\ ~failure[w] => Todo(w, "work") = {}
        /\ pc[w] = "saving" => phase[w] = "save"
        /\ pc[w] = "store" => Todo(w, "work") = {} /\ Todo(w, "save") = {}
    BY DEF BatchesAreWhole
  <2>4. "granted" \notin Between /\ "saving" \notin Between
    BY DEF Between
  <2> HIDE DEF TurnInv, TurnTypes, BatchInv
  <2> QED
    BY <2>1, <2>2, <2>3, <2>4, SameRequests
<1> QED
  BY <1>1, <1>2 DEF Slice

\* The rest of what a trainer does.
LEMMA RunBatch ==
  ASSUME TurnInv, BatchInv, NEW w \in Trainer, Run(w)
  PROVE  BatchInv'
<1> USE DEF TurnInv, TurnTypes, BatchInv
<1>0. /\ pc[w] \in Between => from[w] = taken[w]
      /\ phase[w] = "save" => Todo(w, "work") = {}
      /\ pc[w] = "saving" => phase[w] = "save"
  BY DEF BatchesAreWhole
<1>1. CASE Register(w)
  <2>1. /\ UNCHANGED <<reqs, taken, from, lossy, phase, failure>>
        /\ \A v \in Trainer : v # w => pc'[v] = pc[v]
        /\ pc[w] = "start" /\ pc'[w] = "idle"
    BY <1>1 DEF Register
  <2>2. pc[w] \in Between
    BY <2>1 DEF Between
  <2> HIDE DEF TurnInv, TurnTypes, BatchInv
  <2> QED
    BY <1>0, <2>1, <2>2, SameRequests
<1>2. CASE Pop(w)
  BY <1>2, PopKeeps
<1>3. CASE Ask(w)
  <2>1. /\ UNCHANGED <<reqs, taken, from, lossy>>
        /\ \A v \in Trainer : v # w =>
             pc'[v] = pc[v] /\ phase'[v] = phase[v] /\ failure'[v] = failure[v]
        /\ pc[w] = "acquire" /\ pc'[w] = "waiting" /\ phase'[w] = phase[w]
    BY <1>3 DEF Ask
  <2>2. pc'[w] \notin Between
    BY <2>1 DEF Between
  <2> HIDE DEF TurnInv, TurnTypes, BatchInv
  <2> QED
    BY <1>0, <2>1, <2>2, SameRequests
<1>4. CASE Refused(w)
  BY <1>4, FailRestKeeps DEF Refused
<1>5. CASE WakeUp(w)
  <2>1. /\ UNCHANGED <<reqs, taken, from, lossy>>
        /\ \A v \in Trainer : v # w =>
             pc'[v] = pc[v] /\ phase'[v] = phase[v] /\ failure'[v] = failure[v]
        /\ pc[w] = "granted" /\ phase'[w] = phase[w]
        /\ pc'[w] \in {"working", "release"}
    BY <1>5 DEF WakeUp
  <2>2. pc'[w] = "release" => failure'[w]
    BY <1>5 DEF WakeUp
  <2>3. ~(pc'[w] = "release" /\ ~failure'[w])
    BY <2>2
  <2>4. pc'[w] \notin Between \cup {"saving", "store", "down"} /\ pc[w] # "down"
    BY <2>1 DEF Between
  <2> HIDE DEF TurnInv, TurnTypes, BatchInv
  <2> QED
    BY <1>0, <2>1, <2>3, <2>4, SameRequests
<1>6. ASSUME Handle(w, "work") \/ Handle(w, "save") PROVE BatchInv'
  BY <1>6, HandleKeeps
<1>7. CASE Sleep(w)
  <2>1. /\ UNCHANGED <<reqs, taken, from, lossy, phase>>
        /\ \A v \in Trainer : v # w => pc'[v] = pc[v] /\ failure'[v] = failure[v]
        /\ pc[w] = "working" /\ pc'[w] = "release" /\ Todo(w, "work") = {}
    BY <1>7 DEF Sleep
  <2>2. pc'[w] \notin Between
    BY <2>1 DEF Between
  <2> HIDE DEF TurnInv, TurnTypes, BatchInv
  <2> QED
    BY <2>1, <2>2, SameRequests
<1>8. CASE SavedInTurn(w)
  <2>1. /\ UNCHANGED <<reqs, taken, from, lossy>>
        /\ \A v \in Trainer : v # w =>
             pc'[v] = pc[v] /\ phase'[v] = phase[v] /\ failure'[v] = failure[v]
        /\ pc[w] = "saving" /\ phase'[w] = phase[w] /\ Todo(w, "save") = {}
        /\ pc'[w] \in {"store", "release"}
    BY <1>8 DEF SavedInTurn
  <2>2. phase[w] = "save" /\ Todo(w, "work") = {}
    BY <1>0, <2>1
  <2>3. pc'[w] \notin Between
    BY <2>1 DEF Between
  <2> HIDE DEF TurnInv, TurnTypes, BatchInv
  <2> QED
    BY <2>1, <2>2, <2>3, SameRequests
<1>9. ASSUME Release(w) \/ ReleaseFaulted(w) PROVE BatchInv'
  <2>1. /\ pc[w] = "release" /\ GoOn(w) /\ UNCHANGED <<taken, from, failure, lossy>>
    BY <1>9 DEF Release, ReleaseFaulted
  <2>2. CASE failure[w]
    <3>1. FailRest(w) /\ pc' = [pc EXCEPT ![w] = "store"] /\ UNCHANGED phase
      BY <2>1, <2>2 DEF GoOn
    <3> QED
      BY <2>1, <3>1, FailRestKeeps
  <2>3. CASE ~failure[w]
    <3>1. /\ phase' = [phase EXCEPT ![w] = "save"]
          /\ pc'[w] \in {"store", "saving", "acquire"}
          /\ \A v \in Trainer : v # w => pc'[v] = pc[v]
          /\ pc'[w] = "store" => Todo(w, "save") = {}
          /\ UNCHANGED reqs
      BY <2>1, <2>3 DEF GoOn
    <3>2. Todo(w, "work") = {}
      BY <2>1, <2>3 DEF BatchesAreWhole
    <3>3. /\ UNCHANGED <<reqs, taken, from, lossy>>
          /\ \A v \in Trainer : v # w =>
               pc'[v] = pc[v] /\ phase'[v] = phase[v] /\ failure'[v] = failure[v]
          /\ phase'[w] = "save" /\ pc[w] = "release"
      BY <2>1, <3>1
    <3> QED
      BY <3>1, <3>2, <3>3, SameRequests DEF Between
  <2> QED
    BY <2>2, <2>3
<1>10. CASE Store(w)
  BY <1>10, StoreKeeps
<1>11. CASE Finish(w)
  <2>1. /\ UNCHANGED reqs
        /\ taken' \in [Trainer -> Nat] /\ from' \in [Trainer -> Nat]
        /\ taken[w] <= taken'[w] /\ taken'[w] <= Len(reqs[w]) /\ from'[w] = taken'[w]
        /\ \A v \in Trainer : v # w =>
             /\ pc'[v] = pc[v] /\ phase'[v] = phase[v] /\ failure'[v] = failure[v]
             /\ taken'[v] = taken[v] /\ from'[v] = from[v]
        /\ lossy' \in [Trainer -> BOOLEAN]
        /\ \A v \in Trainer : lossy[v] => lossy'[v]
    BY <1>11 DEF Finish, BatchOver, StoreTypes
  <2>2. pc[w] = "store" /\ pc'[w] \in {"idle", "exiting"} /\ taken'[w] = taken[w]
    BY <1>11 DEF Finish, BatchOver, StoreTypes
  <2> QED
    BY <2>1, <2>2, EndOfBatch
<1>12. CASE Exit(w)
  <2>1. /\ UNCHANGED reqs
        /\ taken' \in [Trainer -> Nat] /\ from' \in [Trainer -> Nat]
        /\ taken[w] <= taken'[w] /\ taken'[w] <= Len(reqs[w]) /\ from'[w] = taken'[w]
        /\ \A v \in Trainer : v # w =>
             /\ pc'[v] = pc[v] /\ phase'[v] = phase[v] /\ failure'[v] = failure[v]
             /\ taken'[v] = taken[v] /\ from'[v] = from[v]
        /\ lossy' \in [Trainer -> BOOLEAN]
        /\ \A v \in Trainer : lossy[v] => lossy'[v]
    BY <1>12 DEF Exit, Gone, BatchOver, StoreTypes
  <2>2. pc[w] = "exiting" /\ pc'[w] = "down"
    BY <1>12 DEF Exit, Gone, BatchOver, StoreTypes
  <2> QED
    BY <2>1, <2>2, EndOfBatch
<1> QED
  BY <1>1, <1>2, <1>3, <1>4, <1>5, <1>6, <1>7, <1>8, <1>9, <1>10, <1>11, <1>12 DEF Run

LEMMA BatchStep == TurnInv /\ BatchInv /\ [Next]_vars => BatchInv'
<1> SUFFICES ASSUME TurnInv, BatchInv, [Next]_vars PROVE BatchInv'
  OBVIOUS
<1> USE DEF TurnInv, TurnTypes, BatchInv
<1>1. ASSUME NEW w \in Trainer, Put(w) PROVE BatchInv'
  BY <1>1, PutKeeps
<1>2. ASSUME NEW w \in Trainer, Run(w) PROVE BatchInv'
  BY <1>2, RunBatch
<1>3. ASSUME NEW w \in Trainer, Slice(w) PROVE BatchInv'
  BY <1>3, SliceKeeps
<1>4. ASSUME NEW w \in Trainer, PopBroken(w) PROVE BatchInv'
  <2>1. /\ UNCHANGED reqs
        /\ taken' \in [Trainer -> Nat] /\ from' \in [Trainer -> Nat]
        /\ taken[w] <= taken'[w] /\ taken'[w] <= Len(reqs[w]) /\ from'[w] = taken'[w]
        /\ \A v \in Trainer : v # w =>
             /\ pc'[v] = pc[v] /\ phase'[v] = phase[v] /\ failure'[v] = failure[v]
             /\ taken'[v] = taken[v] /\ from'[v] = from[v]
        /\ lossy' \in [Trainer -> BOOLEAN]
        /\ \A v \in Trainer : lossy[v] => lossy'[v]
    BY <1>4 DEF PopBroken, StoreTypes
  <2>2. pc[w] = "idle" /\ pc'[w] = "idle" /\ lossy'[w]
    BY <1>4 DEF PopBroken, StoreTypes
  <2> QED
    BY <2>1, <2>2, EndOfBatch
<1>5. ASSUME NEW w \in Trainer, StoreError(w) PROVE BatchInv'
  <2>1. /\ UNCHANGED reqs
        /\ taken' \in [Trainer -> Nat] /\ from' \in [Trainer -> Nat]
        /\ taken[w] <= taken'[w] /\ taken'[w] <= Len(reqs[w]) /\ from'[w] = taken'[w]
        /\ \A v \in Trainer : v # w =>
             /\ pc'[v] = pc[v] /\ phase'[v] = phase[v] /\ failure'[v] = failure[v]
             /\ taken'[v] = taken[v] /\ from'[v] = from[v]
        /\ lossy' \in [Trainer -> BOOLEAN]
        /\ \A v \in Trainer : lossy[v] => lossy'[v]
    BY <1>5 DEF StoreError, BatchOver, StoreTypes
  <2>2. pc[w] = "store" /\ pc'[w] = "idle" /\ lossy'[w]
    BY <1>5 DEF StoreError, BatchOver, StoreTypes
  <2> QED
    BY <2>1, <2>2, EndOfBatch
<1>6. ASSUME NEW w \in Trainer, Kill(w) PROVE BatchInv'
  <2>1. /\ UNCHANGED reqs
        /\ taken' \in [Trainer -> Nat] /\ from' \in [Trainer -> Nat]
        /\ taken[w] <= taken'[w] /\ taken'[w] <= Len(reqs[w]) /\ from'[w] = taken'[w]
        /\ \A v \in Trainer : v # w =>
             /\ pc'[v] = pc[v] /\ phase'[v] = phase[v] /\ failure'[v] = failure[v]
             /\ taken'[v] = taken[v] /\ from'[v] = from[v]
        /\ lossy' \in [Trainer -> BOOLEAN]
        /\ \A v \in Trainer : lossy[v] => lossy'[v]
    BY <1>6 DEF Kill, Gone, BatchOver, StoreTypes
  <2>2. pc[w] # "down" /\ pc'[w] = "down"
    BY <1>6 DEF Kill, Gone, BatchOver, StoreTypes
  <2> QED
    BY <2>1, <2>2, EndOfBatch
<1>7. CASE UNCHANGED vars
  BY <1>7 DEF vars, StoreTypes, ResultsAreOutcomes, Consistent, BatchesAreWhole, Ordered, Todo,
     OpsOf, Batch
<1> QED
  BY <1>1, <1>2, <1>3, <1>4, <1>5, <1>6, <1>7 DEF Next

-----------------------------------------------------------------------------
(* Theorems *)

\* The inductive invariant of turns and batches.
THEOREM TurnInvariant == Spec => [](TurnInv /\ BatchInv)
<1>1. Init => TurnInv /\ BatchInv
  BY TurnInit, BatchInit
<1>2. TurnInv /\ BatchInv /\ [Next]_vars => (TurnInv /\ BatchInv)'
  BY TurnStep, BatchStep
<1> QED
  BY <1>1, <1>2, PTL DEF Spec

\* The store, the trainers and the slicer stay well formed.
THEOREM TurnsWellFormed == Spec => []TypeOK
<1>1. TurnInv /\ BatchInv => TypeOK
  BY DEF TurnInv, TurnTypes, BatchInv, StoreTypes, TypeOK
<1> QED
  BY <1>1, TurnInvariant, PTL

\* However rivals are killed, refused or cannot be parked: a trainer computes,
\* and saves from the devices, only while the claim is granted to it, and never
\* again after a release could not park it.
THEOREM WorkOnlyWithGrant == Spec => []WorkHoldsGrant
<1>1. TurnInv => WorkHoldsGrant
  BY DEF TurnInv, TurnsAreGranted, TurnTypes, WorkHoldsGrant
<1> QED
  BY <1>1, TurnInvariant, PTL

\* Two trainers are on the devices at once only if a release could not park
\* one of them: everybody else's memory leaves with the grant.
THEOREM OverlapOnlyAfterFault == Spec => []OverlapNeedsFault
<1>1. TurnInv => OverlapNeedsFault
  BY DEF TurnInv, TurnsAreGranted, TurnTypes, OverlapNeedsFault, OnDevice
<1> QED
  BY <1>1, TurnInvariant, PTL

\* Splitting a batch into work and saves, and cutting the queue into batches,
\* never runs a save ahead of training requested before it.
THEOREM SavesAreInOrder == Spec => []SaveFollowsEarlierWork
<1>1. BatchInv => SaveFollowsEarlierWork
  <2> SUFFICES ASSUME BatchInv, NEW w \in Trainer, NEW j \in DOMAIN reqs[w], NEW i \in 1 .. j - 1,
                      reqs[w][j].op = "save", reqs[w][j].ran # "no", reqs[w][i].op = "work"
               PROVE  reqs[w][i].result # "none" \/ lossy[w]
    BY DEF SaveFollowsEarlierWork
  <2>1. j \in 1 .. Len(reqs[w])
    BY DEF BatchInv, StoreTypes
  <2> QED
    BY <2>1 DEF BatchInv, Ordered
<1> QED
  BY <1>1, TurnInvariant, PTL

\* A stored answer is the outcome of its own operation, and the batch's failure
\* only for what did not run.
THEOREM AnswersAreOutcomes == Spec => []AnswerIsOutcome
<1>1. BatchInv => AnswerIsOutcome
  <2> SUFFICES ASSUME BatchInv, NEW w \in Trainer, NEW i \in DOMAIN reqs[w],
                      reqs[w][i].answer # "none"
               PROVE  reqs[w][i].answer = (IF reqs[w][i].ran = "no" THEN "failure"
                                           ELSE reqs[w][i].ran)
    BY DEF AnswerIsOutcome
  <2>1. i \in 1 .. Len(reqs[w])
    BY DEF BatchInv, StoreTypes
  <2> QED
    BY <2>1 DEF BatchInv, ResultsAreOutcomes, Consistent
<1> QED
  BY <1>1, TurnInvariant, PTL

-----------------------------------------------------------------------------
(* The lease *)

Faulted == {w \in Trainer : faulted[w]}

\* The claim of the lease is the holder of this module.
LEMMA TheClaim ==
  /\ [k \in {"claim"} |-> holder]["claim"] = holder
  /\ \A w \in Trainer : [v \in Trainer |-> "claim"][w] = "claim"
  /\ [k \in {"claim"} |-> holder]' = [k \in {"claim"} |-> holder']
  /\ \A w \in Trainer \cup {None} :
       [[k \in {"claim"} |-> holder] EXCEPT !["claim"] = w] = [k \in {"claim"} |-> w]
  OBVIOUS

\* What a step does to holder, memory and faults is all that the lease sees.
LEMMA LeaseStays ==
  ASSUME UNCHANGED holder, OnDevice' = OnDevice, Faulted' = Faulted
  PROVE  [Lease!Next]_(Lease!vars)
  BY TheClaim DEF Lease!vars, Faulted

LEMMA LeaseGrants ==
  ASSUME NEW w \in Trainer, holder = None, holder' = w, Faulted' = Faulted,
         OnDevice' = OnDevice \/ (~faulted[w] /\ OnDevice' = OnDevice \cup {w})
  PROVE  Lease!Next
<1>1. Lease!Grant(w)
  BY TheClaim DEF Lease!Grant, Faulted
<1> QED
  BY <1>1 DEF Lease!Next

LEMMA LeaseReturns ==
  ASSUME NEW w \in Trainer, holder = w, holder' = None, Faulted' = Faulted, ~faulted[w],
         OnDevice' = OnDevice \ {w}
  PROVE  Lease!Next
<1>1. Lease!GiveBack(w)
  BY TheClaim DEF Lease!GiveBack, Faulted
<1> QED
  BY <1>1 DEF Lease!Next

LEMMA LeaseEnds ==
  ASSUME NEW w \in Trainer, holder = w, holder' = None, Faulted' = Faulted, faulted[w],
         OnDevice' = OnDevice
  PROVE  Lease!Next
<1>1. Lease!Abandon(w)
  BY TheClaim DEF Lease!Abandon, Faulted
<1> QED
  BY <1>1 DEF Lease!Next

LEMMA LeaseGone ==
  ASSUME TurnInv, NEW w \in Trainer, Gone(w), UNCHANGED holder
  PROVE  Lease!Next
<1>1. OnDevice' = OnDevice \ {w} /\ Faulted' = Faulted \ {w}
  BY DEF TurnInv, TurnTypes, Gone, OnDevice, Faulted
<1>2. Lease!Gone(w)
  BY <1>1, TheClaim DEF Lease!Gone, Faulted
<1> QED
  BY <1>2 DEF Lease!Next

\* A trainer's own steps: memory comes to the devices in WakeUp, and leaves
\* them with Release, Exit or never.
LEMMA LeaseRun ==
  ASSUME TurnInv, NEW w \in Trainer, Run(w)
  PROVE  [Lease!Next]_(Lease!vars)
<1> USE DEF TurnInv
<1>1. CASE WakeUp(w)
  <2>1. holder = w /\ w \notin Faulted
    BY <1>1 DEF WakeUp, TurnsAreGranted, InTurn, Faulted
  <2>2. UNCHANGED holder /\ OnDevice' = OnDevice \cup {w} /\ Faulted' = Faulted
    BY <1>1 DEF WakeUp, TurnTypes, OnDevice, Faulted
  <2>3. Lease!Load(w)
    BY <2>1, <2>2, TheClaim DEF Lease!Load, Faulted
  <2> QED
    BY <2>3 DEF Lease!Next
<1>2. CASE Release(w)
  <2>1. holder = w /\ ~faulted[w]
    BY <1>2 DEF Release, TurnsAreGranted, InTurn
  <2>2. holder' = None /\ OnDevice' = OnDevice \ {w} /\ Faulted' = Faulted
    BY <1>2 DEF Release, TurnTypes, OnDevice, Faulted
  <2> QED
    BY <2>1, <2>2, LeaseReturns
<1>3. CASE ReleaseFaulted(w)
  <2>1. UNCHANGED holder /\ OnDevice' = OnDevice /\ Faulted' = Faulted \cup {w}
    BY <1>3 DEF ReleaseFaulted, TurnTypes, OnDevice, Faulted
  <2>2. Lease!Leave(w)
    BY <2>1, TheClaim DEF Lease!Leave, Faulted
  <2> QED
    BY <2>2 DEF Lease!Next
<1>4. CASE Finish(w)
  <2>1. OnDevice' = OnDevice /\ Faulted' = Faulted
    BY <1>4 DEF Finish, OnDevice, Faulted
  <2>2. CASE UNCHANGED holder
    BY <2>1, <2>2, LeaseStays
  <2>3. CASE ~UNCHANGED holder
    <3>1. holder = w /\ holder' = None /\ ~faulted[w] /\ pc[w] = "store"
      BY <1>4, <2>3 DEF Finish
    <3>2. w \notin OnDevice
      BY <3>1 DEF TurnsAreGranted, InTurn, OnDevice
    <3> QED
      BY <2>1, <3>1, <3>2, LeaseReturns
  <2> QED
    BY <2>2, <2>3
<1>5. CASE Exit(w)
  BY <1>5, LeaseGone DEF Exit
<1>6. ASSUME \/ Register(w) \/ Pop(w) \/ Ask(w) \/ Refused(w)
             \/ Handle(w, "work") \/ Handle(w, "save")
             \/ Sleep(w) \/ SavedInTurn(w) \/ Store(w)
      PROVE  [Lease!Next]_(Lease!vars)
  <2>1. UNCHANGED <<holder, mem, faulted>>
    BY <1>6 DEF Register, Pop, Ask, Refused, Handle, Sleep, SavedInTurn, Store
  <2> QED
    BY <2>1, LeaseStays DEF OnDevice, Faulted
<1> QED
  BY <1>1, <1>2, <1>3, <1>4, <1>5, <1>6 DEF Run

\* The daemon's: a grant brings parked memory back, and the end of a connection
\* frees the grant of who is dead, out of its turn or faulted.
LEMMA LeaseSlice ==
  ASSUME TurnInv, NEW w \in Trainer, Slice(w)
  PROVE  [Lease!Next]_(Lease!vars)
<1> USE DEF TurnInv
<1>1. CASE Grant(w)
  <2>1. holder = None /\ holder' = w /\ Faulted' = Faulted
    BY <1>1 DEF Grant, Faulted
  <2>2. CASE mem' = mem
    BY <2>1, <2>2, LeaseGrants DEF OnDevice
  <2>3. CASE mem' # mem
    <3>1. pc[w] = "waiting" /\ mem' = [mem EXCEPT ![w] = "device"]
      BY <1>1, <2>3 DEF Grant, TurnTypes
    <3>2. ~faulted[w] /\ OnDevice' = OnDevice \cup {w}
      BY <3>1 DEF TurnsAreGranted, TurnTypes, OnDevice
    <3> QED
      BY <2>1, <3>2, LeaseGrants
  <2> QED
    BY <2>2, <2>3
<1>2. CASE SeeClose(w)
  <2>1. OnDevice' = OnDevice /\ Faulted' = Faulted
    BY <1>2 DEF SeeClose, OnDevice, Faulted
  <2>2. CASE holder # w
    BY <1>2, <2>1, <2>2, LeaseStays DEF SeeClose
  <2>3. CASE holder = w /\ faulted[w]
    BY <1>2, <2>1, <2>3, LeaseEnds DEF SeeClose
  <2>4. CASE holder = w /\ ~faulted[w]
    <3>1. w \notin OnDevice
      BY <1>2, <2>4 DEF SeeClose, TurnsAreGranted, InTurn, OnDevice
    <3>2. holder' = None
      BY <1>2, <2>4 DEF SeeClose
    <3> QED
      BY <2>1, <2>4, <3>1, <3>2, LeaseReturns
  <2> QED
    BY <2>2, <2>3, <2>4
<1> QED
  BY <1>1, <1>2 DEF Slice

\* Batches, failures, refusals, kills and exits implement the lease: memory is
\* put on the devices in a turn only, and the claim moves on once it is off
\* them or the trainer was told that it could not be parked.
THEOREM TurnsImplementLease == Spec => LeaseSpec
<1>1. Init => Lease!Init
  BY DEF Init, Lease!Init, OnDevice
<1>2. TurnInv /\ [Next]_vars => [Lease!Next]_(Lease!vars)
  <2> SUFFICES ASSUME TurnInv, [Next]_vars PROVE [Lease!Next]_(Lease!vars)
    OBVIOUS
  <2>1. ASSUME NEW w \in Trainer, Run(w) \/ Slice(w) PROVE [Lease!Next]_(Lease!vars)
    BY <2>1, LeaseRun, LeaseSlice
  <2>2. ASSUME NEW w \in Trainer, Kill(w) PROVE [Lease!Next]_(Lease!vars)
    BY <2>2, LeaseGone DEF Kill
  <2>3. ASSUME NEW w \in Trainer, Put(w) \/ PopBroken(w) \/ StoreError(w)
        PROVE  [Lease!Next]_(Lease!vars)
    <3>1. UNCHANGED <<holder, mem, faulted>>
      BY <2>3 DEF Put, PopBroken, StoreError
    <3> QED
      BY <3>1, LeaseStays DEF OnDevice, Faulted
  <2>4. CASE UNCHANGED vars
    <3>1. UNCHANGED <<holder, mem, faulted>>
      BY <2>4 DEF vars
    <3> QED
      BY <3>1, LeaseStays DEF OnDevice, Faulted
  <2> QED
    BY <2>1, <2>2, <2>3, <2>4 DEF Next
<1> QED
  BY <1>1, <1>2, TurnInvariant, PTL DEF Spec, LeaseSpec, Lease!Spec

===============================================================================
