-------------------------- MODULE NodePlacementProofs -------------------------
(***************************************************************************)
(* For any workers, nodes and strategy, and whatever fails: a pass knows   *)
(* the claim that it is about to use, which is what TypeOK needs to be     *)
(* inductive; and the joiners of a node fit on it together, since what     *)
(* counts there grows only by a seat that is about to be verified against  *)
(* all of it.                                                              *)
(***************************************************************************)
EXTENDS NodePlacement, SequenceLemmas

\* Where a pass has a claim of its own, and where it has one to join.
Homed == {"wedged", "move", "leave", "keep", "record", "pod"}
Aiming == {"book", "verify", "yield", "move", "leave"}

PassHasClaim ==
  \A w \in Worker :
    /\ at[w] \in Homed => scope[w].home \in Claim
    /\ at[w] \in Aiming => scope[w].target \in Claim

PlaceInv == TypeOK /\ PassHasClaim

\* The initial state is as it should be.
LEMMA InitPlaces == Init => PlaceInv
  BY PlacementAssumption
  DEF Init, PlaceInv, TypeOK, PassHasClaim, Claim, Place, Scope, NoScope, Homed,
      Aiming

\* What may be joined is a claim.
LEMMA JoinsClaims == \A w \in Worker : SelectClaim(w) \subseteq Claim
  BY DEF SelectClaim, Eligible

\* The pass of w goes on to a place that it has the claims for.
Advances(w) ==
  \E pc \in Place, s \in Scope :
    /\ Step(w, pc, s)
    /\ pc \in Homed => s.home \in Claim
    /\ pc \in Aiming => s.target \in Claim

\* Such a step keeps all passes in order.
LEMMA StepKeeps ==
  ASSUME PlaceInv, NEW w \in Worker, Advances(w)
  PROVE  /\ at' \in [Worker -> Place]
         /\ scope' \in [Worker -> Scope]
         /\ PassHasClaim'
<1>1. PICK pc \in Place, s \in Scope :
        /\ at' = [at EXCEPT ![w] = pc]
        /\ scope' = [scope EXCEPT ![w] = s]
        /\ pc \in Homed => s.home \in Claim
        /\ pc \in Aiming => s.target \in Claim
  BY DEF Advances, Step
<1>2. at \in [Worker -> Place] /\ scope \in [Worker -> Scope]
  BY DEF PlaceInv, TypeOK
<1>3. at' \in [Worker -> Place] /\ scope' \in [Worker -> Scope]
  BY <1>1, <1>2
<1>4. PassHasClaim'
  <2> SUFFICES ASSUME NEW v \in Worker
               PROVE  /\ at'[v] \in Homed => scope'[v].home \in Claim
                      /\ at'[v] \in Aiming => scope'[v].target \in Claim
    BY DEF PassHasClaim
  <2>1. CASE v = w
    BY <1>1, <1>2, <2>1
  <2>2. CASE v # w
    BY <1>1, <1>2, <2>2 DEF PlaceInv, PassHasClaim
  <2>3. QED BY <2>1, <2>2
<1>5. QED BY <1>3, <1>4

\* A pass may end anywhere.
LEMMA EndAdvances ==
  ASSUME NEW w \in Worker, EndPass(w)
  PROVE  Advances(w)
  BY DEF EndPass, Advances, Place, Scope, NoScope, Homed, Aiming

\* So may one that has joined nothing: it has a claim, or is to cut one.
LEMMA NotJoinedAdvances ==
  ASSUME PlaceInv, NEW w \in Worker, NotJoined(w)
  PROVE  Advances(w)
<1> DEFINE pc == IF scope[w].home = None THEN "cut" ELSE "keep"
           s == [scope[w] EXCEPT !.target = None]
<1>1. pc \in Place /\ s \in Scope
  <2>1. scope[w] \in Scope
    BY DEF PlaceInv, TypeOK
  <2>2. s \in Scope
    BY <2>1 DEF Scope
  <2>3. QED BY <2>2 DEF Place
<1>2. /\ pc \in Homed => s.home \in Claim
      /\ pc \notin Aiming
  <2>1. s.home = scope[w].home /\ scope[w].home \in Claim \cup {None}
    BY DEF PlaceInv, TypeOK, Scope
  <2> HIDE DEF s
  <2>2. QED BY <2>1 DEF Homed, Aiming
<1>3. Step(w, pc, s)
  BY DEF NotJoined
<1>4. QED BY <1>1, <1>2, <1>3 DEF Advances

\* Giving seats up keeps seats and claims well formed.
LEMMA ReleaseKeeps ==
  ASSUME PlaceInv, NEW w \in Worker,
         \E claims \in SUBSET Claim : Release(w, claims)
  PROVE  /\ seats' \in [Claim -> SUBSET Worker]
         /\ claim' \in [Claim -> {"none", "there", "dying"}]
  BY DEF PlaceInv, TypeOK, Release

\* Deleting a pod keeps the pods well formed.
LEMMA DeleteKeeps ==
  ASSUME PlaceInv, NEW w \in Worker, DeletePod(w)
  PROVE  pod' \in [Worker -> Pod \cup {None}]
  BY DEF PlaceInv, TypeOK, DeletePod, Pod

\* Begin reads, tidies up and decides.
LEMMA BeginPlaces ==
  ASSUME PlaceInv, NEW w \in Worker, Begin(w)
  PROVE  PlaceInv'
<1> DEFINE p == pod[w]
           named == IF p = None THEN assigned[w] ELSE p.claim
           lost == named # None /\ claim[named] # "there"
           home == IF lost THEN None ELSE named
           label == IF p = None THEN None ELSE p.claim
<1>1. named \in Claim \cup {None} /\ label \in Claim \cup {None}
  BY DEF PlaceInv, TypeOK, Pod
<1>2. home \in Claim \cup {None}
  BY <1>1
<1>3. \E claims \in SUBSET Claim : Release(w, claims)
  <2>1. named # None => named \in Claim
    BY <1>1
  <2>2. QED BY <2>1 DEF Begin
<1>4. Advances(w)
  <2>1. \/ /\ home # None
           /\ Step(w, "wedged",
                   [home |-> home, target |-> None, label |-> label])
        \/ \E k \in Claim \cup {None} : Joining(w, home, label, k)
    BY JoinsClaims DEF Begin, Wedged
  <2> HIDE DEF home, label
  <2>2. CASE /\ home # None
             /\ Step(w, "wedged",
                     [home |-> home, target |-> None, label |-> label])
    BY <1>1, <1>2, <2>2 DEF Advances, Place, Scope, Homed, Aiming
  <2>3. CASE \E k \in Claim \cup {None} : Joining(w, home, label, k)
    BY <1>1, <1>2, <2>3 DEF Joining, Advances, Place, Scope, Homed, Aiming
  <2>4. QED BY <2>1, <2>2, <2>3
<1>5. UNCHANGED <<cr, assigned, on, pod, cluster, landed>>
  BY DEF Begin
<1>6. QED
  BY <1>3, <1>4, <1>5, StepKeeps, ReleaseKeeps DEF PlaceInv, TypeOK, cluster

\* Giving up a wedged claim.
LEMMA WedgedPlaces ==
  ASSUME PlaceInv, NEW w \in Worker, AbandonWedged(w)
  PROVE  PlaceInv'
<1>1. \E claims \in SUBSET Claim : Release(w, claims)
  BY DEF AbandonWedged, PlaceInv, PassHasClaim, Homed
<1>2. Advances(w) /\ DeletePod(w)
  BY EndAdvances DEF AbandonWedged
<1>3. QED
  BY <1>1, <1>2, StepKeeps, ReleaseKeeps, DeleteKeeps
  DEF AbandonWedged, PlaceInv, TypeOK, cluster

\* Booking, looking again and giving back.
LEMMA JoinPlaces ==
  ASSUME PlaceInv, NEW w \in Worker, Book(w) \/ Verify(w) \/ Yield(w)
  PROVE  PlaceInv'
<1> DEFINE k == scope[w].target
           home == scope[w].home
<1>1. k \in Claim /\ scope[w] \in Scope
  BY DEF Book, Verify, Yield, PlaceInv, TypeOK, PassHasClaim, Aiming
<1>2. CASE Book(w)
  <2>1. Advances(w)
    <3>1. CASE NotJoined(w)
      BY <3>1, NotJoinedAdvances
    <3>2. CASE Step(w, "verify", scope[w])
      BY <1>1, <3>2 DEF Advances, Place, Homed, Aiming
    <3>3. QED BY <1>2, <3>1, <3>2 DEF Book
  <2>2. seats' \in [Claim -> SUBSET Worker]
    BY <1>1, <1>2 DEF Book, TakeSeat, PlaceInv, TypeOK
  <2>3. QED
    BY <1>2, <2>1, <2>2, StepKeeps DEF Book, PlaceInv, TypeOK, cluster
<1>3. CASE Verify(w)
  <2>1. Advances(w)
    <3>1. [scope[w] EXCEPT !.home = k, !.target = None] \in Scope
      BY <1>1 DEF Scope
    <3>2. home = None \/ home \in Claim
      BY <1>1 DEF Scope
    <3>3. \/ Step(w, "yield", scope[w])
          \/ home # None /\ Step(w, "move", scope[w])
          \/ Step(w, "record",
                  [scope[w] EXCEPT !.home = k, !.target = None])
      BY <1>3 DEF Verify
    <3>4. CASE Step(w, "yield", scope[w])
      BY <1>1, <3>4 DEF Advances, Place, Homed, Aiming
    <3>5. CASE home # None /\ Step(w, "move", scope[w])
      BY <1>1, <3>2, <3>5 DEF Advances, Place, Homed, Aiming
    <3>6. CASE Step(w, "record",
                    [scope[w] EXCEPT !.home = k, !.target = None])
      <4>1. [scope[w] EXCEPT !.home = k, !.target = None].home = k
        BY <1>1 DEF Scope
      <4>2. QED
        BY <1>1, <3>1, <3>6, <4>1 DEF Advances, Place, Homed, Aiming
    <3>7. QED BY <3>3, <3>4, <3>5, <3>6
  <2>2. landed' \in SUBSET Node
    BY <1>3 DEF Verify, PlaceInv, TypeOK
  <2>3. QED
    BY <1>3, <2>1, <2>2, StepKeeps
    DEF Verify, PlaceInv, TypeOK, objects, cluster
<1>4. CASE Yield(w)
  <2>1. \E claims \in SUBSET Claim : Release(w, claims)
    BY <1>1, <1>4 DEF Yield
  <2>2. Advances(w)
    BY <1>4, NotJoinedAdvances DEF Yield
  <2>3. QED
    BY <1>4, <2>1, <2>2, StepKeeps, ReleaseKeeps
    DEF Yield, PlaceInv, TypeOK, cluster
<1>5. QED BY <1>2, <1>3, <1>4

\* The move to a shared claim.
LEMMA MovePlaces ==
  ASSUME PlaceInv, NEW w \in Worker, Move(w) \/ Leave(w)
  PROVE  PlaceInv'
<1> DEFINE k == scope[w].target
           home == scope[w].home
<1>1. k \in Claim /\ home \in Claim /\ scope[w] \in Scope
  BY DEF Move, Leave, PlaceInv, TypeOK, PassHasClaim, Homed, Aiming
<1>2. CASE Move(w)
  <2>1. Advances(w)
    BY <1>1, <1>2 DEF Move, Advances, Place, Homed, Aiming
  <2>2. assigned' \in [Worker -> Claim \cup {None}]
    BY <1>1, <1>2 DEF Move, PlaceInv, TypeOK
  <2>3. QED
    BY <1>2, <2>1, <2>2, StepKeeps DEF Move, PlaceInv, TypeOK, cluster
<1>3. CASE Leave(w)
  <2>1. \E claims \in SUBSET Claim : Release(w, claims)
    BY <1>1, <1>3 DEF Leave
  <2>2. Advances(w)
    <3> DEFINE s == [scope[w] EXCEPT !.home = k, !.target = None]
    <3>1. s \in Scope /\ s.home = k
      BY <1>1 DEF Scope
    <3>2. Step(w, "keep", s)
      BY <1>3 DEF Leave
    <3> HIDE DEF s
    <3>3. QED BY <1>1, <3>1, <3>2 DEF Advances, Place, Homed, Aiming
  <2>3. QED
    BY <1>3, <2>1, <2>2, StepKeeps, ReleaseKeeps
    DEF Leave, PlaceInv, TypeOK, cluster
<1>4. QED BY <1>2, <1>3

\* Keeping or cutting a claim, and recording it.
LEMMA ClaimPlaces ==
  ASSUME PlaceInv, NEW w \in Worker, Keep(w) \/ Cut(w) \/ Record(w)
  PROVE  PlaceInv'
<1>1. scope[w] \in Scope /\ w \in Claim
  BY DEF PlaceInv, TypeOK, Claim
<1>2. CASE Keep(w)
  <2>1. scope[w].home \in Claim
    BY <1>2 DEF Keep, PlaceInv, PassHasClaim, Homed
  <2>2. Advances(w)
    <3>1. CASE EndPass(w)
      BY <3>1, EndAdvances
    <3>2. CASE Step(w, "pod", scope[w])
      BY <1>1, <2>1, <3>2 DEF Advances, Place, Homed, Aiming
    <3>3. QED BY <1>2, <3>1, <3>2 DEF Keep
  <2>3. /\ seats' \in [Claim -> SUBSET Worker]
        /\ assigned' \in [Worker -> Claim \cup {None}]
        /\ landed' \in SUBSET Node
    BY <1>2, <2>1 DEF Keep, TakeSeat, Lands, PlaceInv, TypeOK
  <2>4. QED
    BY <1>2, <2>2, <2>3, StepKeeps DEF Keep, PlaceInv, TypeOK, cluster
<1>3. CASE Cut(w)
  <2>1. Advances(w)
    <3> DEFINE s == [scope[w] EXCEPT !.home = w]
    <3>1. s \in Scope /\ s.home = w
      BY <1>1 DEF Scope
    <3>2. EndPass(w) \/ Step(w, "record", s)
      BY <1>3 DEF Cut
    <3> HIDE DEF s
    <3>3. CASE Step(w, "record", s)
      BY <1>1, <3>1, <3>3 DEF Advances, Place, Homed, Aiming
    <3>4. QED BY <3>2, <3>3, EndAdvances
  <2>2. /\ seats' \in [Claim -> SUBSET Worker]
        /\ claim' \in [Claim -> {"none", "there", "dying"}]
        /\ landed' \in SUBSET Node
    BY <1>1, <1>3 DEF Cut, TakeSeat, Lands, PlaceInv, TypeOK
  <2>3. QED
    BY <1>3, <2>1, <2>2, StepKeeps DEF Cut, PlaceInv, TypeOK, cluster
<1>4. CASE Record(w)
  <2>1. scope[w].home \in Claim
    BY <1>4 DEF Record, PlaceInv, PassHasClaim, Homed
  <2>2. Advances(w)
    BY <1>1, <1>4, <2>1 DEF Record, Advances, Place, Homed, Aiming
  <2>3. assigned' \in [Worker -> Claim \cup {None}]
    BY <1>4, <2>1 DEF Record, PlaceInv, TypeOK
  <2>4. QED
    BY <1>4, <2>2, <2>3, StepKeeps DEF Record, PlaceInv, TypeOK, cluster
<1>5. QED BY <1>2, <1>3, <1>4

\* The pod, the end of a worker and of a pass.
LEMMA PodPlaces ==
  ASSUME PlaceInv, NEW w \in Worker, SyncPod(w) \/ Teardown(w) \/ Abort(w)
  PROVE  PlaceInv'
<1>1. CASE SyncPod(w)
  <2>1. scope[w].home \in Claim
    BY <1>1 DEF SyncPod, PlaceInv, PassHasClaim, Homed
  <2>2. pod' \in [Worker -> Pod \cup {None}]
    <3>1. CASE pod' = [pod EXCEPT ![w] =
                         [claim |-> scope[w].home, state |-> "waiting"]]
      BY <2>1, <3>1 DEF PlaceInv, TypeOK, Pod
    <3>2. CASE DeletePod(w)
      BY <3>2, DeleteKeeps
    <3>3. CASE UNCHANGED pod
      BY <3>3 DEF PlaceInv, TypeOK
    <3>4. QED BY <1>1, <3>1, <3>2, <3>3 DEF SyncPod
  <2>3. Advances(w)
    BY <1>1, EndAdvances DEF SyncPod
  <2>4. QED
    BY <1>1, <2>2, <2>3, StepKeeps
    DEF SyncPod, PlaceInv, TypeOK, objects, cluster
<1>2. CASE Teardown(w)
  <2>1. PassHasClaim'
    BY <1>2 DEF Teardown, PlaceInv, PassHasClaim
  <2>2. CASE pod[w] # None
    <3>1. DeletePod(w) /\ UNCHANGED <<cr, assigned, seats, claim>>
      BY <1>2, <2>2 DEF Teardown
    <3>2. QED
      BY <1>2, <2>1, <3>1, DeleteKeeps
      DEF Teardown, PlaceInv, TypeOK, cluster
  <2>3. CASE pod[w] = None
    <3>1. /\ \E claims \in SUBSET Claim : Release(w, claims)
          /\ cr' = [cr EXCEPT ![w] = "gone"]
          /\ assigned' = [assigned EXCEPT ![w] = None]
          /\ UNCHANGED pod
      BY <1>2, <2>3 DEF Teardown
    <3>2. QED
      BY <1>2, <2>1, <3>1, ReleaseKeeps
      DEF Teardown, PlaceInv, TypeOK, cluster
  <2>4. QED BY <2>2, <2>3
<1>3. CASE Abort(w)
  <2>1. Advances(w)
    BY <1>3, EndAdvances DEF Abort
  <2>2. landed' \in SUBSET Node
    BY <1>3 DEF Abort, Lands, PlaceInv, TypeOK, PassHasClaim, Aiming
  <2>3. churn' \in 0 .. MaxChurn
    BY <1>3, PlacementAssumption DEF Abort, Disturb, PlaceInv, TypeOK
  <2>4. QED
    BY <1>3, <2>1, <2>2, <2>3, StepKeeps
    DEF Abort, PlaceInv, TypeOK, objects
<1>4. QED BY <1>1, <1>2, <1>3

\* kube-scheduler, the kubelet and DRA.
LEMMA SchedulerPlaces ==
  ASSUME PlaceInv, NEW w \in Worker, Scheduler(w) \/ ClaimFreed(w)
  PROVE  PlaceInv'
<1>1. CASE Bind(w)
  <2>1. pod[w] \in Pod
    BY <1>1 DEF Bind, CanBind, Pending, PlaceInv, TypeOK
  <2>2. PICK n \in Takers(w, pod[w].claim) :
          /\ on' = [on EXCEPT ![pod[w].claim] = n]
          /\ Lands(IF on[pod[w].claim] = None THEN {n} ELSE {})
    BY <1>1 DEF Bind
  <2>3. n \in Node
    BY <2>2 DEF Takers
  <2>4. on' \in [Claim -> Node \cup {None}] /\ landed' \in SUBSET Node
    BY <2>1, <2>2, <2>3 DEF Lands, Pod, PlaceInv, TypeOK
  <2>5. pod' \in [Worker -> Pod \cup {None}]
    <3>1. [pod[w] EXCEPT !.state = "bound"] \in Pod
      BY <2>1 DEF Pod
    <3>2. QED BY <1>1, <3>1 DEF Bind, PlaceInv, TypeOK
  <2>6. QED
    BY <1>1, <2>4, <2>5
    DEF Bind, PlaceInv, TypeOK, PassHasClaim, cluster
<1>2. CASE Refuse(w)
  <2>1. pod[w] \in Pod
    BY <1>2 DEF Refuse, Pending, PlaceInv, TypeOK
  <2>2. pod' \in [Worker -> Pod \cup {None}]
    <3>1. \A x \in {"refused", "wedged"} :
            [pod[w] EXCEPT !.state = x] \in Pod
      BY <2>1 DEF Pod
    <3>2. QED BY <1>2, <2>1, <3>1 DEF Refuse, PlaceInv, TypeOK
  <2>3. QED
    BY <1>2, <2>2
    DEF Refuse, PlaceInv, TypeOK, PassHasClaim, objects, cluster
<1>3. CASE PodStopped(w)
  BY <1>3 DEF PodStopped, PlaceInv, TypeOK, PassHasClaim, objects, cluster
<1>4. CASE ClaimFreed(w)
  BY <1>4 DEF ClaimFreed, PlaceInv, TypeOK, PassHasClaim, Claim, cluster
<1>5. QED BY <1>1, <1>2, <1>3, <1>4 DEF Scheduler

\* What comes from outside.
LEMMA ChurnPlaces ==
  ASSUME PlaceInv, Churn
  PROVE  PlaceInv'
<1>1. ASSUME NEW w \in Worker, Evict(w)
      PROVE  PlaceInv'
  <2>1. pod' \in [Worker -> Pod \cup {None}]
    BY <1>1, DeleteKeeps DEF Evict
  <2>2. churn' \in 0 .. MaxChurn
    BY <1>1, PlacementAssumption DEF Evict, Disturb, PlaceInv, TypeOK
  <2>3. QED
    BY <1>1, <2>1, <2>2 DEF Evict, PlaceInv, TypeOK, PassHasClaim, objects
<1>2. ASSUME NEW w \in Worker, Withdraw(w)
      PROVE  PlaceInv'
  <2>1. churn' \in 0 .. MaxChurn
    BY <1>2, PlacementAssumption DEF Withdraw, Disturb, PlaceInv, TypeOK
  <2>2. QED
    BY <1>2, <2>1 DEF Withdraw, PlaceInv, TypeOK, PassHasClaim
<1>3. ASSUME NEW n \in Node, ForeignBind(n)
      PROVE  PlaceInv'
  <2>1. churn' \in 0 .. MaxChurn
    BY <1>3, PlacementAssumption DEF ForeignBind, Disturb, PlaceInv, TypeOK
  <2>2. foreign' \in [Node -> Nat] /\ landed' \in SUBSET Node
    BY <1>3 DEF ForeignBind, Lands, PlaceInv, TypeOK
  <2>3. QED
    BY <1>3, <2>1, <2>2
    DEF ForeignBind, PlaceInv, TypeOK, PassHasClaim, objects
<1>4. ASSUME NEW n \in Node, ForeignGone(n)
      PROVE  PlaceInv'
  BY <1>4 DEF ForeignGone, PlaceInv, TypeOK, PassHasClaim, objects
<1>5. ASSUME NEW n \in Node, Close(n) \/ Open(n)
      PROVE  PlaceInv'
  <2>1. churn' \in 0 .. MaxChurn
    BY <1>5, PlacementAssumption DEF Close, Open, Disturb, PlaceInv, TypeOK
  <2>2. closed' \in SUBSET Node
    BY <1>5 DEF Close, Open, PlaceInv, TypeOK
  <2>3. QED
    BY <1>5, <2>1, <2>2 DEF Close, Open, PlaceInv, TypeOK, PassHasClaim, objects
<1>6. QED
  <2>1. CASE \E w \in Worker : Evict(w) \/ Withdraw(w)
    BY <2>1, <1>1, <1>2
  <2>2. CASE \E w \in Worker : Abort(w)
    BY <2>2, PodPlaces
  <2>3. CASE \E n \in Node :
               ForeignBind(n) \/ ForeignGone(n) \/ Close(n) \/ Open(n)
    BY <2>3, <1>3, <1>4, <1>5
  <2>4. QED BY <2>1, <2>2, <2>3 DEF Churn

\* Every step, and none.
LEMMA NextPlaces ==
  ASSUME PlaceInv, [Next]_vars
  PROVE  PlaceInv'
<1>1. ASSUME NEW w \in Worker, Pass(w)
      PROVE  PlaceInv'
  BY <1>1, BeginPlaces, WedgedPlaces, JoinPlaces, MovePlaces, ClaimPlaces,
     PodPlaces DEF Pass
<1>2. CASE Next
  BY <1>1, <1>2, SchedulerPlaces, ChurnPlaces DEF Next
<1>3. CASE UNCHANGED vars
  BY <1>3 DEF vars, objects, cluster, PlaceInv, TypeOK, PassHasClaim
<1>4. QED BY <1>2, <1>3

\* A pass always has the claim that it is about to use, whatever has failed,
\* been evicted or deleted before (place's scope.claimName).
THEOREM PassesHaveClaims == Spec => []PlaceInv
<1>1. Init => PlaceInv
  BY InitPlaces
<1>2. PlaceInv /\ [Next]_vars => PlaceInv'
  BY NextPlaces
<1>3. QED BY <1>1, <1>2, PTL DEF Spec

\* Type correctness: in particular no pod is made for no claim.
THEOREM PlacementWellFormed == Spec => []TypeOK
<1>1. PlaceInv => TypeOK
  BY DEF PlaceInv
<1>2. QED BY <1>1, PassesHaveClaims, PTL
-------------------------------------------------------------------------------
(***************************************************************************)
(* Sums over sets.                                                         *)
(***************************************************************************)
\* SumFunctionOnSet adds up a set's values element by element, down to the
\* empty set.
Chosen(s) == CHOOSE x \in s : TRUE
AddsUp(f, D, g) ==
  g = [s \in D |-> IF s = {} THEN 0 ELSE f[Chosen(s)] + g[s \ {Chosen(s)}]]
Adder(f, S) == CHOOSE g : AddsUp(f, SUBSET S, g)

LEMMA SumIsAdder ==
  ASSUME NEW f, NEW S
  PROVE  SumFunctionOnSet(f, S) = Adder(f, S)[S]
  BY Zenon
  DEF SumFunctionOnSet, FoldFunctionOnSet, MapThenFoldSet, Adder, AddsUp, Chosen

\* What is chosen from a nonempty set is one of its elements.
LEMMA ChosenIsElement == ASSUME NEW s, s # {} PROVE Chosen(s) \in s
  BY DEF Chosen

\* There is a function that adds up the subsets of a finite set: first those
\* of no element, and from those of k elements on those of k + 1.
LEMMA AdderExists ==
  ASSUME NEW f, NEW S, IsFiniteSet(S)
  PROVE  AddsUp(f, SUBSET S, Adder(f, S))
<1> DEFINE D(k) == {s \in SUBSET S : Cardinality(s) <= k}
           N == Cardinality(S)
           Bad == {k \in 1..N : ~\E g : AddsUp(f, D(k), g)}
<1>1. /\ N \in Nat
      /\ \A s \in SUBSET S : /\ IsFiniteSet(s)
                             /\ Cardinality(s) \in Nat
                             /\ Cardinality(s) <= N
                             /\ Cardinality(s) = 0 <=> s = {}
                             /\ \A x \in s : Cardinality(s \ {x}) = Cardinality(s) - 1
  <2>1. \A s \in SUBSET S : IsFiniteSet(s) /\ Cardinality(s) <= N
    BY FS_Subset
  <2> QED BY <2>1, FS_CardinalityType, FS_EmptySet, FS_RemoveElement
<1>2. AddsUp(f, D(0), [s \in D(0) |-> 0])
  <2>1. D(0) = {{}}
    BY <1>1
  <2> HIDE DEF D
  <2> QED BY <2>1 DEF AddsUp
<1>3. ASSUME NEW k \in Nat, NEW g, AddsUp(f, D(k), g)
      PROVE  \E h : AddsUp(f, D(k + 1), h)
  <2> DEFINE h == [s \in D(k + 1) |-> IF s \in D(k) THEN g[s]
                                      ELSE f[Chosen(s)] + g[s \ {Chosen(s)}]]
  <2>1. ASSUME NEW s \in D(k + 1), s # {}
        PROVE  s \ {Chosen(s)} \in D(k) /\ s \ {Chosen(s)} \in D(k + 1)
    <3>1. Chosen(s) \in s
      BY <2>1, ChosenIsElement
    <3> QED BY <1>1, <2>1, <3>1
  <2>2. {} \in D(k) /\ D(k) \subseteq D(k + 1)
    BY <1>1
  <2>3. g = [s \in D(k) |-> IF s = {} THEN 0 ELSE f[Chosen(s)] + g[s \ {Chosen(s)}]]
    BY <1>3 DEF AddsUp
  <2> HIDE DEF D
  <2>4. ASSUME NEW s \in D(k + 1)
        PROVE  h[s] = IF s = {} THEN 0 ELSE f[Chosen(s)] + h[s \ {Chosen(s)}]
    <3>1. CASE s = {}
      BY <2>2, <2>3, <3>1
    <3>2. CASE s # {}
      <4>1. h[s \ {Chosen(s)}] = g[s \ {Chosen(s)}]
        BY <2>1, <3>2
      <4>2. h[s] = f[Chosen(s)] + g[s \ {Chosen(s)}]
        BY <2>3, <3>2
      <4> QED BY <3>2, <4>1, <4>2
    <3> QED BY <3>1, <3>2
  <2>5. AddsUp(f, D(k + 1), h)
    BY <2>4, Zenon DEF AddsUp
  <2> QED BY <2>5
<1>4. Bad = {}
  <2> SUFFICES ASSUME Bad # {} PROVE FALSE
    OBVIOUS
  <2> DEFINE m == Min(Bad)
  <2>1. m \in Bad /\ \A i \in Bad : m <= i
    <3>1. Bad \in SUBSET (1..N)
      OBVIOUS
    <3> HIDE DEF Bad
    <3> QED BY <1>1, <3>1, LeastIndex
  <2> HIDE DEF m
  <2>2. m \in 1..N /\ m - 1 \in Nat /\ m - 1 \notin Bad
    <3>1. m \in 1..N
      BY <2>1
    <3> HIDE DEF Bad
    <3>2. m \in Nat /\ m >= 1 /\ m - 1 \in Nat /\ ~(m <= m - 1)
      BY <1>1, <3>1
    <3> QED BY <2>1, <3>1, <3>2
  <2>3. \E g : AddsUp(f, D(m - 1), g)
    <3>1. CASE m = 1
      <4>1. m - 1 = 0
        BY <3>1
      <4> HIDE DEF D
      <4> QED BY <1>2, <4>1
    <3>2. CASE m # 1
      <4>1. m - 1 \in 1..N
        BY <1>1, <2>2, <3>2
      <4> QED BY <2>2, <4>1
    <3> QED BY <3>1, <3>2
  <2>4. (m - 1) + 1 = m
    BY <2>2
  <2>5. \E g : AddsUp(f, D(m), g)
    <3> HIDE DEF D
    <3> QED BY <1>3, <2>2, <2>3, <2>4
  <2> QED BY <2>1, <2>5
<1>5. \E g : AddsUp(f, D(N), g)
  <2>1. CASE N = 0
    BY <1>2, <2>1
  <2>2. CASE N # 0
    <3>1. N \in 1..N
      BY <1>1, <2>2
    <3> QED BY <1>4, <3>1
  <2> QED BY <2>1, <2>2
<1>6. D(N) = SUBSET S
  BY <1>1
<1>7. \E g : AddsUp(f, SUBSET S, g)
  <2> HIDE DEF D
  <2> QED BY <1>5, <1>6
<1> QED BY <1>7 DEF Adder

\* The adder of a finite set is the adder of each subset.
LEMMA AdderOfSubset ==
  ASSUME NEW f, NEW S, IsFiniteSet(S), NEW T \in SUBSET S
  PROVE  SumFunctionOnSet(f, T) = Adder(f, S)[T]
<1> DEFINE g == Adder(f, S)
           h == Adder(f, T)
           Bad == {s \in SUBSET T : h[s] # g[s]}
           R == StrictSubsetOrdering(T)
<1>1. IsFiniteSet(T)
  BY FS_Subset
<1>2. /\ g = [s \in SUBSET S |-> IF s = {} THEN 0
                                           ELSE f[Chosen(s)] + g[s \ {Chosen(s)}]]
      /\ h = [s \in SUBSET T |-> IF s = {} THEN 0
                                           ELSE f[Chosen(s)] + h[s \ {Chosen(s)}]]
  <2>1. AddsUp(f, SUBSET S, g) /\ AddsUp(f, SUBSET T, h)
    BY <1>1, AdderExists
  <2> HIDE DEF g, h
  <2> QED BY <2>1 DEF AddsUp
<1> HIDE DEF g, h
<1>3. Bad = {}
  <2> SUFFICES ASSUME Bad # {} PROVE FALSE
    OBVIOUS
  <2>1. Bad \subseteq FiniteSubsetsOf(T)
    BY <1>1, FS_Subset DEF FiniteSubsetsOf
  <2>2. PICK s \in Bad : \A t \in Bad : <<t, s>> \notin R
    <3> HIDE DEF Bad, R
    <3>1. IsWellFoundedOn(R, FiniteSubsetsOf(T))
      BY FS_StrictSubsetOrderingWellFounded DEF R
    <3> QED BY <2>1, <3>1, WFMin
  <2>3. s # {}
    BY <1>2
  <2> DEFINE t == s \ {Chosen(s)}
  <2>4. Chosen(s) \in s
    BY <2>3, ChosenIsElement
  <2>5. t \in SUBSET T /\ t # s /\ t \subseteq s /\ s \in SUBSET S /\ s \in SUBSET T
    BY <2>4
  <2>6. <<t, s>> \in R
    BY <2>5 DEF StrictSubsetOrdering
  <2>7. h[t] = g[t]
    BY <2>2, <2>5, <2>6
  <2> HIDE DEF t
  <2>8. h[s] = f[Chosen(s)] + h[t] /\ g[s] = f[Chosen(s)] + g[t]
    BY <1>2, <2>3, <2>5 DEF t
  <2> QED BY <2>7, <2>8
<1>4. h[T] = g[T]
  BY <1>3
<1> QED BY <1>4, SumIsAdder DEF h, g

\* A sum over a finite set is its chosen element's value and the rest's sum.
LEMMA SumOfChosen ==
  ASSUME NEW f, NEW S, IsFiniteSet(S)
  PROVE  /\ SumFunctionOnSet(f, {}) = 0
         /\ S # {} => SumFunctionOnSet(f, S) =
                        f[Chosen(S)] + SumFunctionOnSet(f, S \ {Chosen(S)})
<1> DEFINE g == Adder(f, S)
<1>1. g = [s \in SUBSET S |-> IF s = {} THEN 0
                                        ELSE f[Chosen(s)] + g[s \ {Chosen(s)}]]
  <2>1. AddsUp(f, SUBSET S, g)
    BY AdderExists
  <2> HIDE DEF g
  <2> QED BY <2>1 DEF AddsUp
<1>2. \A T \in SUBSET S : SumFunctionOnSet(f, T) = g[T]
  BY AdderOfSubset
<1> HIDE DEF g
<1>3. {} \in SUBSET S /\ S \in SUBSET S /\ S \ {Chosen(S)} \in SUBSET S
  OBVIOUS
<1> QED BY <1>1, <1>2, <1>3

\* Among some subsets of a finite set one is smallest: it has none of them
\* left when an element goes.
LEMMA SmallestSubset ==
  ASSUME NEW S, IsFiniteSet(S), NEW B \in SUBSET (SUBSET S), B # {}
  PROVE  \E s \in B : \A x \in s : s \ {x} \notin B
<1> DEFINE R == StrictSubsetOrdering(S)
<1>1. B \subseteq FiniteSubsetsOf(S)
  BY FS_Subset DEF FiniteSubsetsOf
<1>2. PICK s \in B : \A t \in B : <<t, s>> \notin R
  <2> HIDE DEF R
  <2>1. IsWellFoundedOn(R, FiniteSubsetsOf(S))
    BY FS_StrictSubsetOrderingWellFounded DEF R
  <2> QED BY <1>1, <2>1, WFMin
<1>3. ASSUME NEW x \in s PROVE <<s \ {x}, s>> \in R
  BY DEF StrictSubsetOrdering
<1> QED BY <1>2, <1>3

\* A sum of natural numbers is one.
LEMMA SumIsNat ==
  ASSUME NEW S, IsFiniteSet(S), NEW f, \A x \in S : f[x] \in Nat
  PROVE  SumFunctionOnSet(f, S) \in Nat
<1> DEFINE F(s) == SumFunctionOnSet(f, s)
           B == {s \in SUBSET S : F(s) \notin Nat}
<1>1. /\ F({}) = 0
      /\ \A s \in SUBSET S :
           s # {} => F(s) = f[Chosen(s)] + F(s \ {Chosen(s)})
  BY FS_Subset, FS_EmptySet, SumOfChosen
<1> HIDE DEF F
<1>2. B = {}
  <2> SUFFICES ASSUME B # {} PROVE FALSE
    OBVIOUS
  <2>1. PICK s \in B : \A x \in s : s \ {x} \notin B
    <3> HIDE DEF B
    <3>1. B \in SUBSET (SUBSET S)
      BY DEF B
    <3> QED BY <3>1, SmallestSubset
  <2>2. s # {}
    BY <1>1
  <2>3. Chosen(s) \in s
    BY <2>2, ChosenIsElement
  <2>4. F(s \ {Chosen(s)}) \in Nat /\ f[Chosen(s)] \in Nat
    BY <2>1, <2>3
  <2> QED BY <1>1, <2>2, <2>4
<1> QED BY <1>2 DEF F

\* Any element's value may be taken out of a sum.
LEMMA SumWithout ==
  ASSUME NEW S, IsFiniteSet(S), NEW f, \A x \in S : f[x] \in Nat, NEW y \in S
  PROVE  SumFunctionOnSet(f, S) = f[y] + SumFunctionOnSet(f, S \ {y})
<1> DEFINE F(s) == SumFunctionOnSet(f, s)
           B == {s \in SUBSET S : \E x \in s : F(s) # f[x] + F(s \ {x})}
<1>1. \A s \in SUBSET S : /\ s # {} => F(s) = f[Chosen(s)] + F(s \ {Chosen(s)})
                          /\ F(s) \in Nat
  BY FS_Subset, SumOfChosen, SumIsNat
<1> HIDE DEF F
<1>2. B = {}
  <2> SUFFICES ASSUME B # {} PROVE FALSE
    OBVIOUS
  <2>1. PICK s \in B : \A x \in s : s \ {x} \notin B
    <3> HIDE DEF B
    <3>1. B \in SUBSET (SUBSET S)
      BY DEF B
    <3> QED BY <3>1, SmallestSubset
  <2>2. PICK x \in s : F(s) # f[x] + F(s \ {x})
    OBVIOUS
  <2> DEFINE c == Chosen(s)
  <2>3. c \in s /\ F(s) = f[c] + F(s \ {c}) /\ c # x
    BY <1>1, <2>2, ChosenIsElement
  <2> HIDE DEF c
  <2>4. x \in s \ {c} /\ c \in s \ {x} /\ (s \ {c}) \ {x} = (s \ {x}) \ {c}
    BY <2>2, <2>3
  <2>5. F(s \ {c}) = f[x] + F((s \ {x}) \ {c})
    <3>1. F(s \ {c}) = f[x] + F((s \ {c}) \ {x})
      BY <2>1, <2>3, <2>4
    <3> QED BY <3>1, <2>4, Zenon
  <2>6. F(s \ {x}) = f[c] + F((s \ {x}) \ {c})
    BY <2>1, <2>4
  <2>7. f[x] \in Nat /\ f[c] \in Nat /\ F((s \ {x}) \ {c}) \in Nat
    BY <1>1, <2>3
  <2>8. F(s) = f[x] + F(s \ {x})
    BY <2>3, <2>5, <2>6, <2>7
  <2> QED BY <2>2, <2>8
<1> QED BY <1>2 DEF F

\* Sums of natural numbers over finite sets grow with the set and the values.
LEMMA SumsGrow ==
  ASSUME NEW S, IsFiniteSet(S), NEW g, \A x \in S : g[x] \in Nat,
         NEW T \in SUBSET S, NEW f, \A x \in T : f[x] \in Nat /\ f[x] <= g[x]
  PROVE  /\ SumFunctionOnSet(f, T) \in Nat
         /\ SumFunctionOnSet(g, S) \in Nat
         /\ SumFunctionOnSet(f, T) <= SumFunctionOnSet(g, S)
<1> DEFINE F(t) == SumFunctionOnSet(f, t)
           G(s) == SumFunctionOnSet(g, s)
           B == {s \in SUBSET S : ~(F(s \cap T) <= G(s))}
<1>1. \A s \in SUBSET S :
        /\ G(s) \in Nat
        /\ \A x \in s : G(s) = g[x] + G(s \ {x})
  BY FS_Subset, SumIsNat, SumWithout
<1>2. \A t \in SUBSET T :
        /\ F(t) \in Nat
        /\ \A x \in t : F(t) = f[x] + F(t \ {x})
  BY FS_Subset, SumIsNat, SumWithout
<1>3. F({}) = 0 /\ G({}) = 0
  BY FS_EmptySet, SumOfChosen
<1> HIDE DEF F, G
<1>4. B = {}
  <2> SUFFICES ASSUME B # {} PROVE FALSE
    OBVIOUS
  <2>1. PICK s \in B : \A x \in s : s \ {x} \notin B
    <3> HIDE DEF B
    <3>1. B \in SUBSET (SUBSET S)
      BY DEF B
    <3> QED BY <3>1, SmallestSubset
  <2>2. s # {}
    <3>1. {} \cap T = {}
      OBVIOUS
    <3> QED BY <1>3, <3>1
  <2>3. PICK x \in s : TRUE
    BY <2>2
  <2>4. F((s \ {x}) \cap T) <= G(s \ {x})
    BY <2>1, <2>3
  <2>5. G(s) = g[x] + G(s \ {x}) /\ G(s \ {x}) \in Nat /\ g[x] \in Nat
    BY <1>1, <2>3
  <2>6. F((s \ {x}) \cap T) \in Nat
    BY <1>2
  <2>7. CASE x \in T
    <3>1. (s \cap T) \ {x} = (s \ {x}) \cap T /\ x \in s \cap T
      BY <2>3, <2>7
    <3>2. F(s \cap T) = f[x] + F((s \ {x}) \cap T)
      BY <1>2, <3>1
    <3>3. f[x] \in Nat /\ f[x] <= g[x]
      BY <2>7
    <3> QED BY <2>4, <2>5, <2>6, <3>2, <3>3
  <2>8. CASE x \notin T
    <3>1. s \cap T = (s \ {x}) \cap T
      BY <2>8
    <3> QED BY <2>4, <2>5, <2>6, <3>1
  <2> QED BY <2>7, <2>8
<1>5. S \cap T = T /\ F(S \cap T) <= G(S)
  BY <1>4
<1> QED BY <1>1, <1>2, <1>5 DEF F, G
-------------------------------------------------------------------------------
(***************************************************************************)
(* The memory on a node.                                                   *)
(***************************************************************************)
\* The seats of claims that count, sooner: a worker's seat on a claim that its
\* status or its pod names, or that its pass has, or moves to, counts unless
\* the pass is to verify it.
Counts(v, k) ==
  /\ \/ assigned[v] = k
     \/ pod[v] # None /\ pod[v].claim = k
     \/ scope[v].home = k
     \/ at[v] \in {"move", "leave"} /\ scope[v].target = k
  /\ ~(at[v] \in {"verify", "yield"} /\ scope[v].target = k)

Counted(k) == {v \in seats[k] : Counts(v, k)}
CountedBytes == [k \in Claim |-> HostBytes[Counted(k)]]

\* What counts fits.
Fits(n) ==
  foreign[n] + SumFunctionOnSet(CountedBytes, ClaimsOn(n)) <= Pool[n].host

CountedFit ==
  \A n \in Node : n \notin landed /\ Pool[n].host > 0 => Fits(n)

\* The claim that a pass is to join is not the one of its pod.
PodElsewhere ==
  \A w \in Worker :
    at[w] \in Aiming /\ pod[w] # None => pod[w].claim # scope[w].target

MemoryInv == PlaceInv /\ PodElsewhere /\ CountedFit

\* The memory of some workers is a number, and more workers have more.
LEMMA HostBytesGrow ==
  ASSUME NEW B \in SUBSET Worker, NEW A \in SUBSET B
  PROVE  /\ HostBytes[A] \in Nat
         /\ HostBytes[B] \in Nat
         /\ HostBytes[A] <= HostBytes[B]
<1>1. \A w \in Worker : Hosts[w] \in Nat /\ Hosts[w] <= Hosts[w]
  BY PlacementAssumption DEF Hosts
<1>2. IsFiniteSet(B)
  BY PlacementAssumption, FS_Subset
<1>3. /\ SumFunctionOnSet(Hosts, A) \in Nat
      /\ SumFunctionOnSet(Hosts, B) \in Nat
      /\ SumFunctionOnSet(Hosts, A) <= SumFunctionOnSet(Hosts, B)
  BY <1>1, <1>2, SumsGrow
<1>4. QED BY <1>3 DEF HostBytes

\* On node n memory is only given back by this step: what counts after it has
\* counted before.
Shrinks(n) ==
  /\ foreign'[n] <= foreign[n]
  /\ \A k \in Claim :
       claim'[k] = "there" /\ on'[k] = n =>
         /\ claim[k] = "there" /\ on[k] = n
         /\ Counted(k)' \subseteq Counted(k)

\* After such a step it still fits.
LEMMA ShrinkFits ==
  ASSUME PlaceInv, PlaceInv', NEW n \in Node, Fits(n), Shrinks(n)
  PROVE  Fits(n)'
<1> DEFINE S == ClaimsOn(n)
           T == ClaimsOn(n)'
           g == CountedBytes
           f == CountedBytes'
<1>1. S \in SUBSET Claim /\ T \in SUBSET S
  BY DEF ClaimsOn, Shrinks
<1>2. \A k \in T : Counted(k) \in SUBSET Worker /\ Counted(k)' \in SUBSET Counted(k)
  BY DEF ClaimsOn, Shrinks, Counted, PlaceInv, TypeOK
<1>3. \A k \in S : Counted(k) \in SUBSET Worker
  BY DEF ClaimsOn, Counted, PlaceInv, TypeOK
<1>4. /\ \A k \in Claim : g[k] = HostBytes[Counted(k)]
      /\ \A k \in Claim : f[k] = HostBytes[Counted(k)']
  BY DEF CountedBytes
<1>5. /\ \A k \in S : g[k] \in Nat
      /\ \A k \in T : f[k] \in Nat /\ f[k] <= g[k]
  BY <1>1, <1>2, <1>3, <1>4, HostBytesGrow
<1>6. IsFiniteSet(S)
  BY <1>1, PlacementAssumption, FS_Subset DEF Claim
<1>7. /\ SumFunctionOnSet(f, T) \in Nat
      /\ SumFunctionOnSet(g, S) \in Nat
      /\ SumFunctionOnSet(f, T) <= SumFunctionOnSet(g, S)
  BY <1>1, <1>5, <1>6, SumsGrow
<1>8. foreign[n] \in Nat /\ foreign'[n] \in Nat /\ foreign'[n] <= foreign[n]
  BY DEF PlaceInv, TypeOK, Shrinks
<1>9. foreign[n] + SumFunctionOnSet(g, S) <= Pool[n].host /\ Pool[n].host \in Nat
  BY PlacementAssumption DEF Fits
<1>10. foreign'[n] + SumFunctionOnSet(f, T) <= Pool[n].host
  BY <1>7, <1>8, <1>9
<1>11. QED BY <1>10 DEF Fits

\* What counts is booked: if all that is booked fits, so does what counts.
LEMMA BookedFits ==
  ASSUME PlaceInv, NEW n \in Node, NodeHostBytes(n) <= Pool[n].host
  PROVE  Fits(n)
<1> DEFINE S == ClaimsOn(n)
           g == [k \in Claim |-> HostBytes[seats[k]]]
           f == CountedBytes
<1>1. S \in SUBSET Claim /\ IsFiniteSet(S)
  BY PlacementAssumption, FS_Subset DEF ClaimsOn, Claim
<1>2. \A k \in S : seats[k] \in SUBSET Worker /\ Counted(k) \in SUBSET seats[k]
  BY <1>1 DEF Counted, PlaceInv, TypeOK
<1>3. \A k \in S : g[k] = HostBytes[seats[k]] /\ f[k] = HostBytes[Counted(k)]
  BY <1>1 DEF CountedBytes
<1>4. \A k \in S : g[k] \in Nat /\ f[k] \in Nat /\ f[k] <= g[k]
  BY <1>2, <1>3, HostBytesGrow
<1>5. NodeHostBytes(n) = foreign[n] + SumFunctionOnSet(g, S)
  BY DEF NodeHostBytes
<1> HIDE DEF f, g
<1>6. /\ SumFunctionOnSet(f, S) \in Nat
      /\ SumFunctionOnSet(g, S) \in Nat
      /\ SumFunctionOnSet(f, S) <= SumFunctionOnSet(g, S)
  BY <1>1, <1>4, SumsGrow
<1>7. foreign[n] \in Nat /\ Pool[n].host \in Nat
  BY PlacementAssumption DEF PlaceInv, TypeOK
<1>8. QED BY <1>5, <1>6, <1>7 DEF Fits, f

\* The step is w's alone.
Only(w) ==
  \A v \in Worker \ {w} :
    /\ pod'[v] = pod[v] /\ assigned'[v] = assigned[v]
    /\ at'[v] = at[v] /\ scope'[v] = scope[v]

\* If it is, only w's own seats matter, on the claims that stay on the node.
OwnShrinks(w, n) ==
  \A k \in Claim :
    claim'[k] = "there" /\ on'[k] = n =>
      /\ claim[k] = "there" /\ on[k] = n
      /\ seats'[k] \ {w} \subseteq seats[k]
      /\ w \in seats'[k] /\ Counts(w, k)' => w \in seats[k] /\ Counts(w, k)

LEMMA OnlyShrinks ==
  ASSUME PlaceInv, PlaceInv', NEW w \in Worker, Only(w), NEW n \in Node,
         foreign'[n] <= foreign[n], OwnShrinks(w, n)
  PROVE  Shrinks(n)
<1> SUFFICES ASSUME NEW k \in Claim, claim'[k] = "there", on'[k] = n,
                    NEW v \in seats'[k], Counts(v, k)'
             PROVE  v \in seats[k] /\ Counts(v, k)
  BY DEF Shrinks, Counted, OwnShrinks
<1>1. v \in Worker
  BY DEF PlaceInv, TypeOK
<1>2. CASE v = w
  BY <1>2 DEF OwnShrinks
<1>3. CASE v # w
  BY <1>1, <1>3 DEF OwnShrinks, Only, Counts
<1>4. QED BY <1>2, <1>3

\* A step of w's alone leaves the other passes' aims elsewhere.
LEMMA OnlyAims ==
  ASSUME PodElsewhere, NEW w \in Worker, Only(w),
         at'[w] \in Aiming /\ pod'[w] # None =>
           pod'[w].claim # scope'[w].target
  PROVE  PodElsewhere'
<1> SUFFICES ASSUME NEW v \in Worker, at'[v] \in Aiming, pod'[v] # None
             PROVE  pod'[v].claim # scope'[v].target
  BY DEF PodElsewhere
<1>1. CASE v = w
  BY <1>1
<1>2. CASE v # w
  BY <1>2 DEF Only, PodElsewhere
<1>3. QED BY <1>1, <1>2

\* What a step of w's pass does to its place and scope.
LEMMA StepValues ==
  ASSUME PlaceInv, NEW w \in Worker, NEW pc, NEW s, Step(w, pc, s)
  PROVE  /\ at'[w] = pc
         /\ scope'[w] = s
         /\ \A v \in Worker \ {w} : at'[v] = at[v] /\ scope'[v] = scope[v]
  BY DEF Step, PlaceInv, TypeOK

\* Giving up a seat takes it from the claims given up, and from no other.
LEMMA ReleaseValues ==
  ASSUME PlaceInv, NEW w \in Worker, NEW claims, Release(w, claims)
  PROVE  /\ \A k \in Claim : /\ seats'[k] \subseteq seats[k]
                             /\ claim'[k] = "there" => claim[k] = "there"
         /\ \A k \in Claim \cap claims : w \notin seats'[k]
  BY DEF Release, PlaceInv, TypeOK

\* A deleted pod is gone or still names its claim; the others stay.
LEMMA DeleteValues ==
  ASSUME PlaceInv, NEW w \in Worker, DeletePod(w)
  PROVE  /\ pod'[w] # None => pod[w] # None /\ pod'[w].claim = pod[w].claim
         /\ \A v \in Worker \ {w} : pod'[v] = pod[v]
<1>1. pod[w] = None \/ pod[w] \in Pod
  BY DEF PlaceInv, TypeOK
<1>2. pod[w] \in Pod =>
        [pod[w] EXCEPT !.state = "stopping"].claim = pod[w].claim
  BY DEF Pod
<1>3. \/ pod' = [pod EXCEPT ![w] = None]
      \/ /\ pod[w] # None
         /\ pod' = [pod EXCEPT ![w] = [pod[w] EXCEPT !.state = "stopping"]]
  BY DEF DeletePod, PlaceInv, TypeOK
<1>4. pod \in [Worker -> Pod \cup {None}]
  BY DEF PlaceInv, TypeOK
<1>5. QED BY <1>1, <1>2, <1>3, <1>4

\* A step of w's alone keeps the memory in order if it only gives memory back,
\* but where memory lands.
LEMMA OwnKeeps ==
  ASSUME MemoryInv, PlaceInv', NEW w \in Worker, Only(w),
         at'[w] \in Aiming /\ pod'[w] # None =>
           pod'[w].claim # scope'[w].target,
         UNCHANGED foreign,
         \A n \in Node : n \notin landed' => n \notin landed /\ OwnShrinks(w, n)
  PROVE  MemoryInv'
<1>1. PodElsewhere'
  BY OnlyAims DEF MemoryInv
<1>2. ASSUME NEW n \in Node, n \notin landed', Pool[n].host > 0
      PROVE  Fits(n)'
  <2>1. foreign'[n] <= foreign[n]
    BY DEF MemoryInv, PlaceInv, TypeOK
  <2>2. n \notin landed /\ OwnShrinks(w, n)
    BY <1>2
  <2>3. Shrinks(n) /\ Fits(n)
    BY <1>2, <2>1, <2>2, OnlyShrinks DEF MemoryInv, CountedFit
  <2>4. QED BY <2>3, ShrinkFits DEF MemoryInv
<1>3. QED BY <1>1, <1>2 DEF MemoryInv, CountedFit

\* Begin gives seats up and has no claim that its status or pod did not name.
LEMMA BeginFits ==
  ASSUME MemoryInv, PlaceInv', NEW w \in Worker, Begin(w)
  PROVE  MemoryInv'
<1> DEFINE p == pod[w]
           named == IF p = None THEN assigned[w] ELSE p.claim
           lost == named # None /\ claim[named] # "there"
           home == IF lost THEN None ELSE named
           label == IF p = None THEN None ELSE p.claim
<1>0. PlaceInv /\ None \notin Claim
  BY PlacementAssumption DEF MemoryInv, Claim
<1>1. \/ Step(w, "wedged", [home |-> home, target |-> None, label |-> label])
      \/ \E k \in (SelectClaim(w) \ {home}) \cup {None} :
           Joining(w, home, label, k)
  BY DEF Begin
<1>2. /\ \A v \in Worker \ {w} : at'[v] = at[v] /\ scope'[v] = scope[v]
      /\ at'[w] \notin {"verify", "yield", "move", "leave"}
      /\ scope'[w].home = home
      /\ \/ at'[w] \notin Aiming
         \/ scope'[w].target \in SelectClaim(w) \ {home}
  <2> HIDE DEF home, label
  <2>1. CASE Step(w, "wedged",
                  [home |-> home, target |-> None, label |-> label])
    BY <1>0, <2>1, StepValues DEF Aiming
  <2>2. CASE \E k \in (SelectClaim(w) \ {home}) \cup {None} :
               Joining(w, home, label, k)
    <3>1. PICK k \in (SelectClaim(w) \ {home}) \cup {None} :
            Step(w, IF k # None THEN "book"
                    ELSE IF home = None THEN "cut" ELSE "keep",
                 [home |-> home, target |-> k, label |-> label])
      BY <2>2 DEF Joining
    <3>2. /\ at'[w] = IF k # None THEN "book"
                      ELSE IF home = None THEN "cut" ELSE "keep"
          /\ scope'[w] = [home |-> home, target |-> k, label |-> label]
          /\ \A v \in Worker \ {w} : at'[v] = at[v] /\ scope'[v] = scope[v]
      BY <1>0, <3>1, StepValues
    <3>3. QED BY <3>2 DEF Aiming
  <2>3. QED BY <1>1, <2>1, <2>2
<1>3. /\ \A k \in Claim : /\ seats'[k] \subseteq seats[k]
                          /\ claim'[k] = "there" => claim[k] = "there"
      /\ UNCHANGED <<assigned, on, pod, foreign, landed>>
  <2>1. \E claims : Release(w, claims)
    BY DEF Begin
  <2>2. QED BY <1>0, <2>1, ReleaseValues DEF Begin, cluster
<1>4. Only(w)
  BY <1>2, <1>3 DEF Only
<1>5. at'[w] \in Aiming /\ pod'[w] # None => pod'[w].claim # scope'[w].target
  <2> SUFFICES ASSUME at'[w] \in Aiming, pod[w] # None
               PROVE  pod[w].claim # scope'[w].target
    BY <1>3
  <2>1. claim[scope'[w].target] = "there" /\ scope'[w].target # home
    BY <1>2 DEF SelectClaim, Eligible
  <2>2. QED BY <2>1
<1>6. \A k \in Claim : Counts(w, k)' => Counts(w, k)
  <2>1. at[w] = "idle"
    BY DEF Begin
  <2>2. QED BY <1>0, <1>2, <1>3, <2>1 DEF Counts
<1>7. \A n \in Node : n \notin landed' => n \notin landed /\ OwnShrinks(w, n)
  BY <1>3, <1>6 DEF OwnShrinks
<1>8. QED BY <1>3, <1>4, <1>5, <1>7, OwnKeeps

\* Giving up a wedged claim, and giving back the seat that was to be shared.
LEMMA GiveUpFits ==
  ASSUME MemoryInv, PlaceInv', NEW w \in Worker, AbandonWedged(w) \/ Yield(w)
  PROVE  MemoryInv'
<1>0. PlaceInv /\ None \notin Claim /\ scope[w] \in Scope
  BY PlacementAssumption DEF MemoryInv, PlaceInv, TypeOK, Claim
<1>1. CASE AbandonWedged(w)
  <2>1. /\ at'[w] = "idle" /\ scope'[w] = NoScope
        /\ \A v \in Worker \ {w} : at'[v] = at[v] /\ scope'[v] = scope[v]
    BY <1>0, <1>1, StepValues DEF AbandonWedged, EndPass
  <2>2. /\ pod'[w] # None => pod[w] # None /\ pod'[w].claim = pod[w].claim
        /\ \A v \in Worker \ {w} : pod'[v] = pod[v]
    BY <1>0, <1>1, DeleteValues DEF AbandonWedged
  <2>3. \A k \in Claim : /\ seats'[k] \subseteq seats[k]
                         /\ claim'[k] = "there" => claim[k] = "there"
    BY <1>0, <1>1, ReleaseValues DEF AbandonWedged
  <2>4. /\ assigned'[w] = None
        /\ \A v \in Worker \ {w} : assigned'[v] = assigned[v]
        /\ UNCHANGED <<on, foreign, landed>>
    BY <1>0, <1>1 DEF AbandonWedged, cluster, PlaceInv, TypeOK
  <2>5. Only(w)
    BY <2>1, <2>2, <2>4 DEF Only
  <2>6. \A k \in Claim : Counts(w, k)' => Counts(w, k)
    <3>1. at[w] = "wedged"
      BY <1>1 DEF AbandonWedged
    <3>2. QED BY <1>0, <2>1, <2>2, <2>4, <3>1 DEF Counts, NoScope
  <2>7. \A n \in Node : n \notin landed' => n \notin landed /\ OwnShrinks(w, n)
    BY <2>3, <2>4, <2>6 DEF OwnShrinks
  <2>8. QED BY <2>1, <2>4, <2>5, <2>7, OwnKeeps DEF Aiming
<1>2. CASE Yield(w)
  <2> DEFINE k == scope[w].target
             s == [scope[w] EXCEPT !.target = None]
  <2>1. /\ at'[w] \in {"cut", "keep"} /\ scope'[w] = s
        /\ \A v \in Worker \ {w} : at'[v] = at[v] /\ scope'[v] = scope[v]
    <3>1. \E pc \in {"cut", "keep"} : Step(w, pc, s)
      BY <1>2 DEF Yield, NotJoined
    <3> HIDE DEF s
    <3>2. QED BY <1>0, <3>1, StepValues
  <2>2. s.home = scope[w].home
    BY <1>0 DEF Scope
  <2> HIDE DEF s
  <2>3. /\ \A l \in Claim : /\ seats'[l] \subseteq seats[l]
                            /\ claim'[l] = "there" => claim[l] = "there"
        /\ k \in Claim => w \notin seats'[k]
    BY <1>0, <1>2, ReleaseValues DEF Yield
  <2>4. UNCHANGED <<assigned, on, pod, foreign, landed>>
    BY <1>2 DEF Yield, cluster
  <2>5. Only(w)
    BY <2>1, <2>4 DEF Only
  <2>6. \A l \in Claim : w \in seats'[l] /\ Counts(w, l)' => Counts(w, l)
    BY <2>1, <2>2, <2>3, <2>4 DEF Counts
  <2>7. \A n \in Node : n \notin landed' => n \notin landed /\ OwnShrinks(w, n)
    BY <2>3, <2>4, <2>6 DEF OwnShrinks
  <2>8. QED BY <2>1, <2>4, <2>5, <2>7, OwnKeeps DEF Aiming
<1>3. QED BY <1>1, <1>2

\* A new seat does not count until it is verified.
LEMMA BookFits ==
  ASSUME MemoryInv, PlaceInv', NEW w \in Worker, Book(w)
  PROVE  MemoryInv'
<1> DEFINE k == scope[w].target
           s == [scope[w] EXCEPT !.target = None]
<1>0. /\ PlaceInv /\ None \notin Claim /\ scope[w] \in Scope
      /\ at[w] = "book" /\ k \in Claim
      /\ UNCHANGED <<assigned, claim, on, pod, foreign, landed>>
  BY PlacementAssumption
  DEF Book, MemoryInv, PlaceInv, TypeOK, PassHasClaim, Aiming, Claim, cluster
<1>1. CASE TakeSeat(w, k) /\ Step(w, "verify", scope[w])
  <2>1. /\ at'[w] = "verify" /\ scope'[w] = scope[w]
        /\ \A v \in Worker \ {w} : at'[v] = at[v] /\ scope'[v] = scope[v]
    BY <1>0, <1>1, StepValues
  <2>2. \A l \in Claim : /\ seats'[l] \ {w} \subseteq seats[l]
                         /\ l # k => seats'[l] = seats[l]
    BY <1>0, <1>1 DEF TakeSeat, PlaceInv, TypeOK
  <2>3. Only(w)
    BY <1>0, <2>1 DEF Only
  <2>4. at'[w] \in Aiming /\ pod'[w] # None => pod'[w].claim # scope'[w].target
    BY <1>0, <2>1 DEF MemoryInv, PodElsewhere, Aiming
  <2>5. \A l \in Claim : Counts(w, l)' => l # k /\ Counts(w, l)
    BY <1>0, <2>1 DEF Counts
  <2>6. \A n \in Node : n \notin landed' => n \notin landed /\ OwnShrinks(w, n)
    BY <1>0, <2>2, <2>5 DEF OwnShrinks
  <2>7. QED BY <1>0, <2>3, <2>4, <2>6, OwnKeeps
<1>2. CASE NotJoined(w) /\ UNCHANGED seats
  <2>1. /\ at'[w] \in {"cut", "keep"} /\ scope'[w] = s
        /\ \A v \in Worker \ {w} : at'[v] = at[v] /\ scope'[v] = scope[v]
    <3>1. \E pc \in {"cut", "keep"} : Step(w, pc, s)
      BY <1>2 DEF NotJoined
    <3> HIDE DEF s
    <3>2. QED BY <1>0, <3>1, StepValues
  <2>2. s.home = scope[w].home
    BY <1>0 DEF Scope
  <2> HIDE DEF s
  <2>3. Only(w)
    BY <1>0, <2>1 DEF Only
  <2>4. \A l \in Claim : Counts(w, l)' => Counts(w, l)
    BY <1>0, <2>1, <2>2 DEF Counts
  <2>5. \A n \in Node : n \notin landed' => n \notin landed /\ OwnShrinks(w, n)
    BY <1>0, <1>2, <2>4 DEF OwnShrinks
  <2>6. QED BY <1>0, <2>1, <2>3, <2>5, OwnKeeps DEF Aiming
<1>3. QED BY <1>1, <1>2 DEF Book

\* On the node that Verify has looked at everything booked fits; elsewhere
\* nothing more counts.
LEMMA VerifyFits ==
  ASSUME MemoryInv, PlaceInv', NEW w \in Worker, Verify(w)
  PROVE  MemoryInv'
<1> DEFINE k == scope[w].target
           home == scope[w].home
           s == [scope[w] EXCEPT !.home = k, !.target = None]
<1>0. /\ PlaceInv /\ None \notin Claim /\ scope[w] \in Scope
      /\ at[w] = "verify" /\ k \in Claim
      /\ UNCHANGED <<assigned, seats, claim, on, pod, foreign>>
  BY PlacementAssumption
  DEF Verify, MemoryInv, PlaceInv, TypeOK, PassHasClaim, Aiming, Claim, objects,
      cluster
<1>1. s.home = k
  BY <1>0 DEF Scope
<1>2. /\ \/ at'[w] = "yield" /\ scope'[w] = scope[w]
         \/ at'[w] = "move" /\ scope'[w] = scope[w]
         \/ at'[w] = "record" /\ scope'[w] = s
      /\ \A v \in Worker \ {w} : at'[v] = at[v] /\ scope'[v] = scope[v]
  <2> HIDE DEF s
  <2>1. \/ Step(w, "yield", scope[w])
        \/ Step(w, "move", scope[w])
        \/ Step(w, "record", s)
    BY DEF Verify, s
  <2>2. QED BY <1>0, <2>1, StepValues
<1>3. \/ ~Verified(w) /\ at'[w] = "yield" /\ landed' = landed
      \/ Verified(w) /\ landed' = landed \ {on[k]}
  <2> HIDE DEF s
  <2>1. \/ ~Verified(w) /\ Step(w, "yield", scope[w]) /\ landed' = landed
        \/ Verified(w) /\ landed' = landed \ {on[k]}
    BY DEF Verify
  <2>2. QED BY <1>0, <2>1, StepValues
<1>4. Only(w)
  BY <1>0, <1>2 DEF Only
<1>5. PodElsewhere'
  <2>1. at'[w] \in Aiming /\ pod'[w] # None => pod'[w].claim # scope'[w].target
    BY <1>0, <1>2 DEF MemoryInv, PodElsewhere, Aiming
  <2>2. QED BY <1>4, <2>1, OnlyAims DEF MemoryInv
<1> HIDE DEF s
<1>6. \A l \in Claim :
        Counts(w, l)' => Counts(w, l) \/ (l = k /\ at'[w] # "yield")
  <2>1. CASE at'[w] = "yield" /\ scope'[w] = scope[w]
    BY <1>0, <2>1 DEF Counts
  <2>2. CASE at'[w] = "move" /\ scope'[w] = scope[w]
    BY <1>0, <2>2 DEF Counts
  <2>3. CASE at'[w] = "record" /\ scope'[w] = s
    BY <1>0, <1>1, <2>3 DEF Counts
  <2>4. QED BY <1>2, <2>1, <2>2, <2>3
<1>7. ASSUME NEW n \in Node, n \notin landed', Pool[n].host > 0
      PROVE  Fits(n)'
  <2>1. CASE Verified(w) /\ on[k] = n
    <3>1. NodeHostBytes(n) <= Pool[n].host
      BY <1>7, <2>1, PlacementAssumption DEF Verified
    <3>2. NodeHostBytes(n)' = NodeHostBytes(n)
      BY <1>0 DEF NodeHostBytes, ClaimsOn
    <3>3. (NodeHostBytes(n) <= Pool[n].host)'
      BY <3>1, <3>2
    <3>4. QED BY <3>3, BookedFits, PTL
  <2>2. CASE ~(Verified(w) /\ on[k] = n)
    <3>1. OwnShrinks(w, n)
      BY <1>0, <1>3, <1>6, <2>2 DEF OwnShrinks
    <3>2. foreign'[n] <= foreign[n]
      BY <1>0 DEF PlaceInv, TypeOK
    <3>3. n \notin landed
      BY <1>3, <1>7, <2>2
    <3>4. Fits(n)
      BY <1>7, <3>3 DEF MemoryInv, CountedFit
    <3>5. Shrinks(n)
      BY <1>0, <1>4, <3>1, <3>2, OnlyShrinks
    <3>6. QED BY <1>0, <3>4, <3>5, ShrinkFits
  <2>3. QED BY <2>1, <2>2
<1>8. QED BY <1>5, <1>7 DEF MemoryInv, CountedFit

\* A seat that counts already goes on to count when the status, the scope or
\* the pod names its claim as well.
LEMMA MoveFits ==
  ASSUME MemoryInv, PlaceInv', NEW w \in Worker, Move(w) \/ Leave(w)
  PROVE  MemoryInv'
<1> DEFINE k == scope[w].target
           s == [scope[w] EXCEPT !.home = k, !.target = None]
<1>0. /\ PlaceInv /\ None \notin Claim /\ scope[w] \in Scope
      /\ at[w] \in {"move", "leave"} /\ k \in Claim
      /\ UNCHANGED <<on, pod, foreign, landed>>
  BY PlacementAssumption
  DEF Move, Leave, MemoryInv, PlaceInv, TypeOK, PassHasClaim, Aiming, Claim,
      cluster
<1>1. CASE Move(w)
  <2>1. /\ at'[w] = "leave" /\ scope'[w] = scope[w]
        /\ \A v \in Worker \ {w} : at'[v] = at[v] /\ scope'[v] = scope[v]
    BY <1>0, <1>1, StepValues DEF Move
  <2>2. /\ assigned'[w] = k
        /\ \A v \in Worker \ {w} : assigned'[v] = assigned[v]
        /\ UNCHANGED <<seats, claim>>
    BY <1>0, <1>1 DEF Move, PlaceInv, TypeOK
  <2>3. Only(w)
    BY <1>0, <2>1, <2>2 DEF Only
  <2>4. at'[w] \in Aiming /\ pod'[w] # None => pod'[w].claim # scope'[w].target
    BY <1>0, <2>1 DEF MemoryInv, PodElsewhere, Aiming
  <2>5. \A l \in Claim : Counts(w, l)' => Counts(w, l)
    BY <1>0, <2>1, <2>2 DEF Counts
  <2>6. \A n \in Node : n \notin landed' => n \notin landed /\ OwnShrinks(w, n)
    BY <1>0, <2>2, <2>5 DEF OwnShrinks
  <2>7. QED BY <1>0, <2>3, <2>4, <2>6, OwnKeeps
<1>2. CASE Leave(w)
  <2>1. /\ at'[w] = "keep" /\ scope'[w] = s
        /\ \A v \in Worker \ {w} : at'[v] = at[v] /\ scope'[v] = scope[v]
    <3> HIDE DEF s
    <3>1. Step(w, "keep", s)
      BY <1>2 DEF Leave, s
    <3>2. QED BY <1>0, <3>1, StepValues
  <2>2. s.home = k
    BY <1>0 DEF Scope
  <2> HIDE DEF s
  <2>3. \A l \in Claim : /\ seats'[l] \subseteq seats[l]
                         /\ claim'[l] = "there" => claim[l] = "there"
    BY <1>0, <1>2, ReleaseValues DEF Leave
  <2>4. UNCHANGED assigned
    BY <1>2 DEF Leave
  <2>5. Only(w)
    BY <1>0, <2>1, <2>4 DEF Only
  <2>6. \A l \in Claim : Counts(w, l)' => Counts(w, l)
    BY <1>0, <2>1, <2>2, <2>4 DEF Counts
  <2>7. \A n \in Node : n \notin landed' => n \notin landed /\ OwnShrinks(w, n)
    BY <1>0, <2>3, <2>6 DEF OwnShrinks
  <2>8. QED BY <1>0, <2>1, <2>5, <2>7, OwnKeeps DEF Aiming
<1>3. QED BY <1>1, <1>2

\* A seat that is booked without a look at the node lands there.
LEMMA ClaimFits ==
  ASSUME MemoryInv, PlaceInv', NEW w \in Worker,
         Keep(w) \/ Cut(w) \/ Record(w)
  PROVE  MemoryInv'
<1>0. /\ PlaceInv /\ None \notin Claim \cup Node /\ scope[w] \in Scope
      /\ at[w] \in {"keep", "cut", "record"} /\ w \in Claim
      /\ UNCHANGED <<on, pod, foreign>>
  BY PlacementAssumption
  DEF Keep, Cut, Record, MemoryInv, PlaceInv, TypeOK, Claim, cluster
<1>1. ASSUME EndPass(w), UNCHANGED <<assigned, seats, claim, landed>>
      PROVE  MemoryInv'
  <2>1. /\ at'[w] = "idle" /\ scope'[w] = NoScope
        /\ \A v \in Worker \ {w} : at'[v] = at[v] /\ scope'[v] = scope[v]
    BY <1>0, <1>1, StepValues DEF EndPass
  <2>2. Only(w)
    BY <1>0, <1>1, <2>1 DEF Only
  <2>3. \A l \in Claim : Counts(w, l)' => Counts(w, l)
    BY <1>0, <1>1, <2>1 DEF Counts, NoScope
  <2>4. \A n \in Node : n \notin landed' => n \notin landed /\ OwnShrinks(w, n)
    BY <1>0, <1>1, <2>3 DEF OwnShrinks
  <2>5. QED BY <1>0, <2>1, <2>2, <2>4, OwnKeeps DEF Aiming
<1>2. CASE Keep(w) /\ ~EndPass(w)
  <2> DEFINE k == scope[w].home
  <2>1. /\ k \in Claim
        /\ TakeSeat(w, k)
        /\ assigned' = [assigned EXCEPT ![w] = k]
        /\ landed' = landed \cup ((IF w \in seats[k] THEN {} ELSE {on[k]})
                                    \ {None})
        /\ Step(w, "pod", scope[w])
        /\ UNCHANGED claim
    BY <1>2 DEF Keep, Lands, MemoryInv, PlaceInv, PassHasClaim, Homed
  <2>2. /\ at'[w] = "pod" /\ scope'[w] = scope[w]
        /\ \A v \in Worker \ {w} : at'[v] = at[v] /\ scope'[v] = scope[v]
    BY <1>0, <2>1, StepValues
  <2>3. /\ assigned'[w] = k
        /\ \A v \in Worker \ {w} : assigned'[v] = assigned[v]
        /\ \A l \in Claim : /\ seats'[l] \ {w} \subseteq seats[l]
                            /\ l # k => seats'[l] = seats[l]
                            /\ w \in seats[k] => seats'[l] = seats[l]
    BY <1>0, <2>1 DEF TakeSeat, PlaceInv, TypeOK
  <2>4. Only(w)
    BY <1>0, <2>2, <2>3 DEF Only
  <2>5. \A l \in Claim : Counts(w, l)' => Counts(w, l)
    <3>1. at[w] = "keep"
      BY <1>2 DEF Keep
    <3>2. QED BY <1>0, <2>2, <2>3, <3>1 DEF Counts
  <2>6. ASSUME NEW n \in Node, n \notin landed'
        PROVE  n \notin landed /\ OwnShrinks(w, n)
    <3>1. n \notin landed /\ (w \in seats[k] \/ on[k] # n)
      BY <1>0, <2>1, <2>6
    <3>2. QED BY <1>0, <2>1, <2>3, <2>5, <3>1 DEF OwnShrinks
  <2>7. QED BY <1>0, <2>2, <2>4, <2>6, OwnKeeps DEF Aiming
<1>3. CASE Cut(w) /\ ~EndPass(w)
  <2> DEFINE s == [scope[w] EXCEPT !.home = w]
  <2>1. /\ TakeSeat(w, w)
        /\ claim' = [claim EXCEPT ![w] = "there"]
        /\ landed' = landed \cup ({on[w]} \ {None})
        /\ Step(w, "record", s)
        /\ UNCHANGED assigned
    BY <1>3 DEF Cut, Lands
  <2>2. s.home = w
    BY <1>0 DEF Scope
  <2> HIDE DEF s
  <2>3. /\ at'[w] = "record" /\ scope'[w] = s
        /\ \A v \in Worker \ {w} : at'[v] = at[v] /\ scope'[v] = scope[v]
    BY <1>0, <2>1, StepValues
  <2>4. \A l \in Claim \ {w} : seats'[l] = seats[l] /\ claim'[l] = claim[l]
    BY <1>0, <2>1 DEF TakeSeat, PlaceInv, TypeOK
  <2>5. Only(w)
    BY <1>0, <2>1, <2>3 DEF Only
  <2>6. \A l \in Claim \ {w} : Counts(w, l)' => Counts(w, l)
    <3>1. at[w] = "cut"
      BY <1>3 DEF Cut
    <3>2. QED BY <1>0, <2>1, <2>2, <2>3, <3>1 DEF Counts
  <2>7. ASSUME NEW n \in Node, n \notin landed'
        PROVE  n \notin landed /\ OwnShrinks(w, n)
    <3>1. n \notin landed /\ on[w] # n
      BY <1>0, <2>1, <2>7
    <3>2. QED BY <1>0, <2>4, <2>6, <3>1 DEF OwnShrinks
  <2>8. QED BY <1>0, <2>3, <2>5, <2>7, OwnKeeps DEF Aiming
<1>4. CASE Record(w)
  <2> DEFINE k == scope[w].home
  <2>1. /\ at'[w] = "pod" /\ scope'[w] = scope[w]
        /\ \A v \in Worker \ {w} : at'[v] = at[v] /\ scope'[v] = scope[v]
    BY <1>0, <1>4, StepValues DEF Record
  <2>2. /\ assigned'[w] = k
        /\ \A v \in Worker \ {w} : assigned'[v] = assigned[v]
        /\ UNCHANGED <<seats, claim, landed>>
    BY <1>0, <1>4 DEF Record, PlaceInv, TypeOK
  <2>3. Only(w)
    BY <1>0, <2>1, <2>2 DEF Only
  <2>4. \A l \in Claim : Counts(w, l)' => Counts(w, l)
    <3>1. at[w] = "record"
      BY <1>4 DEF Record
    <3>2. QED BY <1>0, <2>1, <2>2, <3>1 DEF Counts
  <2>5. \A n \in Node : n \notin landed' => n \notin landed /\ OwnShrinks(w, n)
    BY <1>0, <2>2, <2>4 DEF OwnShrinks
  <2>6. QED BY <1>0, <2>1, <2>3, <2>5, OwnKeeps DEF Aiming
<1>5. QED
  <2>1. ASSUME Keep(w), EndPass(w) PROVE MemoryInv'
    <3>1. at'[w] = "idle"
      BY <1>0, <2>1, StepValues DEF EndPass
    <3>2. \/ EndPass(w) /\ UNCHANGED <<assigned, seats, landed>>
          \/ Step(w, "pod", scope[w])
      BY <2>1 DEF Keep
    <3>3. ~Step(w, "pod", scope[w])
      BY <1>0, <3>1, StepValues
    <3>4. QED BY <1>1, <2>1, <3>2, <3>3 DEF Keep
  <2>2. ASSUME Cut(w), EndPass(w) PROVE MemoryInv'
    <3> DEFINE s == [scope[w] EXCEPT !.home = w]
    <3>1. at'[w] = "idle"
      BY <1>0, <2>2, StepValues DEF EndPass
    <3>2. \/ EndPass(w) /\ UNCHANGED <<seats, claim, landed>>
          \/ Step(w, "record", s)
      BY <2>2 DEF Cut
    <3> HIDE DEF s
    <3>3. ~Step(w, "record", s)
      BY <1>0, <3>1, StepValues
    <3>4. QED BY <1>1, <2>2, <3>2, <3>3 DEF Cut
  <2>3. QED BY <1>2, <1>3, <1>4, <2>1, <2>2

\* A pod for a claim that the pass has, or none.
LEMMA PodFits ==
  ASSUME MemoryInv, PlaceInv', NEW w \in Worker, SyncPod(w) \/ Teardown(w)
  PROVE  MemoryInv'
<1>0. /\ PlaceInv /\ None \notin Claim
      /\ UNCHANGED <<on, foreign, landed>>
  BY PlacementAssumption
  DEF SyncPod, Teardown, MemoryInv, Claim, objects, cluster
<1>1. CASE SyncPod(w)
  <2> DEFINE home == scope[w].home
  <2>1. /\ at[w] = "pod" /\ at'[w] = "idle" /\ scope'[w] = NoScope
        /\ \A v \in Worker \ {w} : at'[v] = at[v] /\ scope'[v] = scope[v]
        /\ UNCHANGED <<assigned, seats, claim>>
    BY <1>0, <1>1, StepValues DEF SyncPod, EndPass, objects
  <2>2. /\ pod'[w] # None =>
             pod'[w].claim = home \/ (pod[w] # None /\ pod'[w].claim = pod[w].claim)
        /\ \A v \in Worker \ {w} : pod'[v] = pod[v]
    <3>1. CASE pod' = [pod EXCEPT ![w] = [claim |-> home, state |-> "waiting"]]
      BY <1>0, <3>1 DEF PlaceInv, TypeOK
    <3>2. CASE DeletePod(w)
      BY <1>0, <3>2, DeleteValues
    <3>3. CASE UNCHANGED pod
      BY <3>3
    <3>4. QED BY <1>1, <3>1, <3>2, <3>3 DEF SyncPod
  <2>3. Only(w)
    BY <2>1, <2>2 DEF Only
  <2>4. \A l \in Claim : Counts(w, l)' => Counts(w, l)
    BY <1>0, <2>1, <2>2 DEF Counts, NoScope
  <2>5. \A n \in Node : n \notin landed' => n \notin landed /\ OwnShrinks(w, n)
    BY <1>0, <2>1, <2>4 DEF OwnShrinks
  <2>6. QED BY <1>0, <2>1, <2>3, <2>5, OwnKeeps DEF Aiming
<1>2. CASE Teardown(w)
  <2>1. at[w] = "idle" /\ UNCHANGED <<at, scope>>
    BY <1>2 DEF Teardown
  <2>2. /\ pod'[w] # None => pod[w] # None /\ pod'[w].claim = pod[w].claim
        /\ \A v \in Worker \ {w} : pod'[v] = pod[v]
        /\ assigned'[w] \in {assigned[w], None}
        /\ \A v \in Worker \ {w} : assigned'[v] = assigned[v]
        /\ \A k \in Claim : /\ seats'[k] \subseteq seats[k]
                            /\ claim'[k] = "there" => claim[k] = "there"
    <3>1. CASE pod[w] # None
      <4>1. DeletePod(w) /\ UNCHANGED <<assigned, seats, claim>>
        BY <1>2, <3>1 DEF Teardown
      <4>2. QED BY <1>0, <4>1, DeleteValues
    <3>2. CASE pod[w] = None
      <4>1. /\ \E claims : Release(w, claims)
            /\ assigned' = [assigned EXCEPT ![w] = None]
            /\ UNCHANGED pod
        BY <1>2, <3>2 DEF Teardown
      <4>2. /\ assigned'[w] = None
            /\ \A v \in Worker \ {w} : assigned'[v] = assigned[v]
        BY <1>0, <4>1 DEF PlaceInv, TypeOK
      <4>3. QED BY <1>0, <4>1, <4>2, ReleaseValues
    <3>3. QED BY <3>1, <3>2
  <2>3. Only(w)
    BY <2>1, <2>2 DEF Only
  <2>4. \A l \in Claim : Counts(w, l)' => Counts(w, l)
    BY <1>0, <2>1, <2>2 DEF Counts
  <2>5. \A n \in Node : n \notin landed' => n \notin landed /\ OwnShrinks(w, n)
    BY <1>0, <2>2, <2>4 DEF OwnShrinks
  <2>6. QED BY <1>0, <2>1, <2>3, <2>5, OwnKeeps DEF Aiming
<1>3. QED BY <1>1, <1>2

\* A seat that was not verified stays when its pass ends: it does not count,
\* for the pod is on another claim, or lands, for the status names the claim.
LEMMA AbortFits ==
  ASSUME MemoryInv, PlaceInv', NEW w \in Worker, Abort(w)
  PROVE  MemoryInv'
<1> DEFINE k == scope[w].target
<1>0. /\ PlaceInv /\ None \notin Claim \cup Node
      /\ UNCHANGED <<assigned, seats, claim, on, pod, foreign>>
      /\ landed' = landed \cup
           ((IF at[w] \in {"verify", "yield"} /\ assigned[w] = k
             THEN {on[k]} ELSE {}) \ {None})
  BY PlacementAssumption DEF Abort, MemoryInv, Claim, objects, Lands
<1>1. /\ at'[w] = "idle" /\ scope'[w] = NoScope
      /\ \A v \in Worker \ {w} : at'[v] = at[v] /\ scope'[v] = scope[v]
  BY <1>0, StepValues DEF Abort, EndPass
<1>2. Only(w)
  BY <1>0, <1>1 DEF Only
<1>3. at[w] \in {"verify", "yield"} /\ pod[w] # None => pod[w].claim # k
  BY DEF MemoryInv, PodElsewhere, Aiming
<1>4. \A l \in Claim :
        Counts(w, l)' =>
          \/ Counts(w, l)
          \/ at[w] \in {"verify", "yield"} /\ assigned[w] = k /\ l = k
  BY <1>0, <1>1, <1>3 DEF Counts, NoScope
<1>5. ASSUME NEW n \in Node, n \notin landed'
      PROVE  n \notin landed /\ OwnShrinks(w, n)
  <2>1. /\ n \notin landed
        /\ at[w] \in {"verify", "yield"} /\ assigned[w] = k => on[k] # n
    BY <1>0, <1>5
  <2>2. QED BY <1>0, <1>4, <2>1 DEF OwnShrinks
<1>6. QED BY <1>0, <1>1, <1>2, <1>5, OwnKeeps DEF Aiming

\* A pod keeps its claim while the cluster changes its state; a claim gets its
\* devices with an unverified landing, and loses them when it goes.
LEMMA SchedulerFits ==
  ASSUME MemoryInv, PlaceInv', NEW w \in Worker,
         Scheduler(w) \/ Evict(w) \/ ClaimFreed(w)
  PROVE  MemoryInv'
<1>0. /\ PlaceInv /\ None \notin Claim \cup Node
      /\ pod[w] # None => pod[w] \in Pod
      /\ UNCHANGED <<assigned, seats, at, scope, foreign>>
  BY PlacementAssumption
  DEF Scheduler, Bind, Refuse, PodStopped, Evict, ClaimFreed, objects, cluster,
      MemoryInv, PlaceInv, TypeOK, Claim
<1>1. ASSUME pod'[w] # None => pod[w] # None /\ pod'[w].claim = pod[w].claim,
             \A v \in Worker \ {w} : pod'[v] = pod[v],
             \A n \in Node : n \notin landed' =>
               /\ n \notin landed
               /\ \A k \in Claim : claim'[k] = "there" /\ on'[k] = n =>
                                     claim[k] = "there" /\ on[k] = n
      PROVE  MemoryInv'
  <2>1. Only(w)
    BY <1>0, <1>1 DEF Only
  <2>2. \A l \in Claim : Counts(w, l)' => Counts(w, l)
    BY <1>0, <1>1 DEF Counts
  <2>3. at'[w] \in Aiming /\ pod'[w] # None => pod'[w].claim # scope'[w].target
    BY <1>0, <1>1 DEF MemoryInv, PodElsewhere
  <2>4. \A n \in Node : n \notin landed' => n \notin landed /\ OwnShrinks(w, n)
    BY <1>0, <1>1, <2>2 DEF OwnShrinks
  <2>5. QED BY <1>0, <2>1, <2>3, <2>4, OwnKeeps
<1>2. CASE Bind(w)
  <2> DEFINE k == pod[w].claim
  <2>1. pod[w] # None /\ k \in Claim /\ UNCHANGED claim
    BY <1>0, <1>2 DEF Bind, CanBind, Pending, Pod
  <2>2. PICK n \in Takers(w, k) :
          /\ on' = [on EXCEPT ![k] = n]
          /\ landed' = landed \cup ((IF on[k] = None THEN {n} ELSE {})
                                      \ {None})
    BY <1>2 DEF Bind, Lands
  <2>3. n \in Node /\ (on[k] # None => on[k] = n)
    BY <2>2 DEF Takers
  <2>4. /\ pod'[w].claim = pod[w].claim
        /\ \A v \in Worker \ {w} : pod'[v] = pod[v]
    <3>1. [pod[w] EXCEPT !.state = "bound"].claim = pod[w].claim
      BY <1>0, <2>1 DEF Pod
    <3>2. pod' = [pod EXCEPT ![w] = [pod[w] EXCEPT !.state = "bound"]]
      BY <1>2 DEF Bind
    <3>3. QED BY <1>0, <3>1, <3>2 DEF PlaceInv, TypeOK
  <2>5. \A l \in Claim : on'[l] = IF l = k THEN n ELSE on[l]
    BY <1>0, <2>2 DEF PlaceInv, TypeOK
  <2>6. ASSUME NEW m \in Node, m \notin landed'
        PROVE  m \notin landed /\ (m # n \/ on[k] = n)
    BY <1>0, <2>2, <2>3, <2>6
  <2>7. QED BY <1>1, <2>1, <2>3, <2>4, <2>5, <2>6
<1>3. CASE Refuse(w)
  <2>1. pod[w] # None /\ UNCHANGED <<claim, on, landed>>
    BY <1>3 DEF Refuse, Pending, objects
  <2>2. /\ pod'[w].claim = pod[w].claim
        /\ \A v \in Worker \ {w} : pod'[v] = pod[v]
    <3>1. \A x : [pod[w] EXCEPT !.state = x].claim = pod[w].claim
      BY <1>0, <2>1 DEF Pod
    <3>2. \E x : pod' = [pod EXCEPT ![w] = [pod[w] EXCEPT !.state = x]]
      BY <1>3 DEF Refuse
    <3>3. QED BY <1>0, <3>1, <3>2 DEF PlaceInv, TypeOK
  <2>3. QED BY <1>1, <2>1, <2>2
<1>4. CASE PodStopped(w)
  <2>1. pod' = [pod EXCEPT ![w] = None] /\ UNCHANGED <<claim, on, landed>>
    BY <1>4 DEF PodStopped, objects
  <2>2. pod'[w] = None /\ \A v \in Worker \ {w} : pod'[v] = pod[v]
    BY <1>0, <2>1 DEF PlaceInv, TypeOK
  <2>3. QED BY <1>1, <2>1, <2>2
<1>5. CASE Evict(w)
  <2>1. UNCHANGED <<claim, on, landed>>
    BY <1>5 DEF Evict, objects
  <2>2. /\ pod'[w] # None => pod[w] # None /\ pod'[w].claim = pod[w].claim
        /\ \A v \in Worker \ {w} : pod'[v] = pod[v]
    BY <1>0, <1>5, DeleteValues DEF Evict
  <2>3. QED BY <1>1, <2>1, <2>2
<1>6. CASE ClaimFreed(w)
  <2>1. /\ claim' = [claim EXCEPT ![w] = "none"]
        /\ on' = [on EXCEPT ![w] = None]
        /\ UNCHANGED <<pod, landed>>
    BY <1>6 DEF ClaimFreed
  <2>2. /\ claim'[w] = "none"
        /\ \A l \in Claim \ {w} : claim'[l] = claim[l] /\ on'[l] = on[l]
    BY <1>0, <2>1 DEF PlaceInv, TypeOK, Claim
  <2>3. QED BY <1>1, <2>1, <2>2
<1>7. QED BY <1>2, <1>3, <1>4, <1>5, <1>6 DEF Scheduler

\* Pods of others land, or go; nodes close and open; a worker is withdrawn;
\* nothing happens.
LEMMA OutsideFits ==
  ASSUME MemoryInv, PlaceInv',
         \/ \E w \in Worker : Withdraw(w)
         \/ \E m \in Node : ForeignBind(m) \/ ForeignGone(m) \/ Close(m) \/ Open(m)
         \/ UNCHANGED vars
  PROVE  MemoryInv'
<1>0. PlaceInv /\ UNCHANGED <<assigned, seats, claim, on, pod, at, scope>>
  BY DEF MemoryInv, Withdraw, ForeignBind, ForeignGone, Close, Open, vars, objects
<1>1. \A n \in Node :
        n \notin landed' => n \notin landed /\ foreign'[n] <= foreign[n]
  <2>1. foreign \in [Node -> Nat]
    BY <1>0 DEF PlaceInv, TypeOK
  <2>2. CASE \E m \in Node : ForeignBind(m)
    <3>1. PICK m \in Node : /\ foreign' = [foreign EXCEPT ![m] = @ + 1]
                            /\ landed' = landed \cup ({m} \ {None})
      BY <2>2 DEF ForeignBind, Lands
    <3>2. m # None
      BY PlacementAssumption
    <3>3. QED BY <2>1, <3>1, <3>2
  <2>3. CASE \E m \in Node : ForeignGone(m)
    <3>1. PICK m \in Node : /\ foreign' = [foreign EXCEPT ![m] = @ - 1]
                            /\ landed' = landed
      BY <2>3 DEF ForeignGone
    <3>2. QED BY <2>1, <3>1
  <2>4. CASE \/ \E w \in Worker : Withdraw(w)
             \/ \E m \in Node : Close(m) \/ Open(m)
             \/ UNCHANGED vars
    BY <2>1, <2>4 DEF Withdraw, Close, Open, vars, cluster
  <2>5. QED BY <2>2, <2>3, <2>4
<1>2. PodElsewhere'
  BY <1>0 DEF MemoryInv, PodElsewhere
<1>3. ASSUME NEW n \in Node, n \notin landed', Pool[n].host > 0
      PROVE  Fits(n)'
  <2>1. n \notin landed /\ foreign'[n] <= foreign[n] /\ Fits(n)
    BY <1>1, <1>3 DEF MemoryInv, CountedFit
  <2>2. Shrinks(n)
    BY <1>0, <2>1 DEF Shrinks, Counted, Counts
  <2>3. QED BY <1>0, <2>1, <2>2, ShrinkFits
<1>4. QED BY <1>2, <1>3 DEF MemoryInv, CountedFit

\* At first nothing is booked.
LEMMA InitFits == Init => MemoryInv
<1> SUFFICES ASSUME Init PROVE MemoryInv
  OBVIOUS
<1>1. PlaceInv
  BY InitPlaces
<1>2. PodElsewhere
  BY DEF Init, PodElsewhere
<1>3. ASSUME NEW n \in Node
      PROVE  Fits(n)
  <2>1. ClaimsOn(n) = {}
    BY DEF Init, ClaimsOn
  <2>2. SumFunctionOnSet(CountedBytes, {}) = 0
    BY FS_EmptySet, SumOfChosen
  <2>3. foreign[n] = 0 /\ Pool[n].host \in Nat
    BY PlacementAssumption DEF Init
  <2>4. QED BY <2>1, <2>2, <2>3 DEF Fits
<1>4. QED BY <1>1, <1>2, <1>3 DEF MemoryInv, CountedFit

\* Every step, and none.
LEMMA NextFits ==
  ASSUME MemoryInv, [Next]_vars
  PROVE  MemoryInv'
<1>1. PlaceInv'
  BY NextPlaces DEF MemoryInv
<1>2. CASE Next
  <2>1. ASSUME NEW w \in Worker, Pass(w)
        PROVE  MemoryInv'
    BY <1>1, <2>1, BeginFits, GiveUpFits, BookFits, VerifyFits, MoveFits,
       ClaimFits, PodFits DEF Pass
  <2>2. ASSUME NEW w \in Worker,
               Scheduler(w) \/ ClaimFreed(w) \/ Evict(w) \/ Abort(w)
        PROVE  MemoryInv'
    BY <1>1, <2>2, SchedulerFits, AbortFits
  <2>3. QED BY <1>1, <1>2, <2>1, <2>2, OutsideFits DEF Next, Churn
<1>3. CASE UNCHANGED vars
  BY <1>1, <1>3, OutsideFits
<1>4. QED BY <1>2, <1>3

\* Joiners never overcommit a node together, however many there are, in
\* whichever order they book, look again, give back and fail: what is settled
\* on a node fits, unless something came that no joiner has verified since
\* (joinExistingClaim, "at least the second reader sees the union").
THEOREM JoinersFitTogether == Spec => []KeptJoinsFit
<1>1. MemoryInv => KeptJoinsFit
  <2> SUFFICES ASSUME MemoryInv, NEW n \in Node, n \notin landed,
                      Pool[n].host > 0
               PROVE  SettledBytes(n, Worker) <= Pool[n].host
    BY DEF KeptJoinsFit
  <2> DEFINE S == ClaimsOn(n)
             f == [k \in Claim |-> HostBytes[Settled(k) \cap Worker]]
             g == CountedBytes
  <2>1. S \in SUBSET Claim /\ IsFiniteSet(S)
    BY PlacementAssumption, FS_Subset DEF ClaimsOn, Claim
  <2>2. \A k \in S : /\ Counted(k) \in SUBSET Worker
                     /\ Settled(k) \cap Worker \in SUBSET Counted(k)
    BY <2>1 DEF Settled, Counted, Counts, MemoryInv, PlaceInv, TypeOK
  <2>3. \A k \in S : /\ f[k] = HostBytes[Settled(k) \cap Worker]
                     /\ g[k] = HostBytes[Counted(k)]
    BY <2>1 DEF CountedBytes
  <2>4. \A k \in S : g[k] \in Nat /\ f[k] \in Nat /\ f[k] <= g[k]
    BY <2>2, <2>3, HostBytesGrow
  <2>5. SettledBytes(n, Worker) = foreign[n] + SumFunctionOnSet(f, S)
    BY DEF SettledBytes
  <2>6. foreign[n] + SumFunctionOnSet(g, S) <= Pool[n].host
    BY DEF MemoryInv, CountedFit, Fits
  <2> HIDE DEF f, g
  <2>7. /\ SumFunctionOnSet(f, S) \in Nat
        /\ SumFunctionOnSet(g, S) \in Nat
        /\ SumFunctionOnSet(f, S) <= SumFunctionOnSet(g, S)
    BY <2>1, <2>4, SumsGrow
  <2>8. foreign[n] \in Nat /\ Pool[n].host \in Nat
    BY PlacementAssumption DEF MemoryInv, PlaceInv, TypeOK
  <2>9. QED BY <2>5, <2>6, <2>7, <2>8
<1>2. Init => MemoryInv
  BY InitFits
<1>3. MemoryInv /\ [Next]_vars => MemoryInv'
  BY NextFits
<1>4. QED BY <1>1, <1>2, <1>3, PTL DEF Spec

===============================================================================
