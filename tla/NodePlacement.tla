----------------------------- MODULE NodePlacement ----------------------------
(***************************************************************************)
(* Where workers run: the sizes, roles and host memory that placement      *)
(* decides by (src/scheduler/controller/internal/placement), the parts of  *)
(* a reconciler's pass that act on them (workload_controller.go,           *)
(* fleet.go), and kube-scheduler, which decides in the end.                *)
(*                                                                         *)
(* The Workload objects exist from the start and each is placed, moved and *)
(* torn down once.  A booking and a release are one step each here;        *)
(* ClaimLedger has their reads, conflicts and retries.  A claim is named   *)
(* after the worker that cuts it, a ledger after its claim.                *)
(***************************************************************************)
EXTENDS FiniteSetsExt, Functions

CONSTANTS
  Worker,      \* Workload objects
  Node,        \* enabled nodes
  Request,     \* what each worker asks for
  Slices,      \* the ResourceSlices that the driver publishes for each node
  Labels,      \* each node's role labels: "true", "false" or "none"
  Allocatable, \* each node's host memory, 0 if it reports none
  GiB,         \* bytes in a GiB
  Unsteady,    \* bound on where nodes close: those that may
  Spread,      \* the placement strategy is "spread", else "binpack"
  MaxChurn,    \* bound on failures, evictions, deletions and pods of others
  None         \* no claim, no pod

VARIABLES
  cr,        \* whether each Workload is there, being deleted or gone
  assigned,  \* its status.claimName
  seats,     \* the seats of each ClaimLedger; without seats there is none
  claim,     \* each ResourceClaim
  on,        \* the node it was allocated on
  pod,       \* each worker's pod
  at,        \* where the pass of each worker is
  scope,     \* its claim, the claim it would join, the pod it has seen
  foreign,   \* memory that pods of others request on each node
  closed,    \* nodes that refuse pods for a reason the fleet does not count
  churn,     \* how much has come from outside
  landed     \* history: nodes where memory came that no joiner has verified

objects == <<cr, assigned, seats, claim, on>>
cluster == <<foreign, closed, churn>>
vars == <<objects, pod, at, scope, cluster, landed>>

Claim == Worker
Pod == [claim : Claim,
        state : {"waiting", "refused", "wedged", "bound", "stopping"}]
Place == {"idle", "wedged", "book", "verify", "yield", "move", "leave",
          "keep", "cut", "record", "pod"}
Scope == [home : Claim \cup {None},
          target : Claim \cup {None},
          label : Claim \cup {None}]
NoScope == [home |-> None, target |-> None, label |-> None]

\* Every component is well formed.
TypeOK ==
  /\ cr \in [Worker -> {"live", "leaving", "gone"}]
  /\ assigned \in [Worker -> Claim \cup {None}]
  /\ seats \in [Claim -> SUBSET Worker]
  /\ claim \in [Claim -> {"none", "there", "dying"}]
  /\ on \in [Claim -> Node \cup {None}]
  /\ pod \in [Worker -> Pod \cup {None}]
  /\ at \in [Worker -> Place]
  /\ scope \in [Worker -> Scope]
  /\ foreign \in [Node -> Nat]
  /\ closed \in SUBSET Node
  /\ churn \in 0 .. MaxChurn
  /\ landed \in SUBSET Node

Init ==
  /\ cr = [w \in Worker |-> "live"]
  /\ assigned = [w \in Worker |-> None]
  /\ seats = [k \in Claim |-> {}]
  /\ claim = [k \in Claim |-> "none"]
  /\ on = [k \in Claim |-> None]
  /\ pod = [w \in Worker |-> None]
  /\ at = [w \in Worker |-> "idle"]
  /\ scope = [w \in Worker |-> NoScope]
  /\ foreign = [n \in Node |-> 0]
  /\ closed = {}
  /\ churn = 0
  /\ landed = {}

-------------------------------------------------------------------------------
(***************************************************************************)
(* Pools: what a node has, from its slices and labels.                     *)
(***************************************************************************)
Role == {"trainer", "sampler"}

\* The slices of each driver pool's latest generation, if all are there.
LatestComplete(n) ==
  {s \in Slices[n] :
     /\ \A r \in Slices[n] : r.pool = s.pool => r.generation <= s.generation
     /\ s.total = Cardinality({r \in Slices[n] :
          r.pool = s.pool /\ r.generation = s.generation})}

Devices(n) ==
  UNION {{<<s, i>> : i \in DOMAIN s.devices} : s \in LatestComplete(n)}

\* The smallest device counts; without role labels a node takes both roles.
Pool ==
  [n \in Node |->
     [count |-> Cardinality(Devices(n)),
      memory |-> Min({d[1].devices[d[2]] : d \in Devices(n)}),
      host |-> Allocatable[n],
      roles |-> {r \in Role : \/ Labels[n][r] = "true"
                              \/ \A q \in Role : Labels[n][q] = "none"}]]

\* Each node has devices that a complete pool describes.
ASSUME PlacementAssumption ==
  /\ Spread \in BOOLEAN
  /\ GiB \in Nat \ {0}
  /\ MaxChurn \in Nat
  /\ Unsteady \subseteq Node
  /\ IsFiniteSet(Worker)
  /\ \A w \in Worker :
       /\ Request[w].memory \in Nat \ {0}
       /\ Request[w].host \in Nat
       /\ Request[w].shareable \in BOOLEAN
  /\ \A n \in Node :
       /\ Pool[n].memory \in Nat \ {0}
       /\ {Pool[n].count, Pool[n].host} \subseteq Nat
  /\ None \notin Worker \cup Node

-------------------------------------------------------------------------------
(***************************************************************************)
(* Shapes: which devices a claim asks for.                                 *)
(***************************************************************************)
CeilDiv(a, b) == (a + b - 1) \div b
CeilGiB(bytes) == CeilDiv(bytes, GiB)

\* Every runtime drives one device.
Widest == 1

DevicesFor(memory, size) == Max({1, CeilDiv(memory, size)})

Accepts(n, role) == role \in Pool[n].roles

\* How many devices of the node the worker needs, 0 if it cannot run there.
DevicesOn(w, n) ==
  LET count == DevicesFor(Request[w].memory, Pool[n].memory)
  IN  IF count > Min({Widest, Pool[n].count}) THEN 0 ELSE count

\* The device sizes that a role can use.  Sizes that are the same in whole GiB
\* count as one, the smallest.
Catalog(role) ==
  LET pools == {n \in Node : Accepts(n, role) /\ Pool[n].count > 0}
      Alike(n) == {m \in pools :
                     CeilGiB(Pool[m].memory) = CeilGiB(Pool[n].memory)}
  IN  {[memory |-> Min({Pool[m].memory : m \in Alike(n)}),
        most |-> Max({Pool[m].count : m \in Alike(n)})] : n \in pools}

\* The alternatives that each worker's own claim states, from the catalog.
Tiers ==
  [w \in Worker |->
     {[count |-> DevicesFor(Request[w].memory, size.memory),
       floor |-> CeilDiv(Request[w].memory,
                         DevicesFor(Request[w].memory, size.memory)),
       ceiling |-> size.memory] :
        size \in {s \in Catalog(Request[w].role) :
                    DevicesFor(Request[w].memory, s.memory)
                      <= Min({Widest, s.most})}}]

\* The nodes with a device within the bounds that buildClaim gives an
\* alternative.
Suits ==
  [w \in Worker |->
     {n \in Node :
        \E tier \in Tiers[w] :
          /\ tier.floor <= Pool[n].memory
          /\ Pool[n].memory <= CeilGiB(tier.ceiling) * GiB}]

-------------------------------------------------------------------------------
(***************************************************************************)
(* Seats: which claim a worker may share.                                  *)
(***************************************************************************)
Hosts == [w \in Worker |-> Request[w].host]
HostBytes == [S \in SUBSET Worker |-> SumFunctionOnSet(Hosts, S)]

\* The claims of the fleet that were allocated on the node.
ClaimsOn(n) == {k \in Claim : claim[k] = "there" /\ on[k] = n}

\* The host memory that is booked on the node, or taken by others.
NodeHostBytes(n) ==
  foreign[n] + SumFunctionOnSet([k \in Claim |-> HostBytes[seats[k]]],
                                ClaimsOn(n))

Shareable(k) == seats[k] # {} /\ \A v \in seats[k] : Request[v].shareable

\* The claims SelectClaim considers.
Eligible(w) ==
  {k \in Claim :
     /\ Request[w].shareable /\ Shareable(k)
     /\ claim[k] = "there" /\ on[k] # None
     /\ LET n == on[k]
        IN  /\ Accepts(n, Request[w].role)
            /\ DevicesOn(w, n) = 1
            /\ Request[w].memory <= Pool[n].memory
            /\ Pool[n].host > 0 =>
                 NodeHostBytes(n) + Request[w].host <= Pool[n].host}

Owners(k) == Cardinality({Request[v].owner : v \in seats[k]})

\* claimLess, names aside.
Less(k, l) ==
  \/ Owners(k) < Owners(l)
  \/ Owners(k) = Owners(l) /\ Cardinality(seats[k]) < Cardinality(seats[l])

\* The choices that SelectClaim has; the names decide among them.
SelectClaim(w) == {k \in Eligible(w) : \A l \in Eligible(w) : ~Less(l, k)}

\* A worker may sit beside the others of a ledger unless one is exclusive.
Compatible(w, k) ==
  \A v \in seats[k] \ {w} : Request[v].shareable /\ Request[w].shareable

-------------------------------------------------------------------------------
(***************************************************************************)
(* Writes of a pass.                                                       *)
(***************************************************************************)
Step(w, pc, s) ==
  /\ at' = [at EXCEPT ![w] = pc]
  /\ scope' = [scope EXCEPT ![w] = s]

EndPass(w) == Step(w, "idle", NoScope)

TakeSeat(w, k) == seats' = [seats EXCEPT ![k] = @ \cup {w}]

\* The seats of w on the claims are released; without seats a ledger goes, and
\* its claim with it.  An allocated claim is held until no pod uses it.
Release(w, claims) ==
  /\ seats' = [k \in Claim |-> IF k \in claims THEN seats[k] \ {w}
                                               ELSE seats[k]]
  /\ claim' = [k \in Claim |->
                 IF k \in claims /\ seats[k] \subseteq {w}
                 THEN IF on[k] = None THEN "none" ELSE "dying"
                 ELSE claim[k]]

\* A pod that was never bound goes at once, a running one stops first.
DeletePod(w) ==
  pod' = [pod EXCEPT ![w] =
            IF @ = None \/ @.state \notin {"bound", "stopping"} THEN None
            ELSE [@ EXCEPT !.state = "stopping"]]

\* Memory comes to a node without a look at what is booked there.
Lands(nodes) == landed' = landed \cup (nodes \ {None})

\* Something comes from outside, within the bound.
Disturb == churn < MaxChurn /\ churn' = churn + 1

-------------------------------------------------------------------------------
(***************************************************************************)
(* Reconcile and place.                                                    *)
(***************************************************************************)
\* What a pass goes on with: a claim it is to join, if the fleet has one.
Joining(w, home, label, k) ==
  Step(w, IF k # None THEN "book" ELSE IF home = None THEN "cut" ELSE "keep",
       [home |-> home, target |-> k, label |-> label])

\* Mutated: a worker whose own claim is pending waits for it.
JoinsOnlyFresh(home, refused) == home = None /\ ~Spread

\* Whether to look for a claim to share: binpack does first of all, and every
\* worker does whose own claim has no devices and whose pod was refused.
MayJoin(home, refused) ==
  IF home = None THEN ~Spread ELSE on[home] = None /\ refused

\* Mutated: a claim without devices is given up instead.
WedgedPending(home, p) ==
  home # None /\ on[home] = None /\ p # None /\ p.state = "wedged"

\* The node that the worker's claim is allocated on has refused its pod for
\* longer than the grace period.
Wedged(home, p) ==
  home # None /\ on[home] # None /\ p # None /\ p.state = "wedged"

\* The fleet is read, the pod's claim label counts more than the status, seats
\* on other claims and on one that is gone are released.  Then: a wedged claim
\* is given up, a pending one whose pod is refused is left for a shared one,
\* and a worker without a claim packs, unless the strategy is to spread.
Begin(w) ==
  /\ at[w] = "idle"
  /\ cr[w] = "live"
  /\ UNCHANGED <<cr, assigned, on, pod, cluster, landed>>
  /\ LET p == pod[w]
         named == IF p = None THEN assigned[w] ELSE p.claim
         lost == named # None /\ claim[named] # "there"
         home == IF lost THEN None ELSE named
         label == IF p = None THEN None ELSE p.claim
         seated == {k \in Claim : w \in seats[k]}
         stray == IF lost THEN {named} \cup (seated \ {w})
                  ELSE seated \ {IF home = None THEN w ELSE home}
         refused == p # None /\ p.state \in {"refused", "wedged"}
         picks == IF MayJoin(home, refused)
                  THEN SelectClaim(w) \ {home} ELSE {}
     IN  /\ Release(w, stray)
         /\ IF Wedged(home, p)
            THEN Step(w, "wedged",
                      [home |-> home, target |-> None, label |-> label])
            ELSE \E k \in IF picks = {} THEN {None} ELSE picks :
                   Joining(w, home, label, k)

\* abandonWedgedClaim: pod, seat and assignment go.
AbandonWedged(w) ==
  /\ at[w] = "wedged"
  /\ DeletePod(w)
  /\ Release(w, {scope[w].home})
  /\ assigned' = [assigned EXCEPT ![w] = None]
  /\ EndPass(w)
  /\ UNCHANGED <<cr, on, cluster, landed>>

\* Mutated: a pass that has joined nothing goes on as if it had.
GoesOn(w) == Step(w, "record", [scope[w] EXCEPT !.target = None])

\* Without the claim to join, the pass keeps its own or cuts one.
NotJoined(w) ==
  Step(w, IF scope[w].home = None THEN "cut" ELSE "keep",
       [scope[w] EXCEPT !.target = None])

\* joinExistingClaim books on the claim it chose, whatever has become of it,
\* if its ledger is there and has no exclusive seat.
Book(w) ==
  /\ at[w] = "book"
  /\ LET k == scope[w].target
     IN  IF w \in seats[k] \/ (seats[k] # {} /\ Compatible(w, k))
         THEN TakeSeat(w, k) /\ Step(w, "verify", scope[w])
         ELSE NotJoined(w) /\ UNCHANGED seats
  /\ UNCHANGED <<cr, assigned, claim, on, pod, cluster, landed>>

\* Mutated: the memory is checked before the seat is booked only.
VerifiedBefore(w) == claim[scope[w].target] = "there"

\* The claim that was joined is there, and its node has room for all who have
\* booked on it.
Verified(w) ==
  LET k == scope[w].target
  IN  /\ claim[k] = "there"
      /\ on[k] # None /\ Pool[on[k]].host > 0 =>
           NodeHostBytes(on[k]) <= Pool[on[k]].host

\* The fleet is read again.  A worker that falls back reads its own claim once
\* more, and prefers it if it was allocated.
Verify(w) ==
  /\ at[w] = "verify"
  /\ LET k == scope[w].target
         home == scope[w].home
     IN  IF ~Verified(w) THEN Step(w, "yield", scope[w]) /\ UNCHANGED landed
         ELSE /\ landed' = landed \ {on[k]}
              /\ IF home = None
                 THEN Step(w, "record",
                           [scope[w] EXCEPT !.home = k, !.target = None])
                 ELSE Step(w, IF claim[home] # "none" /\ on[home] # None
                              THEN "yield" ELSE "move", scope[w])
  /\ UNCHANGED <<objects, pod, cluster>>

\* The seat on the claim to join is given back.
Yield(w) ==
  /\ at[w] = "yield"
  /\ Release(w, {scope[w].target})
  /\ NotJoined(w)
  /\ UNCHANGED <<cr, assigned, on, pod, cluster, landed>>

\* fallBackToSharing: the status names the shared claim ...
Move(w) ==
  /\ at[w] = "move"
  /\ assigned' = [assigned EXCEPT ![w] = scope[w].target]
  /\ Step(w, "leave", scope[w])
  /\ UNCHANGED <<cr, seats, claim, on, pod, cluster, landed>>

\* ... and the old seat goes.
Leave(w) ==
  /\ at[w] = "leave"
  /\ Release(w, {scope[w].home})
  /\ Step(w, "keep", [scope[w] EXCEPT !.home = scope[w].target,
                                      !.target = None])
  /\ UNCHANGED <<cr, assigned, on, pod, cluster, landed>>

\* ensurePlacementClaim for a worker with a claim: the seat is adopted, or
\* booked without a look at the node.
Keep(w) ==
  /\ at[w] = "keep"
  /\ LET k == scope[w].home
     IN  IF Compatible(w, k) \/ w \in seats[k]
         THEN /\ TakeSeat(w, k)
              /\ assigned' = [assigned EXCEPT ![w] = k]
              /\ Lands(IF w \in seats[k] THEN {} ELSE {on[k]})
              /\ Step(w, "pod", scope[w])
         ELSE EndPass(w) /\ UNCHANGED <<assigned, seats, landed>>
  /\ UNCHANGED <<cr, claim, on, pod, cluster>>

\* cutDedicatedClaim: the first seat is booked and the claim created.  A claim
\* of before is adopted where it is, or waited for if it is terminating.
Cut(w) ==
  /\ at[w] = "cut"
  /\ IF \/ Tiers[w] = {}
        \/ claim[w] = "dying"
        \/ w \notin seats[w] /\ ~Compatible(w, w)
     THEN EndPass(w) /\ UNCHANGED <<seats, claim, landed>>
     ELSE /\ TakeSeat(w, w)
          /\ claim' = [claim EXCEPT ![w] = "there"]
          /\ Lands({on[w]})
          /\ Step(w, "record", [scope[w] EXCEPT !.home = w])
  /\ UNCHANGED <<cr, assigned, on, pod, cluster>>

Record(w) ==
  /\ at[w] = "record"
  /\ assigned' = [assigned EXCEPT ![w] = scope[w].home]
  /\ Step(w, "pod", scope[w])
  /\ UNCHANGED <<cr, seats, claim, on, pod, cluster, landed>>

\* reconcilePlacementPod: the pod is created, or deleted if it is bound to
\* another claim.
SyncPod(w) ==
  /\ at[w] = "pod"
  /\ LET label == scope[w].label
         home == scope[w].home
     IN  IF label = None
         THEN pod' = [pod EXCEPT ![w] = [claim |-> home, state |-> "waiting"]]
         ELSE IF label # home THEN DeletePod(w) ELSE UNCHANGED pod
  /\ EndPass(w)
  /\ UNCHANGED <<objects, cluster, landed>>

\* teardown: the pod first, then every seat, then the object.
Teardown(w) ==
  /\ at[w] = "idle"
  /\ cr[w] = "leaving"
  /\ IF pod[w] # None
     THEN DeletePod(w) /\ UNCHANGED <<cr, assigned, seats, claim>>
     ELSE /\ Release(w, {k \in Claim : w \in seats[k] \/ assigned[w] = k})
          /\ cr' = [cr EXCEPT ![w] = "gone"]
          /\ assigned' = [assigned EXCEPT ![w] = None]
          /\ UNCHANGED pod
  /\ UNCHANGED <<on, at, scope, cluster, landed>>

\* A call fails, or the controller is killed.  A seat that the status names
\* from an earlier try is then kept without having been verified.
Abort(w) ==
  /\ at[w] # "idle"
  /\ EndPass(w)
  /\ LET k == scope[w].target
     IN  Lands(IF at[w] \in {"verify", "yield"} /\ assigned[w] = k
               THEN {on[k]} ELSE {})
  /\ Disturb
  /\ UNCHANGED <<objects, pod, foreign, closed>>

-------------------------------------------------------------------------------
(***************************************************************************)
(* Kubernetes.                                                             *)
(***************************************************************************)
\* Pods that hold memory and devices.
Placed(w) == pod[w] # None /\ pod[w].state \in {"bound", "stopping"}
Uses(w, k) == Placed(w) /\ pod[w].claim = k

\* What kube-scheduler counts on a node.
Requested(n) ==
  foreign[n] + HostBytes[{w \in Worker : Placed(w) /\ on[pod[w].claim] = n}]

FreeDevice(n, k) ==
  Cardinality({l \in Claim \ {k} : on[l] = n}) < Pool[n].count

\* The nodes that can take a worker with a claim: the one that it is allocated
\* on, else any with a free device that one of its tiers admits.
Takers(w, k) ==
  {n \in Node \ closed :
     /\ Accepts(n, Request[w].role)
     /\ Requested(n) + Request[w].host <= Pool[n].host
     /\ IF on[k] # None THEN on[k] = n
        ELSE FreeDevice(n, k) /\ n \in Suits[k]}

Pending(w) ==
  pod[w] # None /\ pod[w].state \in {"waiting", "refused", "wedged"}

CanBind(w) ==
  /\ Pending(w)
  /\ claim[pod[w].claim] = "there"
  /\ Takers(w, pod[w].claim) # {}

\* kube-scheduler binds a pod; a claim that has no devices gets them.
Bind(w) ==
  /\ CanBind(w)
  /\ LET k == pod[w].claim
     IN  \E n \in Takers(w, k) :
           /\ on' = [on EXCEPT ![k] = n]
           /\ Lands(IF on[k] = None THEN {n} ELSE {})
  /\ pod' = [pod EXCEPT ![w].state = "bound"]
  /\ UNCHANGED <<cr, assigned, seats, claim, at, scope, cluster>>

\* ... or marks it unschedulable; later the grace period is over.
Refuse(w) ==
  /\ Pending(w)
  /\ pod[w].state # "wedged"
  /\ ~CanBind(w)
  /\ pod' = [pod EXCEPT ![w].state = IF @ = "waiting" THEN "refused"
                                                      ELSE "wedged"]
  /\ UNCHANGED <<objects, at, scope, cluster, landed>>

PodStopped(w) ==
  /\ pod[w] # None
  /\ pod[w].state = "stopping"
  /\ pod' = [pod EXCEPT ![w] = None]
  /\ UNCHANGED <<objects, at, scope, cluster, landed>>

Evict(w) ==
  /\ pod[w] # None
  /\ pod[w].state = "bound"
  /\ DeletePod(w)
  /\ Disturb
  /\ UNCHANGED <<objects, at, scope, foreign, closed, landed>>

ClaimFreed(k) ==
  /\ claim[k] = "dying"
  /\ \A w \in Worker : ~Uses(w, k)
  /\ claim' = [claim EXCEPT ![k] = "none"]
  /\ on' = [on EXCEPT ![k] = None]
  /\ UNCHANGED <<cr, assigned, seats, pod, at, scope, cluster, landed>>

Withdraw(w) ==
  /\ cr[w] = "live"
  /\ cr' = [cr EXCEPT ![w] = "leaving"]
  /\ Disturb
  /\ UNCHANGED <<assigned, seats, claim, on, pod, at, scope, foreign, closed, landed>>

\* Pods of others come and go.
ForeignBind(n) ==
  /\ Requested(n) < Pool[n].host
  /\ foreign' = [foreign EXCEPT ![n] = @ + 1]
  /\ Lands({n})
  /\ Disturb
  /\ UNCHANGED <<objects, closed, pod, at, scope>>

ForeignGone(n) ==
  /\ foreign[n] > 0
  /\ foreign' = [foreign EXCEPT ![n] = @ - 1]
  /\ UNCHANGED <<objects, closed, pod, at, scope, churn, landed>>

\* A node runs out of CPU or of room for pods, or is cordoned or tainted; the
\* pods on it stay.  Later it takes pods again.
Close(n) ==
  /\ n \in Unsteady \ closed
  /\ closed' = closed \cup {n}
  /\ Disturb
  /\ UNCHANGED <<objects, pod, at, scope, foreign, landed>>

Open(n) ==
  /\ n \in closed
  /\ closed' = closed \ {n}
  /\ UNCHANGED <<objects, pod, at, scope, foreign, churn, landed>>

-------------------------------------------------------------------------------
Pass(w) ==
  \/ Begin(w) \/ AbandonWedged(w)
  \/ Book(w) \/ Verify(w) \/ Yield(w) \/ Move(w) \/ Leave(w)
  \/ Keep(w) \/ Cut(w) \/ Record(w) \/ SyncPod(w) \/ Teardown(w)

Scheduler(w) == Bind(w) \/ Refuse(w) \/ PodStopped(w)

\* What may happen at any time and need not.
Churn ==
  \/ \E w \in Worker : Abort(w) \/ Evict(w) \/ Withdraw(w)
  \/ \E n \in Node : ForeignBind(n) \/ ForeignGone(n) \/ Close(n) \/ Open(n)

Next ==
  \/ \E w \in Worker : Pass(w) \/ Scheduler(w) \/ ClaimFreed(w)
  \/ Churn

Spec == Init /\ [][Next]_vars

\* Nobody else's booking is still to be verified.
VerifyAlone(w) ==
  /\ \A v \in Worker \ {w} : at[v] \notin {"verify", "yield"}
  /\ Verify(w)

\* Passes go on (every return that leaves work asks for a retry), and two that
\* verify at the same time do not stay in step for ever; kube-scheduler, the
\* kubelet and DRA act.  MaxChurn makes failures, evictions and the rest cease.
Fairness ==
  /\ SF_vars(\E w \in Worker : VerifyAlone(w))
  /\ \A w \in Worker :
       /\ WF_vars(Pass(w))
       /\ WF_vars(Scheduler(w) \/ ClaimFreed(w))

FairSpec == Spec /\ Fairness

-------------------------------------------------------------------------------
(***************************************************************************)
(* Properties.                                                             *)
(***************************************************************************)
\* The seats on a claim that count: the status names the claim, and the worker
\* is not about to verify it.
Settled(k) ==
  {w \in seats[k] :
     /\ assigned[w] = k
     /\ ~(at[w] \in {"verify", "yield"} /\ scope[w].target = k)}

SettledBytes(n, workers) ==
  foreign[n] +
    SumFunctionOnSet([k \in Claim |-> HostBytes[Settled(k) \cap workers]],
                     ClaimsOn(n))

\* Joiners never overcommit a node together: what is booked on it fits, unless
\* something came that no joiner has verified since - a claim was allocated, a
\* pod of others bound, a seat adopted or booked again on a claim that the
\* worker had (joinExistingClaim, "at least the second reader sees the union").
KeptJoinsFit ==
  \A n \in Node :
    n \notin landed /\ Pool[n].host > 0 =>
      SettledBytes(n, Worker) <= Pool[n].host

Running(w) == pod[w] # None /\ pod[w].state = "bound"

\* A node on which the worker could have a claim of its own.
HasHome(w) ==
  \E n \in Node \ closed :
    /\ Accepts(n, Request[w].role)
    /\ n \in Suits[w]
    /\ FreeDevice(n, w)
    /\ foreign[n] + HostBytes[{v \in Worker \ {w} :
                                 Placed(v) /\ on[pod[v].claim] = n}]
         + Request[w].host <= Pool[n].host

\* A claim on a closed node draws the worker there again, whenever it has given
\* up a claim: one that it could join, or its own with the others who sit on it.
Drawn(w) ==
  \E k \in Claim :
    /\ claim[k] = "there" /\ on[k] \in closed
    /\ k \in Eligible(w) \/ (k = w /\ ~(seats[k] \subseteq {w}))

\* A worker for which a node stays free runs in the end, whatever its claims
\* before, whoever takes what it wants first and for whatever reason nodes
\* refuse it, unless it is drawn back to one ("prevents an allocated claim or
\* shared seat from wedging the workload permanently", which is too much).
FreeNodeIsUsed ==
  \A w \in Worker :
    <>[](cr[w] = "live" /\ HasHome(w)) => []<>(Running(w) \/ Drawn(w))

\* A claim that the worker could share beside those who have settled.
HasSeat(w) ==
  \E k \in Claim :
    /\ claim[k] = "there" /\ on[k] \in Node \ closed
    /\ Request[w].shareable /\ Shareable(k)
    /\ Accepts(on[k], Request[w].role) /\ DevicesOn(w, on[k]) = 1
    /\ SettledBytes(on[k], Worker \ {w}) + Request[w].host
         <= Pool[on[k]].host

\* The claim that a worker moves to has lost its devices since it was chosen:
\* it was given up and cut anew meanwhile.
Overtaken(w) == at[w] = "move" /\ on[scope[w].target] = None

\* A seat does not stay empty beside workers that wait for one, unless they are
\* drawn elsewhere, or overtaken again and again: joiners that meet and yield do
\* not go on doing so ("that double yield is benign").
FreeSeatIsUsed ==
  <>[](\E w \in Worker : cr[w] = "live" /\ ~Running(w) /\ HasSeat(w) /\ ~Drawn(w))
    => []<>(\E w \in Worker : Overtaken(w))
===============================================================================
