------------------------------ MODULE ClaimLedger -----------------------------
(***************************************************************************)
(* The scheduler controller's reconciler and the objects it places workers *)
(* with (src/scheduler/controller/internal/controller): Workload objects,  *)
(* ClaimLedgers, ResourceClaims and pods.                                  *)
(*                                                                         *)
(* A worker here is one incarnation of a Workload object, told apart by    *)
(* its UID; incarnations under one name follow each other and share the    *)
(* pod's name.  A claim is named after the incarnation that cuts it and a  *)
(* ledger after its claim, so all three are indexed by Worker.             *)
(*                                                                         *)
(* controller-runtime reconciles one name at a time and different names    *)
(* at once: a pass of a name is a process.  Its actions are the calls to   *)
(* the API server it makes; what it computes in between is local.          *)
(***************************************************************************)
EXTENDS FiniteSets

CONSTANTS
  Name,       \* names of Workload objects
  Worker,     \* incarnations of Workload objects
  NameOf,     \* the name each incarnation has
  Exclusive,  \* those with spec.exclusive
  Spread,     \* the placement strategy is "spread", else "binpack"
  PodLag,     \* pods are read from a cache that may lag
  SeatLag,    \* so are the ledgers that seatedClaims lists
  Evicts,     \* nodes are drained or preempted
  None        \* no claim, no pod, no worker

ASSUME LedgerAssumption ==
  /\ NameOf \in [Worker -> Name]
  /\ Exclusive \subseteq Worker
  /\ {Spread, PodLag, SeatLag, Evicts} \subseteq BOOLEAN
  /\ None \notin Worker

VARIABLES
  cr,         \* the Workload object of each incarnation
  status,     \* its status.claimName
  ledger,     \* the seats of each ClaimLedger; without seats there is none
  claim,      \* each ResourceClaim
  owned,      \* the claims whose owner reference names the present ledger
  pod,        \* the pod under each name
  podCache,   \* the informer's copy of it
  seatCache,  \* the informer's copy of each ledger
  at,         \* where the pass of each name is
  scope,      \* its placementScope, the seats it is still to release, and a
              \* history of what the caches hid from it
  call        \* the ensureSeat or releaseSeatAndReclaim it is in

objects == <<cr, status, ledger, claim, owned, pod>>
caches == <<podCache, seatCache>>
passes == <<at, scope, call>>
vars == <<objects, caches, passes>>

Claim == Worker
Pod == [worker : Worker, claim : Claim,
        state : {"pending", "running", "stopping"}]

At == {"idle", "confirm", "strays", "alone", "book", "booking",
       "verify", "move", "cut", "record", "pod", "clear",
       "unseat", "unseating", "reclaim", "leave"}
Bookings == {"join", "cut", "keep"}
Releases == {"gone", "stray", "wedged", "yield", "home", "move", "teardown"}

NoScope == [worker |-> None, claim |-> None, home |-> "none",
            label |-> None, stuck |-> FALSE, shared |-> {}, todo |-> {},
            hidden |-> {}]
NoCall == [for |-> "none", claim |-> None, seen |-> {}]

\* Every component is well formed.
TypeOK ==
  /\ cr \in [Worker -> {"none", "new", "held", "deleting", "gone"}]
  /\ status \in [Worker -> Claim \cup {None}]
  /\ ledger \in [Claim -> SUBSET Worker]
  /\ claim \in [Claim -> {"none", "pending", "allocated", "terminating"}]
  /\ owned \in SUBSET Claim
  /\ pod \in [Name -> Pod \cup {None}]
  /\ podCache \in [Name -> Pod \cup {None}]
  /\ seatCache \in [Claim -> SUBSET Worker]
  /\ at \in [Name -> At]
  /\ scope \in [Name ->
       [worker : Worker \cup {None}, claim : Claim \cup {None},
        home : {"none", "pending", "allocated"},
        label : Claim \cup {None}, stuck : BOOLEAN,
        shared : SUBSET Claim, todo : SUBSET Claim,
        hidden : SUBSET {"pod", "seat"}]]
  /\ call \in [Name ->
       [for : Bookings \cup Releases \cup {"none"},
        claim : Claim \cup {None}, seen : SUBSET Worker]]

Init ==
  /\ cr = [w \in Worker |-> "none"]
  /\ status = [w \in Worker |-> None]
  /\ ledger = [k \in Claim |-> {}]
  /\ claim = [k \in Claim |-> "none"]
  /\ owned = {}
  /\ pod = [n \in Name |-> None]
  /\ podCache = [n \in Name |-> None]
  /\ seatCache = [k \in Claim |-> {}]
  /\ at = [n \in Name |-> "idle"]
  /\ scope = [n \in Name |-> NoScope]
  /\ call = [n \in Name |-> NoCall]

-------------------------------------------------------------------------------
(***************************************************************************)
(* Reading and writing objects.                                            *)
(***************************************************************************)
\* What the fleet shows of a claim: a terminating one is left out.
Shown(c) == IF c = "terminating" THEN "none" ELSE c

PodView(n) == IF PodLag THEN podCache[n] ELSE pod[n]

\* The claims whose ledger seats the name.
SeatedClaims(n) ==
  {k \in Claim : \E w \in (IF SeatLag THEN seatCache[k] ELSE ledger[k]) :
                   NameOf[w] = n}

\* Mutated: newSeat leaves Exclusive out.
ExclusiveSeatsForgotten(seats) == {}

\* The seats that say they are exclusive.
ExclusiveSeats(seats) == seats \cap Exclusive

\* A worker may sit beside the others of a ledger unless either is exclusive.
\* The seat of its own name does not count: it is adopted or replaced.
Compatible(seats, w) ==
  LET others == {o \in seats : NameOf[o] # NameOf[w]}
  IN  others = {} \/ (w \notin Exclusive /\ ExclusiveSeats(others) = {})

WithoutName(seats, n) == {w \in seats : NameOf[w] # n}
WithSeat(seats, w) == WithoutName(seats, NameOf[w]) \cup {w}

\* The claims SelectClaim chooses from, host memory and roles aside.
Eligible(w) ==
  IF w \in Exclusive THEN {}
  ELSE {k \in Claim : /\ claim[k] = "allocated"
                      /\ ledger[k] # {}
                      /\ ExclusiveSeats(ledger[k]) = {}}

\* joinExistingClaim is tried by a worker without a claim under binpack, and by
\* one whose claim is pending and whose pod is refused.
MayJoin(k, home, stuck) ==
  IF k = None THEN ~Spread ELSE home = "pending" /\ stuck

\* A pod that was never bound goes at once, a running one stops first.
DeletePod(n) ==
  pod' = [pod EXCEPT ![n] =
            IF @ = None \/ @.state = "pending" THEN None
            ELSE [@ EXCEPT !.state = "stopping"]]

\* An allocated claim stays until no pod uses it.
DeletedClaim(c) ==
  IF c \in {"allocated", "terminating"} THEN "terminating" ELSE "none"

\* patchStatus: a conflict with the object's deletion loses the write, and is
\* not an error.
PatchStatus(w, k) ==
  status' = IF cr[w] = "held" THEN [status EXCEPT ![w] = k] ELSE status

-------------------------------------------------------------------------------
(***************************************************************************)
(* A pass and the calls it makes.                                          *)
(***************************************************************************)
\* The pass of n goes on at pc, with scope s, in call c.
Step(n, pc, s, c) ==
  /\ at' = [at EXCEPT ![n] = pc]
  /\ scope' = [scope EXCEPT ![n] = s]
  /\ call' = [call EXCEPT ![n] = c]

EndPass(n) == Step(n, "idle", NoScope, NoCall)

Calling(for, k) == [for |-> for, claim |-> k, seen |-> {}]

\* ensureSeat returns a seat.  Afterwards a status that names the claim is not
\* written again.
Booked(n, for, k, s) ==
  CASE for = "join" -> Step(n, "verify", s, Calling("join", k))
    [] for = "cut" -> Step(n, "cut", s, NoCall)
    [] for = "keep" ->
         Step(n, IF status[s.worker] = k THEN "pod" ELSE "record", s, NoCall)

\* ensureSeat returns errBookingContended.
Contended(n, for, s) ==
  IF for = "join" THEN Step(n, "alone", s, NoCall) ELSE EndPass(n)

\* ensureSeat reads the ledger and decides.
EnsureSeat(n, for, k, s) ==
  IF \/ ledger[k] = {} /\ for = "join"
     \/ s.worker \notin ledger[k] /\ ~Compatible(ledger[k], s.worker)
  THEN Contended(n, for, s)
  ELSE IF s.worker \in ledger[k] THEN Booked(n, for, k, s)
  ELSE Step(n, "booking", s, [for |-> for, claim |-> k, seen |-> ledger[k]])

Book(n) ==
  /\ at[n] = "book"
  /\ EnsureSeat(n, call[n].for, call[n].claim, scope[n])
  /\ UNCHANGED <<objects, caches>>

\* Mutated: it is written whatever it is now.
CurrentUnchecked(n) == TRUE

\* The ledger is still what was read.  The code compares versions; seats that
\* are the same again would be read and decided upon the same way.
Current(n) == ledger[call[n].claim] = call[n].seen

\* ... and creates or updates it if nobody else did.
BookWrite(n) ==
  /\ at[n] = "booking"
  /\ Current(n)
  /\ LET k == call[n].claim
     IN  /\ ledger' = [ledger EXCEPT ![k] =
                         WithSeat(call[n].seen, scope[n].worker)]
         /\ Booked(n, call[n].for, k, scope[n])
  /\ UNCHANGED <<cr, status, claim, owned, pod, caches>>

\* ... else it reads again, at most bookAttempts times.
BookConflict(n) ==
  /\ at[n] = "booking"
  /\ ~Current(n)
  /\ \/ Step(n, "book", scope[n], Calling(call[n].for, call[n].claim))
     \/ Contended(n, call[n].for, scope[n])
  /\ UNCHANGED <<objects, caches>>

\* Seats under the name on other claims are stray, but an unassigned worker
\* keeps a seat on its own claim.
Strays(n, w, k) == SeatedClaims(n) \ {IF k = None THEN w ELSE k}

\* releaseSeatAndReclaim returns.  A claim that is gone leaves strays to look
\* for, after them come the fallbacks, then the pass keeps or founds a claim.
Released(n, for, k, s) ==
  CASE for = "gone" -> Step(n, "strays",
         [s EXCEPT !.todo = Strays(n, s.worker, None)], NoCall)
    [] for = "stray" -> Step(n, "strays", [s EXCEPT !.todo = @ \ {k}], NoCall)
    [] for = "wedged" -> Step(n, "clear", s, NoCall)
    [] for \in {"yield", "home", "move"} -> Step(n, "alone", s, NoCall)
    [] for = "teardown" -> Step(n, "leave", [s EXCEPT !.todo = @ \ {k}], NoCall)

\* releaseSeatAndReclaim reads the ledger and decides.
ReleaseSeat(n, for, k, s) ==
  IF ledger[k] = {} THEN Step(n, "reclaim", s, Calling(for, k))
  ELSE IF WithoutName(ledger[k], n) = ledger[k] THEN Released(n, for, k, s)
  ELSE Step(n, "unseating", s, [for |-> for, claim |-> k, seen |-> ledger[k]])

Unseat(n) ==
  /\ at[n] = "unseat"
  /\ ReleaseSeat(n, call[n].for, call[n].claim, scope[n])
  /\ UNCHANGED <<objects, caches>>

\* ... and updates it, or deletes it with the last seat; conflicts as above,
\* except that exhausted retries are an error.
UnseatWrite(n) ==
  /\ at[n] = "unseating"
  /\ Current(n)
  /\ LET k == call[n].claim
         kept == WithoutName(call[n].seen, n)
     IN  /\ ledger' = [ledger EXCEPT ![k] = kept]
         /\ IF kept = {}
            THEN /\ owned' = owned \ {k}
                 /\ Step(n, "reclaim", scope[n], Calling(call[n].for, k))
            ELSE /\ UNCHANGED owned
                 /\ Released(n, call[n].for, k, scope[n])
  /\ UNCHANGED <<cr, status, claim, pod, caches>>

UnseatConflict(n) ==
  /\ at[n] = "unseating"
  /\ ~Current(n)
  /\ Step(n, "unseat", scope[n], Calling(call[n].for, call[n].claim))
  /\ UNCHANGED <<objects, caches>>

\* ... and deletes the claim, by its name.
Reclaim(n) ==
  /\ at[n] = "reclaim"
  /\ claim' = [claim EXCEPT ![call[n].claim] = DeletedClaim(@)]
  /\ Released(n, call[n].for, call[n].claim, scope[n])
  /\ UNCHANGED <<cr, status, ledger, owned, pod, caches>>

-------------------------------------------------------------------------------
(***************************************************************************)
(* Reconcile and place.                                                    *)
(***************************************************************************)
\* The Workload object a reconciler finds under the name.
Present(n, w) == NameOf[w] = n /\ cr[w] \in {"new", "held"}

\* The pod's controller reference names this incarnation.
Owns(w, p) == p.worker = w

\* The start of a pass: the Workload object is read, its finalizer added, the
\* fleet, the pod and the list of seats read.  A pod's claim label counts more
\* than the status.  kube-scheduler may have marked a pod that is not bound as
\* unschedulable.
Begin(n) ==
  /\ at[n] = "idle"
  /\ \E w \in Worker, stuck \in BOOLEAN :
       /\ Present(n, w)
       /\ cr' = [cr EXCEPT ![w] = "held"]
       /\ LET p == PodView(n)
              k == IF p = None THEN status[w] ELSE p.claim
              home == IF k = None THEN "none" ELSE Shown(claim[k])
              lost == k # None /\ home = "none"
          IN  /\ p # None => Owns(w, p)
              /\ stuck => p # None /\ p.state = "pending"
              /\ Step(n, IF lost THEN "confirm" ELSE "strays",
                      [worker |-> w, claim |-> k, home |-> home,
                       label |-> IF p = None THEN None ELSE p.claim,
                       stuck |-> stuck, hidden |-> {},
                       shared |-> IF MayJoin(IF lost THEN None ELSE k,
                                             home, stuck)
                                  THEN Eligible(w) ELSE {},
                       todo |-> IF lost THEN {} ELSE Strays(n, w, k)],
                      NoCall)
  /\ UNCHANGED <<status, ledger, claim, owned, pod, caches>>

\* The pod of an earlier incarnation is deleted, if it is still there, and the
\* pass ends.
ReplacePredecessor(n) ==
  /\ at[n] = "idle"
  /\ PodView(n) # None
  /\ \E w \in Worker :
       /\ Present(n, w)
       /\ ~Owns(w, PodView(n))
       /\ cr' = [cr EXCEPT ![w] = "held"]
  /\ IF pod[n] # None /\ pod[n].worker = PodView(n).worker
     THEN DeletePod(n) ELSE UNCHANGED pod
  /\ UNCHANGED <<status, ledger, claim, owned, caches, passes>>

\* An assigned claim that the fleet does not show is looked up; if it is gone,
\* or going, the seat on it is released.
Confirm(n) ==
  /\ at[n] = "confirm"
  /\ IF Shown(claim[scope[n].claim]) # "none"
     THEN EndPass(n)
     ELSE Step(n, "unseat", [scope[n] EXCEPT !.claim = None],
               Calling("gone", scope[n].claim))
  /\ UNCHANGED <<objects, caches>>

ReleaseStray(n) ==
  /\ at[n] = "strays"
  /\ \E k \in scope[n].todo : ReleaseSeat(n, "stray", k, scope[n])
  /\ UNCHANGED <<objects, caches>>

\* Repaired: nothing stray is left.
Repaired(n) == at[n] = "strays" /\ scope[n].todo = {}

\* An allocated claim whose pod is refused for longer than the grace period is
\* given up: pod, seat, then status.
AbandonWedged(n) ==
  /\ Repaired(n)
  /\ scope[n].home = "allocated"
  /\ scope[n].stuck
  /\ IF /\ pod[n] # None
        /\ pod[n].worker = scope[n].worker
        /\ pod[n].claim = scope[n].label
     THEN DeletePod(n) ELSE UNCHANGED pod
  /\ Step(n, "unseat", scope[n], Calling("wedged", scope[n].claim))
  /\ UNCHANGED <<cr, status, ledger, claim, owned, caches>>

ClearAssignment(n) ==
  /\ at[n] = "clear"
  /\ PatchStatus(scope[n].worker, None)
  /\ EndPass(n)
  /\ UNCHANGED <<cr, ledger, claim, owned, pod, caches>>

\* joinExistingClaim books on a claim that the fleet showed when the pass began.
Join(n) ==
  /\ Repaired(n)
  /\ MayJoin(scope[n].claim, scope[n].home, scope[n].stuck)
  /\ \E k \in scope[n].shared \ {scope[n].claim} :
       Step(n, "book", [scope[n] EXCEPT !.shared = {}], Calling("join", k))
  /\ UNCHANGED <<objects, caches>>

\* The fleet is read again: the claim must still be there, and the node must
\* have room.  A worker that falls back reads its own claim once more, and
\* prefers it if it was allocated.
Verify(n) ==
  /\ at[n] = "verify"
  /\ LET t == call[n].claim
         own == scope[n].claim
     IN  \/ /\ Shown(claim[t]) # "none"
            /\ IF own = None
               THEN Step(n, "record", [scope[n] EXCEPT !.claim = t], NoCall)
               ELSE IF claim[own] \in {"allocated", "terminating"}
               THEN Step(n, "unseat", scope[n], Calling("home", t))
               ELSE Step(n, "move", scope[n], call[n])
         \/ Step(n, "unseat", scope[n], Calling("yield", t))
  /\ UNCHANGED <<objects, caches>>

\* Otherwise the status names the shared claim, and the old seat goes.
Move(n) ==
  /\ at[n] = "move"
  /\ PatchStatus(scope[n].worker, call[n].claim)
  /\ Step(n, "unseat", [scope[n] EXCEPT !.claim = call[n].claim],
          Calling("move", scope[n].claim))
  /\ UNCHANGED <<cr, ledger, claim, owned, pod, caches>>

\* Whether the fleet has room to share, and whether the grace period is over,
\* is not modelled, so these may follow at once.
Settling(n) == Repaired(n) \/ at[n] = "alone"

\* An assigned worker makes sure of its seat.
Keep(n) ==
  /\ Settling(n)
  /\ scope[n].claim # None
  /\ EnsureSeat(n, "keep", scope[n].claim,
                [scope[n] EXCEPT !.home = "none", !.stuck = FALSE,
                                 !.shared = {}])
  /\ UNCHANGED <<objects, caches>>

\* cutDedicatedClaim: an unassigned one books on its own claim, unless that is
\* terminating, and creates the claim if there was none before.
Found(n) ==
  /\ Settling(n)
  /\ scope[n].claim = None
  /\ LET w == scope[n].worker
     IN  IF claim[w] = "terminating" THEN EndPass(n)
         ELSE EnsureSeat(n, "cut", w,
                [scope[n] EXCEPT !.home = claim[w], !.stuck = FALSE,
                                 !.shared = {}])
  /\ UNCHANGED <<objects, caches>>

CutClaim(n) ==
  /\ at[n] = "cut"
  /\ LET w == scope[n].worker
         missing == scope[n].home = "none"
     IN  IF missing /\ claim[w] # "none"
         THEN EndPass(n) /\ UNCHANGED <<claim, owned>>
         ELSE /\ Step(n, "record", [scope[n] EXCEPT !.claim = w,
                                                    !.home = "none"], NoCall)
              /\ IF missing
                 THEN /\ claim' = [claim EXCEPT ![w] = "pending"]
                      /\ owned' = owned \cup {w}
                 ELSE UNCHANGED <<claim, owned>>
  /\ UNCHANGED <<cr, status, ledger, pod, caches>>

Record(n) ==
  /\ at[n] = "record"
  /\ PatchStatus(scope[n].worker, scope[n].claim)
  /\ Step(n, "pod", scope[n], NoCall)
  /\ UNCHANGED <<cr, ledger, claim, owned, pod, caches>>

\* reconcilePlacementPod: the pod is created, or deleted if it is bound to
\* another claim, or reported.
SyncPod(n) ==
  /\ at[n] = "pod"
  /\ LET label == scope[n].label
     IN  CASE label = None ->
                pod' = [pod EXCEPT ![n] =
                  IF @ # None THEN @
                  ELSE [worker |-> scope[n].worker, claim |-> scope[n].claim,
                        state |-> "pending"]]
           [] label \notin {None, scope[n].claim} -> DeletePod(n)
           [] label = scope[n].claim -> UNCHANGED pod
  /\ EndPass(n)
  /\ UNCHANGED <<cr, status, ledger, claim, owned, caches>>

-------------------------------------------------------------------------------
(***************************************************************************)
(* teardown.                                                               *)
(***************************************************************************)
\* Mutated: it waits for the pod and does not delete it.
TeardownPodWaits(n) ==
  /\ at[n] = "idle"
  /\ \E w \in Worker : NameOf[w] = n /\ cr[w] = "deleting"
  /\ PodView(n) # None
  /\ UNCHANGED vars

\* While a pod is seen it is deleted, and the pass ends.
TeardownPod(n) ==
  /\ at[n] = "idle"
  /\ \E w \in Worker : NameOf[w] = n /\ cr[w] = "deleting"
  /\ PodView(n) # None
  /\ IF PodView(n).state = "stopping" THEN UNCHANGED pod ELSE DeletePod(n)
  /\ UNCHANGED <<cr, status, ledger, claim, owned, caches, passes>>

\* Mutated: only the seat that the status names.
AssignedSeat(w) == {status[w]} \ {None}

\* Mutated: an empty status.claimName is released like another.
SeatsWithoutCheck(w) == SeatedClaims(NameOf[w]) \cup {status[w]}

\* The seats that the ledgers list and the status names.
SeatsToRelease(w) == SeatedClaims(NameOf[w]) \cup ({status[w]} \ {None})

\* What there is of w when its teardown reads the pod and lists the seats, and
\* neither the caches nor the status show.
Hidden(w) ==
  LET n == NameOf[w]
      known == SeatedClaims(n) \cup {status[w]}
  IN  {x \in {"pod", "seat"} :
         IF x = "pod"
         THEN PodView(n) = None /\ pod[n] # None /\ pod[n].worker = w
         ELSE \E k \in Claim \ known : w \in ledger[k]}

TeardownScope(w) ==
  [NoScope EXCEPT !.worker = w, !.todo = SeatsToRelease(w),
                  !.hidden = Hidden(w)]

\* Mutated: it does not wait for the pod.
BeginTeardownAtOnce(n) ==
  /\ at[n] = "idle"
  /\ \E w \in Worker :
       /\ NameOf[w] = n
       /\ cr[w] = "deleting"
       /\ Step(n, "leave", TeardownScope(w), NoCall)
  /\ UNCHANGED <<objects, caches>>

\* Then the seats are released.
BeginTeardown(n) ==
  /\ at[n] = "idle"
  /\ PodView(n) = None
  /\ \E w \in Worker :
       /\ NameOf[w] = n
       /\ cr[w] = "deleting"
       /\ Step(n, "leave", TeardownScope(w), NoCall)
  /\ UNCHANGED <<objects, caches>>

LeaveSeat(n) ==
  /\ at[n] = "leave"
  /\ \E k \in scope[n].todo : ReleaseSeat(n, "teardown", k, scope[n])
  /\ UNCHANGED <<objects, caches>>

\* Last the finalizer is removed, and the object is gone.
Leave(n) ==
  /\ at[n] = "leave"
  /\ scope[n].todo = {}
  /\ cr' = [cr EXCEPT ![scope[n].worker] = "gone"]
  /\ status' = [status EXCEPT ![scope[n].worker] = None]
  /\ EndPass(n)
  /\ UNCHANGED <<ledger, claim, owned, pod, caches>>

\* A call to the API server fails and the pass returns the error, or the
\* controller is killed: nothing of the pass is left.
Abort(n) ==
  /\ at[n] # "idle"
  /\ EndPass(n)
  /\ UNCHANGED <<objects, caches>>

-------------------------------------------------------------------------------
(***************************************************************************)
(* The API server's clients, Kubernetes and the informers.                 *)
(***************************************************************************)
Submit(w) ==
  /\ cr[w] = "none"
  /\ \A v \in Worker : NameOf[v] = NameOf[w] => cr[v] \in {"none", "gone"}
  /\ cr' = [cr EXCEPT ![w] = "new"]
  /\ UNCHANGED <<status, ledger, claim, owned, pod, caches, passes>>

\* Without the finalizer the object goes at once.
Withdraw(w) ==
  /\ cr[w] \in {"new", "held"}
  /\ cr' = [cr EXCEPT ![w] = IF @ = "new" THEN "gone" ELSE "deleting"]
  /\ UNCHANGED <<status, ledger, claim, owned, pod, caches, passes>>

\* kube-scheduler binds a pod and DRA allocates its claim.
Schedule(n) ==
  /\ pod[n] # None
  /\ pod[n].state = "pending"
  /\ Shown(claim[pod[n].claim]) # "none"
  /\ claim' = [claim EXCEPT ![pod[n].claim] = "allocated"]
  /\ pod' = [pod EXCEPT ![n].state = "running"]
  /\ UNCHANGED <<cr, status, ledger, owned, caches, passes>>

\* The node is drained or preempted.
Evict(n) ==
  /\ Evicts
  /\ pod[n] # None
  /\ pod[n].state = "running"
  /\ DeletePod(n)
  /\ UNCHANGED <<cr, status, ledger, claim, owned, caches, passes>>

PodStopped(n) ==
  /\ pod[n] # None
  /\ pod[n].state = "stopping"
  /\ pod' = [pod EXCEPT ![n] = None]
  /\ UNCHANGED <<cr, status, ledger, claim, owned, caches, passes>>

Uses(n, k) ==
  pod[n] # None /\ pod[n].claim = k /\ pod[n].state \in {"running", "stopping"}

ClaimFreed(k) ==
  /\ claim[k] = "terminating"
  /\ \A n \in Name : ~Uses(n, k)
  /\ claim' = [claim EXCEPT ![k] = "none"]
  /\ UNCHANGED <<cr, status, ledger, owned, pod, caches, passes>>

\* Garbage collection deletes what refers to an owner that is gone.
CollectClaim(k) ==
  /\ Shown(claim[k]) # "none"
  /\ k \notin owned
  /\ claim' = [claim EXCEPT ![k] = DeletedClaim(@)]
  /\ UNCHANGED <<cr, status, ledger, owned, pod, caches, passes>>

CollectPod(n) ==
  /\ pod[n] # None
  /\ cr[pod[n].worker] = "gone"
  /\ pod[n].state # "stopping"
  /\ DeletePod(n)
  /\ UNCHANGED <<cr, status, ledger, claim, owned, caches, passes>>

PodEvent(n) ==
  /\ PodLag
  /\ podCache' = [podCache EXCEPT ![n] = pod[n]]
  /\ UNCHANGED <<objects, seatCache, passes>>

SeatEvent(k) ==
  /\ SeatLag
  /\ seatCache' = [seatCache EXCEPT ![k] = ledger[k]]
  /\ UNCHANGED <<objects, podCache, passes>>

-------------------------------------------------------------------------------
Pass(n) ==
  \/ Begin(n) \/ ReplacePredecessor(n) \/ Confirm(n)
  \/ ReleaseStray(n) \/ AbandonWedged(n) \/ ClearAssignment(n)
  \/ Join(n) \/ Verify(n) \/ Move(n)
  \/ Keep(n) \/ Found(n) \/ CutClaim(n) \/ Record(n) \/ SyncPod(n)
  \/ Book(n) \/ BookWrite(n) \/ BookConflict(n)
  \/ Unseat(n) \/ UnseatWrite(n) \/ UnseatConflict(n) \/ Reclaim(n)
  \/ TeardownPod(n) \/ BeginTeardown(n) \/ LeaveSeat(n) \/ Leave(n)

Cluster ==
  \/ \E n \in Name : \/ Schedule(n) \/ Evict(n) \/ PodStopped(n)
                     \/ CollectPod(n) \/ PodEvent(n)
  \/ \E k \in Claim : ClaimFreed(k) \/ CollectClaim(k) \/ SeatEvent(k)

Next ==
  \/ \E n \in Name : Pass(n) \/ Abort(n)
  \/ \E w \in Worker : Submit(w) \/ Withdraw(w)
  \/ Cluster

Spec == Init /\ [][Next]_vars

\* A pass ends only as it would without a failure.
Steady == \A n \in Name : Abort(n) => Pass(n)

\* Passes are queued again until there is nothing to do (every return of
\* Reconcile that leaves work asks for a retry, or waits for an event); the
\* kubelet, garbage collection and the informers catch up; the controller and
\* the calls it makes stop failing in the end.
Fairness ==
  /\ \A n \in Name :
       /\ WF_vars(Pass(n))
       /\ WF_vars(PodStopped(n) \/ CollectPod(n))
       /\ WF_vars(PodEvent(n))
  /\ \A k \in Claim :
       /\ WF_vars(ClaimFreed(k) \/ CollectClaim(k))
       /\ WF_vars(SeatEvent(k))
  /\ <>[][Steady]_vars

FairSpec == Spec /\ Fairness

-------------------------------------------------------------------------------
(***************************************************************************)
(* Properties.                                                             *)
(***************************************************************************)
\* An exclusive worker shares its claim with nobody and sits on no other,
\* neither by a seat nor by a pod, however stale what joiners and its own
\* reconciler read (ensureSeat's recheck, SelectClaim, claimNameFor).
ExclusiveAlone ==
  \A f \in Exclusive :
    /\ ledger[f] \subseteq {f}
    /\ \A k \in Claim : f \in ledger[k] => k = f
    /\ \A n \in Name : pod[n] # None => (pod[n].worker = f <=> pod[n].claim = f)

\* A Workload object goes last.  A step leaves a seat behind, which nothing
\* releases any more, only if neither the list of ledgers nor the status showed
\* it to the teardown (teardown, "a seat the status never recorded has no other
\* way out"; seatedClaims lists from the informer's copy).
NoSeatOutlives ==
  [][\A k \in Claim : \A w \in ledger'[k] : cr'[w] = "gone" =>
       \/ cr[w] = "gone" /\ w \in ledger[k]
       \/ "seat" \in scope[NameOf[w]].hidden]_vars

\* ... and a pod, with its process on the devices, only if the informer's copy
\* did not have it when the teardown looked (Reconcile, "teardown releases the
\* ledger seat only after the pod is verifiably gone").
TeardownWaits ==
  [][\A n \in Name : pod'[n] # None /\ cr'[pod'[n].worker] = "gone" =>
       \/ /\ pod[n] # None
          /\ pod[n].worker = pod'[n].worker
          /\ cr[pod[n].worker] = "gone"
       \/ "pod" \in scope[n].hidden]_vars

\* A seat goes only by its own name's pass: no release or booking of another
\* overwrites it, and a ledger is not deleted under a join that came between
\* (releaseSeatAndReclaim, "so a concurrent join wins").
OthersSeatsStay ==
  [][\A k \in Claim : \A w \in ledger[k] \ ledger'[k] :
       at'[NameOf[w]] # at[NameOf[w]]]_vars

\* A worker that is deleted leaves in the end: teardown gets past the pod, the
\* lagging lists, the seats and its own failures.
TeardownEnds == \A w \in Worker : cr[w] = "deleting" ~> cr[w] = "gone"
===============================================================================
