--------------------------- MODULE ClaimLedgerProofs --------------------------
(***************************************************************************)
(* Theorems about ClaimLedger, for any names, incarnations and caches.     *)
(***************************************************************************)
EXTENDS ClaimLedger, TLAPS

Scope == [worker : Worker \cup {None}, claim : Claim \cup {None},
          home : {"none", "pending", "allocated"},
          label : Claim \cup {None}, stuck : BOOLEAN,
          shared : SUBSET Claim, todo : SUBSET Claim,
          hidden : SUBSET {"pod", "seat"}]
Call == [for : Bookings \cup Releases \cup {"none"},
         claim : Claim \cup {None}, seen : SUBSET Worker]

\* w may have to do with claim k: an exclusive worker only with its own.
Fits(w, k) == w \in Exclusive \/ k \in Exclusive => w = k

\* What a scope refers to exists, and fits its worker.
ScopeOK(n, s) ==
  /\ s \in Scope
  /\ s.worker \in Worker
  /\ NameOf[s.worker] = n
  /\ s.claim # None => Fits(s.worker, s.claim)
  /\ \A k \in s.shared : Fits(s.worker, k)

\* A claim that was seen is the scope's; cutDedicatedClaim alone looks at one
\* that is not assigned yet.
HomeOK(s) == s.home # "none" => s.claim # None

\* A pass at pc with scope s in call c has what it needs to go on.
PassOK(n, pc, s, c) ==
  /\ pc \in At /\ s \in Scope /\ c \in Call
  /\ pc = "idle" => s = NoScope
  /\ pc # "idle" => ScopeOK(n, s)
  /\ pc \in {"confirm", "record", "pod", "move"} => s.claim # None
  /\ pc = "confirm" => s.home = "none"
  /\ pc # "cut" /\ ~(pc \in {"book", "booking"} /\ c.for = "cut") => HomeOK(s)
  /\ pc \in {"book", "booking"} =>
       /\ c.for \in Bookings
       /\ c.for = "keep" => s.claim = c.claim
  /\ pc \in {"verify", "move"} => c.for = "join"
  /\ pc \in {"unseat", "unseating", "reclaim"} => c.for \in Releases
  /\ pc \in {"book", "booking", "verify", "move",
             "unseat", "unseating", "reclaim"} => c.claim # None
  /\ pc \in {"book", "booking", "verify", "move"} => Fits(s.worker, c.claim)

PassesOK == \A n \in Name : PassOK(n, at[n], scope[n], call[n])

SeatsFit == \A k \in Claim : \A w \in ledger[k] : Fits(w, k)
StatusFits == \A w \in Worker : status[w] # None => Fits(w, status[w])
PodOK(n, p) == p # None => NameOf[p.worker] = n /\ Fits(p.worker, p.claim)
PodsOK == \A n \in Name : PodOK(n, pod[n]) /\ PodOK(n, podCache[n])

LedgerInv == TypeOK /\ PassesOK /\ SeatsFit /\ StatusFits /\ PodsOK

-------------------------------------------------------------------------------
(***************************************************************************)
(* Passes.                                                                 *)
(***************************************************************************)
\* A pass at pc in call c works for release f, or for none.
Releasing(pc, c, f) ==
  /\ pc = "leave" => f = "teardown"
  /\ pc \in {"unseating", "reclaim"} => c.for = f
  /\ pc = "unseat" /\ c.for = "teardown" => f = "teardown"

\* The pass of n ends up where it has what it needs, still for worker w if it is
\* not over, and after a step that works for release f.
Advances(n, w, f) ==
  \E pc, s, c : /\ Step(n, pc, s, c)
                /\ PassOK(n, pc, s, c)
                /\ s.worker \in {w, None}
                /\ Releasing(pc, c, f)

\* Ending a pass is always possible.
LEMMA EndAdvances ==
  ASSUME NEW n \in Name, NEW w, NEW f, EndPass(n)
  PROVE  Advances(n, w, f)
<1>1. PassOK(n, "idle", NoScope, NoCall)
  BY DEF PassOK, NoScope, NoCall, Scope, Call, At, HomeOK
<1> QED BY <1>1 DEF EndPass, Advances, Releasing, NoScope

\* Contended leads on from a booking.
LEMMA ContendedAdvances ==
  ASSUME NEW n \in Name, NEW f \in Bookings, NEW s,
         ScopeOK(n, s), f = "join" => HomeOK(s), Contended(n, f, s)
  PROVE  Advances(n, s.worker, "none")
<1>1. CASE f = "join"
  <2>1. PassOK(n, "alone", s, NoCall)
    BY <1>1 DEF PassOK, ScopeOK, NoCall, Call, At
  <2> QED BY <1>1, <2>1 DEF Contended, Advances, Releasing
<1>2. CASE f # "join"
  BY <1>2, EndAdvances DEF Contended
<1> QED BY <1>1, <1>2

\* So does a seat.
LEMMA BookedAdvances ==
  ASSUME NEW n \in Name, NEW f \in Bookings, NEW k \in Claim, NEW s,
         ScopeOK(n, s), Fits(s.worker, k), f # "cut" => HomeOK(s),
         f = "keep" => s.claim = k, Booked(n, f, k, s)
  PROVE  Advances(n, s.worker, "none")
<1>0. k # None  BY LedgerAssumption DEF Claim
<1>1. CASE f = "join"
  <2>1. PassOK(n, "verify", s, Calling("join", k))
    BY <1>0, <1>1 DEF PassOK, ScopeOK, Calling, Call, At, Bookings, Releases
  <2> QED BY <1>1, <2>1 DEF Booked, Advances, Releasing
<1>2. CASE f = "cut"
  <2>1. PassOK(n, "cut", s, NoCall)
    BY <1>2 DEF PassOK, ScopeOK, NoCall, Call, At
  <2> QED BY <1>2, <2>1 DEF Booked, Advances, Releasing
<1>3. CASE f = "keep"
  <2>1. PassOK(n, "pod", s, NoCall) /\ PassOK(n, "record", s, NoCall)
    BY <1>0, <1>3 DEF PassOK, ScopeOK, NoCall, Call, At
  <2>2. \/ Step(n, "pod", s, NoCall)
        \/ Step(n, "record", s, NoCall)
    BY <1>3 DEF Booked
  <2> QED BY <2>1, <2>2 DEF Advances, Releasing
<1> QED BY <1>1, <1>2, <1>3 DEF Bookings

\* So does ensureSeat.
LEMMA EnsureSeatAdvances ==
  ASSUME TypeOK, NEW n \in Name, NEW f \in Bookings, NEW k \in Claim, NEW s,
         ScopeOK(n, s), Fits(s.worker, k), f # "cut" => HomeOK(s),
         f = "keep" => s.claim = k, EnsureSeat(n, f, k, s)
  PROVE  Advances(n, s.worker, "none")
<1>0. k # None  BY LedgerAssumption DEF Claim
<1>1. CASE Contended(n, f, s)
  BY <1>1, ContendedAdvances
<1>2. CASE Booked(n, f, k, s)
  BY <1>2, BookedAdvances
<1>3. CASE Step(n, "booking", s, [for |-> f, claim |-> k, seen |-> ledger[k]])
  <2>1. PassOK(n, "booking", s, [for |-> f, claim |-> k, seen |-> ledger[k]])
    BY <1>0 DEF PassOK, ScopeOK, Call, At, TypeOK
  <2> QED BY <1>3, <2>1 DEF Advances, Releasing
<1> QED BY <1>1, <1>2, <1>3 DEF EnsureSeat

\* And the end of releaseSeatAndReclaim.
LEMMA ReleasedAdvances ==
  ASSUME NEW n \in Name, NEW f \in Releases, NEW k \in Claim, NEW s,
         ScopeOK(n, s), HomeOK(s), Released(n, f, k, s)
  PROVE  Advances(n, s.worker, f)
<1>0. NoCall \in Call /\ NoCall.for = "none"
  BY DEF NoCall, Call
<1>1. \A todo \in SUBSET Claim : ScopeOK(n, [s EXCEPT !.todo = todo])
                              /\ HomeOK([s EXCEPT !.todo = todo])
  BY DEF ScopeOK, Scope, HomeOK
<1>2. Strays(n, s.worker, None) \subseteq Claim
  BY DEF Strays, SeatedClaims
<1>3. s.todo \ {k} \subseteq Claim
  BY DEF ScopeOK, Scope
<1>4. \A pc \in {"strays", "leave", "clear", "alone"}, todo \in SUBSET Claim :
        PassOK(n, pc, [s EXCEPT !.todo = todo], NoCall)
  BY <1>0, <1>1 DEF PassOK, ScopeOK, At
<1>5. \A pc \in {"clear", "alone"} : PassOK(n, pc, s, NoCall)
  BY <1>0 DEF PassOK, ScopeOK, At
<1>6. \E pc \in {"strays", "leave", "clear", "alone"} :
        /\ pc = "leave" => f = "teardown"
        /\ \/ \E todo \in SUBSET Claim :
                Step(n, pc, [s EXCEPT !.todo = todo], NoCall)
           \/ pc \in {"clear", "alone"} /\ Step(n, pc, s, NoCall)
  BY <1>2, <1>3 DEF Released, Releases
<1>7. \A todo : [s EXCEPT !.todo = todo].worker = s.worker
  BY DEF ScopeOK, Scope
<1> QED BY <1>4, <1>5, <1>6, <1>7 DEF Advances, Releasing

\* And releaseSeatAndReclaim itself.
LEMMA ReleaseSeatAdvances ==
  ASSUME TypeOK, NEW n \in Name, NEW f \in Releases, NEW k \in Claim, NEW s,
         ScopeOK(n, s), HomeOK(s), ReleaseSeat(n, f, k, s)
  PROVE  Advances(n, s.worker, f)
<1>0. k # None  BY LedgerAssumption DEF Claim
<1>1. CASE Released(n, f, k, s)
  BY <1>1, ReleasedAdvances
<1>2. CASE Step(n, "reclaim", s, Calling(f, k))
  <2>1. PassOK(n, "reclaim", s, Calling(f, k))
    BY <1>0 DEF PassOK, ScopeOK, Call, At, Calling, Releases
  <2> QED BY <1>2, <2>1 DEF Advances, Releasing, Calling
<1>3. CASE Step(n, "unseating", s,
                [for |-> f, claim |-> k, seen |-> ledger[k]])
  <2>1. PassOK(n, "unseating", s,
               [for |-> f, claim |-> k, seen |-> ledger[k]])
    BY <1>0 DEF PassOK, ScopeOK, Call, At, TypeOK, Releases
  <2> QED BY <1>3, <2>1 DEF Advances, Releasing
<1> QED BY <1>1, <1>2, <1>3 DEF ReleaseSeat

-------------------------------------------------------------------------------
\* Claims that take others are claims of workers that are not exclusive.
LEMMA EligibleFits ==
  ASSUME SeatsFit, NEW w \in Worker, NEW k \in Eligible(w)
  PROVE  k \in Claim /\ Fits(w, k)
<1>1. k \in Claim /\ w \notin Exclusive /\ ledger[k] # {}
      /\ ledger[k] \cap Exclusive = {}
  BY DEF Eligible, ExclusiveSeats
<1>2. PICK o \in ledger[k] : o \notin Exclusive
  BY <1>1
<1>3. Fits(o, k)
  BY <1>1, <1>2 DEF SeatsFit
<1> QED BY <1>1, <1>2, <1>3 DEF Fits

\* The first reads of a pass.
LEMMA BeginAdvances ==
  ASSUME LedgerInv, NEW n \in Name, Begin(n)
  PROVE  \E w \in Worker : Advances(n, w, "none") /\ cr'[w] = "held"
<1>0. None \notin Worker /\ Claim = Worker
  BY LedgerAssumption DEF Claim
<1>1. PICK w \in Worker, stuck \in BOOLEAN :
        LET p == PodView(n)
            k == IF p = None THEN status[w] ELSE p.claim
            home == IF k = None THEN "none" ELSE Shown(claim[k])
            lost == k # None /\ home = "none"
        IN  /\ Present(n, w)
            /\ cr' = [cr EXCEPT ![w] = "held"]
            /\ p # None => Owns(w, p)
            /\ Step(n, IF lost THEN "confirm" ELSE "strays",
                    [worker |-> w, claim |-> k, home |-> home,
                     label |-> IF p = None THEN None ELSE p.claim,
                     stuck |-> stuck, hidden |-> {},
                     shared |-> IF MayJoin(IF lost THEN None ELSE k,
                                           home, stuck)
                                THEN Eligible(w) ELSE {},
                     todo |-> IF lost THEN {} ELSE Strays(n, w, k)],
                    NoCall)
  BY DEF Begin
<1> DEFINE p == PodView(n)
           k == IF p = None THEN status[w] ELSE p.claim
           home == IF k = None THEN "none" ELSE Shown(claim[k])
           lost == k # None /\ home = "none"
           label == IF p = None THEN None ELSE p.claim
           shared == IF MayJoin(IF lost THEN None ELSE k, home, stuck)
                     THEN Eligible(w) ELSE {}
           todo == IF lost THEN {} ELSE Strays(n, w, k)
           pc == IF lost THEN "confirm" ELSE "strays"
           s == [worker |-> w, claim |-> k, home |-> home, label |-> label,
                 stuck |-> stuck, hidden |-> {}, shared |-> shared,
                 todo |-> todo]
<1>2. p = None \/ (p \in Pod /\ p.worker = w /\ Fits(w, p.claim))
  BY <1>1 DEF PodView, LedgerInv, TypeOK, PodsOK, PodOK, Owns
<1>3. k \in Claim \cup {None} /\ (k # None => Fits(w, k))
  BY <1>2 DEF LedgerInv, TypeOK, StatusFits, Pod
<1>4. label \in Claim \cup {None}
  BY <1>2 DEF Pod
<1>5. home \in {"none", "pending", "allocated"} /\ (home # "none" => k # None)
  BY <1>3 DEF LedgerInv, TypeOK, Shown
<1>6. shared \in SUBSET Claim /\ \A j \in shared : Fits(w, j)
  <2>1. \A j \in Eligible(w) : j \in Claim /\ Fits(w, j)
    BY EligibleFits DEF LedgerInv
  <2> QED BY <2>1
<1>7. todo \in SUBSET Claim
  BY DEF Strays, SeatedClaims
<1>8. NameOf[w] = n
  BY <1>1 DEF Present
<1>9. Step(n, pc, s, NoCall)
  BY <1>1
<1>10. pc \in {"confirm", "strays"} /\ (pc = "confirm" => k # None /\ home = "none")
  OBVIOUS
<1> HIDE DEF p, k, home, lost, label, shared, todo, pc
<1>11. s \in Scope
  BY <1>3, <1>4, <1>5, <1>6, <1>7 DEF Scope
<1>12. ScopeOK(n, s) /\ HomeOK(s)
  BY <1>3, <1>5, <1>6, <1>8, <1>11 DEF ScopeOK, HomeOK
<1>13. PassOK(n, pc, s, NoCall)
  BY <1>10, <1>11, <1>12 DEF PassOK, NoCall, Call, At
<1>14. s.worker = w /\ cr'[w] = "held"
  BY <1>1 DEF LedgerInv, TypeOK
<1>15. Releasing(pc, NoCall, "none")
  BY <1>10 DEF Releasing
<1> HIDE DEF s
<1> QED BY <1>9, <1>13, <1>14, <1>15 DEF Advances

\* For which worker, and which release, a step of the pass of n can be.
WorkerFor(n, w) ==
  \/ w = scope[n].worker
  \/ w \in Worker /\ cr'[w] \in {"held", "deleting"}
ReleaseFor(n, f) ==
  \/ f = "none"
  \/ f = "stray" /\ ReleaseStray(n)
  \/ f = "teardown" /\ (BeginTeardown(n) \/ LeaveSeat(n))
  \/ /\ f = call[n].for
     /\ Unseat(n) \/ UnseatWrite(n) \/ UnseatConflict(n) \/ Reclaim(n)

\* The pass of n takes a step like that.
Leads(n) == \E w, f : Advances(n, w, f) /\ WorkerFor(n, w) /\ ReleaseFor(n, f)

\* Every step of a pass leads to where it can go on.
LEMMA PassAdvances ==
  ASSUME LedgerInv, NEW n \in Name, Pass(n) \/ Abort(n)
  PROVE  Leads(n) \/ UNCHANGED passes
<1> DEFINE s == scope[n]
           c == call[n]
<1>0. /\ TypeOK /\ PassOK(n, at[n], s, c)
      /\ None \notin Worker /\ Claim = Worker
  BY LedgerAssumption DEF LedgerInv, PassesOK, Claim
<1>a. s \in Scope /\ (at[n] # "idle" => ScopeOK(n, s))
  BY <1>0 DEF PassOK, ScopeOK
<1>b. NoCall \in Call /\ NoCall.for = "none"
  BY DEF NoCall, Call
<1>c. ASSUME NEW f, Advances(n, s.worker, f), ReleaseFor(n, f)
      PROVE  Leads(n)
  <2>1. WorkerFor(n, s.worker)
    BY DEF WorkerFor
  <2> QED BY <1>c, <2>1 DEF Leads
<1>d. ReleaseFor(n, "none")
  BY DEF ReleaseFor
<1>e. ASSUME NEW pc, NEW t, NEW d, Step(n, pc, t, d), PassOK(n, pc, t, d),
             t.worker = s.worker, Releasing(pc, d, "none")
      PROVE  Leads(n)
  <2>1. Advances(n, s.worker, "none")
    BY <1>e DEF Advances
  <2> QED BY <1>c, <1>d, <2>1
<1>f. EndPass(n) => Leads(n)
  BY <1>c, <1>d, EndAdvances
<1>1. CASE Begin(n)
  BY <1>1, BeginAdvances DEF Leads, WorkerFor, ReleaseFor
<1>2. CASE ReplacePredecessor(n) \/ TeardownPod(n)
  BY <1>2 DEF ReplacePredecessor, TeardownPod
<1>3. CASE Confirm(n)
  <2>1. CASE EndPass(n)
    BY <2>1, <1>f
  <2>2. CASE Step(n, "unseat", [s EXCEPT !.claim = None],
                  Calling("gone", s.claim))
    <3>1. PassOK(n, "unseat", [s EXCEPT !.claim = None],
                 Calling("gone", s.claim))
      BY <1>0, <1>a, <1>3 DEF Confirm, PassOK, ScopeOK, Scope, HomeOK,
                             Calling, Call, Releases, At
    <3> QED BY <2>2, <3>1, <1>a, <1>e DEF Releasing, Calling, NoCall, ScopeOK, Scope
  <2> QED BY <1>3, <2>1, <2>2 DEF Confirm
<1>4. CASE ReleaseStray(n)
  <2>1. ScopeOK(n, s) /\ HomeOK(s)
    BY <1>0, <1>4 DEF ReleaseStray, PassOK
  <2>2. PICK k \in s.todo : ReleaseSeat(n, "stray", k, s)
    BY <1>4 DEF ReleaseStray
  <2>3. k \in Claim /\ "stray" \in Releases
    BY <2>1 DEF ScopeOK, Scope, Releases
  <2>4. Advances(n, s.worker, "stray")
    BY <1>0, <2>1, <2>2, <2>3, ReleaseSeatAdvances
  <2> QED BY <1>4, <1>c, <2>4 DEF ReleaseFor
<1>5. CASE AbandonWedged(n)
  <2>1. at[n] = "strays" /\ s.home = "allocated"
        /\ Step(n, "unseat", s, Calling("wedged", s.claim))
    BY <1>5 DEF AbandonWedged, Repaired
  <2>2. PassOK(n, "unseat", s, Calling("wedged", s.claim))
    BY <1>0, <2>1 DEF PassOK, ScopeOK, Scope, HomeOK, Calling, Call, Releases, At
  <2> QED BY <2>1, <2>2, <1>a, <1>e DEF Releasing, Calling, NoCall, ScopeOK, Scope
<1>6. CASE ClearAssignment(n) \/ SyncPod(n) \/ Leave(n) \/ Abort(n)
  BY <1>6, <1>f DEF ClearAssignment, SyncPod, Leave, Abort
<1>7. CASE Join(n)
  <2>1. PICK k \in s.shared \ {s.claim} :
          Step(n, "book", [s EXCEPT !.shared = {}], Calling("join", k))
    BY <1>7 DEF Join
  <2>2. ScopeOK(n, s) /\ HomeOK(s)
    BY <1>0, <1>7 DEF Join, Repaired, PassOK
  <2>3. k \in Claim /\ Fits(s.worker, k)
    BY <2>2 DEF ScopeOK, Scope
  <2>4. PassOK(n, "book", [s EXCEPT !.shared = {}], Calling("join", k))
    BY <1>0, <2>2, <2>3 DEF PassOK, ScopeOK, Scope, HomeOK, Calling, Call,
                           Bookings, At
  <2> QED BY <2>1, <2>4, <1>a, <1>e DEF Releasing, Calling, NoCall, ScopeOK, Scope
<1>8. CASE Verify(n)
  <2>0. at[n] = "verify" /\ ScopeOK(n, s) /\ HomeOK(s) /\ c.claim \in Claim
        /\ c \in Call /\ c.for = "join" /\ Fits(s.worker, c.claim)
    BY <1>0, <1>8 DEF Verify, PassOK, Call
  <2>1. CASE Step(n, "record", [s EXCEPT !.claim = c.claim], NoCall)
    <3>1. PassOK(n, "record", [s EXCEPT !.claim = c.claim], NoCall)
      BY <1>0, <1>b, <2>0 DEF PassOK, ScopeOK, Scope, HomeOK, At
    <3> QED BY <2>1, <3>1, <1>a, <1>e DEF Releasing, Calling, NoCall, ScopeOK, Scope
  <2>2. \A f \in {"home", "yield"} : PassOK(n, "unseat", s, Calling(f, c.claim))
    BY <1>0, <2>0 DEF PassOK, ScopeOK, Scope, Calling, Call, Releases, At
  <2>3. CASE s.claim # None /\ Step(n, "move", s, c)
    <3>1. PassOK(n, "move", s, c)
      BY <1>0, <2>0, <2>3 DEF PassOK, ScopeOK, At
    <3> QED BY <2>3, <3>1, <1>a, <1>e DEF Releasing, Calling, NoCall, ScopeOK, Scope
  <2>4. \/ Step(n, "record", [s EXCEPT !.claim = c.claim], NoCall)
        \/ Step(n, "unseat", s, Calling("home", c.claim))
        \/ Step(n, "unseat", s, Calling("yield", c.claim))
        \/ s.claim # None /\ Step(n, "move", s, c)
    BY <1>8 DEF Verify
  <2> QED BY <2>1, <2>2, <2>3, <2>4, <1>a, <1>e DEF Releasing, Calling, NoCall, ScopeOK, Scope
<1>9. CASE Move(n)
  <2>1. Step(n, "unseat", [s EXCEPT !.claim = c.claim], Calling("move", s.claim))
        /\ at[n] = "move"
    BY <1>9 DEF Move
  <2>2. PassOK(n, "unseat", [s EXCEPT !.claim = c.claim], Calling("move", s.claim))
    BY <1>0, <2>1 DEF PassOK, ScopeOK, Scope, HomeOK, Calling, Call, Releases, At
  <2> QED BY <2>1, <2>2, <1>a, <1>e DEF Releasing, Calling, NoCall, ScopeOK, Scope
<1>10. CASE Keep(n)
  <2> DEFINE t == [s EXCEPT !.home = "none", !.stuck = FALSE, !.shared = {}]
  <2>1. s.claim # None /\ EnsureSeat(n, "keep", s.claim, t)
        /\ at[n] \in {"strays", "alone"}
    BY <1>10 DEF Keep, Settling, Repaired
  <2>2. ScopeOK(n, s)
    BY <1>a, <2>1
  <2>3. ScopeOK(n, t) /\ HomeOK(t) /\ t.claim = s.claim /\ s.claim \in Claim
        /\ Fits(t.worker, s.claim)
    BY <2>1, <2>2 DEF ScopeOK, Scope, HomeOK
  <2>4. t.worker = s.worker
    BY <2>2 DEF ScopeOK, Scope
  <2> HIDE DEF t
  <2>5. "keep" \in Bookings
    BY DEF Bookings
  <2>6. Advances(n, t.worker, "none")
    BY <1>0, <2>1, <2>3, <2>5, EnsureSeatAdvances
  <2> QED BY <1>c, <1>d, <2>4, <2>6
<1>11. CASE Found(n)
  <2> DEFINE w == s.worker
             t == [s EXCEPT !.home = claim[w], !.stuck = FALSE, !.shared = {}]
  <2>1. at[n] \in {"strays", "alone"}
        /\ \/ EndPass(n)
           \/ claim[w] # "terminating" /\ EnsureSeat(n, "cut", w, t)
    BY <1>11 DEF Found, Settling, Repaired
  <2>2. ScopeOK(n, s)
    BY <1>a, <2>1
  <2>3. CASE claim[w] # "terminating" /\ EnsureSeat(n, "cut", w, t)
    <3>1. claim[w] \in {"none", "pending", "allocated"}
      BY <1>0, <2>2, <2>3 DEF TypeOK, ScopeOK
    <3>2. ScopeOK(n, t) /\ Fits(t.worker, w) /\ w \in Claim
      BY <1>0, <2>2, <3>1 DEF ScopeOK, Scope, Fits
    <3>3. "cut" \in Bookings /\ "cut" # "keep"
      BY DEF Bookings
    <3>4. t.worker = s.worker
      BY <2>2 DEF ScopeOK, Scope
    <3> HIDE DEF t
    <3>5. Advances(n, t.worker, "none")
      BY <1>0, <2>3, <3>2, <3>3, EnsureSeatAdvances
    <3> QED BY <1>c, <1>d, <3>4, <3>5
  <2> QED BY <2>1, <2>3, <1>f
<1>12. CASE CutClaim(n)
  <2> DEFINE t == [s EXCEPT !.claim = s.worker, !.home = "none"]
  <2>1. at[n] = "cut" /\ (EndPass(n) \/ Step(n, "record", t, NoCall))
    BY <1>12 DEF CutClaim
  <2>2. PassOK(n, "record", t, NoCall)
    BY <1>0, <1>a, <1>b, <2>1 DEF PassOK, ScopeOK, Scope, HomeOK, Fits, At
  <2>3. t.worker = s.worker
    BY <1>a, <2>1 DEF ScopeOK, Scope
  <2>4. Releasing("record", NoCall, "none")
    BY DEF Releasing
  <2> HIDE DEF t
  <2> QED BY <2>1, <2>2, <2>3, <2>4, <1>f, <1>e
<1>13. CASE Record(n)
  <2>1. at[n] = "record" /\ Step(n, "pod", s, NoCall)
    BY <1>13 DEF Record
  <2>2. PassOK(n, "pod", s, NoCall)
    BY <1>0, <1>b, <2>1 DEF PassOK, ScopeOK, At
  <2> QED BY <2>1, <2>2, <1>a, <1>e DEF Releasing, Calling, NoCall, ScopeOK, Scope
<1>14. CASE Book(n) \/ BookWrite(n) \/ BookConflict(n)
  <2>1. at[n] \in {"book", "booking"}
    BY <1>14 DEF Book, BookWrite, BookConflict
  <2>2. /\ c.for \in Bookings /\ c.claim \in Claim /\ ScopeOK(n, s)
        /\ c.for # "cut" => HomeOK(s)
        /\ c.for = "keep" => s.claim = c.claim
        /\ Fits(s.worker, c.claim)
    BY <1>0, <2>1 DEF PassOK, Call
  <2>3. CASE EnsureSeat(n, c.for, c.claim, s)
    BY <1>0, <2>2, <2>3, EnsureSeatAdvances, <1>c, <1>d
  <2>4. CASE Booked(n, c.for, c.claim, s)
    BY <2>2, <2>4, BookedAdvances, <1>c, <1>d
  <2>5. CASE Contended(n, c.for, s)
    BY <2>2, <2>5, ContendedAdvances, <1>c, <1>d
  <2>6. CASE Step(n, "book", s, Calling(c.for, c.claim))
    <3>1. PassOK(n, "book", s, Calling(c.for, c.claim))
      BY <1>0, <2>2 DEF PassOK, ScopeOK, Calling, Call, At
    <3> QED BY <2>6, <3>1, <1>a, <1>e DEF Releasing, Calling, NoCall, ScopeOK, Scope
  <2> QED BY <1>14, <2>3, <2>4, <2>5, <2>6 DEF Book, BookWrite, BookConflict
<1>15. CASE Unseat(n) \/ UnseatWrite(n) \/ UnseatConflict(n) \/ Reclaim(n)
  <2>1. at[n] \in {"unseat", "unseating", "reclaim"}
    BY <1>15 DEF Unseat, UnseatWrite, UnseatConflict, Reclaim
  <2>2. /\ c.for \in Releases /\ c.claim \in Claim /\ ScopeOK(n, s) /\ HomeOK(s)
    BY <1>0, <2>1 DEF PassOK, Call
  <2>0. ReleaseFor(n, c.for)
    BY <1>15 DEF ReleaseFor
  <2>3. CASE ReleaseSeat(n, c.for, c.claim, s)
    BY <1>0, <1>c, <2>0, <2>2, <2>3, ReleaseSeatAdvances
  <2>4. CASE Released(n, c.for, c.claim, s)
    BY <1>c, <2>0, <2>2, <2>4, ReleasedAdvances
  <2>5. ASSUME NEW pc \in {"unseat", "reclaim"},
               Step(n, pc, s, Calling(c.for, c.claim))
        PROVE  Leads(n)
    <3>1. PassOK(n, pc, s, Calling(c.for, c.claim))
      BY <1>0, <2>2 DEF PassOK, ScopeOK, Calling, Call, At, Releases
    <3>2. Releasing(pc, Calling(c.for, c.claim), c.for)
      BY DEF Releasing, Calling
    <3>3. Advances(n, s.worker, c.for)
      BY <2>5, <3>1, <3>2 DEF Advances
    <3> QED BY <1>c, <2>0, <3>3
  <2> QED BY <1>15, <2>3, <2>4, <2>5
          DEF Unseat, UnseatWrite, UnseatConflict, Reclaim
<1>16. CASE BeginTeardown(n)
  <2>1. PICK w \in Worker : /\ NameOf[w] = n
                            /\ cr[w] = "deleting"
                            /\ Step(n, "leave", TeardownScope(w), NoCall)
    BY <1>16 DEF BeginTeardown
  <2> DEFINE t == TeardownScope(w)
  <2>2. /\ SeatsToRelease(w) \in SUBSET Claim
        /\ Hidden(w) \in SUBSET {"pod", "seat"}
    BY <1>0 DEF SeatsToRelease, SeatedClaims, TypeOK, Hidden
  <2>3. PassOK(n, "leave", t, NoCall) /\ t.worker = w
    BY <1>b, <2>1, <2>2 DEF TeardownScope, PassOK, NoScope, ScopeOK, Scope,
                            HomeOK, At
  <2>4. Releasing("leave", NoCall, "teardown")
    BY DEF Releasing
  <2>5. WorkerFor(n, w)
    BY <1>16, <2>1 DEF WorkerFor, BeginTeardown, objects
  <2>6. ReleaseFor(n, "teardown")
    BY <1>16 DEF ReleaseFor
  <2> HIDE DEF t
  <2>7. Advances(n, w, "teardown")
    BY <2>1, <2>3, <2>4 DEF Advances, t
  <2> QED BY <2>5, <2>6, <2>7 DEF Leads
<1>17. CASE LeaveSeat(n)
  <2>1. ScopeOK(n, s) /\ HomeOK(s)
    BY <1>0, <1>17 DEF LeaveSeat, PassOK
  <2>2. PICK k \in s.todo : ReleaseSeat(n, "teardown", k, s)
    BY <1>17 DEF LeaveSeat
  <2>3. k \in Claim /\ "teardown" \in Releases
    BY <2>1 DEF ScopeOK, Scope, Releases
  <2>4. Advances(n, s.worker, "teardown")
    BY <1>0, <2>1, <2>2, <2>3, ReleaseSeatAdvances
  <2> QED BY <1>17, <1>c, <2>4 DEF ReleaseFor
<1> QED
  BY <1>1, <1>2, <1>3, <1>4, <1>5, <1>6, <1>7, <1>8, <1>9, <1>10, <1>11, <1>12,
     <1>13, <1>14, <1>15, <1>16, <1>17 DEF Pass

-------------------------------------------------------------------------------
(***************************************************************************)
(* Objects.                                                                *)
(***************************************************************************)
\* Which steps write what.
LEMMA Writers ==
  ASSUME [Next]_vars
  PROVE  /\ \/ UNCHANGED passes
            \/ \E n \in Name : Pass(n) \/ Abort(n)
         /\ \/ UNCHANGED ledger
            \/ \E n \in Name : BookWrite(n) \/ UnseatWrite(n)
         /\ \/ UNCHANGED status
            \/ \E n \in Name : ClearAssignment(n) \/ Move(n) \/ Record(n)
                               \/ Leave(n)
         /\ \/ UNCHANGED pod
            \/ \E n \in Name : ReplacePredecessor(n) \/ AbandonWedged(n)
                               \/ SyncPod(n) \/ TeardownPod(n) \/ Schedule(n)
                               \/ Evict(n) \/ PodStopped(n) \/ CollectPod(n)
         /\ \/ UNCHANGED cr
            \/ \E n \in Name : Begin(n) \/ ReplacePredecessor(n) \/ Leave(n)
            \/ \E w \in Worker : Submit(w) \/ Withdraw(w)
         /\ \/ UNCHANGED claim
            \/ \E n \in Name : CutClaim(n) \/ Reclaim(n) \/ Schedule(n)
            \/ \E k \in Claim : ClaimFreed(k) \/ CollectClaim(k)
         /\ \/ UNCHANGED owned
            \/ \E n \in Name : CutClaim(n) \/ UnseatWrite(n)
         /\ \/ UNCHANGED podCache
            \/ \E n \in Name : PodEvent(n)
         /\ \/ UNCHANGED seatCache
            \/ \E k \in Claim : SeatEvent(k)
<1>1. CASE UNCHANGED vars
  BY <1>1 DEF vars, objects, caches, passes
<1>2. ASSUME NEW n \in Name, Pass(n)
      PROVE  /\ UNCHANGED ledger \/ BookWrite(n) \/ UnseatWrite(n)
             /\ UNCHANGED status \/ ClearAssignment(n) \/ Move(n) \/ Record(n)
                \/ Leave(n)
             /\ UNCHANGED pod \/ ReplacePredecessor(n) \/ AbandonWedged(n)
                \/ SyncPod(n) \/ TeardownPod(n)
             /\ UNCHANGED cr \/ Begin(n) \/ ReplacePredecessor(n) \/ Leave(n)
             /\ UNCHANGED claim \/ CutClaim(n) \/ Reclaim(n)
             /\ UNCHANGED owned \/ CutClaim(n) \/ UnseatWrite(n)
             /\ UNCHANGED caches
  <2>1. CASE Begin(n) \/ ReplacePredecessor(n) \/ Confirm(n) \/ ReleaseStray(n)
             \/ AbandonWedged(n) \/ ClearAssignment(n)
    BY <2>1 DEF Begin, ReplacePredecessor, Confirm, ReleaseStray,
                AbandonWedged, ClearAssignment, objects
  <2>2. CASE Join(n) \/ Verify(n) \/ Move(n) \/ Keep(n) \/ Found(n)
    BY <2>2 DEF Join, Verify, Move, Keep, Found, objects
  <2>3. CASE CutClaim(n) \/ Record(n) \/ SyncPod(n) \/ Book(n) \/ BookWrite(n)
             \/ BookConflict(n)
    BY <2>3 DEF CutClaim, Record, SyncPod, Book, BookWrite, BookConflict, objects
  <2>4. CASE Unseat(n) \/ UnseatWrite(n) \/ UnseatConflict(n) \/ Reclaim(n)
    BY <2>4 DEF Unseat, UnseatWrite, UnseatConflict, Reclaim, objects
  <2>5. CASE TeardownPod(n) \/ BeginTeardown(n) \/ LeaveSeat(n) \/ Leave(n)
    BY <2>5 DEF TeardownPod, BeginTeardown, LeaveSeat, Leave, objects
  <2> QED BY <1>2, <2>1, <2>2, <2>3, <2>4, <2>5 DEF Pass
<1>3. ASSUME NEW n \in Name, Abort(n)
      PROVE  UNCHANGED objects /\ UNCHANGED caches
  BY <1>3 DEF Abort
<1>4. ASSUME NEW w \in Worker, Submit(w) \/ Withdraw(w)
      PROVE  UNCHANGED <<status, ledger, claim, owned, pod, caches, passes>>
  BY <1>4 DEF Submit, Withdraw
<1>5. ASSUME Cluster
      PROVE  /\ UNCHANGED <<cr, status, ledger, owned, passes>>
             /\ \/ UNCHANGED pod
                \/ \E n \in Name : Schedule(n) \/ Evict(n) \/ PodStopped(n)
                                   \/ CollectPod(n)
             /\ \/ UNCHANGED claim
                \/ \E n \in Name : Schedule(n)
                \/ \E k \in Claim : ClaimFreed(k) \/ CollectClaim(k)
             /\ UNCHANGED podCache \/ \E n \in Name : PodEvent(n)
             /\ UNCHANGED seatCache \/ \E k \in Claim : SeatEvent(k)
  BY <1>5 DEF Cluster, Schedule, Evict, PodStopped, CollectPod, PodEvent,
              ClaimFreed, CollectClaim, SeatEvent, objects, caches
<1> QED BY <1>1, <1>2, <1>3, <1>4, <1>5 DEF Next, objects, caches

\* A pass that advances leaves the passes of the others alone.
LEMMA AdvancedPasses ==
  ASSUME LedgerInv, NEW n \in Name, Leads(n)
  PROVE  /\ at' \in [Name -> At]
         /\ scope' \in [Name -> Scope]
         /\ call' \in [Name -> Call]
         /\ PassesOK'
<1>1. PICK pc, s, c : Step(n, pc, s, c) /\ PassOK(n, pc, s, c)
  BY DEF Leads, Advances
<1>2. pc \in At /\ s \in Scope /\ c \in Call
  BY <1>1 DEF PassOK
<1>3. at \in [Name -> At] /\ scope \in [Name -> Scope] /\ call \in [Name -> Call]
  BY DEF LedgerInv, TypeOK, Scope, Call
<1>4. /\ at' = [at EXCEPT ![n] = pc]
      /\ scope' = [scope EXCEPT ![n] = s]
      /\ call' = [call EXCEPT ![n] = c]
  BY <1>1 DEF Step
<1>5. ASSUME NEW m \in Name
      PROVE  PassOK(m, at'[m], scope'[m], call'[m])
  <2>1. CASE m = n
    <3>1. at'[m] = pc /\ scope'[m] = s /\ call'[m] = c
      BY <1>3, <1>4, <2>1
    <3> QED BY <1>1, <2>1, <3>1
  <2>2. CASE m # n
    <3>1. at'[m] = at[m] /\ scope'[m] = scope[m] /\ call'[m] = call[m]
      BY <1>3, <1>4, <2>2
    <3> QED BY <3>1 DEF LedgerInv, PassesOK
  <2> QED BY <2>1, <2>2
<1>6. PassesOK'
  BY <1>5 DEF PassesOK
<1> QED BY <1>2, <1>3, <1>4, <1>6

\* A booking adds the worker's seat and replaces the one under its name.
LEMMA BookWriteEffect ==
  ASSUME LedgerInv, NEW n \in Name, BookWrite(n)
  PROVE  LET k == call[n].claim
             w == scope[n].worker
         IN  /\ k \in Claim /\ w \in Worker /\ NameOf[w] = n /\ Fits(w, k)
             /\ ledger' = [ledger EXCEPT ![k] = WithoutName(ledger[k], n) \cup {w}]
<1>1. PassOK(n, at[n], scope[n], call[n]) /\ at[n] = "booking"
  BY DEF LedgerInv, PassesOK, BookWrite
<1> QED BY <1>1 DEF PassOK, ScopeOK, Call, BookWrite, Current, WithSeat

\* A release removes the seat under the name.
LEMMA UnseatWriteEffect ==
  ASSUME LedgerInv, NEW n \in Name, UnseatWrite(n)
  PROVE  LET k == call[n].claim
         IN  /\ k \in Claim
             /\ ledger' = [ledger EXCEPT ![k] = WithoutName(ledger[k], n)]
<1>1. PassOK(n, at[n], scope[n], call[n]) /\ at[n] = "unseating"
  BY DEF LedgerInv, PassesOK, UnseatWrite
<1> QED BY <1>1 DEF PassOK, Call, UnseatWrite, Current

\* Ledgers stay well formed.
LEMMA SeatsStep ==
  ASSUME LedgerInv, [Next]_vars
  PROVE  ledger' \in [Claim -> SUBSET Worker] /\ SeatsFit'
<1>0. ledger \in [Claim -> SUBSET Worker] /\ SeatsFit
  BY DEF LedgerInv, TypeOK
<1>1. CASE UNCHANGED ledger
  BY <1>0, <1>1 DEF SeatsFit
<1>2. ASSUME NEW n \in Name, BookWrite(n) \/ UnseatWrite(n)
      PROVE  ledger' \in [Claim -> SUBSET Worker] /\ SeatsFit'
  <2> DEFINE k == call[n].claim
             w == scope[n].worker
             kept == WithoutName(ledger[k], n)
  <2>1. kept \subseteq ledger[k]
    BY DEF WithoutName
  <2>2. PICK seats : /\ ledger' = [ledger EXCEPT ![k] = seats]
                     /\ k \in Claim
                     /\ seats \subseteq Worker
                     /\ \A v \in seats : v \in ledger[k] \/ Fits(v, k)
    BY <1>0, <1>2, <2>1, BookWriteEffect, UnseatWriteEffect
  <2> HIDE DEF k, kept, w
  <2> QED BY <1>0, <2>2 DEF SeatsFit
<1> QED BY <1>1, <1>2, Writers

\* Statuses stay well formed.
LEMMA StatusStep ==
  ASSUME LedgerInv, [Next]_vars
  PROVE  status' \in [Worker -> Claim \cup {None}] /\ StatusFits'
<1>0. status \in [Worker -> Claim \cup {None}] /\ StatusFits
  BY DEF LedgerInv, TypeOK
<1>1. CASE UNCHANGED status
  BY <1>0, <1>1 DEF StatusFits
<1>2. ASSUME NEW n \in Name, NEW k \in Claim \cup {None},
             k # None => Fits(scope[n].worker, k),
             status' = [status EXCEPT ![scope[n].worker] = k]
      PROVE  status' \in [Worker -> Claim \cup {None}] /\ StatusFits'
  BY <1>0, <1>2 DEF StatusFits
<1>3. ASSUME NEW n \in Name,
             ClearAssignment(n) \/ Move(n) \/ Record(n) \/ Leave(n)
      PROVE  status' \in [Worker -> Claim \cup {None}] /\ StatusFits'
  <2>1. PassOK(n, at[n], scope[n], call[n])
    BY DEF LedgerInv, PassesOK
  <2>2. CASE ClearAssignment(n) \/ Leave(n)
    <3>1. UNCHANGED status \/ status' = [status EXCEPT ![scope[n].worker] = None]
      BY <2>2 DEF ClearAssignment, Leave, PatchStatus
    <3> QED BY <1>1, <1>2, <3>1
  <2>3. CASE Move(n)
    <3>1. call[n].claim \in Claim /\ Fits(scope[n].worker, call[n].claim)
      BY <2>1, <2>3 DEF Move, PassOK, Call
    <3>2. \/ UNCHANGED status
          \/ status' = [status EXCEPT ![scope[n].worker] = call[n].claim]
      BY <2>3 DEF Move, PatchStatus
    <3> QED BY <1>1, <1>2, <3>1, <3>2
  <2>4. CASE Record(n)
    <3>1. scope[n].claim \in Claim /\ Fits(scope[n].worker, scope[n].claim)
      BY <2>1, <2>4 DEF Record, PassOK, ScopeOK, Scope
    <3>2. \/ UNCHANGED status
          \/ status' = [status EXCEPT ![scope[n].worker] = scope[n].claim]
      BY <2>4 DEF Record, PatchStatus
    <3> QED BY <1>1, <1>2, <3>1, <3>2
  <2> QED BY <1>3, <2>2, <2>3, <2>4
<1> QED BY <1>1, <1>3, Writers

\* A pod that is deleted is gone, or is the same and stopping.
LEMMA DeletePodEffect ==
  ASSUME TypeOK, NEW n \in Name, DeletePod(n)
  PROVE  /\ pod' \in [Name -> Pod \cup {None}]
         /\ \A m \in Name \ {n} : pod'[m] = pod[m]
         /\ \/ pod'[n] = None
            \/ /\ pod[n] # None /\ pod'[n] # None
               /\ pod'[n].worker = pod[n].worker
               /\ pod'[n].claim = pod[n].claim
<1>1. pod \in [Name -> Pod \cup {None}]
  BY DEF TypeOK
<1>2. CASE pod[n] = None \/ pod[n].state = "pending"
  <2>1. pod' = [pod EXCEPT ![n] = None]
    BY <1>2 DEF DeletePod
  <2> QED BY <1>1, <2>1
<1>3. CASE ~(pod[n] = None \/ pod[n].state = "pending")
  <2> DEFINE p == [pod[n] EXCEPT !.state = "stopping"]
  <2>1. pod' = [pod EXCEPT ![n] = p]
    BY <1>3 DEF DeletePod
  <2>2. p \in Pod /\ p.worker = pod[n].worker /\ p.claim = pod[n].claim
    BY <1>1, <1>3 DEF Pod
  <2>3. pod'[n] = p /\ \A m \in Name \ {n} : pod'[m] = pod[m]
    BY <1>1, <2>1
  <2>4. CASE p = None
    BY <1>1, <2>1, <2>3, <2>4
  <2>5. CASE p # None
    <3> HIDE DEF p
    <3>1. pod[n] # None
      BY <1>3
    <3> QED BY <1>1, <2>1, <2>2, <2>3, <2>5, <3>1
  <2> QED BY <2>4, <2>5
<1> QED BY <1>2, <1>3

\* Who a pod belongs to, and which claim it uses, are set when it is created,
\* by a pass that is through with its claim and its seat.
LEMMA PodEffect ==
  ASSUME LedgerInv, [Next]_vars
  PROVE  /\ pod' \in [Name -> Pod \cup {None}]
         /\ \A n \in Name :
              \/ pod'[n] = None
              \/ /\ pod[n] # None
                 /\ pod'[n].worker = pod[n].worker
                 /\ pod'[n].claim = pod[n].claim
              \/ /\ at[n] = "pod"
                 /\ pod'[n].worker = scope[n].worker
                 /\ pod'[n].claim = scope[n].claim
<1> DEFINE Good == 
         /\ pod' \in [Name -> Pod \cup {None}]
         /\ \A n \in Name :
              \/ pod'[n] = None
              \/ /\ pod[n] # None
                 /\ pod'[n].worker = pod[n].worker
                 /\ pod'[n].claim = pod[n].claim
              \/ /\ at[n] = "pod"
                 /\ pod'[n].worker = scope[n].worker
                 /\ pod'[n].claim = scope[n].claim
<1>0. pod \in [Name -> Pod \cup {None}] /\ TypeOK
  BY DEF LedgerInv, TypeOK
<1>1. CASE UNCHANGED pod
  BY <1>0, <1>1
<1>2. ASSUME NEW n \in Name, DeletePod(n)
      PROVE  Good
  BY <1>0, <1>2, DeletePodEffect
<1>3. ASSUME NEW n \in Name, SyncPod(n)
      PROVE  Good
  <2>1. PassOK(n, at[n], scope[n], call[n]) /\ at[n] = "pod"
    BY <1>3 DEF LedgerInv, PassesOK, SyncPod
  <2>2. scope[n].worker \in Worker /\ scope[n].claim \in Claim
    BY <2>1 DEF PassOK, ScopeOK, Scope
  <2> DEFINE p == [worker |-> scope[n].worker, claim |-> scope[n].claim,
                   state |-> "pending"]
  <2>3. p \in Pod /\ p.worker = scope[n].worker /\ p.claim = scope[n].claim
    BY <2>2 DEF Pod
  <2>4. \/ UNCHANGED pod
        \/ DeletePod(n)
        \/ pod' = [pod EXCEPT ![n] = IF pod[n] # None THEN pod[n] ELSE p]
    BY <1>3 DEF SyncPod
  <2>5. CASE pod' = [pod EXCEPT ![n] = IF pod[n] # None THEN pod[n] ELSE p]
    <3> HIDE DEF p
    <3> QED BY <1>0, <2>1, <2>3, <2>5
  <2> QED BY <1>1, <1>2, <2>4, <2>5
<1>4. ASSUME NEW n \in Name, Schedule(n)
      PROVE  Good
  <2> DEFINE p == [pod[n] EXCEPT !.state = "running"]
  <2>1. pod[n] # None /\ pod' = [pod EXCEPT ![n] = p]
    BY <1>4 DEF Schedule
  <2>2. p \in Pod /\ p.worker = pod[n].worker /\ p.claim = pod[n].claim
    BY <1>0, <2>1 DEF Pod
  <2> HIDE DEF p
  <2> QED BY <1>0, <2>1, <2>2
<1>5. ASSUME NEW n \in Name, PodStopped(n)
      PROVE  Good
  BY <1>0, <1>5 DEF PodStopped
<1>6. ASSUME NEW n \in Name,
             ReplacePredecessor(n) \/ AbandonWedged(n) \/ TeardownPod(n)
             \/ Evict(n) \/ CollectPod(n)
      PROVE  DeletePod(n) \/ UNCHANGED pod
  BY <1>6 DEF ReplacePredecessor, AbandonWedged, TeardownPod, Evict, CollectPod
<1> QED BY <1>1, <1>2, <1>3, <1>4, <1>5, <1>6, Writers

\* Pods, and what the informer saw of them, stay well formed.
LEMMA PodsStep ==
  ASSUME LedgerInv, [Next]_vars
  PROVE  /\ pod' \in [Name -> Pod \cup {None}]
         /\ podCache' \in [Name -> Pod \cup {None}]
         /\ PodsOK'
<1>0. /\ podCache \in [Name -> Pod \cup {None}]
      /\ \A n \in Name : PodOK(n, pod[n]) /\ PodOK(n, podCache[n])
      /\ pod \in [Name -> Pod \cup {None}]
  BY DEF LedgerInv, TypeOK, PodsOK
<1>1. pod' \in [Name -> Pod \cup {None}]
  BY PodEffect
<1>2. ASSUME NEW n \in Name
      PROVE  PodOK(n, pod'[n])
  <2>1. PassOK(n, at[n], scope[n], call[n])
    BY DEF LedgerInv, PassesOK
  <2>2. at[n] = "pod" => /\ NameOf[scope[n].worker] = n
                         /\ Fits(scope[n].worker, scope[n].claim)
    BY <2>1 DEF PassOK, ScopeOK
  <2> QED BY <1>0, <2>2, PodEffect DEF PodOK
<1>3. /\ podCache' \in [Name -> Pod \cup {None}]
      /\ \A n \in Name : podCache'[n] = podCache[n] \/ podCache'[n] = pod[n]
  <2>1. CASE UNCHANGED podCache
    BY <1>0, <2>1
  <2>2. ASSUME NEW n \in Name, PodEvent(n)
        PROVE  /\ podCache' \in [Name -> Pod \cup {None}]
               /\ \A m \in Name : podCache'[m] = podCache[m] \/ podCache'[m] = pod[m]
    BY <1>0, <2>2 DEF PodEvent
  <2> QED BY <2>1, <2>2, Writers
<1>4. PodsOK'
  BY <1>0, <1>2, <1>3 DEF PodsOK
<1> QED BY <1>1, <1>3, <1>4

\* The other objects stay well formed.
LEMMA OthersStep ==
  ASSUME LedgerInv, [Next]_vars
  PROVE  /\ cr' \in [Worker -> {"none", "new", "held", "deleting", "gone"}]
         /\ claim' \in [Claim -> {"none", "pending", "allocated", "terminating"}]
         /\ owned' \in SUBSET Claim
         /\ seatCache' \in [Claim -> SUBSET Worker]
<1>0. /\ cr \in [Worker -> {"none", "new", "held", "deleting", "gone"}]
      /\ claim \in [Claim -> {"none", "pending", "allocated", "terminating"}]
      /\ owned \in SUBSET Claim
      /\ seatCache \in [Claim -> SUBSET Worker]
      /\ ledger \in [Claim -> SUBSET Worker]
      /\ Claim = Worker
  BY DEF LedgerInv, TypeOK, Claim
<1>1. cr' \in [Worker -> {"none", "new", "held", "deleting", "gone"}]
  <2>1. ASSUME NEW n \in Name, Begin(n) \/ ReplacePredecessor(n) \/ Leave(n)
        PROVE  \E w, v : /\ cr' = [cr EXCEPT ![w] = v]
                         /\ v \in {"held", "gone"}
    BY <2>1 DEF Begin, ReplacePredecessor, Leave
  <2>2. ASSUME NEW w \in Worker, Submit(w) \/ Withdraw(w)
        PROVE  \E v \in {"new", "gone", "deleting"} : cr' = [cr EXCEPT ![w] = v]
    BY <2>2 DEF Submit, Withdraw
  <2> QED BY <1>0, <2>1, <2>2, Writers
<1>2. claim' \in [Claim -> {"none", "pending", "allocated", "terminating"}]
  <2>1. ASSUME NEW k, DeletedClaim(k) \notin {"terminating", "none"}
        PROVE  FALSE
    BY <2>1 DEF DeletedClaim
  <2>2. ASSUME NEW n \in Name, CutClaim(n) \/ Reclaim(n) \/ Schedule(n)
        PROVE  \/ UNCHANGED claim
               \/ \E k, v : /\ claim' = [claim EXCEPT ![k] = v]
                            /\ v \in {"none", "pending", "allocated", "terminating"}
    <3>1. CASE CutClaim(n)
      BY <3>1 DEF CutClaim
    <3>2. CASE Reclaim(n)
      BY <2>1, <3>2 DEF Reclaim
    <3>3. CASE Schedule(n)
      BY <3>3 DEF Schedule
    <3> QED BY <2>2, <3>1, <3>2, <3>3
  <2>3. ASSUME NEW k \in Claim, ClaimFreed(k) \/ CollectClaim(k)
        PROVE  \E v \in {"none", "terminating"} : claim' = [claim EXCEPT ![k] = v]
    BY <2>1, <2>3 DEF ClaimFreed, CollectClaim
  <2> QED BY <1>0, <2>2, <2>3, Writers
<1>3. owned' \in SUBSET Claim
  <2>1. ASSUME NEW n \in Name, CutClaim(n) \/ UnseatWrite(n)
        PROVE  owned' \in SUBSET Claim
    <3>1. PassOK(n, at[n], scope[n], call[n])
      BY DEF LedgerInv, PassesOK
    <3>2. CASE CutClaim(n)
      BY <1>0, <3>1, <3>2 DEF CutClaim, PassOK, ScopeOK
    <3>3. CASE UnseatWrite(n)
      BY <1>0, <3>3 DEF UnseatWrite
    <3> QED BY <2>1, <3>2, <3>3
  <2> QED BY <1>0, <2>1, Writers
<1>4. seatCache' \in [Claim -> SUBSET Worker]
  BY <1>0, Writers DEF SeatEvent
<1> QED BY <1>1, <1>2, <1>3, <1>4

\* LedgerInv is inductive.
LEMMA LedgerInvStep ==
  ASSUME LedgerInv, [Next]_vars
  PROVE  LedgerInv'
<1>1. /\ at' \in [Name -> At]
      /\ scope' \in [Name -> Scope]
      /\ call' \in [Name -> Call]
      /\ PassesOK'
  <2>1. CASE UNCHANGED passes
    BY <2>1 DEF passes, LedgerInv, TypeOK, PassesOK, Scope, Call
  <2>2. CASE \E n \in Name : Pass(n) \/ Abort(n)
    BY <2>1, <2>2, PassAdvances, AdvancedPasses
  <2> QED BY <2>1, <2>2, Writers
<1>2. TypeOK'
  BY <1>1, SeatsStep, StatusStep, PodsStep, OthersStep DEF TypeOK, Scope, Call
<1> QED BY <1>1, <1>2, SeatsStep, StatusStep, PodsStep DEF LedgerInv

\* Whatever the constants, the lagging caches and the failures, objects and
\* passes stay well formed, and nothing but an exclusive worker's own pass has
\* to do with its claim.
THEOREM LedgerInvariant == Spec => []LedgerInv
<1>1. Init => LedgerInv
  <2> SUFFICES ASSUME Init PROVE LedgerInv
    OBVIOUS
  <2>1. NoScope \in Scope /\ NoCall \in Call
    BY DEF NoScope, Scope, NoCall, Call
  <2>2. TypeOK
    BY <2>1 DEF Init, TypeOK, Scope, Call, At, Claim
  <2>3. PassesOK
    BY <2>1 DEF Init, PassesOK, PassOK, NoScope, NoCall, At, HomeOK
  <2>4. SeatsFit /\ StatusFits /\ PodsOK
    BY DEF Init, SeatsFit, StatusFits, PodsOK, PodOK
  <2> QED BY <2>2, <2>3, <2>4 DEF LedgerInv
<1>2. LedgerInv /\ [Next]_vars => LedgerInv'
  BY LedgerInvStep
<1> QED BY <1>1, <1>2, PTL DEF Spec

\* Type correctness.
THEOREM LedgerTypeCorrect == Spec => []TypeOK
<1>1. LedgerInv => TypeOK
  BY DEF LedgerInv
<1> QED BY <1>1, LedgerInvariant, PTL

\* An exclusive worker sits alone on its claim, and runs nowhere else, whatever
\* a joiner or its own reconciler reads too late.
THEOREM ExclusiveWorkersAreAlone == Spec => []ExclusiveAlone
<1>1. LedgerInv => ExclusiveAlone
  <2> SUFFICES ASSUME LedgerInv, NEW f \in Exclusive
               PROVE  /\ ledger[f] \subseteq {f}
                      /\ \A k \in Claim : f \in ledger[k] => k = f
                      /\ \A n \in Name :
                           pod[n] # None =>
                             (pod[n].worker = f <=> pod[n].claim = f)
    BY DEF ExclusiveAlone
  <2>1. f \in Claim
    BY LedgerAssumption DEF Claim
  <2>2. SeatsFit /\ PodsOK
    BY DEF LedgerInv
  <2> QED BY <2>1, <2>2 DEF SeatsFit, PodsOK, PodOK, Fits
<1> QED BY <1>1, LedgerInvariant, PTL

\* A seat goes only in a step of its own name's pass.
THEOREM SeatsGoByTheirPass == Spec => OthersSeatsStay
<1>1. ASSUME LedgerInv, [Next]_vars, NEW k \in Claim,
             NEW w \in ledger[k] \ ledger'[k]
      PROVE  at'[NameOf[w]] # at[NameOf[w]]
  <2>0. ledger \in [Claim -> SUBSET Worker] /\ at \in [Name -> At]
    BY <1>1 DEF LedgerInv, TypeOK
  <2>1. PICK n \in Name : BookWrite(n) \/ UnseatWrite(n)
    BY <1>1, Writers
  <2>2. NameOf[w] = n
    BY <1>1, <2>0, <2>1, BookWriteEffect, UnseatWriteEffect DEF WithoutName
  <2>3. PassOK(n, at[n], scope[n], call[n])
    BY <1>1 DEF LedgerInv, PassesOK
  <2>4. CASE BookWrite(n)
    <3>1. at[n] = "booking" /\ call[n].for \in Bookings
          /\ Booked(n, call[n].for, call[n].claim, scope[n])
      BY <2>3, <2>4 DEF BookWrite, PassOK
    <3>2. at'[n] # "booking"
      BY <2>0, <3>1 DEF Booked, Step, Bookings
    <3> QED BY <2>2, <3>1, <3>2
  <2>5. CASE UnseatWrite(n)
    <3>1. at[n] = "unseating" /\ call[n].for \in Releases
      BY <2>3, <2>5 DEF UnseatWrite, PassOK
    <3>2. \/ Step(n, "reclaim", scope[n], Calling(call[n].for, call[n].claim))
          \/ Released(n, call[n].for, call[n].claim, scope[n])
      BY <2>5 DEF UnseatWrite
    <3>3. at'[n] # "unseating"
      BY <2>0, <3>1, <3>2 DEF Released, Step, Releases
    <3> QED BY <2>2, <3>1, <3>3
  <2> QED BY <2>1, <2>4, <2>5
<1>2. LedgerInv /\ [Next]_vars =>
        [\A k \in Claim : \A w \in ledger[k] \ ledger'[k] :
           at'[NameOf[w]] # at[NameOf[w]]]_vars
  BY <1>1
<1> QED BY <1>2, LedgerInvariant, PTL DEF Spec, OthersSeatsStay

-------------------------------------------------------------------------------
(***************************************************************************)
(* teardown.                                                               *)
(***************************************************************************)
\* The object of a worker that a pass works for has the finalizer.
Held(w) == cr[w] \in {"held", "deleting"}
WorkersHeld == \A n \in Name : scope[n].worker # None => Held(scope[n].worker)

\* The pass of n is past the pod of a worker that is torn down.
Leaving(n) ==
  \/ at[n] = "leave"
  \/ at[n] \in {"unseat", "unseating", "reclaim"} /\ call[n].for = "teardown"

\* A step leaves the pass of a name alone, or is the pass's.
LEMMA OwnPass ==
  ASSUME LedgerInv, [Next]_vars, NEW n \in Name
  PROVE  \/ at'[n] = at[n] /\ scope'[n] = scope[n] /\ call'[n] = call[n]
         \/ Leads(n)
<1>0. /\ at \in [Name -> At]
      /\ scope \in [Name -> Scope]
      /\ call \in [Name -> Call]
  BY DEF LedgerInv, TypeOK, Scope, Call
<1>1. CASE UNCHANGED passes
  BY <1>1 DEF passes
<1>2. ASSUME NEW m \in Name, Pass(m) \/ Abort(m)
      PROVE  Leads(m) \/ UNCHANGED passes
  BY <1>2, PassAdvances
<1>3. ASSUME NEW m \in Name, m # n, Leads(m)
      PROVE  at'[n] = at[n] /\ scope'[n] = scope[n] /\ call'[n] = call[n]
  <2>1. PICK pc, s, c : Step(m, pc, s, c)
    BY <1>3 DEF Leads, Advances
  <2> QED BY <1>0, <1>3, <2>1 DEF Step
<1> QED BY <1>1, <1>2, <1>3, Writers

\* A finalizer goes with the last step of a teardown.
LEMMA HeldStep ==
  ASSUME LedgerInv, [Next]_vars, NEW w \in Worker, Held(w)
  PROVE  \/ cr'[w] \in {"held", "deleting"}
         \/ /\ at[NameOf[w]] = "leave"
            /\ scope[NameOf[w]].todo = {}
            /\ scope[NameOf[w]].worker = w
            /\ scope'[NameOf[w]] = NoScope
            /\ NameOf[w] \in Name
<1>0. cr \in [Worker -> {"none", "new", "held", "deleting", "gone"}]
      /\ scope \in [Name -> Scope]
  BY DEF LedgerInv, TypeOK, Scope
<1>1. CASE UNCHANGED cr
  BY <1>1 DEF Held
<1>2. ASSUME NEW n \in Name, Begin(n) \/ ReplacePredecessor(n)
      PROVE  cr'[w] \in {"held", "deleting"}
  <2>1. PICK v \in Worker : cr' = [cr EXCEPT ![v] = "held"]
    BY <1>2 DEF Begin, ReplacePredecessor
  <2> QED BY <1>0, <2>1 DEF Held
<1>3. ASSUME NEW n \in Name, Leave(n), cr'[w] \notin {"held", "deleting"}
      PROVE  /\ at[NameOf[w]] = "leave"
             /\ scope[NameOf[w]].todo = {}
             /\ scope[NameOf[w]].worker = w
             /\ scope'[NameOf[w]] = NoScope
             /\ NameOf[w] \in Name
  <2>1. /\ at[n] = "leave" /\ scope[n].todo = {}
        /\ cr' = [cr EXCEPT ![scope[n].worker] = "gone"]
        /\ EndPass(n)
    BY <1>3 DEF Leave
  <2>2. w = scope[n].worker
    BY <1>0, <1>3, <2>1 DEF Held
  <2>3. NameOf[w] = n
    BY <2>1, <2>2 DEF LedgerInv, PassesOK, PassOK, ScopeOK
  <2>4. scope'[n] = NoScope
    BY <1>0, <2>1 DEF EndPass, Step
  <2> QED BY <2>1, <2>2, <2>3, <2>4
<1>4. ASSUME NEW v \in Worker, Submit(v) \/ Withdraw(v)
      PROVE  cr'[w] \in {"held", "deleting"}
  BY <1>0, <1>4 DEF Held, Submit, Withdraw
<1> QED BY <1>1, <1>2, <1>3, <1>4, Writers

\* An object that is gone does not come back.
LEMMA GoneStep ==
  ASSUME LedgerInv, [Next]_vars, NEW w \in Worker, cr[w] = "gone"
  PROVE  cr'[w] = "gone"
<1>0. cr \in [Worker -> {"none", "new", "held", "deleting", "gone"}]
  BY DEF LedgerInv, TypeOK
<1>1. ASSUME NEW n \in Name, Begin(n) \/ ReplacePredecessor(n)
      PROVE  cr'[w] = "gone"
  <2>1. PICK v \in Worker : Present(n, v) /\ cr' = [cr EXCEPT ![v] = "held"]
    BY <1>1 DEF Begin, ReplacePredecessor
  <2> QED BY <1>0, <2>1 DEF Present
<1>2. ASSUME NEW n \in Name, Leave(n)
      PROVE  cr'[w] = "gone"
  BY <1>0, <1>2 DEF Leave
<1>3. ASSUME NEW v \in Worker, Submit(v) \/ Withdraw(v)
      PROVE  cr'[w] = "gone"
  BY <1>0, <1>3 DEF Submit, Withdraw
<1> QED BY <1>1, <1>2, <1>3, Writers

\* An object with the finalizer keeps it or goes.
LEMMA HeldOrGoneStep ==
  ASSUME LedgerInv, [Next]_vars, NEW w \in Worker, Held(w) \/ cr[w] = "gone"
  PROVE  cr'[w] \in {"held", "deleting", "gone"}
<1>0. cr \in [Worker -> {"none", "new", "held", "deleting", "gone"}]
  BY DEF LedgerInv, TypeOK
<1>1. CASE UNCHANGED cr
  BY <1>1 DEF Held
<1>2. ASSUME NEW n \in Name, Begin(n) \/ ReplacePredecessor(n)
      PROVE  cr'[w] \in {"held", "deleting", "gone"}
  <2>1. PICK v \in Worker : cr' = [cr EXCEPT ![v] = "held"]
    BY <1>2 DEF Begin, ReplacePredecessor
  <2> QED BY <1>0, <2>1 DEF Held
<1>3. ASSUME NEW n \in Name, Leave(n)
      PROVE  cr'[w] \in {"held", "deleting", "gone"}
  BY <1>0, <1>3 DEF Leave, Held
<1>4. ASSUME NEW v \in Worker, Submit(v) \/ Withdraw(v)
      PROVE  cr'[w] \in {"held", "deleting", "gone"}
  BY <1>0, <1>4 DEF Held, Submit, Withdraw
<1> QED BY <1>1, <1>2, <1>3, <1>4, Writers

\* WorkersHeld is inductive.
LEMMA WorkersHeldStep ==
  ASSUME LedgerInv, WorkersHeld, [Next]_vars
  PROVE  WorkersHeld'
<1> SUFFICES ASSUME NEW n \in Name, scope'[n].worker # None
             PROVE  cr'[scope'[n].worker] \in {"held", "deleting"}
  BY DEF WorkersHeld, Held
<1>0. NoScope.worker = None
  BY DEF NoScope
<1>1. ASSUME scope'[n].worker = scope[n].worker
      PROVE  cr'[scope'[n].worker] \in {"held", "deleting"}
  <2> DEFINE w == scope[n].worker
  <2>1. w # None /\ Held(w)
    BY <1>1 DEF WorkersHeld
  <2>2. PassOK(n, at[n], scope[n], call[n])
    BY DEF LedgerInv, PassesOK
  <2>3. w \in Worker /\ NameOf[w] = n
    BY <1>0, <2>1, <2>2 DEF PassOK, ScopeOK
  <2>4. cr'[w] \in {"held", "deleting"}
    BY <1>0, <1>1, <2>1, <2>3, HeldStep
  <2> QED BY <1>1, <2>4 DEF Held
<1>2. CASE Leads(n)
  <2>1. PICK w, f, pc, s, c : /\ Step(n, pc, s, c) /\ s.worker \in {w, None}
                              /\ WorkerFor(n, w)
    BY <1>2 DEF Leads, Advances
  <2>2. scope'[n] = s
    BY <2>1 DEF Step, LedgerInv, TypeOK
  <2> QED BY <1>1, <2>1, <2>2 DEF WorkerFor, Held
<1> QED BY <1>1, <1>2, OwnPass

\* A pass gets past the pod by BeginTeardown.
LEMMA LeavingStep ==
  ASSUME LedgerInv, [Next]_vars, NEW n \in Name, Leaving(n)'
  PROVE  Leaving(n) \/ BeginTeardown(n)
<1>1. CASE at'[n] = at[n] /\ call'[n] = call[n]
  BY <1>1 DEF Leaving
<1>2. CASE Leads(n)
  <2>1. PICK f, pc, s, c : /\ Step(n, pc, s, c) /\ Releasing(pc, c, f)
                           /\ ReleaseFor(n, f)
    BY <1>2 DEF Leads, Advances
  <2>2. at'[n] = pc /\ call'[n] = c
    BY <2>1 DEF Step, LedgerInv, TypeOK
  <2>3. f = "teardown"
    BY <2>1, <2>2 DEF Leaving, Releasing
  <2> QED BY <2>1, <2>3 DEF ReleaseFor, Leaving, LeaveSeat, Unseat, UnseatWrite,
                            UnseatConflict, Reclaim
<1> QED BY <1>1, <1>2, OwnPass

\* A pass that leaves has forgotten nothing of what was hidden from it.
LEMMA LeavingKeeps ==
  ASSUME LedgerInv, [Next]_vars, NEW n \in Name, Leaving(n), Leaving(n)'
  PROVE  /\ scope'[n].worker = scope[n].worker
         /\ scope'[n].hidden = scope[n].hidden
<1> DEFINE s == scope[n]
<1>0. /\ scope \in [Name -> Scope]
      /\ PassOK(n, at[n], s, call[n])
  BY DEF LedgerInv, TypeOK, Scope, PassesOK
<1>1. CASE \E pc, c : Step(n, pc, s, c)
  BY <1>0, <1>1 DEF Step
<1>2. ASSUME NEW k, Released(n, "teardown", k, s)
      PROVE  /\ scope'[n].worker = s.worker
             /\ scope'[n].hidden = s.hidden
  <2>1. scope'[n] = [s EXCEPT !.todo = @ \ {k}]
    BY <1>0, <1>2 DEF Released, Step
  <2> QED BY <1>0, <2>1 DEF Scope
<1>3. CASE LeaveSeat(n)
  <2>1. PICK k \in s.todo : ReleaseSeat(n, "teardown", k, s)
    BY <1>3 DEF LeaveSeat
  <2> QED BY <1>1, <1>2, <2>1 DEF ReleaseSeat
<1>4. CASE Unseat(n) \/ UnseatWrite(n) \/ UnseatConflict(n) \/ Reclaim(n)
  <2>1. call[n].for = "teardown"
    BY <1>4 DEF Leaving, Unseat, UnseatWrite, UnseatConflict, Reclaim
  <2>2. \/ \E pc, c : Step(n, pc, s, c)
        \/ Released(n, "teardown", call[n].claim, s)
    BY <1>4, <2>1 DEF Unseat, UnseatWrite, UnseatConflict, Reclaim, ReleaseSeat
  <2> QED BY <1>1, <1>2, <2>2
<1>5. CASE Leads(n)
  <2>1. PICK f, pc, t, c : /\ Step(n, pc, t, c) /\ Releasing(pc, c, f)
                           /\ ReleaseFor(n, f)
    BY <1>5 DEF Leads, Advances
  <2>2. at'[n] = pc /\ call'[n] = c
    BY <2>1 DEF Step, LedgerInv, TypeOK
  <2>3. f = "teardown"
    BY <2>1, <2>2 DEF Leaving, Releasing
  <2>4. ~BeginTeardown(n)
    BY DEF Leaving, BeginTeardown
  <2> QED BY <1>3, <1>4, <2>1, <2>3, <2>4 DEF ReleaseFor
<1> QED BY <1>5, OwnPass

\* What BeginTeardown has read.
LEMMA TeardownReads ==
  ASSUME LedgerInv, NEW n \in Name, BeginTeardown(n)
  PROVE  \E w \in Worker :
           /\ NameOf[w] = n
           /\ scope'[n].worker = w
           /\ scope'[n].todo = SeatsToRelease(w)
           /\ scope'[n].hidden = Hidden(w)
<1>1. PICK w \in Worker : NameOf[w] = n /\ Step(n, "leave", TeardownScope(w), NoCall)
  BY DEF BeginTeardown
<1>2. scope'[n] = TeardownScope(w)
  BY <1>1 DEF Step, LedgerInv, TypeOK
<1> QED BY <1>1, <1>2 DEF TeardownScope, NoScope

\* A pod is of a worker whose object has been there, and of another than the
\* one that a pass past its pod tears down, unless it was hidden from it.
PodsHeld ==
  /\ \A n \in Name : pod[n] # None =>
       Held(pod[n].worker) \/ cr[pod[n].worker] = "gone"
  /\ \A n \in Name : Leaving(n) =>
       \/ pod[n] = None
       \/ pod[n].worker # scope[n].worker
       \/ "pod" \in scope[n].hidden

\* PodsHeld is inductive.
LEMMA PodsHeldStep ==
  ASSUME LedgerInv, WorkersHeld, PodsHeld, [Next]_vars
  PROVE  PodsHeld'
<1>1. ASSUME NEW n \in Name, pod'[n] # None
      PROVE  cr'[pod'[n].worker] \in {"held", "deleting", "gone"}
  <2> DEFINE w == pod'[n].worker
  <2>0. PassOK(n, at[n], scope[n], call[n])
    BY DEF LedgerInv, PassesOK
  <2>1. w \in Worker /\ NameOf[w] = n
    BY <1>1, PodsStep DEF PodsOK, PodOK, Pod
  <2>2. Held(w) \/ cr[w] = "gone"
    <3>1. CASE pod[n] # None /\ w = pod[n].worker
      BY <3>1 DEF PodsHeld
    <3>2. CASE at[n] = "pod" /\ w = scope[n].worker
      BY <2>1, <3>2, LedgerAssumption DEF WorkersHeld
    <3> QED BY <1>1, <3>1, <3>2, PodEffect
  <2> HIDE DEF w
  <2>3. cr'[w] \in {"held", "deleting", "gone"}
    BY <2>1, <2>2, HeldOrGoneStep
  <2> QED BY <2>3 DEF w
<1>2. ASSUME NEW n \in Name, Leaving(n)',
             pod'[n] # None, pod'[n].worker = scope'[n].worker
      PROVE  "pod" \in scope'[n].hidden
  <2>1. CASE Leaving(n)
    <3>1. /\ scope'[n].worker = scope[n].worker
          /\ scope'[n].hidden = scope[n].hidden
      BY <1>2, <2>1, LeavingKeeps
    <3>2. at[n] # "pod"
      BY <2>1 DEF Leaving
    <3>3. pod[n] # None /\ pod[n].worker = pod'[n].worker
      BY <1>2, <3>2, PodEffect
    <3> QED BY <1>2, <2>1, <3>1, <3>3 DEF PodsHeld
  <2>2. CASE BeginTeardown(n)
    <3>1. PICK w \in Worker : /\ NameOf[w] = n
                              /\ scope'[n].worker = w
                              /\ scope'[n].hidden = Hidden(w)
      BY <2>2, TeardownReads
    <3>2. PodView(n) = None /\ pod[n] = pod'[n]
      BY <2>2 DEF BeginTeardown, objects
    <3> QED BY <1>2, <3>1, <3>2 DEF Hidden
  <2> QED BY <1>2, <2>1, <2>2, LeavingStep
<1> QED BY <1>1, <1>2 DEF PodsHeld, Held

\* A Workload object goes after its pod, whatever fails on the way, unless the
\* cache hid the pod: what BeginTeardown saw stays true to the end of the
\* teardown.
THEOREM WorkloadsOutliveTheirPods == Spec => TeardownWaits
<1>1. Init => WorkersHeld /\ PodsHeld
  BY DEF Init, WorkersHeld, PodsHeld, Leaving, NoScope
<1>2. LedgerInv /\ WorkersHeld /\ PodsHeld /\ [Next]_vars
      => WorkersHeld' /\ PodsHeld'
  BY WorkersHeldStep, PodsHeldStep
<1>3. ASSUME LedgerInv, WorkersHeld, PodsHeld, [Next]_vars,
             NEW n \in Name, pod'[n] # None, cr'[pod'[n].worker] = "gone",
             "pod" \notin scope[n].hidden
      PROVE  /\ pod[n] # None
             /\ pod[n].worker = pod'[n].worker
             /\ cr[pod[n].worker] = "gone"
  <2> DEFINE w == pod'[n].worker
  <2>1. w \in Worker /\ NameOf[w] = n
    BY <1>3, PodsStep DEF PodsOK, PodOK, Pod
  <2>2. ~Held(w)
    <3>1. ASSUME Held(w)
          PROVE  at[n] = "leave" /\ scope[n].worker = w
      BY <1>3, <2>1, <3>1, HeldStep
    <3>2. ASSUME Held(w)
          PROVE  pod[n] # None /\ pod[n].worker = w
      BY <1>3, <3>1, <3>2, PodEffect
    <3> QED BY <1>3, <3>1, <3>2 DEF PodsHeld, Leaving
  <2>3. ~(at[n] = "pod" /\ w = scope[n].worker)
    BY <1>3, <2>1, <2>2, LedgerAssumption DEF WorkersHeld, Held
  <2>4. pod[n] # None /\ pod[n].worker = w
    BY <1>3, <2>3, PodEffect
  <2> QED BY <1>3, <2>2, <2>4 DEF PodsHeld, Held
<1>4. LedgerInv /\ WorkersHeld /\ PodsHeld /\ [Next]_vars =>
        [\A n \in Name : pod'[n] # None /\ cr'[pod'[n].worker] = "gone" =>
           \/ /\ pod[n] # None
              /\ pod[n].worker = pod'[n].worker
              /\ cr[pod[n].worker] = "gone"
           \/ "pod" \in scope[n].hidden]_vars
  BY <1>3
<1> QED BY <1>1, <1>2, <1>4, LedgerInvariant, PTL DEF Spec, TeardownWaits

\* The ledger of claim k seats the name.
Seats(n, k) == \E w \in ledger[k] : NameOf[w] = n

\* Nothing but a booking of its own gives a name a seat.
LEMMA NoNewSeat ==
  ASSUME LedgerInv, [Next]_vars, NEW n \in Name, NEW k \in Claim,
         at[n] # "booking", NEW w \in ledger'[k], NameOf[w] = n
  PROVE  w \in ledger[k]
<1>0. ledger \in [Claim -> SUBSET Worker]
  BY DEF LedgerInv, TypeOK
<1>1. ASSUME NEW m \in Name, BookWrite(m)
      PROVE  w \in ledger[k]
  <2>1. m # n
    BY <1>1 DEF BookWrite
  <2> QED BY <1>0, <1>1, <2>1, BookWriteEffect DEF WithoutName
<1>2. ASSUME NEW m \in Name, UnseatWrite(m)
      PROVE  w \in ledger[k]
  BY <1>0, <1>2, UnseatWriteEffect DEF WithoutName
<1> QED BY <1>1, <1>2, Writers

\* releaseSeatAndReclaim goes on to the claim only if the ledger is gone.
LEMMA ReleaseSeatReclaims ==
  ASSUME LedgerInv, NEW n \in Name, NEW f \in Releases, NEW k \in Claim, NEW s,
         ReleaseSeat(n, f, k, s), UNCHANGED ledger, at'[n] = "reclaim"
  PROVE  call'[n].claim = k /\ ledger'[k] = {}
<1>0. at \in [Name -> At] /\ call \in [Name -> Call]
  BY DEF LedgerInv, TypeOK, Call
<1>1. CASE Released(n, f, k, s)
  BY <1>0, <1>1 DEF Released, Step, Releases
<1>2. CASE ledger[k] = {} /\ Step(n, "reclaim", s, Calling(f, k))
  BY <1>0, <1>2 DEF Step, Calling
<1>3. CASE \E c : Step(n, "unseating", s, c)
  BY <1>0, <1>3 DEF Step
<1> QED BY <1>1, <1>2, <1>3 DEF ReleaseSeat

\* A pass deletes a claim when its name has no seat there.
LEMMA ReclaimStep ==
  ASSUME LedgerInv, [Next]_vars, NEW n \in Name, at'[n] = "reclaim",
         at[n] = "reclaim" => ~Seats(n, call[n].claim)
  PROVE  \A w \in ledger'[call'[n].claim] : NameOf[w] # n
<1>0. /\ at \in [Name -> At] /\ call \in [Name -> Call]
      /\ ledger \in [Claim -> SUBSET Worker]
      /\ PassOK(n, at[n], scope[n], call[n])
      /\ call'[n].claim \in Claim
  BY LedgerInvStep DEF LedgerInv, TypeOK, Call, PassesOK, PassOK
<1>1. CASE at'[n] = at[n] /\ call'[n] = call[n]
  BY <1>0, <1>1, NoNewSeat DEF Seats
<1>2. CASE Leads(n)
  <2>1. PICK f, pc, s, c : /\ Step(n, pc, s, c) /\ Releasing(pc, c, f)
                           /\ ReleaseFor(n, f) /\ PassOK(n, pc, s, c)
    BY <1>2 DEF Leads, Advances
  <2>2. pc = "reclaim" /\ at'[n] = pc /\ call'[n] = c
    BY <1>0, <2>1 DEF Step
  <2>3. f # "none"
    BY <2>1, <2>2 DEF Releasing, PassOK, Releases
  <2>4. ASSUME NEW k \in Claim, NEW g \in Releases, NEW t,
               ReleaseSeat(n, g, k, t), UNCHANGED ledger
        PROVE  \A w \in ledger'[call'[n].claim] : NameOf[w] # n
    BY <2>4, ReleaseSeatReclaims DEF Seats
  <2>5. CASE ReleaseStray(n)
    <3>1. PICK k \in scope[n].todo : ReleaseSeat(n, "stray", k, scope[n])
      BY <2>5 DEF ReleaseStray
    <3>2. k \in Claim /\ "stray" \in Releases /\ UNCHANGED ledger
      BY <1>0, <2>5 DEF ReleaseStray, PassOK, Scope, Releases, objects
    <3> QED BY <2>4, <3>1, <3>2
  <2>6. CASE LeaveSeat(n)
    <3>1. PICK k \in scope[n].todo : ReleaseSeat(n, "teardown", k, scope[n])
      BY <2>6 DEF LeaveSeat
    <3>2. k \in Claim /\ "teardown" \in Releases /\ UNCHANGED ledger
      BY <1>0, <2>6 DEF LeaveSeat, PassOK, Scope, Releases, objects
    <3> QED BY <2>4, <3>1, <3>2
  <2>7. CASE Unseat(n)
    <3>1. /\ ReleaseSeat(n, call[n].for, call[n].claim, scope[n])
          /\ call[n].for \in Releases /\ call[n].claim \in Claim
          /\ UNCHANGED ledger
      BY <1>0, <2>7 DEF Unseat, PassOK, Call, objects
    <3> QED BY <2>4, <3>1
  <2>8. CASE UnseatWrite(n)
    <3>1. /\ ledger' = [ledger EXCEPT ![call[n].claim] =
                          WithoutName(ledger[call[n].claim], n)]
          /\ call[n].claim \in Claim
      BY <2>8, UnseatWriteEffect
    <3>2. call[n].for \in Releases
      BY <1>0, <2>8 DEF UnseatWrite, PassOK
    <3>3. \/ Step(n, "reclaim", scope[n], Calling(call[n].for, call[n].claim))
          \/ Released(n, call[n].for, call[n].claim, scope[n])
      BY <2>8 DEF UnseatWrite
    <3>4. call'[n].claim = call[n].claim
      <4>1. CASE Step(n, "reclaim", scope[n],
                      Calling(call[n].for, call[n].claim))
        BY <1>0, <4>1 DEF Step, Calling
      <4>2. CASE Released(n, call[n].for, call[n].claim, scope[n])
        <5>1. at'[n] # "reclaim"
          BY <1>0, <3>2, <4>2 DEF Released, Step, Releases
        <5> QED BY <2>2, <5>1
      <4> QED BY <3>3, <4>1, <4>2
    <3> QED BY <1>0, <3>1, <3>4 DEF Seats, WithoutName
  <2>9. CASE BeginTeardown(n) \/ UnseatConflict(n) \/ Reclaim(n)
    <3>1. CASE BeginTeardown(n) \/ UnseatConflict(n)
      BY <1>0, <3>1 DEF BeginTeardown, UnseatConflict, Step
    <3>2. CASE Reclaim(n)
      BY <1>0, <3>2 DEF Reclaim, PassOK, Released, Step, Releases
    <3> QED BY <2>9, <3>1, <3>2
  <2> QED BY <2>1, <2>3, <2>5, <2>6, <2>7, <2>8, <2>9 DEF ReleaseFor
<1> QED BY <1>1, <1>2, OwnPass

\* Released strikes the claim from the list.
LEMMA ReleasedStrikes ==
  ASSUME LedgerInv, NEW n \in Name, NEW k \in Claim, NEW s \in Scope,
         Released(n, "teardown", k, s)
  PROVE  scope'[n].todo = s.todo \ {k}
<1>1. scope'[n] = [s EXCEPT !.todo = @ \ {k}]
  BY DEF Released, Step, LedgerInv, TypeOK
<1> QED BY <1>1 DEF Scope

\* What releaseSeatAndReclaim strikes when it reads does not seat the name.
LEMMA ReleaseSeatStrikes ==
  ASSUME LedgerInv, NEW n \in Name, NEW k \in Claim, NEW s \in Scope,
         ReleaseSeat(n, "teardown", k, s), UNCHANGED ledger
  PROVE  \A j \in s.todo \ scope'[n].todo :
           \A w \in ledger'[j] : NameOf[w] # n
<1>1. CASE WithoutName(ledger[k], n) = ledger[k] /\ Released(n, "teardown", k, s)
  <2>1. scope'[n].todo = s.todo \ {k}
    BY <1>1, ReleasedStrikes
  <2>2. \A w \in ledger[k] : NameOf[w] # n
    BY <1>1 DEF WithoutName
  <2> QED BY <2>1, <2>2
<1>2. CASE \E pc, c : Step(n, pc, s, c)
  <2>1. scope'[n] = s
    BY <1>2 DEF Step, LedgerInv, TypeOK
  <2> QED BY <2>1
<1> QED BY <1>1, <1>2 DEF ReleaseSeat

\* A pass that leaves has the seats that are left on its list.
LEMMA LeavingStrikes ==
  ASSUME LedgerInv, NEW n \in Name, Pass(n) \/ Abort(n),
         Leaving(n), Leaving(n)',
         at[n] = "reclaim" => ~Seats(n, call[n].claim)
  PROVE  \A j \in scope[n].todo \ scope'[n].todo :
           \A w \in ledger'[j] : NameOf[w] # n
<1> DEFINE s == scope[n]
           k == call[n].claim
<1>0. /\ at \in [Name -> At] /\ scope \in [Name -> Scope]
      /\ call \in [Name -> Call]
      /\ ledger \in [Claim -> SUBSET Worker]
      /\ PassOK(n, at[n], s, call[n])
      /\ s \in Scope
  BY DEF LedgerInv, TypeOK, Scope, Call, PassesOK
<1>1. CASE LeaveSeat(n)
  <2>1. PICK j \in s.todo : ReleaseSeat(n, "teardown", j, s)
    BY <1>1 DEF LeaveSeat
  <2>2. j \in Claim /\ UNCHANGED ledger
    BY <1>0, <1>1, <2>1 DEF LeaveSeat, Scope, objects
  <2> QED BY <1>0, <2>1, <2>2, ReleaseSeatStrikes
<1>2. CASE at[n] # "leave"
  <2>0. call[n].for = "teardown" /\ k \in Claim
        /\ at[n] \in {"unseat", "unseating", "reclaim"}
    BY <1>0, <1>2 DEF Leaving, PassOK, Call
  <2>1. CASE Unseat(n)
    <3>1. ReleaseSeat(n, "teardown", k, s) /\ UNCHANGED ledger
      BY <2>0, <2>1 DEF Unseat, objects
    <3> QED BY <1>0, <2>0, <3>1, ReleaseSeatStrikes
  <2>2. CASE UnseatWrite(n)
    <3>1. ledger' = [ledger EXCEPT ![k] = WithoutName(ledger[k], n)]
      BY <2>2, UnseatWriteEffect
    <3>2. \A w \in ledger'[k] : NameOf[w] # n
      BY <1>0, <2>0, <3>1 DEF WithoutName
    <3>3. CASE \E pc, c : Step(n, pc, s, c)
      BY <1>0, <3>3 DEF Step
    <3>4. CASE Released(n, "teardown", k, s)
      BY <1>0, <2>0, <3>2, <3>4, ReleasedStrikes
    <3> QED BY <2>0, <2>2, <3>3, <3>4 DEF UnseatWrite
  <2>3. CASE UnseatConflict(n)
    BY <1>0, <2>3 DEF UnseatConflict, Step
  <2>4. CASE Reclaim(n)
    <3>1. Released(n, "teardown", k, s) /\ UNCHANGED ledger
          /\ ~Seats(n, k)
      BY <2>0, <2>4 DEF Reclaim
    <3> QED BY <1>0, <2>0, <3>1, ReleasedStrikes DEF Seats
  <2>5. CASE Abort(n)
    BY <1>0, <2>5 DEF Abort, EndPass, Step, Leaving
  <2>6. Unseat(n) \/ UnseatWrite(n) \/ UnseatConflict(n) \/ Reclaim(n)
        \/ Abort(n)
    <3>1. ~(\/ Begin(n) \/ ReplacePredecessor(n) \/ Confirm(n)
            \/ ReleaseStray(n) \/ AbandonWedged(n) \/ ClearAssignment(n)
            \/ Join(n) \/ Verify(n) \/ Move(n))
      BY <2>0 DEF Begin, ReplacePredecessor, Confirm, ReleaseStray,
                  AbandonWedged, ClearAssignment, Join, Verify, Move, Repaired
    <3>2. ~(\/ Keep(n) \/ Found(n) \/ CutClaim(n) \/ Record(n) \/ SyncPod(n)
            \/ Book(n) \/ BookWrite(n) \/ BookConflict(n)
            \/ TeardownPod(n) \/ BeginTeardown(n) \/ LeaveSeat(n) \/ Leave(n))
      BY <2>0 DEF Keep, Found, Settling, Repaired, CutClaim, Record, SyncPod,
                  Book, BookWrite, BookConflict, TeardownPod, BeginTeardown,
                  LeaveSeat, Leave
    <3> QED BY <3>1, <3>2 DEF Pass
  <2> QED BY <2>1, <2>2, <2>3, <2>4, <2>5, <2>6
<1>3. CASE at[n] = "leave" /\ ~LeaveSeat(n)
  <2>1. ~(\/ Begin(n) \/ ReplacePredecessor(n) \/ Confirm(n)
          \/ ReleaseStray(n) \/ AbandonWedged(n) \/ ClearAssignment(n)
          \/ Join(n) \/ Verify(n) \/ Move(n) \/ Unseat(n) \/ UnseatWrite(n)
          \/ UnseatConflict(n) \/ Reclaim(n))
    BY <1>3 DEF Begin, ReplacePredecessor, Confirm, ReleaseStray,
                AbandonWedged, ClearAssignment, Join, Verify, Move, Repaired,
                Unseat, UnseatWrite, UnseatConflict, Reclaim
  <2>2. ~(\/ Keep(n) \/ Found(n) \/ CutClaim(n) \/ Record(n) \/ SyncPod(n)
          \/ Book(n) \/ BookWrite(n) \/ BookConflict(n)
          \/ TeardownPod(n) \/ BeginTeardown(n))
    BY <1>3 DEF Keep, Found, Settling, Repaired, CutClaim, Record, SyncPod,
                Book, BookWrite, BookConflict, TeardownPod, BeginTeardown
  <2>3. Leave(n) \/ Abort(n)
    BY <1>3, <2>1, <2>2 DEF Pass
  <2> QED BY <1>0, <2>3 DEF Leave, Abort, EndPass, Step, Leaving
<1> QED BY <1>1, <1>2, <1>3

\* A seat is of a worker whose object has been there.  A pass that is past the
\* pod of the worker it tears down has the worker's seats on its list, unless
\* one was hidden from it.
SeatsHeld ==
  /\ \A k \in Claim : \A w \in ledger[k] : Held(w) \/ cr[w] = "gone"
  /\ \A n \in Name : Leaving(n) =>
       \/ "seat" \in scope[n].hidden
       \/ \A k \in Claim : scope[n].worker \in ledger[k] => k \in scope[n].todo
  /\ \A n \in Name : at[n] = "reclaim" => ~Seats(n, call[n].claim)

\* A seat that is new is its own pass's.
LEMMA NewSeat ==
  ASSUME LedgerInv, WorkersHeld, [Next]_vars, NEW k \in Claim,
         NEW w \in ledger'[k], w \notin ledger[k]
  PROVE  w \in Worker /\ Held(w) /\ cr' = cr
<1>0. /\ ledger \in [Claim -> SUBSET Worker]
      /\ None \notin Worker
  BY LedgerAssumption DEF LedgerInv, TypeOK
<1>1. PICK n \in Name : BookWrite(n) \/ UnseatWrite(n)
  BY Writers
<1>2. BookWrite(n) /\ w = scope[n].worker /\ w \in Worker
  BY <1>0, <1>1, BookWriteEffect, UnseatWriteEffect DEF WithoutName
<1> QED BY <1>0, <1>2 DEF WorkersHeld, BookWrite

\* A pass that leaves keeps what is seated on its list.
LEMMA ListKept ==
  ASSUME LedgerInv, SeatsHeld, [Next]_vars, NEW n \in Name,
         Leaving(n), Leaving(n)', NEW k \in Claim, Seats(n, k)',
         k \in scope[n].todo
  PROVE  k \in scope'[n].todo
<1>0. scope \in [Name -> Scope]
  BY DEF LedgerInv, TypeOK, Scope
<1>1. CASE Pass(n) \/ Abort(n)
  BY <1>1, LeavingStrikes DEF SeatsHeld, Seats
<1>2. ASSUME NEW m \in Name, m # n, Pass(m) \/ Abort(m)
      PROVE  scope'[n] = scope[n]
  <2>1. CASE UNCHANGED passes
    BY <2>1 DEF passes
  <2>2. CASE Leads(m)
    <3>1. PICK pc, s, c : Step(m, pc, s, c)
      BY <2>2 DEF Leads, Advances
    <3> QED BY <1>0, <1>2, <3>1 DEF Step
  <2> QED BY <1>2, <2>1, <2>2, PassAdvances
<1>3. CASE UNCHANGED passes
  BY <1>3 DEF passes
<1> QED BY <1>1, <1>2, <1>3, Writers

\* SeatsHeld is inductive.
LEMMA SeatsHeldStep ==
  ASSUME LedgerInv, WorkersHeld, SeatsHeld, [Next]_vars
  PROVE  SeatsHeld'
<1>0. ledger \in [Claim -> SUBSET Worker] /\ ledger' \in [Claim -> SUBSET Worker]
  BY SeatsStep DEF LedgerInv, TypeOK
<1>1. ASSUME NEW k \in Claim, NEW w \in ledger'[k]
      PROVE  cr'[w] \in {"held", "deleting", "gone"}
  <2>1. CASE w \in ledger[k]
    <3>1. w \in Worker /\ (Held(w) \/ cr[w] = "gone")
      BY <1>0, <2>1 DEF SeatsHeld
    <3> QED BY <3>1, HeldOrGoneStep
  <2>2. CASE w \notin ledger[k]
    BY <1>1, <2>2, NewSeat DEF Held
  <2> QED BY <2>1, <2>2
<1>3. ASSUME NEW n \in Name, Leaving(n)', "seat" \notin scope'[n].hidden,
             NEW k \in Claim, scope'[n].worker \in ledger'[k]
      PROVE  k \in scope'[n].todo
  <2> DEFINE w == scope'[n].worker
  <2>1. CASE BeginTeardown(n)
    <3>1. PICK v \in Worker : /\ NameOf[v] = n
                              /\ w = v
                              /\ scope'[n].todo = SeatsToRelease(v)
                              /\ scope'[n].hidden = Hidden(v)
      BY <2>1, TeardownReads
    <3>2. v \in ledger[k] /\ None \notin Claim
      BY <1>3, <2>1, <3>1, LedgerAssumption DEF BeginTeardown, objects, Claim
    <3>3. k \in SeatedClaims(n) \cup {status[v]}
      BY <1>3, <3>1, <3>2 DEF Hidden
    <3> QED BY <3>1, <3>2, <3>3 DEF SeatsToRelease
  <2>2. CASE Leaving(n)
    <3>1. w = scope[n].worker /\ scope'[n].hidden = scope[n].hidden
      BY <1>3, <2>2, LeavingKeeps
    <3>2. w \in Worker /\ NameOf[w] = n
      <4>1. PassOK(n, at[n], scope[n], call[n]) /\ at[n] # "idle"
        BY <2>2 DEF LedgerInv, PassesOK, Leaving
      <4> QED BY <1>0, <1>3, <3>1, <4>1 DEF PassOK, ScopeOK
    <3>3. w \in ledger[k]
      BY <1>3, <2>2, <3>2, NoNewSeat DEF Leaving
    <3>4. k \in scope[n].todo
      BY <1>3, <2>2, <3>1, <3>3 DEF SeatsHeld
    <3>5. Seats(n, k)'
      BY <1>3, <3>2 DEF Seats
    <3> QED BY <1>3, <2>2, <3>4, <3>5, ListKept
  <2> QED BY <1>3, <2>1, <2>2, LeavingStep
<1>4. ASSUME NEW n \in Name, at'[n] = "reclaim"
      PROVE  \A w \in ledger'[call'[n].claim] : NameOf[w] # n
  BY <1>4, ReclaimStep DEF SeatsHeld
<1> QED BY <1>1, <1>3, <1>4 DEF SeatsHeld, Held, Seats

\* A Workload object goes after its seats, whatever fails on the way and whoever
\* else books and releases on the same ledgers, unless the list that its
\* teardown read left one out.
THEOREM WorkloadsOutliveTheirSeats == Spec => NoSeatOutlives
<1>1. Init => WorkersHeld /\ SeatsHeld
  BY DEF Init, WorkersHeld, SeatsHeld, Leaving, NoScope
<1>2. LedgerInv /\ WorkersHeld /\ SeatsHeld /\ [Next]_vars
      => WorkersHeld' /\ SeatsHeld'
  BY WorkersHeldStep, SeatsHeldStep
<1>3. ASSUME LedgerInv, WorkersHeld, SeatsHeld, [Next]_vars,
             NEW k \in Claim, NEW w \in ledger'[k], cr'[w] = "gone",
             "seat" \notin scope[NameOf[w]].hidden
      PROVE  cr[w] = "gone" /\ w \in ledger[k]
  <2>1. w \in ledger[k]
    BY <1>3, NewSeat DEF Held
  <2>2. w \in Worker
    BY <1>3, <2>1 DEF LedgerInv, TypeOK
  <2>3. ~Held(w)
    <3>1. ASSUME Held(w)
          PROVE  /\ at[NameOf[w]] = "leave"
                 /\ scope[NameOf[w]].todo = {}
                 /\ scope[NameOf[w]].worker = w
                 /\ NameOf[w] \in Name
      BY <1>3, <2>2, <3>1, HeldStep
    <3>2. SUFFICES ASSUME Held(w) PROVE FALSE
      OBVIOUS
    <3>3. Leaving(NameOf[w])
      BY <3>1, <3>2 DEF Leaving
    <3>4. k \in scope[NameOf[w]].todo
      BY <1>3, <2>1, <3>1, <3>2, <3>3 DEF SeatsHeld
    <3> QED BY <3>1, <3>2, <3>4
  <2>4. Held(w) \/ cr[w] = "gone"
    BY <1>3, <2>1 DEF SeatsHeld
  <2> QED BY <2>1, <2>3, <2>4
<1>4. LedgerInv /\ WorkersHeld /\ SeatsHeld /\ [Next]_vars =>
        [\A k \in Claim : \A w \in ledger'[k] : cr'[w] = "gone" =>
           \/ cr[w] = "gone" /\ w \in ledger[k]
           \/ "seat" \in scope[NameOf[w]].hidden]_vars
  BY <1>3
<1> QED BY <1>1, <1>2, <1>4, LedgerInvariant, PTL DEF Spec, NoSeatOutlives
===============================================================================
