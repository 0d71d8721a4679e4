--------------------------- MODULE SessionReaperProofs --------------------------
(***************************************************************************)
(* For any sessions, owners and roles, the reaper and restarts take no     *)
(* worker from a running client, and every worker that is up belongs to an *)
(* owner that the reaper will look at.  ReaperInv adds to both what they    *)
(* rest on: a client that runs or waits for a handler is live, a handler    *)
(* past bind_session is a member of its owner's set, members are of listed *)
(* owners, and the locks keep a handler that attaches and the reaper apart. *)
(***************************************************************************)
EXTENDS SessionReaper, TLAPS

Inside == {"beat", "list", "join"}
Ensuring == {"ensure", "check"}
Releasing == {"release", "delete", "unlist"}

\* A client that runs has not expired.
HeartbeatsLast == \A s \in Session : client[s] = "alive" => s \in live

\* Sessions that have not begun appear nowhere.
NewIsNowhere ==
  \A s \in Session : client[s] = "new" =>
    /\ pc[s] = "idle"
    /\ s \notin seen
    /\ \A o \in Owner : s \notin members[o]

\* A handler knows its worker, and holds the lock while it attaches.
HandlersHold ==
  \A s \in Session :
    /\ pc[s] # "idle" => owner[s] \in Owner /\ role[s] \in Role
    /\ pc[s] \in Inside => lock[owner[s]] = s

\* The reaper holds its owner's lock, and drops only who is gone for good.
ReaperHolds ==
  /\ reaper \notin {"sleep", "next"} => target \in Owner /\ lock[target] = Reaper
  /\ reaper = "drop" => dead \in Session /\ client[dead] = "gone"

\* A running client that uses a worker, or is about to, is a member of the
\* owner's set.
UsersAreMembers ==
  /\ \A s \in Session :
       pc[s] \in Ensuring /\ client[s] = "alive" => s \in members[owner[s]]
  /\ \A s \in Session, o \in Owner, r \in Role :
       <<o, r>> \in using[s] => client[s] = "alive" /\ s \in members[o]

MembersAreListed ==
  /\ \A o \in Owner : members[o] # {} => o \in owners
  /\ \A s \in Session : pc[s] = "join" => owner[s] \in owners

\* What the reaper releases has no member, and it forgets no worker but one
\* that was created late.
ReleaseIsDue ==
  /\ reaper \in Releasing => members[target] = {}
  /\ reaper = "delete" => \A r \in Role :
       workload[<<target, r>>] = "up" => r \in found \/ <<target, r>> \in late
  /\ reaper = "unlist" => \A r \in Role :
       workload[<<target, r>>] = "up" => <<target, r>> \in late

UsedIsUp ==
  \A s \in Session, o \in Owner, r \in Role :
    <<o, r>> \in using[s] => workload[<<o, r>>] = "up"

Protocol ==
  /\ HeartbeatsLast
  /\ NewIsNowhere
  /\ HandlersHold
  /\ ReaperHolds
  /\ UsersAreMembers
  /\ MembersAreListed
  /\ ReleaseIsDue

ReaperInv == TypeOK /\ Protocol /\ UsedIsUp /\ WorkersAreListed

-----------------------------------------------------------------------------

LEMMA ReaperInit == Init => ReaperInv
  BY ReaperAssumption DEF Init, ReaperInv, TypeOK, Protocol, HeartbeatsLast, NewIsNowhere,
     HandlersHold, ReaperHolds, UsersAreMembers, MembersAreListed, ReleaseIsDue, UsedIsUp,
     WorkersAreListed, HandlerPC, ReaperPC, Inside, Ensuring, Releasing

USE ReaperAssumption DEF HandlerPC, ReaperPC, Inside, Ensuring, Releasing, clientVars,
  registryVars, handlerVars, reaperVars, workloadVars

\* What sessions do by themselves.
LEMMA ClientKeeps ==
  ASSUME ReaperInv, NEW s \in Session, CreateSession(s) \/ ClientGone(s) \/ Expire(s)
  PROVE  ReaperInv'
<1> USE DEF ReaperInv, TypeOK, Protocol, HeartbeatsLast, NewIsNowhere, HandlersHold,
      ReaperHolds, UsersAreMembers, MembersAreListed, ReleaseIsDue, UsedIsUp, WorkersAreListed
<1>1. CASE CreateSession(s)
  BY <1>1 DEF CreateSession
<1>2. CASE ClientGone(s)
  BY <1>2 DEF ClientGone
<1>3. CASE Expire(s)
  BY <1>3 DEF Expire
<1> QED
  BY <1>1, <1>2, <1>3

\* Only a running client asks, and it is live.
LEMMA AskKeeps ==
  ASSUME ReaperInv, NEW s \in Session, NEW o \in Owner, NEW r \in Role,
         Ask(s, o, r) \/ AskUnbound(s, o, r)
  PROVE  ReaperInv'
<1> USE DEF ReaperInv, TypeOK, Protocol, HeartbeatsLast, NewIsNowhere, HandlersHold,
      ReaperHolds, UsersAreMembers, MembersAreListed, ReleaseIsDue, UsedIsUp, WorkersAreListed
<1>1. CASE Ask(s, o, r)
  BY <1>1 DEF Ask
<1>2. CASE AskUnbound(s, o, r)
  BY <1>2 DEF AskUnbound
<1> QED
  BY <1>1, <1>2

\* What an answer changes for who relies on it.
LEMMA PromisedUses ==
  ASSUME TypeOK, NEW s \in Session, owner[s] \in Owner, role[s] \in Role,
         Promised(s) \/ UNCHANGED using
  PROVE  /\ using' \in [Session -> SUBSET (Owner \X Role)]
         /\ \A t \in Session, o \in Owner, r \in Role : <<o, r>> \in using'[t] =>
              \/ <<o, r>> \in using[t]
              \/ Promised(s) /\ t = s /\ o = owner[s] /\ r = role[s] /\ client[s] = "alive"
<1> DEFINE u == IF client[s] = "alive" THEN using[s] \cup {<<owner[s], role[s]>>} ELSE using[s]
<1>1. u \in SUBSET (Owner \X Role)
  BY DEF TypeOK
<1>2. CASE Promised(s)
  <2>1. using' = [using EXCEPT ![s] = u]
    BY <1>2 DEF Promised
  <2> QED
    BY <1>1, <1>2, <2>1 DEF TypeOK
<1>3. CASE UNCHANGED using
  BY <1>3 DEF TypeOK
<1> QED
  BY <1>2, <1>3

\* Only its own place changes for a handler that goes on or is through.
LEMMA HandlerMoves ==
  ASSUME ReaperInv, NEW s \in Session, pc[s] \in Ensuring,
         \/ Answered(s)
         \/ pc' = [pc EXCEPT ![s] = "ensure"] /\ UNCHANGED <<owner, role>>
         \/ pc' = [pc EXCEPT ![s] = "check"] /\ UNCHANGED <<owner, role>>,
         UNCHANGED <<client, registryVars, lock, reaperVars>>
  PROVE  /\ HeartbeatsLast' /\ NewIsNowhere' /\ HandlersHold' /\ ReaperHolds' /\ MembersAreListed'
         /\ pc' \in [Session -> HandlerPC]
         /\ owner' \in [Session -> Owner \cup {None}]
         /\ role' \in [Session -> Role \cup {None}]
         /\ \A t \in Session :
              pc'[t] \in Ensuring /\ client[t] = "alive" => t \in members[owner'[t]]
<1> USE DEF ReaperInv
<1>1. /\ \A t \in Session : t # s => pc'[t] = pc[t] /\ owner'[t] = owner[t] /\ role'[t] = role[t]
      /\ \/ pc'[s] \in Ensuring /\ owner'[s] = owner[s] /\ role'[s] = role[s]
         \/ pc'[s] = "idle"
  BY DEF Answered, TypeOK
<1>2. /\ pc' \in [Session -> HandlerPC]
      /\ owner' \in [Session -> Owner \cup {None}]
      /\ role' \in [Session -> Role \cup {None}]
  BY DEF Answered, TypeOK
<1>3. HeartbeatsLast' /\ NewIsNowhere' /\ MembersAreListed'
  BY <1>1 DEF TypeOK, Protocol, HeartbeatsLast, NewIsNowhere, MembersAreListed
<1>4. HandlersHold'
  BY <1>1 DEF TypeOK, Protocol, HandlersHold
<1>5. ReaperHolds'
  BY <1>1 DEF TypeOK, Protocol, ReaperHolds
<1>6. \A t \in Session :
        pc'[t] \in Ensuring /\ client[t] = "alive" => t \in members[owner'[t]]
  BY <1>1 DEF Protocol, UsersAreMembers
<1> QED
  BY <1>2, <1>3, <1>4, <1>5, <1>6

\* A worker is created late, or for an owner with a member, the handler's own
\* session: the reaper is not releasing it then.
LEMMA CreateKeeps ==
  ASSUME ReaperInv, NEW s \in Session, Create(s)
  PROVE  ReaperInv'
<1> USE DEF ReaperInv
<1> DEFINE w == <<owner[s], role[s]>>
<1>1. /\ owner[s] \in Owner
      /\ role[s] \in Role
      /\ w \in Owner \X Role
      /\ client[s] = "alive" => s \in members[owner[s]]
      /\ s \in members[owner[s]] => owner[s] \in owners
      /\ pc[s] \in Ensuring
  BY DEF Create, TypeOK, Protocol, HandlersHold, UsersAreMembers, MembersAreListed
<1>2. \/ /\ workload[w] = "none"
         /\ workload' = [workload EXCEPT ![w] = "up"]
         /\ late' = IF s \in members[owner[s]] THEN late ELSE late \cup {w}
         /\ Promised(s)
      \/ workload[w] # "none" /\ UNCHANGED <<using, workload, late>>
  BY DEF Create
<1>3. /\ workload' \in [Owner \X Role -> {"none", "up", "deleting"}]
      /\ \A o \in Owner, r \in Role :
           workload'[<<o, r>>] = "up"
             <=> workload[<<o, r>>] = "up" \/ (<<o, r>> = w /\ workload[w] = "none")
      /\ (Promised(s) /\ workload'[w] = "up") \/ UNCHANGED using
      /\ late \subseteq late' /\ late' \in SUBSET (Owner \X Role)
      /\ workload[w] = "none" => s \in members[owner[s]] \/ w \in late'
  <2>1. /\ workload \in [Owner \X Role -> {"none", "up", "deleting"}]
        /\ late \in SUBSET (Owner \X Role)
    BY DEF TypeOK
  <2> HIDE DEF w, ReaperInv
  <2>2. CASE /\ workload[w] = "none"
             /\ workload' = [workload EXCEPT ![w] = "up"]
             /\ late' = IF s \in members[owner[s]] THEN late ELSE late \cup {w}
             /\ Promised(s)
    BY <1>1, <2>1, <2>2
  <2>3. CASE workload[w] # "none" /\ UNCHANGED <<using, workload, late>>
    BY <1>1, <2>1, <2>3
  <2> QED
    BY <1>2, <2>2, <2>3
<1>4. /\ HeartbeatsLast' /\ NewIsNowhere' /\ HandlersHold' /\ ReaperHolds' /\ MembersAreListed'
      /\ pc' \in [Session -> HandlerPC]
      /\ owner' \in [Session -> Owner \cup {None}]
      /\ role' \in [Session -> Role \cup {None}]
      /\ \A t \in Session :
           pc'[t] \in Ensuring /\ client[t] = "alive" => t \in members[owner'[t]]
  BY <1>1, HandlerMoves DEF Create
<1>5. TypeOK'
  BY <1>1, <1>2, <1>3, <1>4, PromisedUses DEF Create, TypeOK
<1>6. UsersAreMembers'
  BY <1>1, <1>2, <1>4, PromisedUses DEF Create, Protocol, UsersAreMembers
<1>7. ReleaseIsDue'
  BY <1>1, <1>3 DEF Create, Protocol, ReleaseIsDue, ReaperHolds
<1>8. UsedIsUp'
  BY <1>1, <1>2, <1>3, PromisedUses DEF UsedIsUp
<1>9. WorkersAreListed'
  BY <1>1, <1>3 DEF Create, WorkersAreListed
<1> QED
  BY <1>4, <1>5, <1>6, <1>7, <1>8, <1>9 DEF Protocol

\* A worker that is reused is up.
LEMMA CheckKeeps ==
  ASSUME ReaperInv, NEW s \in Session, Check(s)
  PROVE  ReaperInv'
<1> USE DEF ReaperInv
<1>1. /\ owner[s] \in Owner
      /\ role[s] \in Role
      /\ client[s] = "alive" => s \in members[owner[s]]
      /\ pc[s] \in Ensuring
  BY DEF Check, TypeOK, Protocol, HandlersHold, UsersAreMembers
<1>2. (Promised(s) /\ workload[<<owner[s], role[s]>>] = "up") \/ UNCHANGED using
  BY DEF Check
<1>3. /\ HeartbeatsLast' /\ NewIsNowhere' /\ HandlersHold' /\ ReaperHolds' /\ MembersAreListed'
      /\ pc' \in [Session -> HandlerPC]
      /\ owner' \in [Session -> Owner \cup {None}]
      /\ role' \in [Session -> Role \cup {None}]
      /\ \A t \in Session :
           pc'[t] \in Ensuring /\ client[t] = "alive" => t \in members[owner'[t]]
  BY <1>1, HandlerMoves DEF Check
<1>4. TypeOK'
  BY <1>1, <1>2, <1>3, PromisedUses DEF Check, TypeOK
<1>5. UsersAreMembers'
  BY <1>1, <1>2, <1>3, PromisedUses DEF Check, Protocol, UsersAreMembers
<1>6. UsedIsUp'
  BY <1>1, <1>2, PromisedUses DEF Check, UsedIsUp
<1>7. ReleaseIsDue' /\ WorkersAreListed'
  BY DEF Check, Protocol, ReleaseIsDue, WorkersAreListed
<1> QED
  BY <1>3, <1>4, <1>5, <1>6, <1>7 DEF Protocol

\* The steps of a handler: a session joins under the lock, so never the set of
\* an owner that the reaper is at.
LEMMA HandleKeeps ==
  ASSUME ReaperInv, NEW s \in Session, Handle(s) \/ EnsureFails(s)
  PROVE  ReaperInv'
<1> USE DEF ReaperInv, TypeOK, Protocol, HeartbeatsLast, NewIsNowhere, HandlersHold,
      ReaperHolds, UsersAreMembers, MembersAreListed, ReleaseIsDue, UsedIsUp, WorkersAreListed
<1>1. CASE Lock(s)
  BY <1>1 DEF Lock
<1>2. CASE AttachBeat(s)
  BY <1>2 DEF AttachBeat
<1>3. CASE AttachList(s)
  BY <1>3 DEF AttachList
<1>4. CASE AttachJoin(s)
  BY <1>4 DEF AttachJoin
<1>5. CASE Create(s)
  BY <1>5, CreateKeeps
<1>6. CASE Check(s)
  BY <1>6, CheckKeeps
<1>7. CASE EnsureFails(s)
  BY <1>7 DEF EnsureFails, Answered
<1> QED
  BY <1>1, <1>2, <1>3, <1>4, <1>5, <1>6, <1>7 DEF Handle

\* A deleted model has no users left.
LEMMA DeleteModelKeeps ==
  ASSUME ReaperInv, NEW s \in Session, NEW o \in Owner, DeleteModel(s, o)
  PROVE  ReaperInv'
<1> USE DEF ReaperInv, DeleteModel
<1>1. /\ \A p \in Owner, r \in Role :
           workload'[<<p, r>>] = IF p = o /\ workload[<<p, r>>] = "up" THEN "deleting"
                                 ELSE workload[<<p, r>>]
      /\ \A t \in Session, p \in Owner, r \in Role :
           <<p, r>> \in using'[t] <=> <<p, r>> \in using[t] /\ p # o
      /\ \A p \in Owner, r \in Role : <<p, r>> \in late' <=> <<p, r>> \in late /\ p # o
  BY DEF TypeOK
<1>2. TypeOK'
  BY DEF TypeOK
<1>3. HeartbeatsLast' /\ NewIsNowhere' /\ HandlersHold' /\ ReaperHolds' /\ MembersAreListed'
  BY DEF Protocol, HeartbeatsLast, NewIsNowhere, HandlersHold, ReaperHolds, MembersAreListed
<1>4. UsersAreMembers'
  BY <1>1 DEF Protocol, UsersAreMembers
<1>5. ReleaseIsDue'
  BY <1>1 DEF Protocol, ReleaseIsDue, ReaperHolds
<1>6. UsedIsUp' /\ WorkersAreListed'
  BY <1>1 DEF UsedIsUp, WorkersAreListed
<1> QED
  BY <1>2, <1>3, <1>4, <1>5, <1>6 DEF Protocol

\* A worker that is gone was not up.
LEMMA WorkloadGoneKeeps ==
  ASSUME ReaperInv, NEW o \in Owner, NEW r \in Role, WorkloadGone(o, r)
  PROVE  ReaperInv'
<1> USE DEF ReaperInv, WorkloadGone
<1>1. \A p \in Owner, q \in Role :
        workload'[<<p, q>>] = "up" <=> workload[<<p, q>>] = "up"
  BY DEF TypeOK
<1>2. TypeOK'
  BY DEF TypeOK
<1>3. HeartbeatsLast' /\ NewIsNowhere' /\ HandlersHold' /\ ReaperHolds' /\ MembersAreListed'
  BY DEF Protocol, HeartbeatsLast, NewIsNowhere, HandlersHold, ReaperHolds, MembersAreListed
<1>4. UsersAreMembers'
  BY <1>1 DEF Protocol, UsersAreMembers
<1>5. ReleaseIsDue'
  BY <1>1 DEF Protocol, ReleaseIsDue, ReaperHolds
<1>6. UsedIsUp' /\ WorkersAreListed'
  BY <1>1 DEF UsedIsUp, WorkersAreListed
<1> QED
  BY <1>2, <1>3, <1>4, <1>5, <1>6 DEF Protocol

\* The last look: the owner is released only if it has no member.
LEMMA ReapAgainKeeps ==
  ASSUME ReaperInv, ReapAgain
  PROVE  ReaperInv'
<1> USE DEF ReaperInv
<1>1. /\ reaper = "live"
      /\ UNCHANGED <<clientVars, registryVars, workloadVars, handlerVars, sweep, seen, dead, found>>
      /\ IF members[target] = {}
         THEN reaper' = "release" /\ UNCHANGED <<lock, target>>
         ELSE lock' = [lock EXCEPT ![target] = None] /\ target' = None /\ reaper' = "next"
  BY DEF ReapAgain, Unlock
<1>2. target \in Owner /\ lock[target] = Reaper
  BY <1>1 DEF Protocol, ReaperHolds
<1>3. TypeOK'
  BY <1>1, <1>2 DEF TypeOK
<1>4. HandlersHold'
  BY <1>1, <1>2 DEF Protocol, HandlersHold, TypeOK
<1>5. HeartbeatsLast' /\ NewIsNowhere' /\ UsersAreMembers' /\ MembersAreListed'
  BY <1>1 DEF Protocol, HeartbeatsLast, NewIsNowhere, UsersAreMembers, MembersAreListed
<1>6. ReaperHolds' /\ ReleaseIsDue'
  BY <1>1, <1>2 DEF Protocol, ReaperHolds, ReleaseIsDue
<1>7. UsedIsUp' /\ WorkersAreListed'
  BY <1>1 DEF UsedIsUp, WorkersAreListed
<1> QED
  BY <1>3, <1>4, <1>5, <1>6, <1>7 DEF Protocol

\* The reaper deletes only while nobody is a member, which its lock keeps so,
\* and unlists the owner only after everything was deleted.
LEMMA ReapKeeps ==
  ASSUME ReaperInv, Reap \/ ReapFails
  PROVE  ReaperInv'
<1> USE DEF ReaperInv, TypeOK, Protocol, HeartbeatsLast, NewIsNowhere, HandlersHold,
      ReaperHolds, UsersAreMembers, MembersAreListed, ReleaseIsDue, UsedIsUp, WorkersAreListed
<1>1. CASE SweepBegin
  BY <1>1 DEF SweepBegin
<1>2. CASE SweepEnd
  BY <1>2 DEF SweepEnd
<1>3. ASSUME NEW o \in Owner, ReapLock(o) PROVE ReaperInv'
  BY <1>3 DEF ReapLock
<1>4. CASE ReapMembers
  BY <1>4 DEF ReapMembers
<1>5. ASSUME NEW s \in Session, ReapLive(s) PROVE ReaperInv'
  BY <1>5 DEF ReapLive
<1>6. CASE ReapDrop
  BY <1>6 DEF ReapDrop
<1>7. CASE ReapAgain
  BY <1>7, ReapAgainKeeps
<1>8. CASE ReapList
  BY <1>8 DEF ReapList
<1>9. ASSUME NEW r \in Role, ReapDelete(r) PROVE ReaperInv'
  BY <1>9 DEF ReapDelete
<1>10. CASE ReapForget
  BY <1>10 DEF ReapForget
<1>11. CASE ReapUnlist
  BY <1>11 DEF ReapUnlist, Unlock
<1>12. CASE ReapFails
  BY <1>12 DEF ReapFails, Unlock
<1> QED
  BY <1>1, <1>2, <1>3, <1>4, <1>5, <1>6, <1>7, <1>8, <1>9, <1>10, <1>11, <1>12 DEF Reap

\* A restart loses the locks with the handlers and the sweep that held them.
LEMMA RestartKeeps ==
  ASSUME ReaperInv, ServerRestart
  PROVE  ReaperInv'
  BY DEF ServerRestart, ReaperInv, TypeOK, Protocol, HeartbeatsLast, NewIsNowhere, HandlersHold,
     ReaperHolds, UsersAreMembers, MembersAreListed, ReleaseIsDue, UsedIsUp, WorkersAreListed

LEMMA ReaperStep == ReaperInv /\ [Next]_vars => ReaperInv'
<1> SUFFICES ASSUME ReaperInv, [Next]_vars PROVE ReaperInv'
  OBVIOUS
<1>1. CASE Smooth
  BY <1>1, ClientKeeps, AskKeeps, HandleKeeps, DeleteModelKeeps, WorkloadGoneKeeps, ReapKeeps
  DEF Smooth
<1>2. CASE ReapFails \/ ServerRestart
  BY <1>2, ReapKeeps, RestartKeeps
<1>3. CASE UNCHANGED vars
  BY <1>3 DEF vars, ReaperInv, TypeOK, Protocol, HeartbeatsLast, NewIsNowhere, HandlersHold,
     ReaperHolds, UsersAreMembers, MembersAreListed, ReleaseIsDue, UsedIsUp, WorkersAreListed
<1> QED
  BY <1>1, <1>2, <1>3 DEF Next

-----------------------------------------------------------------------------

\* The inductive invariant of the registry, the handlers and the reaper.
THEOREM ReaperInvariant == Spec => []ReaperInv
<1>1. Init => ReaperInv
  BY ReaperInit
<1>2. ReaperInv /\ [Next]_vars => ReaperInv'
  BY ReaperStep
<1> QED
  BY <1>1, <1>2, PTL DEF Spec

\* The registry, the locks and the reaper stay well formed, through every
\* interleaving of handlers, sweeps, failed calls and restarts.
THEOREM ReaperTypes == Spec => []TypeOK
<1>1. ReaperInv => TypeOK
  BY DEF ReaperInv
<1> QED
  BY <1>1, ReaperInvariant, PTL

\* No sweep, no restart, no other session's end and no failed call takes a
\* worker from a running client that bind_session and ensure gave it to.
THEOREM UsedWorkersStayUp == Spec => []UsedWorkersStay
<1>1. ReaperInv => UsedWorkersStay
  <2> SUFFICES ASSUME ReaperInv, NEW s \in Session, NEW w \in using[s]
               PROVE  workload[w] = "up"
    BY DEF UsedWorkersStay
  <2>1. PICK o \in Owner, r \in Role : w = <<o, r>>
    BY DEF ReaperInv, TypeOK
  <2> QED
    BY <2>1 DEF ReaperInv, UsedIsUp
<1> QED
  BY <1>1, ReaperInvariant, PTL

\* forget unlists an owner only when nothing of it is left but what a call of a
\* dropped session created meanwhile, and no other call creates anything for an
\* owner that is not listed: the reaper can find every other worker.
THEOREM NoWorkerIsForgotten == Spec => []WorkersAreListed
<1>1. ReaperInv => WorkersAreListed
  BY DEF ReaperInv
<1> QED
  BY <1>1, ReaperInvariant, PTL

===============================================================================
