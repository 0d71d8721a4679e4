--------------------------- MODULE RequestQueueProofs --------------------------
(***************************************************************************)
(* Proofs about RequestQueue!Spec, breaks included, for every set of       *)
(* tenants and requests: its invariants, and that it implements the lines  *)
(* of TenantLine.                                                          *)
(***************************************************************************)
EXTENDS RequestQueue, SequenceLemmas, TLAPS

\* A tenant that the worker has unlisted is still marked, so that no handler
\* lists it before the worker has unmarked it.
ListInv ==
  /\ OneEntry
  /\ HeadIsTarget
  /\ MarkedIsListed
  /\ pc = "srem" =>
       /\ target \in active
       /\ target \notin Range(list)
       /\ \A r \in Request : put[r] = "list" => TenantOf[r] # target
  /\ pc \in {"len", "lrem", "srem", "pop", "rotate"} => target \in Tenant

\* A request is in the queue of its tenant or in the batch, once, and has no
\* answer until the batch is worked on.
QueueInv ==
  \A m \in Tenant :
    /\ Injective(queue[m])
    /\ \A r \in Range(queue[m]) : TenantOf[r] = m /\ put[r] # "new" /\ answer[r] = "none"

BatchInv ==
  /\ Injective(batch)
  /\ \A r \in Range(batch) : put[r] # "new" /\ \A m \in Tenant : r \notin Range(queue[m])
  /\ \A r \in Request : put[r] = "new" => answer[r] = "none"
  /\ pc \notin {"pop", "rotate", "work", "fail"} => batch = <<>>
  /\ pc \notin {"work", "fail"} => done = 0
  /\ pc # "fail" => \A i \in DOMAIN batch : i > done => answer[batch[i]] = "none"

QInv == TypeOK /\ ListInv /\ QueueInv /\ BatchInv

-----------------------------------------------------------------------------

LEMMA InitQueue == Init => QInv
<1> SUFFICES ASSUME Init PROVE QInv
  OBVIOUS
<1>1. Range(list) = {} /\ Range(batch) = {} /\ \A m \in Tenant : Range(queue[m]) = {}
  BY DEF Init, Range
<1>2. TypeOK
  BY DEF Init, TypeOK, Put, PC
<1>3. ListInv
  BY <1>1 DEF Init, ListInv, OneEntry, HeadIsTarget, MarkedIsListed, Listing
<1>4. QueueInv /\ BatchInv
  BY <1>1 DEF Init, QueueInv, BatchInv, Injective
<1> QED BY <1>2, <1>3, <1>4 DEF QInv

\* put_request.
LEMMA PutStep ==
  ASSUME QInv, NEW r \in Request,
         PutQueue(r) \/ PutMark(r) \/ PutList(r) \/ PutBroken(r) \/ Expire(r) \/ Renew(r)
  PROVE  QInv'
<1> DEFINE m == TenantOf[r]
<1>0. m \in Tenant /\ TypeOK /\ ListInv /\ QueueInv /\ BatchInv
  BY QueueAssumption DEF QInv
<1>1. CASE PutQueue(r)
  <2>1. TypeOK'
    BY <1>0, <1>1 DEF PutQueue, TypeOK, workerVars, Put
  <2>2. ListInv'
    BY <1>0, <1>1 DEF PutQueue, TypeOK, ListInv, OneEntry, HeadIsTarget, MarkedIsListed, Listing, workerVars
  <2>3. r \notin Range(queue[m]) /\ r \notin Range(batch) /\ answer[r] = "none"
    BY <1>0, <1>1 DEF PutQueue, QueueInv, BatchInv
  <2>4. Injective(Append(queue[m], r)) /\ Range(Append(queue[m], r)) = Range(queue[m]) \cup {r}
    BY <1>0, <2>3, AppendKeepsInjective DEF TypeOK, QueueInv
  <2>5. queue'[m] = Append(queue[m], r) /\ \A k \in Tenant : k # m => queue'[k] = queue[k]
    BY <1>0, <1>1 DEF PutQueue, TypeOK
  <2>6. /\ put' = [put EXCEPT ![r] = "mark"]
        /\ answer' = answer
        /\ batch' = batch
        /\ pc' = pc
        /\ done' = done
    BY <1>1 DEF PutQueue, workerVars
  <2> HIDE DEF m
  <2>7. QueueInv'
    <3> SUFFICES ASSUME NEW k \in Tenant
                 PROVE  /\ Injective(queue'[k])
                        /\ \A s \in Range(queue'[k]) :
                             TenantOf[s] = k /\ put'[s] # "new" /\ answer[s] = "none"
      BY <2>6 DEF QueueInv
    <3>1. \A s : s # r \/ put'[s] # "new"
      BY <1>0, <2>6 DEF TypeOK
    <3>2. \A s \in Range(queue[k]) : s # r => put'[s] = put[s]
      BY <1>0, <2>6 DEF TypeOK
    <3>3. CASE k = m
      <4>1. Injective(queue'[m]) /\ Range(queue'[m]) = Range(queue[m]) \cup {r}
        BY <2>4, <2>5
      <4>2. TenantOf[r] = m /\ put'[r] # "new" /\ answer[r] = "none"
        BY <1>0, <2>3, <2>6 DEF TypeOK, m
      <4>3. \A s \in Range(queue[m]) :
              TenantOf[s] = m /\ put[s] # "new" /\ answer[s] = "none"
        BY <1>0 DEF QueueInv
      <4> QED BY <3>2, <3>3, <4>1, <4>2, <4>3
    <3>4. CASE k # m
      BY <1>0, <2>5, <3>1, <3>2, <3>4 DEF QueueInv, m
    <3> QED BY <3>3, <3>4
  <2>8. BatchInv'
    <3>1. \A s : s # r => put'[s] = put[s]
      BY <1>0, <2>6 DEF TypeOK
    <3>2. \A s \in Range(batch) : put'[s] # "new" /\ \A k \in Tenant : s \notin Range(queue'[k])
      BY <1>0, <2>3, <2>4, <2>5, <3>1 DEF BatchInv
    <3>3. \A s \in Request : put'[s] = "new" => answer[s] = "none"
      BY <1>0, <2>3, <3>1 DEF BatchInv
    <3> QED BY <1>0, <2>6, <3>2, <3>3 DEF BatchInv
  <2> QED BY <2>1, <2>2, <2>7, <2>8 DEF QInv
<1>2. CASE PutMark(r)
  <2>1. TypeOK'
    BY <1>0, <1>2 DEF PutMark, TypeOK, workerVars, Put
  <2>2. ListInv'
    BY <1>0, <1>2, QueueAssumption
    DEF PutMark, TypeOK, ListInv, OneEntry, HeadIsTarget, MarkedIsListed, Listing, workerVars
  <2>3. QueueInv' /\ BatchInv'
    BY <1>0, <1>2 DEF PutMark, TypeOK, QueueInv, BatchInv, workerVars
  <2> QED BY <2>1, <2>2, <2>3 DEF QInv
<1>3. CASE PutList(r)
  <2>1. list \in Seq(Tenant) /\ Injective(list) /\ m \notin Range(list) /\ m \in active
    BY <1>0, <1>3 DEF PutList, TypeOK, ListInv, OneEntry, Injective
  <2>2. /\ list' \in Seq(Tenant)
        /\ Injective(list')
        /\ Range(list') = Range(list) \cup {m}
    BY <1>0, <1>3, <2>1, AppendKeepsInjective, AppendProperties DEF PutList
  <2>3. list # <<>> => list' # <<>> /\ Head(list') = Head(list)
    BY <1>0, <1>3, <2>1 DEF PutList
  <2>4. TypeOK'
    BY <1>0, <1>3, <2>2 DEF PutList, TypeOK, workerVars, Put
  <2>5. MarkedIsListed'
    <3> SUFFICES ASSUME NEW k \in active \ torn, k # m, k \notin Range(list),
                        ~(pc = "srem" /\ target = k)
                 PROVE  \E s \in Request : put'[s] = "list" /\ TenantOf[s] = k
      BY <1>3, <2>2 DEF PutList, MarkedIsListed, Listing, workerVars
    <3>1. PICK s \in Request : put[s] = "list" /\ TenantOf[s] = k
      BY <1>0 DEF ListInv, MarkedIsListed, Listing
    <3>2. put'[s] = "list"
      BY <1>0, <1>3, <3>1 DEF PutList, TypeOK
    <3> QED BY <3>1, <3>2
  <2>6. ListInv'
    BY <1>0, <1>3, <2>1, <2>2, <2>3, <2>5, QueueAssumption
    DEF PutList, TypeOK, ListInv, OneEntry, HeadIsTarget, workerVars, Injective
  <2>7. QueueInv' /\ BatchInv'
    BY <1>0, <1>3 DEF PutList, TypeOK, QueueInv, BatchInv, workerVars
  <2> QED BY <2>4, <2>6, <2>7 DEF QInv
<1>4. CASE PutBroken(r)
  <2>1. TypeOK' /\ ListInv'
    BY <1>0, <1>4
    DEF PutBroken, TypeOK, ListInv, OneEntry, HeadIsTarget, MarkedIsListed, Listing, redisVars, workerVars, Put
  <2>2. QueueInv' /\ BatchInv'
    BY <1>0, <1>4 DEF PutBroken, TypeOK, QueueInv, BatchInv, redisVars, workerVars
  <2> QED BY <2>1, <2>2 DEF QInv
<1>5. CASE Expire(r)
  <2>1. TypeOK' /\ ListInv'
    BY <1>0, <1>5
    DEF Expire, TypeOK, ListInv, OneEntry, HeadIsTarget, MarkedIsListed, Listing, workerVars
  <2>2. QueueInv' /\ BatchInv'
    BY <1>0, <1>5 DEF Expire, TypeOK, QueueInv, BatchInv, workerVars
  <2> QED BY <2>1, <2>2 DEF QInv
<1>6. CASE Renew(r)
  <2>1. /\ put[r] = "sent"
        /\ answer[r] = "none"
        /\ put' = [put EXCEPT ![r] = "new"]
        /\ UNCHANGED <<queue, active, list, answer, workerVars, torn>>
    BY <1>6 DEF Renew, redisVars
  <2>2. TypeOK' /\ ListInv'
    BY <1>0, <2>1
    DEF TypeOK, ListInv, OneEntry, HeadIsTarget, MarkedIsListed, Listing, workerVars, Put
  <2>3. r \notin Range(batch) /\ \A k \in Tenant : r \notin Range(queue[k])
    BY <1>6 DEF Renew, Pending
  <2>4. QueueInv' /\ BatchInv'
    BY <1>0, <2>1, <2>3 DEF TypeOK, QueueInv, BatchInv, workerVars
  <2> QED BY <2>2, <2>4 DEF QInv
<1> QED BY <1>1, <1>2, <1>3, <1>4, <1>5, <1>6

\* get_requests up to the drain.
LEMMA LookStep ==
  ASSUME QInv, Peek \/ Unblock \/ Timeout \/ Depth \/ Unlist \/ Unmark \/ Rotate
  PROVE  QInv'
<1>0. /\ TypeOK /\ ListInv /\ QueueInv /\ BatchInv
      /\ list \in Seq(Tenant) /\ Injective(list)
  BY DEF QInv, TypeOK, ListInv, OneEntry, Injective
<1>1. QueueInv' /\ BatchInv'
  BY <1>0
  DEF QueueInv, BatchInv, redisVars, Peek, Unblock, Timeout, Depth, Unlist, Unmark, Rotate
<1>2. CASE Peek
  <2>1. list # <<>> => Head(list) \in Tenant
    BY <1>0
  <2>2. TypeOK'
    BY <1>0, <1>2, <2>1 DEF Peek, TypeOK, redisVars, PC
  <2>3. ListInv'
    BY <1>0, <1>2, <2>1 DEF Peek, ListInv, OneEntry, HeadIsTarget, MarkedIsListed, Listing, redisVars
  <2> QED BY <1>1, <2>2, <2>3 DEF QInv
<1>3. CASE Unblock
  <2>1. /\ list' \in Seq(Tenant)
        /\ list' # <<>>
        /\ Head(list') = Last(list)
        /\ Last(list) \in Tenant
        /\ Injective(list')
        /\ Range(list') = Range(list)
    BY <1>0, <1>3, RotateBackKeepsInjective DEF Unblock
  <2>2. TypeOK'
    BY <1>0, <1>3, <2>1 DEF Unblock, TypeOK, PC
  <2>3. ListInv'
    BY <1>0, <1>3, <2>1 DEF Unblock, ListInv, OneEntry, HeadIsTarget, MarkedIsListed, Listing, Injective
  <2> QED BY <1>1, <2>2, <2>3 DEF QInv
<1>4. CASE Timeout \/ Depth
  <2>1. TypeOK'
    BY <1>0, <1>4, LenProperties DEF Timeout, Depth, TypeOK, ListInv, redisVars, PC
  <2>2. ListInv'
    BY <1>0, <1>4 DEF Timeout, Depth, ListInv, OneEntry, HeadIsTarget, MarkedIsListed, Listing, redisVars
  <2> QED BY <1>1, <2>1, <2>2 DEF QInv
<1>5. CASE Unlist
  <2>1. /\ list' \in Seq(Tenant)
        /\ Injective(list')
        /\ Range(list') = Range(list) \ {target}
    BY <1>0, <1>5, RemoveFirstType, RemoveFirstInjective DEF Unlist
  <2>2. target \in Range(list)
    <3>1. list # <<>> /\ Head(list) = target
      BY <1>0, <1>5 DEF Unlist, ListInv, HeadIsTarget
    <3>2. 1 \in DOMAIN list /\ list[1] = target
      BY <1>0, <3>1, EmptySeq, LenProperties, HeadTailProperties
    <3> QED BY <3>2 DEF Range
  <2>3. TypeOK'
    BY <1>0, <1>5, <2>1 DEF Unlist, TypeOK, PC
  <2>4. ListInv'
    BY <1>0, <1>5, <2>1, <2>2 DEF Unlist, ListInv, OneEntry, HeadIsTarget, MarkedIsListed, Listing, Injective
  <2> QED BY <1>1, <2>3, <2>4 DEF QInv
<1>6. CASE Unmark
  <2>1. TypeOK'
    BY <1>0, <1>6 DEF Unmark, TypeOK, PC
  <2>2. ListInv'
    BY <1>0, <1>6 DEF Unmark, ListInv, OneEntry, HeadIsTarget, MarkedIsListed, Listing
  <2> QED BY <1>1, <2>1, <2>2 DEF QInv
<1>7. CASE Rotate
  <2>1. list # <<>>
    BY <1>0, <1>7 DEF Rotate, ListInv, HeadIsTarget
  <2>2. /\ list' \in Seq(Tenant)
        /\ Injective(list')
        /\ Range(list') = Range(list)
    BY <1>0, <1>7, <2>1, RotateKeepsInjective DEF Rotate
  <2>3. TypeOK'
    BY <1>0, <1>7, <2>2 DEF Rotate, TypeOK, PC
  <2>4. ListInv'
    BY <1>0, <1>7, <2>2 DEF Rotate, ListInv, OneEntry, HeadIsTarget, MarkedIsListed, Listing, Injective
  <2> QED BY <1>1, <2>3, <2>4 DEF QInv
<1> QED BY <1>2, <1>3, <1>4, <1>5, <1>6, <1>7

LEMMA PopStep ==
  ASSUME QInv, Pop
  PROVE  QInv'
<1> DEFINE q == queue[target]
           r == Head(q)
<1>0. TypeOK /\ ListInv /\ QueueInv /\ BatchInv
  BY DEF QInv
<1>1. target \in Tenant /\ q \in Seq(Request) /\ q # <<>> /\ Injective(q)
  BY <1>0 DEF Pop, ListInv, TypeOK, QueueInv
<1>2. r \in Request /\ r \in Range(q) /\ r \notin Range(batch)
  <2>1. 1 \in DOMAIN q /\ q[1] = r /\ r \in Request
    BY <1>1, EmptySeq, LenProperties, HeadTailProperties, ElementOfSeq
  <2> QED BY <2>1, <1>0, <1>1 DEF Range, BatchInv
<1>3. Tail(q) \in Seq(Request) /\ Injective(Tail(q)) /\ Range(Tail(q)) = Range(q) \ {r}
  BY <1>1, TailKeepsInjective
<1>4. queue'[target] = Tail(q) /\ \A m \in Tenant : m # target => queue'[m] = queue[m]
  BY <1>0, <1>1 DEF Pop, TypeOK
<1> HIDE DEF q, r
<1>5. batch \in Seq(Request) /\ Injective(batch) /\ done = 0
  BY <1>0 DEF Pop, TypeOK, BatchInv
<1>6. /\ batch' = Append(batch, r)
      /\ batch' \in Seq(Request)
      /\ Injective(batch')
      /\ Range(batch') = Range(batch) \cup {r}
      /\ 0 \in 0 .. Len(batch')
  <2>1. batch' = Append(batch, r)
    BY DEF Pop, q, r
  <2>2. Append(batch, r) \in Seq(Request)
    BY <1>2, <1>5, AppendProperties
  <2>3. 0 \in 0 .. Len(Append(batch, r))
    BY <2>2, LenProperties
  <2>4. Injective(Append(batch, r)) /\ Range(Append(batch, r)) = Range(batch) \cup {r}
    BY <1>2, <1>5, AppendKeepsInjective
  <2> QED BY <2>1, <2>2, <2>3, <2>4
<1>7. /\ done' = done
      /\ UNCHANGED <<active, list, answer, put, target, torn>>
      /\ pc = "pop" /\ pc' \in {"pop", "rotate"}
      /\ left' \in Nat
  BY <1>0 DEF Pop, TypeOK
<1>8. queue' \in [Tenant -> Seq(Request)]
  <2>1. queue' = [queue EXCEPT ![target] = Tail(q)]
    BY DEF Pop, q
  <2> QED BY <2>1, <1>0, <1>1, <1>3 DEF TypeOK
<1>9. TypeOK'
  BY <1>0, <1>5, <1>6, <1>7, <1>8 DEF TypeOK, PC
<1>10. ListInv'
  BY <1>0, <1>7 DEF ListInv, OneEntry, HeadIsTarget, MarkedIsListed, Listing
<1>11. QueueInv'
  BY <1>0, <1>3, <1>4, <1>7 DEF QueueInv, q
<1>12. answer[r] = "none" /\ put[r] # "new" /\ \A m \in Tenant : r \in Range(queue[m]) => m = target
  BY <1>0, <1>1, <1>2 DEF QueueInv, q
<1>13. \A x \in Range(batch') : put[x] # "new" /\ \A m \in Tenant : x \notin Range(queue'[m])
  BY <1>0, <1>3, <1>4, <1>6, <1>12 DEF BatchInv, q
<1>14. \A i \in DOMAIN batch' : answer[batch'[i]] = "none"
  <2>1. \A x \in Range(batch) : answer[x] = "none"
    BY <1>0, <1>5, <1>7, LenProperties DEF BatchInv, Range
  <2>2. \A x \in Range(batch') : answer[x] = "none"
    BY <2>1, <1>6, <1>12
  <2> QED BY <2>2 DEF Range
<1>15. BatchInv'
  BY <1>0, <1>6, <1>7, <1>13, <1>14 DEF BatchInv
<1> QED BY <1>9, <1>10, <1>11, <1>15 DEF QInv

\* The worker's answers.
LEMMA WorkStep ==
  ASSUME QInv, Handle \/ Fail \/ StoreError \/ BatchDone \/ Broken
  PROVE  QInv'
<1>0. TypeOK /\ ListInv /\ QueueInv /\ BatchInv
  BY DEF QInv
<1>1. ListInv'
  BY <1>0
  DEF ListInv, OneEntry, HeadIsTarget, MarkedIsListed, Listing, Handle, Fail, StoreError, BatchDone, Broken, redisVars
<1>2. CASE Handle \/ Fail
  <2>1. PICK v \in {"result", "failed"} :
          /\ answer' = [answer EXCEPT ![batch[done + 1]] = v]
          /\ done < Len(batch)
          /\ done' = done + 1
          /\ pc \in {"work", "fail"}
          /\ UNCHANGED <<queue, active, list, put, pc, target, left, batch, torn>>
    BY <1>2 DEF Handle, Fail
  <2>2. /\ done + 1 \in DOMAIN batch
        /\ done' \in 0 .. Len(batch)
        /\ batch[done + 1] \in Request
        /\ batch[done + 1] \in Range(batch)
    BY <1>0, <2>1, LenProperties, ElementOfSeq DEF TypeOK, Range
  <2>3. TypeOK'
    BY <1>0, <2>1, <2>2 DEF TypeOK
  <2>4. QueueInv'
    BY <1>0, <2>1, <2>2 DEF TypeOK, QueueInv, BatchInv
  <2>5. \A x \in Request : put[x] = "new" => answer'[x] = "none"
    BY <1>0, <2>1, <2>2 DEF TypeOK, BatchInv
  <2>6. ASSUME pc # "fail", NEW i \in DOMAIN batch, i > done + 1
        PROVE  answer'[batch[i]] = "none"
    <3>1. i > done /\ i # done + 1
      BY <1>0, <2>6, LenProperties DEF TypeOK
    <3>2. answer[batch[i]] = "none" /\ batch[i] # batch[done + 1]
      BY <1>0, <2>2, <2>6, <3>1 DEF BatchInv, Injective
    <3>3. batch[i] \in Request
      BY <1>0, LenProperties, ElementOfSeq DEF TypeOK
    <3> QED BY <1>0, <2>1, <3>2, <3>3 DEF TypeOK
  <2>7. BatchInv'
    BY <1>0, <2>1, <2>5, <2>6 DEF BatchInv
  <2> QED BY <1>1, <2>3, <2>4, <2>7 DEF QInv
<1>3. CASE StoreError
  <2>1. TypeOK' /\ QueueInv' /\ BatchInv'
    BY <1>0, <1>3, LenProperties DEF StoreError, TypeOK, QueueInv, BatchInv, redisVars, PC
  <2> QED BY <1>1, <2>1 DEF QInv
<1>4. CASE BatchDone \/ Broken
  <2>1. /\ pc' = "peek"
        /\ batch' = <<>>
        /\ done' = 0
        /\ UNCHANGED <<redisVars, put, target, left>>
        /\ torn' = torn \/ (pc = "srem" /\ torn' = torn \cup {target})
    BY <1>4 DEF BatchDone, Broken
  <2>2. TypeOK'
    <3>1. torn' \in SUBSET Tenant
      BY <1>0, <2>1 DEF TypeOK, ListInv
    <3> QED BY <1>0, <2>1, <3>1 DEF TypeOK, redisVars, PC
  <2>3. QueueInv' /\ BatchInv'
    BY <1>0, <2>1 DEF QueueInv, BatchInv, redisVars, Range, Injective
  <2> QED BY <1>1, <2>2, <2>3 DEF QInv
<1> QED BY <1>2, <1>3, <1>4

LEMMA QueueStep == QInv /\ [Next]_vars => QInv'
<1> SUFFICES ASSUME QInv, [Next]_vars PROVE QInv'
  OBVIOUS
<1>1. CASE UNCHANGED vars
  BY <1>1
  DEF QInv, TypeOK, ListInv, OneEntry, HeadIsTarget, MarkedIsListed, Listing, QueueInv, BatchInv,
      vars, redisVars, workerVars
<1>2. CASE Next
  BY <1>2, PutStep, LookStep, PopStep, WorkStep DEF Next, SmoothNext, Poll, Enqueue
<1> QED BY <1>1, <1>2

-----------------------------------------------------------------------------
(* The theorems *)

\* The inductive invariant holds in every reachable state: the rotation's two
\* keys, the queues, the batch and the answers agree, whatever breaks.
THEOREM QueueInvariant == Spec => []QInv
BY InitQueue, QueueStep, PTL DEF Spec

\* Type correctness of store, API server and worker.
THEOREM QueueTypeCorrect == Spec => []TypeOK
BY QueueInvariant, PTL DEF QInv

\* A tenant has at most one turn in the rotation.
THEOREM TenantsHaveOneEntry == Spec => []OneEntry
<1>1. QInv => OneEntry
  BY DEF QInv, ListInv
<1> QED BY QueueInvariant, <1>1, PTL

\* The turn that a rotation ends is the drained tenant's.
THEOREM RotatesTheTarget == Spec => []HeadIsTarget
<1>1. QInv => HeadIsTarget
  BY DEF QInv, ListInv
<1> QED BY QueueInvariant, <1>1, PTL

\* Only an error between two commands leaves a marked tenant that no later
\* request lists again.
THEOREM MarksLeadToTurns == Spec => []MarkedIsListed
<1>1. QInv => MarkedIsListed
  BY DEF QInv, ListInv
<1> QED BY QueueInvariant, <1>1, PTL

\* No request is popped or handled twice.
THEOREM RequestsAreHandledOnce == Spec => []HandledOnce
<1>1. ASSUME QInv PROVE HandledOnce
  <2>1. \A r \in Unhandled : pc = "work" => answer[r] = "none"
    BY <1>1, LenProperties DEF QInv, TypeOK, BatchInv, Unhandled
  <2>2. \A r \in Pending : answer[r] = "none" /\ r \notin Range(batch)
    BY <1>1 DEF QInv, QueueInv, BatchInv, Pending
  <2> QED BY <1>1, <2>1, <2>2 DEF HandledOnce, QInv, QueueInv, BatchInv, Injective
<1> QED BY QueueInvariant, <1>1, PTL

-----------------------------------------------------------------------------
(* The lines *)

\* A batch that is worked on is of a tenant.
OrderInv == QInv /\ (pc = "work" => target \in Tenant)

LEMMA TargetStep == OrderInv /\ [Next]_vars => OrderInv'
<1> SUFFICES ASSUME OrderInv, [Next]_vars PROVE OrderInv'
  OBVIOUS
<1>1. QInv'
  BY QueueStep DEF OrderInv
<1>2. pc' = "work" => target' \in Tenant
  <2>1. CASE pc' = "work" /\ pc # "work"
    <3>1. Rotate
      BY <2>1
      DEF Next, SmoothNext, Poll, Enqueue, vars, workerVars, Peek, Unblock, Timeout, Depth,
          Unlist, Unmark, Pop, Handle, Fail, BatchDone, StoreError, Broken, PutQueue,
          PutMark, PutList, PutBroken, Expire, Renew
    <3> QED
      BY <3>1 DEF Rotate, OrderInv, QInv, ListInv
  <2>2. CASE pc' = "work" /\ pc = "work"
    <3>1. target' = target
      BY <2>2
      DEF Next, SmoothNext, Poll, Enqueue, vars, workerVars, Peek, Unblock, Timeout, Depth,
          Unlist, Unmark, Pop, Rotate, Handle, Fail, BatchDone, StoreError, Broken, PutQueue,
          PutMark, PutList, PutBroken, Expire, Renew
    <3> QED
      BY <2>2, <3>1 DEF OrderInv
  <2> QED
    BY <2>1, <2>2
<1> QED
  BY <1>1, <1>2 DEF OrderInv

\* What Line substitutes for TenantLine's variables.
LineOf == [m \in Tenant |-> IF m = target THEN InHand \o queue[m] ELSE queue[m]]
TakenOf == [m \in Tenant |-> IF m = target THEN Len(InHand) ELSE 0]

Standing(r) == \E i \in DOMAIN LineOf[TenantOf[r]] : LineOf[TenantOf[r]][i] = r

\* What is in hand is the end of the batch, in the places of a turn.
LEMMA HandFacts ==
  ASSUME OrderInv
  PROVE  /\ InHand \in Seq(Request)
         /\ Range(InHand) \subseteq Range(batch)
         /\ pc # "fail" => Len(InHand) = Len(batch) - done
         /\ pc \notin {"pop", "rotate", "work"} => InHand = <<>>
         /\ InHand # <<>> => target \in Tenant
<1>1. /\ batch \in Seq(Request) /\ done \in 0 .. Len(batch) /\ Len(batch) \in Nat
      /\ DOMAIN batch = 1 .. Len(batch)
  BY LenProperties DEF OrderInv, QInv, TypeOK
<1>2. CASE pc = "fail"
  BY <1>2, EmptySeq DEF InHand, Range
<1>3. CASE pc # "fail"
  <2>1. /\ InHand \in Seq(Request)
        /\ Len(InHand) = Len(batch) - done
        /\ Range(InHand) \subseteq Range(batch)
    BY <1>1, <1>3, DropKeepsLast DEF InHand
  <2>2. pc \notin {"pop", "rotate", "work"} => InHand = <<>>
    <3> SUFFICES ASSUME pc \notin {"pop", "rotate", "work"} PROVE InHand = <<>>
      OBVIOUS
    <3>1. batch = <<>> /\ done = 0
      BY <1>3 DEF OrderInv, QInv, BatchInv
    <3> QED
      BY <2>1, <3>1, EmptySeq
  <2>3. pc \in {"pop", "rotate", "work"} => target \in Tenant
    BY DEF OrderInv, QInv, ListInv
  <2> QED
    BY <1>3, <2>1, <2>2, <2>3
<1> QED
  BY <1>2, <1>3

\* The lines are of requests, and empty hands leave the queues.
LEMMA LineFacts ==
  ASSUME OrderInv
  PROVE  /\ LineOf \in [Tenant -> Seq(Request)]
         /\ TakenOf \in [Tenant -> Nat]
         /\ InHand = <<>> => LineOf = queue /\ TakenOf = [m \in Tenant |-> 0]
<1>1. /\ queue \in [Tenant -> Seq(Request)]
      /\ InHand \in Seq(Request)
      /\ Len(InHand) \in Nat
  BY HandFacts, LenProperties DEF OrderInv, QInv, TypeOK
<1>2. \A m \in Tenant : InHand \o queue[m] \in Seq(Request)
  BY <1>1, ConcatProperties
<1>3. ASSUME InHand = <<>> PROVE LineOf = queue /\ TakenOf = [m \in Tenant |-> 0]
  <2>1. \A m \in Tenant : InHand \o queue[m] = queue[m]
    BY <1>1, <1>3, ConcatEmptySeq
  <2>2. Len(InHand) = 0
    BY <1>3, EmptySeq
  <2>3. LineOf = queue
    BY <1>1, <2>1 DEF LineOf
  <2>4. TakenOf = [m \in Tenant |-> 0]
    BY <2>2 DEF TakenOf
  <2> QED
    BY <2>3, <2>4
<1>4. LineOf \in [Tenant -> Seq(Request)]
  BY <1>1, <1>2 DEF LineOf
<1>5. TakenOf \in [Tenant -> Nat]
  BY <1>1 DEF TakenOf
<1> QED
  BY <1>3, <1>4, <1>5

\* A request that is neither in the batch nor queued stands in no line.
LEMMA NotStanding ==
  ASSUME OrderInv, NEW r \in Request, r \notin Range(InHand), r \notin Range(queue[TenantOf[r]])
  PROVE  ~Standing(r)
<1> DEFINE m == TenantOf[r]
<1>1. m \in Tenant /\ queue[m] \in Seq(Request) /\ InHand \in Seq(Request)
  BY QueueAssumption, HandFacts DEF OrderInv, QInv, TypeOK
<1>2. Range(LineOf[m]) \subseteq Range(InHand) \cup Range(queue[m])
  <2>1. Range(InHand \o queue[m]) = Range(InHand) \cup Range(queue[m])
    BY <1>1, RangeConcatenation
  <2> QED
    BY <1>1, <2>1 DEF LineOf
<1>3. r \notin Range(LineOf[m])
  BY <1>2
<1> QED
  BY <1>3 DEF Standing, Range

\* Lines, hands and answers are all that TenantLine sees.
LEMMA LineStays ==
  ASSUME LineOf' = LineOf, TakenOf' = TakenOf, answer' = answer
  PROVE  [Line!Next]_(Line!vars)
  BY DEF Line!vars, LineOf, TakenOf

LEMMA EmptyHands ==
  OrderInv /\ InHand = <<>> => LineOf = queue /\ TakenOf = [m \in Tenant |-> 0]
  BY LineFacts

LEMMA HandsStayEmpty ==
  ASSUME OrderInv, OrderInv', InHand = <<>>, InHand' = <<>>, UNCHANGED <<queue, answer>>
  PROVE  [Line!Next]_(Line!vars)
<1>1. LineOf = queue /\ TakenOf = [m \in Tenant |-> 0]
  BY EmptyHands
<1>2. (OrderInv /\ InHand = <<>> => LineOf = queue /\ TakenOf = [m \in Tenant |-> 0])'
  BY EmptyHands, PTL
<1>3. LineOf' = queue' /\ TakenOf' = [m \in Tenant |-> 0]
  BY <1>2
<1> QED
  BY <1>1, <1>3, LineStays

LEMMA IdleHands ==
  OrderInv /\ pc \notin {"pop", "rotate", "work"} => InHand = <<>>
  BY HandFacts

\* A put joins the line behind what is in hand.
LEMMA JoinsLine ==
  ASSUME OrderInv, NEW r \in Request, PutQueue(r)
  PROVE  Line!Join(r)
<1> DEFINE m == TenantOf[r]
<1>1. /\ put[r] = "new" /\ m \in Tenant
      /\ queue' = [queue EXCEPT ![m] = Append(@, r)]
      /\ UNCHANGED <<answer, pc, target, batch, done>>
  BY QueueAssumption DEF PutQueue, workerVars
<1>2. /\ r \notin Range(batch) /\ r \notin Range(queue[m]) /\ answer[r] = "none"
      /\ queue \in [Tenant -> Seq(Request)]
      /\ InHand \in Seq(Request) /\ Range(InHand) \subseteq Range(batch)
  BY <1>1, HandFacts DEF OrderInv, QInv, QueueInv, BatchInv, TypeOK
<1>3. ~Standing(r)
  BY <1>2, NotStanding
<1>4. InHand' = InHand
  BY <1>1 DEF InHand
<1>5. InHand \o Append(queue[m], r) = Append(InHand \o queue[m], r)
  BY <1>1, <1>2, AppendInLine
<1> HIDE DEF m
<1>6. LineOf' = [LineOf EXCEPT ![m] = Append(@, r)]
  BY <1>1, <1>2, <1>4, <1>5 DEF LineOf
<1>7. TakenOf' = TakenOf
  BY <1>1, <1>4 DEF TakenOf
<1> QED
  BY <1>1, <1>2, <1>3, <1>6, <1>7 DEF Line!Join, Line!InLine, Standing, LineOf, TakenOf, m

\* A pop takes the first that is not in hand, and the line stays.
LEMMA PopTakes ==
  ASSUME OrderInv, Pop, NEW k \in Tenant, k = target
  PROVE  Line!Take(k)
<1> DEFINE q == queue[target]
<1>1. /\ target \in Tenant /\ q \in Seq(Request) /\ q # <<>> /\ done = 0
      /\ batch \in Seq(Request) /\ pc = "pop"
      /\ queue \in [Tenant -> Seq(Request)]
  BY DEF OrderInv, QInv, ListInv, BatchInv, TypeOK, Pop
<1>2. /\ batch' = Append(batch, Head(q))
      /\ queue' = [queue EXCEPT ![target] = Tail(q)]
      /\ done' = 0 /\ target' = target /\ answer' = answer /\ pc' # "fail"
  BY <1>1 DEF Pop
<1>3. Head(q) \in Request
  BY <1>1, HeadTailProperties
<1>4. InHand = batch
  BY <1>1, SubSeqFull DEF InHand
<1>5. InHand' = Append(batch, Head(q))
  <2>1. Append(batch, Head(q)) \in Seq(Request)
    BY <1>1, <1>3, AppendProperties
  <2>2. SubSeq(Append(batch, Head(q)), 1, Len(Append(batch, Head(q)))) = Append(batch, Head(q))
    BY <2>1, SubSeqFull
  <2> QED
    BY <1>2, <2>2 DEF InHand
<1>6. InHand' \o Tail(q) = InHand \o q
  BY <1>1, <1>4, <1>5, HandOverHead
<1>7. Len(InHand') = Len(InHand) + 1 /\ Len(InHand) \in Nat
  BY <1>1, <1>3, <1>4, <1>5, AppendProperties, LenProperties
<1>8. Len(InHand) < Len(InHand \o q)
  <2>1. Len(InHand \o q) = Len(InHand) + Len(q) /\ Len(q) \in Nat \ {0}
    BY <1>1, <1>4, ConcatProperties, EmptySeq
  <2> QED
    BY <1>7, <2>1
<1>9. LineOf' = LineOf
  <2>1. \A m \in Tenant : queue'[m] = IF m = target THEN Tail(q) ELSE queue[m]
    BY <1>1, <1>2
  <2> HIDE DEF q
  <2> QED
    BY <1>2, <1>6, <2>1 DEF LineOf, q
<1>10. TakenOf' = [TakenOf EXCEPT ![target] = @ + 1]
  BY <1>1, <1>2, <1>7 DEF TakenOf
<1>11. /\ \A n \in Tenant \ {target} : TakenOf[n] = 0
       /\ TakenOf[target] = Len(InHand)
       /\ LineOf[target] = InHand \o q
  BY <1>1 DEF TakenOf, LineOf
<1>12. TakenOf[target] < Len(LineOf[target])
  BY <1>8, <1>11
<1> QED
  BY <1>2, <1>9, <1>10, <1>11, <1>12 DEF Line!Take, LineOf, TakenOf

\* An operation handles the first in line.
LEMMA HandlesFirst ==
  ASSUME OrderInv, Handle, NEW k \in Tenant, k = target
  PROVE  Line!Handle(k)
<1> DEFINE q == queue[target]
           r == batch[done + 1]
<1>1. /\ target \in Tenant /\ q \in Seq(Request)
      /\ batch \in Seq(Request) /\ pc = "work"
      /\ done \in Nat /\ done < Len(batch) /\ Len(batch) \in Nat
      /\ queue \in [Tenant -> Seq(Request)]
      /\ answer \in [Request -> {"none", "result", "failed"}]
  BY LenProperties DEF OrderInv, QInv, TypeOK, Handle
<1>2. /\ answer' = [answer EXCEPT ![r] = "result"]
      /\ done' = done + 1
      /\ UNCHANGED <<queue, pc, target, batch>>
  BY DEF Handle
<1>3. answer[r] = "none"
  <2>1. done + 1 \in DOMAIN batch /\ done + 1 > done
    BY <1>1, LenProperties
  <2> QED
    BY <1>1, <2>1 DEF OrderInv, QInv, BatchInv
<1>4. InHand = SubSeq(batch, done + 1, Len(batch)) /\ InHand' = SubSeq(batch, done + 2, Len(batch))
  <2>1. done + 1 + 1 = done + 2
    BY <1>1
  <2> QED
    BY <1>1, <1>2, <2>1 DEF InHand
<1>5. /\ InHand \o q # <<>>
      /\ Head(InHand \o q) = r
      /\ Tail(InHand \o q) = InHand' \o q
  BY <1>1, <1>4, NextInLine
<1>6. Len(InHand) = Len(batch) - done /\ Len(InHand') = Len(batch) - done - 1
  <2>1. \A i \in 0..Len(batch) : Len(SubSeq(batch, i + 1, Len(batch))) = Len(batch) - i
    BY <1>1, DropKeepsLast
  <2>2. /\ done \in 0..Len(batch) /\ done + 1 \in 0..Len(batch)
        /\ done + 1 + 1 = done + 2 /\ Len(batch) - (done + 1) = Len(batch) - done - 1
    BY <1>1
  <2>3. Len(SubSeq(batch, done + 1, Len(batch))) = Len(batch) - done
    BY <2>1, <2>2
  <2>4. Len(SubSeq(batch, done + 1 + 1, Len(batch))) = Len(batch) - (done + 1)
    BY <2>1, <2>2
  <2> QED
    BY <1>4, <2>2, <2>3, <2>4
<1> HIDE DEF r
<1>7. /\ TakenOf[target] = Len(InHand) /\ TakenOf[target] > 0
      /\ LineOf[target] = InHand \o q
  BY <1>1, <1>6 DEF TakenOf, LineOf
<1>8. LineOf' = [LineOf EXCEPT ![target] = Tail(@)]
  BY <1>1, <1>2, <1>5 DEF LineOf
<1>9. TakenOf' = [TakenOf EXCEPT ![target] = @ - 1]
  BY <1>1, <1>2, <1>6 DEF TakenOf
<1>10. /\ Head(LineOf[target]) = r
       /\ answer' = [answer EXCEPT ![Head(LineOf[target])] = "result"]
       /\ answer[Head(LineOf[target])] = "none"
  BY <1>2, <1>3, <1>5, <1>7 DEF r
<1> QED
  BY <1>7, <1>8, <1>9, <1>10 DEF Line!Handle, LineOf, TakenOf

\* Whatever drops the hand loses that, and the queue is the line that is left.
LEMMA LosesHand ==
  ASSUME OrderInv, InHand # <<>>, InHand' = <<>>, UNCHANGED <<queue, target, answer>>,
         NEW k \in Tenant, k = target
  PROVE  Line!Lose(k)
<1> DEFINE q == queue[target]
<1>1. /\ target \in Tenant /\ q \in Seq(Request) /\ InHand \in Seq(Request)
      /\ queue \in [Tenant -> Seq(Request)]
  BY HandFacts DEF OrderInv, QInv, TypeOK
<1>2. Len(InHand) \in Nat \ {0} /\ Len(InHand') = 0
  BY <1>1, EmptySeq
<1>3. SubSeq(InHand \o q, Len(InHand) + 1, Len(InHand \o q)) = q
  BY <1>1, DropPrefix
<1>4. <<>> \o q = q
  BY <1>1, ConcatEmptySeq
<1>5. TakenOf[target] = Len(InHand) /\ LineOf[target] = InHand \o q
  BY <1>1 DEF TakenOf, LineOf
<1>6. LineOf' = [LineOf EXCEPT ![target] = q]
  BY <1>1, <1>4 DEF LineOf
<1>7. TakenOf' = [TakenOf EXCEPT ![target] = 0]
  <2>1. TakenOf' = [m \in Tenant |-> 0]
    BY <1>2 DEF TakenOf
  <2>2. \A m \in Tenant \ {target} : TakenOf[m] = 0
    BY DEF TakenOf
  <2>3. TakenOf \in [Tenant -> Nat]
    BY LineFacts
  <2> HIDE DEF q
  <2> QED
    BY <2>1, <2>2, <2>3
<1>8. LineOf' = [LineOf EXCEPT ![target] = SubSeq(@, TakenOf[target] + 1, Len(@))]
  BY <1>3, <1>5, <1>6
<1> QED
  BY <1>2, <1>5, <1>7, <1>8 DEF Line!Lose, LineOf, TakenOf

\* A failure goes to a request of the batch, which is in no line any more.
LEMMA FailsLost ==
  ASSUME OrderInv, Fail
  PROVE  \E r \in Request : Line!Fail(r)
<1> DEFINE r == batch[done + 1]
<1>1. /\ batch \in Seq(Request) /\ pc = "fail"
      /\ done \in Nat /\ done < Len(batch) /\ Len(batch) \in Nat
  BY LenProperties DEF OrderInv, QInv, TypeOK, Fail
<1>2. done + 1 \in DOMAIN batch /\ r \in Request /\ r \in Range(batch)
  BY <1>1, LenProperties, ElementOfSeq DEF Range
<1>3. r \notin Range(queue[TenantOf[r]]) /\ r \notin Range(InHand)
  <2>1. TenantOf[r] \in Tenant
    BY <1>2, QueueAssumption
  <2>2. Range(InHand) = {}
    BY <1>1 DEF InHand, Range
  <2> QED
    BY <1>2, <2>1, <2>2 DEF OrderInv, QInv, BatchInv
<1>4. ~Standing(r)
  BY <1>2, <1>3, NotStanding
<1>5. /\ answer' = [answer EXCEPT ![r] = "failed"]
      /\ UNCHANGED <<queue, pc, target, batch>>
  BY DEF Fail
<1>6. LineOf' = LineOf /\ TakenOf' = TakenOf
  <2>1. InHand' = InHand
    BY <1>1, <1>5 DEF InHand
  <2> QED
    BY <1>5, <2>1 DEF LineOf, TakenOf
<1> HIDE DEF r
<1>7. Line!Fail(r)
  BY <1>4, <1>5, <1>6 DEF Line!Fail, Line!InLine, Standing, LineOf, TakenOf
<1> QED
  BY <1>2, <1>7

LEMMA ForgetsAnswered ==
  ASSUME OrderInv, NEW r \in Request, Expire(r)
  PROVE  Line!Forget(r)
<1>1. /\ answer[r] # "none"
      /\ answer' = [answer EXCEPT ![r] = "none"]
      /\ UNCHANGED <<queue, pc, target, batch, done>>
  BY DEF Expire, workerVars
<1>2. r \notin Range(queue[TenantOf[r]])
  BY <1>1, QueueAssumption DEF OrderInv, QInv, QueueInv
<1>3. r \notin Range(InHand)
  <2>1. CASE pc = "fail"
    BY <2>1 DEF InHand, Range
  <2>2. CASE pc # "fail"
    <3>1. batch \in Seq(Request) /\ done \in 0 .. Len(batch)
      BY DEF OrderInv, QInv, TypeOK
    <3>2. \A i \in DOMAIN batch : i > done => batch[i] # r
      BY <1>1, <2>2 DEF OrderInv, QInv, BatchInv
    <3> QED BY <2>2, <3>1, <3>2, NotAmongLast DEF InHand
  <2> QED BY <2>1, <2>2
<1>4. ~Standing(r)
  BY <1>2, <1>3, NotStanding
<1>5. LineOf' = LineOf /\ TakenOf' = TakenOf
  BY <1>1 DEF LineOf, TakenOf, InHand
<1> QED
  BY <1>1, <1>4, <1>5 DEF Line!Forget, Line!InLine, Standing, LineOf, TakenOf

\* Rotation, drains, breaks and answers implement the lines: no tenant's
\* requests overtake each other, are handled twice, or are lost in the queue.
THEOREM QueuesAreLines == Spec => LineSpec
<1>1. Init => OrderInv /\ Line!Init
  <2> SUFFICES ASSUME Init PROVE OrderInv /\ Line!Init
    OBVIOUS
  <2>1. OrderInv
    BY InitQueue DEF OrderInv, Init
  <2>2. InHand = <<>>
    BY <2>1, IdleHands DEF Init
  <2>3. LineOf = queue /\ TakenOf = [m \in Tenant |-> 0]
    BY <2>1, <2>2, EmptyHands
  <2> QED
    BY <2>1, <2>3 DEF Init, Line!Init, LineOf, TakenOf
<1>2. OrderInv /\ OrderInv' /\ [Next]_vars => [Line!Next]_(Line!vars)
  <2> SUFFICES ASSUME OrderInv, OrderInv', [Next]_vars PROVE [Line!Next]_(Line!vars)
    OBVIOUS
  <2>0. (OrderInv /\ pc \notin {"pop", "rotate", "work"} => InHand = <<>>)'
    BY IdleHands, PTL
  <2>1. ASSUME NEW r \in Request, Enqueue(r) PROVE [Line!Next]_(Line!vars)
    <3>1. CASE PutQueue(r)
      BY <3>1, JoinsLine DEF Line!Next
    <3>2. CASE Expire(r)
      BY <3>2, ForgetsAnswered DEF Line!Next
    <3>3. CASE PutMark(r) \/ PutList(r) \/ Renew(r)
      <4>1. UNCHANGED <<queue, answer, pc, target, batch, done>>
        BY <3>3 DEF PutMark, PutList, Renew, redisVars, workerVars
      <4> QED
        BY <4>1, LineStays DEF LineOf, TakenOf, InHand
    <3> QED
      BY <2>1, <3>1, <3>2, <3>3 DEF Enqueue
  <2>2. CASE Peek \/ Unblock \/ Timeout \/ Unlist \/ Unmark
    <3>1. /\ UNCHANGED <<queue, answer>>
          /\ pc \notin {"pop", "rotate", "work"} /\ pc' \notin {"pop", "rotate", "work"}
      BY <2>2 DEF Peek, Unblock, Timeout, Unlist, Unmark, redisVars
    <3> QED
      BY <2>0, <3>1, IdleHands, HandsStayEmpty
  <2>3. CASE Depth \/ Rotate
    <3>1. /\ UNCHANGED <<queue, answer, target, batch, done>>
          /\ pc # "fail" /\ pc' # "fail"
      BY <2>3 DEF Depth, Rotate, redisVars
    <3>2. InHand' = InHand
      BY <3>1 DEF InHand
    <3> QED
      BY <3>1, <3>2, LineStays DEF LineOf, TakenOf
  <2>4. CASE Pop
    <3>1. PICK k \in Tenant : k = target
      BY <2>4 DEF Pop, OrderInv, QInv, ListInv
    <3> QED
      BY <2>4, <3>1, PopTakes DEF Line!Next
  <2>5. CASE Handle
    <3>1. PICK k \in Tenant : k = target
      BY <2>5 DEF Handle, OrderInv
    <3> QED
      BY <2>5, <3>1, HandlesFirst DEF Line!Next
  <2>6. CASE Fail
    BY <2>6, FailsLost DEF Line!Next
  <2>7. CASE StoreError \/ BatchDone \/ Broken
    <3>1. UNCHANGED <<queue, answer, target>> /\ pc' \in {"fail", "peek"}
      BY <2>7 DEF StoreError, BatchDone, Broken, redisVars
    <3>2. InHand' = <<>>
      BY <2>0, <3>1
    <3>3. CASE InHand = <<>>
      BY <3>1, <3>2, <3>3, HandsStayEmpty
    <3>4. CASE InHand # <<>>
      <4>1. PICK k \in Tenant : k = target
        BY <3>4, HandFacts
      <4> QED
        BY <3>1, <3>2, <3>4, <4>1, LosesHand DEF Line!Next
    <3> QED
      BY <3>3, <3>4
  <2>8. ASSUME NEW r \in Request, PutBroken(r) PROVE [Line!Next]_(Line!vars)
    <3>1. UNCHANGED <<queue, answer, pc, target, batch, done>>
      BY <2>8 DEF PutBroken, redisVars, workerVars
    <3> QED
      BY <3>1, LineStays DEF LineOf, TakenOf, InHand
  <2>9. CASE UNCHANGED vars
    <3>1. UNCHANGED <<queue, answer, pc, target, batch, done>>
      BY <2>9 DEF vars, redisVars, workerVars
    <3> QED
      BY <3>1, LineStays DEF LineOf, TakenOf, InHand
  <2> QED
    BY <2>1, <2>2, <2>3, <2>4, <2>5, <2>6, <2>7, <2>8, <2>9 DEF Next, SmoothNext, Poll
<1> QED
  BY <1>1, <1>2, TargetStep, PTL DEF Spec, LineSpec, Line!Spec

===============================================================================
