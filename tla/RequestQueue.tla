------------------------------ MODULE RequestQueue -----------------------------
(***************************************************************************)
(* The training queue of one LoRA rotation set: the API server's enqueue,  *)
(* the Redis store (src/server/store.py) and the one worker that polls the *)
(* set (src/server/training_requests_processor.py).                        *)
(*                                                                         *)
(* Redis executes single commands.  put_request and get_requests are       *)
(* several of them, so every command is an action of its own; what a       *)
(* client of Redis does between two commands is local.                     *)
(***************************************************************************)
EXTENDS SequencesExt

CONSTANTS
  Tenant,    \* model ids whose requests go to this rotation set
  Request,   \* request ids
  TenantOf,  \* the model each request is for
  NoTenant   \* the worker has looked at no tenant

ASSUME QueueAssumption ==
  /\ TenantOf \in [Request -> Tenant]
  /\ NoTenant \notin Tenant

VARIABLES
  queue,   \* open_rl:queue:<model>, a Redis list per tenant
  active,  \* open_rl:active_tenants_set:<set>, a Redis set
  list,    \* open_rl:active_tenants:<set>, a Redis list
  answer,  \* open_rl:future:<request>
  put,     \* where the API server is with each request
  pc,      \* where the worker is
  target,  \* its model_id
  left,    \* LPOPs left of the q_len it read
  batch,   \* the requests it popped
  done,    \* how many of them it has answered
  torn     \* tenants whose set and list an error left at odds (history)

redisVars == <<queue, active, list, answer>>
workerVars == <<pc, target, left, batch, done>>
vars == <<redisVars, put, workerVars, torn>>

\* A request is "new" until it is in its queue, then its tenant is still to be
\* marked active, then perhaps to be listed, then it is "sent".
Put == {"new", "mark", "list", "sent"}

PC == {"peek", "block", "len", "lrem", "srem", "pop", "rotate", "work", "fail"}

\* Every component is well formed, and no more than the batch is answered.
TypeOK ==
  /\ queue \in [Tenant -> Seq(Request)]
  /\ active \in SUBSET Tenant
  /\ list \in Seq(Tenant)
  /\ answer \in [Request -> {"none", "result", "failed"}]
  /\ put \in [Request -> Put]
  /\ pc \in PC
  /\ target \in Tenant \cup {NoTenant}
  /\ left \in Nat
  /\ batch \in Seq(Request)
  /\ done \in 0 .. Len(batch)
  /\ torn \in SUBSET Tenant

Init ==
  /\ queue = [m \in Tenant |-> <<>>]
  /\ active = {}
  /\ list = <<>>
  /\ answer = [r \in Request |-> "none"]
  /\ put = [r \in Request |-> "new"]
  /\ pc = "peek"
  /\ target = NoTenant
  /\ left = 0
  /\ batch = <<>>
  /\ done = 0
  /\ torn = {}

-----------------------------------------------------------------------------
(* put_request.  A definition marked "Mutated" is no part of the model: it  *)
(* is a plausible error in the one after it.                                *)

\* RPUSH of the request.
PutQueue(r) ==
  /\ put[r] = "new"
  /\ queue' = [queue EXCEPT ![TenantOf[r]] = Append(@, r)]
  /\ put' = [put EXCEPT ![r] = "mark"]
  /\ UNCHANGED <<active, list, answer, workerVars, torn>>

\* Mutated: SADD's answer is ignored.
PutMarkAlwaysList(r) ==
  /\ put[r] = "mark"
  /\ active' = active \cup {TenantOf[r]}
  /\ put' = [put EXCEPT ![r] = "list"]
  /\ UNCHANGED <<queue, list, answer, workerVars, torn>>

\* SADD of the tenant; only a new member is listed.
PutMark(r) ==
  /\ put[r] = "mark"
  /\ active' = active \cup {TenantOf[r]}
  /\ put' = [put EXCEPT ![r] = IF TenantOf[r] \in active THEN "sent" ELSE "list"]
  /\ UNCHANGED <<queue, list, answer, workerVars, torn>>

PutList(r) ==
  /\ put[r] = "list"
  /\ list' = Append(list, TenantOf[r])
  /\ put' = [put EXCEPT ![r] = "sent"]
  /\ UNCHANGED <<queue, active, answer, workerVars, torn>>

\* The API server dies, or a Redis call raises, between two of the commands.
PutBroken(r) ==
  /\ put[r] \in {"mark", "list"}
  /\ put' = [put EXCEPT ![r] = "sent"]
  /\ torn' = IF put[r] = "list" THEN torn \cup {TenantOf[r]} ELSE torn
  /\ UNCHANGED <<redisVars, workerVars>>

Pending == {r \in Request : \E m \in Tenant : r \in Range(queue[m])}
Unhandled == {batch[i] : i \in done + 1 .. Len(batch)}

\* An answer expires 300 s after it was stored or last read.
Expire(r) ==
  /\ answer[r] # "none"
  /\ answer' = [answer EXCEPT ![r] = "none"]
  /\ UNCHANGED <<queue, active, list, put, workerVars, torn>>

\* Request ids are fresh: one without an answer that is in no queue and no
\* batch any more stands for a new one here.
Renew(r) ==
  /\ put[r] = "sent"
  /\ answer[r] = "none"
  /\ r \notin Pending \cup Range(batch)
  /\ put' = [put EXCEPT ![r] = "new"]
  /\ UNCHANGED <<redisVars, workerVars, torn>>

-----------------------------------------------------------------------------
(* get_requests *)

\* LINDEX of the list's head.
Peek ==
  /\ pc = "peek"
  /\ IF list = <<>>
     THEN pc' = "block" /\ target' = NoTenant
     ELSE pc' = "len" /\ target' = Head(list)
  /\ UNCHANGED <<redisVars, put, left, batch, done, torn>>

\* Mutated: the tail is returned without being moved.
UnblockInPlace ==
  /\ pc = "block"
  /\ list # <<>>
  /\ target' = Last(list)
  /\ pc' = "len"
  /\ UNCHANGED <<redisVars, put, left, batch, done, torn>>

\* BRPOPLPUSH of the list onto itself: its tail becomes its head.
Unblock ==
  /\ pc = "block"
  /\ list # <<>>
  /\ list' = <<Last(list)>> \o Front(list)
  /\ target' = Last(list)
  /\ pc' = "len"
  /\ UNCHANGED <<queue, active, answer, put, left, batch, done, torn>>

\* No tenant within the timeout: no batch, and run_once is called again.
Timeout ==
  /\ pc = "block"
  /\ list = <<>>
  /\ pc' = "peek"
  /\ UNCHANGED <<redisVars, put, target, left, batch, done, torn>>

\* LLEN, the depth the turn drains.
Depth ==
  /\ pc = "len"
  /\ left' = Len(queue[target])
  /\ pc' = IF queue[target] = <<>> THEN "lrem" ELSE "pop"
  /\ UNCHANGED <<redisVars, put, target, batch, done, torn>>

\* LREM of an idle tenant.  The list has it once, see OneEntry.
Unlist ==
  /\ pc = "lrem"
  /\ list' = RemoveFirst(list, target)
  /\ pc' = "srem"
  /\ UNCHANGED <<queue, active, answer, put, target, left, batch, done, torn>>

\* Mutated: not when requests have come meanwhile.
UnmarkIfIdle ==
  /\ pc = "srem"
  /\ active' = IF queue[target] = <<>> THEN active \ {target} ELSE active
  /\ pc' = "peek"
  /\ UNCHANGED <<queue, list, answer, put, target, left, batch, done, torn>>

\* SREM of an idle tenant.
Unmark ==
  /\ pc = "srem"
  /\ active' = active \ {target}
  /\ pc' = "peek"
  /\ UNCHANGED <<queue, list, answer, put, target, left, batch, done, torn>>

\* Mutated: the queue is popped at the end where it is pushed.
PopNewest ==
  /\ pc = "pop"
  /\ left > 0
  /\ queue[target] # <<>>
  /\ batch' = Append(batch, Last(queue[target]))
  /\ queue' = [queue EXCEPT ![target] = Front(@)]
  /\ left' = left - 1
  /\ pc' = IF left' = 0 THEN "rotate" ELSE "pop"
  /\ UNCHANGED <<active, list, answer, put, target, done, torn>>

\* One LPOP of the drain.
Pop ==
  /\ pc = "pop"
  /\ left > 0
  /\ queue[target] # <<>>
  /\ batch' = Append(batch, Head(queue[target]))
  /\ queue' = [queue EXCEPT ![target] = Tail(@)]
  /\ left' = left - 1
  /\ pc' = IF left' = 0 THEN "rotate" ELSE "pop"
  /\ UNCHANGED <<active, list, answer, put, target, done, torn>>

\* Mutated: the tenant keeps the head of the list.
RotateNot ==
  /\ pc = "rotate"
  /\ pc' = "work"
  /\ UNCHANGED <<redisVars, put, target, left, batch, done, torn>>

\* LMOVE of the list's head to its tail; the batch is returned.
Rotate ==
  /\ pc = "rotate"
  /\ list' = Append(Tail(list), Head(list))
  /\ pc' = "work"
  /\ UNCHANGED <<queue, active, answer, put, target, left, batch, done, torn>>

-----------------------------------------------------------------------------
(* run_once without a time slicer *)

\* process_request: the operation's result, or its own error, is its answer.
Handle ==
  /\ pc = "work"
  /\ done < Len(batch)
  /\ answer' = [answer EXCEPT ![batch[done + 1]] = "result"]
  /\ done' = done + 1
  /\ UNCHANGED <<queue, active, list, put, pc, target, left, batch, torn>>

\* set_future raises: answer_batch takes the whole batch for unanswered.
StoreError ==
  /\ pc = "work"
  /\ done < Len(batch)
  /\ pc' = "fail"
  /\ done' = 0
  /\ UNCHANGED <<redisVars, put, target, left, batch, torn>>

\* run_once stores the failure of each request of the batch.
Fail ==
  /\ pc = "fail"
  /\ done < Len(batch)
  /\ answer' = [answer EXCEPT ![batch[done + 1]] = "failed"]
  /\ done' = done + 1
  /\ UNCHANGED <<queue, active, list, put, pc, target, left, batch, torn>>

\* Mutated: the next batch is appended to this one.
BatchKept ==
  /\ pc \in {"work", "fail"}
  /\ done = Len(batch)
  /\ pc' = "peek"
  /\ done' = 0
  /\ UNCHANGED <<redisVars, put, target, left, batch, torn>>

\* run_once returns, or raises what stopped the batch, and is called again.
BatchDone ==
  /\ pc \in {"work", "fail"}
  /\ done = Len(batch)
  /\ pc' = "peek"
  /\ batch' = <<>>
  /\ done' = 0
  /\ UNCHANGED <<redisVars, put, target, left, torn>>

\* Mutated: the count of answered requests outlives the batch.
BrokenKeepsCount ==
  /\ pc' = "peek"
  /\ batch' = <<>>
  /\ UNCHANGED <<redisVars, put, target, left, done, torn>>

\* The worker is killed and comes back, or a Redis call raises: what it had
\* popped is gone.
Broken ==
  /\ pc' = "peek"
  /\ batch' = <<>>
  /\ done' = 0
  /\ torn' = IF pc = "srem" THEN torn \cup {target} ELSE torn
  /\ UNCHANGED <<redisVars, put, target, left>>

-----------------------------------------------------------------------------
(* Specifications *)

Poll ==
  \/ Peek
  \/ Unblock
  \/ Timeout
  \/ Depth
  \/ Unlist
  \/ Unmark
  \/ Pop
  \/ Rotate
  \/ Handle
  \/ Fail
  \/ BatchDone

Enqueue(r) ==
  \/ PutQueue(r)
  \/ PutMark(r)
  \/ PutList(r)
  \/ Expire(r)
  \/ Renew(r)

\* Nothing breaks.
SmoothNext == Poll \/ \E r \in Request : Enqueue(r)

Next ==
  \/ SmoothNext
  \/ StoreError
  \/ Broken
  \/ \E r \in Request : PutBroken(r)

Spec == Init /\ [][Next]_vars

\* The worker polls for ever, and in the end without errors: a kill or an
\* error in each of its turns would keep it from everything.
QueueFairness ==
  /\ WF_vars(Poll)
  /\ <>[][SmoothNext]_vars

FairSpec == Spec /\ QueueFairness

-----------------------------------------------------------------------------
(* Properties *)

Listing(m) == {r \in Request : put[r] = "list" /\ TenantOf[r] = m}

\* Whatever breaks, a tenant is in the rotation at most once, already listed
\* or about to be by one handler, and is in the set then: the two keys that
\* five commands of three processes update never give a tenant two turns.
OneEntry ==
  /\ \A i, j \in DOMAIN list : list[i] = list[j] => i = j
  /\ \A r, s \in Request :
       put[r] = "list" /\ put[s] = "list" /\ TenantOf[r] = TenantOf[s] => r = s
  /\ \A r \in Request :
       put[r] = "list" => TenantOf[r] \in active /\ TenantOf[r] \notin Range(list)
  /\ Range(list) \subseteq active

\* A marked tenant is listed, or about to be by its handler, or about to be
\* unmarked by the worker: only an error between two commands leaves one that
\* no later request lists again.
MarkedIsListed ==
  \A m \in active \ torn :
    \/ m \in Range(list)
    \/ Listing(m) # {}
    \/ pc = "srem" /\ target = m

\* The tenant the worker drains is at the list's head when the worker rotates
\* the list, so the turn that ends is that tenant's.
HeadIsTarget ==
  pc \in {"len", "lrem", "pop", "rotate"} => list # <<>> /\ Head(list) = target

\* A request is popped once and handled once: those queued and those popped
\* are different, and a popped one was not answered before.
HandledOnce ==
  /\ \A m \in Tenant : \A i, j \in DOMAIN queue[m] : queue[m][i] = queue[m][j] => i = j
  /\ \A i, j \in DOMAIN batch : batch[i] = batch[j] => i = j
  /\ Range(batch) \cap Pending = {}
  /\ \A r \in Pending : answer[r] = "none"
  /\ pc = "work" => \A r \in Unhandled : answer[r] = "none"

\* A listed tenant with requests gets a turn, however many the others send,
\* unless the worker takes it off the list meanwhile.
ListedIsServed ==
  \A m \in Tenant :
    m \in Range(list) /\ queue[m] # <<>>
      ~> m \notin Range(list) \/ \E r \in Range(batch) : TenantOf[r] = m

\* What the worker has in hand and will handle, unless it breaks off.
InHand == IF pc = "fail" THEN <<>> ELSE SubSeq(batch, done + 1, Len(batch))

\* Each tenant's requests stand in one line, see TenantLine: in hand, then queued.
Line == INSTANCE TenantLine WITH
  line <- [m \in Tenant |-> IF m = target THEN InHand \o queue[m] ELSE queue[m]],
  taken <- [m \in Tenant |-> IF m = target THEN Len(InHand) ELSE 0]

\* Rotation, drains, errors and kills implement the lines: a tenant's requests
\* are handled in the order in which they were put and each once; one that is
\* still queued is never lost, passed over or answered with a failure.
LineSpec == Line!Spec

===============================================================================
