------------------------------ MODULE TenantLine ------------------------------
(***************************************************************************)
(* What the store and its worker promise each tenant, without the rotation *)
(* and the commands it is made of: the tenant's requests stand in line and *)
(* are taken and handled from its front, in the order in which they were   *)
(* put, each once, and those of one tenant at a time.  A worker that       *)
(* breaks off loses what it has taken and no more, and only requests that  *)
(* left the line are ever answered with a failure.                         *)
(***************************************************************************)
EXTENDS Naturals, Sequences

CONSTANTS Tenant, Request, TenantOf

VARIABLES
  line,    \* the requests of each tenant that were put and not yet handled
  taken,   \* how many of them, from the front, a worker has in hand
  answer   \* what each request was answered with

vars == <<line, taken, answer>>

InLine(r) == \E i \in DOMAIN line[TenantOf[r]] : line[TenantOf[r]][i] = r

Init ==
  /\ line = [m \in Tenant |-> <<>>]
  /\ taken = [m \in Tenant |-> 0]
  /\ answer = [r \in Request |-> "none"]

Join(r) ==
  /\ ~InLine(r)
  /\ answer[r] = "none"
  /\ line' = [line EXCEPT ![TenantOf[r]] = Append(@, r)]
  /\ UNCHANGED <<taken, answer>>

Take(m) ==
  /\ \A n \in Tenant \ {m} : taken[n] = 0
  /\ taken[m] < Len(line[m])
  /\ taken' = [taken EXCEPT ![m] = @ + 1]
  /\ UNCHANGED <<line, answer>>

Handle(m) ==
  /\ taken[m] > 0
  /\ answer[Head(line[m])] = "none"
  /\ answer' = [answer EXCEPT ![Head(line[m])] = "result"]
  /\ line' = [line EXCEPT ![m] = Tail(@)]
  /\ taken' = [taken EXCEPT ![m] = @ - 1]

Lose(m) ==
  /\ taken[m] > 0
  /\ line' = [line EXCEPT ![m] = SubSeq(@, taken[m] + 1, Len(@))]
  /\ taken' = [taken EXCEPT ![m] = 0]
  /\ UNCHANGED answer

Fail(r) ==
  /\ ~InLine(r)
  /\ answer' = [answer EXCEPT ![r] = "failed"]
  /\ UNCHANGED <<line, taken>>

\* The answer expires.
Forget(r) ==
  /\ ~InLine(r)
  /\ answer[r] # "none"
  /\ answer' = [answer EXCEPT ![r] = "none"]
  /\ UNCHANGED <<line, taken>>

Next ==
  \/ \E r \in Request : Join(r) \/ Fail(r) \/ Forget(r)
  \/ \E m \in Tenant : Take(m) \/ Handle(m) \/ Lose(m)

Spec == Init /\ [][Next]_vars

===============================================================================
