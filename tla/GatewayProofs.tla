---------------------------- MODULE GatewayProofs ----------------------------
(***************************************************************************)
(* Proofs about Gateway, for any number of tasks, requests and tenants:    *)
(* its types, the bounds on what a tenant and the platform are charged in  *)
(* a minute, that the counts it keeps of its requests agree with the       *)
(* requests, that the platform is charged what its tenants are, and that   *)
(* it implements RequestService.                                           *)
(***************************************************************************)
EXTENDS Gateway, SumProofs

-----------------------------------------------------------------------------
(***************************************************************************)
(* Types.                                                                  *)
(***************************************************************************)

\* Each of the four counters record_admit keeps per tenant, and the
\* platform's, stays a counter when a prefix of the pipeline is applied.
LEMMA ChargeType ==
    ASSUME TypeOK, NEW x \in Tenants, NEW e \in Nat, NEW k \in 0 .. 5,
           Charge(x, e, k)
    PROVE  /\ platTpm' \in Nat
           /\ tpm' \in [Tenants -> Nat]
           /\ rpm' \in [Tenants -> Nat]
           /\ admitted' \in [Tenants -> Nat]
           /\ conc' \in [Tenants -> Int]
BY DEF TypeOK, Charge

LEMMA RequestType ==
    ASSUME NEW r \in Requests
    PROVE  /\ TenantOf[r] \in Tenants
           /\ Est[r] \in Nat
           /\ Est[r] >= 1
           /\ Est[r] <= MaxEst
           /\ MaxEst \in Nat
BY SystemAssumption

\* The calls that go well keep the types.
LEMMA StepType ==
    ASSUME TypeOK, NEW r \in Requests, Step(r) \/ Wake(r)
    PROVE  TypeOK'
<1> USE RequestType DEF TypeOK, LoopPcs, FinalPcs, Goto, window, totals, settings
<1>1. CASE Wake(r)
  BY <1>1 DEF Wake
<1>2. CASE Poll(r)
  BY <1>2 DEF Poll, Return
<1>3. CASE Enqueue(r)
  BY <1>3 DEF Enqueue
<1>4. CASE LeaveQueue(r)
  BY <1>4 DEF LeaveQueue
<1>5. CASE RecordReject(r)
  BY <1>5 DEF RecordReject
<1>6. CASE RecordAdmit(r)
  BY <1>6, ChargeType DEF RecordAdmit
<1>7. CASE StreamEnd(r)
  BY <1>7 DEF StreamEnd
<1>8. CASE Release(r)
  BY <1>8 DEF Release
<1>9. CASE Account(r)
  BY <1>9 DEF Account
<1> QED
  BY <1>1, <1>2, <1>3, <1>4, <1>5, <1>6, <1>7, <1>8, <1>9 DEF Step

\* So do the calls that fail.
LEMMA CallFailsType ==
    ASSUME TypeOK, NEW r \in Requests, CallFails(r)
    PROVE  TypeOK'
<1> USE RequestType DEF TypeOK, LoopPcs, FinalPcs, Raise, Goto, window, totals, settings
<1>1. CASE PollFails(r)
  BY <1>1 DEF PollFails
<1>2. CASE EnqueueFails(r)
  BY <1>2 DEF EnqueueFails
<1>3. CASE LeaveQueueFails(r)
  BY <1>3 DEF LeaveQueueFails
<1>4. CASE RecordRejectFails(r)
  BY <1>4 DEF RecordRejectFails
<1>5. CASE RecordAdmitFails(r)
  BY <1>5, ChargeType DEF RecordAdmitFails
<1>6. CASE ReleaseFails(r)
  BY <1>6 DEF ReleaseFails
<1>7. CASE AccountFails(r)
  BY <1>7 DEF AccountFails
<1> QED
  BY <1>1, <1>2, <1>3, <1>4, <1>5, <1>6, <1>7 DEF CallFails

\* Every step of the gateway and of its surroundings keeps the types.
LEMMA NextType == TypeOK /\ [Next]_vars => TypeOK'
<1> SUFFICES ASSUME TypeOK, [Next]_vars PROVE TypeOK'
  OBVIOUS
<1> USE DEF LoopPcs, FinalPcs, control, window, totals, settings
<1>1. CASE \E r \in Requests : Step(r) \/ CallFails(r) \/ Wake(r)
  BY <1>1, StepType, CallFailsType
<1>2. ASSUME NEW r \in Requests, NEW t \in Tasks, Start(r, t) PROVE TypeOK'
  BY <1>2 DEF TypeOK, Start, Goto
<1>3. ASSUME NEW t \in Tasks, Crash(t) PROVE TypeOK'
  BY <1>3 DEF TypeOK, Crash
<1>4. CASE Tick
  BY <1>4 DEF TypeOK, Tick
<1>5. CASE NewMinute
  BY <1>5 DEF TypeOK, NewMinute
<1>6. CASE MoveBudget
  BY <1>6 DEF TypeOK, MoveBudget
<1>7. CASE ExpireDepth
  BY <1>7 DEF TypeOK, ExpireDepth
<1>8. ASSUME NEW x \in Tenants, ExpireConcurrency(x) PROVE TypeOK'
  BY <1>8 DEF TypeOK, ExpireConcurrency
<1>9. CASE UNCHANGED vars
  BY <1>9 DEF TypeOK, vars
<1> QED
  BY <1>1, <1>2, <1>3, <1>4, <1>5, <1>6, <1>7, <1>8, <1>9 DEF Next

\* Every counter, flag and program point of the gateway keeps its type; in
\* particular _admit never returns a QUEUE.
THEOREM TypeCorrect == Spec => []TypeOK
<1>1. Init => TypeOK
  BY DEF Init, TypeOK
<1> QED
  BY <1>1, NextType, PTL DEF Spec

-----------------------------------------------------------------------------
(***************************************************************************)
(* The race between a decision and its charge.                             *)
(*                                                                         *)
(* QuotaOvershootBound is not inductive: it says nothing of the admissions *)
(* decided and not yet charged.  Pending(x) are those; a task has at most  *)
(* one, for it runs a single request between two awaits (LoopExclusive).   *)
(* Of the pending ones, the one decided last saw the charges of all the    *)
(* requests no longer pending, so what is charged, its estimate and one    *)
(* estimate for each other pending request fit under the bound.            *)
(***************************************************************************)

Pending(x) == {r \in Requests : /\ TenantOf[r] = x
                                /\ pc[r] \in {"leave", "record"}
                                /\ verdict[r] = "ADMIT"}

\* Requests between two awaits are of different tasks.
LoopExclusive ==
    \A r, s \in Requests : OnLoop(r) /\ OnLoop(s) /\ task[r] = task[s] => r = s

\* A request that has started belongs to a task.
Placed == \A r \in Requests : pc[r] # "new" => task[r] \in Tasks

\* An admitted request fits its tenant's quota on its own.
PendingFits == \A x \in Tenants : \A r \in Pending(x) : Est[r] <= TpmLimit[x]

\* t tokens are charged against the limit l, and the requests of P may still be.
Bounded(t, l, P) ==
    IF P = {} THEN t <= l + Slack(Cardinality(Tasks))
    ELSE \E r \in P : t + Est[r] + Slack(Cardinality(P)) <= l + Slack(Cardinality(Tasks))

PendingBounded == \A x \in Tenants : Bounded(tpm[x], TpmLimit[x], Pending(x))

LoopInv == TypeOK /\ LoopExclusive /\ Placed

QuotaInv ==
    /\ LoopInv
    /\ policy \in QuotaPolicies => PendingFits /\ PendingBounded

-----------------------------------------------------------------------------
(***************************************************************************)
(* Facts about Bounded, the arithmetic of the argument.                    *)
(***************************************************************************)

LEMMA TaskCount == Cardinality(Tasks) \in Nat /\ Cardinality(Tasks) >= 1
BY SystemAssumption, FS_CardinalityType, FS_EmptySet

LEMMA SlackMonotone ==
    ASSUME NEW m \in Nat, NEW n \in Nat, m <= n
    PROVE  /\ Slack(m) \in Int /\ Slack(n) \in Int
           /\ Slack(m) <= Slack(n)
           /\ Slack(m + 1) = Slack(m) + MaxEst
<1>1. MaxEst \in Nat
  BY SystemAssumption
<1>2. PICK d \in Nat : n = m + d
  BY n - m \in Nat
<1>3. d * MaxEst \in Nat
  BY <1>1, <1>2
<1>4. (n - 1) * MaxEst = (m - 1) * MaxEst + d * MaxEst
  BY <1>1, <1>2
<1>5. (m + 1 - 1) * MaxEst = (m - 1) * MaxEst + MaxEst
  BY <1>1
<1>6. (m - 1) * MaxEst \in Int /\ (n - 1) * MaxEst \in Int
  BY <1>1
<1> QED
  BY <1>1, <1>3, <1>4, <1>5, <1>6 DEF Slack

LEMMA SlackNonNegative ==
    ASSUME NEW n \in Nat, n >= 1
    PROVE  Slack(n) \in Int /\ Slack(n) >= 0
<1>1. MaxEst \in Nat /\ n - 1 \in Nat
  BY SystemAssumption
<1>2. (n - 1) * MaxEst \in Nat
  BY <1>1
<1> QED
  BY <1>2 DEF Slack

\* A set of requests with its cardinality, and that of what is left without r.
LEMMA RequestSet ==
    ASSUME NEW P \in SUBSET Requests
    PROVE  /\ IsFiniteSet(P) /\ Cardinality(P) \in Nat
           /\ P # {} => Cardinality(P) >= 1
           /\ \A r \in P : Cardinality(P \ {r}) = Cardinality(P) - 1
<1>1. IsFiniteSet(P)
  BY SystemAssumption, FS_Subset
<1>2. Cardinality(P) \in Nat
  BY <1>1, FS_CardinalityType
<1> QED
  BY <1>1, <1>2, FS_EmptySet, FS_RemoveElement

\* Charging a pending request.
LEMMA BoundedPay ==
    ASSUME NEW t \in Nat, NEW l \in Nat, NEW P \in SUBSET Requests,
           Bounded(t, l, P), NEW r \in P
    PROVE  Bounded(t + Est[r], l, P \ {r})
<1> DEFINE N == Cardinality(Tasks)
           n == Cardinality(P)
<1>0. /\ N \in Nat /\ N >= 1 /\ n \in Nat /\ n >= 1
      /\ Cardinality(P \ {r}) = n - 1
  BY TaskCount, RequestSet
<1>1. /\ Slack(n) \in Int /\ Slack(N) \in Int /\ Slack(n - 1) \in Int
      /\ Slack(n) = Slack(n - 1) + MaxEst
  <2>1. n - 1 \in Nat /\ (n - 1) + 1 = n
    BY <1>0
  <2> HIDE DEF n, N
  <2> QED
    BY <2>1, <1>0, SlackMonotone
<1>2. \A q \in Requests : Est[q] \in Nat /\ Est[q] <= MaxEst /\ MaxEst \in Nat
  BY RequestType
<1>3. PICK q \in P : t + Est[q] + Slack(n) <= l + Slack(N)
  BY DEF Bounded
<1> HIDE DEF n, N
<1>4. CASE P \ {r} = {}
  <2>1. n = 1 /\ q = r
    BY <1>4, <1>0, FS_EmptySet
  <2>2. Slack(1) = 0
    BY <1>2 DEF Slack
  <2>3. t + Est[r] <= l + Slack(N)
    BY <2>1, <2>2, <1>3, <1>2, <1>1
  <2> QED
    BY <2>3, <1>4 DEF Bounded, N
<1>5. CASE P \ {r} # {}
  <2>1. PICK s \in P \ {r} : q # r => s = q
    BY <1>5
  <2>2. t + Est[r] + Est[s] + Slack(n - 1) <= l + Slack(N)
    BY <2>1, <1>1, <1>2, <1>3
  <2>3. (t + Est[r]) + Est[s] + Slack(Cardinality(P \ {r})) <= l + Slack(Cardinality(Tasks))
    BY <2>2, <1>0, <1>2, <1>1 DEF N
  <2> QED
    BY <2>1, <2>3, <1>5 DEF Bounded
<1> QED
  BY <1>4, <1>5

\* Pending requests that die without a charge.
LEMMA BoundedDrop ==
    ASSUME NEW t \in Nat, NEW l \in Nat, NEW P \in SUBSET Requests,
           NEW S \in SUBSET P, Bounded(t, l, P)
    PROVE  Bounded(t, l, S)
<1> DEFINE N == Cardinality(Tasks)
           n == Cardinality(P)
           m == Cardinality(S)
<1>0. /\ N \in Nat /\ N >= 1 /\ n \in Nat /\ m \in Nat /\ m <= n
      /\ S # {} => m >= 1
      /\ S # P => m < n
      /\ IsFiniteSet(P)
  <2>1. IsFiniteSet(P) /\ n \in Nat /\ m \in Nat /\ (S # {} => m >= 1)
    BY RequestSet
  <2> QED
    BY <2>1, TaskCount, FS_Subset
<1>2. \A q \in Requests : Est[q] \in Nat /\ Est[q] >= 1 /\ Est[q] <= MaxEst /\ MaxEst \in Nat
  BY RequestType
<1>3. CASE P = {}
  BY <1>3
<1>4. CASE P # {}
  <2>1. PICK q \in P : t + Est[q] + Slack(n) <= l + Slack(N)
    BY <1>4 DEF Bounded
  <2>2. n >= 1
    BY <1>4, RequestSet
  <2> HIDE DEF n, m, N
  <2>3. /\ Slack(n) \in Int /\ Slack(N) \in Int /\ Slack(m) \in Int /\ Slack(m) <= Slack(n)
    BY <1>0, SlackMonotone
  <2>4. Slack(n) >= 0
    BY <2>2, <1>0, SlackNonNegative
  <2>5. CASE S = {}
    <3>1. t <= l + Slack(N)
      BY <2>1, <2>3, <2>4, <1>2
    <3> QED
      BY <3>1, <2>5 DEF Bounded, N
  <2>6. CASE S # {} /\ q \in S
    <3>1. t + Est[q] + Slack(m) <= l + Slack(N)
      BY <2>1, <2>3, <1>2
    <3> QED
      BY <3>1, <2>6 DEF Bounded, N, m
  <2>7. CASE S # {} /\ q \notin S
    <3>1. PICK s \in S : TRUE
      BY <2>7
    <3>2. m < n
      BY <1>0, <2>7
    <3>3. m + 1 <= n /\ m + 1 \in Nat
      BY <3>2, <1>0
    <3>4. Slack(m + 1) <= Slack(n) /\ Slack(m + 1) = Slack(m) + MaxEst
      BY <3>3, <1>0, SlackMonotone
    <3>5. t + Est[s] + Slack(m) <= l + Slack(N)
      BY <3>4, <2>1, <2>3, <1>2
    <3> QED
      BY <3>5, <2>7 DEF Bounded, N, m
  <2> QED
    BY <2>5, <2>6, <2>7
<1> QED
  BY <1>3, <1>4

\* A request whose estimate fits under the limit joins a pending set of at
\* most one request per task.
LEMMA BoundedJoin ==
    ASSUME NEW t \in Nat, NEW l \in Nat, NEW P \in SUBSET Requests, NEW r \in P,
           t + Est[r] <= l, Cardinality(P) <= Cardinality(Tasks)
    PROVE  Bounded(t, l, P)
<1>1. Cardinality(P) \in Nat /\ Cardinality(Tasks) \in Nat
  BY RequestSet, TaskCount
<1>2. /\ Slack(Cardinality(P)) \in Int /\ Slack(Cardinality(Tasks)) \in Int
      /\ Slack(Cardinality(P)) <= Slack(Cardinality(Tasks))
  BY <1>1, SlackMonotone
<1>3. t + Est[r] + Slack(Cardinality(P)) <= l + Slack(Cardinality(Tasks))
  BY <1>2, RequestType
<1> QED
  BY <1>3 DEF Bounded

-----------------------------------------------------------------------------
(***************************************************************************)
(* One request per event loop.                                             *)
(***************************************************************************)

\* A call of a request is made on the loop and moves no other request.
LEMMA CallShape ==
    ASSUME TypeOK, NEW r \in Requests, Step(r) \/ CallFails(r)
    PROVE  /\ OnLoop(r)
           /\ task' = task
           /\ \E p : pc' = [pc EXCEPT ![r] = p]
<1> USE DEF OnLoop, LoopPcs, Goto
<1>1. CASE Step(r)
  BY <1>1 DEF Step, Poll, Return, Enqueue, LeaveQueue, RecordReject,
       RecordAdmit, StreamEnd, Release, Account
<1>2. CASE CallFails(r)
  BY <1>2 DEF CallFails, Raise, PollFails, EnqueueFails, LeaveQueueFails,
       RecordRejectFails, RecordAdmitFails, ReleaseFails, AccountFails
<1> QED
  BY <1>1, <1>2

\* Starting and waking need a free loop; nothing else puts a request on one.
LEMMA LoopNext == LoopInv /\ [Next]_vars => LoopInv'
<1> SUFFICES ASSUME LoopInv, [Next]_vars PROVE LoopInv'
  OBVIOUS
<1>0. TypeOK /\ TypeOK'
  BY NextType DEF LoopInv
<1> USE <1>0 DEF LoopInv
<1> SUFFICES LoopExclusive' /\ Placed'
  OBVIOUS
<1>1. ASSUME NEW r \in Requests, Step(r) \/ CallFails(r)
      PROVE  LoopExclusive' /\ Placed'
  <2>1. /\ OnLoop(r)
        /\ task' = task
        /\ \A s \in Requests : s # r => pc'[s] = pc[s]
    BY <1>1, CallShape DEF TypeOK
  <2>2. pc[r] # "new"
    BY <2>1 DEF OnLoop, LoopPcs
  <2> QED
    BY <2>1, <2>2 DEF LoopExclusive, Placed, OnLoop
<1>2. ASSUME NEW r \in Requests, NEW t \in Tasks, Start(r, t)
      PROVE  LoopExclusive' /\ Placed'
  BY <1>2 DEF Start, Goto, LoopFree, LoopExclusive, Placed, OnLoop, TypeOK
<1>3. ASSUME NEW r \in Requests, Wake(r)
      PROVE  LoopExclusive' /\ Placed'
  BY <1>3 DEF Wake, Goto, LoopFree, LoopExclusive, Placed, OnLoop, TypeOK
<1>4. ASSUME NEW t \in Tasks, Crash(t)
      PROVE  LoopExclusive' /\ Placed'
  BY <1>4 DEF Crash, LoopExclusive, Placed, OnLoop, LoopPcs, TypeOK
<1>5. CASE UNCHANGED <<pc, task>>
  BY <1>5 DEF LoopExclusive, Placed, OnLoop
<1>6. ASSUME Tick \/ NewMinute \/ MoveBudget \/ ExpireDepth
               \/ (\E x \in Tenants : ExpireConcurrency(x)) \/ UNCHANGED vars
      PROVE  UNCHANGED <<pc, task>>
  BY <1>6 DEF Tick, NewMinute, MoveBudget, ExpireDepth, ExpireConcurrency,
       vars, control
<1> QED
  BY <1>1, <1>2, <1>3, <1>4, <1>5, <1>6 DEF Next

\* Requests on pairwise different tasks are no more than the tasks.
LEMMA OnePerTask ==
    ASSUME NEW P \in SUBSET Requests, NEW f,
           \A r \in P : f[r] \in Tasks,
           \A r, s \in P : f[r] = f[s] => r = s
    PROVE  Cardinality(P) <= Cardinality(Tasks)
<1> DEFINE g == [r \in P |-> f[r]]
<1>1. IsFiniteSet(P) /\ IsFiniteSet(Tasks) /\ Cardinality(P) \in Nat
        /\ Cardinality(Tasks) \in Nat
  BY RequestSet, SystemAssumption, FS_CardinalityType
<1>2. g \in [P -> Tasks]
  OBVIOUS
<1>3. ASSUME Cardinality(Tasks) < Cardinality(P) PROVE FALSE
  <2>1. \E x, y \in P : x # y /\ g[x] = g[y]
    <3> HIDE DEF g
    <3> QED
      BY <1>1, <1>2, <1>3, FS_PigeonHole
  <2> QED
    BY <2>1
<1> QED
  BY <1>1, <1>3

-----------------------------------------------------------------------------
(***************************************************************************)
(* The four things a step can do to the admissions that are not charged    *)
(* yet and to the counters of the minute.                                  *)
(***************************************************************************)

Admitting == {r \in Requests : pc[r] \in {"leave", "record"} /\ verdict[r] = "ADMIT"}

Decides(r) == /\ Decision(r) = "ADMIT"
              /\ Admitting' = Admitting \cup {r}
              /\ UNCHANGED window

Charges(r) == /\ r \in Admitting
              /\ Admitting' = Admitting \ {r}
              /\ \E k \in 0 .. 5 : Charge(TenantOf[r], Est[r], k)

Abandons == Admitting' \subseteq Admitting /\ UNCHANGED window

TurnsMinute == /\ Admitting' = Admitting
               /\ platTpm' = 0
               /\ tpm' = [x \in Tenants |-> 0]
               /\ rpm' = [x \in Tenants |-> 0]

LEMMA PollEffect ==
    ASSUME TypeOK, NEW r \in Requests, Poll(r)
    PROVE  Decides(r) \/ Abandons
<1>1. UNCHANGED window
  BY DEF Poll
<1>2. \A s \in Requests : s # r => pc'[s] = pc[s] /\ verdict'[s] = verdict[s]
  BY DEF Poll, Return, Goto, TypeOK
<1>3. CASE r \notin Admitting'
  <2>1. Admitting' \subseteq Admitting
    BY <1>2, <1>3 DEF Admitting
  <2> QED
    BY <2>1, <1>1 DEF Abandons
<1>4. CASE r \in Admitting'
  <2>1. verdict'[r] = "ADMIT" /\ pc'[r] \in {"leave", "record"}
    BY <1>4 DEF Admitting
  <2>2. Decision(r) = "ADMIT"
    <3>1. CASE Decision(r) = "ADMIT"
      BY <3>1
    <3>2. CASE Return(r, "REJECT")
      BY <3>2, <2>1 DEF Return, TypeOK
    <3>3. CASE Goto(r, IF queued[r] THEN "asleep" ELSE "enqueue")
      BY <3>3, <2>1 DEF Goto, TypeOK
    <3> QED
      BY <3>1, <3>2, <3>3 DEF Poll
  <2>3. Admitting' = Admitting \cup {r}
    BY <1>2, <1>4 DEF Admitting, Poll
  <2> QED
    BY <2>2, <2>3, <1>1 DEF Decides
<1> QED
  BY <1>3, <1>4

\* record_admit, whole or cut short.
LEMMA ChargeEffect ==
    ASSUME TypeOK, NEW r \in Requests, RecordAdmit(r) \/ RecordAdmitFails(r)
    PROVE  Charges(r)
<1>1. \E k \in 0 .. 5 : Charge(TenantOf[r], Est[r], k)
  BY DEF RecordAdmit, RecordAdmitFails
<1>2. /\ pc[r] = "record" /\ verdict[r] = "ADMIT" /\ verdict' = verdict
      /\ pc'[r] \in {"stream", "failed"}
      /\ \A s \in Requests : s # r => pc'[s] = pc[s]
  BY DEF RecordAdmit, RecordAdmitFails, Raise, Goto, TypeOK
<1>3. r \in Admitting /\ Admitting' = Admitting \ {r}
  BY <1>2 DEF Admitting
<1> QED
  BY <1>1, <1>3 DEF Charges

\* The other calls of a request charge nothing and admit nobody.
LEMMA OtherCallEffect ==
    ASSUME TypeOK, NEW r \in Requests,
           \/ Wake(r) \/ Enqueue(r) \/ LeaveQueue(r) \/ RecordReject(r)
           \/ StreamEnd(r) \/ Release(r) \/ Account(r)
           \/ PollFails(r) \/ EnqueueFails(r) \/ LeaveQueueFails(r)
           \/ RecordRejectFails(r) \/ ReleaseFails(r) \/ AccountFails(r)
    PROVE  Abandons
<1> USE DEF Goto, Raise, totals, TypeOK
<1>1. UNCHANGED window
  BY DEF Wake, Enqueue, LeaveQueue, RecordReject, StreamEnd, Release, Account,
     PollFails, EnqueueFails, LeaveQueueFails, RecordRejectFails, ReleaseFails,
     AccountFails
<1>2. \A s \in Requests : s # r => pc'[s] = pc[s] /\ verdict'[s] = verdict[s]
  BY DEF Wake, Enqueue, LeaveQueue, RecordReject, StreamEnd, Release, Account,
     PollFails, EnqueueFails, LeaveQueueFails, RecordRejectFails, ReleaseFails,
     AccountFails
<1>3. \/ pc[r] = "leave" /\ verdict'[r] = verdict[r]
      \/ verdict'[r] = "error"
      \/ pc'[r] \notin {"leave", "record"}
  BY DEF Wake, Enqueue, LeaveQueue, RecordReject, StreamEnd, Release, Account,
     PollFails, EnqueueFails, LeaveQueueFails, RecordRejectFails, ReleaseFails,
     AccountFails
<1>4. Admitting' \subseteq Admitting
  BY <1>2, <1>3 DEF Admitting
<1> QED
  BY <1>1, <1>4 DEF Abandons

LEMMA NextEffect ==
    ASSUME TypeOK, [Next]_vars
    PROVE  \/ \E r \in Requests : Decides(r) \/ Charges(r)
           \/ Abandons \/ TurnsMinute
<1>1. ASSUME NEW r \in Requests, Step(r) \/ CallFails(r) \/ Wake(r)
      PROVE  Decides(r) \/ Charges(r) \/ Abandons
  BY <1>1, PollEffect, ChargeEffect, OtherCallEffect DEF Step, CallFails
<1>2. ASSUME NEW r \in Requests, NEW t \in Tasks, Start(r, t)
      PROVE  Abandons
  BY <1>2 DEF Start, Goto, Admitting, TypeOK, Abandons
<1>3. ASSUME NEW t \in Tasks, Crash(t) PROVE Abandons
  BY <1>3 DEF Crash, Admitting, TypeOK, Abandons
<1>4. CASE NewMinute
  BY <1>4 DEF NewMinute, control, Admitting, TurnsMinute
<1>5. CASE Tick \/ MoveBudget \/ ExpireDepth \/ UNCHANGED vars
             \/ \E y \in Tenants : ExpireConcurrency(y)
  BY <1>5 DEF Tick, MoveBudget, ExpireDepth, ExpireConcurrency, vars, control,
     Admitting, Abandons
<1> QED
  BY <1>1, <1>2, <1>3, <1>4, <1>5 DEF Next

\* The requests of P are admitted and not yet charged, each on a task of its own.
LEMMA FewAdmitting ==
    ASSUME LoopInv', NEW P \in SUBSET Admitting'
    PROVE  P \in SUBSET Requests /\ Cardinality(P) <= Cardinality(Tasks)
<1>1. P \in SUBSET Requests
  BY DEF Admitting
<1>2. \A r \in P : task'[r] \in Tasks
  BY DEF LoopInv, Placed, Admitting
<1>3. \A r, s \in P : task'[r] = task'[s] => r = s
  BY DEF LoopInv, LoopExclusive, OnLoop, LoopPcs, Admitting
<1> QED
  BY <1>1, <1>2, <1>3, OnePerTask

-----------------------------------------------------------------------------
(***************************************************************************)
(* The charge of a tenant.                                                 *)
(***************************************************************************)

Joins(x) == /\ tpm'[x] = tpm[x]
            /\ \E r \in Requests : /\ Pending(x)' = Pending(x) \cup {r}
                                   /\ tpm[x] + Est[r] <= TpmLimit[x]

Pays(x) == \E r \in Pending(x) : /\ Pending(x)' = Pending(x) \ {r}
                                 /\ tpm'[x] = tpm[x] + Est[r]

Drops(x) == Pending(x)' \subseteq Pending(x) /\ tpm'[x] = tpm[x]

Resets(x) == Pending(x)' = Pending(x) /\ tpm'[x] = 0

Moves(x) == Joins(x) \/ Pays(x) \/ Drops(x) \/ Resets(x)

\* All four keep the bound.
LEMMA MovesKeepBound ==
    ASSUME LoopInv, PendingFits, PendingBounded, LoopInv', NEW x \in Tenants,
           Moves(x)
    PROVE  /\ \A r \in Pending(x)' : Est[r] <= TpmLimit[x]
           /\ Bounded(tpm'[x], TpmLimit[x], Pending(x)')
<1> DEFINE P == Pending(x)
           Q == Pending(x)'
<1>1. /\ tpm[x] \in Nat /\ tpm'[x] \in Nat /\ TpmLimit[x] \in Nat
      /\ P \in SUBSET Requests /\ Q \in SUBSET Requests
      /\ Bounded(tpm[x], TpmLimit[x], P)
      /\ \A r \in P : Est[r] <= TpmLimit[x]
  BY LimitAssumption DEF LoopInv, TypeOK, PendingBounded, PendingFits, Pending
<1>2. Cardinality(Q) <= Cardinality(Tasks)
  BY FewAdmitting DEF Pending, Admitting
<1>3. CASE Joins(x)
  <2>1. PICK r \in Requests : /\ Q = P \cup {r}
                              /\ tpm[x] + Est[r] <= TpmLimit[x]
    BY <1>3 DEF Joins
  <2>2. Bounded(tpm'[x], TpmLimit[x], Q)
    <3> HIDE DEF P, Q
    <3> QED
      BY <2>1, <1>1, <1>2, <1>3, BoundedJoin DEF Joins
  <2> QED
    BY <2>1, <2>2, <1>1, RequestType
<1>4. CASE Pays(x)
  <2>1. PICK r \in P : Q = P \ {r} /\ tpm'[x] = tpm[x] + Est[r]
    BY <1>4 DEF Pays
  <2> HIDE DEF P, Q
  <2>2. Bounded(tpm[x] + Est[r], TpmLimit[x], P \ {r})
    BY <1>1, BoundedPay
  <2>3. Bounded(tpm'[x], TpmLimit[x], Q)
    BY <2>1, <2>2
  <2> QED
    BY <2>1, <2>3, <1>1 DEF Q
<1>5. CASE Drops(x)
  <2>1. Q \in SUBSET P /\ tpm'[x] = tpm[x]
    BY <1>5 DEF Drops
  <2> HIDE DEF P, Q
  <2>2. Bounded(tpm'[x], TpmLimit[x], Q)
    BY <2>1, <1>1, BoundedDrop
  <2> QED
    BY <2>1, <2>2, <1>1 DEF Q
<1>6. CASE Resets(x)
  <2>1. Q = P /\ tpm'[x] = 0
    BY <1>6 DEF Resets
  <2>2. CASE P = {}
    <3>1. Slack(Cardinality(Tasks)) \in Int /\ Slack(Cardinality(Tasks)) >= 0
      BY TaskCount, SlackNonNegative
    <3> QED
      BY <3>1, <2>1, <2>2, <1>1 DEF Bounded
  <2>3. CASE P # {}
    <3>1. PICK r \in P : TRUE
      BY <2>3
    <3>2. 0 + Est[r] <= TpmLimit[x]
      BY <3>1, <1>1, RequestType
    <3> HIDE DEF P, Q
    <3>3. Bounded(0, TpmLimit[x], Q)
      BY <3>1, <3>2, <2>1, <1>1, <1>2, BoundedJoin
    <3> QED
      BY <3>3, <2>1, <1>1 DEF Q
  <2> QED
    BY <2>2, <2>3
<1> QED
  BY <1>3, <1>4, <1>5, <1>6 DEF Moves

-----------------------------------------------------------------------------
(***************************************************************************)
(* Every step is one of the four, for every tenant.                        *)
(***************************************************************************)

\* A policy with a quota test admits only what fits the quota it reads.
LEMMA AdmitFits ==
    ASSUME NEW p \in QuotaPolicies, NEW c, Decide(p, c) = "ADMIT"
    PROVE  ~TenantTpmExceeded(c)
<1>1. Admits(p, c)
  BY DEF Decide
<1>2. CASE p = "tpm"
  BY <1>1, <1>2 DEF Admits, TpmAdmits
<1>3. CASE p = "priority"
  BY <1>1, <1>3 DEF Admits, PriorityAdmits
<1>4. CASE p \in {"slo-aware", "adaptive-slo"}
  BY <1>1, <1>4 DEF Admits, SloAdmits
<1> QED
  BY <1>2, <1>3, <1>4 DEF QuotaPolicies

LEMMA NextMoves ==
    ASSUME policy \in QuotaPolicies, TypeOK, [Next]_vars, NEW x \in Tenants
    PROVE  Moves(x)
<1>0. /\ Pending(x) = {r \in Admitting : TenantOf[r] = x}
      /\ Pending(x)' = {r \in Admitting' : TenantOf[r] = x}
  BY DEF Pending, Admitting
<1>1. ASSUME NEW r \in Requests, Decides(r) PROVE Moves(x)
  <2>1. CASE TenantOf[r] # x
    BY <1>0, <1>1, <2>1 DEF Decides, window, Moves, Drops
  <2>2. CASE TenantOf[r] = x
    <3>1. ~TenantTpmExceeded(Context(r))
      BY <1>1, AdmitFits DEF Decides, Decision
    <3>2. tpm[x] + Est[r] <= TpmLimit[x]
      BY <3>1, <2>2, RequestType, LimitAssumption DEF TenantTpmExceeded, Context, TypeOK
    <3>3. Pending(x)' = Pending(x) \cup {r}
      BY <1>0, <1>1, <2>2 DEF Decides
    <3> QED
      BY <1>1, <3>2, <3>3 DEF Decides, window, Moves, Joins
  <2> QED
    BY <2>1, <2>2
<1>2. ASSUME NEW r \in Requests, Charges(r) PROVE Moves(x)
  <2>1. PICK k \in 0 .. 5 : Charge(TenantOf[r], Est[r], k)
    BY <1>2 DEF Charges
  <2>2. Pending(x)' = Pending(x) \ {r}
    BY <1>0, <1>2 DEF Charges
  <2>3. tpm'[x] = tpm[x] \/ (TenantOf[r] = x /\ tpm'[x] = tpm[x] + Est[r])
    BY <2>1 DEF Charge, TypeOK
  <2>4. TenantOf[r] = x => r \in Pending(x)
    BY <1>0, <1>2 DEF Charges
  <2> QED
    BY <2>2, <2>3, <2>4 DEF Moves, Drops, Pays
<1>3. CASE Abandons
  BY <1>0, <1>3 DEF Abandons, window, Moves, Drops
<1>4. CASE TurnsMinute
  BY <1>0, <1>4 DEF TurnsMinute, Moves, Resets
<1> QED
  BY <1>1, <1>2, <1>3, <1>4, NextEffect

-----------------------------------------------------------------------------
(***************************************************************************)
(* The theorems.                                                           *)
(***************************************************************************)

LEMMA QuotaInit == Init => QuotaInv
<1> SUFFICES ASSUME Init PROVE QuotaInv
  OBVIOUS
<1>1. TypeOK
  BY DEF Init, TypeOK
<1>2. LoopExclusive /\ Placed
  BY DEF Init, LoopExclusive, Placed, OnLoop, LoopPcs
<1>3. \A x \in Tenants : Pending(x) = {} /\ tpm[x] = 0
  BY DEF Init, Pending
<1>4. Slack(Cardinality(Tasks)) \in Int /\ Slack(Cardinality(Tasks)) >= 0
  BY TaskCount, SlackNonNegative
<1>5. PendingFits /\ PendingBounded
  BY <1>3, <1>4, LimitAssumption DEF PendingFits, PendingBounded, Bounded
<1> QED
  BY <1>1, <1>2, <1>5 DEF QuotaInv, LoopInv

\* The policy is the one of the deployment.
LEMMA PolicyFixed == [Next]_vars => policy' = policy
<1> SUFFICES ASSUME [Next]_vars PROVE policy' = policy
  OBVIOUS
<1> USE DEF settings
<1>1. ASSUME NEW r \in Requests, Step(r) PROVE policy' = policy
  BY <1>1 DEF Step, Poll, Enqueue, LeaveQueue, RecordReject, RecordAdmit,
     StreamEnd, Release, Account
<1>2. ASSUME NEW r \in Requests, CallFails(r) PROVE policy' = policy
  BY <1>2 DEF CallFails, PollFails, EnqueueFails, LeaveQueueFails,
     RecordRejectFails, RecordAdmitFails, ReleaseFails, AccountFails
<1>3. ASSUME NEW r \in Requests, Wake(r) \/ \E t \in Tasks : Start(r, t)
      PROVE  policy' = policy
  BY <1>3 DEF Wake, Start
<1>4. ASSUME NEW x \in Tenants, ExpireConcurrency(x) PROVE policy' = policy
  BY <1>4 DEF ExpireConcurrency
<1>5. CASE Tick \/ NewMinute \/ MoveBudget \/ ExpireDepth \/ UNCHANGED vars
  BY <1>5 DEF Tick, NewMinute, MoveBudget, ExpireDepth, vars
<1>6. ASSUME NEW t \in Tasks, Crash(t) PROVE policy' = policy
  BY <1>6 DEF Crash
<1> QED
  BY <1>1, <1>2, <1>3, <1>4, <1>5, <1>6 DEF Next

LEMMA QuotaNext == QuotaInv /\ [Next]_vars => QuotaInv'
<1> SUFFICES ASSUME QuotaInv, [Next]_vars PROVE QuotaInv'
  OBVIOUS
<1>1. LoopInv'
  BY LoopNext DEF QuotaInv
<1> SUFFICES ASSUME policy \in QuotaPolicies PROVE PendingFits' /\ PendingBounded'
  BY <1>1, PolicyFixed DEF QuotaInv
<1>2. ASSUME NEW x \in Tenants
      PROVE  /\ \A r \in Pending(x)' : Est[r] <= TpmLimit[x]
             /\ Bounded(tpm'[x], TpmLimit[x], Pending(x)')
  BY <1>1, NextMoves, MovesKeepBound DEF QuotaInv, LoopInv
<1>3. PendingFits'
  BY <1>2 DEF PendingFits
<1>4. PendingBounded'
  BY <1>2 DEF PendingBounded, Bounded
<1> QED
  BY <1>3, <1>4

LEMMA QuotaInvImplies == QuotaInv => QuotaOvershootBound
<1> SUFFICES ASSUME QuotaInv, policy \in QuotaPolicies, NEW x \in Tenants
             PROVE  tpm[x] <= TpmLimit[x] + Slack(Cardinality(Tasks))
  BY DEF QuotaOvershootBound
<1>1. /\ Bounded(tpm[x], TpmLimit[x], Pending(x))
      /\ tpm[x] \in Nat /\ TpmLimit[x] \in Nat
      /\ Pending(x) \in SUBSET Requests
  BY LimitAssumption DEF QuotaInv, LoopInv, TypeOK, PendingBounded, Pending
<1>2. Bounded(tpm[x], TpmLimit[x], {})
  BY <1>1, BoundedDrop
<1> QED
  BY <1>2 DEF Bounded

\* A task never has two requests between awaits: the coroutine blocks its
\* event loop from the moment it wakes until it sleeps or returns.
THEOREM OneRequestPerLoop == Spec => []LoopExclusive
<1>1. Init => LoopInv
  BY QuotaInit DEF QuotaInv
<1>2. LoopInv => LoopExclusive
  BY DEF LoopInv
<1> QED
  BY <1>1, <1>2, LoopNext, PTL DEF Spec

\* Under every policy with a quota test, for any number of tasks, requests
\* and tenants, through any failed calls, crashes and turns of the minute, a
\* tenant is charged at most its limit and one estimate per other task.
THEOREM QuotaOvershoot == Spec => []QuotaOvershootBound
  BY QuotaInit, QuotaNext, QuotaInvImplies, PTL DEF Spec
-----------------------------------------------------------------------------
(***************************************************************************)
(* The same race on the request counter.  A request is admitted only below *)
(* the limit, so what is counted and what may still be counted exceed it   *)
(* by the other requests under way, at most one per other task.            *)
(***************************************************************************)

CountBounded ==
    \A x \in Tenants :
        /\ rpm[x] + Cardinality(Pending(x)) <= RpmLimit[x] + Cardinality(Tasks) - 1
        /\ Pending(x) # {} => RpmLimit[x] >= 1

RpmInv == LoopInv /\ (policy = "rpm" => CountBounded)

LEMMA CountNext ==
    ASSUME policy = "rpm", LoopInv, LoopInv', CountBounded, [Next]_vars
    PROVE  CountBounded'
<1> SUFFICES ASSUME NEW x \in Tenants
             PROVE  /\ rpm'[x] + Cardinality(Pending(x)')
                         <= RpmLimit[x] + Cardinality(Tasks) - 1
                    /\ Pending(x)' # {} => RpmLimit[x] >= 1
  BY DEF CountBounded
<1> DEFINE P == Pending(x)
           Q == Pending(x)'
           N == Cardinality(Tasks)
           Kept == /\ rpm'[x] + Cardinality(Q) <= RpmLimit[x] + N - 1
                   /\ Q # {} => RpmLimit[x] >= 1
<1> SUFFICES Kept
  OBVIOUS
<1>0. TypeOK
  BY DEF LoopInv
<1>1. P = {r \in Admitting : TenantOf[r] = x} /\ Q = {r \in Admitting' : TenantOf[r] = x}
  BY DEF Pending, Admitting
<1>2. /\ P \in SUBSET Requests /\ Q \in SUBSET Requests /\ Cardinality(Q) <= N
      /\ rpm[x] \in Nat /\ RpmLimit[x] \in Nat /\ N \in Nat /\ N >= 1
  BY <1>0, <1>1, FewAdmitting, TaskCount, LimitAssumption DEF Pending, TypeOK
<1>3. /\ Cardinality(P) \in Nat /\ Cardinality(Q) \in Nat
      /\ Q \subseteq P => Cardinality(Q) <= Cardinality(P)
      /\ Q = {} => Cardinality(Q) = 0
      /\ \A r \in P : Cardinality(P \ {r}) = Cardinality(P) - 1
  BY <1>2, RequestSet, FS_Subset, FS_EmptySet
<1>4. /\ rpm[x] + Cardinality(P) <= RpmLimit[x] + N - 1
      /\ P # {} => RpmLimit[x] >= 1
  BY DEF CountBounded
<1>5. ASSUME NEW r \in Requests, Decides(r) PROVE Kept
  <2>1. rpm' = rpm
    BY <1>5 DEF Decides, window
  <2>2. CASE TenantOf[r] # x
    BY <2>1, <2>2, <1>1, <1>4, <1>5 DEF Decides
  <2>3. CASE TenantOf[r] = x
    <3>1. rpm[x] < RpmLimit[x]
      BY <1>5, <1>2, <2>3
         DEF Decides, Decision, Decide, Admits, Rejects, RpmRejects, Context
    <3> HIDE DEF P, Q, N
    <3> QED
      BY <3>1, <2>1, <1>2, <1>3
  <2> QED
    BY <2>2, <2>3
<1>6. ASSUME NEW r \in Requests, Charges(r) PROVE Kept
  <2>1. PICK k \in 0 .. 5 : Charge(TenantOf[r], Est[r], k)
    BY <1>6 DEF Charges
  <2>2. Q = P \ {r} /\ (TenantOf[r] = x => r \in P)
    BY <1>1, <1>6 DEF Charges
  <2>3. rpm'[x] = rpm[x] \/ (TenantOf[r] = x /\ rpm'[x] = rpm[x] + 1)
    BY <2>1, <1>0 DEF Charge, TypeOK
  <2> HIDE DEF P, Q, N
  <2> QED
    BY <2>2, <2>3, <1>2, <1>3, <1>4
<1>7. CASE Abandons
  <2>1. Q \subseteq P /\ rpm' = rpm
    BY <1>1, <1>7 DEF Abandons, window
  <2> HIDE DEF P, Q, N
  <2> QED
    BY <2>1, <1>2, <1>3, <1>4
<1>8. CASE TurnsMinute
  <2>1. Q = P /\ rpm'[x] = 0
    BY <1>1, <1>8 DEF TurnsMinute
  <2> HIDE DEF P, Q, N
  <2> QED
    BY <2>1, <1>2, <1>3, <1>4
<1> QED
  BY <1>0, <1>5, <1>6, <1>7, <1>8, NextEffect

\* Under rpm, for any number of tasks, requests and tenants and through any
\* failures, at most one request over its limit is counted for a tenant in a
\* minute per other task.
THEOREM RpmOvershoot == Spec => []RpmOvershootBound
<1>1. Init => RpmInv
  <2> SUFFICES ASSUME Init PROVE RpmInv
    OBVIOUS
  <2>1. LoopInv
    BY QuotaInit DEF QuotaInv
  <2>2. ASSUME NEW x \in Tenants PROVE Pending(x) = {} /\ rpm[x] = 0 /\ RpmLimit[x] \in Nat
    BY LimitAssumption DEF Init, Pending
  <2>3. CountBounded
    BY <2>2, TaskCount, FS_EmptySet DEF CountBounded
  <2> QED
    BY <2>1, <2>3 DEF RpmInv
<1>2. RpmInv /\ [Next]_vars => RpmInv'
  BY LoopNext, CountNext, PolicyFixed DEF RpmInv
<1>3. RpmInv => RpmOvershootBound
  <2> SUFFICES ASSUME RpmInv, policy = "rpm", NEW x \in Tenants
               PROVE  rpm[x] <= RpmLimit[x] + Cardinality(Tasks) - 1
    BY DEF RpmOvershootBound
  <2>1. /\ rpm[x] \in Nat /\ RpmLimit[x] \in Nat /\ Cardinality(Tasks) \in Nat
        /\ Cardinality(Pending(x)) \in Nat
    BY TaskCount, RequestSet, LimitAssumption DEF RpmInv, LoopInv, TypeOK, Pending
  <2> QED
    BY <2>1 DEF RpmInv, CountBounded
<1> QED
  BY <1>1, <1>2, <1>3, PTL DEF Spec

-----------------------------------------------------------------------------
(***************************************************************************)
(* The platform's budget.  Under a fixed budget the argument is the one of *)
(* the quota, for all tenants together; slo-aware admits below its ceiling *)
(* whatever the estimate, hence one estimate more.                         *)
(***************************************************************************)

\* An admitted request fits the budget on its own.
BudgetBounded ==
    /\ \A r \in Admitting : Est[r] <= budget
    /\ Bounded(platTpm, budget, Admitting)

\* Ten times the tokens charged or about to be, at one estimate each.
CeilingBounded ==
    /\ 10 * platTpm + 10 * (Cardinality(Admitting) * MaxEst)
           < 11 * budget + 10 * (Cardinality(Tasks) * MaxEst)
    /\ Admitting # {} => budget > 0

PlatformInv ==
    /\ LoopInv
    /\ policy = "tpm" => BudgetBounded
    /\ policy = "slo-aware" => CeilingBounded

\* Only adaptive-slo moves its budget.
LEMMA BudgetFixed == policy # "adaptive-slo" /\ [Next]_vars => budget' = budget
<1> SUFFICES ASSUME policy # "adaptive-slo", [Next]_vars PROVE budget' = budget
  OBVIOUS
<1> USE DEF settings
<1>1. ASSUME NEW r \in Requests, Step(r) PROVE budget' = budget
  BY <1>1 DEF Step, Poll, Enqueue, LeaveQueue, RecordReject, RecordAdmit,
     StreamEnd, Release, Account
<1>2. ASSUME NEW r \in Requests, CallFails(r) PROVE budget' = budget
  BY <1>2 DEF CallFails, PollFails, EnqueueFails, LeaveQueueFails,
     RecordRejectFails, RecordAdmitFails, ReleaseFails, AccountFails
<1>3. ASSUME NEW r \in Requests, Wake(r) \/ \E t \in Tasks : Start(r, t)
      PROVE  budget' = budget
  BY <1>3 DEF Wake, Start
<1>4. ASSUME NEW x \in Tenants, ExpireConcurrency(x) PROVE budget' = budget
  BY <1>4 DEF ExpireConcurrency
<1>5. CASE Tick \/ NewMinute \/ MoveBudget \/ ExpireDepth \/ UNCHANGED vars
  BY <1>5 DEF Tick, NewMinute, MoveBudget, ExpireDepth, vars
<1>6. ASSUME NEW t \in Tasks, Crash(t) PROVE budget' = budget
  BY <1>6 DEF Crash
<1> QED
  BY <1>1, <1>2, <1>3, <1>4, <1>5, <1>6 DEF Next

LEMMA BudgetNext ==
    ASSUME policy = "tpm", LoopInv, LoopInv', BudgetBounded, [Next]_vars
    PROVE  BudgetBounded'
<1> DEFINE P == Admitting
           Q == Admitting'
<1>0. TypeOK /\ TypeOK' /\ budget' = budget
  BY BudgetFixed DEF LoopInv
<1>1. /\ P \in SUBSET Requests /\ Q \in SUBSET Requests
      /\ Cardinality(Q) <= Cardinality(Tasks)
      /\ platTpm \in Nat /\ platTpm' \in Nat /\ budget \in Nat
      /\ Bounded(platTpm, budget, P)
      /\ \A r \in P : Est[r] <= budget
  BY <1>0, FewAdmitting, LimitAssumption DEF Admitting, TypeOK, BudgetBounded
<1> SUFFICES (\A r \in Q : Est[r] <= budget) /\ Bounded(platTpm', budget, Q)
  BY <1>0 DEF BudgetBounded, Bounded
<1>2. ASSUME NEW r \in Requests, Decides(r)
      PROVE  (\A s \in Q : Est[s] <= budget) /\ Bounded(platTpm', budget, Q)
  <2>1. platTpm' = platTpm /\ Q = P \cup {r}
    BY <1>2 DEF Decides, window
  <2>2. platTpm + Est[r] <= budget
    BY <1>2, <1>1, RequestType
       DEF Decides, Decision, Decide, Admits, Rejects, TpmAdmits, Context
  <2> HIDE DEF P, Q
  <2>3. Bounded(platTpm, budget, Q)
    BY <2>1, <2>2, <1>1, BoundedJoin
  <2> QED
    BY <2>1, <2>2, <2>3, <1>1, RequestType
<1>3. ASSUME NEW r \in Requests, Charges(r)
      PROVE  (\A s \in Q : Est[s] <= budget) /\ Bounded(platTpm', budget, Q)
  <2>1. r \in P /\ Q = P \ {r} /\ platTpm' \in {platTpm, platTpm + Est[r]}
    BY <1>3 DEF Charges, Charge
  <2> HIDE DEF P, Q
  <2>2. Bounded(platTpm, budget, Q)
    BY <2>1, <1>1, BoundedDrop
  <2>3. Bounded(platTpm + Est[r], budget, Q)
    BY <2>1, <1>1, BoundedPay
  <2> QED
    BY <2>1, <2>2, <2>3, <1>1
<1>4. CASE Abandons
  <2>1. Q \in SUBSET P /\ platTpm' = platTpm
    BY <1>4 DEF Abandons, window
  <2> HIDE DEF P, Q
  <2>2. Bounded(platTpm, budget, Q)
    BY <2>1, <1>1, BoundedDrop
  <2> QED
    BY <2>1, <2>2, <1>1
<1>5. CASE TurnsMinute
  <2>1. Q = P /\ platTpm' = 0
    BY <1>5 DEF TurnsMinute
  <2> HIDE DEF P, Q
  <2>2. CASE P = {}
    BY <2>1, <2>2, <1>1, TaskCount, SlackNonNegative DEF Bounded
  <2>3. CASE P # {}
    <3>1. PICK r \in P : TRUE
      BY <2>3
    <3>2. 0 + Est[r] <= budget
      BY <3>1, <1>1, RequestType
    <3>3. Bounded(0, budget, Q)
      BY <3>1, <3>2, <2>1, <1>1, BoundedJoin
    <3> QED
      BY <3>3, <2>1, <1>1
  <2> QED
    BY <2>2, <2>3
<1> QED
  BY <1>0, <1>2, <1>3, <1>4, <1>5, NextEffect

LEMMA CeilingNext ==
    ASSUME policy = "slo-aware", LoopInv, LoopInv', CeilingBounded, [Next]_vars
    PROVE  CeilingBounded'
<1> DEFINE N == Cardinality(Tasks)
           P == Admitting
           Q == Admitting'
           p == Cardinality(P)
           q == Cardinality(Q)
           Fits(t, n) == 10 * t + 10 * (n * MaxEst) < 11 * budget + 10 * (N * MaxEst)
<1>0. TypeOK /\ TypeOK' /\ budget' = budget
  BY BudgetFixed DEF LoopInv
<1>1. /\ P \in SUBSET Requests /\ Q \in SUBSET Requests /\ q <= N
      /\ platTpm \in Nat /\ platTpm' \in Nat /\ budget \in Nat
      /\ Fits(platTpm, p) /\ (P # {} => budget > 0)
      /\ N \in Nat /\ N >= 1 /\ MaxEst \in Nat /\ MaxEst >= 1
  BY <1>0, FewAdmitting, TaskCount, LimitAssumption, SystemAssumption
     DEF Admitting, TypeOK, CeilingBounded
<1>2. /\ p \in Nat /\ q \in Nat
      /\ Q \subseteq P => q <= p
      /\ \A r \in P : Cardinality(P \ {r}) = p - 1
  BY <1>1, RequestSet, FS_Subset
<1>3. \A r \in Requests : Est[r] \in Nat /\ Est[r] <= MaxEst
  BY RequestType
<1>4. \A m, n \in Nat : m <= n => m * MaxEst <= n * MaxEst
  <2> SUFFICES ASSUME NEW m \in Nat, NEW n \in Nat, m <= n PROVE m * MaxEst <= n * MaxEst
    OBVIOUS
  <2>1. PICK d \in Nat : n = m + d
    BY n - m \in Nat
  <2>2. n * MaxEst = m * MaxEst + d * MaxEst /\ d * MaxEst \in Nat /\ m * MaxEst \in Nat
    BY <2>1, <1>1
  <2> QED
    BY <2>2
<1>5. N * MaxEst >= 1 /\ p * MaxEst \in Nat /\ q * MaxEst \in Nat /\ N * MaxEst \in Nat
  <2>1. 1 * MaxEst <= N * MaxEst
    BY <1>1, <1>4
  <2> QED
    BY <2>1, <1>1, <1>2
<1> SUFFICES Fits(platTpm', q) /\ (Q # {} => budget > 0)
  BY <1>0 DEF CeilingBounded
<1>6. ASSUME NEW r \in Requests, Decides(r)
      PROVE  Fits(platTpm', q) /\ (Q # {} => budget > 0)
  <2>1. platTpm' = platTpm /\ Q = P \cup {r}
    BY <1>6 DEF Decides, window
  <2>2. platTpm * 10 < 11 * budget /\ budget > 0
    <3>1. SloAdmits(Context(r))
      BY <1>6 DEF Decides, Decision, Decide, Admits, Rejects
    <3>2. /\ Context(r).platUsed = platTpm /\ Context(r).budget = budget
          /\ Context(r).tpmUsed \in Nat
          /\ Context(r).weightSum \in Nat /\ Context(r).weight \in Nat
      BY <1>0, RequestType, LimitAssumption DEF Context, TypeOK
    <3>3. budget > 0
      <4>1. CASE budget <= 0
        <5>1. budget = 0
          BY <4>1, <1>1
        <5>2. BelowReserved(Context(r))
          BY <3>1, <3>2, <5>1 DEF SloAdmits, PressureBelow
        <5>3. \A u, w \in Nat : ~(u * w < 0)
          OBVIOUS
        <5>4. 0 * Context(r).weight = 0
          BY <3>2
        <5> QED
          BY <5>1, <5>2, <5>3, <5>4, <3>2 DEF BelowReserved
      <4> QED
        BY <4>1, <1>1
    <3> QED
      BY <3>1, <3>2, <3>3, <1>1 DEF SloAdmits, PressureBelow
  <2>3. q * MaxEst <= N * MaxEst
    BY <1>1, <1>2, <1>4
  <2> HIDE DEF P, Q, p, q, N
  <2> QED
    BY <2>1, <2>2, <2>3, <1>1, <1>5
<1>7. ASSUME NEW r \in Requests, Charges(r)
      PROVE  Fits(platTpm', q) /\ (Q # {} => budget > 0)
  <2>1. r \in P /\ Q = P \ {r} /\ platTpm' \in {platTpm, platTpm + Est[r]}
    BY <1>7 DEF Charges, Charge
  <2>2. q = p - 1
    BY <2>1, <1>2
  <2> HIDE DEF P, Q, p, q, N
  <2>3. p * MaxEst = q * MaxEst + MaxEst
    BY <2>2, <1>1, <1>2
  <2> QED
    BY <2>1, <2>3, <1>1, <1>3, <1>5
<1>8. CASE Abandons
  <2>1. Q \subseteq P /\ platTpm' = platTpm
    BY <1>8 DEF Abandons, window
  <2>2. q * MaxEst <= p * MaxEst
    BY <2>1, <1>2, <1>4
  <2> HIDE DEF P, Q, p, q, N
  <2> QED
    BY <2>1, <2>2, <1>1, <1>5
<1>9. CASE TurnsMinute
  <2>1. Q = P /\ platTpm' = 0
    BY <1>9 DEF TurnsMinute
  <2>2. q * MaxEst <= p * MaxEst
    BY <2>1, <1>2, <1>4
  <2> HIDE DEF P, Q, p, q, N
  <2> QED
    BY <2>1, <2>2, <1>1, <1>5
<1> QED
  BY <1>0, <1>6, <1>7, <1>8, <1>9, NextEffect

\* For any number of tasks, requests and tenants and through any failures, a
\* fixed budget is exceeded under tpm by at most one estimate per other task,
\* and the hard ceiling of slo-aware by less than one estimate per task.
THEOREM PlatformOvershoot == Spec => []PlatformOvershootBound
<1>1. Init => PlatformInv
  <2> SUFFICES ASSUME Init PROVE PlatformInv
    OBVIOUS
  <2>1. LoopInv /\ Admitting = {} /\ platTpm = 0 /\ budget \in Nat
    BY QuotaInit, LimitAssumption DEF QuotaInv, Init, Admitting
  <2>2. BudgetBounded
    BY <2>1, TaskCount, SlackNonNegative DEF BudgetBounded, Bounded
  <2>3. CeilingBounded
    <3>1. Cardinality({}) = 0 /\ 0 * MaxEst = 0
      BY FS_EmptySet, SystemAssumption
    <3>2. Cardinality(Tasks) * MaxEst >= 1
      <4>1. PICK d \in Nat : Cardinality(Tasks) = 1 + d
        BY TaskCount, Cardinality(Tasks) - 1 \in Nat
      <4>2. /\ Cardinality(Tasks) * MaxEst = MaxEst + d * MaxEst
            /\ d * MaxEst \in Nat
        BY <4>1, SystemAssumption
      <4> QED
        BY <4>2, SystemAssumption
    <3>3. Cardinality(Tasks) * MaxEst \in Nat
      BY TaskCount, SystemAssumption
    <3> QED
      BY <2>1, <3>1, <3>2, <3>3 DEF CeilingBounded
  <2> QED
    BY <2>1, <2>2, <2>3 DEF PlatformInv
<1>2. PlatformInv /\ [Next]_vars => PlatformInv'
  BY LoopNext, BudgetNext, CeilingNext, PolicyFixed DEF PlatformInv
<1>3. PlatformInv => PlatformOvershootBound
  <2> SUFFICES ASSUME PlatformInv PROVE PlatformOvershootBound
    OBVIOUS
  <2>1. /\ platTpm \in Nat /\ budget \in Nat /\ Admitting \in SUBSET Requests
        /\ Cardinality(Tasks) \in Nat /\ MaxEst \in Nat
    BY TaskCount, LimitAssumption, SystemAssumption
       DEF PlatformInv, LoopInv, TypeOK, Admitting
  <2>2. CASE policy = "tpm"
    <3>1. Bounded(platTpm, budget, {})
      BY <2>1, <2>2, BoundedDrop DEF PlatformInv, BudgetBounded
    <3> QED
      BY <3>1, <2>2 DEF Bounded, PlatformOvershootBound
  <2>3. CASE policy = "slo-aware"
    <3>1. Cardinality(Admitting) * MaxEst \in Nat
      BY <2>1, RequestSet
    <3>2. 10 * Cardinality(Tasks) * MaxEst = 10 * (Cardinality(Tasks) * MaxEst)
      BY <2>1
    <3>3. Cardinality(Tasks) * MaxEst \in Nat
      BY <2>1
    <3>4. 10 * platTpm < 11 * budget + 10 * (Cardinality(Tasks) * MaxEst)
      BY <2>1, <2>3, <3>1, <3>3 DEF PlatformInv, CeilingBounded
    <3> QED
      BY <2>1, <2>3, <3>2, <3>3, <3>4 DEF PlatformOvershootBound
  <2> QED
    BY <2>2, <2>3 DEF PlatformOvershootBound
<1> QED
  BY <1>1, <1>2, <1>3, PTL DEF Spec


-----------------------------------------------------------------------------
(***************************************************************************)
(* What a program point tells of the local variables of infer and _admit.  *)
(***************************************************************************)

Undecided == {"new", "poll", "enqueue", "asleep"}

Locals(r) ==
    /\ pc[r] \in Undecided => verdict[r] = "none"
    /\ pc[r] = "record" => verdict[r] \in {"ADMIT", "REJECT"}
    /\ pc[r] \in {"stream", "release", "account"} => verdict[r] = "ADMIT"
    /\ pc[r] = "done" => verdict[r] \in {"ADMIT", "REJECT"}
    /\ pc[r] = "leave" => queued[r] /\ verdict[r] # "none"
    /\ queued[r] => pc[r] \in {"poll", "asleep", "leave"}
    /\ met[r] => /\ pc[r] \in {"release", "account"} \cup FinalPcs
                 /\ waited[r] * TickMs <= Slo[TenantOf[r]]

LocalInv == TypeOK /\ \A r \in Requests : Locals(r)

LEMMA LocalStep ==
    ASSUME LocalInv, NEW r \in Requests, Step(r) \/ CallFails(r) \/ Wake(r), TypeOK'
    PROVE  LocalInv'
<1> SUFFICES ASSUME NEW s \in Requests PROVE Locals(s)'
  BY DEF LocalInv
<1> USE DEF LocalInv, Locals, TypeOK, Undecided, FinalPcs, LoopPcs, Goto, Raise
<1>1. CASE Wake(r)
  BY <1>1 DEF Wake
<1>2. CASE Poll(r)
  BY <1>2 DEF Poll, Return
<1>3. CASE Enqueue(r)
  BY <1>3 DEF Enqueue
<1>4. CASE LeaveQueue(r)
  BY <1>4 DEF LeaveQueue
<1>5. CASE RecordReject(r)
  BY <1>5 DEF RecordReject
<1>6. CASE RecordAdmit(r)
  BY <1>6 DEF RecordAdmit
<1>7. CASE StreamEnd(r)
  BY <1>7 DEF StreamEnd
<1>8. CASE Release(r)
  BY <1>8 DEF Release
<1>9. CASE Account(r)
  BY <1>9 DEF Account
<1>10. CASE CallFails(r)
  BY <1>10 DEF CallFails, PollFails, EnqueueFails, LeaveQueueFails,
     RecordRejectFails, RecordAdmitFails, ReleaseFails, AccountFails
<1> QED
  BY <1>1, <1>2, <1>3, <1>4, <1>5, <1>6, <1>7, <1>8, <1>9, <1>10 DEF Step

LEMMA LocalNext == LocalInv /\ [Next]_vars => LocalInv'
<1> SUFFICES ASSUME LocalInv, [Next]_vars PROVE LocalInv'
  OBVIOUS
<1>0. TypeOK'
  BY NextType DEF LocalInv
<1>1. ASSUME NEW r \in Requests, Step(r) \/ CallFails(r) \/ Wake(r) PROVE LocalInv'
  BY <1>0, <1>1, LocalStep
<1> USE <1>0 DEF LocalInv, Locals, TypeOK, Undecided, FinalPcs, LoopPcs, control
<1>2. ASSUME NEW r \in Requests, NEW t \in Tasks, Start(r, t) PROVE LocalInv'
  BY <1>2 DEF Start, Goto
<1>3. ASSUME NEW t \in Tasks, Crash(t) PROVE LocalInv'
  BY <1>3 DEF Crash
<1>4. CASE Tick
  BY <1>4 DEF Tick, Waiting
<1>5. CASE NewMinute \/ MoveBudget \/ ExpireDepth \/ UNCHANGED vars
             \/ \E x \in Tenants : ExpireConcurrency(x)
  BY <1>5 DEF NewMinute, MoveBudget, ExpireDepth, ExpireConcurrency, vars
<1> QED
  BY <1>1, <1>2, <1>3, <1>4, <1>5 DEF Next

LEMMA LocalInit == Init => LocalInv
  BY DEF Init, LocalInv, TypeOK, Locals, Undecided

-----------------------------------------------------------------------------
(***************************************************************************)
(* A counter n of the requests in S, which those that died in D may leave  *)
(* counted, and what a step may do to the three.                           *)
(***************************************************************************)

Agrees(n, S, D) == n \in Cardinality(S) .. Cardinality(S \cup D)

\* Requests die, a request is counted (and may die of it), or counted out.
Recount(n, S, D, m, T, E) ==
    \/ m = n /\ T \subseteq S /\ S \cup D \subseteq T \cup E
    \/ \E r \in Requests \ (S \cup D) :
          m = n + 1 /\ T \subseteq S \cup {r} /\ S \cup D \cup {r} \subseteq T \cup E
    \/ \E r \in S \ D :
          m = n - 1 /\ T = S \ {r} /\ (S \cup D) \ {r} \subseteq T \cup E

LEMMA RecountAgrees ==
    ASSUME NEW S \in SUBSET Requests, NEW D \in SUBSET Requests,
           NEW T \in SUBSET Requests, NEW E \in SUBSET Requests,
           NEW n, NEW m, Agrees(n, S, D), Recount(n, S, D, m, T, E)
    PROVE  Agrees(m, T, E)
<1>1. \A P \in SUBSET Requests : /\ IsFiniteSet(P) /\ Cardinality(P) \in Nat
                                 /\ \A Q \in SUBSET P : Cardinality(Q) <= Cardinality(P)
  BY RequestSet, FS_Subset
<1>2. n \in Int /\ Cardinality(S) <= n /\ n <= Cardinality(S \cup D)
  BY <1>1 DEF Agrees
<1>3. CASE m = n /\ T \subseteq S /\ S \cup D \subseteq T \cup E
  BY <1>1, <1>2, <1>3 DEF Agrees
<1>4. ASSUME NEW r \in Requests \ (S \cup D),
             m = n + 1, T \subseteq S \cup {r}, S \cup D \cup {r} \subseteq T \cup E
      PROVE  Agrees(m, T, E)
  <2>1. /\ Cardinality(S \cup {r}) = Cardinality(S) + 1
        /\ Cardinality(S \cup D \cup {r}) = Cardinality(S \cup D) + 1
    BY <1>1, FS_AddElement
  <2>2. Cardinality(T) <= Cardinality(S \cup {r})
    BY <1>1, <1>4
  <2>3. Cardinality(S \cup D \cup {r}) <= Cardinality(T \cup E)
    BY <1>1, <1>4
  <2> QED
    BY <1>1, <1>2, <1>4, <2>1, <2>2, <2>3 DEF Agrees
<1>5. ASSUME NEW r \in S \ D, m = n - 1, T = S \ {r}, (S \cup D) \ {r} \subseteq T \cup E
      PROVE  Agrees(m, T, E)
  <2>1. /\ Cardinality(S \ {r}) = Cardinality(S) - 1
        /\ Cardinality((S \cup D) \ {r}) = Cardinality(S \cup D) - 1
    BY <1>1, FS_RemoveElement
  <2>2. Cardinality((S \cup D) \ {r}) <= Cardinality(T \cup E)
    BY <1>1, <1>5
  <2> QED
    BY <1>1, <1>2, <1>5, <2>1, <2>2 DEF Agrees
<1> QED
  BY <1>3, <1>4, <1>5 DEF Recount

\* The form of the ledgers of Gateway.
LEMMA AgreesForm ==
    ASSUME NEW n, NEW S \in SUBSET Requests, NEW D \in SUBSET Requests, S \cap D = {}
    PROVE  Agrees(n, S, D) <=> n \in Count(S) .. Count(S) + Count(D)
<1>1. IsFiniteSet(S) /\ IsFiniteSet(D) /\ Cardinality(S) \in Nat /\ Cardinality(D) \in Nat
  BY RequestSet
<1>2. Cardinality(S \cup D) = Cardinality(S) + Cardinality(D)
  BY <1>1, FS_Union, FS_EmptySet
<1> QED
  BY <1>1, <1>2 DEF Agrees, Count

-----------------------------------------------------------------------------
(***************************************************************************)
(* The five counters.                                                      *)
(***************************************************************************)

DeadAll == {r \in Requests : pc[r] \in {"failed", "lost"}}
Late(x) == {r \in Answered(x, "ADMIT") : ~met[r]}

Counts ==
    /\ Agrees(depth, Queued, DeadAll)
    /\ \A x \in Tenants :
          /\ Agrees(conc[x], InFlight(x), Dead(x))
          /\ Agrees(rejected[x], Answered(x, "REJECT"), Dead(x))
          /\ Agrees(admitted[x], Charged(x), Dead(x))
          /\ Agrees(violations[x], Late(x), Dead(x))

RecountDepth == Recount(depth, Queued, DeadAll, depth', Queued', DeadAll')
RecountConc(x) ==
    Recount(conc[x], InFlight(x), Dead(x), conc'[x], InFlight(x)', Dead(x)')
RecountRejected(x) ==
    Recount(rejected[x], Answered(x, "REJECT"), Dead(x),
            rejected'[x], Answered(x, "REJECT")', Dead(x)')
RecountAdmitted(x) ==
    Recount(admitted[x], Charged(x), Dead(x), admitted'[x], Charged(x)', Dead(x)')
RecountViolations(x) ==
    Recount(violations[x], Late(x), Dead(x), violations'[x], Late(x)', Dead(x)')

LEMMA DepthStep ==
    ASSUME LocalInv, NEW r \in Requests, Step(r) \/ CallFails(r) \/ Wake(r)
    PROVE  RecountDepth
<1> USE DEF LocalInv, Locals, TypeOK, Goto, Raise, RecountDepth, Recount, Queued, DeadAll
<1>1. CASE Wake(r)
  BY <1>1 DEF Wake
<1>2. CASE Poll(r)
  BY <1>2 DEF Poll, Return
<1>3. CASE Enqueue(r)
  BY <1>3 DEF Enqueue
<1>4. CASE LeaveQueue(r)
  BY <1>4 DEF LeaveQueue
<1>5. CASE RecordReject(r) \/ RecordAdmit(r) \/ StreamEnd(r) \/ Release(r) \/ Account(r)
  BY <1>5 DEF RecordReject, RecordAdmit, StreamEnd, Release, Account
<1>6. CASE EnqueueFails(r)
  BY <1>6 DEF EnqueueFails
<1>7. CASE LeaveQueueFails(r)
  BY <1>7 DEF LeaveQueueFails
<1>8. CASE PollFails(r) \/ RecordRejectFails(r) \/ RecordAdmitFails(r)
             \/ ReleaseFails(r) \/ AccountFails(r)
  BY <1>8 DEF PollFails, RecordRejectFails, RecordAdmitFails, ReleaseFails, AccountFails
<1> QED
  BY <1>1, <1>2, <1>3, <1>4, <1>5, <1>6, <1>7, <1>8 DEF Step, CallFails

LEMMA ConcStep ==
    ASSUME LocalInv, NEW r \in Requests, Step(r) \/ CallFails(r) \/ Wake(r),
           NEW x \in Tenants
    PROVE  RecountConc(x)
<1> USE RequestType
    DEF LocalInv, Locals, TypeOK, Goto, Raise, RecountConc, Recount, InFlight, Dead
<1>1. CASE Wake(r)
  BY <1>1 DEF Wake
<1>2. CASE Poll(r) \/ Enqueue(r)
  BY <1>2 DEF Poll, Return, Enqueue
<1>3. CASE LeaveQueue(r) \/ RecordReject(r) \/ StreamEnd(r) \/ Account(r)
  BY <1>3 DEF LeaveQueue, RecordReject, StreamEnd, Account
<1>4. CASE RecordAdmit(r)
  BY <1>4 DEF RecordAdmit, Charge
<1>5. CASE Release(r)
  BY <1>5 DEF Release
<1>6. CASE RecordAdmitFails(r)
  BY <1>6 DEF RecordAdmitFails, Charge
<1>7. CASE ReleaseFails(r)
  BY <1>7 DEF ReleaseFails
<1>8. CASE PollFails(r) \/ EnqueueFails(r) \/ LeaveQueueFails(r)
             \/ RecordRejectFails(r) \/ AccountFails(r)
  BY <1>8 DEF PollFails, EnqueueFails, LeaveQueueFails, RecordRejectFails, AccountFails
<1> QED
  BY <1>1, <1>2, <1>3, <1>4, <1>5, <1>6, <1>7, <1>8 DEF Step, CallFails

LEMMA RejectedStep ==
    ASSUME LocalInv, NEW r \in Requests, Step(r) \/ CallFails(r) \/ Wake(r),
           NEW x \in Tenants
    PROVE  RecountRejected(x)
<1> USE RequestType
    DEF LocalInv, Locals, TypeOK, Goto, Raise, RecountRejected, Recount, Answered, Dead
<1>1. CASE Wake(r)
  BY <1>1 DEF Wake, totals
<1>2. CASE Poll(r) \/ Enqueue(r)
  BY <1>2 DEF Poll, Return, Enqueue, totals
<1>3. CASE LeaveQueue(r) \/ RecordAdmit(r) \/ StreamEnd(r) \/ Release(r)
  BY <1>3 DEF LeaveQueue, RecordAdmit, StreamEnd, Release, totals
<1>4. CASE Account(r)
  BY <1>4 DEF Account
<1>5. CASE RecordReject(r)
  BY <1>5 DEF RecordReject
<1>6. CASE RecordRejectFails(r)
  BY <1>6 DEF RecordRejectFails
<1>7. CASE PollFails(r) \/ EnqueueFails(r) \/ LeaveQueueFails(r)
             \/ RecordAdmitFails(r) \/ ReleaseFails(r) \/ AccountFails(r)
  BY <1>7 DEF PollFails, EnqueueFails, LeaveQueueFails, RecordAdmitFails,
     ReleaseFails, AccountFails, totals
<1> QED
  BY <1>1, <1>2, <1>3, <1>4, <1>5, <1>6, <1>7 DEF Step, CallFails

LEMMA AdmittedStep ==
    ASSUME LocalInv, NEW r \in Requests, Step(r) \/ CallFails(r) \/ Wake(r),
           NEW x \in Tenants
    PROVE  RecountAdmitted(x)
<1> USE RequestType
    DEF LocalInv, Locals, TypeOK, Goto, Raise, RecountAdmitted, Recount, Charged,
        Answered, InFlight, Dead
<1>1. CASE Wake(r)
  BY <1>1 DEF Wake, totals
<1>2. CASE Poll(r) \/ Enqueue(r)
  BY <1>2 DEF Poll, Return, Enqueue, totals
<1>3. CASE LeaveQueue(r) \/ RecordReject(r)
  BY <1>3 DEF LeaveQueue, RecordReject, totals
<1>4. CASE StreamEnd(r) \/ Release(r) \/ Account(r)
  BY <1>4 DEF StreamEnd, Release, Account, totals
<1>5. CASE RecordAdmit(r)
  BY <1>5 DEF RecordAdmit, Charge
<1>6. CASE RecordAdmitFails(r)
  BY <1>6 DEF RecordAdmitFails, Charge
<1>7. CASE PollFails(r) \/ EnqueueFails(r) \/ LeaveQueueFails(r)
  BY <1>7 DEF PollFails, EnqueueFails, LeaveQueueFails, totals
<1>8. CASE RecordRejectFails(r) \/ ReleaseFails(r) \/ AccountFails(r)
  BY <1>8 DEF RecordRejectFails, ReleaseFails, AccountFails, totals
<1> QED
  BY <1>1, <1>2, <1>3, <1>4, <1>5, <1>6, <1>7, <1>8 DEF Step, CallFails

LEMMA ViolationsStep ==
    ASSUME LocalInv, NEW r \in Requests, Step(r) \/ CallFails(r) \/ Wake(r),
           NEW x \in Tenants
    PROVE  RecountViolations(x)
<1> USE RequestType
    DEF LocalInv, Locals, TypeOK, Goto, Raise, RecountViolations, Recount, Late,
        Answered, Dead
<1>1. CASE Wake(r)
  BY <1>1 DEF Wake, totals
<1>2. CASE Poll(r) \/ Enqueue(r)
  BY <1>2 DEF Poll, Return, Enqueue, totals
<1>3. CASE LeaveQueue(r) \/ RecordReject(r)
  BY <1>3 DEF LeaveQueue, RecordReject, totals
<1>4. CASE StreamEnd(r) \/ Release(r) \/ RecordAdmit(r)
  BY <1>4 DEF StreamEnd, Release, RecordAdmit, totals
<1>5. CASE Account(r)
  BY <1>5 DEF Account
<1>6. CASE AccountFails(r)
  BY <1>6 DEF AccountFails
<1>7. CASE PollFails(r) \/ EnqueueFails(r) \/ LeaveQueueFails(r)
  BY <1>7 DEF PollFails, EnqueueFails, LeaveQueueFails, totals
<1>8. CASE RecordRejectFails(r) \/ RecordAdmitFails(r) \/ ReleaseFails(r)
  BY <1>8 DEF RecordRejectFails, RecordAdmitFails, ReleaseFails, totals
<1> QED
  BY <1>1, <1>2, <1>3, <1>4, <1>5, <1>6, <1>7, <1>8 DEF Step, CallFails

RecountAll ==
    /\ RecountDepth
    /\ \A x \in Tenants : /\ RecountConc(x) /\ RecountRejected(x)
                          /\ RecountAdmitted(x) /\ RecountViolations(x)

LEMMA RecountKeeps == LocalInv /\ Counts /\ RecountAll => Counts'
<1> SUFFICES ASSUME LocalInv, Counts, RecountAll PROVE Counts'
  OBVIOUS
<1> DEFINE Sets == SUBSET Requests
<1>1. /\ Queued \in Sets /\ DeadAll \in Sets /\ Queued' \in Sets /\ DeadAll' \in Sets
      /\ \A x \in Tenants :
            /\ InFlight(x) \in Sets /\ InFlight(x)' \in Sets
            /\ Dead(x) \in Sets /\ Dead(x)' \in Sets
            /\ Answered(x, "REJECT") \in Sets /\ Answered(x, "REJECT")' \in Sets
            /\ Charged(x) \in Sets /\ Charged(x)' \in Sets
            /\ Late(x) \in Sets /\ Late(x)' \in Sets
  BY DEF Queued, DeadAll, InFlight, Dead, Answered, Charged, Late
<1>2. Agrees(depth', Queued', DeadAll')
  BY <1>1, RecountAgrees DEF Counts, RecountAll, RecountDepth
<1>3. ASSUME NEW x \in Tenants PROVE Agrees(conc'[x], InFlight(x)', Dead(x)')
  BY <1>1, RecountAgrees DEF Counts, RecountAll, RecountConc
<1>4. ASSUME NEW x \in Tenants PROVE Agrees(rejected'[x], Answered(x, "REJECT")', Dead(x)')
  BY <1>1, RecountAgrees DEF Counts, RecountAll, RecountRejected
<1>5. ASSUME NEW x \in Tenants PROVE Agrees(admitted'[x], Charged(x)', Dead(x)')
  BY <1>1, RecountAgrees DEF Counts, RecountAll, RecountAdmitted
<1>6. ASSUME NEW x \in Tenants PROVE Agrees(violations'[x], Late(x)', Dead(x)')
  BY <1>1, RecountAgrees DEF Counts, RecountAll, RecountViolations
<1> QED
  BY <1>2, <1>3, <1>4, <1>5, <1>6 DEF Counts, Agrees

\* A key expires only when nobody holds what it counts.
LEMMA ExpiryKeeps ==
    ASSUME LocalInv, Counts, ExpireDepth \/ \E x \in Tenants : ExpireConcurrency(x)
    PROVE  Counts'
<1>1. ASSUME NEW P \in SUBSET Requests PROVE Agrees(0, {}, P)
  <2>1. Cardinality(P) \in Nat /\ Cardinality({}) = 0 /\ {} \cup P = P
    BY RequestSet, FS_EmptySet
  <2> QED
    BY <2>1 DEF Agrees
<1>2. UNCHANGED <<pc, queued, verdict, met>> /\ UNCHANGED totals
  BY DEF ExpireDepth, ExpireConcurrency, control
<1>3. /\ Queued' = Queued /\ DeadAll' = DeadAll
      /\ \A y \in Tenants :
            /\ InFlight(y)' = InFlight(y) /\ Dead(y)' = Dead(y) /\ Charged(y)' = Charged(y)
            /\ Answered(y, "REJECT")' = Answered(y, "REJECT") /\ Late(y)' = Late(y)
            /\ Dead(y) \in SUBSET Requests
  BY <1>2 DEF Queued, DeadAll, InFlight, Dead, Charged, Answered, Late
<1>4. /\ Agrees(depth', Queued, DeadAll)
      /\ \A y \in Tenants : Agrees(conc'[y], InFlight(y), Dead(y))
  <2>1. CASE ExpireDepth
    <3>1. depth' = 0 /\ Queued = {} /\ DeadAll \in SUBSET Requests /\ conc' = conc
      BY <2>1 DEF ExpireDepth, DeadAll
    <3> QED
      BY <3>1, <1>1 DEF Counts
  <2>2. ASSUME NEW x \in Tenants, ExpireConcurrency(x)
        PROVE  /\ Agrees(depth', Queued, DeadAll)
               /\ \A y \in Tenants : Agrees(conc'[y], InFlight(y), Dead(y))
    <3>1. /\ conc'[x] = 0 /\ InFlight(x) = {} /\ depth' = depth
          /\ \A y \in Tenants : y # x => conc'[y] = conc[y]
      BY <2>2 DEF ExpireConcurrency, LocalInv, TypeOK
    <3> QED
      BY <3>1, <1>1, <1>3 DEF Counts
  <2> QED
    BY <2>1, <2>2
<1> QED
  BY <1>2, <1>3, <1>4 DEF Counts, Agrees, totals

LEMMA CountsNext == LocalInv /\ Counts /\ [Next]_vars => Counts'
<1> SUFFICES ASSUME LocalInv, Counts, [Next]_vars PROVE Counts'
  OBVIOUS
<1>1. ASSUME NEW r \in Requests, Step(r) \/ CallFails(r) \/ Wake(r) PROVE RecountAll
  BY <1>1, DepthStep, ConcStep, RejectedStep, AdmittedStep, ViolationsStep DEF RecountAll
<1> USE DEF LocalInv, Locals, TypeOK, FinalPcs, control, totals, RecountAll, Recount,
    RecountDepth, RecountConc, RecountRejected, RecountAdmitted, RecountViolations,
    DeadAll, Queued, Dead, InFlight, Answered, Charged, Late
<1>2. ASSUME NEW r \in Requests, NEW t \in Tasks, Start(r, t) PROVE RecountAll
  BY <1>2 DEF Start, Goto
<1>3. ASSUME NEW t \in Tasks, Crash(t) PROVE RecountAll
  BY <1>3 DEF Crash
<1>4. CASE Tick \/ NewMinute \/ MoveBudget \/ UNCHANGED vars
  <2>1. RecountAll
    BY <1>4 DEF Tick, NewMinute, MoveBudget, vars
  <2> QED
    BY <2>1, RecountKeeps
<1> QED
  BY <1>1, <1>2, <1>3, <1>4, RecountKeeps, ExpiryKeeps DEF Next

LEMMA CountsInit == Init => Counts
<1> SUFFICES ASSUME Init PROVE Counts
  OBVIOUS
<1>1. \A x \in Tenants : /\ conc[x] = 0 /\ rejected[x] = 0 /\ admitted[x] = 0
                         /\ violations[x] = 0 /\ InFlight(x) = {} /\ Dead(x) = {}
                         /\ Charged(x) = {} /\ Late(x) = {} /\ Answered(x, "REJECT") = {}
  BY DEF Init, InFlight, Dead, Charged, Late, Answered
<1>2. depth = 0 /\ Queued = {} /\ DeadAll = {}
  BY DEF Init, Queued, DeadAll
<1>3. Agrees(0, {}, {})
  BY FS_EmptySet DEF Agrees
<1> QED
  BY <1>1, <1>2, <1>3 DEF Counts

-----------------------------------------------------------------------------
(***************************************************************************)
(* The ledgers.                                                            *)
(***************************************************************************)

LedgerInv == LocalInv /\ Counts

LEMMA LedgerAlways == Spec => []LedgerInv
<1>1. Init => LedgerInv
  BY LocalInit, CountsInit DEF LedgerInv
<1>2. LedgerInv /\ [Next]_vars => LedgerInv'
  BY LocalNext, CountsNext DEF LedgerInv
<1> QED
  BY <1>1, <1>2, PTL DEF Spec

\* For any number of tasks, requests and tenants, whatever calls fail and
\* tasks die: tenant:<id>:concurrency is at least the number of streams in
\* flight, and above it by at most one slot per request that died.
THEOREM ConcurrencyAgrees == Spec => []ConcurrencyLedger
<1>1. LedgerInv => ConcurrencyLedger
  <2> SUFFICES ASSUME LedgerInv, NEW x \in Tenants
               PROVE  conc[x] \in Count(InFlight(x)) .. Count(InFlight(x)) + Count(Dead(x))
    BY DEF ConcurrencyLedger
  <2>1. /\ InFlight(x) \in SUBSET Requests /\ Dead(x) \in SUBSET Requests
        /\ InFlight(x) \cap Dead(x) = {}
    BY DEF InFlight, Dead
  <2> QED
    BY <2>1, AgreesForm DEF LedgerInv, Counts
<1> QED
  BY <1>1, LedgerAlways, PTL

\* Likewise platform:queue_depth counts every request of the polling loop that
\* was counted in, once, and beyond them at most the requests that died.
THEOREM QueueAgrees == Spec => []QueueLedger
<1>1. LedgerInv => QueueLedger
  <2> SUFFICES ASSUME LedgerInv PROVE QueueLedger
    OBVIOUS
  <2>1. Queued \in SUBSET Requests /\ DeadAll \in SUBSET Requests
    BY DEF Queued, DeadAll
  <2>2. Queued \cap DeadAll = {}
    BY DEF LedgerInv, LocalInv, Locals, Queued, DeadAll
  <2>3. Agrees(depth, Queued, DeadAll)
    BY DEF LedgerInv, Counts
  <2>4. depth \in Count(Queued) .. Count(Queued) + Count(DeadAll)
    BY <2>1, <2>2, <2>3, AgreesForm
  <2> QED
    BY <2>4 DEF QueueLedger, DeadAll
<1> QED
  BY <1>1, LedgerAlways, PTL

\* Likewise each of admitted, rejected and slo_violations is the number of the
\* requests so answered, plus at most one for each request that died; and no
\* request answered after its objective passes for one that met it.
THEOREM OutcomesAgree == Spec => []OutcomeLedger
<1>1. LedgerInv => OutcomeLedger
  <2> SUFFICES ASSUME LedgerInv, NEW x \in Tenants
               PROVE  /\ rejected[x] \in Count(Answered(x, "REJECT")) ..
                              Count(Answered(x, "REJECT")) + Count(Dead(x))
                      /\ admitted[x] \in Count(Charged(x)) ..
                              Count(Charged(x)) + Count(Dead(x))
                      /\ violations[x] \in Count(Late(x)) ..
                              Count(Late(x)) + Count(Dead(x))
                      /\ \A r \in Answered(x, "ADMIT") :
                            met[r] => waited[r] * TickMs <= Slo[x]
    BY DEF OutcomeLedger, Late
  <2>1. /\ Dead(x) \in SUBSET Requests
        /\ Answered(x, "REJECT") \in SUBSET Requests /\ Charged(x) \in SUBSET Requests
        /\ Late(x) \in SUBSET Requests
        /\ Answered(x, "REJECT") \cap Dead(x) = {} /\ Charged(x) \cap Dead(x) = {}
        /\ Late(x) \cap Dead(x) = {}
    BY DEF InFlight, Dead, Answered, Charged, Late
  <2>2. /\ Agrees(rejected[x], Answered(x, "REJECT"), Dead(x))
        /\ Agrees(admitted[x], Charged(x), Dead(x))
        /\ Agrees(violations[x], Late(x), Dead(x))
    BY DEF LedgerInv, Counts
  <2>3. \A r \in Answered(x, "ADMIT") : met[r] => waited[r] * TickMs <= Slo[x]
    BY DEF LedgerInv, LocalInv, Locals, Answered
  <2> QED
    BY <2>1, <2>2, <2>3, AgreesForm
<1> QED
  BY <1>1, LedgerAlways, PTL

-----------------------------------------------------------------------------
(***************************************************************************)
(* The tasks are a pool of servers.                                        *)
(***************************************************************************)

\* What a step may do to the phase of one request.
Advance(p, q) ==
    \/ q = p
    \/ p = "waiting" /\ q \in {"serving", "refused", "dropped"}
    \/ p = "serving" /\ q \in {"served", "dropped"}

LEMMA CallAdvances ==
    ASSUME LocalInv, NEW r \in Requests, Step(r) \/ CallFails(r) \/ Wake(r)
    PROVE  /\ Advance(Phase(r), Phase(r)')
           /\ \A s \in Requests : s # r => Phase(s)' = Phase(s)
<1> USE DEF LocalInv, Locals, TypeOK, LoopPcs, FinalPcs, Undecided, Goto, Raise,
        Phase, Advance
<1>1. CASE Wake(r)
  BY <1>1 DEF Wake
<1>2. CASE Poll(r)
  BY <1>2 DEF Poll, Return
<1>3. CASE Enqueue(r)
  BY <1>3 DEF Enqueue
<1>4. CASE LeaveQueue(r)
  BY <1>4 DEF LeaveQueue
<1>5. CASE RecordReject(r) \/ RecordAdmit(r)
  BY <1>5 DEF RecordReject, RecordAdmit
<1>6. CASE StreamEnd(r) \/ Release(r) \/ Account(r)
  BY <1>6 DEF StreamEnd, Release, Account
<1>7. CASE PollFails(r)
  BY <1>7 DEF PollFails
<1>8. CASE EnqueueFails(r) \/ LeaveQueueFails(r)
  BY <1>8 DEF EnqueueFails, LeaveQueueFails
<1>9. CASE RecordRejectFails(r) \/ RecordAdmitFails(r)
  BY <1>9 DEF RecordRejectFails, RecordAdmitFails
<1>10. CASE ReleaseFails(r) \/ AccountFails(r)
  BY <1>10 DEF ReleaseFails, AccountFails
<1> QED
  BY <1>1, <1>2, <1>3, <1>4, <1>5, <1>6, <1>7, <1>8, <1>9, <1>10 DEF Step, CallFails

\* Requests being served are between two awaits, each on a task of its own.
LEMMA FewServing ==
    ASSUME LoopInv', LocalInv'
    PROVE  Cardinality({r \in Requests : Phase(r)' = "serving"}) <= Cardinality(Tasks)
<1> DEFINE P == {r \in Requests : Phase(r)' = "serving"}
<1>1. \A r \in P : OnLoop(r)'
  BY DEF LocalInv, Locals, TypeOK, Undecided, FinalPcs, LoopPcs, OnLoop, Phase
<1>2. \A r \in P : task'[r] \in Tasks
  BY <1>1 DEF LoopInv, Placed, OnLoop, LoopPcs
<1>3. \A r, s \in P : task'[r] = task'[s] => r = s
  BY <1>1 DEF LoopInv, LoopExclusive
<1>4. P \in SUBSET Requests
  OBVIOUS
<1> HIDE DEF P
<1>5. Cardinality(P) <= Cardinality(Tasks)
  BY <1>2, <1>3, <1>4, OnePerTask
<1> QED
  BY <1>5 DEF P

ServiceInv == LoopInv /\ LocalInv

\* The instance has a copy of Cardinality of its own.
LEMMA SameCardinality == \A S : Service!Cardinality(S) = Cardinality(S)
BY DEF Service!Cardinality, Cardinality

\* Whatever becomes of one request is a step of the pool.
LEMMA AdvanceServes ==
    ASSUME ServiceInv, ServiceInv', NEW s \in Requests,
           Advance(Phase(s), Phase(s)'),
           \A r \in Requests : r # s => Phase(r)' = Phase(r)
    PROVE  [Service!Next]_phases
<1> USE DEF phases
<1>1. phases' = [phases EXCEPT ![s] = Phase(s)']
  OBVIOUS
<1>2. CASE Phase(s)' = Phase(s)
  <2>1. phases' = phases
    BY <1>2
  <2> QED
    BY <2>1
<1>3. CASE Phase(s) = "waiting" /\ Phase(s)' = "serving"
  <2> DEFINE P == {r \in Requests : phases[r] = "serving"}
             Q == {r \in Requests : Phase(r)' = "serving"}
  <2>1. Q = P \cup {s} /\ s \notin P /\ P \in SUBSET Requests
    BY <1>3
  <2>2. Cardinality(Q) <= Cardinality(Tasks)
    BY FewServing DEF ServiceInv
  <2>3. Cardinality(Q) = Cardinality(P) + 1 /\ Cardinality(P) \in Nat
    <3> HIDE DEF P, Q
    <3> QED
      BY <2>1, RequestSet, FS_AddElement
  <2>4. Cardinality(P) < Cardinality(Tasks)
    <3> HIDE DEF P, Q
    <3> QED
      BY <2>2, <2>3, TaskCount
  <2>5. Service!Admit(s)
    BY <1>1, <1>3, <2>4, SameCardinality DEF Service!Admit, Service!Serving, Service!Become
  <2> QED
    BY <2>5 DEF Service!Next
<1>4. CASE Phase(s) = "serving" /\ Phase(s)' = "served"
  <2>1. Service!Serve(s)
    BY <1>1, <1>4 DEF Service!Serve, Service!Become
  <2> QED
    BY <2>1 DEF Service!Next
<1>5. CASE Phase(s) = "waiting" /\ Phase(s)' = "refused"
  <2>1. Service!Refuse(s)
    BY <1>1, <1>5 DEF Service!Refuse, Service!Become
  <2> QED
    BY <2>1 DEF Service!Next
<1>6. CASE Phase(s) \in {"waiting", "serving"} /\ Phase(s)' = "dropped"
  <2>1. Service!Drop({s})
    BY <1>1, <1>6 DEF Service!Drop
  <2> QED
    BY <2>1 DEF Service!Next
<1> QED
  BY <1>2, <1>3, <1>4, <1>5, <1>6 DEF Advance

LEMMA NextServes ==
    ASSUME ServiceInv, ServiceInv', [Next]_vars
    PROVE  [Service!Next]_phases
<1>1. ASSUME NEW r \in Requests, Step(r) \/ CallFails(r) \/ Wake(r)
      PROVE  [Service!Next]_phases
  BY <1>1, CallAdvances, AdvanceServes DEF ServiceInv
<1>2. ASSUME NEW t \in Tasks, Crash(t)
      PROVE  [Service!Next]_phases
  <2> DEFINE S == {r \in Requests : task[r] = t /\ pc[r] \notin FinalPcs}
  <2>1. \A r \in S : Phase(r) \in {"waiting", "serving"} /\ Phase(r)' = "dropped"
    BY <1>2 DEF Crash, Phase, FinalPcs
  <2>2. \A r \in Requests \ S : Phase(r)' = Phase(r)
    BY <1>2 DEF Crash, Phase
  <2>3. S \in SUBSET Requests
    OBVIOUS
  <2> HIDE DEF S
  <2>4. Service!Drop(S)
    BY <2>1, <2>2, <2>3 DEF Service!Drop, phases
  <2> QED
    BY <2>3, <2>4 DEF Service!Next
<1>3. ASSUME NEW r \in Requests, NEW t \in Tasks, Start(r, t)
      PROVE  UNCHANGED phases
  BY <1>3 DEF Start, Goto, Phase, phases, ServiceInv, LocalInv, TypeOK
<1>4. CASE Tick \/ NewMinute \/ MoveBudget \/ ExpireDepth \/ UNCHANGED vars
             \/ \E x \in Tenants : ExpireConcurrency(x)
  BY <1>4 DEF Tick, NewMinute, MoveBudget, ExpireDepth, ExpireConcurrency, vars,
     control, Phase, phases
<1> QED
  BY <1>1, <1>2, <1>3, <1>4 DEF Next

\* The gateway, with any number of tasks, requests and tenants and through any
\* failures, behaves like a pool of as many servers as tasks: no request is
\* served that is not admitted first, none beyond one per task at a time, and
\* no outcome, served, refused or dropped, is ever revised.
THEOREM ServesCallers == Spec => ImplementsService
<1>1. Init => ServiceInv
  BY QuotaInit, LocalInit DEF ServiceInv, QuotaInv
<1>2. ServiceInv /\ [Next]_vars => ServiceInv'
  BY LoopNext, LocalNext DEF ServiceInv
<1>3. Init => Service!Init
  BY DEF Init, Service!Init, Phase, phases
<1>4. ServiceInv /\ ServiceInv' /\ [Next]_vars
         => [Service!Next]_phases
  BY NextServes
<1> QED
  BY <1>1, <1>2, <1>3, <1>4, PTL DEF Spec, ImplementsService, Service!Spec

-----------------------------------------------------------------------------
(***************************************************************************)
(* What the platform is charged for its tenants.                           *)
(***************************************************************************)

\* The sum in the next state is that of the next values.
LEMMA ChargedUpwardNext ==
    ChargedUpward' <=> /\ platTpm' >= Total(tpm', Tenants)
                       /\ \A x \in Tenants : tpm'[x] >= rpm'[x]
BY DEF ChargedUpward, Total, MapThenSumSet, MapThenFoldSet

LEMMA ChargeUpward ==
    ASSUME TypeOK, ChargedUpward, NEW r \in Requests, NEW k \in 0 .. 5,
           Charge(TenantOf[r], Est[r], k)
    PROVE  ChargedUpward'
<1> DEFINE x == TenantOf[r]
           e == Est[r]
<1>0. x \in Tenants /\ e \in Nat /\ e >= 1 /\ IsFiniteSet(Tenants)
  BY RequestType, SystemAssumption
<1>1. tpm \in [Tenants -> Nat] /\ rpm \in [Tenants -> Nat] /\ platTpm \in Nat
  BY DEF TypeOK
<1>2. platTpm >= Total(tpm, Tenants)
  BY DEF ChargedUpward, Total
<1>3. \A y \in Tenants : tpm[y] >= rpm[y]
  BY DEF ChargedUpward
<1> HIDE DEF x, e
<1>4. /\ Total(tpm, Tenants) \in Nat
      /\ Total([tpm EXCEPT ![x] = @ + e], Tenants) = Total(tpm, Tenants) + e
  BY <1>0, <1>1, TotalGrows
<1>5. platTpm' >= Total(tpm', Tenants)
  <2>1. CASE k >= 2
    <3>1. tpm' = [tpm EXCEPT ![x] = @ + e] /\ platTpm' = platTpm + e
      BY <2>1 DEF Charge, x, e
    <3> QED
      BY <3>1, <1>0, <1>1, <1>2, <1>4
  <2>2. CASE k < 2
    <3>1. tpm' = tpm /\ platTpm' \in {platTpm, platTpm + e}
      BY <2>2, <1>1 DEF Charge, x, e
    <3> QED
      BY <3>1, <1>0, <1>1, <1>2, <1>4
  <2> QED
    BY <2>1, <2>2
<1>6. \A y \in Tenants : tpm'[y] >= rpm'[y]
  <2> SUFFICES ASSUME NEW y \in Tenants PROVE tpm'[y] >= rpm'[y]
    OBVIOUS
  <2>1. \/ tpm'[y] = tpm[y] /\ rpm'[y] = rpm[y]
        \/ tpm'[y] = tpm[y] + e /\ rpm'[y] \in {rpm[y], rpm[y] + 1}
    BY <1>0, <1>1 DEF Charge, x, e
  <2> QED
    BY <2>1, <1>0, <1>1, <1>3
<1> QED
  BY <1>5, <1>6, ChargedUpwardNext

\* For any number of tasks, requests and tenants, whatever pipeline is cut
\* short and whenever the minute turns: the platform is charged at least what
\* its tenants are together, and a tenant at least a token for each request
\* it is counted.
THEOREM NeverUndercharged == Spec => []ChargedUpward
<1>0. Total([x \in Tenants |-> 0], Tenants) = 0
  BY TotalZero, SystemAssumption
<1>1. Init => ChargedUpward
  BY <1>0 DEF Init, ChargedUpward, Total
<1>2. TypeOK /\ ChargedUpward /\ [Next]_vars => ChargedUpward'
  <2> SUFFICES ASSUME TypeOK, ChargedUpward, [Next]_vars PROVE ChargedUpward'
    OBVIOUS
  <2>1. ASSUME NEW r \in Requests, Charges(r) PROVE ChargedUpward'
    BY <2>1, ChargeUpward DEF Charges
  <2>2. CASE UNCHANGED window
    BY <2>2, ChargedUpwardNext DEF window, ChargedUpward, Total
  <2>3. CASE TurnsMinute
    BY <2>3, <1>0, ChargedUpwardNext DEF TurnsMinute
  <2> QED
    BY <2>1, <2>2, <2>3, NextEffect DEF Decides, Abandons
<1> QED
  BY <1>1, <1>2, TypeCorrect, PTL DEF Spec
=============================================================================
