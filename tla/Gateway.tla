------------------------------- MODULE Gateway -------------------------------
(***************************************************************************)
(* POST /v1/infer: several gateway tasks (Fargate containers) that admit,  *)
(* queue or reject requests against counters they share in Redis.          *)
(*                                                                         *)
(* infer() is a coroutine whose only await is the sleep of the polling     *)
(* loop in _admit(); its Redis calls and the Bedrock stream block.  So a   *)
(* task runs one request at a time, from the moment its handler starts or  *)
(* wakes until it sleeps or returns, and the interleaving is the one of    *)
(* the calls of different tasks on Redis.  Every action below is one such  *)
(* call with the local code up to the next one.                            *)
(*                                                                         *)
(* A call may fail (RedisError): it raises, the request is answered with a *)
(* 500 and, as the failure may come after the server executed the command, *)
(* its effect is there or not.  A task may crash and be replaced; what its *)
(* requests left in Redis stays.                                           *)
(*                                                                         *)
(* The counters of the current calendar minute are kept, older ones are    *)
(* never read again.  A pipeline (five short commands on one slot) is one  *)
(* step; one that fails applies a prefix.                                  *)
(***************************************************************************)
EXTENDS Integers, FiniteSets, FiniteSetsExt, AdmissionPolicy

CONSTANTS
    Tasks,        \* the gateway containers (desired_count of the ECS service)
    Requests,
    Tenants,
    TenantOf,     \* the tenant of each request
    Est,          \* estimated_tokens of each request
    MaxEst,       \* an upper bound of Est
    Tier, Weight, TpmLimit, RpmLimit, ConcLimit, Slo,   \* the tenants table
    WeightSum,    \* tenant_weight_sum
    PoliciesUsed, \* the values of ADMISSION_POLICY looked at
    Budgets,      \* the values platform_tpm_budget or C_hat may take
    BackendTtft,  \* estimated_backend_ttft_ms
    TickMs,       \* resolution of the waiting times, in milliseconds
    MaxFaults     \* bound on failed calls and crashes in one behaviour

NoTask == "none"

ASSUME SystemAssumption ==
    /\ IsFiniteSet(Tasks) /\ Tasks # {} /\ NoTask \notin Tasks
    /\ IsFiniteSet(Requests) /\ IsFiniteSet(Tenants)
    /\ TenantOf \in [Requests -> Tenants]
    /\ MaxEst \in Nat \ {0}
    /\ Est \in [Requests -> 1 .. MaxEst]
    /\ MaxFaults \in Nat

ASSUME LimitAssumption ==
    /\ Tier \in [Tenants -> {"P1", "P2", "P3"}]
    /\ Weight \in [Tenants -> Nat]
    /\ TpmLimit \in [Tenants -> Nat]
    /\ RpmLimit \in [Tenants -> Nat]
    /\ ConcLimit \in [Tenants -> Nat]
    /\ Slo \in [Tenants -> Nat]
    /\ WeightSum \in Nat
    /\ Budgets \subseteq Nat
    /\ BackendTtft \in Nat
    /\ TickMs \in Nat \ {0}
    \* token-bucket keeps its state in other keys (TokenBuckets)
    /\ PoliciesUsed \subseteq Policies \ {"token-bucket"}

VARIABLES
    pc,         \* where each request is
    task,       \* the task that handles it
    queued,     \* the local flag of _admit: this request is in queue_depth
    verdict,    \* what _admit returns
    waited,     \* ticks since arrival_ts, up to the decision
    met,        \* slo_met
    platTpm,    \* platform:tpm:<minute>
    tpm,        \* tenant:<id>:tpm:<minute>
    rpm,        \* tenant:<id>:rpm:<minute>
    conc,       \* tenant:<id>:concurrency
    admitted,   \* tenant:<id>:admitted
    rejected,   \* tenant:<id>:rejected
    violations, \* tenant:<id>:slo_violations
    depth,      \* platform:queue_depth
    budget,     \* platform_tpm_budget, or C_hat under adaptive-slo
    policy,     \* ADMISSION_POLICY of the deployment
    faults      \* failed calls and crashes so far

control == <<pc, task, queued, verdict, waited, met>>
window == <<platTpm, tpm, rpm>>
totals == <<admitted, rejected, violations>>
settings == <<budget, policy>>
vars == <<control, window, conc, totals, depth, settings, faults>>

\* The program points of infer() and _admit(), named for the next call.
LoopPcs == {"poll", "enqueue", "leave", "record", "stream", "release", "account"}
FinalPcs == {"done", "failed", "lost"}

Init ==
    /\ pc = [r \in Requests |-> "new"]
    /\ task = [r \in Requests |-> NoTask]
    /\ queued = [r \in Requests |-> FALSE]
    /\ verdict = [r \in Requests |-> "none"]
    /\ waited = [r \in Requests |-> 0]
    /\ met = [r \in Requests |-> FALSE]
    /\ platTpm = 0
    /\ tpm = [x \in Tenants |-> 0]
    /\ rpm = [x \in Tenants |-> 0]
    /\ conc = [x \in Tenants |-> 0]
    /\ admitted = [x \in Tenants |-> 0]
    /\ rejected = [x \in Tenants |-> 0]
    /\ violations = [x \in Tenants |-> 0]
    /\ depth = 0
    /\ budget \in Budgets
    /\ policy \in PoliciesUsed
    /\ faults = 0

-----------------------------------------------------------------------------
(***************************************************************************)
(* The event loop of a task.                                               *)
(***************************************************************************)

OnLoop(r) == pc[r] \in LoopPcs

\* Calls that would give the loop away.
LoopAlwaysFree(t) == TRUE

\* No request of task t is between two awaits.
LoopFree(t) == \A r \in Requests : OnLoop(r) => task[r] # t

Goto(r, next) == pc' = [pc EXCEPT ![r] = next]

\* The handler of a new request starts on some task: get_tenant, arrival_ts
\* and the way into _admit.  (An unknown tenant ends here with a 403.)
Start(r, t) ==
    /\ pc[r] = "new"
    /\ LoopFree(t)
    /\ Goto(r, "poll")
    /\ task' = [task EXCEPT ![r] = t]
    /\ UNCHANGED <<queued, verdict, waited, met, window, conc, totals, depth,
                   settings, faults>>

\* asyncio.sleep is over and the loop runs the request again.
Wake(r) ==
    /\ pc[r] = "asleep"
    /\ LoopFree(task[r])
    /\ Goto(r, "poll")
    /\ UNCHANGED <<task, queued, verdict, waited, met, window, conc, totals,
                   depth, settings, faults>>

-----------------------------------------------------------------------------
(***************************************************************************)
(* _admit: snapshot the counters and decide, until the decision is final.  *)
(***************************************************************************)

\* The RequestContext built from the counters as they are now.
Context(r) ==
    LET x == TenantOf[r]
    IN  [tier |-> Tier[x], weight |-> Weight[x], weightSum |-> WeightSum,
         est |-> Est[r], wait |-> waited[r] * TickMs, slo |-> Slo[x],
         backend |-> BackendTtft, tpmUsed |-> tpm[x], tpmLimit |-> TpmLimit[x],
         rpmUsed |-> rpm[x], rpmLimit |-> RpmLimit[x],
         conc |-> conc[x], maxConc |-> ConcLimit[x],
         platUsed |-> platTpm, budget |-> budget]

Decision(r) == Decide(policy, Context(r))

\* A timeout that never comes.
NeverExpired(r) == FALSE

\* wait_ms >= max_wait_ms
Expired(r) == waited[r] * TickMs >= Slo[TenantOf[r]]

\* _admit returns action, through its finally clause.
Return(r, action) ==
    /\ verdict' = [verdict EXCEPT ![r] = action]
    /\ Goto(r, IF queued[r] THEN "leave" ELSE "record")

\* A timeout that hands back the QUEUE it found.
PollReturnsQueue(r) ==
    /\ pc[r] = "poll"
    /\ \/ /\ Decision(r) \in {"ADMIT", "REJECT"} \/ Expired(r)
          /\ Return(r, Decision(r))
       \/ /\ Decision(r) = "QUEUE" /\ ~Expired(r)
          /\ Goto(r, IF queued[r] THEN "asleep" ELSE "enqueue")
          /\ UNCHANGED verdict
    /\ UNCHANGED <<task, queued, waited, met, window, conc, totals, depth,
                   settings, faults>>

\* One round of the polling loop.  ADMIT is honoured however long the request
\* has waited; only a QUEUE is turned into a rejection by the timeout.
Poll(r) ==
    /\ pc[r] = "poll"
    /\ \/ /\ Decision(r) = "ADMIT"
          /\ Return(r, "ADMIT")
       \/ /\ Decision(r) = "REJECT" \/ (Decision(r) = "QUEUE" /\ Expired(r))
          /\ Return(r, "REJECT")
       \/ /\ Decision(r) = "QUEUE" /\ ~Expired(r)
          /\ Goto(r, IF queued[r] THEN "asleep" ELSE "enqueue")
          /\ UNCHANGED verdict
    /\ UNCHANGED <<task, queued, waited, met, window, conc, totals, depth,
                   settings, faults>>

\* adjust_queue(1), then the sleep that frees the loop.
Enqueue(r) ==
    /\ pc[r] = "enqueue"
    /\ depth' = depth + 1
    /\ queued' = [queued EXCEPT ![r] = TRUE]
    /\ Goto(r, "asleep")
    /\ UNCHANGED <<task, verdict, waited, met, window, conc, totals, settings,
                   faults>>

\* A finally clause that forgets to count the request out.
LeaveQueueUncounted(r) ==
    /\ pc[r] = "leave"
    /\ queued' = [queued EXCEPT ![r] = FALSE]
    /\ Goto(r, IF verdict[r] = "error" THEN "failed" ELSE "record")
    /\ UNCHANGED <<task, verdict, waited, met, window, conc, totals, depth,
                   settings, faults>>

\* adjust_queue(-1) in the finally clause, whatever ended the loop.
LeaveQueue(r) ==
    /\ pc[r] = "leave"
    /\ depth' = depth - 1
    /\ queued' = [queued EXCEPT ![r] = FALSE]
    /\ Goto(r, IF verdict[r] = "error" THEN "failed" ELSE "record")
    /\ UNCHANGED <<task, verdict, waited, met, window, conc, totals, settings,
                   faults>>

-----------------------------------------------------------------------------
(***************************************************************************)
(* infer after the decision.                                               *)
(***************************************************************************)

RecordReject(r) ==
    /\ pc[r] = "record" /\ verdict[r] = "REJECT"
    /\ rejected' = [rejected EXCEPT ![TenantOf[r]] = @ + 1]
    /\ Goto(r, "done")
    /\ UNCHANGED <<task, queued, verdict, waited, met, window, conc, admitted,
                   violations, depth, settings, faults>>

\* The pipeline of record_admit with the tenant charged before the platform.
ChargeTenantFirst(x, e, k) ==
    /\ tpm' = [tpm EXCEPT ![x] = IF k >= 1 THEN @ + e ELSE @]
    /\ platTpm' = IF k >= 2 THEN platTpm + e ELSE platTpm
    /\ rpm' = [rpm EXCEPT ![x] = IF k >= 3 THEN @ + 1 ELSE @]
    /\ admitted' = [admitted EXCEPT ![x] = IF k >= 4 THEN @ + 1 ELSE @]
    /\ conc' = [conc EXCEPT ![x] = IF k >= 5 THEN @ + 1 ELSE @]

\* The first k of the five increments record_admit pipelines, in its order.
Charge(x, e, k) ==
    /\ platTpm' = IF k >= 1 THEN platTpm + e ELSE platTpm
    /\ tpm' = [tpm EXCEPT ![x] = IF k >= 2 THEN @ + e ELSE @]
    /\ rpm' = [rpm EXCEPT ![x] = IF k >= 3 THEN @ + 1 ELSE @]
    /\ admitted' = [admitted EXCEPT ![x] = IF k >= 4 THEN @ + 1 ELSE @]
    /\ conc' = [conc EXCEPT ![x] = IF k >= 5 THEN @ + 1 ELSE @]

RecordAdmit(r) ==
    /\ pc[r] = "record" /\ verdict[r] = "ADMIT"
    /\ Charge(TenantOf[r], Est[r], 5)
    /\ Goto(r, "stream")
    /\ UNCHANGED <<task, queued, verdict, waited, met, rejected, violations,
                   depth, settings, faults>>

\* An objective measured from the admission on.
StreamEndIgnoringQueue(r) ==
    /\ pc[r] = "stream"
    /\ \E ok \in BOOLEAN : met' = [met EXCEPT ![r] = ok]
    /\ Goto(r, "release")
    /\ UNCHANGED <<task, queued, verdict, waited, window, conc, totals, depth,
                   settings, faults>>

\* converse_stream returns (it raises nothing).  The objective is met when
\* the first token came, and early enough after the time spent queued.
StreamEnd(r) ==
    /\ pc[r] = "stream"
    /\ \E ok \in BOOLEAN :
          /\ ok => waited[r] * TickMs <= Slo[TenantOf[r]]
          /\ met' = [met EXCEPT ![r] = ok]
    /\ Goto(r, "release")
    /\ UNCHANGED <<task, queued, verdict, waited, window, conc, totals, depth,
                   settings, faults>>

\* release_concurrency in the finally clause around the stream.
Release(r) ==
    /\ pc[r] = "release"
    /\ conc' = [conc EXCEPT ![TenantOf[r]] = @ - 1]
    /\ Goto(r, "account")
    /\ UNCHANGED <<task, queued, verdict, waited, met, window, totals, depth,
                   settings, faults>>

\* record_slo_violation when the objective was missed, then the response.
Account(r) ==
    /\ pc[r] = "account"
    /\ violations' = [violations EXCEPT ![TenantOf[r]] =
                          IF met[r] THEN @ ELSE @ + 1]
    /\ Goto(r, "done")
    /\ UNCHANGED <<task, queued, verdict, waited, met, window, conc, admitted,
                   rejected, depth, settings, faults>>

-----------------------------------------------------------------------------
(***************************************************************************)
(* Failed calls: the exception leaves infer, the effect is there or not.   *)
(***************************************************************************)

Raise(r, next) ==
    /\ faults < MaxFaults
    /\ faults' = faults + 1
    /\ Goto(r, next)

\* snapshot (or current_budget) raises: the finally clause still runs.
PollFails(r) ==
    /\ pc[r] = "poll"
    /\ Raise(r, IF queued[r] THEN "leave" ELSE "failed")
    /\ verdict' = [verdict EXCEPT ![r] = "error"]
    /\ UNCHANGED <<task, queued, waited, met, window, conc, totals, depth, settings>>

\* adjust_queue(1) raises before queued is set: nobody will count it out.
EnqueueFails(r) ==
    /\ pc[r] = "enqueue"
    /\ Raise(r, "failed")
    /\ depth' \in {depth, depth + 1}
    /\ UNCHANGED <<task, queued, verdict, waited, met, window, conc, totals, settings>>

LeaveQueueFails(r) ==
    /\ pc[r] = "leave"
    /\ Raise(r, "failed")
    /\ depth' \in {depth, depth - 1}
    /\ queued' = [queued EXCEPT ![r] = FALSE]
    /\ UNCHANGED <<task, verdict, waited, met, window, conc, totals, settings>>

RecordRejectFails(r) ==
    /\ pc[r] = "record" /\ verdict[r] = "REJECT"
    /\ Raise(r, "failed")
    /\ \E n \in {0, 1} : rejected' = [rejected EXCEPT ![TenantOf[r]] = @ + n]
    /\ UNCHANGED <<task, queued, verdict, waited, met, window, conc, admitted,
                   violations, depth, settings>>

\* record_admit inside the try statement: a slot not taken is released.
RecordAdmitFailsReleased(r) ==
    /\ pc[r] = "record" /\ verdict[r] = "ADMIT"
    /\ Raise(r, "failed")
    /\ \E k \in 0 .. 4 :
          /\ platTpm' = IF k >= 1 THEN platTpm + Est[r] ELSE platTpm
          /\ tpm' = [tpm EXCEPT ![TenantOf[r]] = IF k >= 2 THEN @ + Est[r] ELSE @]
          /\ rpm' = [rpm EXCEPT ![TenantOf[r]] = IF k >= 3 THEN @ + 1 ELSE @]
          /\ admitted' = [admitted EXCEPT ![TenantOf[r]] = IF k >= 4 THEN @ + 1 ELSE @]
    /\ conc' = [conc EXCEPT ![TenantOf[r]] = @ - 1]
    /\ UNCHANGED <<task, queued, verdict, waited, met, rejected, violations,
                   depth, settings>>

\* record_admit raises outside the try statement: nothing releases the slot
\* it may have taken.
RecordAdmitFails(r) ==
    /\ pc[r] = "record" /\ verdict[r] = "ADMIT"
    /\ Raise(r, "failed")
    /\ \E k \in 0 .. 5 : Charge(TenantOf[r], Est[r], k)
    /\ UNCHANGED <<task, queued, verdict, waited, met, rejected, violations,
                   depth, settings>>

ReleaseFails(r) ==
    /\ pc[r] = "release"
    /\ Raise(r, "failed")
    /\ \E n \in {0, 1} : conc' = [conc EXCEPT ![TenantOf[r]] = @ - n]
    /\ UNCHANGED <<task, queued, verdict, waited, met, window, totals, depth, settings>>

AccountFails(r) ==
    /\ pc[r] = "account"
    /\ Raise(r, "failed")
    /\ \E n \in {0, 1} : violations' = [violations EXCEPT ![TenantOf[r]] =
                                            IF met[r] THEN @ ELSE @ + n]
    /\ UNCHANGED <<task, queued, verdict, waited, met, window, conc, admitted,
                   rejected, depth, settings>>

\* The container of t dies with all its requests, and is replaced.
Crash(t) ==
    /\ faults < MaxFaults
    /\ faults' = faults + 1
    /\ \E r \in Requests : task[r] = t /\ pc[r] \notin FinalPcs
    /\ pc' = [r \in Requests |->
                 IF task[r] = t /\ pc[r] \notin FinalPcs THEN "lost" ELSE pc[r]]
    /\ queued' = [r \in Requests |-> queued[r] /\ task[r] # t]
    /\ UNCHANGED <<task, verdict, waited, met, window, conc, totals, depth, settings>>

-----------------------------------------------------------------------------
(***************************************************************************)
(* Time, the adaptive budget, and the expiry of keys nobody touches.       *)
(***************************************************************************)

\* Past this many ticks the policies and the timeout no longer tell.
MaxTicks(r) == Slo[TenantOf[r]] \div TickMs + 1

Waiting(r) == pc[r] \in {"poll", "enqueue", "asleep"} /\ waited[r] < MaxTicks(r)

Tick ==
    /\ \E r \in Requests : Waiting(r)
    /\ waited' = [r \in Requests |-> IF Waiting(r) THEN waited[r] + 1 ELSE waited[r]]
    /\ UNCHANGED <<pc, task, queued, verdict, met, window, conc, totals, depth,
                   settings, faults>>

\* minute_window() gives a new label: the counters under it are absent.
NewMinute ==
    /\ platTpm > 0
    /\ platTpm' = 0
    /\ tpm' = [x \in Tenants |-> 0]
    /\ rpm' = [x \in Tenants |-> 0]
    /\ UNCHANGED <<control, conc, totals, depth, settings, faults>>

\* Some task's AIMD step moves C_hat (AdaptiveCapacity says how).
MoveBudget ==
    /\ policy = "adaptive-slo"
    /\ budget' \in Budgets \ {budget}
    /\ UNCHANGED <<policy, control, window, conc, totals, depth, faults>>

\* Requests of tenant x that hold a concurrency slot.
InFlight(x) == {r \in Requests : TenantOf[r] = x /\ pc[r] \in {"stream", "release"}}

Queued == {r \in Requests : queued[r]}

\* An hour without an admission or a release: far longer than any stream.
ExpireConcurrency(x) ==
    /\ InFlight(x) = {}
    /\ conc[x] > 0
    /\ conc' = [conc EXCEPT ![x] = 0]
    /\ UNCHANGED <<control, window, totals, depth, settings, faults>>

\* An hour without a queued request: far longer than any objective.
ExpireDepth ==
    /\ Queued = {}
    /\ depth > 0
    /\ depth' = 0
    /\ UNCHANGED <<control, window, conc, totals, settings, faults>>

-----------------------------------------------------------------------------
\* The calls of one request that go well.
Step(r) ==
    \/ Poll(r) \/ Enqueue(r) \/ LeaveQueue(r)
    \/ RecordReject(r) \/ RecordAdmit(r) \/ StreamEnd(r) \/ Release(r)
    \/ Account(r)

CallFails(r) ==
    \/ PollFails(r) \/ EnqueueFails(r) \/ LeaveQueueFails(r)
    \/ RecordRejectFails(r) \/ RecordAdmitFails(r) \/ ReleaseFails(r)
    \/ AccountFails(r)

Next ==
    \/ \E r \in Requests : Step(r) \/ CallFails(r) \/ Wake(r)
    \/ \E r \in Requests, t \in Tasks : Start(r, t)
    \/ \E t \in Tasks : Crash(t)
    \/ Tick \/ NewMinute \/ MoveBudget \/ ExpireDepth
    \/ \E x \in Tenants : ExpireConcurrency(x)

Spec == Init /\ [][Next]_vars

\* Redis and Bedrock answer or time out, and time passes.  asyncio runs ready
\* callbacks in the order they became ready: a request that is ready again
\* and again gets the loop, although others hold it in between.
Fairness ==
    /\ \A r \in Requests : /\ WF_vars(Step(r))
                           /\ SF_vars(Wake(r))
                           /\ SF_vars(\E t \in Tasks : Start(r, t))
    /\ WF_vars(Tick)

FairSpec == Spec /\ Fairness

-----------------------------------------------------------------------------
(***************************************************************************)
(* Properties.                                                             *)
(***************************************************************************)

TypeOK ==
    /\ pc \in [Requests -> {"new", "asleep"} \cup LoopPcs \cup FinalPcs]
    /\ task \in [Requests -> Tasks \cup {NoTask}]
    /\ queued \in [Requests -> BOOLEAN]
    /\ verdict \in [Requests -> {"none", "ADMIT", "REJECT", "error"}]
    /\ waited \in [Requests -> Nat]
    /\ met \in [Requests -> BOOLEAN]
    /\ platTpm \in Nat
    /\ tpm \in [Tenants -> Nat]
    /\ rpm \in [Tenants -> Nat]
    /\ conc \in [Tenants -> Int]
    /\ admitted \in [Tenants -> Nat]
    /\ rejected \in [Tenants -> Nat]
    /\ violations \in [Tenants -> Nat]
    /\ depth \in Int
    /\ budget \in Budgets
    /\ policy \in PoliciesUsed
    /\ faults \in Nat

Slack(n) == (n - 1) * MaxEst

\* The decision reads the counters and the charge comes in a later call, so
\* two tasks may both admit the last tokens of a quota.  As a task runs one
\* request at a time, a tenant exceeds its quota of the minute by at most one
\* estimate per other task, however many requests arrive, calls fail or
\* minutes pass.
QuotaOvershootBound ==
    policy \in QuotaPolicies =>
        \A x \in Tenants : tpm[x] <= TpmLimit[x] + Slack(Cardinality(Tasks))

\* The same race on the request counter of the rpm policy: at most one
\* request over the limit per other task.
RpmOvershootBound ==
    policy = "rpm" =>
        \A x \in Tenants : rpm[x] <= RpmLimit[x] + Cardinality(Tasks) - 1

\* The same race on the platform counter.  Under a fixed budget tpm stays
\* within one estimate per other task of it, and slo-aware stays within one
\* estimate per task of its hard ceiling of 1.1 budgets.
PlatformOvershootBound ==
    /\ policy = "tpm" => platTpm <= budget + Slack(Cardinality(Tasks))
    /\ policy = "slo-aware" =>
          platTpm * 10 < 11 * budget + 10 * Cardinality(Tasks) * MaxEst

\* Whatever calls fail half-way and whatever minute turns, what a tenant is
\* charged is charged to the platform too, and every counted request has its
\* tokens counted: record_admit may overcharge, never undercharge.
ChargedUpward ==
    /\ platTpm >= MapThenSumSet(LAMBDA x : tpm[x], Tenants)
    /\ \A x \in Tenants : tpm[x] >= rpm[x]

Count(S) == Cardinality(S)

Dead(x) == {r \in Requests : TenantOf[r] = x /\ pc[r] \in {"failed", "lost"}}

\* tenant:<id>:concurrency counts the streams in flight, never fewer (a slot
\* is not given twice), and more only by slots leaked by requests that died:
\* at most one each.  Neither a decision nor a failed call in between can
\* release a slot that was not taken.
ConcurrencyLedger ==
    \A x \in Tenants :
        conc[x] \in Count(InFlight(x)) .. Count(InFlight(x)) + Count(Dead(x))

\* platform:queue_depth counts the requests in the polling loop that were
\* counted in, and beyond them only what died there: each return, each
\* exception and each timeout counts its request out exactly once.
QueueLedger ==
    depth \in Count(Queued) ..
              Count(Queued) + Count({r \in Requests : pc[r] \in {"failed", "lost"}})

Answered(x, action) ==
    {r \in Requests : TenantOf[r] = x /\ pc[r] = "done" /\ verdict[r] = action}

Charged(x) ==
    Answered(x, "ADMIT") \cup InFlight(x)
        \cup {r \in Requests : TenantOf[r] = x /\ pc[r] = "account"}

\* The totals agree with what the callers were answered, up to one count for
\* each request that died: every answered request is in exactly one of
\* admitted and rejected, and one admitted after its objective had passed is
\* among the violations.
OutcomeLedger ==
    \A x \in Tenants :
        LET Within(counter, n) == counter \in n .. n + Count(Dead(x))
        IN  /\ Within(rejected[x], Count(Answered(x, "REJECT")))
            /\ Within(admitted[x], Count(Charged(x)))
            /\ Within(violations[x],
                      Count({r \in Answered(x, "ADMIT") : ~met[r]}))
            /\ \A r \in Answered(x, "ADMIT") :
                  met[r] => waited[r] * TickMs <= Slo[x]

\* Every request that reaches the gateway is answered or dies with its task:
\* nobody polls for ever, whatever the policy decides and the load does.
EveryRequestEnds == \A r \in Requests : <>(pc[r] \in FinalPcs)

\* The pool of servers the tasks form, each serving one admitted request at a
\* time (RequestService): the gateway implements it.
Phase(r) ==
    CASE pc[r] \in {"failed", "lost"} -> "dropped"
      [] pc[r] = "done" -> IF verdict[r] = "ADMIT" THEN "served" ELSE "refused"
      [] OTHER -> IF verdict[r] = "ADMIT" THEN "serving" ELSE "waiting"

phases == [r \in Requests |-> Phase(r)]

Service == INSTANCE RequestService
             WITH Capacity <- Cardinality(Tasks), phase <- phases

ImplementsService == Service!Spec
=============================================================================
