------------------------------ MODULE TokenBuckets ------------------------------
(***************************************************************************)
(* The token-bucket policy: every tenant and the platform have a bucket in *)
(* Redis, refilled by the clock of whoever looks at it (_BUCKET_LUA).      *)
(*                                                                         *)
(* A turn is what a task does for one request between two awaits (a task   *)
(* runs one at a time, see Gateway): it looks at the two buckets with cost *)
(* 0, admits when both hold the estimate, and then charges both.  Each     *)
(* look and each charge is one pipeline of two EVALs, carrying a time that *)
(* the task sampled before: another task's call may overtake it with a     *)
(* later time.  What the script answers to a charge is not looked at.      *)
(*                                                                         *)
(* Time is counted in ticks of which a minute has PerMinute; tokens of a   *)
(* bucket are whole, the rate being its capacity per minute.               *)
(***************************************************************************)
EXTENDS Integers, FiniteSets

CONSTANTS
    Tasks, Tenants,
    Limit,        \* tpm_limit of each tenant
    Budget,       \* platform_tpm_budget
    Estimates,    \* the estimates a request may carry
    PerMinute,    \* ticks per minute
    MaxDelay,     \* bound on the ticks between a sample and its call
    MaxTime       \* bound on the clock

Platform == "platform"
None == -1
Buckets == Tenants \cup {Platform}

Cap == [b \in Buckets |-> IF b = Platform THEN Budget ELSE Limit[b]]
Rate == [b \in Buckets |-> Cap[b] \div PerMinute]

ASSUME BucketAssumption ==
    /\ Platform \notin Tenants
    /\ PerMinute \in Nat \ {0} /\ MaxTime \in Nat
    /\ MaxDelay \in 0 .. 2 * PerMinute
    /\ Limit \in [Tenants -> Nat \ {0}] /\ Budget \in Nat \ {0}
    /\ \A b \in Buckets : Rate[b] * PerMinute = Cap[b]
    /\ \A e \in Estimates : e \in Nat /\ e > 0

VARIABLES
    clock,
    tokens, ts,   \* the two fields of each bucket; ts is None when it is absent
    used,         \* when Redis last ran the script on it, for its expiry
    pc,           \* where each task is in its turn
    tenant, est,  \* the request of the turn
    at,           \* the time the task sampled for its call
    since,        \* history: a moment, and what charges took from each
    paid          \*   bucket from then on

bucket == <<tokens, ts, used>>
request == <<tenant, est>>
history == <<since, paid>>
vars == <<clock, bucket, pc, request, at, history>>

Init ==
    /\ clock = 0
    /\ tokens = [b \in Buckets |-> 0]
    /\ ts = [b \in Buckets |-> None]
    /\ used = [b \in Buckets |-> 0]
    /\ pc = [t \in Tasks |-> "idle"]
    /\ tenant \in [Tasks -> Tenants]
    /\ est \in [Tasks -> Estimates]
    /\ at = [t \in Tasks |-> 0]
    /\ since = 0
    /\ paid = [b \in Buckets |-> 0]

Goto(t, next) == pc' = [pc EXCEPT ![t] = next]

\* The turn is over, and with it the time it sampled.
Done(t) ==
    /\ Goto(t, "idle")
    /\ at' = [at EXCEPT ![t] = 0]

-----------------------------------------------------------------------------
(***************************************************************************)
(* _BUCKET_LUA, executed on the buckets of S with the same time and cost.  *)
(***************************************************************************)

\* A refill without the ceiling.
RefilledUncapped(b, now) ==
    IF ts[b] = None THEN Cap[b] ELSE tokens[b] + (now - ts[b]) * Rate[b]

\* tokens at the time now; an absent bucket is full.
Refilled(b, now) ==
    IF ts[b] = None THEN Cap[b]
    ELSE LET n == tokens[b] + (now - ts[b]) * Rate[b]
         IN  IF n < Cap[b] THEN n ELSE Cap[b]

\* The cost is taken (otherwise the script answers -1).
Covers(b, now, cost) == cost <= Refilled(b, now)

\* The time of the later call kept when an earlier one comes in.
EvalKeepingTime(S, now, cost) ==
    /\ tokens' = [b \in Buckets |->
                     IF b \notin S THEN tokens[b]
                     ELSE IF cost > 0 /\ Covers(b, now, cost)
                          THEN Refilled(b, now) - cost ELSE Refilled(b, now)]
    /\ ts' = [b \in Buckets |->
                 IF b \in S /\ ts[b] < now THEN now ELSE ts[b]]
    /\ used' = [b \in Buckets |-> IF b \in S THEN clock ELSE used[b]]

\* Both fields are written, and the expiry renewed, whether or not the cost
\* was taken.
Eval(S, now, cost) ==
    /\ tokens' = [b \in Buckets |->
                     IF b \notin S THEN tokens[b]
                     ELSE IF cost > 0 /\ Covers(b, now, cost)
                          THEN Refilled(b, now) - cost ELSE Refilled(b, now)]
    /\ ts' = [b \in Buckets |-> IF b \in S THEN now ELSE ts[b]]
    /\ used' = [b \in Buckets |-> IF b \in S THEN clock ELSE used[b]]

Both(t) == {tenant[t], Platform}

\* What a pipeline that failed may have executed, in its order.
Prefixes(t) == {{}, {tenant[t]}, Both(t)}

-----------------------------------------------------------------------------
(***************************************************************************)
(* A turn of a task.                                                       *)
(***************************************************************************)

\* A request arrives, or wakes to poll again, and the clock is sampled.
Turn(t, x, e) ==
    /\ pc[t] = "idle"
    /\ tenant' = [tenant EXCEPT ![t] = x]
    /\ est' = [est EXCEPT ![t] = e]
    /\ at' = [at EXCEPT ![t] = clock]
    /\ Goto(t, "look")
    /\ UNCHANGED <<clock, bucket, history>>

\* snapshot with buckets, and the decision of the policy.
Look(t) ==
    /\ pc[t] = "look"
    /\ Eval(Both(t), at[t], 0)
    /\ IF \A b \in Both(t) : est[t] <= Refilled(b, at[t])
       THEN Goto(t, "admit") /\ UNCHANGED at
       ELSE Done(t)
    /\ UNCHANGED <<clock, request, history>>

\* record_admit up to its second sample of the clock.
Admit(t) ==
    /\ pc[t] = "admit"
    /\ at' = [at EXCEPT ![t] = clock]
    /\ Goto(t, "charge")
    /\ UNCHANGED <<clock, bucket, request, history>>

\* Of the buckets of S, those a charge takes its cost from.
Taken(S, now, cost) == {b \in S : Covers(b, now, cost)}

Plus(counter, S, n) == [b \in Buckets |-> counter[b] + IF b \in S THEN n ELSE 0]

\* The charge; whatever it answered, the request is streamed.
Charge(t) ==
    /\ pc[t] = "charge"
    /\ Eval(Both(t), at[t], est[t])
    /\ paid' = Plus(paid, Taken(Both(t), at[t], est[t]), est[t])
    /\ Done(t)
    /\ UNCHANGED <<clock, request, since>>

\* A call fails, or the task dies: the request is answered with an error or
\* not at all, and a part of the pipeline was executed.
Fail(t) ==
    /\ pc[t] # "idle"
    /\ \E S \in Prefixes(t) :
          \/ /\ pc[t] = "look"
             /\ Eval(S, at[t], 0)
             /\ UNCHANGED paid
          \/ /\ pc[t] = "charge"
             /\ Eval(S, at[t], est[t])
             /\ paid' = Plus(paid, Taken(S, at[t], est[t]), est[t])
          \/ /\ pc[t] = "admit" /\ S = {}
             /\ UNCHANGED <<bucket, paid>>
    /\ Done(t)
    /\ UNCHANGED <<clock, request, since>>

\* A task between its sample of the clock and the call that carries it.
Calling(t) == pc[t] \in {"look", "charge"}

Tick ==
    /\ clock < MaxTime
    /\ \A t \in Tasks : Calling(t) => clock < at[t] + MaxDelay
    /\ clock' = clock + 1
    /\ UNCHANGED <<bucket, pc, request, at, history>>

\* Three minutes after its last use a bucket expires.
Expire(b) ==
    /\ ts[b] # None
    /\ clock >= used[b] + 3 * PerMinute
    /\ tokens' = [tokens EXCEPT ![b] = 0]
    /\ ts' = [ts EXCEPT ![b] = None]
    /\ used' = [used EXCEPT ![b] = 0]
    /\ UNCHANGED <<clock, pc, request, at, history>>

\* The counting starts anew, once and at any time.
Watch ==
    /\ since = 0 /\ clock > 0
    /\ since' = clock
    /\ paid' = [b \in Buckets |-> 0]
    /\ UNCHANGED <<clock, bucket, pc, request, at>>

Next ==
    \/ \E t \in Tasks :
          \/ \E x \in Tenants, e \in Estimates : Turn(t, x, e)
          \/ Look(t) \/ Admit(t) \/ Charge(t) \/ Fail(t)
    \/ \E b \in Buckets : Expire(b)
    \/ Tick
    \/ Watch

Spec == Init /\ [][Next]_vars

-----------------------------------------------------------------------------
TypeOK ==
    /\ clock \in 0 .. MaxTime
    /\ tokens \in [Buckets -> Int]
    /\ \A b \in Buckets : tokens[b] <= Cap[b]
    /\ ts \in [Buckets -> (0 .. MaxTime) \cup {None}]
    /\ used \in [Buckets -> 0 .. MaxTime]
    /\ pc \in [Tasks -> {"idle", "look", "admit", "charge"}]
    /\ tenant \in [Tasks -> Tenants]
    /\ est \in [Tasks -> Estimates]
    /\ at \in [Tasks -> 0 .. MaxTime]
    /\ since \in 0 .. MaxTime
    /\ paid \in [Buckets -> Nat]

\* What a look would find in the bucket now.
Balance(b) == Refilled(b, clock)

\* From any moment on, charges take from a bucket what it can hold and what
\* flowed in since, and no more, but for what a call that is late may still
\* find there: calls that overtake each other, failed pipelines and buckets
\* that expire and are created full create no tokens.
PaidWithinRate ==
    \A b \in Buckets : paid[b] <= Cap[b] + (clock - since + MaxDelay) * Rate[b]

\* A late call may set a bucket back below zero for the time it carries, but
\* never in debt as of now: nothing was taken that was not there.
NeverOverdrawn == \A b \in Buckets : Balance(b) >= 0
=============================================================================
