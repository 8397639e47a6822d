----------------------------- MODULE ConverseQuota -----------------------------
(***************************************************************************)
(* POST /v1/converse: the production path, whose quota is one conditional  *)
(* update of a DynamoDB item per app and calendar minute (consume_quota).  *)
(*                                                                         *)
(* converse() is a plain function: requests run in the thread pools of all *)
(* tasks and share no memory, so each request is a process of its own and  *)
(* the tasks need not be told apart.  The update is atomic at the table.   *)
(* The SDK repeats a call whose answer it did not get, although the table  *)
(* may have applied it; Bedrock is called once the charge is known to be   *)
(* made, and a failed invocation gives nothing back.                       *)
(*                                                                         *)
(* An item is kept for good: its TTL ends minutes after the last request   *)
(* that names its minute, and no later one does.                           *)
(***************************************************************************)
EXTENDS Integers, FiniteSets

CONSTANTS
    Requests, Apps,
    AppOf,       \* the app a caller's principal maps to
    Permitted,   \* requests with a caller, a known app, an allowed model
    Est,         \* token_estimate of each request (maxTokens)
    MaxEst,      \* an upper bound of Est
    RpmLimit, TokenLimit,   \* of each app
    MaxMinute,   \* bound on the minutes of a behaviour
    MaxTries     \* attempts the SDK makes

Minutes == 0 .. MaxMinute

ASSUME AppAssumption ==
    /\ IsFiniteSet(Requests)
    /\ AppOf \in [Requests -> Apps]
    /\ Permitted \subseteq Requests
    /\ MaxEst \in Nat \ {0}
    /\ Est \in [Requests -> 1 .. MaxEst]
    /\ RpmLimit \in [Apps -> Nat]
    /\ TokenLimit \in [Apps -> Nat]
    /\ MaxMinute \in Nat /\ MaxTries \in Nat \ {0}

VARIABLES
    minute,         \* minute_window() as of now
    pc,             \* where each request is
    window,         \* the minute it charges
    tries,          \* attempts whose answer was lost
    requestCount,   \* request_count of each item; 0 when there is no item
    tokenCount      \* token_count

table == <<requestCount, tokenCount>>
vars == <<minute, pc, window, tries, table>>

Ended == {"denied", "refused", "served", "badGateway", "error", "died"}

Init ==
    /\ minute = 0
    /\ pc = [r \in Requests |-> "new"]
    /\ window = [r \in Requests |-> 0]
    /\ tries = [r \in Requests |-> 0]
    /\ requestCount = [m \in Minutes |-> [a \in Apps |-> 0]]
    /\ tokenCount = [m \in Minutes |-> [a \in Apps |-> 0]]

Goto(r, next) == pc' = [pc EXCEPT ![r] = next]

-----------------------------------------------------------------------------
\* 401, 403 or 400: before the quota is touched.
Deny(r) ==
    /\ pc[r] = "new" /\ r \notin Permitted
    /\ Goto(r, "denied")
    /\ UNCHANGED <<minute, window, tries, table>>

\* get_app_by_principal, assert_model_allowed, resolve_profile, and the label
\* of the minute, which the attempts of the update share.
Identify(r) ==
    /\ pc[r] = "new" /\ r \in Permitted
    /\ window' = [window EXCEPT ![r] = minute]
    /\ Goto(r, "consume")
    /\ UNCHANGED <<minute, tries, table>>

Item(counter, r) == counter[window[r]][AppOf[r]]

NoItem(r) == Item(requestCount, r) = 0

\* A condition that lets the request at the limit through.
HasRoomAtLimit(r) ==
    \/ NoItem(r)
    \/ /\ Item(requestCount, r) <= RpmLimit[AppOf[r]]
       /\ Item(tokenCount, r) < TokenLimit[AppOf[r]]

\* ConditionExpression: what is there must be below the limits; the estimate
\* of the request itself does not count, and a missing item always passes.
HasRoom(r) ==
    \/ NoItem(r)
    \/ /\ Item(requestCount, r) < RpmLimit[AppOf[r]]
       /\ Item(tokenCount, r) < TokenLimit[AppOf[r]]

\* UpdateExpression
Add(r) ==
    /\ requestCount' = [requestCount EXCEPT ![window[r]][AppOf[r]] = @ + 1]
    /\ tokenCount' = [tokenCount EXCEPT ![window[r]][AppOf[r]] = @ + Est[r]]

ConsumeOk(r) ==
    /\ pc[r] = "consume" /\ HasRoom(r)
    /\ Add(r)
    /\ Goto(r, "invoke")
    /\ UNCHANGED <<minute, window, tries>>

\* ConditionalCheckFailedException becomes a 429.
ConsumeRefused(r) ==
    /\ pc[r] = "consume" /\ ~HasRoom(r)
    /\ Goto(r, "refused")
    /\ UNCHANGED <<minute, window, tries, table>>

\* A lost answer taken for a granted one.
ConsumeLostTrusted(r) ==
    /\ pc[r] = "consume"
    /\ tries' = [tries EXCEPT ![r] = @ + 1]
    /\ (HasRoom(r) /\ Add(r)) \/ UNCHANGED table
    /\ Goto(r, IF tries[r] + 1 < MaxTries THEN "consume" ELSE "invoke")
    /\ UNCHANGED <<minute, window>>

\* Attempts without end.
ConsumeLostForever(r) ==
    /\ pc[r] = "consume"
    /\ (HasRoom(r) /\ Add(r) /\ NoItem(r)) \/ UNCHANGED table
    /\ tries' = [tries EXCEPT ![r] = 1 - @]
    /\ UNCHANGED <<minute, pc, window>>

\* Any error of the table taken for a failed condition.
ConsumeLostAs429(r) ==
    /\ pc[r] = "consume"
    /\ tries' = [tries EXCEPT ![r] = @ + 1]
    /\ (HasRoom(r) /\ Add(r)) \/ UNCHANGED table
    /\ Goto(r, IF tries[r] + 1 < MaxTries THEN "consume" ELSE "refused")
    /\ UNCHANGED <<minute, window>>

\* The answer is lost and the update applied or not.  The SDK tries again; after
\* the last attempt the exception leaves converse (a 500).
ConsumeLost(r) ==
    /\ pc[r] = "consume"
    /\ tries' = [tries EXCEPT ![r] = @ + 1]
    /\ (HasRoom(r) /\ Add(r)) \/ UNCHANGED table
    /\ Goto(r, IF tries[r] + 1 < MaxTries THEN "consume" ELSE "error")
    /\ UNCHANGED <<minute, window>>

\* bedrock.converse, emit_usage (which swallows its errors) and the answer.
Invoke(r) ==
    /\ pc[r] = "invoke"
    /\ \/ Goto(r, "served")
       \/ Goto(r, "badGateway")
    /\ UNCHANGED <<minute, window, tries, table>>

\* The task of a request is replaced.
Die(r) ==
    /\ pc[r] \notin Ended \cup {"new"}
    /\ Goto(r, "died")
    /\ UNCHANGED <<minute, window, tries, table>>

NewMinute ==
    /\ minute < MaxMinute
    /\ minute' = minute + 1
    /\ UNCHANGED <<pc, window, tries, table>>

Step(r) ==
    \/ Deny(r) \/ Identify(r)
    \/ ConsumeOk(r) \/ ConsumeRefused(r) \/ ConsumeLost(r)
    \/ Invoke(r)

Next == NewMinute \/ \E r \in Requests : Step(r) \/ Die(r)

Spec == Init /\ [][Next]_vars

\* A thread of the pool serves each request; calls answer or time out.
FairSpec == Spec /\ \A r \in Requests : WF_vars(Step(r))

-----------------------------------------------------------------------------
TypeOK ==
    /\ minute \in Minutes
    /\ pc \in [Requests -> {"new", "consume", "invoke"} \cup Ended]
    /\ window \in [Requests -> Minutes]
    /\ tries \in [Requests -> 0 .. MaxTries]
    /\ requestCount \in [Minutes -> [Apps -> Nat]]
    /\ tokenCount \in [Minutes -> [Apps -> Nat]]

AtLeastOne(n) == IF n = 0 THEN 1 ELSE n

\* However many requests and repeated attempts meet at the table, an app's
\* requests of a minute stay within rpm_limit, and its tokens exceed
\* token_limit by less than one estimate.  (The first request of a minute
\* passes whatever the limits are: a limit of 0 acts like 1.)  Unlike the
\* counters of the experiment path, the bound does not grow with the tasks.
QuotaHolds ==
    \A m \in Minutes, a \in Apps :
        /\ requestCount[m][a] <= AtLeastOne(RpmLimit[a])
        /\ tokenCount[m][a] < AtLeastOne(TokenLimit[a]) + MaxEst

Invoked(m, a) ==
    {r \in Requests : /\ AppOf[r] = a /\ window[r] = m
                      /\ pc[r] \in {"invoke", "served", "badGateway"}}

\* Bedrock is never called on credit: for every request that reached it the
\* app's item of that minute holds a charge of its own, whatever answers were
\* lost (an attempt repeated may charge twice, never not at all).
PaidBeforeInvoked ==
    \A m \in Minutes, a \in Apps :
        Cardinality(Invoked(m, a)) <= requestCount[m][a]

\* A 429 tells the truth: the app's minute is used up, and stays so.
RefusedOnlyWhenFull ==
    \A r \in Requests : pc[r] = "refused" => ~HasRoom(r)

\* Every request is answered, or dies with its task.
EveryCallEnds == \A r \in Requests : <>(pc[r] \in Ended)
=============================================================================
