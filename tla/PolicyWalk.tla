----------------------------- MODULE PolicyWalk -----------------------------
(***************************************************************************)
(* One request that keeps being decided (the polling loop of _admit) while *)
(* the load around it changes.  Relates the decisions of a policy at       *)
(* neighbouring contexts: what waiting, foreign load and the tenant's own  *)
(* load may do to the outcome.                                             *)
(***************************************************************************)
EXTENDS AdmissionPolicy

CONSTANTS
    Budget,      \* platform budget C, in tokens per minute
    MaxUsed,     \* bound on the platform's tokens in the window
    TpmLimit,    \* the tenant's quota
    RpmLimit,
    MaxConc,
    Estimates,   \* the estimates a request may carry
    Slo,         \* ttft_slo_ms
    Backend,     \* estimated_backend_ttft_ms
    WaitStep,    \* a poll interval, in milliseconds
    Weight,
    WeightSum

ASSUME BoundsAssumption ==
    /\ {Budget, MaxUsed, TpmLimit, RpmLimit, MaxConc} \subseteq Nat
    /\ {Slo, Backend, WaitStep, Weight, WeightSum} \subseteq Nat
    /\ Estimates \subseteq Nat

VARIABLES policy, c

vars == <<policy, c>>

Init ==
    /\ policy \in Policies \ {"token-bucket"}
    /\ \E tier \in {"P1", "P2", "P3"}, e \in Estimates :
          c = [tier |-> tier, est |-> e, weight |-> Weight,
               weightSum |-> WeightSum, wait |-> 0, slo |-> Slo,
               backend |-> Backend, tpmUsed |-> 0, tpmLimit |-> TpmLimit,
               rpmUsed |-> 0, rpmLimit |-> RpmLimit, conc |-> 0,
               maxConc |-> MaxConc, platUsed |-> 0, budget |-> Budget]

\* The request stays queued for one more poll interval.
WaitOn ==
    /\ c.wait < Slo
    /\ c' = [c EXCEPT !.wait = @ + WaitStep]
    /\ UNCHANGED policy

\* Another tenant's request is charged.
ForeignLoad(e) ==
    /\ c.platUsed + e <= MaxUsed
    /\ c' = [c EXCEPT !.platUsed = @ + e]
    /\ UNCHANGED policy

\* Another request of the same tenant is charged (MaxConc in flight is all a
\* policy can tell apart, so the walk stops there).
OwnLoad(e) ==
    /\ c.platUsed + e <= MaxUsed
    /\ c.conc < MaxConc
    /\ c' = [c EXCEPT !.platUsed = @ + e, !.tpmUsed = @ + e,
                      !.rpmUsed = @ + 1, !.conc = @ + 1]
    /\ UNCHANGED policy

\* A stream of the same tenant ends.
OwnRelease ==
    /\ c.conc > 0
    /\ c' = [c EXCEPT !.conc = @ - 1]
    /\ UNCHANGED policy

NewMinute ==
    /\ c.platUsed > 0
    /\ c' = [c EXCEPT !.platUsed = 0, !.tpmUsed = 0, !.rpmUsed = 0]
    /\ UNCHANGED policy

Next ==
    \/ WaitOn
    \/ \E e \in Estimates : ForeignLoad(e) \/ OwnLoad(e)
    \/ OwnRelease
    \/ NewMinute

Spec == Init /\ [][Next]_vars

-----------------------------------------------------------------------------
\* Outcomes from worst to best for the caller.
Rank(action) == CASE action = "REJECT" -> 0
                  [] action = "QUEUE" -> 1
                  [] action = "ADMIT" -> 2

Outcome(p, ctx) == Rank(Decide(p, ctx))

\* Polling again with nothing changed but the time waited never turns an
\* admission into a delay or a delay into a rejection: the slack test of
\* slo-aware is the only use of wait_ms, and it must point this way for the
\* polling loop of _admit to make progress.
WaitedOnly == c' = [c EXCEPT !.wait = c'.wait]

PatienceHelps == [][WaitedOnly => Outcome(policy, c') >= Outcome(policy, c)]_vars

\* In every context a P1 request fares at least as well as the same request
\* sent as P2, and P2 as P3 (priority and slo-aware give tiers different
\* answers under pressure; the others must ignore them).
TierOrder ==
    LET As(tier) == Outcome(policy, [c EXCEPT !.tier = tier])
    IN  As("P1") >= As("P2") /\ As("P2") >= As("P3")

\* More load never helps the next request of a tenant, neither load of others
\* nor its own, with two exceptions.  The bands of slo-aware make one: a P2 or
\* P3 request queued below C is admitted once the platform is over C, while
\* its tenant is under its reserved share.  The other is that quota and
\* concurrency are looked at before the pressure: a request that would be shed
\* is queued instead once its own tenant is over its quota or has all its
\* streams in use.  ("rpm" rejects at its limit and never queues.)
Tightens ==
    \/ c'.platUsed <= c.platUsed
    \/ BelowReserved(c') /\ ~PressureBelow(c', 10, 10)
    \/ /\ c'.tpmUsed > c.tpmUsed
       /\ Decide(policy, c) = "REJECT" /\ Decide(policy, c') = "QUEUE"
       /\ c'.tpmUsed + c.est > c.tpmLimit \/ c'.conc = c.maxConc
    \/ Outcome(policy, c') <= Outcome(policy, c)

LoadOnlyTightens == [][Tightens]_vars
=============================================================================
