--------------------------- MODULE AdmissionPolicy ---------------------------
(***************************************************************************)
(* The admission policies of gateway/app/admission: pure functions from a  *)
(* RequestContext to one of ADMIT, QUEUE and REJECT.                       *)
(*                                                                         *)
(* A context c is a record with the numeric fields of RequestContext that  *)
(* a policy reads.  Times are in milliseconds, as in the code.  A quotient *)
(* of the code (pressure, reserved share) is compared by cross             *)
(* multiplication: on integers below 2^53 the binary64 quotient and the    *)
(* exact one fall on the same side of each of the thresholds used here.    *)
(* The reason strings of a Decision are left out; adaptive-slo differs     *)
(* from slo-aware in nothing else once the budget is in the context.       *)
(***************************************************************************)
EXTENDS Integers

Policies == {"none", "rpm", "tpm", "token-bucket", "priority", "slo-aware",
             "adaptive-slo"}

Actions == {"ADMIT", "QUEUE", "REJECT"}

\* The policies whose decide() starts from tenant_tpm_exceeded().
QuotaPolicies == {"tpm", "priority", "slo-aware", "adaptive-slo"}

\* slack_threshold_ms
SlackThreshold == 200

(***************************************************************************)
(* Derived quantities of RequestContext.                                   *)
(***************************************************************************)

\* A quota test that forgets the request being decided.
ExceededWithoutRequest(c) == c.tpmUsed > c.tpmLimit

TenantTpmExceeded(c) == c.tpmUsed + c.est > c.tpmLimit

\* platform_pressure < num / den.  Without a budget the pressure is 1.0.
PressureBelow(c, num, den) ==
    IF c.budget <= 0 THEN den < num ELSE c.platUsed * den < num * c.budget

\* The comparison the other way round.
SlackLeft(c) == c.slo - c.wait - c.backend >= SlackThreshold

\* remaining_slack_ms < slack_threshold_ms
SlackTight(c) == c.slo - c.wait - c.backend < SlackThreshold

\* tenant_tpm_used < reserved_tpm
BelowReserved(c) ==
    IF c.weightSum <= 0 THEN c.tpmUsed < 0
                        ELSE c.tpmUsed * c.weightSum < c.budget * c.weight

\* The concurrency test the wrong way round.
TenantIdle(c) == c.conc < c.maxConc

TenantBusy(c) == c.conc >= c.maxConc

(***************************************************************************)
(* One predicate per policy and outcome; what is neither admitted nor      *)
(* rejected is queued.                                                     *)
(***************************************************************************)

\* The limit taken as the last request to refuse.
RpmRejectsLate(c) == c.rpmUsed > c.rpmLimit

RpmRejects(c) == c.rpmUsed >= c.rpmLimit

\* The platform test without the request being decided.
TpmAdmitsWithoutRequest(c) ==
    /\ ~TenantTpmExceeded(c)
    /\ c.platUsed <= c.budget

TpmAdmits(c) ==
    /\ ~TenantTpmExceeded(c)
    /\ c.platUsed + c.est <= c.budget

TokenBucketAdmits(c) ==
    /\ c.tenantBucket >= c.est
    /\ c.platBucket >= c.est

\* Tier tests of the priority policy with P1 and P3 exchanged.
PriorityAdmitsP3(c) ==
    /\ ~TenantTpmExceeded(c)
    /\ PressureBelow(c, 95, 100) \/ c.tier = "P3"

PriorityAdmits(c) ==
    /\ ~TenantTpmExceeded(c)
    /\ PressureBelow(c, 95, 100) \/ c.tier = "P1"

PriorityRejects(c) ==
    /\ ~TenantTpmExceeded(c)
    /\ ~PressureBelow(c, 95, 100)
    /\ c.tier \notin {"P1", "P2"}

\* A reserved share that is served however full the platform is.
SloAdmitsPastCeiling(c) ==
    /\ ~TenantTpmExceeded(c)
    /\ ~TenantBusy(c)
    /\ \/ PressureBelow(c, 8, 10)
       \/ PressureBelow(c, 10, 10) /\ (c.tier = "P1" \/ SlackTight(c))
       \/ ~PressureBelow(c, 10, 10) /\ BelowReserved(c)

\* The four bands of slo-aware: free, contended, reserved share only, shed.
SloAdmits(c) ==
    /\ ~TenantTpmExceeded(c)
    /\ ~TenantBusy(c)
    /\ \/ PressureBelow(c, 8, 10)
       \/ PressureBelow(c, 10, 10) /\ (c.tier = "P1" \/ SlackTight(c))
       \/ /\ ~PressureBelow(c, 10, 10)
          /\ PressureBelow(c, 11, 10)
          /\ BelowReserved(c)

SloRejects(c) ==
    /\ ~TenantTpmExceeded(c)
    /\ ~TenantBusy(c)
    /\ ~PressureBelow(c, 11, 10)

Admits(policy, c) ==
    \/ policy = "none"
    \/ policy = "rpm" /\ ~RpmRejects(c)
    \/ policy = "tpm" /\ TpmAdmits(c)
    \/ policy = "token-bucket" /\ TokenBucketAdmits(c)
    \/ policy = "priority" /\ PriorityAdmits(c)
    \/ policy \in {"slo-aware", "adaptive-slo"} /\ SloAdmits(c)

Rejects(policy, c) ==
    \/ policy = "rpm" /\ RpmRejects(c)
    \/ policy = "priority" /\ PriorityRejects(c)
    \/ policy \in {"slo-aware", "adaptive-slo"} /\ SloRejects(c)

\* get_policy(policy).decide(c)
Decide(policy, c) ==
    IF Admits(policy, c) THEN "ADMIT"
    ELSE IF Rejects(policy, c) THEN "REJECT" ELSE "QUEUE"
=============================================================================
