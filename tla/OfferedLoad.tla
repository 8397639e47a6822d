------------------------------ MODULE OfferedLoad ------------------------------
(***************************************************************************)
(* What a scenario offers.  load_scenario multiplies the rates of all      *)
(* tenants by one factor, computed from the prompt it believes each of     *)
(* them to send; Locust chooses the prompts later, from the same file,     *)
(* lets the victim burst and keeps every tenant at a least rate.           *)
(*                                                                         *)
(* A scenario is [rpm, smokeRpm, forced, budget, phases, victim, bursts]:  *)
(* the two rates in the file, its prompt_class and platform_tpm_budget,    *)
(* its token phases, each [class, tokens, end], its victim and the burst   *)
(* phases, each [burst, end]; phases follow each other from 0, and what    *)
(* the file has none of is 0, "" or <<>>.  A profile is [rpm, class]; its  *)
(* rate is drawn between two bounds, here one of them.                     *)
(***************************************************************************)
EXTENDS Integers, Sequences, FiniteSets, FiniteSetsExt

CONSTANTS
    Tokens,         \* PROMPT_TOKENS: the tokens of each class of prompts
    TierRpm,        \* TIER_RPM
    TierPrompts,    \* TIER_PROMPTS
    Fleets,         \* the tenants' profiles, a function for each case
    Scenarios,
    LoadPcts,       \* load_pct, 100 where there is none
    Moments         \* the times of a request since the start of the test

TokenPhases == [class : DOMAIN Tokens, tokens : Nat, end : Nat]
BurstPhases == [burst : Nat \ {0}, end : Nat]

ASSUME LoadAssumption ==
    /\ Tokens \in [DOMAIN Tokens -> Nat \ {0}]
    /\ \A p \in Fleets : /\ IsFiniteSet(DOMAIN p) /\ DOMAIN p # {}
                        /\ Range(p) \subseteq [rpm : Nat \ {0}, class : DOMAIN Tokens]
    /\ Scenarios \subseteq
          [rpm : Nat, smokeRpm : Nat, forced : {""} \cup DOMAIN Tokens, budget : Nat,
           phases : Seq(TokenPhases), victim : Nat, bursts : Seq(BurstPhases)]
    /\ LoadPcts \subseteq Nat /\ Moments \subseteq Nat

BaseProfiles(tier) == [rpm : TierRpm[tier], class : TierPrompts[tier]]

Requests(profiles) == SumFunction([t \in DOMAIN profiles |-> profiles[t].rpm])

\* The prompt_class of the file, or the profile's own.
ClassOf(s, p) == IF s.forced # "" THEN s.forced ELSE p.class

OfferedTpm(s, profiles) ==
    SumFunction([t \in DOMAIN profiles |->
                    profiles[t].rpm * Tokens[ClassOf(s, profiles[t])]])

\* scale_to_budget: what the rates are multiplied by, <<over, under>>.  A target
\* of 0 leaves them as they are.
BudgetFactor(s, profiles, pct) ==
    IF s.budget * pct > 0 /\ OfferedTpm(s, profiles) > 0
    THEN <<s.budget * pct, 100 * OfferedTpm(s, profiles)>>
    ELSE <<1, 1>>

\* load_scenario; the rate of a smoke run is that of one tenant.
Factor(s, profiles, smoke, pct) ==
    CASE s.rpm # 0 -> <<s.rpm, Requests(profiles)>>
      [] s.rpm = 0 /\ smoke /\ s.smokeRpm # 0 ->
            <<s.smokeRpm * Cardinality(DOMAIN profiles), Requests(profiles)>>
      [] OTHER -> BudgetFactor(s, profiles, pct)

\* The phase that holds at a moment: the first that does, or else the last one.
Current(phases, elapsed) ==
    LET coming == {i \in DOMAIN phases : elapsed < phases[i].end}
    IN  phases[IF coming = {} THEN Len(phases) ELSE Min(coming)]

\* _prompt_phase
PromptPhase(s, elapsed) == Current(s.phases, elapsed)

\* Mutant: the tenant's own class first.
PromptClassOwn(s, p, elapsed) ==
    IF s.phases # <<>> THEN PromptPhase(s, elapsed).class ELSE p.class

PromptClass(s, p, elapsed) ==
    IF s.phases # <<>> THEN PromptPhase(s, elapsed).class ELSE ClassOf(s, p)

\* The tokens of a request.  The clock is read a second time for them, which
\* is taken here as the same moment.
PostedTokens(s, p, elapsed) ==
    IF s.phases # <<>> THEN PromptPhase(s, elapsed).tokens
    ELSE Tokens[PromptClass(s, p, elapsed)]

\* Mutant: everybody bursts.
BurstOfAll(s, t, elapsed) ==
    IF s.bursts # <<>> THEN Current(s.bursts, elapsed).burst ELSE 1

\* What the rate of tenant t is multiplied by at a moment.
BurstAt(s, t, elapsed) ==
    IF t = s.victim /\ s.bursts # <<>> THEN Current(s.bursts, elapsed).burst ELSE 1

(***************************************************************************)
(* Rates, in units of 0.05 requests a minute over factor[2]: the one that  *)
(* is planned, and the one the user goes by, never below 0.05.             *)
(***************************************************************************)

PlannedRpm(profiles, factor, t) == 20 * factor[1] * profiles[t].rpm

BurstRpm(s, profiles, factor, t, elapsed) ==
    PlannedRpm(profiles, factor, t) * BurstAt(s, t, elapsed)

PostedRpm(s, profiles, factor, t, elapsed) ==
    Max({BurstRpm(s, profiles, factor, t, elapsed), factor[2]})

-----------------------------------------------------------------------------
\* The tokens a minute of all tenants at a moment, from the rates of each.
TpmOf(s, profiles, rate, elapsed) ==
    SumFunction([t \in DOMAIN profiles |->
                    rate[t] * PostedTokens(s, profiles[t], elapsed)])

PlannedTpm(s, profiles, factor, elapsed) ==
    TpmOf(s, profiles, [t \in DOMAIN profiles |-> PlannedRpm(profiles, factor, t)], elapsed)

\* What is planned is the load that the run is named for, pct percent of the
\* budget in tokens, if the file has no rate: exactly, whatever its tenants
\* send, unless token phases replace the prompts that the rates were scaled
\* for; then it is off by no more than the prompt of some tenant is.  With a
\* rate in the file it is this rate, whatever the run is named for, of requests
\* no lighter and no heavier than those of some tenants.  0 percent scales
\* nothing (traffic.py 110-124).
PlannedAsNamed(s, profiles, brief, pct, elapsed) ==
    LET factor == Factor(s, profiles, brief, pct)
        planned == PlannedTpm(s, profiles, factor, elapsed)
        target == s.budget * pct
        rate == IF s.rpm # 0 THEN s.rpm ELSE s.smokeRpm * Cardinality(DOMAIN profiles)
        sent(t) == PostedTokens(s, profiles[t], elapsed)
        believed(t) == Tokens[ClassOf(s, profiles[t])]
    IN  IF s.rpm = 0 /\ (~brief \/ s.smokeRpm = 0)
        THEN target > 0 =>
                /\ s.phases = <<>> => 5 * planned = target * factor[2]
                /\ \E t \in DOMAIN profiles :
                      5 * planned * believed(t) <= target * factor[2] * sent(t)
                /\ \E t \in DOMAIN profiles :
                      5 * planned * believed(t) >= target * factor[2] * sent(t)
        ELSE /\ \E t \in DOMAIN profiles : planned <= 20 * rate * factor[2] * sent(t)
             /\ \E t \in DOMAIN profiles : planned >= 20 * rate * factor[2] * sent(t)

\* What is offered is what is planned, and on top of it the burst of the victim
\* and nobody else's; tenants planned at less than 0.05 requests a minute, even
\* in their burst, add to it, but not more than that (locustfile.py 91-99).
PostedAsPlanned(s, profiles, brief, pct, elapsed) ==
    LET factor == Factor(s, profiles, brief, pct)
        D == DOMAIN profiles
        burst(t) == BurstRpm(s, profiles, factor, t, elapsed)
        posted == TpmOf(s, profiles,
                        [t \in D |-> PostedRpm(s, profiles, factor, t, elapsed)], elapsed)
        onTop == IF s.victim \in D /\ s.bursts # <<>>
                 THEN (Current(s.bursts, elapsed).burst - 1)
                         * PlannedRpm(profiles, factor, s.victim)
                         * PostedTokens(s, profiles[s.victim], elapsed)
                 ELSE 0
        least == TpmOf(s, profiles,
                       [t \in D |-> IF burst(t) < factor[2] THEN factor[2] ELSE 0], elapsed)
        expected == PlannedTpm(s, profiles, factor, elapsed) + onTop
    IN  expected <= posted /\ posted <= expected + least

OfferedAsNamed(s, profiles, brief, pct, elapsed) ==
    /\ PlannedAsNamed(s, profiles, brief, pct, elapsed)
    /\ PostedAsPlanned(s, profiles, brief, pct, elapsed)
=============================================================================
