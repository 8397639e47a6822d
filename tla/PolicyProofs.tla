----------------------------- MODULE PolicyProofs -----------------------------
(***************************************************************************)
(* Proofs about the admission policies: what tier, patience and load do to *)
(* a decision, for any limits, budget, estimates and weights.              *)
(***************************************************************************)
EXTENDS PolicyWalk, TLAPS

-----------------------------------------------------------------------------
(***************************************************************************)
(* The contexts a policy decides on.                                       *)
(***************************************************************************)

Contexts ==
    [tier : {"P1", "P2", "P3"}, est : Nat, weight : Nat, weightSum : Nat,
     wait : Nat, slo : Nat, backend : Nat, tpmUsed : Nat, tpmLimit : Nat,
     rpmUsed : Nat, rpmLimit : Nat, conc : Nat, maxConc : Nat,
     platUsed : Nat, budget : Nat]

WalkPolicies == Policies \ {"token-bucket"}

\* The walk keeps to contexts, and to the streams a tenant may have.
WalkInv ==
    policy \in WalkPolicies /\ c \in Contexts /\ c.conc <= MaxConc /\ c.maxConc = MaxConc

\* What a step does to the fields a policy reads.
Loads == /\ WalkInv'
         /\ policy' = policy
         /\ \E e \in Nat :
               \/ c' = [c EXCEPT !.platUsed = @ + e]
               \/ c' = [c EXCEPT !.platUsed = @ + e, !.tpmUsed = @ + e,
                                 !.rpmUsed = @ + 1, !.conc = @ + 1]

Relieves == /\ WalkInv'
            /\ policy' = policy
            /\ c'.platUsed <= c.platUsed /\ c'.wait >= c.wait

\* A request of the tenant is charged: the fields it changes stay numbers.
LEMMA OwnFields ==
    ASSUME NEW x \in Contexts, NEW e \in Nat
    PROVE  [x EXCEPT !.platUsed = @ + e, !.tpmUsed = @ + e,
                     !.rpmUsed = @ + 1, !.conc = @ + 1] \in Contexts
<1> DEFINE plat == [x EXCEPT !.platUsed = @ + e]
           tpm == [plat EXCEPT !.tpmUsed = @ + e]
           rpm == [tpm EXCEPT !.rpmUsed = @ + 1]
<1>1. plat \in Contexts
  BY DEF Contexts
<1>2. tpm \in Contexts
  <2> HIDE DEF plat
  <2> QED
    BY <1>1 DEF Contexts
<1>3. rpm \in Contexts
  <2> HIDE DEF tpm
  <2> QED
    BY <1>2 DEF Contexts
<1>4. [rpm EXCEPT !.conc = @ + 1] \in Contexts
  <2> HIDE DEF rpm
  <2> QED
    BY <1>3 DEF Contexts
<1>5. [x EXCEPT !.platUsed = @ + e, !.tpmUsed = @ + e,
                !.rpmUsed = @ + 1, !.conc = @ + 1] = [rpm EXCEPT !.conc = @ + 1]
  BY DEF Contexts
<1> QED
  BY <1>4, <1>5

LEMMA WalkStep == WalkInv /\ [Next]_vars => Loads \/ Relieves
<1> SUFFICES ASSUME WalkInv, [Next]_vars PROVE Loads \/ Relieves
  OBVIOUS
<1> USE BoundsAssumption DEF WalkInv, Contexts
<1>1. CASE WaitOn
  BY <1>1 DEF WaitOn, Relieves
<1>2. ASSUME NEW e \in Estimates, ForeignLoad(e) PROVE Loads
  <2>1. WalkInv' /\ policy' = policy /\ e \in Nat
    BY <1>2 DEF ForeignLoad
  <2>2. c' = [c EXCEPT !.platUsed = @ + e]
    BY <1>2 DEF ForeignLoad
  <2> HIDE DEF WalkInv, Contexts
  <2> QED
    BY <2>1, <2>2 DEF Loads
<1>3. ASSUME NEW e \in Estimates, OwnLoad(e) PROVE Loads
  <2>1. policy' = policy /\ e \in Nat /\ c.conc < MaxConc
    BY <1>3 DEF OwnLoad
  <2>2. c' = [c EXCEPT !.platUsed = @ + e, !.tpmUsed = @ + e,
                       !.rpmUsed = @ + 1, !.conc = @ + 1]
    BY <1>3 DEF OwnLoad
  <2>3. c' \in Contexts
    <3> HIDE DEF Contexts
    <3> QED
      BY <2>1, <2>2, OwnFields
  <2>4. c'.conc = c.conc + 1 /\ c'.maxConc = c.maxConc
    BY <2>2
  <2>5. WalkInv'
    BY <2>1, <2>3, <2>4
  <2> HIDE DEF WalkInv, Contexts
  <2> QED
    BY <2>1, <2>2, <2>5 DEF Loads
<1>4. CASE OwnRelease
  BY <1>4 DEF OwnRelease, Relieves
<1>5. CASE NewMinute
  <2>1. c' = [c EXCEPT !.platUsed = 0, !.tpmUsed = 0, !.rpmUsed = 0] /\ policy' = policy
    BY <1>5 DEF NewMinute
  <2>2. c' \in Contexts
    BY <2>1
  <2>3. c'.conc = c.conc /\ c'.maxConc = c.maxConc /\ c'.wait = c.wait /\ c'.platUsed = 0
    BY <2>1
  <2> QED
    BY <2>1, <2>2, <2>3 DEF Relieves
<1>6. CASE UNCHANGED vars
  BY <1>6 DEF vars, Relieves
<1> QED
  BY <1>1, <1>2, <1>3, <1>4, <1>5, <1>6 DEF Next

LEMMA WalkAlways == Spec => []WalkInv
<1>1. Init => WalkInv
  BY BoundsAssumption DEF Init, WalkInv, WalkPolicies, Contexts
<1>2. WalkInv /\ [Next]_vars => WalkInv'
  BY WalkStep DEF WalkInv, Loads, Relieves
<1> QED
  BY <1>1, <1>2, PTL DEF Spec

\* y is x after load has been added, the tenant's own or another's.
Heavier(x, y) ==
    /\ y.tier = x.tier /\ y.est = x.est
    /\ y.wait = x.wait /\ y.slo = x.slo /\ y.backend = x.backend
    /\ y.tpmLimit = x.tpmLimit /\ y.rpmLimit = x.rpmLimit
    /\ y.maxConc = x.maxConc /\ y.budget = x.budget
    /\ x.platUsed <= y.platUsed /\ x.tpmUsed <= y.tpmUsed
    /\ x.rpmUsed <= y.rpmUsed /\ x.conc <= y.conc

\* Load of another tenant leaves the tenant's own counters alone, so these rise
\* together: its tokens by the estimate charged, its streams by one.
LEMMA LoadsHeavier ==
    ASSUME WalkInv, Loads
    PROVE  /\ Heavier(c, c')
           /\ \/ c'.tpmUsed = c.tpmUsed /\ c'.conc = c.conc
              \/ c'.tpmUsed - c.tpmUsed = c'.platUsed - c.platUsed
<1>1. c \in Contexts
  BY DEF WalkInv
<1>2. PICK e \in Nat :
         \/ c' = [c EXCEPT !.platUsed = @ + e]
         \/ c' = [c EXCEPT !.platUsed = @ + e, !.tpmUsed = @ + e,
                           !.rpmUsed = @ + 1, !.conc = @ + 1]
  BY DEF Loads
<1>3. CASE c' = [c EXCEPT !.platUsed = @ + e]
  BY <1>1, <1>3 DEF Heavier, Contexts
<1>4. CASE c' = [c EXCEPT !.platUsed = @ + e, !.tpmUsed = @ + e,
                          !.rpmUsed = @ + 1, !.conc = @ + 1]
  <2>1. /\ c'.platUsed = c.platUsed + e /\ c'.tpmUsed = c.tpmUsed + e
        /\ c'.rpmUsed = c.rpmUsed + 1 /\ c'.conc = c.conc + 1
    BY <1>1, <1>4 DEF Contexts
  <2>2. /\ c'.tier = c.tier /\ c'.est = c.est
        /\ c'.wait = c.wait /\ c'.slo = c.slo /\ c'.backend = c.backend
        /\ c'.tpmLimit = c.tpmLimit /\ c'.rpmLimit = c.rpmLimit
        /\ c'.maxConc = c.maxConc /\ c'.budget = c.budget
    BY <1>1, <1>4 DEF Contexts
  <2>3. {c.platUsed, c.tpmUsed, c.rpmUsed, c.conc} \subseteq Nat
    BY <1>1 DEF Contexts
  <2> QED
    BY <2>1, <2>2, <2>3 DEF Heavier
<1> QED
  BY <1>2, <1>3, <1>4

-----------------------------------------------------------------------------
(***************************************************************************)
(* Comparing two contexts.                                                 *)
(***************************************************************************)

\* x fares at least as well as y when all that admits y admits x, and all that
\* rejects x rejects y.
LEMMA FaresAsWell ==
    ASSUME NEW p, NEW x, NEW y,
           Admits(p, y) => Admits(p, x),
           Rejects(p, x) => Rejects(p, y)
    PROVE  Outcome(p, y) <= Outcome(p, x)
<1>1. Decide(p, y) = "ADMIT" => Decide(p, x) = "ADMIT"
  BY DEF Decide
<1>2. Decide(p, x) = "REJECT" => Decide(p, y) = "REJECT"
  BY DEF Decide
<1>3. Decide(p, x) \in Actions /\ Decide(p, y) \in Actions
  BY DEF Decide, Actions
<1> QED
  BY <1>1, <1>2, <1>3 DEF Outcome, Rank, Actions

\* The pressure is the lower, the less is used of the same budget; a band of
\* slo-aware lies within the next.
LEMMA PressureFalls ==
    ASSUME NEW x \in Contexts, NEW y \in Contexts, x.budget = y.budget,
           x.platUsed <= y.platUsed, NEW n \in Nat, NEW d \in {10, 100},
           PressureBelow(y, n, d)
    PROVE  PressureBelow(x, n, d)
<1>1. x.platUsed * d <= y.platUsed * d
  BY DEF Contexts
<1>2. n * x.budget = n * y.budget /\ n * x.budget \in Nat
  BY DEF Contexts
<1> QED
  BY <1>1, <1>2 DEF PressureBelow, Contexts

LEMMA BandsNest ==
    ASSUME NEW x \in Contexts
    PROVE  /\ PressureBelow(x, 8, 10) => PressureBelow(x, 10, 10)
           /\ PressureBelow(x, 10, 10) => PressureBelow(x, 11, 10)
BY DEF PressureBelow, Contexts

-----------------------------------------------------------------------------
(***************************************************************************)
(* Tiers.                                                                  *)
(***************************************************************************)

\* Neighbouring tiers, and the request as a caller of another tier sends it.
Above(a, b) == <<a, b>> \in {<<"P1", "P2">>, <<"P2", "P3">>}

SentAs(x, tier) == [x EXCEPT !.tier = tier]

LEMMA TierFares ==
    ASSUME NEW x \in Contexts, NEW p \in WalkPolicies,
           NEW a, NEW b, Above(a, b)
    PROVE  Outcome(p, SentAs(x, a)) >= Outcome(p, SentAs(x, b))
<1> DEFINE y == SentAs(x, a)
           z == SentAs(x, b)
<1> USE DEF SentAs
<1>1. y.tier = a /\ z.tier = b
  BY DEF Contexts
<1>2. (a = "P1" /\ b = "P2") \/ (a = "P2" /\ b = "P3")
  BY DEF Above
<1>3. /\ TenantTpmExceeded(y) = TenantTpmExceeded(z)
      /\ TenantBusy(y) = TenantBusy(z)
      /\ BelowReserved(y) = BelowReserved(z)
      /\ SlackTight(y) = SlackTight(z)
      /\ RpmRejects(y) = RpmRejects(z)
      /\ TpmAdmits(y) = TpmAdmits(z)
  BY DEF Contexts, TenantTpmExceeded, TenantBusy, BelowReserved, SlackTight,
         RpmRejects, TpmAdmits
<1>4. \A n, d : PressureBelow(y, n, d) = PressureBelow(z, n, d)
  BY DEF PressureBelow, Contexts
<1> HIDE DEF SentAs, y, z
<1>5. PriorityAdmits(z) => PriorityAdmits(y)
  BY <1>1, <1>2, <1>3, <1>4 DEF PriorityAdmits
<1>6. PriorityRejects(y) => PriorityRejects(z)
  BY <1>1, <1>2, <1>3, <1>4 DEF PriorityRejects
<1>7. SloAdmits(z) => SloAdmits(y)
  BY <1>1, <1>2, <1>3, <1>4 DEF SloAdmits
<1>8. SloRejects(y) => SloRejects(z)
  BY <1>1, <1>2, <1>3, <1>4 DEF SloRejects
<1>9. Admits(p, z) => Admits(p, y)
  BY <1>3, <1>5, <1>7 DEF Admits, WalkPolicies
<1>10. Rejects(p, y) => Rejects(p, z)
  BY <1>3, <1>6, <1>8 DEF Rejects
<1>11. Outcome(p, y) >= Outcome(p, z)
  BY <1>9, <1>10, FaresAsWell
<1> QED
  BY <1>11 DEF y, z

\* A higher tier never fares worse (the tier tests of priority and slo-aware),
\* whatever the quotas, the budget and the load.
THEOREM TiersOrdered == Spec => []TierOrder
<1>1. WalkInv => TierOrder
  <2> SUFFICES ASSUME WalkInv PROVE TierOrder
    OBVIOUS
  <2>1. policy \in WalkPolicies /\ c \in Contexts
    BY DEF WalkInv
  <2>2. Above("P1", "P2") /\ Above("P2", "P3")
    BY DEF Above
  <2>3. Outcome(policy, SentAs(c, "P1")) >= Outcome(policy, SentAs(c, "P2"))
    BY <2>1, <2>2, TierFares
  <2>4. Outcome(policy, SentAs(c, "P2")) >= Outcome(policy, SentAs(c, "P3"))
    BY <2>1, <2>2, TierFares
  <2> QED
    BY <2>3, <2>4 DEF TierOrder, SentAs
<1> QED
  BY <1>1, WalkAlways, PTL

-----------------------------------------------------------------------------
(***************************************************************************)
(* Patience.                                                               *)
(***************************************************************************)

LEMMA WaitingFares ==
    ASSUME NEW x \in Contexts, NEW p \in WalkPolicies, NEW w \in Nat, w >= x.wait
    PROVE  Outcome(p, [x EXCEPT !.wait = w]) >= Outcome(p, x)
<1> DEFINE y == [x EXCEPT !.wait = w]
<1>1. /\ TenantTpmExceeded(y) = TenantTpmExceeded(x)
      /\ TenantBusy(y) = TenantBusy(x)
      /\ BelowReserved(y) = BelowReserved(x)
      /\ RpmRejects(y) = RpmRejects(x)
      /\ TpmAdmits(y) = TpmAdmits(x)
      /\ y.tier = x.tier
  BY DEF Contexts, TenantTpmExceeded, TenantBusy, BelowReserved, RpmRejects, TpmAdmits
<1>2. \A n, d : PressureBelow(y, n, d) = PressureBelow(x, n, d)
  BY DEF PressureBelow, Contexts
<1>3. SlackTight(x) => SlackTight(y)
  BY DEF SlackTight, SlackThreshold, Contexts
<1> HIDE DEF y
<1>4. PriorityAdmits(y) = PriorityAdmits(x) /\ PriorityRejects(y) = PriorityRejects(x)
  BY <1>1, <1>2 DEF PriorityAdmits, PriorityRejects
<1>5. (SloAdmits(x) => SloAdmits(y)) /\ SloRejects(y) = SloRejects(x)
  BY <1>1, <1>2, <1>3 DEF SloAdmits, SloRejects
<1>6. Admits(p, x) => Admits(p, y)
  BY <1>1, <1>4, <1>5 DEF Admits, WalkPolicies
<1>7. Rejects(p, y) => Rejects(p, x)
  BY <1>1, <1>4, <1>5 DEF Rejects
<1>8. Outcome(p, y) >= Outcome(p, x)
  BY <1>6, <1>7, FaresAsWell
<1> QED
  BY <1>8 DEF y

\* Waiting is never held against a request (the slack test of slo-aware), so
\* polling again can only improve its outcome.
THEOREM WaitingHelps == Spec => PatienceHelps
<1>1. WalkInv /\ [Next]_vars =>
         (WaitedOnly => Outcome(policy, c') >= Outcome(policy, c))
  <2> SUFFICES ASSUME WalkInv, [Next]_vars, WaitedOnly
               PROVE  Outcome(policy, c') >= Outcome(policy, c)
    OBVIOUS
  <2>1. policy \in WalkPolicies /\ c \in Contexts /\ c' \in Contexts
    BY WalkStep DEF WalkInv, Loads, Relieves
  <2>2. c'.wait \in Nat /\ c'.wait >= c.wait
    <3>1. c'.wait \in Nat /\ c.wait \in Nat
      BY <2>1 DEF Contexts
    <3>2. CASE Loads
      BY <3>1, <3>2, LoadsHeavier DEF Heavier
    <3>3. CASE Relieves
      BY <3>1, <3>3 DEF Relieves
    <3> QED
      BY <3>2, <3>3, WalkStep
  <2>3. Outcome(policy, [c EXCEPT !.wait = c'.wait]) >= Outcome(policy, c)
    BY <2>1, <2>2, WaitingFares
  <2> QED
    BY <2>3 DEF WaitedOnly
<1> QED
  BY <1>1, WalkAlways, PTL DEF Spec, PatienceHelps

-----------------------------------------------------------------------------
(***************************************************************************)
(* Load.                                                                   *)
(***************************************************************************)

LEMMA HeavierTests ==
    ASSUME NEW x \in Contexts, NEW y \in Contexts, Heavier(x, y)
    PROVE  /\ TenantTpmExceeded(x) => TenantTpmExceeded(y)
           /\ TenantBusy(x) => TenantBusy(y)
           /\ SlackTight(x) = SlackTight(y)
           /\ RpmRejects(x) => RpmRejects(y)
           /\ TpmAdmits(y) => TpmAdmits(x)
           /\ x.tier = y.tier
           /\ \A n \in Nat, d \in {10, 100} : PressureBelow(y, n, d) => PressureBelow(x, n, d)
<1>1. /\ y.tier = x.tier /\ y.est = x.est /\ y.wait = x.wait /\ y.slo = x.slo
      /\ y.backend = x.backend /\ y.tpmLimit = x.tpmLimit /\ y.rpmLimit = x.rpmLimit
      /\ y.maxConc = x.maxConc /\ y.budget = x.budget
      /\ x.platUsed <= y.platUsed /\ x.tpmUsed <= y.tpmUsed
      /\ x.rpmUsed <= y.rpmUsed /\ x.conc <= y.conc
  BY DEF Heavier
<1>2. /\ TenantTpmExceeded(x) => TenantTpmExceeded(y)
      /\ TpmAdmits(y) => TpmAdmits(x)
  BY <1>1 DEF TenantTpmExceeded, TpmAdmits, Contexts
<1>3. /\ TenantBusy(x) => TenantBusy(y)
      /\ RpmRejects(x) => RpmRejects(y)
  BY <1>1 DEF TenantBusy, RpmRejects, Contexts
<1>4. SlackTight(x) = SlackTight(y)
  BY <1>1 DEF SlackTight
<1>5. \A n \in Nat, d \in {10, 100} : PressureBelow(y, n, d) => PressureBelow(x, n, d)
  BY <1>1, PressureFalls
<1> QED
  BY <1>1, <1>2, <1>3, <1>4, <1>5

\* Only the reserved share lets a heavier platform admit more.
LEMMA HeavierAdmits ==
    ASSUME NEW x \in Contexts, NEW y \in Contexts, Heavier(x, y),
           NEW p \in WalkPolicies, Admits(p, y),
           ~(BelowReserved(y) /\ ~PressureBelow(y, 10, 10))
    PROVE  Admits(p, x)
<1>1. PriorityAdmits(y) => PriorityAdmits(x)
  BY HeavierTests DEF PriorityAdmits
<1>2. SloAdmits(y) => SloAdmits(x)
  BY HeavierTests DEF SloAdmits
<1> QED
  BY <1>1, <1>2, HeavierTests DEF Admits, WalkPolicies

\* Only the tenant's own quota and streams let a heavier platform reject less.
LEMMA HeavierRejects ==
    ASSUME NEW x \in Contexts, NEW y \in Contexts, Heavier(x, y),
           NEW p \in WalkPolicies, Rejects(p, x), ~Rejects(p, y)
    PROVE  /\ Decide(p, x) = "REJECT"
           /\ Decide(p, y) = "QUEUE"
           /\ \/ ~TenantTpmExceeded(x) /\ TenantTpmExceeded(y)
              \/ ~TenantBusy(x) /\ TenantBusy(y)
<1>1. CASE p = "rpm"
  BY <1>1, HeavierTests DEF Rejects
<1>2. CASE p = "priority"
  <2>1. PriorityRejects(x) /\ ~PriorityRejects(y)
    BY <1>2 DEF Rejects
  <2>2. ~PriorityAdmits(x) /\ ~PriorityAdmits(y)
    BY <2>1, HeavierTests DEF PriorityAdmits, PriorityRejects
  <2>3. ~TenantTpmExceeded(x) /\ TenantTpmExceeded(y)
    BY <2>1, HeavierTests DEF PriorityRejects
  <2> QED
    BY <1>2, <2>1, <2>2, <2>3 DEF Decide, Admits, Rejects
<1>3. CASE p \in {"slo-aware", "adaptive-slo"}
  <2>1. SloRejects(x) /\ ~SloRejects(y)
    BY <1>3 DEF Rejects
  <2>2. \/ ~TenantTpmExceeded(x) /\ TenantTpmExceeded(y)
        \/ ~TenantBusy(x) /\ TenantBusy(y)
    BY <2>1, HeavierTests DEF SloRejects
  <2>3. ~SloAdmits(x)
    BY <2>1, BandsNest DEF SloAdmits, SloRejects
  <2>4. ~SloAdmits(y)
    BY <2>2 DEF SloAdmits
  <2> QED
    BY <1>3, <2>1, <2>2, <2>3, <2>4 DEF Decide, Admits, Rejects
<1> QED
  BY <1>1, <1>2, <1>3 DEF Rejects

\* More load, the tenant's own or another's, never gets the tenant's next
\* request a better answer, but for the reserved share of slo-aware and for
\* quota and concurrency being looked at before the pressure.
THEOREM LoadTightens == Spec => LoadOnlyTightens
<1>1. WalkInv /\ [Next]_vars => Tightens
  <2> SUFFICES ASSUME WalkInv, Loads, c'.platUsed > c.platUsed,
                      ~(BelowReserved(c') /\ ~PressureBelow(c', 10, 10))
               PROVE  Tightens
    <3>1. WalkInv /\ WalkInv' => c.platUsed \in Nat /\ c'.platUsed \in Nat
      BY DEF WalkInv, Contexts
    <3>2. CASE Relieves
      BY <3>2 DEF Relieves, Tightens
    <3>3. Loads => WalkInv'
      BY DEF Loads
    <3>4. WalkInv /\ Loads => c'.platUsed > c.platUsed \/ c'.platUsed <= c.platUsed
      BY <3>1, <3>3
    <3> QED
      BY <3>2, <3>4, WalkStep DEF Tightens
  <2>1. policy \in WalkPolicies /\ c \in Contexts /\ c' \in Contexts
    BY DEF WalkInv, Loads
  <2>2. Heavier(c, c')
    BY LoadsHeavier
  <2>3. CASE Rejects(policy, c) /\ ~Rejects(policy, c')
    <3>1. /\ Decide(policy, c) = "REJECT" /\ Decide(policy, c') = "QUEUE"
          /\ \/ ~TenantTpmExceeded(c) /\ TenantTpmExceeded(c')
             \/ ~TenantBusy(c) /\ TenantBusy(c')
      BY <2>1, <2>2, <2>3, HeavierRejects
    <3>2. /\ c.conc <= MaxConc /\ c'.conc <= MaxConc
          /\ c.maxConc = MaxConc /\ c'.maxConc = MaxConc
          /\ c'.est = c.est /\ c'.tpmLimit = c.tpmLimit
      BY <2>2 DEF WalkInv, Loads, Heavier
    <3>3. {c.platUsed, c'.platUsed, c.tpmUsed, c'.tpmUsed, c.conc, c'.conc, MaxConc} \subseteq Nat
      BY <2>1, BoundsAssumption DEF Contexts
    <3>4. c'.tpmUsed > c.tpmUsed
      <4>1. CASE c'.tpmUsed = c.tpmUsed /\ c'.conc = c.conc
        BY <3>1, <3>2, <4>1 DEF TenantTpmExceeded, TenantBusy
      <4>2. CASE c'.tpmUsed - c.tpmUsed = c'.platUsed - c.platUsed
        BY <3>3, <4>2
      <4> QED
        BY <4>1, <4>2, LoadsHeavier
    <3>5. c'.tpmUsed + c.est > c.tpmLimit \/ c'.conc = c.maxConc
      BY <3>1, <3>2, <3>3 DEF TenantTpmExceeded, TenantBusy
    <3> QED
      BY <3>1, <3>4, <3>5 DEF Tightens
  <2>4. CASE Rejects(policy, c) => Rejects(policy, c')
    <3>1. Admits(policy, c') => Admits(policy, c)
      BY <2>1, <2>2, HeavierAdmits
    <3>2. Outcome(policy, c') <= Outcome(policy, c)
      BY <2>4, <3>1, FaresAsWell
    <3> QED
      BY <3>2 DEF Tightens
  <2> QED
    BY <2>3, <2>4
<1> QED
  BY <1>1, WalkAlways, PTL DEF Spec, LoadOnlyTightens
=============================================================================
