------------------------------ MODULE TrafficPlan ------------------------------
(***************************************************************************)
(* The skew of traffic.py: the tenants of a scenario, ranked by a rate     *)
(* drawn for their tier, are cut into three groups, and each group is      *)
(* given a share of the total rate.  A tenant's rate is its part of the    *)
(* base rates of its group, so that only sizes and shares matter here;     *)
(* whatever multiplies all rates later (a load, a budget, a given total)   *)
(* keeps them.  Fractions are in tenths, shares in percent.                *)
(***************************************************************************)
EXTENDS Integers, FiniteSets, FiniteSetsExt

CONSTANT TenantCounts   \* the numbers of tenants that are looked at

ASSUME CountAssumption == TenantCounts \subseteq {n \in Nat : n >= 10}

\* SKEW
Frac == <<1, 3, 6>>
Share == <<45, 30, 25>>
Groups == DOMAIN Frac

\* Mutant: a fraction of a tenant is cut off.
Truncated(tenths) == tenths \div 10

\* round(): to the nearest, and halves to the even neighbour.
Rounded(tenths) ==
    LET whole == tenths \div 10
        rest == tenths % 10
    IN  whole + IF rest > 5 \/ (rest = 5 /\ whole % 2 = 1) THEN 1 ELSE 0

\* How many of n ranked tenants are in the first i groups.
Cut(n, i) == Min({n, SumFunction([g \in 1 .. i |-> Rounded(n * Frac[g])])})

InGroup(n, i) == Cut(n, i - 1) + 1 .. Cut(n, i)

\* Those that the rounding leaves over share what is left, or a twentieth.
Leftover(n) == Cut(n, Cardinality(Groups)) + 1 .. n

\* _apply_skew: what the ranked tenants of S have of the total, in percent; with
\* less than ten tenants each keeps its own rate.
ShareOf(n, S) ==
    LET given == {i \in Groups : InGroup(n, i) # {} /\ InGroup(n, i) \subseteq S}
        rest == 100 - SumFunctionOnSet(Share, {i \in Groups : InGroup(n, i) # {}})
    IN  SumFunctionOnSet(Share, given)
            + IF Leftover(n) # {} /\ Leftover(n) \subseteq S
              THEN Max({rest, 5}) ELSE 0

\* The busiest tenth of the tenants, the next three tenths and the rest make
\* 45, 30 and 25 percent of the requests, as the file says: exactly for the
\* tens of tenants the scenarios have, and to a tenant and a twentieth for
\* every other number.  None is left with the rate 0 it starts with.
SkewAsPlanned(n) ==
    LET total == ShareOf(n, 1 .. n)
    IN  /\ 1 .. n = (UNION {InGroup(n, i) : i \in Groups}) \cup Leftover(n)
        /\ \A i \in Groups :
              /\ 10 * Cardinality(InGroup(n, i)) - n * Frac[i] \in -10 .. 10
              /\ ShareOf(n, InGroup(n, i)) = Share[i]
        /\ total = IF Leftover(n) = {} THEN 100 ELSE 105
        /\ Cardinality(Leftover(n)) <= 1
        /\ n % 10 = 0 => /\ Leftover(n) = {}
                         /\ \A i \in Groups : 10 * Cardinality(InGroup(n, i)) = n * Frac[i]
=============================================================================
