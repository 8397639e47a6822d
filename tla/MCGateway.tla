------------------------------ MODULE MCGateway ------------------------------
(***************************************************************************)
(* Small instances of Gateway.  Two tenants: gold (P1) and bronze (P2).    *)
(* The estimates are small against the limits, so that a quota and the     *)
(* platform budget are reached by two or three requests and exceeded by a  *)
(* race; a tick of the clock is a whole objective, or half of one.         *)
(***************************************************************************)
EXTENDS Gateway, TLC

CONSTANTS r1, r2, r3, r4, gold, bronze

\* Tasks are interchangeable, and so are r2 and r3; with equal estimates and
\* two requests of each tenant, the two of either.
TaskSymmetry == Permutations(Tasks)
Symmetry == TaskSymmetry \cup Permutations({r2, r3})
EqualSymmetry ==
    TaskSymmetry \cup Permutations({r1, r2}) \cup Permutations({r3, r4})

\* Three requests of one tenant and one of another, or two of each.
TenantOfRequest == [r \in Requests |-> IF r = r4 THEN gold ELSE bronze]
TenantOfPair == [r \in Requests |-> IF r \in {r3, r4} THEN gold ELSE bronze]

\* A quota of 3 holds one large request, or r1, which keeps the large ones out.
EstOfRequest == [r \in Requests |-> IF r = r1 THEN 1 ELSE 3]

\* Against a budget of 6: one fills it and leaves the ceiling open, two more at
\* once end just below the bound, and all four are beyond it.
EqualEst == [r \in Requests |-> 6]

TierOfTenant == [x \in Tenants |-> IF x = gold THEN "P1" ELSE "P2"]
WeightOfTenant == [x \in Tenants |-> IF x = gold THEN 4 ELSE 2]
TpmLimits == [x \in Tenants |-> 3]
TpmLimitsLoose == [x \in Tenants |-> 12]
RpmLimits == [x \in Tenants |-> 1]
ConcLimits == [x \in Tenants |-> 1]
SloOfTenant == [x \in Tenants |-> 1000]
=============================================================================
