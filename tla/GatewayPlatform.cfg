CONSTANTS
    Tasks = {t1, t2}
    r1 = r1
    r2 = r2
    r3 = r3
    r4 = r4
    gold = gold
    bronze = bronze
    Requests = {r1, r2, r3, r4}
    Tenants = {gold, bronze}
    TenantOf <- TenantOfPair
    Est <- EqualEst
    MaxEst = 6
    Tier <- TierOfTenant
    Weight <- WeightOfTenant
    TpmLimit <- TpmLimitsLoose
    RpmLimit <- RpmLimits
    ConcLimit <- ConcLimits
    Slo <- SloOfTenant
    WeightSum = 6
    PoliciesUsed = {"tpm", "slo-aware"}
    Budgets = {6}
    BackendTtft = 400
    TickMs = 500
    MaxFaults = 0
SPECIFICATION Spec
SYMMETRY EqualSymmetry
INVARIANT PlatformOvershootBound
CHECK_DEADLOCK FALSE
