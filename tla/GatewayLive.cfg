CONSTANTS
    Tasks = {t1}
    r1 = r1
    r2 = r2
    r3 = r3
    r4 = r4
    gold = gold
    bronze = bronze
    Requests = {r2, r3, r4}
    Tenants = {gold, bronze}
    TenantOf <- TenantOfRequest
    Est <- EstOfRequest
    MaxEst = 3
    Tier <- TierOfTenant
    Weight <- WeightOfTenant
    TpmLimit <- TpmLimits
    RpmLimit <- RpmLimits
    ConcLimit <- ConcLimits
    Slo <- SloOfTenant
    WeightSum = 6
    PoliciesUsed = {"slo-aware"}
    Budgets = {6}
    BackendTtft = 400
    TickMs = 1000
    MaxFaults = 1
SPECIFICATION FairSpec
PROPERTY EveryRequestEnds
CHECK_DEADLOCK FALSE
