CONSTANTS
    Tasks = {t1, t2}
    r1 = r1
    r2 = r2
    r3 = r3
    r4 = r4
    gold = gold
    bronze = bronze
    Requests = {r1, r2, r3}
    Tenants = {gold, bronze}
    TenantOf <- TenantOfRequest
    Est <- EstOfRequest
    MaxEst = 3
    Tier <- TierOfTenant
    Weight <- WeightOfTenant
    TpmLimit <- TpmLimits
    RpmLimit <- RpmLimits
    ConcLimit <- ConcLimits
    Slo <- SloOfTenant
    WeightSum = 6
    PoliciesUsed = {"tpm", "rpm", "adaptive-slo", "slo-aware"}
    Budgets = {2, 3}
    BackendTtft = 400
    TickMs = 1000
    MaxFaults = 1
SPECIFICATION Spec
SYMMETRY Symmetry
INVARIANTS TypeOK QuotaOvershootBound RpmOvershootBound ChargedUpward
INVARIANTS ConcurrencyLedger QueueLedger OutcomeLedger
PROPERTY ImplementsService
CHECK_DEADLOCK FALSE
