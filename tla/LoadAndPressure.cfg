CONSTANTS
    victim = victim
    other = other
    None = None
    Users = {u1, u2}
    Workers = {w1, w2}
    Profiles <- TwoTenants
    Victim = victim
    BaseWait <- Waits
    MaxWait = 3
    Burst <- DoubledOnce
    Ends <- ThreeEnds
    BgStart = 2
    BgEnd = 4
    SmokeDurations = {4}
    MaxStartup = 1
    MaxCalls = 3
    Tokens <- ClassTokens
    TierRpm <- Rates
    TierPrompts <- Prompts
    TenantCounts <- Tens
    Fleets <- OneOfEachTier
    Scenarios <- Files
    LoadPcts = {0, 50, 150}
    Moments = {0, 2, 4}
    BinS = 2
    PressureStart = 4
    PressureEnd = 8
    Lead = 2
    Latency = 2
    Never = Never
    Traces <- Falls
SPECIFICATION Spec
INVARIANTS TypeOK OneUserPerTenant OfferedWithinPlan PlanFits BackgroundAccounted PlansAsNamed TracesDated
PROPERTY RunEnds
CHECK_DEADLOCK FALSE
