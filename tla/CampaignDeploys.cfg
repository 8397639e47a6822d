CONSTANTS
    slo = slo
    fixed = fixed
    l50 = l50
    l100 = l100
    c2M = c2M
    c100k = c100k
    None = None
    P1 = P1
    P2 = P2
    Tiers = {P1, P2}
    Slo <- Objectives
    MaxTtft = 2
    Logs <- NoLogs
    MaxContainers = 3
    Desired = 1
    Campaign <- TwoPolicies
    TagOrder <- AsStrings
    RepMin = 1
    RepMax = 5
    PerRun = 1
    FlushEvery = 1
    MaxSeeds = 1
    MaxFaults = 1
SPECIFICATION Spec
INVARIANTS RightSettings FreshRecord
CHECK_DEADLOCK FALSE
