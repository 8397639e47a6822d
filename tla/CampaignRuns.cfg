CONSTANTS
    slo = slo
    fixed = fixed
    l50 = l50
    l100 = l100
    c2M = c2M
    c100k = c100k
    None = None
    P1 = P1
    P2 = P2
    Tiers = {P1, P2}
    Slo <- Objectives
    MaxTtft = 2
    Logs <- SmallLogs
    MaxContainers = 2
    Desired = 1
    Campaign <- TwiceHalf
    TagOrder <- AsStrings
    RepMin = 1
    RepMax = 5
    PerRun = 1
    FlushEvery = 2
    MaxSeeds = 0
    MaxFaults = 1
SPECIFICATION FairSpec
INVARIANTS TypeOK OrderKept CountedOnce NoneSuperseded SummariesAddUp
PROPERTIES QuietRunComplete EventsLand
CHECK_DEADLOCK FALSE
