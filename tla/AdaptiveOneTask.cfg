CONSTANTS
    a1 = a1
    a2 = a2
    k1 = k1
    k2 = k2
    Tasks = {k1}
    Callers = {a1, a2}
    TaskOf <- OneTask
    C0 = 8
    CMin = 3
    CMax = 12
    AlphaNum = 1
    AlphaDen = 2
    BetaNum = 1
    BetaDen = 2
    Inexact = TRUE
    W = 2
    MaxTime = 7
    MaxObservations = 3
    MaxResets = 1
    MaxRestarts = 1
SPECIFICATION Spec
INVARIANT EstimateInRange
PROPERTIES ClaimStillDue ImplementsEstimate
CHECK_DEADLOCK FALSE
