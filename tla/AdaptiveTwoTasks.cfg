CONSTANTS
    a1 = a1
    a2 = a2
    k1 = k1
    k2 = k2
    Tasks = {k1, k2}
    Callers = {a1, a2}
    TaskOf <- TwoTasks
    C0 = 4
    CMin = 3
    CMax = 8
    AlphaNum = 1
    AlphaDen = 2
    BetaNum = 1
    BetaDen = 2
    Inexact = FALSE
    W = 2
    MaxTime = 8
    MaxObservations = 2
    MaxResets = 0
    MaxRestarts = 0
SPECIFICATION Spec
PROPERTY ClaimStillDue
CHECK_DEADLOCK FALSE
