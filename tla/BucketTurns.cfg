CONSTANTS
    u1 = u1
    u2 = u2
    x1 = x1
    x2 = x2
    Tasks = {u1, u2}
    Tenants = {x1}
    Limit <- Limits
    Budget = 2
    Estimates = {2}
    PerMinute = 2
    MaxDelay = 2
    MaxTime = 6
SPECIFICATION TracedSpec
SYMMETRY Symmetry
INVARIANTS PaidWithinRate NeverOverdrawn
PROPERTY PaidUnlessSpoilt
CHECK_DEADLOCK FALSE
