CONSTANTS
    Budget = 10
    MaxUsed = 12
    TpmLimit = 5
    RpmLimit = 2
    MaxConc = 2
    Estimates = {1, 2}
    Slo = 1000
    Backend = 400
    WaitStep = 500
    Weight = 2
    WeightSum = 5
SPECIFICATION Spec
INVARIANT TierOrder
PROPERTIES PatienceHelps LoadOnlyTightens
