CONSTANTS
    q1 = q1
    q2 = q2
    q3 = q3
    q4 = q4
    web = web
    batch = batch
    Requests = {q1, q2, q3, q4}
    Apps = {web, batch}
    AppOf <- AppOfRequest
    Permitted = {q1, q2, q3}
    Est <- EstOfRequest
    MaxEst = 3
    RpmLimit <- RpmLimits
    TokenLimit <- TokenLimits
    MaxMinute = 1
    MaxTries = 2
SPECIFICATION FairSpec
INVARIANTS QuotaHolds PaidBeforeInvoked RefusedOnlyWhenFull
PROPERTY EveryCallEnds
CHECK_DEADLOCK FALSE
