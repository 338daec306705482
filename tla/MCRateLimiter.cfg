SPECIFICATION FairLimiterSpec
CONSTANTS
    Keys = {k}
    Requests = {r1, r2, r3}
    Limiters = {l1, l2, l3, l4}
    Burst = 2
    TTL = 1
    MaxTime = 4
    None = None
INVARIANTS LimiterTypeOK BurstKept RefusedOnlyWhenSpent LimitersHaveTimes
PROPERTY IdleLimitersRemoved
