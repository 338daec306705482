SPECIFICATION FairProxySpec
CONSTANTS
    Services = {s}
    Instances = {a}
    Requests = {r1, r2}
    MaxIndex = 3
    None = None
INVARIANTS ProxyTypeOK CaughtUpIsCurrent BalancersReady NoConnectionLeaks
PROPERTIES ListsConverge LoneWatcherAdvances
CHECK_DEADLOCK FALSE
