SPECIFICATION FairLBSpec
CONSTANTS
    Instances = {a, b}
    Permanent = {a}
    Requests = {r1, r2, r3}
    LBTypes = {"round_robin", "random", "least_connections"}
    Word = 16
    MaxSelections = 4
    MaxUpdates = 2
    None = None
INVARIANTS LBTypeOK ConnectionsCounted RoundRobinEven ScanInRange
PROPERTY LockIsReleased
CHECK_DEADLOCK FALSE
