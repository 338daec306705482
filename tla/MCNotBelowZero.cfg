SPECIFICATION LBSpec
CONSTANTS
    Instances = {a}
    Permanent = {}
    Requests = {r1, r2, r3}
    LBTypes = {"round_robin"}
    Word = 16
    MaxSelections = 4
    MaxUpdates = 2
    None = None
SYMMETRY Symmetry
INVARIANT NotBelowZero
CHECK_DEADLOCK FALSE
