SPECIFICATION AccountsSpec
CONSTANTS
    Names = {"admin", "user", "n", "m"}
    Roles = {"admin", "user"}
    Passwords = {"admin123", "user123", "x", "y"}
    Requests = {r1, r2, r3}
    TTL = 1
    MaxTime = 1
    MaxID = 4
    MaxTokens = 1
    None = None
SYMMETRY Symmetry
INVARIANTS AccountsTypeOK ProfileIsOwn AccessFollowsAccount
PROPERTY TakenNamesKept
