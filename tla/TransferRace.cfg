\* Both instances on SQLite, the account at the hub, one checkout and one reclaim.
CONSTANTS
    o1 = o1
    o2 = o2
    None = None
    Ops = {o1, o2}
    FirstOwner = "hub"
    RowLocks = {}
    MaxNonces = 1
    MaxTokens = 1
    MaxFaults = 0
SPECIFICATION Spec
INVARIANT NeverTwoOwners
CHECK_DEADLOCK FALSE
