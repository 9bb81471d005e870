\* Two accounts, two streams, one of which loads only one account; a cap of one.
CONSTANTS
    a1 = a1
    a2 = a2
    r1 = r1
    r2 = r2
    None = None
    Accounts = {a1, a2}
    Requests = {r1, r2}
    KindOf <- AllStream
    EstimateOf <- Estimates
    PoolOf <- FirstOnly
    ScopeOf <- EveryAccount
    CapOf <- OnePerKind
    LeaseTtl = 1
    RequestBudget = 1
    BudgetMargin = 1
    MaxAttempts = 2
    MaxTime = 2
    MaxLeases = 2
SPECIFICATION Spec
INVARIANTS
    TypeOK
    CountersMatchLeases
    CapRespected
    TokensMatchLeases
    LiveStreamKeepsLease
PROPERTY CapRejectionIsFresh
CHECK_DEADLOCK FALSE
