\* One account of Kimi, a request with a sticky key and a plain one.
CONSTANTS
    a1 = a1
    r1 = r1
    r2 = r2
    kimi = kimi
    None = None
    Accounts = {a1}
    Requests = {r1, r2}
    Providers = {kimi}
    Kimi = kimi
    ProviderOf <- AccountsOfKimi
    Asks <- RequestsForKimi
    StickyRequests = {r1}
    Delays = {1, 3}
    BoundAfter = 2
    BoundRetry = 1
    Grace = 1
    Capacity = 1
    RuleDelays = {1, 2}
    BackoffAfter = 1
    Backoff <- ShortBackoff
    MaxAttempts = 2
    MaxErrors = 1
    MaxTime = 2
    MaxEvents = 2
SPECIFICATION Spec
INVARIANTS
    TypeOK
PROPERTIES
    
    StatusGuarded
    RecoveryNotEarly
CHECK_DEADLOCK FALSE
