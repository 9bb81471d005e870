\* A global and a model-scoped limit, two requests, operators that reset usage.
CONSTANTS
    r1 = r1
    r2 = r2
    global = global
    scoped = scoped
    None = None
    Reservations = {r1, r2}
    Limits = {global, scoped}
    Applicable <- ScopedToLater
    MaxValues = {2}
    Budgets = {2}
    Actuals = {0, 3}
    Window = 2
    StaleAge = 1
    MaxTime = 3
    MaxRowId = 2
SPECIFICATION Spec
INVARIANTS
    TypeOK
    LedgerMatchesItems
    NoOvercommit
PROPERTIES
    SettledOnce
    AbandonedQuotaReturns
CHECK_DEADLOCK FALSE
