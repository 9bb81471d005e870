\* Operators that edit limits in use.
CONSTANTS
    r1 = r1
    r2 = r2
    global = global
    scoped = scoped
    None = None
    Reservations = {r1, r2}
    Limits = {global}
    Applicable <- EveryLimit
    MaxValues = {2}
    Budgets = {1, 2}
    Actuals = {1}
    Window = 2
    StaleAge = 1
    MaxTime = 3
    MaxRowId = 2
SPECIFICATION EditSpec
PROPERTY EditPreservesUsage
CHECK_DEADLOCK FALSE
