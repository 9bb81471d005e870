\* Two refreshes, a crash and a lost lock.
CONSTANTS
    p1 = p1
    p2 = p2
    None = None
    Procs = {p1, p2}
    Timeout = 1
    Margin = 1
    Base = 1
    MaxAutoResets = 1
    Longest = 1
    MaxTime = 5
    MaxTokens = 3
    MaxCrashes = 1
    MaxLosses = 1
SPECIFICATION Spec
SYMMETRY AnyProcess
INVARIANTS
    TypeOK
    UncertainRecoverable
    IntentFollowsToken
    SingleSender
    
PROPERTIES
    UnsavedNotReplayed
    NewestTokenWins
CHECK_DEADLOCK FALSE
