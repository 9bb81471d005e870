\* The scheduler resets an ambiguous replay.
CONSTANTS
    p1 = p1
    p2 = p2
    None = None
    Procs = {p1, p2}
    Timeout = 1
    Margin = 1
    Base = 1
    MaxAutoResets = 1
    Longest = 1
    MaxTime = 5
    MaxTokens = 3
    MaxCrashes = 1
    MaxLosses = 0
SPECIFICATION Spec
SYMMETRY AnyProcess
PROPERTY AmbiguousReplayNotRepeated
CHECK_DEADLOCK FALSE
