SPECIFICATION FairSpec
CONSTANTS
    Accounts = {a1, a2, a3}
    Authorized = {a3}
    MaxAttempts = 3
    MaxRetries = 3
    None = None
INVARIANTS
    TypeOK
    AttemptEligible
PROPERTIES
    NoReplay
    EndsClean
