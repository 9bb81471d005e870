\* Two operators, the account checked out and confirmed under the first nonce.
CONSTANTS
    o1 = o1
    o2 = o2
    None = None
    Ops = {o1, o2}
    FirstOwner = "taker"
    RowLocks = {}
    MaxNonces = 3
    MaxTokens = 2
    MaxFaults = 1
SPECIFICATION FairSpec
INVARIANTS
    TypeOK
    SingleOwner
    
    
    OutcomesAgree
PROPERTY CustodyReturns
CONSTRAINT Untorn
CHECK_DEADLOCK FALSE
