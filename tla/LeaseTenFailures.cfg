SPECIFICATION FairSpec
CONSTANTS
    m1 = m1
    m2 = m2
    Managers <- MCManagers
    NoOwner = NoOwner
    TTL = 3
    RenewInterval = 1
    MaxLag = 1
    MaxRenewRetries = 2
    FailureThreshold = 2
    FailureWindow = 1
    MaxLate = 1
INVARIANTS
    LostAfterThreshold
