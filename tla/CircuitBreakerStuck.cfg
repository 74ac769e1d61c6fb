SPECIFICATION FairSpec
CONSTANTS
    Calls = {"c1", "c2", "c3"}
    FailureThreshold = 2
    SuccessThreshold = 2
    RecoveryTimeout = 2
PROPERTIES
    HalfOpenResolves
