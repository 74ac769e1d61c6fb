SPECIFICATION FairInfraSpec
CONSTANTS
    \* CircuitBreaker
    Calls = {"c1", "c2", "c3"}
    FailureThreshold = 2
    SuccessThreshold = 2
    RecoveryTimeout = 2
    \* IdGenerator
    Processes = {"p1", "p2", "p3"}
    Machines = 2
    WorkerOf <- MCWorkerOf
    Sequences = 2
    MaxTime = 1
    MaxRewinds = 1
    MaxRestarts = 1
    \* RateLimiter
    Requests = {"r1", "r2", "r3", "r4"}
    Limit = 2
    Window = 3
    MaxDelay = 1
    KeyTtl = 4
    MaxNow = 4
    \* ModelFallback
    Prompts = {"a", "b", "c"}
    ChainLength = 3
    MaxTries = 2
INVARIANTS
    WindowConsistent
    IdsOrderedAndDistinct
    SkippedOnlyByRace
PROPERTIES
    RecoversUnlessProbeLost
    LimitIsExact
CHECK_DEADLOCK FALSE
