SPECIFICATION FairSpec
CONSTANTS
    t1 = t1
    t2 = t2
    w1 = w1
    w2 = w2
    Turns <- MCTurns
    Workers <- OneWorker
    NoTurn = NoTurn
    MaxStops = 0
    MaxCrashes = 1
PROPERTIES
    TurnEnds
    LeaseFreedUnlessLeaked
\* Every request is over in the end.
CHECK_DEADLOCK FALSE
