SPECIFICATION Spec
CONSTANTS
    t1 = t1
    t2 = t2
    w1 = w1
    w2 = w2
    Turns <- MCTurns
    Workers <- MCWorkers
    NoTurn = NoTurn
    MaxStops = 1
    MaxCrashes = 1
INVARIANTS
    TypeOK
    LiveTurnIsReachable
    OverLeavesNothing
    MachineTellsTheTruth
PROPERTIES
    ImplementsTurnService
SYMMETRY Alike
\* Every request is over in the end.
CHECK_DEADLOCK FALSE
