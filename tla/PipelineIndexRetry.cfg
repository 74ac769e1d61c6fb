SPECIFICATION Spec
CONSTANTS
    MaxRuns = 1
    MaxRetries = 1
    MaxFaults = 1
INVARIANTS
    IndexedIsComplete
