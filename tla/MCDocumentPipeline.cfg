SPECIFICATION Spec
CONSTANTS
    MaxRuns = 2
    MaxRetries = 1
    MaxFaults = 3
INVARIANTS
    TypeOK
    StoresAgree
    FailedRunLeavesNothing
    HolesHaveACause
