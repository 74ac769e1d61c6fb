SPECIFICATION FairSpec
CONSTANTS
    MaxRuns = 1
    MaxRetries = 1
    MaxFaults = 3
PROPERTIES
    StallsAreResolved
    OrphansAreRemoved
