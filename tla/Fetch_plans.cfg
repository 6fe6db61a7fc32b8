SPECIFICATION FairSpec
CONSTANTS
    Processes = {p1}
    NumFiles = 2
    NumChunks = 3
    MaxFaults = 4
    Plans <- MCPlans
CHECK_DEADLOCK FALSE
INVARIANTS
    InstalledRight
PROPERTIES
    Fetched
