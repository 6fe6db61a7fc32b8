SPECIFICATION FairSpec
CONSTANTS
    Requests = {1, 2, 3}
    Size <- MCSize
    Configs <- Engines
CHECK_DEADLOCK FALSE
INVARIANTS
    NoMiss
    MemoryBounded
    SlotsExact
PROPERTIES
    Served
