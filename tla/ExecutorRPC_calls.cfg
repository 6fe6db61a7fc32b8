SPECIFICATION FairSpec
CONSTANTS
    N = 2
    Output = 1
    MaxCalls = 2
    AsyncOutput = TRUE
    CallsFail = {2}
    Timed = {2}
    MaxDeaths = 1
INVARIANTS
    ResponsesPaired
    FuturesInOrder
PROPERTIES
    CallsReturn
    DeathReported
CHECK_DEADLOCK FALSE
