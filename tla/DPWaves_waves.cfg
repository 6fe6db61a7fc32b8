SPECIFICATION FairSpec
CONSTANTS
    Configs <- Deployments
CHECK_DEADLOCK FALSE
INVARIANTS
    WakeupsArrive
    WavesAlign
    PausedQuiet
PROPERTIES
    Served
