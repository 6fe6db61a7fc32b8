SPECIFICATION Spec
CONSTANTS
    Configs <- PauseOnly
CHECK_DEADLOCK FALSE
INVARIANTS
    NobodySleeps
