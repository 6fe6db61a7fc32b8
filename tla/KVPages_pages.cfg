\* One contended slot per tier, two ranks, pages that share a key or not.
SPECIFICATION FairSpec
CONSTANTS
    Keys = {k1}
    NoKey = NoKey
    HostSlots = 1
    DiskSlots = 1
    Ranks = {r1, r2}
    MaxPages = 2
    MaxLeases = 2
    MaxTickets = 3
    MaxBatches = 1
CHECK_DEADLOCK FALSE
INVARIANTS
    SelfChecks
    TypeOK
    ReadyMeansWritten
    SourceBytesHeld
PROPERTIES
    LastCopyKept
    NoEarlyFinish
    SubmittedFinishes
