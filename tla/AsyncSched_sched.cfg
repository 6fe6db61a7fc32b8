SPECIFICATION FairSpec
CONSTANTS
    AllPrefixes <- MCAllPrefixes
    Text <- MCText
    Configs <- Checked
    Groups = {0}
    HashSize = 2
    BlockSize = 2
    Requests = {1, 2, 3}
CHECK_DEADLOCK FALSE
INVARIANTS
    BlocksAccounted
    CachedRight
    InFlightBlocksKept
    OutputsInOrder
    FramesCounted
PROPERTIES
    Served
