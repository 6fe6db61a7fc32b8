SPECIFICATION Spec
CONSTANTS
    AllPrefixes <- MCAllPrefixes
    Text <- MCText
    Configs <- UrgentOnly
    Groups = {0}
    HashSize = 2
    BlockSize = 2
    Requests = {1, 2}
CHECK_DEADLOCK FALSE
INVARIANTS
    CachedRight
