SPECIFICATION Spec
CONSTANTS
    NoHash = "nohash"
    Configs <- HybridOnly
INVARIANTS
    NoMisread
