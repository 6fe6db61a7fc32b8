\* Hybrid models with and without disk faults, an attention-only model.
SPECIFICATION FairSpec
CONSTANTS
    NoHash = "nohash"
    Configs <- Tiers
INVARIANTS
    SlotsOnce
    CopiesRight
    BusyRowsHeld
PROPERTIES
    RestoresEnd
    PlansRight
    DemotionKeepsResumable
