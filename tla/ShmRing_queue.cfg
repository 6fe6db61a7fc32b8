SPECIFICATION FairSpec
CONSTANTS
    Locals = {r1}
    Remotes = {q}
    MaxChunks = 2
    MaxMsgs = 5
    Overflowing = {2}
    Timed = {3}
    Timeouts = TRUE
    LateOverflow = FALSE
    WriteFails = TRUE
    ReadFails = {r1}
    Shutdowns = {r1}
INVARIANTS
    ReadsItsMessage
PROPERTIES
    ImplementsBroadcast
    Delivered
    WriterProceeds
    LocalShutdownWakes
CHECK_DEADLOCK FALSE
