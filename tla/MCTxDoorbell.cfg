SPECIFICATION FairSpec
CONSTANTS
    Frames = 3
    TxSize = 2
    Flushes = TRUE
    Outcomes = {"rang", "swallowed", "failed"}
INVARIANTS
    TypeOK
    StallExplained
PROPERTIES
    StallEnds
