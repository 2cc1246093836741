SPECIFICATION FairSpec
CONSTANTS
    Frames = 3
    TxSize = 2
    Flushes = FALSE
    Outcomes = {"rang"}
PROPERTIES
    StallEnds
