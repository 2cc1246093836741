SPECIFICATION Spec
CONSTANTS
    Members = 2
    FrameCount = 2
    FillSize = 1
    RxSize = 1
    TxSize = 1
    CompSize = 1
    MaxBatch = 1
INVARIANTS
    ReclaimHasCapacity
