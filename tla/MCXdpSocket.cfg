SPECIFICATION FairSpec
CONSTANTS
    Members = 1
    FrameCount = 4
    FillSize = 2
    RxSize = 1
    TxSize = 2
    CompSize = 1
    MaxBatch = 2
INVARIANTS
    TypeOK
    FrameConservation
    ClassSeparation
    InFlightExact
    ReclaimHasCapacity
PROPERTIES
    NoEarlyReuse
    RxRotates
    AllocationRecovers
