SPECIFICATION FairSpec
CONSTANTS
    Frame = {f1, f2, f3}
    InitFree = {f1, f2, f3}
    Capacity = 3
    Dropper = {d1, d2}
    None = None
INVARIANTS
    TypeOK
    FrameConservation
    LenAccounts
    NoPanic
PROPERTIES
    RemoteReturns
    PoolSpec
