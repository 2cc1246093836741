SPECIFICATION FairSpec
CONSTANTS
    Buffer = {b1, b2}
    CommandCap = 2
    RxCap = 1
    PendingCap = 1
    Droppers = 1
CHECK_DEADLOCK FALSE
INVARIANTS
    LeaseExact
    SocketOutlivesBuffers
PROPERTIES
    TxInOrder
    ShutdownDrains
    AllocationAnswered
