SPECIFICATION FairSpec
CONSTANTS
    Interfaces = {1, 2}
    Queues = {1, 2}
    Builders <- MCBuilders
    Host <- MCHost
    Workers = {1, 2}
    Loner = 3
    Lone <- MCLone
    LocalPort = 80
    Frames <- MCFrames
    MaxFailures = 1
INVARIANTS
    OpenSocketsReceive
    OtherTrafficPasses
    NoFrameDropped
    RegistryExact
    PlansPartition
PROPERTIES
    CallsReturn
