SPECIFICATION FairSpec
CONSTANTS
    p1 = p1
    p2 = p2
    q1 = q1
    BITS = 5
    DIRECT_BITS = 1
    STRIDE = 2
    Publishers <- MCPublishers
    Queues <- MCQueues
    IfIndexOf <- MCIfIndexOf
    SocketMtu = 7
    HeaderLen = 2
    Destination <- MCDestination
    Routes <- MCRoutes
    Neighbors <- MCNeighbors
    Interfaces <- MCInterfaces
    Dumps <- MCDumps
    DefaultMtu = 6
    U32Max = 99
    MaxUpserts = 3
    MaxShared = 0
    MaxPublish = 2
    MaxPending = 1
INVARIANTS
    TablesValid
    ResolutionExact
    EndpointFresh
PROPERTIES
    QueuesConverge
