SPECIFICATION EndpointSpec
CONSTANTS
    Endpoints <- MCEndpoints
    PayloadLens <- MCPayloadLens
    TTL = 64
INVARIANTS
    HeaderVerifies
