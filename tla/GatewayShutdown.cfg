SPECIFICATION FairSpec
CONSTANTS
    Nobody = Nobody
    Closer = closer
    Sessions = {s}
    concurrentRPCPerPeer = 2
    maxConcurrentOutboundPeerRequests = 2
    MaxCalls = 1
INVARIANTS
    AloneAfterClose

    
CHECK_DEADLOCK FALSE
