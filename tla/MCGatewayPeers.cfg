SPECIFICATION Spec
CONSTANTS
    n1 = n1  n2 = n2  n3 = n3  h1 = h1  h2 = h2
    None = None
    Addrs = {n1, n2, n3}
    Local = {n3}
    Host <- MCHost
    Bootstrap = {n1, n2}
    Callers = {n1, n2, n3}
    InSessions = {i1, i2}
    OutSessions = {o1, o2, o3}
    Users = {u}
    Managers = {m}
    fullyConnectedThreshold = 1
    wellConnectedThreshold = 1
    maxLocalOutboundPeers = 3
    pruneNodeListLen = 1
    maxSharedNodes = 1
    MaxEvents = 3
INVARIANTS
    PeersAreListened
    TableIsBounded
SYMMETRY MCSymmetry
CHECK_DEADLOCK FALSE
