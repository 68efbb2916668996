SPECIFICATION FairSpec
CONSTANTS
    Nobody = Nobody
    Unlockers = {u}
    Senders = {s}
    Closers = {c1, c2}
    Relayers = {r}
    Acceptor = acceptor
    StartUnlocked = FALSE
    MaxHeight = 3

    
PROPERTIES
    
    CloseReturnsIfIdle
CHECK_DEADLOCK FALSE
