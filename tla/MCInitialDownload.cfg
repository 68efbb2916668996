SPECIFICATION FairSpec
CONSTANTS
    Peers = {1, 2, 3}
    Steady = {1}
    MinOutbound = 2
    MaxWait = 2
    MaxHeight = 1
    HistorySize = 32
    DenseBlocks = 10
    BatchSize = 150
INVARIANTS
    SyncedOnFreshAnswers
    HistoryReachesBack

    
CHECK_DEADLOCK FALSE
