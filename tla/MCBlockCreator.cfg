CONSTANTS
    Blocks <- MCBlocks
    Genesis = "g"
    Parent <- MCParent
    Weight <- MCWeight
    GenesisTxn <- MCGenesisTxn
    Offers <- MCOffers
    Own <- MCOwn
    MultiSig <- MCMultiSig
    Orders <- MCOrders
    Clients <- MCClients
    Requests <- MCRequests
    MaturityDelay = 1
    RespendTimeout = 2
    MinimumTransactionFee = 1
    OwnBlocks <- MCOwnBlocks
    BlockCreatorFee = 1
SPECIFICATION Spec
INVARIANTS
    WalletFollowsPath
    OutputsCountedOnce
    
PROPERTIES
    NoEarlyRespend
    
CHECK_DEADLOCK FALSE
