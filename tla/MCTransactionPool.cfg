SPECIFICATION PoolSpec
CONSTANTS
    g = g  a1 = a1  a2 = a2  b1 = b1  b2 = b2  d1 = d1  d2 = d2
    t0 = t0  t1 = t1  t2 = t2  c1 = c1  m = m
    Blocks <- MCBlocks
    Genesis = g
    Parent <- MCParent
    Difficulty <- MCDifficulty
    Timestamp <- MCTimestamp
    Txns <- MCTxns
    MinerPayouts <- MCNoPayouts
    HeaderValid <- MCBlocks
    Transactions <- MCTransactions
    Outputs <- MCOutputs
    CoinInputs <- MCCoinInputs
    CoinOutputs <- MCCoinOutputs
    BlockStakeInputs <- MCNone
    BlockStakeOutputs <- MCNone
    MinerFee <- MCFee
    Value <- MCValue
    Fulfilled <- MCTransactions
    MaturityDelay = 1
    BlockCreatorFee = 0
    Offers <- MCOffers
    Size <- MCSize
    PoolSizeLimit = 1
    SetSizeLimit = 2
    RebroadcastDelay = 3
    MaxRebroadcasts = 1
INVARIANTS
    ListFitsPath
    
PROPERTIES
    NothingIsLost
CHECK_DEADLOCK FALSE
