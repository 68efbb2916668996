SPECIFICATION FairSpec
CONSTANTS
    g = g  a1 = a1  a2 = a2  a3 = a3  a4 = a4  b1 = b1  b2 = b2  c1 = c1  c2 = c2  x2 = x2  x3 = x3
    Blocks <- MCBlocks
    Genesis = g
    Parent <- MCParent
    Difficulty <- MCDifficulty
    Timestamp <- MCTimestamp
    Txns <- MCTxns
    MinerPayouts <- MCMinerPayouts
    HeaderValid <- MCBlocks
    Transactions <- MCTransactions
    Outputs <- MCOutputs
    CoinInputs <- MCCoinInputs
    CoinOutputs <- MCCoinOutputs
    BlockStakeInputs <- MCBlockStakeInputs
    BlockStakeOutputs <- MCBlockStakeOutputs
    MinerFee <- MCMinerFee
    Value <- MCValue
    Fulfilled <- MCFulfilled
    MaturityDelay = 2
    BlockCreatorFee = 10
    FutureThreshold = 1
    ExtremeFutureThreshold = 3
    MaxTime = 1
INVARIANTS
    NoHeavierBlock
    LedgerFollowsPath
    VerdictsAreFinal
PROPERTIES
    OnlyHeavierForks
    CallsReturn
    ImplementsHeaviestChain
