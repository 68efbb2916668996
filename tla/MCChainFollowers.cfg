SPECIFICATION FollowSpec
CONSTANTS
    g = g  a1 = a1  a2 = a2  b1 = b1  b2 = b2  b3 = b3
    tpool = tpool  explorer = explorer
    Blocks <- MCBlocks
    Genesis = g
    Parent <- MCParent
    Difficulty <- MCDifficulty
    Timestamp <- MCTimestamp
    Txns <- MCTxns
    MinerPayouts <- MCMinerPayouts
    HeaderValid <- MCBlocks
    Transactions <- MCTransactions
    Outputs <- MCOutputs
    CoinInputs <- MCCoinInputs
    CoinOutputs <- MCCoinOutputs
    BlockStakeInputs <- MCNone
    BlockStakeOutputs <- MCNone
    MinerFee <- MCFee
    Value <- MCValue
    Fulfilled <- MCTransactions
    MaturityDelay = 1
    BlockCreatorFee = 1
    Rescanning = {tpool}
    Strict = {explorer}
    Volatile = {}
    Cancellable = {tpool}
    GenesisMintCondition = "K0"
    MintDefinitions <- MCMintDefinitions
    CoinCreations = {"create"}
    MintConditions = {"K0", "K1", "W"}
    MintFulfills <- MCMintFulfills
    Addresses <- MCAddresses
    GenesisAuthCondition = "Q0"
    AuthUpdates <- MCAuthUpdates
    AuthConditionUpdates <- MCAuthConditionUpdates
    AuthConditions = {"Q0", "Q1"}
    AuthFulfills <- MCAuthFulfills
    UnlockHash <- MCUnlockHash
    PlainTransactions <- MCPlain
    Members <- MCMembers
    ActiveBSEstimationBlocks = 2
    Configurations = {{"minting"}, {"authcoin"}}
    Mint = "minting"
    Auth = "authcoin"
    Explorer = explorer
INVARIANTS
    SubscribersFollowPath
    SavedCopiesResume
    PluginsFollowPath
    ExplorerFollowsPath
PROPERTIES
    PluginsGuardPath
