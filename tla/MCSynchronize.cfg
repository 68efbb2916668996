SPECIFICATION Spec
CONSTANTS
    g = g  a1 = a1  a2 = a2  d1 = d1  d2 = d2
    n1 = n1  n2 = n2  n3 = n3  t0 = t0  c1 = c1
    Blocks = {g, a1, a2, d1, d2}
    Genesis = g
    Parent <- MCParent
    Difficulty <- MCDifficulty
    Timestamp <- MCZero
    Txns <- MCTxns
    MinerPayouts <- MCNoPayouts
    HeaderValid = {g, a1, a2, d1, d2}
    Transactions = {t0}
    Outputs = {}
    CoinInputs <- MCNone
    CoinOutputs <- MCNone
    BlockStakeInputs <- MCNone
    BlockStakeOutputs <- MCNone
    MinerFee <- MCFee
    Value <- MCNoValue
    Fulfilled = {t0}
    MaturityDelay = 1
    BlockCreatorFee = 0
    HistorySize = 3
    DenseBlocks = 1
    Nodes = {n1, n2, n3}
    Peers <- MCLine
    MaxCatchUpBlocks = 1
    Calls = {c1}
    WireBatches = 1
    MaxDisturbances = 1
INVARIANTS
    NetworkIsConsistent
    SessionServesBranch
    NobodyLeftBehind
SYMMETRY MCSymmetry
CHECK_DEADLOCK FALSE
