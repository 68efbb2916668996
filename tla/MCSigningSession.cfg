SPECIFICATION Spec
CONSTANTS
    k1 = k1  k2 = k2  k3 = k3
    LowKeys = {k2}
    ArbitraryDataSizeLimit = 16384
    BlockSizeLimit = 2000000
    MinimumMinerFee = 1
    requireMinerFees = FALSE
    Sessions <- MCSessions
    Wallets <- MCWallets
    NewOwner <- MCNewOwner
    Beneficiary = k3
    Replacement = k2
    MaxSigns = 3
    MaxTime = 2
INVARIANTS
    SpentByOwnersOnly
    OwnersSucceed
    EncodingsAgree
CHECK_DEADLOCK FALSE
