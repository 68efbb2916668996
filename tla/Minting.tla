------------------------------ MODULE Minting ------------------------------
(***************************************************************************)
(* extensions/minting: who may create coins.  The plugin keeps one mint    *)
(* condition per height at which a minter definition transaction changed   *)
(* it; a minter definition or a coin creation is valid if it fulfills the  *)
(* condition in force at its height.                                       *)
(***************************************************************************)
EXTENDS HeightIndex

CONSTANTS
    GenesisMintCondition,
    MintDefinitions,  \* minter definition transactions and the condition they define
    CoinCreations,    \* coin creation transactions
    MintConditions,   \* standard conditions that validateMintCondition allows
    MintFulfills      \* conditions the MintFulfillment of a transaction fulfills

ASSUME MintAssumption ==
    /\ GenesisMintCondition \in MintConditions
    /\ DOMAIN MintDefinitions \cap CoinCreations = {}
    /\ DOMAIN MintFulfills = DOMAIN MintDefinitions \cup CoinCreations

NoCondition == "none"

MintInitPlugin == PutAt(EmptyBucket, 0, GenesisMintCondition)

MintApplyTransaction(bucket, t, h) ==
    IF t \in DOMAIN MintDefinitions THEN PutAt(bucket, h, MintDefinitions[t]) ELSE bucket

MintRevertTransaction(bucket, t, h) ==
    IF t \in DOMAIN MintDefinitions THEN DeleteAt(bucket, h) ELSE bucket

\* getMintConditionFromBucketWithContextInfo, for a transaction in a block.
MintConditionAt(bucket, h) == ValueAt(bucket, h, NoCondition)

validateMinterDefinitionTx(bucket, t, h) ==
    /\ MintDefinitions[t] \in MintConditions
    /\ MintConditionAt(bucket, h) \in MintFulfills[t]

validateCoinCreationTx(bucket, t, h) == MintConditionAt(bucket, h) \in MintFulfills[t]

\* The validators that validateTransactionUsingPlugins finds for t's version.
MintValid(bucket, t, h) ==
    /\ t \in DOMAIN MintDefinitions => validateMinterDefinitionTx(bucket, t, h)
    /\ t \in CoinCreations => validateCoinCreationTx(bucket, t, h)

=============================================================================
