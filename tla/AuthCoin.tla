------------------------------ MODULE AuthCoin ------------------------------
(***************************************************************************)
(* extensions/authcointx: who may hold coins.  The plugin keeps, by        *)
(* height, the condition that authorises updates, and for every address    *)
(* that was ever (de)authorised a bucket of its states by height.  An      *)
(* address without a state is not authorised.                              *)
(***************************************************************************)
EXTENDS BlockTree, HeightIndex

CONSTANTS
    Addresses,            \* unlock hashes
    GenesisAuthCondition,
    AuthUpdates,          \* auth address update txns: records [auth, deauth] of sequences
    AuthConditionUpdates, \* auth condition update txns and the condition they define
    AuthConditions,       \* conditions with an unlock hash of an allowed type
    AuthFulfills,         \* conditions the AuthFulfillment of a transaction fulfills
    UnlockHash,           \* unlock hash of the condition of an output
    PlainTransactions     \* transactions of version zero and one

ASSUME AuthAssumption ==
    /\ DOMAIN AuthUpdates \cap DOMAIN AuthConditionUpdates = {}
    /\ DOMAIN AuthFulfills = DOMAIN AuthUpdates \cup DOMAIN AuthConditionUpdates
    /\ \A t \in DOMAIN AuthFulfills : CoinInputs[t] \cup CoinOutputs[t] = {}
    /\ UnlockHash \in [Outputs -> Addresses]

Listed(s) == {s[i] : i \in DOMAIN s}

AuthInitPlugin ==
    [conditions |-> PutAt(EmptyBucket, 0, GenesisAuthCondition),
     addresses |-> [a \in {} |-> EmptyBucket]]

\* The states of an address; CreateBucketIfNotExists makes an empty bucket.
AddressBucket(addresses, a) == IF a \in DOMAIN addresses THEN addresses[a] ELSE EmptyBucket

PutStates(addresses, S, h, state) ==
    [a \in S |-> PutAt(AddressBucket(addresses, a), h, state)] @@ addresses

AuthApplyTransaction(db, t, h) ==
    CASE t \in DOMAIN AuthConditionUpdates ->
           [db EXCEPT !.conditions = PutAt(@, h, AuthConditionUpdates[t])]
      [] t \in DOMAIN AuthUpdates ->
           [db EXCEPT !.addresses =
              PutStates(PutStates(@, Listed(AuthUpdates[t].auth), h, TRUE),
                        Listed(AuthUpdates[t].deauth), h, FALSE)]
      [] OTHER -> db

\* The buckets of the addresses stay, empty if need be.
AuthRevertTransaction(db, t, h) ==
    CASE t \in DOMAIN AuthConditionUpdates -> [db EXCEPT !.conditions = DeleteAt(@, h)]
      [] t \in DOMAIN AuthUpdates ->
           [db EXCEPT !.addresses =
              [a \in Listed(AuthUpdates[t].auth \o AuthUpdates[t].deauth) |->
                 DeleteAt(AddressBucket(@, a), h)] @@ @]
      [] OTHER -> db

\* getAuthAddressStateFromBucketWithContextInfo, for a transaction in a block.
Authorized(db, a, h) == ValueAt(AddressBucket(db.addresses, a), h, FALSE)

AuthConditionAt(db, h) == ValueAt(db.conditions, h, "none")

dedupAddresses(t) == {UnlockHash[o] : o \in CoinInputs[t] \cup CoinOutputs[t]}

\* DefaultUnauthorizedCoinTransactionExceptionCallback: coins collected at one
\* and the same address.
ExceptionCallback(t) ==
    /\ t \in PlainTransactions
    /\ Cardinality(dedupAddresses(t)) = 1
    /\ Cardinality(CoinOutputs[t]) <= 1

\* Mutant: only the receiving addresses are looked at.
validateAuthorizedCoinFlowOutputsOnly(db, t, h) ==
    \/ dedupAddresses(t) = {}
    \/ ExceptionCallback(t)
    \/ \A o \in CoinOutputs[t] : Authorized(db, UnlockHash[o], h)

validateAuthorizedCoinFlowForAllTxs(db, t, h) ==
    \/ dedupAddresses(t) = {}
    \/ ExceptionCallback(t)
    \/ \A a \in dedupAddresses(t) : Authorized(db, a, h)

validateAuthAddressUpdateTx(db, t, h) ==
    LET auth == AuthUpdates[t].auth
        deauth == AuthUpdates[t].deauth
    IN  /\ AuthConditionAt(db, h) \in AuthFulfills[t]
        /\ auth \o deauth # <<>>
        /\ Cardinality(Listed(auth \o deauth)) = Len(auth) + Len(deauth)
        /\ \A a \in Listed(auth) : ~Authorized(db, a, h)
        /\ \A a \in Listed(deauth) : Authorized(db, a, h)

validateAuthConditionUpdateTx(db, t, h) ==
    /\ AuthConditionUpdates[t] # AuthConditionAt(db, h)
    /\ AuthConditionUpdates[t] \in AuthConditions
    /\ AuthConditionAt(db, h) \in AuthFulfills[t]

AuthValid(db, t, h) ==
    /\ t \in DOMAIN AuthUpdates => validateAuthAddressUpdateTx(db, t, h)
    /\ t \in DOMAIN AuthConditionUpdates => validateAuthConditionUpdateTx(db, t, h)
    /\ validateAuthorizedCoinFlowForAllTxs(db, t, h)

=============================================================================
