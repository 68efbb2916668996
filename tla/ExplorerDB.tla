----------------------------- MODULE ExplorerDB -----------------------------
(***************************************************************************)
(* modules/explorer: the database from which the explorer answers.  A      *)
(* consensus change is one transaction of that database: the reverted      *)
(* blocks are taken out, the applied ones put in, and a panic on the way   *)
(* undoes it all and then ends the process (build.Critical).               *)
(*                                                                         *)
(* A bucket of buckets is a set of tuples.  A nested bucket that becomes   *)
(* empty is deleted, and a removal from a nested bucket that does not      *)
(* exist is a nil dereference, i.e. a panic.  Coin and block stake outputs *)
(* have buckets of their own with the same layout; their ids differ, so    *)
(* one set stands for both.                                                *)
(***************************************************************************)
EXTENDS Minting, AuthCoin, SequencesExt

CONSTANTS
    Members,                  \* wallet addresses behind a multisig unlock hash
    ActiveBSEstimationBlocks

ASSUME ExplorerAssumption ==
    /\ Members \in [Addresses -> SUBSET Addresses]
    /\ ActiveBSEstimationBlocks \in Nat \ {0}

EmptyDB ==
    [height |-> 0, blockIDs |-> {}, targets |-> {}, txIDs |-> {}, outputIDs |-> {},
     outputs |-> {}, hashes |-> {}, multisigs |-> {}, facts |-> EmptyBucket, panic |-> FALSE]

----------------------------------------------------------------------------
(* Nested buckets. *)

dbAddUnlockHash(db, u, id) == [db EXCEPT !.hashes = @ \cup {<<u, id>>}]
dbRemoveUnlockHash(db, u, id) ==
    [db EXCEPT !.hashes = @ \ {<<u, id>>},
               !.panic = @ \/ ~\E e \in db.hashes : e[1] = u]

dbAddOutputID(db, o, id) == [db EXCEPT !.outputIDs = @ \cup {<<o, id>>}]
dbRemoveOutputID(db, o, id) ==
    [db EXCEPT !.outputIDs = @ \ {<<o, id>>},
               !.panic = @ \/ ~\E e \in db.outputIDs : e[1] = o]

\* The hash of a condition and, behind it, the addresses of a multisig wallet.
mapUnlockConditionHash(db, u, id) ==
    [dbAddUnlockHash(db, u, id) EXCEPT !.multisigs = @ \cup {<<w, u, id>> : w \in Members[u]}]
unmapUnlockConditionHash(db, u, id) ==
    [dbRemoveUnlockHash(db, u, id) EXCEPT
       !.multisigs = @ \ {<<w, u, id>> : w \in Members[u]},
       !.panic = @ \/ \E w \in Members[u] : ~\E e \in db.multisigs : e[1] = w /\ e[2] = u]

\* An output that is not in the database is logged or ignored.
mapParentUnlockConditionHash(o, id, db) ==
    LET d == dbAddOutputID(db, o, id)
    IN  IF o \in d.outputs THEN mapUnlockConditionHash(d, UnlockHash[o], id) ELSE d
unmapParentUnlockConditionHash(o, id, db) ==
    LET d == dbRemoveOutputID(db, o, id)
    IN  IF o \in d.outputs THEN unmapUnlockConditionHash(d, UnlockHash[o], id) ELSE d

addOutput(o, id, db) ==
    [mapUnlockConditionHash(dbAddOutputID(db, o, id), UnlockHash[o], id) EXCEPT
       !.outputs = @ \cup {o}]
removeOutput(o, id, db) ==
    [unmapUnlockConditionHash(dbRemoveOutputID(db, o, id), UnlockHash[o], id) EXCEPT
       !.outputs = @ \ {o}]

\* A miner payout names an unlock hash and no condition.
addPayout(o, id, db) ==
    [dbAddUnlockHash(dbAddOutputID(db, o, id), UnlockHash[o], id) EXCEPT !.outputs = @ \cup {o}]
removePayout(o, id, db) ==
    [dbRemoveUnlockHash(dbRemoveOutputID(db, o, id), UnlockHash[o], id) EXCEPT !.outputs = @ \ {o}]

\* GetCommonExtensionData of the controllers of the two extensions; a
\* condition is named by its unlock hash.
CommonExtensionData(t) ==
    CASE t \in DOMAIN MintDefinitions -> <<MintDefinitions[t]>>
      [] t \in DOMAIN AuthUpdates -> AuthUpdates[t].auth \o AuthUpdates[t].deauth
      [] t \in DOMAIN AuthConditionUpdates -> <<AuthConditionUpdates[t]>>
      [] OTHER -> <<>>

----------------------------------------------------------------------------
(* One block. *)

\* Removals run forward through the block: inputs, then outputs.
revertTransaction(db, t) ==
    LET d0 == [db EXCEPT !.txIDs = {e \in @ : e[1] # t}]
        d1 == FoldSet(LAMBDA o, d : unmapParentUnlockConditionHash(o, t, d), d0, CoinInputs[t])
        d2 == FoldSet(LAMBDA o, d : removeOutput(o, t, d), d1, CoinOutputs[t])
        d3 == FoldSet(LAMBDA o, d : unmapParentUnlockConditionHash(o, t, d), d2, BlockStakeInputs[t])
        d4 == FoldSet(LAMBDA o, d : removeOutput(o, t, d), d3, BlockStakeOutputs[t])
    IN  FoldLeft(LAMBDA d, u : unmapUnlockConditionHash(d, u, t), d4, CommonExtensionData(t))

\* Additions: outputs, then inputs.
applyTransaction(db, t, h) ==
    LET d0 == [db EXCEPT !.txIDs = @ \cup {<<t, h>>}]
        d1 == FoldSet(LAMBDA o, d : addOutput(o, t, d), d0, CoinOutputs[t])
        d2 == FoldSet(LAMBDA o, d : mapParentUnlockConditionHash(o, t, d), d1, CoinInputs[t])
        d3 == FoldSet(LAMBDA o, d : addOutput(o, t, d), d2, BlockStakeOutputs[t])
        d4 == FoldSet(LAMBDA o, d : mapParentUnlockConditionHash(o, t, d), d3, BlockStakeInputs[t])
    IN  FoldLeft(LAMBDA d, u : mapUnlockConditionHash(d, u, t), d4, CommonExtensionData(t))

\* Mutant: the facts of the block stay.
revertBlockKeepFacts(db, b) ==
    LET d0 == [db EXCEPT !.height = @ - 1,
                         !.blockIDs = {e \in @ : e[1] # b},
                         !.targets = @ \ {b},
                         !.txIDs = {e \in @ : e[1] # b}]
        d1 == FoldSet(LAMBDA o, d : removePayout(o, b, d), d0, MinerPayouts[b])
    IN  FoldLeft(revertTransaction, d1, Txns[b])

\* The miner payouts are filed under a transaction with the id of the block.
revertBlock(db, b) ==
    LET d0 == [db EXCEPT !.height = @ - 1,
                         !.blockIDs = {e \in @ : e[1] # b},
                         !.targets = @ \ {b},
                         !.txIDs = {e \in @ : e[1] # b}]
        d1 == FoldSet(LAMBDA o, d : removePayout(o, b, d), d0, MinerPayouts[b])
        d2 == FoldLeft(revertTransaction, d1, Txns[b])
    IN  [d2 EXCEPT !.facts = DeleteAt(@, b)]

\* dbCalculateBlockFacts: the facts of the parent, and what the consensus set
\* has NOW, on path p, at lower heights.
BlockFacts(parent, b, p) ==
    LET h == parent.height + 1
        old == h - MaturityDelay
        N == ActiveBSEstimationBlocks
        window == {p[h + 1 - i] : i \in 1..(N - 1)}
    IN  [height |-> h,
         difficulty |-> Difficulty[Parent[b]],
         maturity |-> IF h > MaturityDelay THEN Timestamp[p[old + 1]] ELSE 0,
         active |-> IF h > N
                    THEN <<Difficulty[Parent[b]]
                             + MapThenSumSet(LAMBDA c : Difficulty[Parent[c]], window),
                           Timestamp[b] - (IF N > 1 THEN Timestamp[p[h + 2 - N]] ELSE 0)>>
                    ELSE <<0, 0>>,
         payouts |-> parent.payouts + Cardinality(MinerPayouts[b]),
         transactions |-> parent.transactions + Len(Txns[b])]

\* dbAddGenesisBlock.
GenesisFacts ==
    [height |-> 0, difficulty |-> 1, maturity |-> 0, active |-> <<0, 0>>,
     payouts |-> 0, transactions |-> 1]
addGenesisBlock(db) ==
    [applyTransaction(db, GenesisTxn, 0) EXCEPT
       !.blockIDs = @ \cup {<<Genesis, 0>>}, !.facts = PutAt(@, Genesis, GenesisFacts)]

\* BlockAtHeight finds the blocks that the facts of a block at height h need.
HasBlocks(p, h) ==
    /\ h > MaturityDelay => Len(p) > h - MaturityDelay
    /\ h > ActiveBSEstimationBlocks /\ ActiveBSEstimationBlocks > 1 => Len(p) > h - 1

applyBlock(db, b, p) ==
    LET h == db.height + 1
        d0 == [db EXCEPT !.height = h,
                         !.blockIDs = @ \cup {<<b, h>>},
                         !.targets = @ \cup {b},
                         !.txIDs = @ \cup {<<b, h>>}]
        d1 == FoldSet(LAMBDA o, d : addPayout(o, b, d), d0, MinerPayouts[b])
        d2 == FoldLeft(LAMBDA d, t : applyTransaction(d, t, h), d1, Txns[b])
    IN  IF b = Genesis THEN addGenesisBlock(db)
        ELSE IF Parent[b] \notin DOMAIN db.facts THEN d2
        ELSE IF ~HasBlocks(p, h) THEN [d2 EXCEPT !.panic = TRUE]
        ELSE [d2 EXCEPT !.facts = PutAt(@, b, BlockFacts(db.facts[Parent[b]], b, p))]

\* ProcessConsensusChange for entry e, while the active path is p.
explorerUpdate(db, e, p) ==
    LET d1 == FoldLeft(revertBlock, db, e.reverted)
        d2 == FoldLeft(LAMBDA d, b : applyBlock(d, b, p), d1, e.applied)
    IN  [d2 EXCEPT !.panic = @ \/ Len(p) < d2.height + 1]

=============================================================================
