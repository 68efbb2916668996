---------------------------- MODULE ConsensusSet ----------------------------
(***************************************************************************)
(* The consensus set of modules/consensus: the block tree, the choice of   *)
(* the active fork, and the ledger (unspent outputs) of the active fork.   *)
(*                                                                         *)
(* A call of managedAcceptBlock runs under cs.mu and changes the database  *)
(* in one bolt transaction.  db is what is committed, wtx is what the open *)
(* transaction sees; they are equal when no call is in progress.  A step   *)
(* is one iteration of one of the loops of the call, so that a crash may   *)
(* fall between any two of them, and an error rolls wtx back to db.        *)
(*                                                                         *)
(* The model is of a release build: build.Severe prints and goes on.  The  *)
(* flag severe records that one of the code's own sanity checks failed.    *)
(***************************************************************************)
EXTENDS BlockTree

CONSTANTS FutureThreshold, ExtremeFutureThreshold,
          MaxTime      \* bound on the clock

ASSUME ClockAssumption ==
    /\ FutureThreshold \in Nat
    /\ ExtremeFutureThreshold \in Nat
    /\ MaxTime \in Nat

VARIABLES
    db,        \* the committed database
    wtx,       \* the database as the open transaction sees it
    pc,        \* where the call that holds cs.mu is; "idle": nobody holds it
    newPath,   \* blocks from the common parent to the new block
    pos,       \* index in newPath of the current block, once reverting is done
    txIdx,     \* next transaction of the block being validated
    diffs,     \* the diffs generated so far for the block being validated
    reverted,  \* blocks reverted by this call, in that order
    severe,    \* some sanity check (build.Severe, build.Critical) has failed
    dosBlocks, \* cs.dosBlocks: blocks found invalid by this process
    sleeping,  \* blocks of the near future, each waiting in a goroutine
    now        \* the wall clock

call == <<pc, newPath, pos, txIdx, diffs, reverted>>
vars == <<db, wtx, call, severe, dosBlocks, sleeping, now>>

----------------------------------------------------------------------------
(* The database.  An index bucket of bolt is a function whose domain is    *)
(* the set of its keys, or a set when the value is fixed by the key.       *)

Put(f, k, v) == [x \in DOMAIN f \cup {k} |-> IF x = k THEN v ELSE f[x]]

NoDiff == [add |-> {}, del |-> {}]
NoDiffs == [coins |-> NoDiff, stakes |-> NoDiff, dcos |-> NoDiff, txids |-> NoDiff]

\* cs.blockRoot of New and the buckets createConsensusDB fills.
blockRoot ==
    [height |-> 0, depth |-> 0, diffsGenerated |-> TRUE,
     diffs |-> [NoDiffs EXCEPT !.coins.add = CoinOutputs[GenesisTxn],
                               !.stakes.add = BlockStakeOutputs[GenesisTxn]]]

createConsensusDB ==
    [blockMap |-> [b \in {Genesis} |-> blockRoot],
     path     |-> <<Genesis>>,                        \* BlockPath and BlockHeight
     coins    |-> CoinOutputs[GenesisTxn],            \* CoinOutputs
     stakes   |-> BlockStakeOutputs[GenesisTxn],      \* BlockStakeOutputs
     dcos     |-> {},                                 \* <<maturity height, output>>
     buckets  |-> {},                                 \* heights that have a DCO bucket
     txids    |-> {},                                 \* <<transaction, height, index>>
     log      |-> [e \in {genesisEntry} |-> NoEntry], \* ChangeLog: entry -> next
     tail     |-> genesisEntry,                       \* ChangeLogTailID
     inconsistent |-> FALSE]

blockHeight(d) == Len(d.path) - 1
currentBlockID(d) == d.path[Len(d.path)]
getPath(d, h) == d.path[h + 1]
pushPath(d, b) == [d EXCEPT !.path = Append(@, b)]
popPath(d) == [d EXCEPT !.path = SubSeq(@, 1, Len(@) - 1)]

\* bolt refuses to create a bucket that exists and to delete one that does not.
createDCOBucket(d, h) == [d EXCEPT !.buckets = @ \cup {h}]
deleteDCOBucket(d, h) ==
    [d EXCEPT !.buckets = @ \ {h}, !.dcos = {p \in @ : p[1] # h}]

\* Mutant: the previous tail is not linked to the new entry.
appendChangeLogUnlinked(d, ce) == [d EXCEPT !.log = Put(@, ce, NoEntry), !.tail = ce]

appendChangeLog(d, ce) ==
    LET log1 == Put(d.log, ce, NoEntry)
    IN  [d EXCEPT !.log  = IF d.tail = NoEntry THEN log1
                           ELSE [log1 EXCEPT ![d.tail] = ce],
                  !.tail = ce]

----------------------------------------------------------------------------
(* Weight of a chain. *)

childDepth(d, b) == d.blockMap[b].depth + Difficulty[b]

\* Mutant: without the threshold, and for a branch of the same weight.
heavierThanOrEqual(d, b, cmp) == d.blockMap[b].depth >= d.blockMap[cmp].depth

\* The new block must exceed the current one by more than SurpassThreshold,
\* 20 percent of the current block's child difficulty.
heavierThan(d, b, cmp) ==
    5 * d.blockMap[b].depth > 5 * d.blockMap[cmp].depth + Difficulty[cmp]

newChild(d, b) ==
    LET parent == Parent[b]
    IN  [d EXCEPT !.blockMap =
            Put(@, b, [height |-> d.blockMap[parent].height + 1,
                       depth  |-> childDepth(d, parent),
                       diffsGenerated |-> FALSE,
                       diffs  |-> NoDiffs])]

----------------------------------------------------------------------------
(* Diffs.  Every output is added at most once and removed at most once by  *)
(* a block, and removed after it is added, so that the diff sequences of   *)
(* the code are the sets of what they add and of what they delete.         *)

DiffApply == TRUE
DiffRevert == FALSE

\* commitCoinOutputDiff and its siblings, over all the diffs of a block:
\* reverting goes through them backwards with the direction flipped.
commitDiff(S, diff, dir) ==
    IF dir = DiffApply THEN (S \cup diff.add) \ diff.del
                       ELSE (S \cup diff.del) \ diff.add

\* What addCoinOutput, removeCoinOutput and the like check: never add what is
\* there, never remove what is not.
DiffIsSane(S, diff, dir) ==
    IF dir = DiffApply
    THEN diff.add \cap S = {} /\ diff.del \subseteq (S \cup diff.add)
    ELSE diff.del \cap S = {} /\ diff.add \subseteq (S \cup diff.del)

commitNodeDiffs(d, df, dir) ==
    [d EXCEPT !.coins  = commitDiff(@, df.coins, dir),
              !.stakes = commitDiff(@, df.stakes, dir),
              !.dcos   = commitDiff(@, df.dcos, dir),
              !.txids  = commitDiff(@, df.txids, dir)]

\* The checks of one commitNodeDiffs, those of addDCO included: the output
\* has not matured yet and the bucket of its maturity height exists.
NodeDiffsAreSane(d, df, dir) ==
    LET after == commitNodeDiffs(d, df, dir)
    IN  /\ DiffIsSane(d.coins, df.coins, dir)
        /\ DiffIsSane(d.stakes, df.stakes, dir)
        /\ DiffIsSane(d.dcos, df.dcos, dir)
        /\ DiffIsSane(d.txids, df.txids, dir)
        /\ \A t1, t2 \in after.txids : t1[1] = t2[1] => t1 = t2
        /\ \A p \in after.dcos : p[1] \in d.buckets /\ p[2] \notin after.coins

updateCurrentPath(d, b, dir) == IF dir = DiffApply THEN pushPath(d, b) ELSE popPath(d)

commitDiffSet(d, b, dir) ==
    updateCurrentPath(commitNodeDiffs(d, d.blockMap[b].diffs, dir), b, dir)

rewoundBlock(d, b) ==
    LET h == d.blockMap[b].height
    IN  deleteDCOBucket(commitDiffSet(createDCOBucket(d, h), b, DiffRevert),
                        h + MaturityDelay)

forwardedBlock(d, b) ==
    LET h == d.blockMap[b].height
    IN  deleteDCOBucket(commitDiffSet(createDCOBucket(d, h + MaturityDelay), b, DiffApply),
                        h)

\* The sanity checks on the way: buckets are created once and deleted when
\* they exist, diffs were generated, and the block is the current block
\* (revert) or a child of it (apply).
RewindIsSane(d, b) ==
    LET h == d.blockMap[b].height
    IN  /\ h \notin d.buckets
        /\ h + MaturityDelay \in d.buckets
        /\ d.blockMap[b].diffsGenerated
        /\ b = currentBlockID(d)
        /\ NodeDiffsAreSane(createDCOBucket(d, h), d.blockMap[b].diffs, DiffRevert)

ForwardIsSane(d, b) ==
    LET h == d.blockMap[b].height
    IN  /\ h + MaturityDelay \notin d.buckets
        /\ h \in d.buckets
        /\ Parent[b] = currentBlockID(d)
        /\ NodeDiffsAreSane(createDCOBucket(d, h + MaturityDelay),
                            d.blockMap[b].diffs, DiffApply)

\* applyTransaction: the diffs of one transaction, at index i of its block.
TransactionDiffs(t, h, i) ==
    [coins  |-> [add |-> CoinOutputs[t], del |-> CoinInputs[t]],
     stakes |-> [add |-> BlockStakeOutputs[t], del |-> BlockStakeInputs[t]],
     dcos   |-> NoDiff,
     txids  |-> [add |-> {<<t, h, i>>}, del |-> {}]]

\* Mutant: matured outputs leave with their bucket, without a diff of their own.
MaintenanceDiffsNoRemoval(d, b, h) ==
    [coins  |-> [add |-> {p[2] : p \in {q \in d.dcos : q[1] = h}}, del |-> {}],
     stakes |-> NoDiff,
     dcos   |-> [add |-> {h + MaturityDelay} \X MinerPayouts[b], del |-> {}],
     txids  |-> NoDiff]

\* applyMaintenance: the payouts of the block become delayed outputs, and the
\* delayed outputs of this height, if there are any, become coins.
MaintenanceDiffs(d, b, h) ==
    LET matured == {p \in d.dcos : p[1] = h}
    IN  [coins  |-> [add |-> {p[2] : p \in matured}, del |-> {}],
         stakes |-> NoDiff,
         dcos   |-> [add |-> {h + MaturityDelay} \X MinerPayouts[b], del |-> matured],
         txids  |-> NoDiff]

AddDiff(d1, d2) == [add |-> d1.add \cup d2.add, del |-> d1.del \cup d2.del]
AddDiffs(d1, d2) ==
    [coins  |-> AddDiff(d1.coins, d2.coins), stakes |-> AddDiff(d1.stakes, d2.stakes),
     dcos   |-> AddDiff(d1.dcos, d2.dcos),   txids  |-> AddDiff(d1.txids, d2.txids)]

\* The input lookups of generateAndApplyDiff and the standard validators.
validTransaction(d, t) ==
    /\ CoinInputs[t] \subseteq d.coins
    /\ BlockStakeInputs[t] \subseteq d.stakes
    /\ t \in Fulfilled
    /\ ValueSum(CoinInputs[t]) = ValueSum(CoinOutputs[t]) + MinerFee[t]
    /\ ValueSum(BlockStakeInputs[t]) = ValueSum(BlockStakeOutputs[t])

\* checkBlockStakeCount, run with a probability of 1/1000 after a block was
\* reverted or applied: the set of databases it may leave behind.
maybeCheckConsistency(d) ==
    IF ValueSum(d.stakes) = GenesisBlockStakeCount
    THEN {d}
    ELSE {d, [d EXCEPT !.inconsistent = TRUE]}

----------------------------------------------------------------------------
(* The steps of managedAcceptBlock. *)

Init ==
    /\ db = createConsensusDB
    /\ wtx = db
    /\ pc = "idle"
    /\ newPath = <<>>
    /\ pos = 0
    /\ txIdx = 0
    /\ diffs = NoDiffs
    /\ reverted = <<>>
    /\ severe = FALSE
    /\ dosBlocks = {}
    /\ sleeping = {}
    /\ now = 0

validateHeaderAndBlock(b) ==
    IF b \in dosBlocks THEN "errDoSBlock"
    ELSE IF b \in DOMAIN db.blockMap THEN "ErrBlockKnown"
    ELSE IF Parent[b] \notin DOMAIN db.blockMap THEN "errOrphan"
    ELSE IF b \notin HeaderValid THEN "invalid"
    ELSE IF Timestamp[b] > now + ExtremeFutureThreshold THEN "errExtremeFutureTimestamp"
    ELSE IF ~checkMinerPayouts(b) THEN "errBadMinerPayouts"
    ELSE IF Timestamp[b] > now + FutureThreshold THEN "errFutureTimestamp"
    ELSE "ok"

\* The end of a call: the lock is released and its local variables are gone.
Return ==
    /\ pc' = "idle"
    /\ newPath' = <<>>
    /\ pos' = 0
    /\ txIdx' = 0
    /\ diffs' = NoDiffs
    /\ reverted' = <<>>

\* Mutant: only a child of the current block makes the node move.
addBlockToTreeNoFork(b) ==
    LET d == newChild(db, b)
    IN  /\ wtx' = d
        /\ IF heavierThan(d, b, currentBlockID(d)) /\ Parent[b] = currentBlockID(d)
           THEN /\ pc' = "backtrack"
                /\ newPath' = <<b>>
                /\ UNCHANGED <<db, pos, txIdx, diffs, reverted>>
           ELSE /\ db' = d
                /\ UNCHANGED call

\* A new block enters the tree.  When it is not heavier than the current
\* block that is all; the change is committed and the call returns
\* ErrNonExtendingBlock.
addBlockToTree(b) ==
    LET d == newChild(db, b)
    IN  /\ wtx' = d
        /\ IF heavierThan(d, b, currentBlockID(d))
           THEN /\ pc' = "backtrack"
                /\ newPath' = <<b>>
                /\ UNCHANGED <<db, pos, txIdx, diffs, reverted>>
           ELSE /\ db' = d
                /\ UNCHANGED call

\* A peer, the block creator or the API hands in a block.
managedAcceptBlock(b) ==
    /\ pc = "idle"
    /\ ~db.inconsistent
    /\ validateHeaderAndBlock(b) = "ok"
    /\ addBlockToTree(b)
    /\ UNCHANGED <<severe, dosBlocks, sleeping, now>>

\* A block of the near future is kept by a goroutine that sleeps ...
deferFutureBlock(b) ==
    /\ pc = "idle"
    /\ ~db.inconsistent
    /\ validateHeaderAndBlock(b) = "errFutureTimestamp"
    /\ sleeping' = sleeping \cup {b}
    /\ UNCHANGED <<db, wtx, call, severe, dosBlocks, now>>

\* ... and hands it in again when its time has come.
acceptFutureBlock(b) ==
    /\ pc = "idle"
    /\ b \in sleeping
    /\ Timestamp[b] <= now + FutureThreshold
    /\ sleeping' = sleeping \ {b}
    /\ IF ~db.inconsistent /\ validateHeaderAndBlock(b) = "ok"
       THEN addBlockToTree(b)
       ELSE UNCHANGED <<db, wtx, call>>
    /\ UNCHANGED <<severe, dosBlocks, now>>

\* backtrackToCurrentPath.  The code runs it twice, before and after
\* reverting; both runs stop at the same common parent.
OnCurrentPath(d, b) ==
    LET h == d.blockMap[b].height
    IN  h <= blockHeight(d) /\ getPath(d, h) = b

backtrackToCurrentPath ==
    /\ pc = "backtrack"
    /\ IF OnCurrentPath(wtx, newPath[1])
       THEN pc' = "revert" /\ UNCHANGED newPath
       ELSE newPath' = <<Parent[newPath[1]]>> \o newPath /\ UNCHANGED pc
    /\ UNCHANGED <<db, wtx, pos, txIdx, diffs, reverted, severe, dosBlocks, sleeping, now>>

\* revertToBlock: one block of the current path is rewound.
rewindBlock ==
    LET b == currentBlockID(wtx)
    IN  /\ pc = "revert"
        /\ b # newPath[1]
        /\ wtx' \in maybeCheckConsistency(rewoundBlock(wtx, b))
        /\ severe' = (severe \/ ~RewindIsSane(wtx, b))
        /\ reverted' = Append(reverted, b)
        /\ UNCHANGED <<db, pc, newPath, pos, txIdx, diffs, dosBlocks, sleeping, now>>

revertDone ==
    /\ pc = "revert"
    /\ currentBlockID(wtx) = newPath[1]
    /\ pc' = "apply"
    /\ pos' = 1
    /\ UNCHANGED <<db, wtx, newPath, txIdx, diffs, reverted, severe, dosBlocks, sleeping, now>>

\* applyUntilBlock: a block that was validated before is applied by its diffs.
forwardBlock ==
    LET b == newPath[pos + 1]
    IN  /\ pc = "apply"
        /\ pos < Len(newPath)
        /\ wtx.blockMap[b].diffsGenerated
        /\ wtx' \in maybeCheckConsistency(forwardedBlock(wtx, b))
        /\ severe' = (severe \/ ~ForwardIsSane(wtx, b))
        /\ pos' = pos + 1
        /\ UNCHANGED <<db, pc, newPath, txIdx, diffs, reverted, dosBlocks, sleeping, now>>

\* generateAndApplyDiff, up to the loop over the transactions ...
generateStart ==
    LET b == newPath[pos + 1]
        h == wtx.blockMap[b].height + MaturityDelay
    IN  /\ pc = "apply"
        /\ pos < Len(newPath)
        /\ ~wtx.blockMap[b].diffsGenerated
        /\ wtx' = createDCOBucket(wtx, h)
        /\ severe' = (severe \/ h \in wtx.buckets \/ Parent[b] # currentBlockID(wtx))
        /\ pc' = "generate"
        /\ txIdx' = 1
        /\ diffs' = NoDiffs
        /\ UNCHANGED <<db, newPath, pos, reverted, dosBlocks, sleeping, now>>

\* ... a valid transaction ...
generateTransaction ==
    LET b  == newPath[pos + 1]
        t  == Txns[b][txIdx]
        df == TransactionDiffs(t, wtx.blockMap[b].height, txIdx - 1)
    IN  /\ pc = "generate"
        /\ txIdx <= Len(Txns[b])
        /\ validTransaction(wtx, t)
        /\ wtx' = commitNodeDiffs(wtx, df, DiffApply)
        /\ severe' = (severe \/ ~NodeDiffsAreSane(wtx, df, DiffApply))
        /\ diffs' = AddDiffs(diffs, df)
        /\ txIdx' = txIdx + 1
        /\ UNCHANGED <<db, pc, newPath, pos, reverted, dosBlocks, sleeping, now>>

\* Mutants: the new block is blamed for what one of its ancestors did; the
\* error path forgets to release the lock.
generateFailBlamesNew ==
    /\ pc = "generate"
    /\ txIdx <= Len(Txns[newPath[pos + 1]])
    /\ ~validTransaction(wtx, Txns[newPath[pos + 1]][txIdx])
    /\ dosBlocks' = dosBlocks \cup {newPath[Len(newPath)]}
    /\ wtx' = db
    /\ Return
    /\ UNCHANGED <<db, severe, sleeping, now>>
generateFailLocked ==
    /\ pc = "generate"
    /\ txIdx <= Len(Txns[newPath[pos + 1]])
    /\ ~validTransaction(wtx, Txns[newPath[pos + 1]][txIdx])
    /\ dosBlocks' = dosBlocks \cup {newPath[pos + 1]}
    /\ wtx' = db
    /\ pc' = "failed"
    /\ UNCHANGED <<db, newPath, pos, txIdx, diffs, reverted, severe, sleeping, now>>

\* ... an invalid one: the block is remembered in memory, the transaction of
\* the database is rolled back, and with it the new block ...
generateFail ==
    LET b == newPath[pos + 1]
    IN  /\ pc = "generate"
        /\ txIdx <= Len(Txns[b])
        /\ ~validTransaction(wtx, Txns[b][txIdx])
        /\ dosBlocks' = dosBlocks \cup {b}
        /\ wtx' = db
        /\ Return
        /\ UNCHANGED <<db, severe, sleeping, now>>

\* ... and what follows the loop: maintenance, and the validated block is
\* stored with its diffs and becomes the current block.
generatedBlock(d, b, df) ==
    LET h  == d.blockMap[b].height
        m  == MaintenanceDiffs(d, b, h)
        d1 == deleteDCOBucket(commitNodeDiffs(d, m, DiffApply), h)
        pb == [d.blockMap[b] EXCEPT !.diffsGenerated = TRUE, !.diffs = AddDiffs(df, m)]
    IN  [pushPath(d1, b) EXCEPT !.blockMap = [@ EXCEPT ![b] = pb]]

generateFinish ==
    LET b == newPath[pos + 1]
        m == MaintenanceDiffs(wtx, b, wtx.blockMap[b].height)
    IN  /\ pc = "generate"
        /\ txIdx > Len(Txns[b])
        /\ wtx' \in maybeCheckConsistency(generatedBlock(wtx, b, diffs))
        /\ severe' = (severe \/ ~NodeDiffsAreSane(wtx, m, DiffApply))
        /\ pos' = pos + 1
        /\ pc' = "apply"
        /\ txIdx' = 0
        /\ diffs' = NoDiffs
        /\ UNCHANGED <<db, newPath, reverted, dosBlocks, sleeping, now>>

\* The new block is the current block: the change is logged and committed.
commitChange ==
    LET d == appendChangeLog(wtx, Entry(reverted, Tail(newPath)))
    IN  /\ pc = "apply"
        /\ pos = Len(newPath)
        /\ db' = d
        /\ wtx' = d
        /\ Return
        /\ UNCHANGED <<severe, dosBlocks, sleeping, now>>

\* The process dies, at any point, and is started again by New.
crash ==
    /\ wtx' = db
    /\ Return
    /\ dosBlocks' = {}
    /\ sleeping' = {}
    /\ UNCHANGED <<db, severe, now>>

tick ==
    /\ now < MaxTime
    /\ now' = now + 1
    /\ UNCHANGED <<db, wtx, call, severe, dosBlocks, sleeping>>

\* What the goroutine that holds cs.mu does next.
step ==
    \/ backtrackToCurrentPath
    \/ rewindBlock
    \/ revertDone
    \/ forwardBlock
    \/ generateStart
    \/ generateTransaction
    \/ generateFail
    \/ generateFinish
    \/ commitChange

Next ==
    \/ \E b \in Blocks \ {Genesis} : managedAcceptBlock(b)
    \/ \E b \in Blocks \ {Genesis} : deferFutureBlock(b)
    \/ \E b \in Blocks \ {Genesis} : acceptFutureBlock(b)
    \/ step
    \/ crash
    \/ tick

Spec == Init /\ [][Next]_vars

\* The Go scheduler runs the goroutine that holds the lock: none of the steps
\* of a call waits for another goroutine.
FairSpec == Spec /\ WF_vars(step)

----------------------------------------------------------------------------
(* Looking up a transaction. *)

NotFound == [exists |-> FALSE]

TransactionAtShortID(d, h, i) ==
    IF h <= blockHeight(d) /\ i < Len(Txns[getPath(d, h)])
    THEN [exists |-> TRUE, txn |-> Txns[getPath(d, h)][i + 1]]
    ELSE NotFound

\* The error of getTransactionShortID is dropped: without an entry in the index
\* the short id keeps its zero value.
TransactionAtID(d, t) ==
    LET found == {e \in d.txids : e[1] = t}
        e == IF found = {} THEN <<t, 0, 0>> ELSE CHOOSE x \in found : TRUE
    IN  TransactionAtShortID(d, e[2], e[3])

----------------------------------------------------------------------------
(* Properties. *)

Diff(S) == [add : SUBSET S, del : SUBSET S]
Diffs == [coins : Diff(Outputs), stakes : Diff(Outputs), dcos : Diff(Nat \X Outputs),
          txids : Diff(Transactions \X Nat \X Nat)]
ProcessedBlock == [height : Nat, depth : Nat, diffsGenerated : BOOLEAN, diffs : Diffs]
ChangeEntry == [reverted : Seq(Blocks), applied : Seq(Blocks)]

IsDatabase(d) ==
    /\ DOMAIN d = {"blockMap", "path", "coins", "stakes", "dcos", "buckets", "txids",
                   "log", "tail", "inconsistent"}
    /\ DOMAIN d.blockMap \subseteq Blocks
    /\ \A b \in DOMAIN d.blockMap : d.blockMap[b] \in ProcessedBlock
    /\ d.path \in Seq(Blocks)
    /\ d.coins \subseteq Outputs
    /\ d.stakes \subseteq Outputs
    /\ d.dcos \subseteq Nat \X Outputs
    /\ d.buckets \subseteq Nat
    /\ d.txids \subseteq Transactions \X Nat \X Nat
    /\ \A e \in DOMAIN d.log : e \in ChangeEntry /\ d.log[e] \in ChangeEntry
    /\ d.tail \in ChangeEntry
    /\ d.inconsistent \in BOOLEAN

\* Every variable has the shape its Go declaration gives it.
TypeOK ==
    /\ IsDatabase(db)
    /\ IsDatabase(wtx)
    /\ pc \in {"idle", "backtrack", "revert", "apply", "generate"}
    /\ newPath \in Seq(Blocks)
    /\ pos \in 0..Len(newPath)
    /\ txIdx \in Nat
    /\ diffs \in Diffs
    /\ reverted \in Seq(Blocks)
    /\ severe \in BOOLEAN
    /\ dosBlocks \subseteq Blocks
    /\ sleeping \subseteq Blocks
    /\ now \in 0..MaxTime

\* The current path is a chain from the genesis block to the current block:
\* at every height there is a stored and fully validated block whose parent is
\* the block below it (pushPath and popPath keep no such check).
IsChain(d) ==
    /\ Len(d.path) >= 1
    /\ d.path[1] = Genesis
    /\ \A i \in 1..Len(d.path) :
         /\ d.path[i] \in DOMAIN d.blockMap
         /\ d.blockMap[d.path[i]].height = i - 1
         /\ d.blockMap[d.path[i]].diffsGenerated
    /\ \A i \in 2..Len(d.path) :
         d.path[i] # Genesis /\ Parent[d.path[i]] = d.path[i - 1]

PathIsChain == IsChain(db) /\ IsChain(wtx)

\* No stored block surpasses the current block: heavierThan was evaluated when
\* a block was stored, against the block that was current then, and the
\* current block has only become heavier since.
NoHeavierBlock ==
    \A b \in DOMAIN db.blockMap : ~heavierThan(db, b, currentBlockID(db))

IsLedgerOf(d) ==
    /\ d.coins = LedgerCoins(d.path)
    /\ d.stakes = LedgerStakes(d.path)
    /\ d.dcos = LedgerDCOs(d.path)
    /\ d.txids = LedgerTxids(d.path)

\* Unspent outputs, delayed outputs and the transaction index depend on the
\* current path alone, committed or in the middle of a reorganisation:
\* applying a block by its stored diffs is applying its transactions, and
\* rewinding it restores what was there before (consensusChecksum: "All
\* consensus sets with the same current block should have identical consensus
\* checksums").  TransactionAtID finds every transaction of the path.  The
\* code's own sanity checks (build.Severe in consensusdb.go, diffs.go and
\* fork.go) never fire on the way, and the block stakes always add up to those
\* of the genesis block, so that the database is never marked inconsistent
\* (checkBlockStakeCount), after which the node would refuse every block.
LedgerFollowsPath ==
    /\ ~severe /\ ~wtx.inconsistent /\ ~db.inconsistent
    /\ IsLedgerOf(db)
    /\ pc # "generate" => IsLedgerOf(wtx)
    /\ \A t \in TxnsOn(db.path) : TransactionAtID(db, t) = [exists |-> TRUE, txn |-> t]

----------------------------------------------------------------------------
(* Blocks found invalid. *)

\* dosBlocks outlives the rolled back transaction it was filled in: it holds
\* only blocks that no node could ever apply, none of them on the current
\* path; and every validated block is valid on its own branch, whichever
\* branch was active when it was stored.
VerdictsAreFinal ==
    /\ \A b \in dosBlocks : InvalidOnItsBranch(b)
    /\ \A b \in DOMAIN db.blockMap \ {Genesis} :
         db.blockMap[b].diffsGenerated => ~InvalidOnItsBranch(b)

----------------------------------------------------------------------------
(* The change log, as a subscriber walks it from the beginning. *)

getEntry(d, id) == id \in DOMAIN d.log
NextEntry(d, e) == d.log[e]

\* The first n entries: NoEntry once the list has ended.
Walk(d, n) ==
    LET e[i \in 1..n] ==
          IF i = 1 THEN genesisEntry
          ELSE IF getEntry(d, e[i - 1]) THEN NextEntry(d, e[i - 1]) ELSE NoEntry
    IN  e

history(d) == SelectSeq(Walk(d, Cardinality(DOMAIN d.log)), LAMBDA e : e # NoEntry)

Chain == INSTANCE HeaviestChain
         WITH known <- DOMAIN db.blockMap, path <- db.path, log <- history(db)

\* The consensus set implements the heaviest chain: every call that returns
\* stored a block or moved to a heavier valid branch in a single step, and the
\* linked list of the change log, followed from the genesis entry, is the
\* history of those moves in order, whatever was rolled back in between.
ImplementsHeaviestChain == Chain!Spec

----------------------------------------------------------------------------
(* Steps. *)

\* The active fork changes only for a heavier one: no sequence of blocks,
\* failed reorganisations and crashes ever brings the node back to a block
\* that is not heavier than where it has been.
OnlyHeavierForks ==
    [][db'.path # db.path =>
         db'.blockMap[currentBlockID(db')].depth > db.blockMap[currentBlockID(db)].depth]_vars

\* What is stored stays: a block is not forgotten, its place in the tree does
\* not change and its validation is not undone (a rolled back call included).
BlocksAreKept ==
    [][\A b \in DOMAIN db.blockMap :
         /\ b \in DOMAIN db'.blockMap
         /\ db'.blockMap[b].depth = db.blockMap[b].depth
         /\ db.blockMap[b].diffsGenerated => db'.blockMap[b] = db.blockMap[b]]_vars

\* Every call returns: it reverts and applies its way to the new block, or
\* fails, and the lock is free again.
CallsReturn == pc # "idle" ~> pc = "idle"

----------------------------------------------------------------------------
(* Why the path stays a chain and the heaviest one: what a call that is in *)
(* progress knows about its new path and about the database it started on. *)

\* Every stored block hangs below the genesis block, at the height and depth
\* that newChild gave it.
TreeIsSound(d) ==
    /\ Genesis \in DOMAIN d.blockMap
    /\ d.blockMap[Genesis].height = 0
    /\ \A b \in DOMAIN d.blockMap \ {Genesis} :
         /\ Parent[b] \in DOMAIN d.blockMap
         /\ d.blockMap[b].height = d.blockMap[Parent[b]].height + 1
         /\ d.blockMap[b].depth = d.blockMap[Parent[b]].depth + Difficulty[Parent[b]]

newBlock == newPath[Len(newPath)]

\* The new path is a branch of stored blocks that ends in the new block, the
\* only block the open transaction added, which is heavier than the block
\* that is current in the committed database.
CallIsSound ==
    pc # "idle" =>
      /\ newPath # <<>>
      /\ \A i \in 1..Len(newPath) : newPath[i] \in DOMAIN wtx.blockMap
      /\ \A i \in 2..Len(newPath) :
           newPath[i] # Genesis /\ Parent[newPath[i]] = newPath[i - 1]
      /\ DOMAIN wtx.blockMap = DOMAIN db.blockMap \cup {newBlock}
      /\ \A b \in DOMAIN db.blockMap :
           /\ wtx.blockMap[b].depth = db.blockMap[b].depth
           /\ db.blockMap[b].diffsGenerated => wtx.blockMap[b] = db.blockMap[b]
      /\ 5 * wtx.blockMap[newBlock].depth
           > 5 * db.blockMap[currentBlockID(db)].depth + Difficulty[currentBlockID(db)]

\* Where the call is: between calls nothing is pending; blocks are reverted
\* down to the first block of the new path and applied along it.
PhaseIsSound ==
    /\ pc = "idle" => wtx = db /\ pos = 0
    /\ pc = "revert" => OnCurrentPath(wtx, newPath[1])
    /\ pc \in {"apply", "generate"} =>
         pos \in 1..Len(newPath) /\ currentBlockID(wtx) = newPath[pos]
    /\ pc = "generate" =>
         /\ pos < Len(newPath)
         /\ txIdx >= 1
         /\ ~wtx.blockMap[newPath[pos + 1]].diffsGenerated

\* The inductive invariant: TypeOK, PathIsChain and NoHeavierBlock with what
\* managedAcceptBlock maintains from its first step to the last.
IndInv ==
    /\ TypeOK
    /\ TreeIsSound(db)
    /\ TreeIsSound(wtx)
    /\ PathIsChain
    /\ NoHeavierBlock
    /\ CallIsSound
    /\ PhaseIsSound

=============================================================================
