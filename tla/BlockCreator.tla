---------------------------- MODULE BlockCreator ----------------------------
(***************************************************************************)
(* The block creator (modules/blockcreator) next to the wallet and the     *)
(* pool.  SolveBlocks reads the consensus set, then the wallet, and        *)
(* composes a block on the parent it was last told of, holding bc.mu but   *)
(* no lock of the others; it submits the block after letting go of it.     *)
(* A hash that meets the target is luck, so whether a stake solves is a    *)
(* choice; a hash made for one parent meets the target of another one only *)
(* by luck as well.                                                        *)
(***************************************************************************)
EXTENDS WalletOutputs

CONSTANTS
    OwnBlocks,        \* room for blocks of this node
    BlockCreatorFee

VARIABLES
    unsolved,   \* bc.unsolvedBlock; history: mixed, composed on views that differ
    solver,     \* the goroutine of SolveBlocks
    purged,     \* the pool was purged and has told nobody
    crashed     \* the process died

creatorVars == <<unsolved, solver, purged, crashed>>
vars == <<walletVars, creatorVars>>

Waiting == [at |-> "wait", tip |-> Genesis, stakes |-> {}, index |-> << >>, views |-> FALSE]

\* bc.mu is held while a block is being solved.
Solving == solver.at \in {"wallet", "stakes"}

\* What a subscriber has been told last.
View(s) == IF s \in ToSet(queue) THEN change.from ELSE tip

\* ReceiveUpdatedUnconfirmedTransactions; every list of the model fits in a block.
receiveList(ts) == unsolved' = [unsolved EXCEPT !.txns = ts, !.mixed = FALSE]

\* ProcessConsensusChange of the block creator.
creatorUpdate ==
    /\ queue # <<>> /\ Head(queue) = "creator" /\ ~Solving
    /\ queue' = Tail(queue)
    /\ LET p == PathTo(change.from)
           q == PathTo(change.to)
           common == Cardinality(ToSet(p) \cap ToSet(q))
       IN  unsolved' = [unsolved EXCEPT !.parent = change.to,
                                        !.height = @ - (Len(p) - common) + (Len(q) - common)]
    /\ UNCHANGED <<body, path, change, order, list, wallet, clients, reserved,
                   fleeting, solver, purged, crashed>>

\* solveBlock: CurrentBlock, the stake modifier and the target.
solveStart ==
    /\ solver = Waiting
    /\ solver' = [solver EXCEPT !.at = "wallet", !.tip = tip]
    /\ UNCHANGED <<walletVars, unsolved, purged, crashed>>

\* GetUnspentBlockStakeOutputs.
solveReadWallet ==
    /\ solver.at = "wallet"
    /\ solver' = [solver EXCEPT !.at = "stakes", !.stakes = {o \in wallet.stakes : Fulfillable(o, Height)},
                                !.index = wallet.index,
                                !.views = View("wallet") = unsolved.parent]
    /\ UNCHANGED <<walletVars, unsolved, purged, crashed>>

\* A stake the wallet has no index for comes as the zero value: the hash is
\* divided by its value.
solvePanics ==
    /\ solver.at = "stakes"
    /\ \E o \in solver.stakes : o \notin DOMAIN solver.index
    /\ crashed' = TRUE
    /\ UNCHANGED <<walletVars, unsolved, solver, purged>>

solveNothing ==
    /\ solver.at = "stakes"
    /\ \A o \in solver.stakes : o \in DOMAIN solver.index
    /\ solver' = Waiting
    /\ UNCHANGED <<walletVars, unsolved, purged, crashed>>

RespendOf(o) == [NoTxn EXCEPT !.bi = {o}, !.bo = <<Output(o)>>]

\* Mutant: the stake is spent again although the block spends it already.
RespentTwice(o) == <<RespendOf(o)>> \o unsolved.txns

\* RespentBlockStake: unless the block has a transaction that spends the stake,
\* one is put in front.
RespentBlockStake(o) ==
    IF \E t \in ToSet(unsolved.txns) : o \in t.bi THEN unsolved.txns
    ELSE <<RespendOf(o)>> \o unsolved.txns

\* The rest of solveBlock, up to the block.
solveBlock(o) ==
    /\ solver.at = "stakes"
    /\ o \in solver.stakes \cap DOMAIN solver.index
    /\ \E b \in OwnBlocks \ DOMAIN body : Parent[b] = unsolved.parent  \* bound
    /\ LET ts == RespentBlockStake(o)
           fees == FoldLeft(LAMBDA n, t : n + t.fee, 0, ts)
           pay(v) == IF v = 0 THEN <<>> ELSE << <<v, UnlockHash(o), 0>> >>
           agree == /\ solver.views /\ ~unsolved.mixed
                    /\ View("wallet") = unsolved.parent /\ View("pool") = unsolved.parent
       IN  /\ unsolved' = [unsolved EXCEPT !.txns = ts, !.mixed = ~agree]
           /\ wallet' = IF ts = unsolved.txns THEN wallet ELSE Mark(wallet, {o})
           /\ solver' = [at |-> "submit", tip |-> solver.tip, stake |-> o, stakes |-> {},
                         index |-> solver.index[o], parent |-> unsolved.parent,
                         txns |-> ts, payouts |-> pay(BlockCreatorFee) \o pay(fees),
                         views |-> agree]
    /\ UNCHANGED <<body, path, change, queue, order, list, clients, reserved,
                   fleeting, purged, crashed>>

Room == {b \in OwnBlocks \ DOMAIN body : Parent[b] = solver.parent}
Known ==
    \E b \in DOMAIN body \ {Genesis} :
      Parent[b] = solver.parent /\ body[b].txns = solver.txns /\ body[b].payouts = solver.payouts

\* ValidateBlock looks the stake up by its index, first on the active path and
\* then on the branch of the block, which must spend it.
StakeRespent ==
    LET i == solver.index
    IN  \E p \in {path, PathTo(solver.parent)} :
          /\ i[1] < Len(p) /\ i[2] \in DOMAIN body[p[i[1] + 1]].txns
          /\ LET t == body[p[i[1] + 1]].txns[i[2]]
             IN  i[3] \in DOMAIN t.bo /\ \E u \in ToSet(solver.txns) : <<"stake", t, i[3]>> \in u.bi

\* AcceptBlock returns an error other than those submitBlock expects.
Invalid(b) == ~StakeRespent \/ (Heavier(b) /\ ~FitsParent(b, solver.txns))

\* submitBlock when the block is refused quietly: known, or unsolved for its parent.
submitRefused ==
    /\ solver.at = "submit" /\ queue = <<>>
    /\ Known \/ (StakeRespent /\ solver.tip # solver.parent)
    /\ solver' = Waiting
    /\ UNCHANGED <<walletVars, unsolved, purged, crashed>>

\* submitBlock when the block joins the tree, on the path or beside it.
submitAccepted(b) ==
    /\ solver.at = "submit" /\ queue = <<>>
    /\ b \in Room /\ ~Known /\ ~Invalid(b)
    /\ addBlock(b, solver.txns, solver.payouts)
    /\ solver' = Waiting
    /\ UNCHANGED <<order, list, wallet, clients, reserved, fleeting,
                   unsolved, purged, crashed>>

\* A block made with the same seed: by a second node, or by this one before its
\* consensus database was removed.  Bound: it comes while another branch is heavier.
ownBlockElsewhere(b) ==
    /\ queue = <<>>
    /\ b \in OwnBlocks \ DOMAIN body /\ Parent[b] \in DOMAIN body /\ body[Parent[b]].valid
    /\ ~Heavier(b)
    /\ \E o \in Owned(Ledger(PathTo(Parent[b]))) :
         /\ o[1] = "stake"
         /\ addBlock(b, <<RespendOf(o)>>, << <<BlockCreatorFee, UnlockHash(o), 0>> >>)
    /\ UNCHANGED <<order, list, wallet, clients, reserved, fleeting, creatorVars>>

\* submitBlock when the block is invalid: PurgeTransactionPool, which tells nobody.
submitInvalid(b) ==
    /\ solver.at = "submit" /\ queue = <<>>
    /\ b \in Room /\ ~Known /\ Invalid(b)
    /\ list' = <<>>
    /\ purged' = TRUE
    /\ solver' = Waiting
    /\ UNCHANGED <<body, path, change, queue, order, wallet, clients, reserved,
                   fleeting, unsolved, crashed>>

----------------------------------------------------------------------------
(* The node. *)

Init ==
    /\ WalletInit
    /\ unsolved = [parent |-> Genesis, height |-> 0, txns |-> <<>>, mixed |-> FALSE]
    /\ solver = Waiting
    /\ purged = FALSE
    /\ crashed = FALSE

\* The pool tells the wallet and the block creator, which waits for bc.mu.
poolStep ==
    /\ ~Solving
    /\ \/ poolUpdate /\ receiveList(list') /\ purged' = FALSE
       \/ /\ \E c \in Clients : signAndAccept(c)
          /\ IF list' = list THEN UNCHANGED <<unsolved, purged>>
             ELSE receiveList(list') /\ purged' = FALSE
    /\ UNCHANGED <<solver, crashed>>

walletStep ==
    /\ \/ clientStep
       \/ \E b \in Blocks \ (OwnBlocks \cup {Genesis}) : peerBlock(b)
       \/ walletUpdate
    /\ UNCHANGED creatorVars

solverStep ==
    \/ solveStart \/ solveReadWallet \/ solvePanics \/ solveNothing
    \/ \E o \in solver.stakes : solveBlock(o)
    \/ submitRefused
    \/ \E b \in OwnBlocks : submitAccepted(b) \/ submitInvalid(b) \/ ownBlockElsewhere(b)

Next == ~crashed /\ (poolStep \/ walletStep \/ creatorUpdate \/ solverStep)

Spec == Init /\ [][Next]_vars

----------------------------------------------------------------------------
(* Properties. *)

\* submitBlock purges the pool only for a block that was composed while the
\* wallet, the pool and the block creator had been told different things, or that
\* has what RespentBlockStake left over from such a block: when their views
\* agree, what they hold fits together and the block is valid.
PurgesOnlyOnMixedViews == [][purged' /\ ~purged => ~solver.views]_vars

\* What the wallet shows as its balance after the unconfirmed transactions
\* (ConfirmedBalance, ConfirmedLockedBalance and UnconfirmedBalance) is what its
\* addresses would own if the list of the pool were confirmed, once it has been
\* told of the last change; so is what MultiSigWallets shows of each of them.
BalancesAddUp ==
    (queue = <<>> /\ ~purged) =>
      LET after == {o \in FoldLeft(applyTransaction, Ledger(path), list) : o[1] # "stake"}
          shared == MultiSigWallets(wallet)
      IN  /\ ConfirmedBalance(wallet) + ConfirmedLockedBalance(wallet)
                + Incoming(wallet) - Outgoing(wallet) = SumOf(Owned(after))
          /\ \A a \in DOMAIN shared :
               shared[a].confirmed + shared[a].incoming - shared[a].outgoing
                 = SumOf({o \in after : UnlockHash(o) = a})

=============================================================================
