------------------------------ MODULE BlockTree ------------------------------
(***************************************************************************)
(* The immutable data a node works on: blocks, the transactions they carry *)
(* and the outputs those transactions spend and create.  An identifier in  *)
(* the program is a hash of the thing it names, so the contents of a block *)
(* and its parent are constant functions of the block's identifier; what   *)
(* the node KNOWS of this tree is the state of module ConsensusSet.        *)
(*                                                                         *)
(* A value of type types.Target is inversely proportional to a difficulty; *)
(* Difficulty[b] stands for the ChildTarget that setChildTarget computes   *)
(* for b, so that Depth.AddDifficulties is an addition and "the smaller    *)
(* target is heavier" becomes "the larger depth is heavier".               *)
(***************************************************************************)
EXTENDS Integers, Sequences, FiniteSets, FiniteSetsExt

CONSTANTS
    Blocks,          \* identifiers of all blocks anybody may ever build
    Genesis,         \* cs.blockRoot.Block.ID()
    Parent,          \* Block.ParentID
    Difficulty,      \* the difficulty every child of a block must meet
    Timestamp,       \* Block.Timestamp
    Txns,            \* Block.Transactions: a sequence per block
    MinerPayouts,    \* the output ids of Block.MinerPayouts: a set per block
    HeaderValid,     \* blocks that pass the stateless checks of ValidateBlock

    Transactions,    \* identifiers of transactions
    Outputs,         \* identifiers of coin and block stake outputs
    CoinInputs, CoinOutputs,              \* sets of outputs per transaction
    BlockStakeInputs, BlockStakeOutputs,  \* sets of outputs per transaction
    MinerFee,        \* sum of the MinerFees of a transaction
    Value,           \* value of an output
    Fulfilled,       \* transactions whose inputs are properly signed and standard

    MaturityDelay,   \* blocks before a miner payout can be spent
    BlockCreatorFee  \* coins created by every block

ASSUME TreeAssumption ==
    /\ Genesis \in Blocks
    /\ Parent \in [Blocks \ {Genesis} -> Blocks]
    /\ Difficulty \in [Blocks -> Nat \ {0}]
    /\ Timestamp \in [Blocks -> Nat]
    /\ HeaderValid \subseteq Blocks

ASSUME ContentAssumption ==
    /\ Txns \in [Blocks -> Seq(Transactions)]
    /\ Txns[Genesis] # <<>>
    /\ MinerPayouts \in [Blocks -> SUBSET Outputs]
    /\ CoinInputs \in [Transactions -> SUBSET Outputs]
    /\ CoinOutputs \in [Transactions -> SUBSET Outputs]
    /\ BlockStakeInputs \in [Transactions -> SUBSET Outputs]
    /\ BlockStakeOutputs \in [Transactions -> SUBSET Outputs]
    /\ Fulfilled \subseteq Transactions

\* types/constants.go configures delays of 144, 10 and 3 blocks; forwardBlock
\* relies on a payout not maturing in the block that creates it.
ASSUME MaturityAssumption == MaturityDelay \in Nat \ {0}

----------------------------------------------------------------------------
(* Sums of values, and the checks that need only the block itself. *)

ValueSum(S) == MapThenSumSet(LAMBDA o : Value[o], S)

TxnSet(b) == {Txns[b][i] : i \in DOMAIN Txns[b]}

\* checkMinerPayouts: the payouts are the block creator fee and all miner fees.
checkMinerPayouts(b) ==
    ValueSum(MinerPayouts[b])
      = BlockCreatorFee + MapThenSumSet(LAMBDA t : MinerFee[t], TxnSet(b))

GenesisTxn == Txns[Genesis][1]

GenesisBlockStakeCount == ValueSum(BlockStakeOutputs[GenesisTxn])

\* A change entry is its own identifier (a hash in the code); the zero
\* ConsensusChangeID is the entry with no blocks.
Entry(rev, app) == [reverted |-> rev, applied |-> app]
NoEntry == Entry(<<>>, <<>>)
genesisEntry == Entry(<<>>, <<Genesis>>)

----------------------------------------------------------------------------
(* The ledger of a path, from the contents of its blocks alone: what the   *)
(* database must hold whatever sequence of reverts and applies led there.  *)

TxnsOn(p) == UNION {TxnSet(p[i]) : i \in 1..Len(p)}
PayoutsOn(p) == UNION {{i - 1 + MaturityDelay} \X MinerPayouts[p[i]] : i \in 2..Len(p)}

LedgerCoins(p) ==
    (UNION {CoinOutputs[t] : t \in TxnsOn(p)}
       \cup {m[2] : m \in {n \in PayoutsOn(p) : n[1] <= Len(p) - 1}})
      \ UNION {CoinInputs[t] : t \in TxnsOn(p)}
LedgerStakes(p) ==
    UNION {BlockStakeOutputs[t] : t \in TxnsOn(p)}
      \ UNION {BlockStakeInputs[t] : t \in TxnsOn(p)}
LedgerDCOs(p) == {m \in PayoutsOn(p) : m[1] > Len(p) - 1}
LedgerTxids(p) ==
    UNION {{<<Txns[p[i]][k], i - 1, k - 1>> : k \in DOMAIN Txns[p[i]]} : i \in 2..Len(p)}

\* The branch that ends in b.
PathTo[b \in Blocks] == IF b = Genesis THEN <<Genesis>> ELSE Append(PathTo[Parent[b]], b)

\* The k-th transaction of s has no right to be where it is: after the blocks
\* of p and the transactions of s before it.
InvalidAfter(p, s, k) ==
    LET before == {s[i] : i \in 1..(k - 1)}
        t == s[k]
        coins == (LedgerCoins(p) \cup UNION {CoinOutputs[u] : u \in before})
                   \ UNION {CoinInputs[u] : u \in before}
        stakes == (LedgerStakes(p) \cup UNION {BlockStakeOutputs[u] : u \in before})
                    \ UNION {BlockStakeInputs[u] : u \in before}
    IN  \/ ~(CoinInputs[t] \subseteq coins)
        \/ ~(BlockStakeInputs[t] \subseteq stakes)
        \/ t \notin Fulfilled
        \/ ValueSum(CoinInputs[t]) # ValueSum(CoinOutputs[t]) + MinerFee[t]
        \/ ValueSum(BlockStakeInputs[t]) # ValueSum(BlockStakeOutputs[t])

\* TryTransactionSet: would the transactions be accepted on top of p?
TryTransactionSet(p, s) == \A k \in DOMAIN s : ~InvalidAfter(p, s, k)

\* Some transaction of b has no right to be where it is, on b's own branch.
InvalidOnItsBranch(b) == ~TryTransactionSet(PathTo[Parent[b]], Txns[b])

\* The blocks that can be reached by valid blocks only.
ValidBranches ==
    {b \in Blocks : \A i \in 2..Len(PathTo[b]) : ~InvalidOnItsBranch(PathTo[b][i])}

----------------------------------------------------------------------------
(* The weight of a branch, and when it takes over. *)

Depth[b \in Blocks] == IF b = Genesis THEN 0 ELSE Depth[Parent[b]] + Difficulty[Parent[b]]

Surpasses(b, c) == 5 * Depth[b] > 5 * Depth[c] + Difficulty[c]

=============================================================================
