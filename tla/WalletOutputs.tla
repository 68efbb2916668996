--------------------------- MODULE WalletOutputs ---------------------------
(***************************************************************************)
(* What the wallet owns and how it is spent: modules/wallet/update.go,     *)
(* transactionbuilder.go and SendOutputs of money.go.  The wallet follows  *)
(* the consensus set and the list of the transaction pool, each by         *)
(* callbacks, and users build transactions in between.                     *)
(*                                                                         *)
(* A transaction is a record and stands for its own id; an output is named *)
(* by its kind, where it was created and its position there.  Unlock       *)
(* hashes are of three sorts: of the wallet, of multisig wallets the       *)
(* wallet is a member of, and of others.                                   *)
(***************************************************************************)
EXTENDS Integers, Sequences, FiniteSets, FiniteSetsExt, SequencesExt, TLC

CONSTANTS
    Blocks, Genesis, Parent,  \* room for blocks, and where it is
    Weight,                   \* difficulty of a block
    GenesisTxn,               \* of the genesis block
    Offers,                   \* transactions of others, seen in their blocks
    Own, MultiSig,            \* unlock hashes of the wallet, and of its multisig wallets
    Orders,                   \* orders of the subscribers "pool", "wallet", "creator"
    Clients,                  \* users of the wallet, one request each
    Requests,                 \* what each may ask for
    MaturityDelay, RespendTimeout, MinimumTransactionFee

ASSUME WalletAssumption ==
    /\ Parent \in [Blocks \ {Genesis} -> Blocks]
    /\ Weight \in [Blocks -> Nat \ {0}]
    /\ Own \cap MultiSig = {}
    /\ \A o \in Orders : o[1] = "pool"
    /\ MaturityDelay \in Nat \ {0} /\ RespendTimeout \in Nat \ {0}

VARIABLES
    body,       \* contents of the blocks that exist
    path,       \* the active path
    change,     \* the last consensus change
    queue,      \* subscribers that have not been told of it; cs.mu is held
    order,      \* in which they subscribed
    list,       \* list of the transaction pool
    wallet,     \* the wallet, unlocked throughout (WalletLifecycle has Lock)
    clients,    \* transaction builders of the users
    reserved,   \* history: coin inputs of builders that were not dropped, and when
    fleeting    \* history: stakes some change both created and spent

walletVars ==
    <<body, path, change, queue, order, list, wallet, clients, reserved, fleeting>>

----------------------------------------------------------------------------
(* Outputs, the ledger and validity. *)

CoinOutputs(t) == {<<"coin", t, i>> : i \in DOMAIN t.co}
StakeOutputs(t) == {<<"stake", t, i>> : i \in DOMAIN t.bo}
Payouts(b) == {<<"payout", b, i>> : i \in DOMAIN body[b].payouts}

\* <<value, unlock hash, height it is locked until>> of an output.
Output(o) ==
    CASE o[1] = "coin" -> o[2].co[o[3]]
      [] o[1] = "stake" -> o[2].bo[o[3]]
      [] o[1] = "payout" -> body[o[2]].payouts[o[3]]
Value(o) == Output(o)[1]
UnlockHash(o) == Output(o)[2]
Fulfillable(o, h) == Output(o)[3] <= h
SumOf(S) == MapThenSumSet(Value, S)

PathTo(b) ==
    LET up[n \in 0..Cardinality(Blocks), c \in Blocks] ==
          IF c = Genesis \/ n = 0 THEN <<c>> ELSE Append(up[n - 1, Parent[c]], c)
    IN  up[Cardinality(Blocks), b]
tip == Last(path)
WeightOf(p) == MapThenSumSet(LAMBDA i : Weight[p[i]], DOMAIN p)

\* Unspent outputs, coins and stakes, after a transaction that can be applied at
\* height h.
Applicable(out, t, h) ==
    t.ci \cup t.bi \subseteq out /\ \A o \in t.ci \cup t.bi : Fulfillable(o, h)
applyTransaction(out, t) == (out \ (t.ci \cup t.bi)) \cup CoinOutputs(t) \cup StakeOutputs(t)

\* applyMaturedCoinOutputs for the i-th block of p.
Matured(p, i) == IF i > MaturityDelay THEN Payouts(p[i - MaturityDelay]) ELSE {}

Ledger(p) ==
    LET after[i \in 0..Len(p)] ==
          IF i = 0 THEN {}
          ELSE FoldLeft(applyTransaction, after[i - 1], body[p[i]].txns) \cup Matured(p, i)
    IN  after[Len(p)]

\* Transactions on top of p: those of a block, at its height, and with
\* TryTransactionSet, at the height of the last block.
ValidAt(p, ts, h) ==
    \A k \in DOMAIN ts :
      Applicable(FoldLeft(applyTransaction, Ledger(p), SubSeq(ts, 1, k - 1)), ts[k], h)
TryTransactionSet(p, ts) == ValidAt(p, ts, Len(p) - 1)

\* The transactions of ts that can be applied one after the other.
Fitting(p, ts) ==
    FoldLeft(LAMBDA l, t : IF TryTransactionSet(p, Append(l, t)) THEN Append(l, t) ELSE l, <<>>, ts)

----------------------------------------------------------------------------
(* The wallet follows the chain. *)

NewWallet ==
    [height |-> 0, coins |-> {}, stakes |-> {}, multi |-> {}, index |-> << >>,
     spent |-> << >>, history |-> <<>>, unconfirmed |-> <<>>]

Owned(S) == {o \in S : UnlockHash(o) \in Own}
Shared(S) == {o \in S : UnlockHash(o) \in MultiSig}

\* updateConfirmedSet for one batch of diffs.
confirmDiffs(w, removed, added) ==
    LET coin == {o \in added : o[1] # "stake"}
        stake == added \ coin
    IN  [w EXCEPT !.coins = (@ \ removed) \cup Owned(coin),
                  !.stakes = (@ \ removed) \cup Owned(stake),
                  !.multi = (@ \ removed) \cup Shared(added)]

confirmTransaction(w, t) == confirmDiffs(w, t.ci \cup t.bi, CoinOutputs(t) \cup StakeOutputs(t))
unconfirmTransaction(w, t) == confirmDiffs(w, CoinOutputs(t) \cup StakeOutputs(t), t.ci \cup t.bi)

\* p is the path of the reverted blocks, q that of the applied ones.
updateConfirmedSet(w, p, q, common) ==
    LET revertBlock(v, i) ==
          FoldLeft(unconfirmTransaction, confirmDiffs(v, Matured(p, i), {}), Reverse(body[p[i]].txns))
        applyBlock(v, i) ==
          confirmDiffs(FoldLeft(confirmTransaction, v, body[q[i]].txns), {}, Matured(q, i))
        down == FoldLeft(revertBlock, w, Reverse([k \in 1..(Len(p) - common) |-> common + k]))
    IN  FoldLeft(applyBlock, down, [k \in 1..(Len(q) - common) |-> common + k])

Pop(w) == [w EXCEPT !.history = Front(@)]

\* Mutant: transactions are taken from the history in the order of the block.
revertHistoryForward(w, b) ==
    LET popIfLast(v, t) ==
          IF v.history # <<>> /\ Last(v.history).id = <<"txn", t>> THEN Pop(v) ELSE v
        v == FoldLeft(popIfLast, w, body[b].txns)
    IN  [IF Owned(Payouts(b)) # {} THEN Pop(v) ELSE v EXCEPT !.height = @ - 1]

\* revertHistory: only the last entry is looked at, and the entry of the miner
\* payouts is taken to be the last one after the transactions.
revertHistory(w, b) ==
    LET popIfLast(v, t) ==
          IF v.history # <<>> /\ Last(v.history).id = <<"txn", t>> THEN Pop(v) ELSE v
        v == FoldLeft(popIfLast, w, Reverse(body[b].txns))
    IN  [IF Owned(Payouts(b)) # {} THEN Pop(v) ELSE v EXCEPT !.height = @ - 1]

\* The addresses of inputs come from historicOutputs, which has every output
\* of the chain so far.
Relevant(w, t) ==
    LET named == t.ci \cup t.bi \cup CoinOutputs(t) \cup StakeOutputs(t)
    IN  Owned(named) # {} \/ named \cap w.multi # {}

Remember(w, id) == [w EXCEPT !.history = Append(@, [id |-> id, height |-> w.height])]

\* applyHistory; the outputs have been updated for all blocks of the change.
applyHistory(w, b) ==
    LET h == Len(PathTo(b)) - 1
        v == [w EXCEPT !.height = @ + 1]
        paid == IF Owned(Payouts(b)) # {} THEN Remember(v, <<"payout", b>>) ELSE v
        indexed(u, k) ==
          LET t == body[b].txns[k]
              new == StakeOutputs(t) \cap u.stakes
              i == [u EXCEPT !.index = [o \in new |-> <<h, k, o[3]>>] @@ @]
          IN  IF Relevant(u, t) THEN Remember(i, <<"txn", t>>) ELSE i
    IN  FoldLeft(indexed, paid, [k \in DOMAIN body[b].txns |-> k])

ProcessConsensusChange(w, c) ==
    LET p == PathTo(c.from)
        q == PathTo(c.to)
        common == Cardinality({i \in DOMAIN p \cap DOMAIN q : p[i] = q[i]})
        v == IF c.from = c.to THEN updateConfirmedSet(w, <<>>, q, 0)
             ELSE updateConfirmedSet(w, p, q, common)
        down == IF c.from = c.to THEN v
                ELSE FoldLeft(revertHistory, v, Reverse(SubSeq(p, common + 1, Len(p))))
    IN  FoldLeft(applyHistory, down,
                 IF c.from = c.to THEN q ELSE SubSeq(q, common + 1, Len(q)))

\* Mutant: a transaction counts only for what it pays the wallet.
ReceiveOutputsOnly(w, ts) ==
    [w EXCEPT !.unconfirmed = SelectSeq(ts, LAMBDA t : Owned(CoinOutputs(t)) # {})]

\* For an unconfirmed transaction only coins are looked at.
ReceiveUpdatedUnconfirmedTransactions(w, ts) ==
    LET named(t) == t.ci \cup CoinOutputs(t)
    IN  [w EXCEPT !.unconfirmed =
          SelectSeq(ts, LAMBDA t : Owned(named(t)) # {} \/ named(t) \cap w.multi # {})]

----------------------------------------------------------------------------
(* Funding, signing and dropping a transaction. *)

SpendHeight(w, o) == IF o \in DOMAIN w.spent THEN w.spent[o] ELSE 0

\* Mutant: the height may underflow, so that every mark is in the past.
RespendableUnderflow(w, o) ==
    w.height < RespendTimeout \/ SpendHeight(w, o) <= w.height - RespendTimeout

\* spentOutputs holds the output back for RespendTimeout blocks.
Respendable(w, o) ==
    SpendHeight(w, o) <= (IF w.height < RespendTimeout THEN 0 ELSE w.height - RespendTimeout)

\* getFulfillableContextForLatestBlock asks the consensus set, which may be ahead.
Height == Len(path) - 1

Unconfirmed(w) == UNION {CoinOutputs(t) : t \in ToSet(w.unconfirmed)}

\* Outputs of greatest value first, until there is enough; those of equal value
\* come in any order.
Selections(S, amount) ==
    {T \in SUBSET S :
       /\ \A o \in T, p \in S \ T : Value(p) <= Value(o)
       /\ SumOf(T) >= amount
       /\ \E o \in T : SumOf(T \ {o}) < amount /\ \A p \in T : Value(o) <= Value(p)}

\* Block stakes come in the order of a map.
AnySelections(S, amount) ==
    {T \in SUBSET S : SumOf(T) >= amount /\ \E o \in T : SumOf(T \ {o}) < amount}

Refund(sum, amount, to) == IF sum = amount THEN <<>> ELSE << <<sum - amount, to, 0>> >>

Mark(w, S) == [w EXCEPT !.spent = [o \in S |-> w.height] @@ @]

\* The inputs FundCoins can take for an amount; none if it fails.
FundCoins(w, amount) ==
    Selections({o \in w.coins \cup Owned(Unconfirmed(w)) :
                  Fulfillable(o, Height) /\ Respendable(w, o)}, amount)

\* The same of FundBlockStakes: confirmed stakes only.
FundBlockStakes(w, amount) ==
    AnySelections({o \in w.stakes : Fulfillable(o, Height) /\ Respendable(w, o)}, amount)

Drop(w, t) == [w EXCEPT !.spent = [o \in DOMAIN @ \ t.ci |-> @[o]]]

NoTxn == [ci |-> {}, co |-> <<>>, bi |-> {}, bo |-> <<>>, fee |-> 0]
Idle == [at |-> "idle", txn |-> NoTxn]
Done == [at |-> "done", txn |-> NoTxn]

\* Where a refund goes: the address of an input or a new one, the wallet's own.
refundAddress == CHOOSE a \in Own : TRUE

\* SendOutputs up to FundCoins, and the fund handler of the API (pkg/api/wallet.go),
\* which adds no miner fee and drops the builder after it answered.
startAndFundCoins(c, r) ==
    /\ clients[c] = Idle
    /\ LET fee == IF r.drop THEN 0 ELSE MinimumTransactionFee
           amount == fee + FoldLeft(LAMBDA n, o : n + o[1], 0, r.co)
       IN  \E S \in FundCoins(wallet, amount) :
             /\ clients' = [clients EXCEPT ![c] =
                  [at |-> IF r.drop THEN "drop" ELSE IF r.bo = <<>> THEN "sign" ELSE "stakes",
                   txn |-> [ci |-> S, co |-> r.co \o Refund(SumOf(S), amount, refundAddress),
                            bi |-> {}, bo |-> r.bo, fee |-> fee]]]
             /\ wallet' = Mark(wallet, S)
             /\ reserved' = reserved \cup {[ci |-> S, height |-> wallet.height]}
    /\ UNCHANGED <<body, path, change, queue, order, list, fleeting>>

\* When it fails the coins stay marked.
fundBlockStakes(c) ==
    LET t == clients[c].txn
        amount == FoldLeft(LAMBDA n, o : n + o[1], 0, t.bo)
        S == FundBlockStakes(wallet, amount)
    IN  /\ clients[c].at = "stakes"
        /\ \/ /\ S = {}
              /\ clients' = [clients EXCEPT ![c] = Done]
              /\ UNCHANGED wallet
           \/ \E B \in S :
                /\ clients' = [clients EXCEPT ![c] =
                     [at |-> "sign",
                      txn |-> [t EXCEPT !.bi = B, !.bo = @ \o Refund(SumOf(B), amount, refundAddress)]]]
                /\ wallet' = Mark(wallet, B)
        /\ UNCHANGED <<body, path, change, queue, order, list, reserved, fleeting>>

\* The rest of the fund handler.  A mark that another builder has put on the
\* output since goes as well.
dropBuilder(c) ==
    /\ clients[c].at = "drop"
    /\ wallet' = Drop(wallet, clients[c].txn)
    /\ clients' = [clients EXCEPT ![c] = Done]
    /\ reserved' = {r \in reserved : r.ci \cap clients[c].txn.ci = {}}
    /\ UNCHANGED <<body, path, change, queue, order, list, fleeting>>

----------------------------------------------------------------------------
(* What the wallet shows. *)

ConfirmedBalance(w) == SumOf({o \in w.coins : Fulfillable(o, Height)})
ConfirmedLockedBalance(w) == SumOf({o \in w.coins : ~Fulfillable(o, Height)})

\* UnconfirmedBalance; an input that spends an unconfirmed output counts too.
Outgoing(w) == SumOf(Owned(UNION {t.ci : t \in ToSet(w.unconfirmed)}))
Incoming(w) == SumOf(Owned(Unconfirmed(w)))

\* MultiSigWallets, for the addresses that have a confirmed output.
MultiSigWallets(w) ==
    LET at(S, a) == {o \in S : UnlockHash(o) = a}
    IN  [a \in {UnlockHash(o) : o \in w.multi} |->
          [confirmed |-> SumOf(at(w.multi, a)),
           outgoing |-> SumOf(at(UNION {t.ci : t \in ToSet(w.unconfirmed)}, a)),
           incoming |-> SumOf(at(Unconfirmed(w), a))]]

----------------------------------------------------------------------------
(* The chain, the pool and the callbacks. *)

\* AcceptBlock of a block whose header is valid; a block that is not heavier is
\* kept without a look at its transactions.
Heavier(b) == WeightOf(PathTo(b)) > WeightOf(path)
FitsParent(b, ts) == ValidAt(PathTo(Parent[b]), ts, Len(PathTo(Parent[b])))

addBlock(b, ts, payouts) ==
    /\ body' = body @@ (b :> [txns |-> ts, payouts |-> payouts, valid |-> FitsParent(b, ts)])
    /\ path' = IF Heavier(b) THEN PathTo(b) ELSE path
    /\ change' = IF Heavier(b) THEN [from |-> tip, to |-> b] ELSE change
    /\ queue' = IF Heavier(b) THEN order ELSE queue

\* A block of another node, with all that applies of what the pools have.  Its
\* own stake and payouts do not concern the wallet.
peerBlock(b) ==
    /\ queue = <<>>
    /\ b \notin DOMAIN body /\ Parent[b] \in DOMAIN body /\ body[Parent[b]].valid
    /\ addBlock(b, Fitting(PathTo(Parent[b]), list \o SetToSeq(Offers)), <<>>)
    /\ UNCHANGED <<order, list, wallet, clients, reserved, fleeting>>

\* Mutant: the pool keeps the transactions that the change confirmed.
poolUpdateKeepsConfirmed ==
    /\ queue # <<>> /\ Head(queue) = "pool"
    /\ queue' = Tail(queue)
    /\ wallet' = ReceiveUpdatedUnconfirmedTransactions(wallet, list)
    /\ UNCHANGED <<body, path, change, order, list, clients, reserved, fleeting>>

\* ProcessConsensusChange of the pool, and its updateSubscribersTransactions:
\* what still applies is kept, reverted transactions do not come back.
poolUpdate ==
    /\ queue # <<>> /\ Head(queue) = "pool"
    /\ queue' = Tail(queue)
    /\ list' = Fitting(path, list)
    /\ wallet' = ReceiveUpdatedUnconfirmedTransactions(wallet, list')
    /\ UNCHANGED <<body, path, change, order, clients, reserved, fleeting>>

\* Stakes created by the blocks that the change applied.
StakesOf(c) ==
    LET new == SelectSeq(PathTo(c.to), LAMBDA b : b \notin ToSet(PathTo(c.from)))
    IN  UNION {UNION {StakeOutputs(t) : t \in ToSet(body[b].txns)} : b \in ToSet(new)}

walletUpdate ==
    /\ queue # <<>> /\ Head(queue) = "wallet"
    /\ queue' = Tail(queue)
    /\ wallet' = ProcessConsensusChange(wallet, change)
    /\ fleeting' = (fleeting \ StakesOf(change)) \cup (StakesOf(change) \ Ledger(path))
    /\ UNCHANGED <<body, path, change, order, list, clients, reserved>>

\* The end of SendOutputs: Sign, which touches nothing shared, and
\* AcceptTransactionSet, which takes a set that applies after the list and tells
\* the subscribers.  When the pool refuses, the inputs stay marked.
signAndAccept(c) ==
    LET t == clients[c].txn
    IN  /\ clients[c].at = "sign"
        /\ list' = IF TryTransactionSet(path, Append(list, t)) THEN Append(list, t) ELSE list
        /\ wallet' = IF list' = list THEN wallet
                     ELSE ReceiveUpdatedUnconfirmedTransactions(wallet, list')
        /\ clients' = [clients EXCEPT ![c] = Done]
        /\ UNCHANGED <<body, path, change, queue, order, reserved, fleeting>>

WalletInit ==
    /\ body = (Genesis :> [txns |-> <<GenesisTxn>>, payouts |-> <<>>, valid |-> TRUE])
    /\ path = <<Genesis>>
    /\ change = [from |-> Genesis, to |-> Genesis]
    /\ queue = <<>>
    /\ order \in Orders
    /\ list = <<>>
    /\ wallet = ProcessConsensusChange(NewWallet, change)
    /\ clients = [c \in Clients |-> Idle]
    /\ reserved = {}
    /\ fleeting = {}

clientStep ==
    \E c \in Clients :
      \/ \E r \in Requests[c] : startAndFundCoins(c, r)
      \/ fundBlockStakes(c)
      \/ dropBuilder(c)

----------------------------------------------------------------------------
(* Properties. *)

\* The entries that a wallet with these addresses has for the blocks of p.
ExpectedHistory(p) ==
    LET own(t) == Owned(t.ci \cup t.bi \cup CoinOutputs(t) \cup StakeOutputs(t)) # {}
        block(i) ==
          (IF Owned(Payouts(p[i])) # {} THEN << <<"payout", p[i]>> >> ELSE <<>>)
            \o [k \in DOMAIN SelectSeq(body[p[i]].txns, own)
                  |-> <<"txn", SelectSeq(body[p[i]].txns, own)[k]>>]
    IN  FlattenSeq([i \in DOMAIN p |->
          [k \in DOMAIN block(i) |-> [id |-> block(i)[k], height |-> i]]])

\* Once the wallet has been told of the last change (ProcessConsensusChange), its
\* outputs are those of the path, whatever was reverted on the way, and its
\* history has the transactions and payouts of its addresses in order and at
\* their heights; entries for multisig addresses come on top.  Every stake of
\* the wallet has the place on the path that the block creator needs to solve a
\* block with it, except a stake that was created and spent within one change:
\* applyHistory sees it only after updateConfirmedSet removed it.
WalletFollowsPath ==
    "wallet" \notin ToSet(queue) =>
      LET out == Ledger(path)
          own(e) == e.id[1] = "payout"
                      \/ Owned(e.id[2].ci \cup e.id[2].bi
                               \cup CoinOutputs(e.id[2]) \cup StakeOutputs(e.id[2])) # {}
      IN  /\ wallet.coins \cup wallet.stakes = Owned(out)
          /\ wallet.multi = Shared(out)
          /\ wallet.height = Len(path)
          /\ SelectSeq(wallet.history, own) = ExpectedHistory(path)
          /\ \A o \in wallet.stakes \ fleeting :
               /\ o \in DOMAIN wallet.index
               /\ LET i == wallet.index[o]
                  IN  /\ i[1] < Len(path) /\ i[2] \in DOMAIN body[path[i[1] + 1]].txns
                      /\ body[path[i[1] + 1]].txns[i[2]] = o[2] /\ i[3] = o[3]

\* FundCoins collects confirmed and unconfirmed outputs in one list: no output is
\* in both, although the pool and the wallet learn of a block one after the other.
\* While the wallet has yet to hear of a revert, a transaction that was reverted
\* can be sent again and be in both for that long.
OutputsCountedOnce ==
    ("wallet" \in ToSet(queue) => change.from \in ToSet(path)) =>
      wallet.coins \cap Unconfirmed(wallet) = {}

\* A builder takes no coin input that another one took less than RespendTimeout
\* blocks before, unless a builder that named it was dropped.
NoEarlyRespend ==
    [][\A c \in Clients :
         (clients[c] = Idle /\ clients'[c] # Idle) =>
            \A r \in reserved :
              r.ci \cap clients'[c].txn.ci # {} => wallet.height >= r.height + RespendTimeout
      ]_walletVars

=============================================================================
