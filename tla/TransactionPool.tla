--------------------------- MODULE TransactionPool ---------------------------
(***************************************************************************)
(* The pool of unconfirmed transactions, modules/transactionpool, on top   *)
(* of the consensus set.  The pool keeps a list of transaction sets that   *)
(* is meant to be valid, taken in order, on top of the active path; a      *)
(* database of the transactions that are confirmed; and a cache of when    *)
(* each set was accepted, for broadcasting it again.                       *)
(*                                                                         *)
(* The consensus set commits a change, and while its lock is demoted calls *)
(* ProcessConsensusChange, so that between the two the pool can be used by *)
(* others although it is a change behind.  A set of transactions is its    *)
(* own identifier (a hash in the code).                                    *)
(***************************************************************************)
EXTENDS HeaviestChain, SequencesExt

CONSTANTS
    Offers,            \* transaction sets that users and peers may submit
    Size,              \* of a transaction, encoded
    PoolSizeLimit,     \* chainCts.TransactionPool.PoolSizeLimit
    SetSizeLimit,      \* chainCts.TransactionPool.TransactionSetSizeLimit
    RebroadcastDelay,  \* modules.TransactionPoolRebroadcastDelay
    MaxRebroadcasts    \* modules.TransactionPoolMaxRebroadcasts

ASSUME PoolAssumption ==
    /\ Offers \subseteq Seq(Transactions)
    /\ Size \in [Transactions -> Nat]
    /\ PoolSizeLimit \in Nat
    /\ SetSizeLimit \in Nat
    /\ RebroadcastDelay \in Nat \ {0}
    /\ MaxRebroadcasts \in Nat

VARIABLES
    confirmed,  \* bucketConfirmedTransactions, on disk
    recent,     \* bucketRecentConsensusChange, on disk
    sets,       \* transactionSets
    listSize,   \* transactionListSize
    cache,      \* broadcastCache: when and how often, per set
    told,       \* how many entries of the change log have been processed
    open,       \* New has returned
    accepting,  \* a set that was tried and is not added yet; tp.mu is held
    views       \* the list the subscriber was last told; empty if there is none

poolVars == <<confirmed, recent, sets, listSize, cache, told, open, accepting, views>>
vars == <<chainVars, poolVars>>

unlocked == accepting = <<>>    \* tp.mu is free
current == told = Len(log)      \* and then cs.mu may be taken

transactionList == FlattenSeq(sets)
Height == Len(path) - 1

\* updateSubscribersTransactions.
Tell(list) == IF views = {} THEN {} ELSE {list}

----------------------------------------------------------------------------
(* acceptTransactionSet as a function of the pool's list of sets, so that  *)
(* ProcessConsensusChange can apply it to set after set.                   *)

\* The transactions of ts that are not in S.
Without(ts, S) == SelectSeq(ts, LAMBDA t : t \notin S)

\* The size of a transaction set.
SizeOf(ts) == FoldFunctionOnSet(LAMBDA t, n : Size[t] + n, 0, ts, DOMAIN ts)

ValidateTransactionSetSize(ts) == SizeOf(ts) <= SetSizeLimit

validateTransactionSetComposition(pool, size, ts) ==
    /\ ~\E i \in DOMAIN pool : pool[i] = ts
    /\ size <= PoolSizeLimit
    /\ ValidateTransactionSetSize(ts)

\* A set that has lost its confirmed transactions can be added to the pool.
Acceptable(pool, size, ts) ==
    /\ ts # <<>>
    /\ validateTransactionSetComposition(pool, size, ts)
    /\ TryTransactionSet(path, FlattenSeq(pool) \o ts)

\* transactionCache.add: an entry that is there keeps its height.
CacheAdd(c, ts) ==
    [s \in DOMAIN c \cup {ts} |->
       IF s \in DOMAIN c THEN c[s] ELSE [submit |-> Height, broadcasts |-> 0]]

CacheDelete(c, S) == [s \in DOMAIN c \ S |-> c[s]]

\* BlockHeight is unsigned: after a move to a shorter chain the difference
\* wraps around.  2^16 and 2^64 leave the same remainder modulo 3.
HeightRange == 65536

shouldRebroadcast(info) ==
    /\ ((Height - info.submit) % HeightRange) % RebroadcastDelay = 0
    /\ info.broadcasts <= MaxRebroadcasts

\* getTransactionsToBroadcast, with its effect on the counters.
Rebroadcast(c) ==
    [s \in DOMAIN c |->
       IF shouldRebroadcast(c[s]) THEN [c[s] EXCEPT !.broadcasts = @ + 1] ELSE c[s]]

----------------------------------------------------------------------------
(* Actions. *)

Init ==
    /\ ChainInit
    /\ confirmed = {}
    /\ recent = NoEntry
    /\ sets = <<>>
    /\ listSize = 0
    /\ cache = << >>
    /\ told = 0
    /\ open = FALSE
    /\ accepting = <<>>
    /\ views = {}

\* A block arrives; the lock of the consensus set is kept until the pool has
\* been told of the previous change, unless the pool has not subscribed yet.
acceptBlock ==
    /\ open => current
    /\ ChainNext
    /\ UNCHANGED poolVars

\* AcceptTransactionSet holds tp.mu throughout, but not the lock of the
\* consensus set: the set is tried, and a change may be committed before the
\* set is added.  A set that cannot be accepted changes nothing.
AcceptTransactionSet(ts) ==
    /\ open
    /\ unlocked
    /\ LET rest == Without(ts, confirmed)
       IN  /\ Acceptable(sets, listSize, rest)
           /\ accepting' = rest
    /\ UNCHANGED <<chainVars, confirmed, recent, sets, listSize, cache, told, open, views>>

\* Mutant: the subscriber is told before the set is in the list.
addTransactionSetTellFirst ==
    /\ ~unlocked
    /\ sets' = Append(sets, accepting)
    /\ cache' = CacheAdd(cache, accepting)
    /\ listSize' = listSize + SizeOf(accepting)
    /\ views' = Tell(transactionList)
    /\ accepting' = <<>>
    /\ UNCHANGED <<chainVars, confirmed, recent, told, open>>

addTransactionSet ==
    /\ ~unlocked
    /\ sets' = Append(sets, accepting)
    /\ cache' = CacheAdd(cache, accepting)
    /\ listSize' = listSize + SizeOf(accepting)
    /\ views' = Tell(transactionList')
    /\ accepting' = <<>>
    /\ UNCHANGED <<chainVars, confirmed, recent, told, open>>

\* Mutant: a set of which a part is confirmed is tried as a whole.
ReacceptWhole(S, c0) ==
    LET after[i \in 0..Len(sets)] ==
          IF i = 0 THEN [sets |-> <<>>, size |-> 0, cache |-> c0]
          ELSE LET acc == after[i - 1]
               IN  IF Acceptable(acc.sets, acc.size, sets[i])
                   THEN [sets |-> Append(acc.sets, sets[i]), size |-> acc.size + SizeOf(sets[i]),
                         cache |-> CacheAdd(acc.cache, sets[i])]
                   ELSE [acc EXCEPT !.cache = CacheDelete(@, {sets[i]})]
    IN  after[Len(sets)]

\* What is left of the pool after its sets, stripped of the transactions of
\* S, have been accepted again one by one.  A set that is refused leaves the
\* cache under its stripped name.
Reaccept(S, c0) ==
    LET after[i \in 0..Len(sets)] ==
          IF i = 0 THEN [sets |-> <<>>, size |-> 0, cache |-> c0]
          ELSE LET acc == after[i - 1]
                   rest == Without(Without(sets[i], S), confirmed')
               IN  IF Acceptable(acc.sets, acc.size, rest)
                   THEN [sets |-> Append(acc.sets, rest), size |-> acc.size + SizeOf(rest),
                         cache |-> CacheAdd(acc.cache, rest)]
                   ELSE [acc EXCEPT !.cache = CacheDelete(@, {Without(sets[i], S)})]
    IN  after[Len(sets)]

TxnsOf(bs) == UNION {TxnSet(bs[i]) : i \in DOMAIN bs}

\* The database update of ProcessConsensusChange.
UpdateConfirmed(e) == confirmed' = (confirmed \ TxnsOf(e.reverted)) \cup TxnsOf(e.applied)

\* ProcessConsensusChange for the next entry of the log.  It waits for tp.mu
\* and keeps it; the demoted lock of the consensus set keeps the path still.
ProcessConsensusChange(synced) ==
    /\ unlocked
    /\ ~current
    /\ LET e == log[told + 1]
           new == TxnsOf(e.applied)
       IN  /\ UpdateConfirmed(e)
           /\ recent' = e
           /\ LET r == Reaccept(new, CacheDelete(cache, {<<t>> : t \in new}))
              IN  /\ sets' = r.sets
                  /\ listSize' = r.size
                  /\ cache' = IF synced THEN Rebroadcast(r.cache) ELSE r.cache
    /\ views' = Tell(transactionList')
    /\ told' = told + 1
    /\ UNCHANGED <<chainVars, open, accepting>>

\* PurgeTransactionPool: neither the cache nor the subscribers learn of it.
PurgeTransactionPool ==
    /\ open
    /\ unlocked
    /\ sets # <<>>
    /\ sets' = <<>>
    /\ listSize' = 0
    /\ UNCHANGED <<chainVars, confirmed, recent, cache, told, open, accepting, views>>

TransactionPoolSubscribe ==
    /\ open
    /\ unlocked
    /\ views = {}
    /\ views' = {transactionList}
    /\ UNCHANGED <<chainVars, confirmed, recent, sets, listSize, cache, told, open, accepting>>

Unsubscribe ==
    /\ unlocked
    /\ views # {}
    /\ views' = {}
    /\ UNCHANGED <<chainVars, confirmed, recent, sets, listSize, cache, told, open, accepting>>

\* initPersist has caught up with the consensus set.
New ==
    /\ ~open
    /\ current
    /\ open' = TRUE
    /\ UNCHANGED <<chainVars, confirmed, recent, sets, listSize, cache, told, accepting, views>>

\* Mutant: the confirmed transactions are left.
resetDBKeeps ==
    /\ recent' = NoEntry
    /\ UNCHANGED confirmed

resetDB ==
    /\ recent' = NoEntry
    /\ confirmed' = {}

\* initPersist: subscribe after the last change seen, or start over if the
\* consensus set, whose log is l, does not know it.
initPersist(l) ==
    IF recent = NoEntry \/ \E i \in DOMAIN l : l[i] = recent
    THEN /\ told' = IF recent = NoEntry THEN 0 ELSE CHOOSE i \in DOMAIN l : l[i] = recent
         /\ UNCHANGED <<confirmed, recent>>
    ELSE /\ told' = 0
         /\ resetDB

\* The node stops, anywhere, and starts again; Close does no more than this.
\* The consensus database may have been deleted in between.
Restart(deleted) ==
    /\ IF deleted
       THEN known' = {Genesis} /\ path' = <<Genesis>> /\ log' = <<genesisEntry>>
       ELSE UNCHANGED chainVars
    /\ initPersist(log')
    /\ sets' = <<>>
    /\ listSize' = 0
    /\ cache' = << >>
    /\ open' = FALSE
    /\ accepting' = <<>>
    /\ views' = {}

Next ==
    \/ acceptBlock
    \/ \E ts \in Offers : AcceptTransactionSet(ts)
    \/ addTransactionSet
    \/ \E synced \in BOOLEAN : ProcessConsensusChange(synced)
    \/ PurgeTransactionPool
    \/ TransactionPoolSubscribe
    \/ Unsubscribe
    \/ New
    \/ \E deleted \in BOOLEAN : Restart(deleted)

PoolSpec == Init /\ [][Next]_vars

----------------------------------------------------------------------------
(* Properties. *)

\* The database of confirmed transactions is that of the path the pool has
\* been told of, whatever was reverted, and after a restart or a reset of the
\* consensus set (ProcessConsensusChange, initPersist, resetDB).
\* "The transactions are provided in an order that can acceptably be put into
\* a block" (TransactionList): whenever the pool has caught up, its list is
\* valid on the active path and none of it is confirmed; and it never outgrows
\* what validateTransactionSetComposition allows, although the limit is looked
\* at before a set is added and the pool is refilled after every change.
ListFitsPath ==
    /\ told > 0 => confirmed = TxnsOn(PathAfter(told))
    /\ SizeOf(transactionList) <= PoolSizeLimit + SetSizeLimit
    /\ current =>
         /\ TryTransactionSet(path, transactionList)
         /\ Range(transactionList) \cap TxnsOn(path) = {}

\* Whoever subscribes has been told the list, unless the list was purged.
SubscribersKnowList == sets # <<>> => views \subseteq {transactionList}

\* ProcessConsensusChange drops no transaction that could have stayed: what
\* is left of a set, without its confirmed transactions, is in the pool
\* afterwards or cannot be added to it.
NothingIsLost ==
    [][told' = told + 1 =>
         \A i \in DOMAIN sets :
           LET rest == Without(sets[i], confirmed')
           IN  \/ rest = <<>>
               \/ rest \in Range(sets')
               \/ ~TryTransactionSet(path, transactionList' \o rest)]_vars

=============================================================================
