--------------------------- MODULE WalletLifecycle ---------------------------
(***************************************************************************)
(* How the wallet is unlocked, locked and closed while blocks arrive and   *)
(* coins are sent: modules/wallet (wallet.go, encrypt.go, update.go,       *)
(* money.go) with the locks of the consensus set and of the transaction    *)
(* pool that call it back.                                                 *)
(*                                                                         *)
(* A lock is the thread that holds it.  cs.mu is held in write mode by a   *)
(* thread that subscribes; the thread that accepts a block has demoted it  *)
(* by the time it calls the subscribers, so that readers get in.  w.mu is  *)
(* held over a wait by Close only; every other critical section of the     *)
(* wallet is one step.  The consensus changes are numbered 1, 2, ...       *)
(***************************************************************************)
EXTENDS ThreadGroup, FiniteSets

CONSTANTS
    Unlockers, Senders, Closers,  \* threads that call Unlock, SendOutputs, Close
    Relayers,                     \* threads that get transactions from peers
    Acceptor,                     \* the thread that accepts blocks
    StartUnlocked,                \* the wallet has been unlocked before
    MaxHeight                     \* bound on the number of consensus changes

Threads == Unlockers \cup Senders \cup Closers \cup Relayers \cup {Acceptor}

ASSUME WalletAssumption ==
    /\ Nobody \notin Threads
    /\ Acceptor \notin Unlockers \cup Senders \cup Closers \cup Relayers
    /\ Relayers \cap (Unlockers \cup Senders \cup Closers) = {}
    /\ Unlockers \cap (Senders \cup Closers) = {}
    /\ Senders \cap Closers = {}
    /\ StartUnlocked \in BOOLEAN
    /\ MaxHeight \in Nat \ {0}

VARIABLES
    wmu, csmu, tpmu,       \* w.mu, cs.mu, tp.mu
    csSubs, tpSubs,        \* how often the wallet is in the two subscriber lists
    unlocked, subscribed,  \* the flags of the wallet
    height,                \* consensus changes made
    seen,                  \* the consensus change the wallet processed last
    next,                  \* per unlocker: the change it is given next
    left,                  \* per thread: callbacks it has still to make
    pc

locks == <<wmu, csmu, tpmu>>
subs == <<csSubs, tpSubs>>
flags == <<unlocked, subscribed>>
chain == <<height, seen>>
locals == <<next, left>>
vars == <<tgVars, locks, subs, flags, chain, locals, pc>>

Init ==
    /\ tgInit
    /\ wmu = Nobody /\ csmu = Nobody /\ tpmu = Nobody
    /\ unlocked = StartUnlocked
    /\ subscribed = StartUnlocked
    /\ csSubs = IF StartUnlocked THEN 1 ELSE 0
    /\ tpSubs = csSubs
    /\ height = 1
    /\ seen = IF StartUnlocked THEN 1 ELSE 0
    /\ next = [u \in Unlockers |-> 1]
    /\ left = [t \in Threads |-> 0]
    /\ pc = [t \in Threads |-> "idle"]

Goto(t, from, to) == pc[t] = from /\ pc' = [pc EXCEPT ![t] = to]

\* The begin of a method that is counted: w.tg.Add(), or the error.
Enter(t, from, to) ==
    /\ \/ Add /\ Goto(t, from, to)
       \/ ErrStopped /\ Goto(t, from, "gone")
    /\ UNCHANGED <<locks, subs, flags, chain, locals>>

\* The deferred w.tg.Done().
Leave(t, from) ==
    /\ Goto(t, from, "idle")
    /\ Done
    /\ UNCHANGED <<locks, subs, flags, chain, locals>>

----------------------------------------------------------------------------
(* The callbacks of the wallet, by whatever thread. *)

\* Mutant: the callbacks are counted but never refused.
CallbackEnterAlways(t, from, inside) ==
    /\ Goto(t, from, inside)
    /\ wg' = wg + 1
    /\ UNCHANGED <<bmu, stopped, locks, subs, flags, chain, locals>>

\* ProcessConsensusChange and ReceiveUpdatedUnconfirmedTransactions begin with
\* w.tg.Add(): thread t gets in, or is refused.
CallbackEnter(t, from, inside) ==
    /\ Goto(t, from, inside)
    /\ Add
    /\ UNCHANGED <<locks, subs, flags, chain, locals>>

\* A refused consensus change is dropped.
CallbackRefused(t, from) ==
    /\ pc[t] = from
    /\ ErrStopped

\* Under w.mu the wallet takes in change n; then Done.
ProcessConsensusChange(n) ==
    /\ wmu = Nobody
    /\ seen' = n
    /\ Done

----------------------------------------------------------------------------
(* Unlock. *)

\* Mutant: Unlock is not counted by the ThreadGroup.
UnlockUntracked(u) ==
    /\ Goto(u, "idle", "check")
    /\ wg' = wg + 1
    /\ UNCHANGED <<bmu, stopped, locks, subs, flags, chain, locals>>

Unlock(u) == Enter(u, "idle", "check")

\* managedUnlock under w.mu: errAlreadyUnlocked, or the seeds are loaded; the
\* flag subscribed is read here and acted on after w.mu is released.
checkUnlocked(u) ==
    /\ Goto(u, "check", CASE unlocked -> "unlockDone"
                          [] ~unlocked /\ subscribed -> "setUnlocked"
                          [] OTHER -> "subscribe")
    /\ wmu = Nobody
    /\ UNCHANGED <<tgVars, locks, subs, flags, chain, locals>>

\* ConsensusSetSubscribe, from the beginning.
ConsensusSetSubscribe(u) ==
    /\ Goto(u, "subscribe", "feed")
    /\ csmu = Nobody
    /\ csmu' = u
    /\ csSubs' = csSubs + 1
    /\ next' = [next EXCEPT ![u] = 1]
    /\ UNCHANGED <<tgVars, wmu, tpmu, tpSubs, flags, chain, left>>

\* initializeSubscribe: the loop looks at the channel before every change.
feedCancel(u) ==
    /\ Goto(u, "feed", "unlockDone")
    /\ next[u] <= height
    /\ stopped
    /\ csSubs' = csSubs - 1
    /\ csmu' = Nobody
    /\ UNCHANGED <<tgVars, wmu, tpmu, tpSubs, flags, chain, locals>>

\* The next change is for the wallet.  Its Add is not refused: this thread is
\* counted itself, so that a Stop that came first keeps bmu and makes it wait.
feed(u) ==
    /\ Goto(u, "feed", "feedCall")
    /\ next[u] <= height
    /\ ~stopped
    /\ UNCHANGED <<tgVars, locks, subs, flags, chain, locals>>

feedProcess(u) ==
    /\ Goto(u, "feedIn", "feed")
    /\ ProcessConsensusChange(next[u])
    /\ next' = [next EXCEPT ![u] = @ + 1]
    /\ UNCHANGED <<locks, subs, flags, height, left>>

\* Mutant: the most recent change is taken for one the subscriber has.
feedDoneEarly(u) ==
    /\ Goto(u, "feed", "tpSubscribe")
    /\ next[u] >= height
    /\ csmu' = Nobody
    /\ UNCHANGED <<tgVars, wmu, tpmu, subs, flags, chain, locals>>

feedDone(u) ==
    /\ Goto(u, "feed", "tpSubscribe")
    /\ next[u] > height
    /\ csmu' = Nobody
    /\ UNCHANGED <<tgVars, wmu, tpmu, subs, flags, chain, locals>>

\* TransactionPoolSubscribe calls the wallet back once, with tp.mu held.
TransactionPoolSubscribe(u) ==
    /\ Goto(u, "tpSubscribe", "tpCall")
    /\ tpmu = Nobody
    /\ tpmu' = u
    /\ tpSubs' = tpSubs + 1
    /\ left' = [left EXCEPT ![u] = 1]
    /\ UNCHANGED <<tgVars, wmu, csmu, csSubs, flags, chain, next>>

setSubscribed(u) ==
    /\ Goto(u, "setSubscribed", "setUnlocked")
    /\ wmu = Nobody
    /\ subscribed' = TRUE
    /\ UNCHANGED <<tgVars, locks, subs, unlocked, chain, locals>>

setUnlocked(u) ==
    /\ Goto(u, "setUnlocked", "unlockDone")
    /\ wmu = Nobody
    /\ unlocked' = TRUE
    /\ UNCHANGED <<tgVars, locks, subs, subscribed, chain, locals>>

\* Lock, called by the user; it is not counted.
Lock ==
    /\ wmu = Nobody
    /\ unlocked
    /\ unlocked' = FALSE
    /\ UNCHANGED <<tgVars, locks, subs, subscribed, chain, locals, pc>>

----------------------------------------------------------------------------
(* The unconfirmed transactions are sent to the wallet by a thread that    *)
(* holds tp.mu: after TransactionPoolSubscribe, AcceptTransactionSet and   *)
(* the transaction pool's own ProcessConsensusChange.                      *)

tpCall(t) ==
    /\ left[t] > 0
    /\ CallbackEnter(t, "tpCall", "tpIn")

\* updateSubscribersTransactions stops at the first error.
tpRefused(t) ==
    /\ left[t] > 0
    /\ CallbackRefused(t, "tpCall")
    /\ left' = [left EXCEPT ![t] = 0]
    /\ UNCHANGED <<locks, subs, flags, chain, next, pc>>

ReceiveUpdatedUnconfirmedTransactions(t) ==
    /\ Goto(t, "tpIn", "tpCall")
    /\ wmu = Nobody
    /\ Done
    /\ left' = [left EXCEPT ![t] = @ - 1]
    /\ UNCHANGED <<locks, subs, flags, chain, next>>

tpReturn(t) ==
    /\ left[t] = 0
    /\ Goto(t, "tpCall", CASE t \in Unlockers -> "setSubscribed"
                           [] t \in Senders -> "sendDone"
                           [] t \in Relayers -> "idle"
                           [] t = Acceptor -> "csCall")
    /\ tpmu' = Nobody
    /\ left' = [left EXCEPT ![t] = IF t = Acceptor THEN csSubs ELSE 0]
    /\ UNCHANGED <<tgVars, wmu, csmu, subs, flags, chain, next>>

----------------------------------------------------------------------------
(* A block is accepted; the transaction pool is told first, it subscribed  *)
(* when it was made.                                                       *)

acceptBlock ==
    /\ Goto(Acceptor, "idle", "tpLock")
    /\ csmu = Nobody
    /\ height < MaxHeight
    /\ csmu' = Acceptor
    /\ height' = height + 1
    /\ UNCHANGED <<tgVars, wmu, tpmu, subs, flags, seen, locals>>

tpProcessConsensusChange ==
    /\ Goto(Acceptor, "tpLock", "tpCall")
    /\ tpmu = Nobody
    /\ tpmu' = Acceptor
    /\ left' = [left EXCEPT ![Acceptor] = tpSubs]
    /\ UNCHANGED <<tgVars, wmu, csmu, subs, flags, chain, next>>

csCall ==
    /\ left[Acceptor] > 0
    /\ CallbackEnter(Acceptor, "csCall", "csIn")

csRefused ==
    /\ left[Acceptor] > 0
    /\ CallbackRefused(Acceptor, "csCall")
    /\ left' = [left EXCEPT ![Acceptor] = @ - 1]
    /\ UNCHANGED <<locks, subs, flags, chain, next, pc>>

csProcess ==
    /\ Goto(Acceptor, "csIn", "csCall")
    /\ ProcessConsensusChange(height)
    /\ left' = [left EXCEPT ![Acceptor] = @ - 1]
    /\ UNCHANGED <<locks, subs, flags, height, next>>

acceptReturn ==
    /\ Goto(Acceptor, "csCall", "idle")
    /\ left[Acceptor] = 0
    /\ csmu' = Nobody
    /\ UNCHANGED <<tgVars, wmu, tpmu, subs, flags, chain, locals>>

----------------------------------------------------------------------------
(* SendOutputs. *)

SendOutputs(s) == Enter(s, "idle", "fund")

\* FundCoins and Sign, each under w.mu; both need an unlocked wallet.
fund(s) ==
    /\ wmu = Nobody
    /\ \/ unlocked /\ Goto(s, "fund", "sign")
       \/ unlocked /\ Goto(s, "sign", "accept")
       \/ ~unlocked /\ pc[s] \in {"fund", "sign"} /\ pc' = [pc EXCEPT ![s] = "sendDone"]
    /\ UNCHANGED <<tgVars, locks, subs, flags, chain, locals>>

\* Also called by relayTransactionSet, for a peer and not within the wallet.
AcceptTransactionSet(s) ==
    /\ Goto(s, IF s \in Senders THEN "accept" ELSE "idle", "try")
    /\ tpmu = Nobody
    /\ tpmu' = s
    /\ UNCHANGED <<tgVars, wmu, csmu, subs, flags, chain, locals>>

\* cs.mu in read mode, which a subscription under way keeps out.
CsReadable == csmu \notin Unlockers

TryTransactionSet(s) ==
    /\ CsReadable
    /\ Goto(s, "try", "tpCall")
    /\ left' = [left EXCEPT ![s] = tpSubs]
    /\ UNCHANGED <<tgVars, locks, subs, flags, chain, next>>

tryFails(s) ==
    /\ CsReadable
    /\ Goto(s, "try", IF s \in Senders THEN "sendDone" ELSE "idle")
    /\ tpmu' = Nobody
    /\ UNCHANGED <<tgVars, wmu, csmu, subs, flags, chain, locals>>

----------------------------------------------------------------------------
(* Close. *)

\* w.tg.Stop(); the wallet's ThreadGroup has no functions to run.
stop(c) ==
    /\ Goto(c, "idle", "stopWait")
    /\ StopBegin(c)
    /\ UNCHANGED <<locks, subs, flags, chain, locals>>

\* The second caller of Close gets ErrStopped.
stopRefused(c) ==
    /\ Goto(c, "idle", "gone")
    /\ ErrStopped
    /\ UNCHANGED <<locks, subs, flags, chain, locals>>

stopWait(c) ==
    /\ Goto(c, "stopWait", "stopReturn")
    /\ Wait(c)
    /\ UNCHANGED <<locks, subs, flags, chain, locals>>

stopReturn(c) ==
    /\ Goto(c, "stopReturn", "lockWallet")
    /\ Release(c)
    /\ UNCHANGED <<locks, subs, flags, chain, locals>>

\* w.Unlocked() and w.Lock(), which the user may call at the same time.
lockWallet(c) ==
    /\ Goto(c, "lockWallet", "closeLock")
    /\ wmu = Nobody
    /\ unlocked' = FALSE
    /\ UNCHANGED <<tgVars, locks, subs, subscribed, chain, locals>>

closeLock(c) ==
    /\ Goto(c, "closeLock", "csUnsubscribe")
    /\ wmu = Nobody
    /\ wmu' = c
    /\ UNCHANGED <<tgVars, csmu, tpmu, subs, flags, chain, locals>>

\* Unsubscribe removes one entry, if there is one.
Remove(n) == IF n > 0 THEN n - 1 ELSE 0

csUnsubscribe(c) ==
    /\ Goto(c, "csUnsubscribe", "tpUnsubscribe")
    /\ csmu = Nobody
    /\ csSubs' = Remove(csSubs)
    /\ UNCHANGED <<tgVars, locks, tpSubs, flags, chain, locals>>

tpUnsubscribe(c) ==
    /\ Goto(c, "tpUnsubscribe", "closed")
    /\ tpmu = Nobody
    /\ tpSubs' = Remove(tpSubs)
    /\ wmu' = Nobody
    /\ UNCHANGED <<tgVars, csmu, tpmu, csSubs, flags, chain, locals>>

----------------------------------------------------------------------------
(* The specification. *)

unlocking(u) ==
    \/ checkUnlocked(u) \/ ConsensusSetSubscribe(u)
    \/ feedCancel(u) \/ feed(u) \/ CallbackEnter(u, "feedCall", "feedIn")
    \/ feedProcess(u) \/ feedDone(u)
    \/ TransactionPoolSubscribe(u) \/ setSubscribed(u) \/ setUnlocked(u)
    \/ Leave(u, "unlockDone")

sending(s) ==
    \/ fund(s) \/ AcceptTransactionSet(s) \/ TryTransactionSet(s) \/ tryFails(s)
    \/ Leave(s, "sendDone")

relaying(r) == TryTransactionSet(r) \/ tryFails(r)

calling(t) ==
    \/ tpCall(t) \/ tpRefused(t) \/ ReceiveUpdatedUnconfirmedTransactions(t) \/ tpReturn(t)

accepting ==
    \/ tpProcessConsensusChange \/ csCall \/ csRefused \/ csProcess \/ acceptReturn

closing(c) ==
    \/ stopWait(c) \/ stopReturn(c) \/ lockWallet(c) \/ closeLock(c)
    \/ csUnsubscribe(c) \/ tpUnsubscribe(c)

\* A step of a thread within a call it has begun.
Proceed(t) ==
    \/ t \in Unlockers /\ unlocking(t)
    \/ t \in Senders /\ sending(t)
    \/ t \in Relayers /\ relaying(t)
    \/ t \in Closers /\ closing(t)
    \/ t = Acceptor /\ accepting
    \/ calling(t)

Next ==
    \/ \E u \in Unlockers : Unlock(u)
    \/ \E s \in Senders : SendOutputs(s)
    \/ \E c \in Closers : stop(c) \/ stopRefused(c)
    \/ \E r \in Relayers : AcceptTransactionSet(r)
    \/ acceptBlock
    \/ Lock
    \/ \E t \in Threads : Proceed(t)

Spec == Init /\ [][Next]_vars

\* Every goroutine is scheduled, and a Go mutex is handed to a waiter that
\* starves.
FairSpec == Spec /\ \A t \in Threads : SF_vars(Proceed(t))

----------------------------------------------------------------------------
(* Properties. *)

\* Unlock "will never unlock the wallet once the ThreadGroup has been stopped":
\* from the moment Close has locked it the wallet stays locked, also between
\* w.Lock and w.mu.Lock, and a closed wallet is in no list of subscribers.
ClosedStaysLocked ==
    \A c \in Closers :
        /\ pc[c] \in {"closeLock", "csUnsubscribe", "tpUnsubscribe", "closed"} => ~unlocked
        /\ pc[c] = "closed" => csSubs = 0 /\ tpSubs = 0

\* The wallet takes in every consensus change once and in order, whatever the
\* order of Unlock, Lock, Unlock, and of the blocks that arrive meanwhile: its
\* balance is a sum over these changes.  It subscribes only "if this is the
\* first unlock for the wallet object", and when nobody holds cs.mu a running,
\* subscribed wallet has the active path.
WalletIsCurrent ==
    [][/\ seen' # seen => seen' = seen + 1
       /\ csSubs' <= 1
       /\ csmu' = Nobody /\ csSubs' > 0 /\ ~stopped' => seen' = height']_vars

\* Close returns if nobody was in the middle of Unlock or SendOutputs when it
\* was called: it holds w.mu while it waits for cs.mu and tp.mu, whose holders
\* call the wallet back, and are turned away by the ThreadGroup.
CloseReturnsIfIdle ==
    \A c \in Closers :
        pc[c] = "stopWait" /\ (\A t \in Unlockers \cup Senders : pc[t] \in {"idle", "gone"})
          ~> pc[c] = "closed"

=============================================================================
