---------------------------- MODULE Subscription ----------------------------
(***************************************************************************)
(* How the other modules of a node follow the consensus set:               *)
(* modules/consensus/subscribe.go and the way the transaction pool, the    *)
(* block creator, the explorer and the wallet use it.                      *)
(*                                                                         *)
(* Every subscriber builds a copy of the active path out of the changes it *)
(* is given, each of which names only what it reverts and what it applies. *)
(* A durable subscriber stores its copy together with the id of the last   *)
(* change it saw, in its own database, and asks for what comes after that  *)
(* id when the node starts again; the wallet starts from the beginning.    *)
(* The consensus set commits a change before it tells anybody, so a crash  *)
(* may leave every subscriber at a different change, and the user may put  *)
(* back or delete the consensus database without touching the others.      *)
(***************************************************************************)
EXTENDS HeaviestChain

CONSTANTS
    Rescanning,   \* durable; start over when their last change is unknown
    Strict,       \* durable; refuse to start in that case (the explorer)
    Volatile,     \* keep nothing and always start from the beginning
    Cancellable   \* pass their stop channel to ConsensusSetSubscribe

Durable == Rescanning \cup Strict
Subscribers == Durable \cup Volatile

ASSUME SubscriberAssumption ==
    /\ Rescanning \cap Strict = {}
    /\ Durable \cap Volatile = {}
    /\ Cancellable \subseteq Subscribers

VARIABLES
    subscribers,  \* cs.subscribers, in order
    holder,       \* what the goroutine that holds cs.mu is doing
    copy,         \* a subscriber's copy of the path, in memory
    saved,        \* what a durable subscriber has on disk
    rescan        \* subscribers told that their last change is unknown

subVars == <<subscribers, holder, copy, saved, rescan>>
vars == <<chainVars, subVars>>

\* Nobody holds cs.mu; a new change is being announced under the demoted lock;
\* a new subscriber is catching up under the lock.
Free == [op |-> "free"]
Notify(e, todo) == [op |-> "notify", entry |-> e, todo |-> todo]
CatchUp(s, e) == [op |-> "subscribe", who |-> s, entry |-> e]

\* modules.ConsensusChangeBeginning is the zero id.
Beginning == NoEntry
NothingSaved == [recent |-> Beginning, copy |-> <<>>]

----------------------------------------------------------------------------
(* The change log, by id.  An id is the hash of an entry, so the entry     *)
(* itself stands for it, and an id that occurs twice leads to one place.   *)

Position(id) == CHOOSE i \in 1..Len(log) : log[i] = id
getEntry(id) == \E i \in 1..Len(log) : log[i] = id
NextEntry(id) == IF Position(id) < Len(log) THEN log[Position(id) + 1] ELSE NoEntry

\* Mutant: the id is stored before the copy is.
ProcessConsensusChangeIdFirst(s, e) ==
    /\ copy' = [copy EXCEPT ![s] = Replay(@, e)]
    /\ saved' = [x \in Durable |-> IF x = s THEN [recent |-> e, copy |-> copy[s]] ELSE saved[x]]

\* ProcessConsensusChange of subscriber s: durable ones commit their copy and
\* the id in one transaction of their own database.
ProcessConsensusChange(s, e) ==
    /\ copy' = [copy EXCEPT ![s] = Replay(@, e)]
    /\ saved' = [x \in Durable |-> IF x = s THEN [recent |-> e, copy |-> Replay(copy[s], e)]
                                   ELSE saved[x]]

SubInit ==
    /\ ChainInit
    /\ subscribers = <<>>
    /\ holder = Free
    /\ copy = [s \in Subscribers |-> <<>>]
    /\ saved = [s \in Durable |-> NothingSaved]
    /\ rescan = {}

\* managedAcceptBlock, for a block that changes nothing for subscribers ...
storeBlock(b) ==
    /\ holder = Free
    /\ Store(b)
    /\ UNCHANGED subVars

\* ... and for one that moves the path: the change is committed, the lock is
\* demoted, and the subscribers are told one after the other.
acceptBlock(b) ==
    /\ holder = Free
    /\ MoveTo(b)
    /\ holder' = Notify(log'[Len(log')], subscribers)
    /\ UNCHANGED <<subscribers, copy, saved, rescan>>

readlockUpdateSubscribers ==
    /\ holder.op = "notify"
    /\ holder.todo # <<>>
    /\ ProcessConsensusChange(Head(holder.todo), holder.entry)
    /\ holder' = [holder EXCEPT !.todo = Tail(@)]
    /\ UNCHANGED <<chainVars, subscribers, rescan>>

DemotedUnlock ==
    /\ holder.op = "notify"
    /\ holder.todo = <<>>
    /\ holder' = Free
    /\ UNCHANGED <<chainVars, subscribers, copy, saved, rescan>>

Subscribed(s) == \E i \in 1..Len(subscribers) : subscribers[i] = s

\* ConsensusSetSubscribe by a module that loads its state and starts: it is
\* appended to the subscribers first and then catches up from the change
\* after the last one it has seen.
ConsensusSetSubscribe(s) ==
    LET start == IF s \in Durable THEN saved[s].recent ELSE Beginning
    IN  /\ holder = Free
        /\ ~Subscribed(s)
        /\ s \notin rescan
        /\ start = Beginning \/ getEntry(start)
        /\ subscribers' = Append(subscribers, s)
        /\ copy' = [copy EXCEPT ![s] = IF s \in Durable THEN saved[s].copy ELSE <<>>]
        /\ holder' = CatchUp(s, IF start = Beginning THEN genesisEntry ELSE NextEntry(start))
        /\ UNCHANGED <<chainVars, saved, rescan>>

\* The last change is not in the log: ErrInvalidConsensusChangeID.
subscribeInvalid(s) ==
    /\ holder = Free
    /\ ~Subscribed(s)
    /\ s \in Durable \ rescan
    /\ saved[s].recent # Beginning
    /\ ~getEntry(saved[s].recent)
    /\ rescan' = rescan \cup {s}
    /\ UNCHANGED <<chainVars, subscribers, holder, copy, saved>>

\* resetDB of the transaction pool, startupRescan of the block creator.
resetAndRescan(s) ==
    /\ s \in rescan \cap Rescanning
    /\ rescan' = rescan \ {s}
    /\ saved' = [saved EXCEPT ![s] = NothingSaved]
    /\ UNCHANGED <<chainVars, subscribers, holder, copy>>

\* One turn of the loop of initializeSubscribe.
initializeSubscribe ==
    /\ holder.op = "subscribe"
    /\ holder.entry # NoEntry
    /\ ProcessConsensusChange(holder.who, holder.entry)
    /\ holder' = [holder EXCEPT !.entry = NextEntry(@)]
    /\ UNCHANGED <<chainVars, subscribers, rescan>>

subscribeDone ==
    /\ holder.op = "subscribe"
    /\ holder.entry = NoEntry
    /\ holder' = Free
    /\ UNCHANGED <<chainVars, subscribers, copy, saved, rescan>>

\* Mutant: the first subscriber is taken off the list instead of the last.
cancelSubscribeFirst ==
    /\ holder.op = "subscribe"
    /\ holder.entry # NoEntry
    /\ holder.who \in Cancellable
    /\ subscribers' = Tail(subscribers)
    /\ holder' = Free
    /\ UNCHANGED <<chainVars, copy, saved, rescan>>

\* The subscriber is told to stop while it catches up: it is taken off the
\* list again, as the last one on it.
cancelSubscribe ==
    /\ holder.op = "subscribe"
    /\ holder.entry # NoEntry
    /\ holder.who \in Cancellable
    /\ subscribers' = SubSeq(subscribers, 1, Len(subscribers) - 1)
    /\ holder' = Free
    /\ UNCHANGED <<chainVars, copy, saved, rescan>>

Unsubscribe(s) ==
    /\ holder = Free
    /\ Subscribed(s)
    /\ subscribers' = SelectSeq(subscribers, LAMBDA x : x # s)
    /\ UNCHANGED <<chainVars, holder, copy, saved, rescan>>

\* The process dies; memory is lost.
Restart ==
    /\ subscribers' = <<>>
    /\ holder' = Free
    /\ copy' = [s \in Subscribers |-> <<>>]
    /\ rescan' = {}
    /\ UNCHANGED saved

crash ==
    /\ Restart
    /\ UNCHANGED chainVars

\* The user deletes the consensus database of a node that is down, or puts
\* back the empty one; the databases of the other modules stay.
resetConsensus ==
    /\ Restart
    /\ known' = {Genesis}
    /\ path' = <<Genesis>>
    /\ log' = <<genesisEntry>>

lockHolder == readlockUpdateSubscribers \/ DemotedUnlock \/ initializeSubscribe \/ subscribeDone

SubNext ==
    \/ \E b \in Blocks \ {Genesis} : storeBlock(b)
    \/ \E b \in Blocks \ {Genesis} : acceptBlock(b)
    \/ \E s \in Subscribers : ConsensusSetSubscribe(s)
    \/ \E s \in Subscribers : subscribeInvalid(s)
    \/ \E s \in Subscribers : resetAndRescan(s)
    \/ \E s \in Subscribers : Unsubscribe(s)
    \/ lockHolder
    \/ cancelSubscribe
    \/ crash
    \/ resetConsensus

SubSpec == SubInit /\ [][SubNext]_vars

----------------------------------------------------------------------------
(* Properties. *)

\* Whatever a subscriber is given fits what it has (the blocks to revert are
\* the top of its copy and the first block to apply is a child of the rest), and
\* when the lock is free every subscriber has the active path, no matter when
\* it subscribed and what it had seen before, and is in the list once.
SubscribersFollowPath ==
    /\ holder.op = "notify" =>
         \A i \in 1..Len(holder.todo) : Replays(copy[holder.todo[i]], holder.entry)
    /\ holder.op = "subscribe" /\ holder.entry # NoEntry =>
         Replays(copy[holder.who], holder.entry)
    /\ holder = Free =>
         /\ \A i \in 1..Len(subscribers) : copy[subscribers[i]] = path
         /\ \A i, j \in 1..Len(subscribers) : subscribers[i] = subscribers[j] => i = j

\* What is on disk can be resumed from: if the last change of a durable
\* subscriber is in the log, even in the log of another consensus database,
\* then its copy is the path right after that change; replaying the rest of the
\* log from there gives the active path, and no id occurs twice in it, which is
\* why a hash of the reverted and applied blocks is enough to find one's place
\* (changeEntry.ID).
SavedCopiesResume ==
    /\ PathAfter(Len(log)) = path
    /\ \A i, j \in 1..Len(log) : log[i] = log[j] => i = j
    /\ \A s \in Durable :
         saved[s].recent # Beginning /\ getEntry(saved[s].recent) =>
           saved[s].copy = PathAfter(Position(saved[s].recent))

=============================================================================
