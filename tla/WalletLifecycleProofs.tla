------------------------ MODULE WalletLifecycleProofs ------------------------
(***************************************************************************)
(* A closed wallet stays locked and unsubscribed, for every number of      *)
(* threads that send, relay and close, and for every number of blocks.     *)
(***************************************************************************)
EXTENDS WalletLifecycle, FiniteSetTheorems, TLAPS

Out == {"idle", "gone"}
Callback == {"feedIn", "tpIn", "csIn"}
Locked == {"closeLock", "csUnsubscribe", "tpUnsubscribe", "closed"}
Waited == {"stopReturn", "lockWallet"} \cup Locked
Stopping == {"stopWait"} \cup Waited

\* The points of the code a thread passes, according to what it does.
UnlockLabels ==
    Out \cup {"check", "unlockDone", "setUnlocked", "subscribe", "feed", "feedCall", "feedIn",
              "tpSubscribe", "tpCall", "tpIn", "setSubscribed"}
SendLabels == Out \cup {"fund", "sign", "accept", "try", "tpCall", "tpIn", "sendDone"}
RelayLabels == {"idle", "try", "tpCall", "tpIn"}
AcceptLabels == {"idle", "tpLock", "tpCall", "tpIn", "csCall", "csIn"}
CloseLabels == Out \cup Stopping

Labels(t) ==
    CASE t \in Unlockers -> UnlockLabels
      [] t \in Senders -> SendLabels
      [] t \in Relayers -> RelayLabels
      [] t = Acceptor -> AcceptLabels
      [] t \in Closers -> CloseLabels

\* The calls that Add has counted and Done has not: a thread in Unlock or in
\* SendOutputs that is called back is counted twice.
Inside ==
    {<<t, "call">> : t \in {u \in Unlockers \cup Senders : pc[u] \notin Out}}
    \cup {<<t, "callback">> : t \in {u \in Threads : pc[u] \in Callback}}

\* One closer at most gets past Stop, with nobody inside any more; from then
\* on nobody gets in, and a wallet that was locked stays so.
LockInv ==
    /\ pc \in [Threads -> UNION {Labels(t) : t \in Threads}]
    /\ \A t \in Threads : pc[t] \in Labels(t)
    /\ IsFiniteSet(Inside)
    /\ wg = Cardinality(Inside)
    /\ bmu \in Closers \cup {Nobody}
    /\ \A c \in Closers :
         /\ pc[c] \in {"stopWait", "stopReturn"} <=> bmu = c
         /\ pc[c] \in Stopping => stopped
         /\ pc[c] \in Waited => Inside = {}
         /\ pc[c] \in Locked => ~unlocked
    /\ \A c, d \in Closers : pc[c] \in Stopping /\ pc[d] \in Stopping => c = d

\* Points of Unlock at which the wallet is in the first and in both lists.
InFirst == {"feed", "feedCall", "feedIn", "tpSubscribe"}
InBoth == {"tpCall", "tpIn", "setSubscribed"}

\* The wallet is in either list at most once: it got there with the flag
\* subscribed, or with the call of Unlock that will set it.
SubsInv ==
    /\ csSubs \in {0, 1} /\ tpSubs \in {0, 1}
    /\ csSubs = 1 => subscribed \/ \E u \in Unlockers : pc[u] \in InFirst \cup InBoth
    /\ tpSubs = 1 => subscribed \/ \E u \in Unlockers : pc[u] \in InBoth
    /\ \A u \in Unlockers :
         /\ pc[u] = "subscribe" => ~subscribed /\ csSubs = 0 /\ tpSubs = 0
         /\ pc[u] \in InFirst => ~subscribed /\ csSubs = 1 /\ tpSubs = 0
         /\ pc[u] \in InBoth => ~subscribed /\ csSubs = 1 /\ tpSubs = 1
    /\ \A c \in Closers :
         /\ pc[c] \in {"tpUnsubscribe", "closed"} => csSubs = 0
         /\ pc[c] = "closed" => tpSubs = 0

\* Unlock is not called while another call of it goes on.
OneUnlocker == \A u, v \in Unlockers : u = v

----------------------------------------------------------------------------
(* Who is inside. *)

\* No thread has two roles.
LEMMA LabelsOf ==
  /\ \A t \in Unlockers :
       t \in Threads \ Closers /\ t \notin Senders /\ Labels(t) = UnlockLabels
  /\ \A t \in Senders :
       t \in Threads \ Closers /\ t \notin Unlockers /\ Labels(t) = SendLabels
  /\ \A t \in Relayers :
       /\ t \in Threads \ Closers /\ t \notin Unlockers \cup Senders
       /\ Labels(t) = RelayLabels
  /\ /\ Acceptor \in Threads \ Closers /\ Acceptor \notin Unlockers \cup Senders \cup Relayers
     /\ Labels(Acceptor) = AcceptLabels
  /\ \A t \in Closers :
       t \in Threads /\ t \notin Unlockers \cup Senders /\ Labels(t) = CloseLabels
  BY WalletAssumption DEF Labels, Threads

\* Where everybody is after a step of thread t.
LEMMA Moved ==
  ASSUME LockInv, NEW t \in Threads, NEW l \in Labels(t), pc' = [pc EXCEPT ![t] = l]
  PROVE  /\ pc' \in [Threads -> UNION {Labels(u) : u \in Threads}]
         /\ \A u \in Threads : pc'[u] \in Labels(u)
         /\ \A u \in Threads : pc'[u] = IF u = t THEN l ELSE pc[u]
  BY DEF LockInv

\* A thread that is neither called nor called back by its step.
LEMMA SameInside ==
  ASSUME LockInv, NEW t \in Threads, NEW l \in Labels(t), pc' = [pc EXCEPT ![t] = l],
         t \in Unlockers \cup Senders => (pc[t] \in Out <=> l \in Out),
         pc[t] \in Callback <=> l \in Callback
  PROVE  Inside' = Inside
  <1>1. \A u \in Threads : pc'[u] = IF u = t THEN l ELSE pc[u]
    BY Moved
  <1>2. {u \in Unlockers \cup Senders : pc'[u] \notin Out}
          = {u \in Unlockers \cup Senders : pc[u] \notin Out}
    BY <1>1 DEF Threads
  <1>3. {u \in Threads : pc'[u] \in Callback} = {u \in Threads : pc[u] \in Callback}
    BY <1>1
  <1> QED BY <1>2, <1>3 DEF Inside

\* A step within a call by a thread that does not close the wallet.
LEMMA InnerStep ==
  ASSUME LockInv, NEW t \in Threads \ Closers, NEW l \in Labels(t),
         pc' = [pc EXCEPT ![t] = l], UNCHANGED tgVars,
         t \in Unlockers \cup Senders => (pc[t] \in Out <=> l \in Out),
         pc[t] \in Callback <=> l \in Callback,
         unlocked' => unlocked \/ (t \in Unlockers /\ pc[t] \notin Out)
  PROVE  LockInv'
  <1>1. /\ pc' \in [Threads -> UNION {Labels(u) : u \in Threads}]
        /\ \A u \in Threads : pc'[u] \in Labels(u)
        /\ \A u \in Threads : pc'[u] = IF u = t THEN l ELSE pc[u]
    BY Moved
  <1>2. Inside' = Inside
    BY SameInside
  <1>3. \A c \in Closers : pc'[c] = pc[c]
    BY <1>1 DEF Threads
  <1>4. t \in Unlockers /\ pc[t] \notin Out => Inside # {}
    <2>1. t \in Unlockers /\ pc[t] \notin Out => <<t, "call">> \in Inside
      BY DEF Inside
    <2> QED BY <2>1
  <1>5. \A c \in Closers : pc'[c] \in Locked => ~unlocked'
    BY <1>3, <1>4 DEF LockInv, Waited
  <1> QED BY <1>1, <1>2, <1>3, <1>5 DEF LockInv, tgVars

\* Add: thread t is counted once more.
LEMMA EnterStep ==
  ASSUME LockInv, NEW t \in Threads \ Closers, NEW l \in Labels(t),
         pc' = [pc EXCEPT ![t] = l], Add, unlocked' = unlocked,
         \/ /\ t \in Unlockers \cup Senders /\ pc[t] \in Out /\ l \notin Out
            /\ pc[t] \in Callback <=> l \in Callback
         \/ /\ t \in Unlockers \cup Senders => (pc[t] \in Out <=> l \in Out)
            /\ pc[t] \notin Callback /\ l \in Callback
  PROVE  LockInv'
  <1>1. /\ pc' \in [Threads -> UNION {Labels(u) : u \in Threads}]
        /\ \A u \in Threads : pc'[u] \in Labels(u)
        /\ \A u \in Threads : pc'[u] = IF u = t THEN l ELSE pc[u]
    BY Moved
  <1>2. PICK x : x \notin Inside /\ Inside' = Inside \cup {x}
    <2>1. CASE /\ t \in Unlockers \cup Senders /\ pc[t] \in Out /\ l \notin Out
               /\ pc[t] \in Callback <=> l \in Callback
      <3>1. {u \in Unlockers \cup Senders : pc'[u] \notin Out}
              = {u \in Unlockers \cup Senders : pc[u] \notin Out} \cup {t}
        BY <1>1, <2>1 DEF Threads
      <3>2. {u \in Threads : pc'[u] \in Callback} = {u \in Threads : pc[u] \in Callback}
        BY <1>1, <2>1
      <3>3. <<t, "call">> \notin Inside
        BY <2>1 DEF Inside
      <3>4. Inside' = Inside \cup {<<t, "call">>}
        BY <3>1, <3>2 DEF Inside
      <3> QED BY <3>3, <3>4
    <2>2. CASE /\ t \in Unlockers \cup Senders => (pc[t] \in Out <=> l \in Out)
               /\ pc[t] \notin Callback /\ l \in Callback
      <3>1. {u \in Unlockers \cup Senders : pc'[u] \notin Out}
              = {u \in Unlockers \cup Senders : pc[u] \notin Out}
        BY <1>1, <2>2 DEF Threads
      <3>2. {u \in Threads : pc'[u] \in Callback} = {u \in Threads : pc[u] \in Callback} \cup {t}
        BY <1>1, <2>2
      <3>3. <<t, "callback">> \notin Inside
        BY <2>2 DEF Inside
      <3>4. Inside' = Inside \cup {<<t, "callback">>}
        BY <3>1, <3>2 DEF Inside
      <3> QED BY <3>3, <3>4
    <2> QED BY <2>1, <2>2
  <1>3. IsFiniteSet(Inside') /\ wg' = Cardinality(Inside')
    BY <1>2, FS_AddElement DEF LockInv, Add
  <1>4. \A c \in Closers : pc'[c] = pc[c] /\ pc[c] \notin Stopping
    BY <1>1 DEF Threads, LockInv, Add
  <1> QED BY <1>1, <1>3, <1>4 DEF LockInv, Add, Stopping, Waited

\* Done: thread t is counted once less.
LEMMA LeaveStep ==
  ASSUME LockInv, NEW t \in Threads \ Closers, NEW l \in Labels(t),
         pc' = [pc EXCEPT ![t] = l], Done, unlocked' = unlocked,
         \/ /\ t \in Unlockers \cup Senders /\ pc[t] \notin Out /\ l \in Out
            /\ pc[t] \in Callback <=> l \in Callback
         \/ /\ t \in Unlockers \cup Senders => (pc[t] \in Out <=> l \in Out)
            /\ pc[t] \in Callback /\ l \notin Callback
  PROVE  LockInv'
  <1>1. /\ pc' \in [Threads -> UNION {Labels(u) : u \in Threads}]
        /\ \A u \in Threads : pc'[u] \in Labels(u)
        /\ \A u \in Threads : pc'[u] = IF u = t THEN l ELSE pc[u]
    BY Moved
  <1>2. PICK x : x \in Inside /\ Inside' = Inside \ {x}
    <2>1. CASE /\ t \in Unlockers \cup Senders /\ pc[t] \notin Out /\ l \in Out
               /\ pc[t] \in Callback <=> l \in Callback
      <3>1. {u \in Unlockers \cup Senders : pc'[u] \notin Out}
              = {u \in Unlockers \cup Senders : pc[u] \notin Out} \ {t}
        BY <1>1, <2>1 DEF Threads
      <3>2. {u \in Threads : pc'[u] \in Callback} = {u \in Threads : pc[u] \in Callback}
        BY <1>1, <2>1
      <3>3. <<t, "call">> \in Inside
        BY <2>1 DEF Inside
      <3>4. Inside' = Inside \ {<<t, "call">>}
        BY <3>1, <3>2 DEF Inside
      <3> QED BY <3>3, <3>4
    <2>2. CASE /\ t \in Unlockers \cup Senders => (pc[t] \in Out <=> l \in Out)
               /\ pc[t] \in Callback /\ l \notin Callback
      <3>1. {u \in Unlockers \cup Senders : pc'[u] \notin Out}
              = {u \in Unlockers \cup Senders : pc[u] \notin Out}
        BY <1>1, <2>2 DEF Threads
      <3>2. {u \in Threads : pc'[u] \in Callback} = {u \in Threads : pc[u] \in Callback} \ {t}
        BY <1>1, <2>2
      <3>3. <<t, "callback">> \in Inside
        BY <2>2 DEF Inside
      <3>4. Inside' = Inside \ {<<t, "callback">>}
        BY <3>1, <3>2 DEF Inside
      <3> QED BY <3>3, <3>4
    <2> QED BY <2>1, <2>2
  <1>3. IsFiniteSet(Inside') /\ wg' = Cardinality(Inside')
    BY <1>2, FS_RemoveElement DEF LockInv, Done
  <1>4. \A c \in Closers : pc'[c] = pc[c]
    BY <1>1 DEF Threads
  <1>5. \A c \in Closers : pc[c] \in Waited => Inside' = {}
    BY <1>2 DEF LockInv
  <1> QED BY <1>1, <1>3, <1>4, <1>5 DEF LockInv, Done

----------------------------------------------------------------------------
(* The wallet stays locked. *)

\* Nobody is inside at first.
LEMMA LockInvInit == Init => LockInv
  <1> SUFFICES ASSUME Init PROVE LockInv
    OBVIOUS
  <1>1. \A t \in Threads : pc[t] = "idle" /\ "idle" \in Labels(t)
    BY LabelsOf DEF Init, Threads, UnlockLabels, SendLabels, RelayLabels, AcceptLabels,
                    CloseLabels, Out
  <1>2. pc \in [Threads -> UNION {Labels(t) : t \in Threads}]
    BY <1>1 DEF Init
  <1>3. Inside = {}
    BY <1>1 DEF Inside, Out, Callback, Threads
  <1>4. IsFiniteSet(Inside) /\ Cardinality(Inside) = 0
    BY <1>3, FS_EmptySet
  <1>5. Nobody \notin Closers
    BY WalletAssumption DEF Threads
  <1> QED BY <1>1, <1>2, <1>4, <1>5, LabelsOf
          DEF Init, tgInit, LockInv, Stopping, Waited, Locked

\* Steps of a thread that calls Unlock.
LEMMA UnlockerStep ==
  ASSUME LockInv, NEW u \in Unlockers, Unlock(u) \/ unlocking(u) PROVE LockInv'
  <1> USE LabelsOf DEF UnlockLabels, Out, Callback
  <1>1. CASE Unlock(u)
    <2>1. CASE Add /\ Goto(u, "idle", "check") /\ UNCHANGED flags
      BY <2>1, EnterStep DEF Goto, flags
    <2>2. CASE ErrStopped /\ Goto(u, "idle", "gone") /\ UNCHANGED flags
      BY <2>2, InnerStep DEF Goto, flags, ErrStopped
    <2> QED BY <1>1, <2>1, <2>2 DEF Unlock, Enter
  <1>2. CASE checkUnlocked(u)
    <2>1. \E l \in {"unlockDone", "setUnlocked", "subscribe"} : Goto(u, "check", l)
      BY <1>2 DEF checkUnlocked
    <2> QED BY <1>2, <2>1, InnerStep DEF checkUnlocked, Goto, flags
  <1>3. CASE ConsensusSetSubscribe(u)
    BY <1>3, InnerStep DEF ConsensusSetSubscribe, Goto, flags
  <1>4. CASE feedCancel(u) \/ feed(u) \/ feedDone(u)
    BY <1>4, InnerStep DEF feedCancel, feed, feedDone, Goto, flags
  <1>5. CASE CallbackEnter(u, "feedCall", "feedIn")
    BY <1>5, EnterStep DEF CallbackEnter, Goto, flags
  <1>6. CASE feedProcess(u)
    BY <1>6, LeaveStep DEF feedProcess, ProcessConsensusChange, Goto, flags
  <1>7. CASE TransactionPoolSubscribe(u) \/ setSubscribed(u) \/ setUnlocked(u)
    BY <1>7, InnerStep DEF TransactionPoolSubscribe, setSubscribed, setUnlocked, Goto, flags
  <1>8. CASE Leave(u, "unlockDone")
    BY <1>8, LeaveStep DEF Leave, Goto, flags
  <1> QED BY <1>1, <1>2, <1>3, <1>4, <1>5, <1>6, <1>7, <1>8 DEF unlocking

\* Steps of a thread that calls SendOutputs, or relays transactions.
LEMMA SenderStep ==
  ASSUME LockInv, NEW s \in Senders \cup Relayers,
         \/ s \in Senders /\ (SendOutputs(s) \/ sending(s))
         \/ s \in Relayers /\ (AcceptTransactionSet(s) \/ relaying(s))
  PROVE  LockInv'
  <1> USE LabelsOf DEF SendLabels, RelayLabels, Out, Callback
  <1>1. CASE s \in Senders /\ SendOutputs(s)
    <2>1. CASE Add /\ Goto(s, "idle", "fund") /\ UNCHANGED flags
      BY <1>1, <2>1, EnterStep DEF Goto, flags
    <2>2. CASE ErrStopped /\ Goto(s, "idle", "gone") /\ UNCHANGED flags
      BY <1>1, <2>2, InnerStep DEF Goto, flags, ErrStopped
    <2> QED BY <1>1, <2>1, <2>2 DEF SendOutputs, Enter
  <1>2. CASE s \in Senders /\ fund(s)
    <2>1. \E l \in {"sign", "accept", "sendDone"} : pc[s] \in {"fund", "sign"} /\ pc' = [pc EXCEPT ![s] = l]
      BY <1>2 DEF fund, Goto
    <2> QED BY <1>2, <2>1, InnerStep DEF fund, flags
  <1>3. CASE AcceptTransactionSet(s)
    BY <1>3, InnerStep DEF AcceptTransactionSet, Goto, flags
  <1>4. CASE TryTransactionSet(s)
    BY <1>4, InnerStep DEF TryTransactionSet, Goto, flags
  <1>5. CASE tryFails(s)
    BY <1>5, InnerStep DEF tryFails, Goto, flags
  <1>6. CASE s \in Senders /\ Leave(s, "sendDone")
    BY <1>6, LeaveStep DEF Leave, Goto, flags
  <1> QED BY <1>1, <1>2, <1>3, <1>4, <1>5, <1>6 DEF sending, relaying

\* A step by which no thread gets on and the wallet is not unlocked.
LEMMA QuietStep ==
  ASSUME LockInv, UNCHANGED <<pc, tgVars>>, unlocked' => unlocked PROVE LockInv'
  <1>1. Inside' = Inside
    BY DEF Inside
  <1> QED BY <1>1 DEF LockInv, tgVars

\* The transaction pool calls the wallet back, by whatever thread.
LEMMA CallingStep ==
  ASSUME LockInv, NEW t \in Threads, calling(t) PROVE LockInv'
  <1> USE LabelsOf DEF UnlockLabels, SendLabels, RelayLabels, AcceptLabels, Out, Callback
  <1>1. pc[t] \in {"tpCall", "tpIn"}
    BY DEF calling, tpCall, tpRefused, ReceiveUpdatedUnconfirmedTransactions, tpReturn,
           CallbackEnter, CallbackRefused, Goto
  <1>2. t \notin Closers
    BY <1>1 DEF LockInv, CloseLabels, Stopping, Waited, Locked
  <1>3. {"tpCall", "tpIn"} \subseteq Labels(t)
    BY <1>2 DEF Threads
  <1>4. CASE tpCall(t)
    BY <1>2, <1>3, <1>4, EnterStep DEF tpCall, CallbackEnter, Goto, flags
  <1>5. CASE tpRefused(t)
    BY <1>5, QuietStep DEF tpRefused, CallbackRefused, ErrStopped, flags
  <1>6. CASE ReceiveUpdatedUnconfirmedTransactions(t)
    BY <1>2, <1>3, <1>6, LeaveStep DEF ReceiveUpdatedUnconfirmedTransactions, Goto, flags
  <1>7. CASE tpReturn(t)
    <2> DEFINE l == CASE t \in Unlockers -> "setSubscribed"
                      [] t \in Senders -> "sendDone"
                      [] t \in Relayers -> "idle"
                      [] t = Acceptor -> "csCall"
    <2>1. /\ pc[t] = "tpCall" /\ pc' = [pc EXCEPT ![t] = l]
          /\ UNCHANGED tgVars /\ unlocked' = unlocked
      BY <1>7 DEF tpReturn, Goto, flags
    <2>2. /\ l \in Labels(t) /\ l \notin Callback
          /\ t \in Unlockers \cup Senders => l \notin Out
      BY <1>2 DEF Threads
    <2> HIDE DEF l
    <2> QED BY <1>2, <2>1, <2>2, InnerStep
  <1> QED BY <1>4, <1>5, <1>6, <1>7 DEF calling

\* Steps of the thread that accepts blocks.
LEMMA AcceptorStep ==
  ASSUME LockInv, acceptBlock \/ accepting PROVE LockInv'
  <1> USE LabelsOf DEF AcceptLabels, Out, Callback
  <1>1. CASE acceptBlock \/ tpProcessConsensusChange \/ acceptReturn
    BY <1>1, InnerStep DEF acceptBlock, tpProcessConsensusChange, acceptReturn, Goto, flags
  <1>2. CASE csCall
    BY <1>2, EnterStep DEF csCall, CallbackEnter, Goto, flags
  <1>3. CASE csRefused
    BY <1>3, QuietStep DEF csRefused, CallbackRefused, ErrStopped, flags
  <1>4. CASE csProcess
    BY <1>4, LeaveStep DEF csProcess, ProcessConsensusChange, Goto, flags
  <1> QED BY <1>1, <1>2, <1>3, <1>4 DEF accepting

\* Steps of a thread that calls Close.
LEMMA CloserStep ==
  ASSUME LockInv, NEW c \in Closers, stop(c) \/ stopRefused(c) \/ closing(c)
  PROVE  LockInv'
  <1> DEFINE after == {"gone", "stopWait"} \cup Waited
  <1>1. PICK l \in after : pc' = [pc EXCEPT ![c] = l]
    BY DEF stop, stopRefused, closing, stopWait, stopReturn, lockWallet, closeLock,
           csUnsubscribe, tpUnsubscribe, Goto, Waited, Locked
  <1>2. l \in Labels(c)
    BY LabelsOf DEF CloseLabels, Out, Stopping
  <1>3. /\ pc' \in [Threads -> UNION {Labels(u) : u \in Threads}]
        /\ \A u \in Threads : pc'[u] \in Labels(u)
        /\ \A u \in Threads : pc'[u] = IF u = c THEN l ELSE pc[u]
    BY <1>1, <1>2, Moved, LabelsOf
  <1>4. pc[c] \notin Callback /\ l \notin Callback
    BY LabelsOf DEF LockInv, CloseLabels, Callback, Out, Stopping, Waited, Locked
  <1>5. Inside' = Inside
    BY <1>1, <1>2, <1>4, SameInside, LabelsOf
  <1>6. \A d \in Closers : pc'[d] = IF d = c THEN l ELSE pc[d]
    BY <1>3, LabelsOf
  <1>7. wg' = wg /\ Nobody \notin Closers /\ pc'[c] = l
    BY <1>6, WalletAssumption
       DEF stop, stopRefused, closing, stopWait, stopReturn, lockWallet, closeLock, csUnsubscribe,
           tpUnsubscribe, StopBegin, ErrStopped, Wait, Release, tgVars, Threads
  <1> USE DEF Stopping, Waited, Locked
  <1>8. CASE stop(c)
    <2>1. /\ pc[c] = "idle" /\ l = "stopWait" /\ bmu = Nobody /\ bmu' = c
          /\ ~stopped /\ stopped' = TRUE /\ unlocked' = unlocked
      BY <1>1, <1>7, <1>8 DEF stop, StopBegin, Goto, flags, LockInv
    <2>2. \A d \in Closers : pc[d] \notin Stopping
      BY <2>1 DEF LockInv
    <2> QED BY <1>3, <1>5, <1>6, <1>7, <2>1, <2>2 DEF LockInv
  <1>9. CASE stopRefused(c)
    <2>1. /\ pc[c] = "idle" /\ l = "gone" /\ UNCHANGED tgVars /\ unlocked' = unlocked
      BY <1>1, <1>7, <1>9 DEF stopRefused, ErrStopped, Goto, flags, LockInv
    <2> QED BY <1>3, <1>5, <1>6, <1>7, <2>1 DEF LockInv, tgVars
  <1>10. CASE stopWait(c)
    <2>1. /\ pc[c] = "stopWait" /\ l = "stopReturn" /\ UNCHANGED tgVars /\ wg = 0
          /\ unlocked' = unlocked
      <3>1. Goto(c, "stopWait", "stopReturn") /\ Wait(c) /\ UNCHANGED flags
        BY <1>10 DEF stopWait
      <3> QED BY <1>1, <1>7, <3>1, LabelsOf DEF Wait, Goto, flags, LockInv
    <2>2. Inside = {}
      BY <2>1, FS_EmptySet DEF LockInv
    <2> QED BY <1>3, <1>5, <1>6, <1>7, <2>1, <2>2 DEF LockInv, tgVars
  <1>11. CASE stopReturn(c)
    <2>1. /\ pc[c] = "stopReturn" /\ l = "lockWallet" /\ bmu = c /\ bmu' = Nobody
          /\ stopped' = stopped /\ unlocked' = unlocked
      <3>1. Goto(c, "stopReturn", "lockWallet") /\ Release(c) /\ UNCHANGED flags
        BY <1>11 DEF stopReturn
      <3> QED BY <1>1, <1>7, <3>1, LabelsOf DEF Release, Goto, flags, LockInv
    <2> QED BY <1>3, <1>5, <1>6, <1>7, <2>1 DEF LockInv
  <1>12. CASE lockWallet(c)
    <2>1. /\ pc[c] = "lockWallet" /\ l = "closeLock" /\ UNCHANGED tgVars /\ ~unlocked'
      <3>1. Goto(c, "lockWallet", "closeLock") /\ UNCHANGED tgVars /\ unlocked' = FALSE
        BY <1>12 DEF lockWallet
      <3> QED BY <1>1, <1>7, <3>1, LabelsOf DEF Goto, LockInv
    <2> QED BY <1>3, <1>5, <1>6, <1>7, <2>1 DEF LockInv, tgVars
  <1>13. CASE closeLock(c) \/ csUnsubscribe(c) \/ tpUnsubscribe(c)
    <2>1. /\ pc[c] \in Locked /\ l \in Locked /\ UNCHANGED tgVars /\ unlocked' = unlocked
      BY <1>1, <1>7, <1>13 DEF closeLock, csUnsubscribe, tpUnsubscribe, Goto, flags, LockInv
    <2> QED BY <1>3, <1>5, <1>6, <1>7, <2>1 DEF LockInv, tgVars
  <1> QED BY <1>8, <1>9, <1>10, <1>11, <1>12, <1>13 DEF closing

\* Every step keeps the invariant.
LEMMA LockInvStep == LockInv /\ [Next]_vars => LockInv'
  <1> SUFFICES ASSUME LockInv, [Next]_vars PROVE LockInv'
    OBVIOUS
  <1>1. CASE UNCHANGED vars
    BY <1>1, QuietStep DEF vars, flags
  <1>2. CASE Lock
    BY <1>2, QuietStep DEF Lock
  <1>3. ASSUME NEW t \in Threads, Proceed(t) PROVE LockInv'
    BY <1>3, UnlockerStep, SenderStep, CloserStep, AcceptorStep, CallingStep DEF Proceed
  <1> QED BY <1>1, <1>2, <1>3, UnlockerStep, SenderStep, CloserStep, AcceptorStep DEF Next

\* From the moment Close has locked it the wallet stays locked: whoever would
\* unlock it was counted, and Stop waited for them.  This holds for every set
\* of threads, also when Unlock is called by several at once.
THEOREM WalletStaysLocked ==
  Spec => [](\A c \in Closers : pc[c] \in Locked => ~unlocked)
  <1>1. LockInv => \A c \in Closers : pc[c] \in Locked => ~unlocked
    BY DEF LockInv
  <1> QED BY <1>1, LockInvInit, LockInvStep, PTL DEF Spec

----------------------------------------------------------------------------
(* The wallet leaves both lists. *)

subsVars == <<csSubs, tpSubs, subscribed>>

\* A wallet that starts unlocked is in both lists, another one in neither.
LEMMA SubsInvInit == Init => SubsInv
  <1> SUFFICES ASSUME Init PROVE SubsInv
    OBVIOUS
  <1>1. \A t \in Unlockers \cup Closers : pc[t] = "idle"
    BY LabelsOf DEF Init
  <1> QED BY <1>1, WalletAssumption DEF Init, SubsInv, InFirst, InBoth

\* A step of a thread that neither unlocks nor closes the wallet.
LEMMA OtherStep ==
  ASSUME SubsInv, UNCHANGED subsVars, \A t \in Unlockers \cup Closers : pc'[t] = pc[t]
  PROVE  SubsInv'
  <1>1. \A S : (\E u \in Unlockers : pc'[u] \in S) <=> (\E u \in Unlockers : pc[u] \in S)
    OBVIOUS
  <1> QED BY <1>1 DEF SubsInv, subsVars

\* The same, with the step of one such thread.
LEMMA OtherMoved ==
  ASSUME LockInv, SubsInv, UNCHANGED subsVars, NEW t \in Threads, NEW l,
         t \notin Unlockers \cup Closers, pc' = [pc EXCEPT ![t] = l]
  PROVE  SubsInv'
  <1>1. \A u \in Unlockers \cup Closers : pc'[u] = pc[u]
    BY LabelsOf DEF LockInv
  <1> QED BY <1>1, OtherStep

\* Nobody is unlocking a wallet once Stop has returned.
LEMMA NobodyUnlocks ==
  ASSUME LockInv, NEW u \in Unlockers, pc[u] \notin Out
  PROVE  \A c \in Closers : pc[c] \notin Waited
  <1>1. <<u, "call">> \in Inside
    BY DEF Inside
  <1> QED BY <1>1 DEF LockInv

\* The only thread that calls Unlock goes on to l.
LEMMA OnlyUnlocker ==
  ASSUME LockInv, OneUnlocker, NEW u \in Unlockers, NEW l, pc' = [pc EXCEPT ![u] = l]
  PROVE  /\ pc'[u] = l
         /\ \A v \in Unlockers : v = u
         /\ \A c \in Closers : pc'[c] = pc[c]
  BY LabelsOf DEF LockInv, OneUnlocker

\* What a step of Unlock leaves true of the lists.
LEMMA UnlockMoved ==
  ASSUME LockInv, SubsInv, OneUnlocker, NEW u \in Unlockers, NEW l, pc' = [pc EXCEPT ![u] = l],
         csSubs' \in {0, 1}, tpSubs' \in {0, 1},
         pc[u] \in Out => UNCHANGED subsVars,
         csSubs' = 1 => subscribed' \/ l \in InFirst \cup InBoth,
         tpSubs' = 1 => subscribed' \/ l \in InBoth,
         l = "subscribe" => ~subscribed' /\ csSubs' = 0 /\ tpSubs' = 0,
         l \in InFirst => ~subscribed' /\ csSubs' = 1 /\ tpSubs' = 0,
         l \in InBoth => ~subscribed' /\ csSubs' = 1 /\ tpSubs' = 1
  PROVE  SubsInv'
  <1>1. /\ pc'[u] = l
        /\ \A v \in Unlockers : v = u
        /\ \A c \in Closers : pc'[c] = pc[c]
    BY OnlyUnlocker
  <1>2. \A c \in Closers :
          /\ pc'[c] \in {"tpUnsubscribe", "closed"} => csSubs' = 0
          /\ pc'[c] = "closed" => tpSubs' = 0
    BY <1>1, NobodyUnlocks DEF SubsInv, Waited, Locked, subsVars
  <1> QED BY <1>1, <1>2 DEF SubsInv

\* Steps of the thread that calls Unlock.
LEMMA UnlockerKeepsLists ==
  ASSUME LockInv, SubsInv, OneUnlocker, NEW u \in Unlockers,
         Unlock(u) \/ unlocking(u) \/ calling(u)
  PROVE  SubsInv'
  <1> USE DEF InFirst, InBoth, Out
  <1>0. /\ csSubs \in {0, 1} /\ tpSubs \in {0, 1}
        /\ csSubs = 1 => subscribed \/ pc[u] \in InFirst \cup InBoth
        /\ tpSubs = 1 => subscribed \/ pc[u] \in InBoth
        /\ pc[u] = "subscribe" => ~subscribed /\ csSubs = 0 /\ tpSubs = 0
        /\ pc[u] \in InFirst => ~subscribed /\ csSubs = 1 /\ tpSubs = 0
        /\ pc[u] \in InBoth => ~subscribed /\ csSubs = 1 /\ tpSubs = 1
    BY DEF SubsInv, OneUnlocker
  <1>1. CASE Unlock(u)
    BY <1>0, <1>1, UnlockMoved DEF Unlock, Enter, Goto, subsVars, subs, flags
  <1>2. CASE checkUnlocked(u)
    <2>1. PICK l \in {"unlockDone", "setUnlocked", "subscribe"} :
            Goto(u, "check", l) /\ (l = "subscribe" => ~subscribed)
      BY <1>2 DEF checkUnlocked
    <2> QED BY <1>0, <1>2, <2>1, UnlockMoved DEF checkUnlocked, Goto, subsVars, subs, flags
  <1>3. CASE ConsensusSetSubscribe(u)
    <2>1. pc[u] = "subscribe" /\ pc' = [pc EXCEPT ![u] = "feed"]
      BY <1>3 DEF ConsensusSetSubscribe, Goto, flags
    <2>2. csSubs' = 1 /\ tpSubs' = 0 /\ ~subscribed'
      <3>1. csSubs' = csSubs + 1 /\ tpSubs' = tpSubs /\ subscribed' = subscribed
        BY <1>3 DEF ConsensusSetSubscribe, Goto, flags
      <3> QED BY <1>0, <2>1, <3>1
    <2>3. /\ pc'[u] = "feed" /\ \A v \in Unlockers : v = u
          /\ \A c \in Closers : pc'[c] = pc[c]
      BY <2>1, OnlyUnlocker
    <2>4. \A c \in Closers : pc[c] \notin Waited
      BY <2>1, NobodyUnlocks
    <2> QED BY <2>2, <2>3, <2>4 DEF SubsInv, Waited, Locked
  <1>4. CASE feedCancel(u)
    <2>1. pc[u] = "feed" /\ pc' = [pc EXCEPT ![u] = "unlockDone"]
      BY <1>4 DEF feedCancel, Goto, flags
    <2>2. csSubs' = 0 /\ tpSubs' = 0 /\ ~subscribed'
      <3>1. csSubs' = csSubs - 1 /\ tpSubs' = tpSubs /\ subscribed' = subscribed
        BY <1>4 DEF feedCancel, Goto, flags
      <3> QED BY <1>0, <2>1, <3>1
    <2>3. /\ pc'[u] = "unlockDone" /\ \A v \in Unlockers : v = u
          /\ \A c \in Closers : pc'[c] = pc[c]
      BY <2>1, OnlyUnlocker
    <2>4. \A c \in Closers : pc[c] \notin Waited
      BY <2>1, NobodyUnlocks
    <2> QED BY <2>2, <2>3, <2>4 DEF SubsInv, Waited, Locked
  <1>5. CASE feed(u) \/ feedDone(u)
    BY <1>0, <1>5, UnlockMoved DEF feed, feedDone, Goto, subsVars, subs, flags
  <1>6. CASE CallbackEnter(u, "feedCall", "feedIn") \/ feedProcess(u)
    <2>1. /\ \/ pc[u] = "feedCall" /\ pc' = [pc EXCEPT ![u] = "feedIn"]
             \/ pc[u] = "feedIn" /\ pc' = [pc EXCEPT ![u] = "feed"]
          /\ UNCHANGED subsVars
      BY <1>6 DEF CallbackEnter, feedProcess, Goto, subsVars, subs, flags
    <2> QED BY <1>0, <2>1, UnlockMoved DEF subsVars
  <1>7. CASE TransactionPoolSubscribe(u)
    <2>1. pc[u] = "tpSubscribe" /\ pc' = [pc EXCEPT ![u] = "tpCall"]
      BY <1>7 DEF TransactionPoolSubscribe, Goto, flags
    <2>2. csSubs' = 1 /\ tpSubs' = 1 /\ ~subscribed'
      <3>1. csSubs' = csSubs /\ tpSubs' = tpSubs + 1 /\ subscribed' = subscribed
        BY <1>7 DEF TransactionPoolSubscribe, Goto, flags
      <3> QED BY <1>0, <2>1, <3>1
    <2> QED BY <2>1, <2>2, UnlockMoved
  <1>8. CASE setSubscribed(u)
    BY <1>0, <1>8, UnlockMoved DEF setSubscribed, Goto, subsVars, subs
  <1>9. CASE setUnlocked(u)
    BY <1>0, <1>9, UnlockMoved DEF setUnlocked, Goto, subsVars, subs
  <1>10. CASE Leave(u, "unlockDone")
    BY <1>0, <1>10, UnlockMoved DEF Leave, Goto, subsVars, subs, flags
  <1>11. CASE tpCall(u) \/ ReceiveUpdatedUnconfirmedTransactions(u)
    BY <1>0, <1>11, UnlockMoved
       DEF tpCall, CallbackEnter, ReceiveUpdatedUnconfirmedTransactions, Goto, subsVars, subs, flags
  <1>12. CASE tpRefused(u)
    BY <1>12, OtherStep DEF tpRefused, subsVars, subs, flags
  <1>13. CASE tpReturn(u)
    <2>1. Goto(u, "tpCall", "setSubscribed")
      BY <1>13, LabelsOf DEF tpReturn
    <2> QED BY <1>0, <1>13, <2>1, UnlockMoved DEF tpReturn, Goto, subsVars, subs, flags
  <1> QED BY <1>1, <1>2, <1>3, <1>4, <1>5, <1>6, <1>7, <1>8, <1>9, <1>10, <1>11, <1>12, <1>13
          DEF unlocking, calling

\* Steps of a thread that calls Close: it takes the wallet out of either list.
LEMMA CloserKeepsLists ==
  ASSUME LockInv, SubsInv, NEW c \in Closers, stop(c) \/ stopRefused(c) \/ closing(c)
  PROVE  SubsInv'
  <1>1. \A l : pc' = [pc EXCEPT ![c] = l] =>
          /\ pc'[c] = l
          /\ \A d \in Closers \ {c} : pc'[d] = pc[d]
          /\ \A u \in Unlockers : pc'[u] = pc[u]
    BY LabelsOf DEF LockInv
  <1>2. \A S : (\A u \in Unlockers : pc'[u] = pc[u])
             => ((\E u \in Unlockers : pc'[u] \in S) <=> (\E u \in Unlockers : pc[u] \in S))
    OBVIOUS
  <1>3. pc[c] \in Waited =>
          /\ \A u \in Unlockers : pc[u] \in Out
          /\ \A d \in Closers \ {c} : pc[d] \notin Stopping
    BY NobodyUnlocks DEF LockInv, Stopping
  <1>4. CASE csUnsubscribe(c)
    <2>1. /\ pc[c] = "csUnsubscribe" /\ pc' = [pc EXCEPT ![c] = "tpUnsubscribe"]
          /\ tpSubs' = tpSubs /\ subscribed' = subscribed
      BY <1>4 DEF csUnsubscribe, Goto, flags
    <2>2. csSubs' = 0
      BY <1>4 DEF csUnsubscribe, Remove, SubsInv
    <2>3. /\ \A u \in Unlockers : pc'[u] \in Out
          /\ \A d \in Closers \ {c} : pc'[d] \notin Stopping
          /\ pc'[c] = "tpUnsubscribe"
          /\ \A u \in Unlockers : pc'[u] = pc[u]
      BY <1>1, <1>3, <2>1 DEF Waited, Locked
    <2> QED BY <1>2, <2>1, <2>2, <2>3
            DEF SubsInv, Out, Stopping, Waited, Locked, InFirst, InBoth
  <1>5. CASE tpUnsubscribe(c)
    <2>1. /\ pc[c] = "tpUnsubscribe" /\ pc' = [pc EXCEPT ![c] = "closed"]
          /\ csSubs' = csSubs /\ subscribed' = subscribed
      BY <1>5 DEF tpUnsubscribe, Goto, flags
    <2>2. tpSubs' = 0 /\ csSubs' = 0
      BY <1>5, <2>1 DEF tpUnsubscribe, Remove, SubsInv
    <2>3. \A u \in Unlockers : pc'[u] \in Out
      BY <1>1, <1>3, <2>1 DEF Waited, Locked
    <2> QED BY <2>2, <2>3 DEF SubsInv, Out, InFirst, InBoth
  <1>6. CASE stop(c) \/ stopRefused(c) \/ stopWait(c) \/ stopReturn(c) \/ lockWallet(c) \/ closeLock(c)
    <2>1. /\ \E l \in {"gone", "stopWait", "stopReturn", "lockWallet", "closeLock", "csUnsubscribe"} :
               pc' = [pc EXCEPT ![c] = l]
          /\ UNCHANGED subsVars
      BY <1>6 DEF stop, stopRefused, stopWait, stopReturn, lockWallet, closeLock, Goto, subs, flags,
                  subsVars
    <2>2. /\ pc'[c] \notin {"tpUnsubscribe", "closed"}
          /\ \A d \in Closers \ {c} : pc'[d] = pc[d]
          /\ \A u \in Unlockers : pc'[u] = pc[u]
      BY <1>1, <2>1
    <2> QED BY <1>2, <2>1, <2>2 DEF SubsInv, subsVars
  <1> QED BY <1>4, <1>5, <1>6 DEF closing

\* Steps of the other threads, which leave the lists alone.
LEMMA OthersKeepLists ==
  ASSUME LockInv, SubsInv, NEW t \in Threads \ (Unlockers \cup Closers),
         \/ SendOutputs(t) \/ sending(t) \/ AcceptTransactionSet(t) \/ relaying(t)
         \/ calling(t)
         \/ t = Acceptor /\ (acceptBlock \/ accepting)
  PROVE  SubsInv'
  <1> USE DEF subsVars, subs, flags, Goto
  <1>1. CASE SendOutputs(t) \/ sending(t) \/ AcceptTransactionSet(t) \/ relaying(t)
    <2>1. UNCHANGED subsVars /\ \E l : pc' = [pc EXCEPT ![t] = l]
      BY <1>1 DEF SendOutputs, Enter, sending, fund, AcceptTransactionSet, TryTransactionSet,
                  tryFails, Leave, relaying
    <2> QED BY <2>1, OtherMoved
  <1>2. CASE calling(t)
    <2>1. UNCHANGED subsVars /\ (pc' = pc \/ \E l : pc' = [pc EXCEPT ![t] = l])
      BY <1>2 DEF calling, tpCall, tpRefused, ReceiveUpdatedUnconfirmedTransactions, tpReturn,
                  CallbackEnter
    <2> QED BY <2>1, OtherMoved, OtherStep
  <1>3. CASE t = Acceptor /\ (acceptBlock \/ accepting)
    <2>1. UNCHANGED subsVars /\ (pc' = pc \/ \E l : pc' = [pc EXCEPT ![t] = l])
      BY <1>3 DEF acceptBlock, accepting, tpProcessConsensusChange, csCall, csRefused, csProcess,
                  acceptReturn, CallbackEnter
    <2> QED BY <2>1, OtherMoved, OtherStep
  <1> QED BY <1>1, <1>2, <1>3

\* Every step keeps the invariant of the lists.
LEMMA SubsInvStep ==
  ASSUME OneUnlocker PROVE LockInv /\ SubsInv /\ [Next]_vars => SubsInv'
  <1> SUFFICES ASSUME LockInv, SubsInv, [Next]_vars PROVE SubsInv'
    OBVIOUS
  <1>1. CASE UNCHANGED vars
    BY <1>1, OtherStep DEF vars, subs, flags, subsVars
  <1>2. CASE Lock
    BY <1>2, OtherStep DEF Lock, subs, subsVars
  <1>3. ASSUME NEW t \in Threads, Proceed(t) PROVE SubsInv'
    <2>1. CASE t \in Unlockers
      BY <1>3, <2>1, UnlockerKeepsLists, LabelsOf, WalletAssumption DEF Proceed
    <2>2. CASE t \in Closers
      <3>1. ~calling(t)
        BY <2>2, LabelsOf
           DEF LockInv, calling, tpCall, tpRefused, ReceiveUpdatedUnconfirmedTransactions, tpReturn,
               CallbackEnter, CallbackRefused, Goto, CloseLabels, Out, Stopping, Waited, Locked
      <3> QED BY <1>3, <2>2, <3>1, CloserKeepsLists, LabelsOf, WalletAssumption DEF Proceed
    <2>3. CASE t \notin Unlockers \cup Closers
      BY <1>3, <2>3, OthersKeepLists DEF Proceed
    <2> QED BY <2>1, <2>2, <2>3
  <1>4. ASSUME NEW t \in Senders \cup Relayers, SendOutputs(t) \/ AcceptTransactionSet(t)
        PROVE  SubsInv'
    BY <1>4, OthersKeepLists, LabelsOf
  <1>5. CASE acceptBlock
    BY <1>5, OthersKeepLists, LabelsOf
  <1> QED BY <1>1, <1>2, <1>3, <1>4, <1>5, UnlockerKeepsLists, CloserKeepsLists DEF Next

\* From the moment Close has locked it the wallet stays locked, and a closed
\* wallet is in no list of subscribers, for every number of senders, relayers
\* and closers, provided Unlock is not called twice at once.
THEOREM ClosedWalletStaysLocked ==
  ASSUME OneUnlocker PROVE Spec => []ClosedStaysLocked
  <1>1. LockInv /\ SubsInv => ClosedStaysLocked
    BY DEF LockInv, SubsInv, ClosedStaysLocked, Locked
  <1>2. LockInv /\ SubsInv /\ [Next]_vars => (LockInv /\ SubsInv)'
    BY LockInvStep, SubsInvStep
  <1> QED BY <1>1, <1>2, LockInvInit, SubsInvInit, PTL DEF Spec

=============================================================================
