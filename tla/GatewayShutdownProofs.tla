------------------------ MODULE GatewayShutdownProofs ------------------------
(***************************************************************************)
(* When Close saves the node list and closes the log nobody uses them, for *)
(* every number of connections, and for every limit on the concurrent      *)
(* requests, dials and calls.                                              *)
(***************************************************************************)
EXTENDS GatewayShutdown, FiniteSetTheorems, TLAPS

Phases == {"open", "purger", "nodeManager", "peerManager", "listen", "bootstrap", "peers",
           "threads", "after", "closed"}
Listening == {"accepting", "token", "closing"}

TypeInv ==
    /\ phase \in Phases
    /\ loop \in [Loops -> {"sleeping", "busy", "gone"}]
    /\ attempts \in [waiting : Nat, counted : Nat]
    /\ calls \in Nat
    /\ session \in [Sessions -> {"none", "arrived", "handshake", "open", "closed"}]
    /\ listener \in [Sessions -> {"none", "spawned", "refused", "gone"} \cup Listening]
    /\ watched \in [Sessions -> BOOLEAN]
    /\ ping \in [Sessions -> {"none", "asking", "going"}]
    /\ waiting \in [Sessions -> Nat]
    /\ running \in [Sessions -> Nat]
    /\ \A s \in Sessions : waiting[s] + running[s] <= concurrentRPCPerPeer

\* Stop of g.threads goes on from the begin of Close to its end.
LockInv ==
    /\ stopped <=> phase # "open"
    /\ bmu = IF phase \in {"open", "closed"} THEN Nobody ELSE Closer

\* The permanent threads that OnStop has waited for are gone.
LoopInv ==
    /\ phase \notin {"open", "purger"} => loop["purger"] = "gone"
    /\ phase \notin {"open", "purger", "nodeManager"} => loop["nodeManager"] = "gone"
    /\ phase \notin {"open", "purger", "nodeManager", "peerManager"} => loop["peerManager"] = "gone"
    /\ phase \in {"peers", "threads", "after", "closed"} => loop["bootstrap"] = "gone"

\* What the threads of one connection know of each other.
SessionInv ==
    \A s \in Sessions :
        /\ session[s] \in {"none", "arrived", "handshake"} => listener[s] = "none" /\ ping[s] = "none"
        /\ session[s] = "open" => listener[s] # "none"
        /\ listener[s] = "gone" => watched[s]
        /\ watched[s] => session[s] = "closed"

\* Nobody is counted by g.peerTG after its Stop.
PeerInv ==
    phase \in {"threads", "after", "closed"} =>
        \A s \in Sessions : listener[s] \notin Listening /\ ping[s] # "going"

\* Accepted connections that g.threads counts, and its handlers.
Accepting == {s \in Sessions : session[s] = "handshake" \/ ping[s] = "asking"}
Handlers == {p \in Sessions \X (1..concurrentRPCPerPeer) : p[2] <= running[p[1]]}

CountInv == wg = attempts.counted + calls + Cardinality(Accepting) + Cardinality(Handlers)

\* Nobody is counted by g.threads after its Stop.
AloneInv ==
    phase \in {"after", "closed"} =>
        attempts.counted = 0 /\ calls = 0 /\ Accepting = {} /\ Handlers = {}

ShutdownInv ==
    TypeInv /\ LockInv /\ LoopInv /\ SessionInv /\ PeerInv /\ CountInv /\ AloneInv

----------------------------------------------------------------------------

\* The gateway is open and nothing runs in it.
LEMMA ShutdownInvInit == Init => ShutdownInv
  <1> SUFFICES ASSUME Init PROVE ShutdownInv
    OBVIOUS
  <1>1. TypeInv
    BY ShutdownAssumption DEF Init, TypeInv, Phases, Loops
  <1>2. LockInv /\ LoopInv /\ SessionInv /\ PeerInv /\ AloneInv
    BY DEF Init, tgInit, LockInv, LoopInv, SessionInv, PeerInv, AloneInv
  <1>3. Accepting = {} /\ Handlers = {}
    BY DEF Init, Accepting, Handlers
  <1>4. CountInv
    BY <1>3, FS_EmptySet DEF Init, tgInit, CountInv
  <1> QED BY <1>1, <1>2, <1>4 DEF ShutdownInv

\* The functions of OnStop one after the other.
LEMMA OnStopSteps ==
  ASSUME NEW i \in DOMAIN Closing, OnStop(i)
  PROVE  /\ UNCHANGED <<tgVars, loop, attempts, calls, perSession>>
         /\ \/ phase = "purger" /\ phase' = "nodeManager" /\ loop["purger"] = "gone"
            \/ phase = "nodeManager" /\ phase' = "peerManager" /\ loop["nodeManager"] = "gone"
            \/ phase = "peerManager" /\ phase' = "listen" /\ loop["peerManager"] = "gone"
            \/ phase = "listen" /\ phase' = "bootstrap"
            \/ phase = "bootstrap" /\ phase' = "peers" /\ loop["bootstrap"] = "gone"
            \/ phase = "peers" /\ phase' = "threads" /\ CountedByPeerTG = {}
  <1>1. i \in 1..6 /\ Len(Closing) = 6
    BY DEF Closing
  <1>2. /\ Closing[1] = "purger" /\ Closing[2] = "nodeManager" /\ Closing[3] = "peerManager"
        /\ Closing[4] = "listen" /\ Closing[5] = "bootstrap" /\ Closing[6] = "peers"
    BY DEF Closing
  <1>3. i = 1 \/ i = 2 \/ i = 3 \/ i = 4 \/ i = 5 \/ i = 6
    BY <1>1
  <1> QED BY <1>1, <1>2, <1>3 DEF OnStop, Loops

\* Where Close is after a step.
LEMMA LockInvStep == ShutdownInv /\ Next => LockInv'
  <1> SUFFICES ASSUME ShutdownInv, Next PROVE LockInv'
    OBVIOUS
  <1> USE ShutdownAssumption DEF LockInv, tgVars
  <1>0. LockInv
    BY DEF ShutdownInv
  <1>1. CASE Close
    BY <1>0, <1>1 DEF Close, StopBegin
  <1>2. CASE Closes
    <2>1. ASSUME NEW i \in DOMAIN Closing, OnStop(i) PROVE LockInv'
      BY <1>0, <2>1, OnStopSteps
    <2>2. CASE stopWait
      BY <1>0, <2>2 DEF stopWait, Wait
    <2>3. CASE closeReturns
      BY <1>0, <2>3 DEF closeReturns, Release
    <2> QED BY <1>2, <2>1, <2>2, <2>3 DEF Closes
  <1>3. CASE phase' = phase /\ bmu' = bmu /\ stopped' = stopped
    BY <1>0, <1>3
  <1>4. CASE Continues
    <2>1. phase' = phase /\ bmu' = bmu /\ stopped' = stopped
      BY <1>4 DEF Continues, callLeave, spawnConnect, connectEnter, connectLeave, finishes, leaves,
                  Add, ErrStopped, Done
    <2> QED BY <1>3, <2>1
  <1>5. ASSUME NEW s \in Sessions, Proceeds(s) PROVE LockInv'
    <2>1. phase' = phase /\ bmu' = bmu /\ stopped' = stopped
      BY <1>5 DEF Proceeds, threadedAcceptConn, handshakeFails, acceptPeer, managedAcceptConnPeer,
                  pingEnds, threadedListenPeer, takeToken, threadedHandleConn, handlerEnds,
                  acceptFails, watcher, listenerLeaves, Add, ErrStopped, Done
    <2> QED BY <1>3, <2>1
  <1>6. CASE Outside
    <2>1. Close \/ (phase' = phase /\ bmu' = bmu /\ stopped' = stopped)
      BY <1>6 DEF Outside, callEnter, wakes, permanentListen, managedConnect, sessionBreaks,
                  acceptStream, Add
    <2> QED BY <1>1, <1>3, <2>1
  <1> QED BY <1>2, <1>4, <1>5, <1>6 DEF Next, Own

\* The permanent threads, the dials and the calls of other modules.
LEMMA TypeInvShared ==
  ASSUME TypeInv, Close \/ callEnter \/ (\E l \in Loops : wakes(l)) \/ Closes \/ Continues
  PROVE  TypeInv'
  <1> USE DEF TypeInv, perSession
  <1>1. CASE Close \/ callEnter \/ callLeave
    BY <1>1 DEF Close, callEnter, callLeave, Phases
  <1>2. ASSUME NEW l \in Loops, wakes(l) \/ finishes(l) \/ leaves(l) PROVE TypeInv'
    BY <1>2 DEF wakes, finishes, leaves
  <1>3. CASE spawnConnect \/ connectEnter \/ connectLeave
    <2>1. attempts' \in [waiting : Nat, counted : Nat]
      BY <1>3 DEF spawnConnect, connectEnter, connectLeave
    <2>2. loop' \in [Loops -> {"sleeping", "busy", "gone"}]
      BY <1>3 DEF spawnConnect, connectEnter, connectLeave
    <2> QED BY <1>3, <2>1, <2>2 DEF spawnConnect, connectEnter, connectLeave
  <1>4. ASSUME NEW i \in DOMAIN Closing, OnStop(i) PROVE TypeInv'
    BY <1>4, OnStopSteps DEF Phases
  <1>5. CASE stopWait \/ closeReturns
    BY <1>5 DEF stopWait, closeReturns, Phases
  <1> QED BY <1>1, <1>2, <1>3, <1>4, <1>5 DEF Closes, Continues

\* The threads of a connection.
LEMMA TypeInvSession ==
  ASSUME TypeInv, NEW s \in Sessions,
         \/ permanentListen(s) \/ managedConnect(s) \/ sessionBreaks(s) \/ acceptStream(s)
         \/ Proceeds(s)
  PROVE  TypeInv'
  <1> USE DEF TypeInv, Listening
  <1>1. CASE permanentListen(s) \/ sessionBreaks(s) \/ threadedAcceptConn(s) \/ handshakeFails(s)
    BY <1>1 DEF permanentListen, sessionBreaks, threadedAcceptConn, handshakeFails
  <1>2. CASE managedConnect(s) \/ acceptPeer(s)
    BY <1>2 DEF managedConnect, acceptPeer, addPeer
  <1>3. CASE acceptStream(s) \/ threadedListenPeer(s) \/ acceptFails(s) \/ listenerLeaves(s)
    BY <1>3 DEF acceptStream, threadedListenPeer, acceptFails, listenerLeaves
  <1>4. CASE managedAcceptConnPeer(s) \/ pingEnds(s)
    BY <1>4 DEF managedAcceptConnPeer, pingEnds
  <1>5. CASE takeToken(s)
    BY <1>5, ShutdownAssumption DEF takeToken
  <1>6. CASE threadedHandleConn(s)
    BY <1>6, ShutdownAssumption DEF threadedHandleConn
  <1>7. CASE handlerEnds(s)
    BY <1>7, ShutdownAssumption DEF handlerEnds
  <1>8. CASE watcher(s)
    BY <1>8 DEF watcher
  <1> QED BY <1>1, <1>2, <1>3, <1>4, <1>5, <1>6, <1>7, <1>8 DEF Proceeds

\* A permanent thread that is gone stays so.
LEMMA LoopInvStep == ShutdownInv /\ Next => LoopInv'
  <1> SUFFICES ASSUME ShutdownInv, Next PROVE LoopInv'
    OBVIOUS
  <1>0. TypeInv /\ LockInv /\ LoopInv
    BY DEF ShutdownInv
  <1> USE DEF LoopInv
  <1>1. CASE Close
    BY <1>0, <1>1 DEF Close
  <1>2. ASSUME NEW i \in DOMAIN Closing, OnStop(i) PROVE LoopInv'
    BY <1>0, <1>2, OnStopSteps
  <1>3. CASE stopWait \/ closeReturns
    BY <1>0, <1>3 DEF stopWait, closeReturns
  <1>4. ASSUME phase' = phase, \A l \in Loops : loop[l] = "gone" => loop'[l] = "gone"
        PROVE  LoopInv'
    BY <1>0, <1>4 DEF Loops
  <1>5. CASE callEnter \/ callLeave \/ connectEnter \/ connectLeave
    BY <1>4, <1>5 DEF callEnter, callLeave, connectEnter, connectLeave
  <1>6. ASSUME NEW l \in Loops, wakes(l) \/ finishes(l) \/ leaves(l) PROVE LoopInv'
    BY <1>0, <1>4, <1>6 DEF wakes, finishes, leaves, TypeInv
  <1>7. CASE spawnConnect
    BY <1>0, <1>4, <1>7 DEF spawnConnect, TypeInv
  <1>8. ASSUME NEW s \in Sessions,
               \/ permanentListen(s) \/ managedConnect(s) \/ sessionBreaks(s) \/ acceptStream(s)
               \/ Proceeds(s)
        PROVE  LoopInv'
    <2>1. phase' = phase /\ loop' = loop
      BY <1>8 DEF permanentListen, managedConnect, sessionBreaks, acceptStream, Proceeds,
                  threadedAcceptConn, handshakeFails, acceptPeer, managedAcceptConnPeer,
                  pingEnds, threadedListenPeer, takeToken, threadedHandleConn, handlerEnds,
                  acceptFails, watcher, listenerLeaves
    <2> QED BY <1>4, <2>1
  <1> QED BY <1>1, <1>2, <1>3, <1>5, <1>6, <1>7, <1>8
          DEF Next, Outside, Own, Closes, Continues

\* Steps that leave the connections alone.
LEMMA SharedSteps ==
  ASSUME Close \/ callEnter \/ (\E l \in Loops : wakes(l)) \/ Closes \/ Continues
  PROVE  UNCHANGED perSession
  BY OnStopSteps
     DEF Close, callEnter, wakes, Closes, stopWait, closeReturns, Continues, callLeave,
         spawnConnect, connectEnter, connectLeave, finishes, leaves

\* What the threads of a connection know stays true.
LEMMA SessionInvStep == ShutdownInv /\ Next => SessionInv'
  <1> SUFFICES ASSUME ShutdownInv, Next PROVE SessionInv'
    OBVIOUS
  <1>0. TypeInv /\ SessionInv
    BY DEF ShutdownInv
  <1>1. CASE Close \/ callEnter \/ (\E l \in Loops : wakes(l)) \/ Closes \/ Continues
    BY <1>0, <1>1, SharedSteps DEF SessionInv, perSession
  <1>2. ASSUME NEW s \in Sessions,
               \/ permanentListen(s) \/ managedConnect(s) \/ sessionBreaks(s) \/ acceptStream(s)
               \/ Proceeds(s)
        PROVE  SessionInv'
    <2> USE <1>0 DEF TypeInv, SessionInv
    <2>1. CASE permanentListen(s) \/ threadedAcceptConn(s)
      BY <2>1 DEF permanentListen, threadedAcceptConn
    <2>2. CASE handshakeFails(s) \/ sessionBreaks(s)
      BY <2>2 DEF handshakeFails, sessionBreaks
    <2>3. CASE managedConnect(s) \/ acceptPeer(s)
      BY <2>3 DEF managedConnect, acceptPeer, addPeer
    <2>4. CASE acceptStream(s) \/ threadedListenPeer(s) \/ acceptFails(s)
      BY <2>4 DEF acceptStream, threadedListenPeer, acceptFails
    <2>5. CASE managedAcceptConnPeer(s) \/ pingEnds(s)
      BY <2>5 DEF managedAcceptConnPeer, pingEnds
    <2>6. CASE takeToken(s)
      BY <2>6 DEF takeToken
    <2>7. CASE threadedHandleConn(s) \/ handlerEnds(s)
      BY <2>7 DEF threadedHandleConn, handlerEnds
    <2>8. CASE watcher(s)
      BY <2>8 DEF watcher
    <2>9. CASE listenerLeaves(s)
      BY <2>9 DEF listenerLeaves
    <2> QED BY <1>2, <2>1, <2>2, <2>3, <2>4, <2>5, <2>6, <2>7, <2>8, <2>9 DEF Proceeds
  <1> QED BY <1>1, <1>2 DEF Next, Outside, Own

\* Who comes after peerTG.Stop is refused.
LEMMA PeerInvStep == ShutdownInv /\ Next => PeerInv'
  <1> SUFFICES ASSUME ShutdownInv, Next PROVE PeerInv'
    OBVIOUS
  <1>0. TypeInv /\ PeerInv
    BY DEF ShutdownInv
  <1>1. ASSUME NEW i \in DOMAIN Closing, OnStop(i) PROVE PeerInv'
    BY <1>0, <1>1, OnStopSteps DEF PeerInv, CountedByPeerTG, Listening, perSession
  <1>2. CASE Close \/ stopWait \/ closeReturns
    BY <1>0, <1>2 DEF PeerInv, Close, stopWait, closeReturns, perSession
  <1>3. CASE callEnter \/ (\E l \in Loops : wakes(l)) \/ Continues
    <2>1. phase' = phase
      BY <1>3 DEF callEnter, wakes, Continues, callLeave, spawnConnect, connectEnter, connectLeave,
                  finishes, leaves
    <2> QED BY <1>0, <1>3, <2>1, SharedSteps DEF PeerInv, perSession
  <1>4. ASSUME NEW s \in Sessions,
               \/ permanentListen(s) \/ managedConnect(s) \/ sessionBreaks(s) \/ acceptStream(s)
               \/ Proceeds(s)
        PROVE  PeerInv'
    <2> USE <1>0 DEF TypeInv, PeerInv, Listening
    <2>1. CASE \/ permanentListen(s) \/ threadedAcceptConn(s) \/ handshakeFails(s)
               \/ sessionBreaks(s) \/ watcher(s) \/ threadedHandleConn(s) \/ handlerEnds(s)
      BY <2>1 DEF permanentListen, threadedAcceptConn, handshakeFails, sessionBreaks, watcher,
                  threadedHandleConn, handlerEnds
    <2>2. CASE managedConnect(s) \/ acceptPeer(s)
      BY <2>2 DEF managedConnect, acceptPeer, addPeer
    <2>3. CASE acceptStream(s) \/ takeToken(s) \/ acceptFails(s) \/ listenerLeaves(s)
      BY <2>3 DEF acceptStream, takeToken, acceptFails, listenerLeaves
    <2>4. CASE threadedListenPeer(s)
      BY <2>4 DEF threadedListenPeer, peerStopped
    <2>5. CASE managedAcceptConnPeer(s) \/ pingEnds(s)
      BY <2>5 DEF managedAcceptConnPeer, pingEnds, peerStopped
    <2> QED BY <1>4, <2>1, <2>2, <2>3, <2>4, <2>5 DEF Proceeds
  <1> QED BY <1>1, <1>2, <1>3, <1>4 DEF Next, Outside, Own, Closes

\* Finitely many are counted.
LEMMA CountedAreFinite ==
  /\ IsFiniteSet(Accepting) /\ Cardinality(Accepting) \in Nat
  /\ Cardinality(Accepting) = 0 => Accepting = {}
  /\ IsFiniteSet(Handlers) /\ Cardinality(Handlers) \in Nat
  /\ Cardinality(Handlers) = 0 => Handlers = {}
  <1>1. Accepting \subseteq Sessions
    BY DEF Accepting
  <1>2. IsFiniteSet(Accepting)
    BY <1>1, ShutdownAssumption, FS_Subset
  <1>3. IsFiniteSet(1..concurrentRPCPerPeer)
    BY ShutdownAssumption, FS_Interval
  <1>4. IsFiniteSet(Sessions \X (1..concurrentRPCPerPeer))
    BY <1>3, ShutdownAssumption, FS_Product
  <1>5. Handlers \subseteq Sessions \X (1..concurrentRPCPerPeer)
    BY DEF Handlers
  <1>6. IsFiniteSet(Handlers)
    BY <1>4, <1>5, FS_Subset
  <1> QED BY <1>2, <1>6, FS_CardinalityType, FS_EmptySet

\* A handler of s more or less, by threadedHandleConn and its end.
LEMMA HandlersMove ==
  ASSUME TypeInv, NEW s \in Sessions
  PROVE  /\ running' = [running EXCEPT ![s] = @ + 1] /\ running[s] < concurrentRPCPerPeer
              => \E x : x \notin Handlers /\ Handlers' = Handlers \cup {x}
         /\ running' = [running EXCEPT ![s] = @ - 1] /\ running[s] > 0
              => \E x : x \in Handlers /\ Handlers' = Handlers \ {x}
  <1> USE ShutdownAssumption DEF TypeInv
  <1>1. ASSUME running' = [running EXCEPT ![s] = @ + 1], running[s] < concurrentRPCPerPeer
        PROVE  \E x : x \notin Handlers /\ Handlers' = Handlers \cup {x}
    <2> DEFINE x == <<s, running[s] + 1>>
    <2>1. x \notin Handlers /\ x \in Sessions \X (1..concurrentRPCPerPeer)
      BY <1>1 DEF Handlers
    <2>2. \A p \in Sessions \X (1..concurrentRPCPerPeer) :
            p[2] <= running'[p[1]] <=> p[2] <= running[p[1]] \/ p = x
      BY <1>1
    <2>3. Handlers' = Handlers \cup {x}
      BY <2>1, <2>2 DEF Handlers
    <2> QED BY <2>1, <2>3
  <1>2. ASSUME running' = [running EXCEPT ![s] = @ - 1], running[s] > 0
        PROVE  \E x : x \in Handlers /\ Handlers' = Handlers \ {x}
    <2> DEFINE x == <<s, running[s]>>
    <2>0. running[s] \in 1..concurrentRPCPerPeer
      BY <1>2
    <2>1. x \in Handlers
      BY <2>0 DEF Handlers
    <2>2. \A p \in Sessions \X (1..concurrentRPCPerPeer) :
            p[2] <= running'[p[1]] <=> p[2] <= running[p[1]] /\ p # x
      BY <1>2
    <2>3. Handlers' = Handlers \ {x}
      BY <2>1, <2>2 DEF Handlers
    <2> QED BY <2>1, <2>3
  <1> QED BY <1>1, <1>2

\* Nobody comes or goes.
Same ==
    /\ attempts'.counted = attempts.counted /\ calls' = calls
    /\ Accepting' = Accepting /\ Handlers' = Handlers

\* Exactly one call, dial, handshake or handler begins.
OneMore ==
    \/ /\ attempts'.counted = attempts.counted + 1 /\ calls' = calls
       /\ Accepting' = Accepting /\ Handlers' = Handlers
    \/ /\ attempts'.counted = attempts.counted /\ calls' = calls + 1
       /\ Accepting' = Accepting /\ Handlers' = Handlers
    \/ /\ attempts'.counted = attempts.counted /\ calls' = calls /\ Handlers' = Handlers
       /\ \E x : x \notin Accepting /\ Accepting' = Accepting \cup {x}
    \/ /\ attempts'.counted = attempts.counted /\ calls' = calls /\ Accepting' = Accepting
       /\ \E x : x \notin Handlers /\ Handlers' = Handlers \cup {x}

\* Exactly one of them ends.
OneLess ==
    \/ /\ attempts.counted > 0 /\ attempts'.counted = attempts.counted - 1 /\ calls' = calls
       /\ Accepting' = Accepting /\ Handlers' = Handlers
    \/ /\ attempts'.counted = attempts.counted /\ calls > 0 /\ calls' = calls - 1
       /\ Accepting' = Accepting /\ Handlers' = Handlers
    \/ /\ attempts'.counted = attempts.counted /\ calls' = calls /\ Handlers' = Handlers
       /\ \E x : x \in Accepting /\ Accepting' = Accepting \ {x}
    \/ /\ attempts'.counted = attempts.counted /\ calls' = calls /\ Accepting' = Accepting
       /\ \E x : x \in Handlers /\ Handlers' = Handlers \ {x}

\* A sum of four numbers goes with each of them.
LEMMA Sums ==
  \A i, j, k, l \in Nat :
    /\ (i + 1) + j + k + l = i + j + k + l + 1 /\ i + (j + 1) + k + l = i + j + k + l + 1
    /\ i + j + (k + 1) + l = i + j + k + l + 1 /\ i + j + k + (l + 1) = i + j + k + l + 1
    /\ (i - 1) + j + k + l = i + j + k + l - 1 /\ i + (j - 1) + k + l = i + j + k + l - 1
    /\ i + j + (k - 1) + l = i + j + k + l - 1 /\ i + j + k + (l - 1) = i + j + k + l - 1
  OBVIOUS

\* It is zero only when all of them are.
LEMMA ZeroSum ==
  ASSUME NEW i \in Nat, NEW j \in Nat, NEW k \in Nat, NEW l \in Nat, NEW n,
         n = i + j + k + l, n = 0
  PROVE  i = 0 /\ j = 0 /\ k = 0 /\ l = 0
  OBVIOUS

\* The counter of g.threads goes with them.
LEMMA Tally ==
  ASSUME ShutdownInv,
         \/ wg' = wg /\ Same /\ (phase' \in {"after", "closed"} => phase \in {"after", "closed"})
         \/ Add /\ OneMore /\ phase' = phase
         \/ Done /\ OneLess /\ phase' = phase
  PROVE  CountInv' /\ AloneInv'
  <1>0. TypeInv /\ LockInv /\ CountInv /\ AloneInv
    BY DEF ShutdownInv
  <1>1. attempts.counted \in Nat /\ calls \in Nat
    BY <1>0 DEF TypeInv
  <1>2. CASE wg' = wg /\ Same /\ (phase' \in {"after", "closed"} => phase \in {"after", "closed"})
    BY <1>0, <1>2 DEF Same, CountInv, AloneInv
  <1>3. CASE Add /\ OneMore /\ phase' = phase
    <2>1. phase' \notin {"after", "closed"}
      BY <1>0, <1>3, ShutdownAssumption DEF Add, LockInv
    <2>2. ASSUME NEW x, x \notin Accepting, Accepting' = Accepting \cup {x}
          PROVE  Cardinality(Accepting)' = Cardinality(Accepting) + 1
      BY <2>2, CountedAreFinite, FS_AddElement
    <2>3. ASSUME NEW x, x \notin Handlers, Handlers' = Handlers \cup {x}
          PROVE  Cardinality(Handlers)' = Cardinality(Handlers) + 1
      BY <2>3, CountedAreFinite, FS_AddElement
    <2>4. CountInv'
      <3> DEFINE a == Cardinality(Accepting)
                 h == Cardinality(Handlers)
      <3>1. a \in Nat /\ h \in Nat /\ wg = attempts.counted + calls + a + h /\ wg' = wg + 1
        BY <1>0, <1>3, CountedAreFinite DEF Add, CountInv
      <3>2. \/ attempts'.counted = attempts.counted + 1 /\ calls' = calls /\ a' = a /\ h' = h
            \/ attempts'.counted = attempts.counted /\ calls' = calls + 1 /\ a' = a /\ h' = h
            \/ attempts'.counted = attempts.counted /\ calls' = calls /\ a' = a + 1 /\ h' = h
            \/ attempts'.counted = attempts.counted /\ calls' = calls /\ a' = a /\ h' = h + 1
        BY <1>3, <2>2, <2>3 DEF OneMore
      <3>3. wg' = attempts'.counted + calls' + a' + h'
        <4> HIDE DEF a, h
        <4> QED BY <1>1, <3>1, <3>2, Sums
      <3> QED BY <3>3 DEF CountInv
    <2> QED BY <2>1, <2>4 DEF AloneInv
  <1>4. CASE Done /\ OneLess /\ phase' = phase
    <2>1. phase' \notin {"after", "closed"}
      BY <1>0, <1>1, <1>4 DEF OneLess, AloneInv
    <2>2. ASSUME NEW x, x \in Accepting, Accepting' = Accepting \ {x}
          PROVE  Cardinality(Accepting)' = Cardinality(Accepting) - 1
      BY <2>2, CountedAreFinite, FS_RemoveElement
    <2>3. ASSUME NEW x, x \in Handlers, Handlers' = Handlers \ {x}
          PROVE  Cardinality(Handlers)' = Cardinality(Handlers) - 1
      BY <2>3, CountedAreFinite, FS_RemoveElement
    <2>4. CountInv'
      <3> DEFINE a == Cardinality(Accepting)
                 h == Cardinality(Handlers)
      <3>1. a \in Nat /\ h \in Nat /\ wg = attempts.counted + calls + a + h /\ wg' = wg - 1
        BY <1>0, <1>4, CountedAreFinite DEF Done, CountInv
      <3>2. \/ attempts'.counted = attempts.counted - 1 /\ calls' = calls /\ a' = a /\ h' = h
            \/ attempts'.counted = attempts.counted /\ calls' = calls - 1 /\ a' = a /\ h' = h
            \/ attempts'.counted = attempts.counted /\ calls' = calls /\ a' = a - 1 /\ h' = h
            \/ attempts'.counted = attempts.counted /\ calls' = calls /\ a' = a /\ h' = h - 1
        BY <1>4, <2>2, <2>3 DEF OneLess
      <3>3. wg' = attempts'.counted + calls' + a' + h'
        <4> HIDE DEF a, h
        <4> QED BY <1>1, <3>1, <3>2, Sums
      <3> QED BY <3>3 DEF CountInv
    <2> QED BY <2>1, <2>4 DEF AloneInv
  <1> QED BY <1>2, <1>3, <1>4

\* The counter agrees with the calls, and is zero once Stop has returned.
LEMMA CountInvStep == ShutdownInv /\ Next => CountInv' /\ AloneInv'
  <1> SUFFICES ASSUME ShutdownInv, Next PROVE CountInv' /\ AloneInv'
    OBVIOUS
  <1>0. TypeInv /\ LockInv /\ SessionInv /\ CountInv /\ AloneInv
    BY DEF ShutdownInv
  <1>1. ASSUME UNCHANGED perSession PROVE Accepting' = Accepting /\ Handlers' = Handlers
    BY <1>1 DEF perSession, Accepting, Handlers
  <1>2. CASE Close
    BY <1>1, <1>2, Tally DEF Close, StopBegin, Same
  <1>3. ASSUME NEW i \in DOMAIN Closing, OnStop(i) PROVE CountInv' /\ AloneInv'
    BY <1>1, <1>3, OnStopSteps, Tally DEF tgVars, Same
  <1>4. CASE stopWait
    <2>1. wg = 0 /\ wg' = wg /\ Same
      BY <1>1, <1>4 DEF stopWait, Wait, tgVars, Same
    <2>2. attempts.counted \in Nat /\ calls \in Nat
      BY <1>0 DEF TypeInv
    <2>3. attempts.counted = 0 /\ calls = 0 /\ Accepting = {} /\ Handlers = {}
      <3> DEFINE a == Cardinality(Accepting)
                 h == Cardinality(Handlers)
      <3>1. a \in Nat /\ h \in Nat /\ wg = attempts.counted + calls + a + h
        BY <1>0, <2>1, CountedAreFinite DEF CountInv
      <3>2. attempts.counted = 0 /\ calls = 0 /\ a = 0 /\ h = 0
        <4> HIDE DEF a, h
        <4> QED BY <2>1, <2>2, <3>1, ZeroSum
      <3> QED BY <3>2, CountedAreFinite
    <2> QED BY <1>0, <2>1, <2>3 DEF CountInv, AloneInv, Same
  <1>5. CASE closeReturns
    BY <1>1, <1>5, Tally DEF closeReturns, Release, Same
  <1>6. CASE callEnter \/ callLeave
    BY <1>1, <1>6, Tally DEF callEnter, callLeave, OneMore, OneLess
  <1>7. ASSUME NEW l \in Loops, wakes(l) \/ finishes(l) \/ leaves(l) PROVE CountInv' /\ AloneInv'
    BY <1>1, <1>7, Tally DEF wakes, finishes, leaves, tgVars, Same
  <1>8. CASE spawnConnect
    BY <1>0, <1>1, <1>8, Tally DEF spawnConnect, tgVars, Same, TypeInv
  <1>9. CASE connectEnter
    <2>1. CASE Add /\ attempts' = [waiting |-> attempts.waiting - 1, counted |-> attempts.counted + 1]
      BY <1>1, <1>9, <2>1, Tally DEF connectEnter, OneMore
    <2>2. CASE ErrStopped /\ attempts' = [attempts EXCEPT !.waiting = @ - 1]
      BY <1>0, <1>1, <1>9, <2>2, Tally DEF connectEnter, ErrStopped, tgVars, Same, TypeInv
    <2> QED BY <1>9, <2>1, <2>2 DEF connectEnter
  <1>10. CASE connectLeave
    BY <1>0, <1>1, <1>10, Tally DEF connectLeave, OneLess, TypeInv
  <1>11. ASSUME NEW s \in Sessions,
                \/ permanentListen(s) \/ managedConnect(s) \/ sessionBreaks(s) \/ acceptStream(s)
                \/ Proceeds(s)
         PROVE  CountInv' /\ AloneInv'
    <2>1. CASE permanentListen(s) \/ managedConnect(s) \/ sessionBreaks(s) \/ watcher(s)
      <3>1. Accepting' = Accepting
        BY <1>0, <2>1 DEF permanentListen, managedConnect, addPeer, sessionBreaks, watcher, TypeInv,
                          SessionInv, Accepting
      <3>2. Handlers' = Handlers
        BY <2>1 DEF permanentListen, managedConnect, sessionBreaks, watcher, Handlers
      <3> QED BY <2>1, <3>1, <3>2, Tally
              DEF permanentListen, managedConnect, sessionBreaks, watcher, tgVars, Same
    <2>2. CASE acceptPeer(s) \/ pingEnds(s)
      <3>1. Accepting' = Accepting
        BY <1>0, <2>2 DEF acceptPeer, addPeer, pingEnds, TypeInv, SessionInv, Accepting
      <3>2. Handlers' = Handlers
        BY <2>2 DEF acceptPeer, pingEnds, Handlers
      <3> QED BY <2>2, <3>1, <3>2, Tally DEF acceptPeer, pingEnds, tgVars, Same
    <2>3. CASE \/ acceptStream(s) \/ threadedListenPeer(s) \/ takeToken(s) \/ acceptFails(s)
               \/ listenerLeaves(s)
      <3>1. Accepting' = Accepting /\ Handlers' = Handlers
        BY <2>3 DEF acceptStream, threadedListenPeer, takeToken, acceptFails, listenerLeaves,
                    Accepting, Handlers
      <3> QED BY <2>3, <3>1, Tally
              DEF acceptStream, threadedListenPeer, takeToken, acceptFails, listenerLeaves, tgVars, Same
    <2>4. CASE threadedAcceptConn(s)
      <3>1. Handlers' = Handlers /\ phase' = phase /\ attempts' = attempts /\ calls' = calls
        BY <2>4 DEF threadedAcceptConn, Handlers
      <3>2. CASE Add /\ session' = [session EXCEPT ![s] = "handshake"]
        <4>1. s \notin Accepting /\ Accepting' = Accepting \cup {s}
          BY <1>0, <2>4, <3>2 DEF threadedAcceptConn, TypeInv, SessionInv, Accepting
        <4> QED BY <3>1, <3>2, <4>1, Tally DEF OneMore
      <3>3. CASE ErrStopped /\ session' = [session EXCEPT ![s] = "closed"]
        <4>1. Accepting' = Accepting
          BY <1>0, <2>4, <3>3 DEF threadedAcceptConn, TypeInv, SessionInv, Accepting
        <4> QED BY <3>1, <3>3, <4>1, Tally DEF Same, ErrStopped, tgVars
      <3> QED BY <2>4, <3>2, <3>3 DEF threadedAcceptConn
    <2>5. CASE handshakeFails(s) \/ managedAcceptConnPeer(s)
      <3>1. s \in Accepting /\ Accepting' = Accepting \ {s}
        BY <1>0, <2>5 DEF handshakeFails, managedAcceptConnPeer, TypeInv, SessionInv, Accepting
      <3>2. Handlers' = Handlers
        BY <2>5 DEF handshakeFails, managedAcceptConnPeer, Handlers
      <3> QED BY <2>5, <3>1, <3>2, Tally DEF handshakeFails, managedAcceptConnPeer, OneLess
    <2>6. CASE threadedHandleConn(s)
      <3>1. Accepting' = Accepting /\ phase' = phase /\ attempts' = attempts /\ calls' = calls
        BY <2>6 DEF threadedHandleConn, Accepting
      <3>2. running[s] < concurrentRPCPerPeer
        BY <1>0, <2>6, ShutdownAssumption DEF threadedHandleConn, TypeInv
      <3>3. CASE Add /\ running' = [running EXCEPT ![s] = @ + 1]
        BY <1>0, <3>1, <3>2, <3>3, HandlersMove, Tally DEF OneMore
      <3>4. CASE ErrStopped /\ UNCHANGED running
        <4>1. Handlers' = Handlers
          BY <3>4 DEF Handlers
        <4> QED BY <3>1, <3>4, <4>1, Tally DEF Same, ErrStopped, tgVars
      <3> QED BY <2>6, <3>3, <3>4 DEF threadedHandleConn
    <2>7. CASE handlerEnds(s)
      <3>1. Accepting' = Accepting /\ phase' = phase /\ attempts' = attempts /\ calls' = calls
        BY <2>7 DEF handlerEnds, Accepting
      <3> QED BY <1>0, <2>7, <3>1, HandlersMove, Tally DEF handlerEnds, OneLess
    <2> QED BY <1>11, <2>1, <2>2, <2>3, <2>4, <2>5, <2>6, <2>7 DEF Proceeds
  <1> QED BY <1>2, <1>3, <1>4, <1>5, <1>6, <1>7, <1>8, <1>9, <1>10, <1>11
          DEF Next, Outside, Own, Closes, Continues

\* Every step keeps the invariant.
LEMMA ShutdownInvStep == ShutdownInv /\ [Next]_vars => ShutdownInv'
  <1> SUFFICES ASSUME ShutdownInv, [Next]_vars PROVE ShutdownInv'
    OBVIOUS
  <1>1. CASE UNCHANGED vars
    BY <1>1 DEF vars, tgVars, perSession, ShutdownInv, TypeInv, LockInv, LoopInv, SessionInv,
                PeerInv, CountInv, AloneInv, Accepting, Handlers
  <1>2. CASE Next
    <2>1. TypeInv'
      BY <1>2, TypeInvShared, TypeInvSession DEF ShutdownInv, Next, Outside, Own
    <2> QED BY <1>2, <2>1, LockInvStep, LoopInvStep, SessionInvStep, PeerInvStep, CountInvStep
            DEF ShutdownInv
  <1> QED BY <1>1, <1>2

\* When Close saves the node list and closes the log, and ever after, nobody is
\* left who would use them: the counter of g.threads is the number of calls,
\* dials, handshakes and handlers, and OnStop waited for all others.
THEOREM GatewayIsAlone == Spec => []AloneAfterClose
  <1>1. ShutdownInv => AloneAfterClose
    <2> SUFFICES ASSUME ShutdownInv, phase \in {"after", "closed"} PROVE AloneAfterClose
      BY DEF AloneAfterClose
    <2>1. \A l \in Loops : loop[l] = "gone"
      BY DEF ShutdownInv, LoopInv, Loops
    <2>2. attempts.counted = 0 /\ calls = 0
      BY DEF ShutdownInv, AloneInv
    <2>3. \A s \in Sessions : running[s] = 0
      <3>1. \A s \in Sessions : running[s] \in Nat /\ running[s] <= concurrentRPCPerPeer
        BY ShutdownAssumption DEF ShutdownInv, TypeInv
      <3>2. \A s \in Sessions : running[s] > 0 => <<s, 1>> \in Handlers
        BY <3>1, ShutdownAssumption DEF Handlers
      <3>3. \A s \in Sessions : ~(running[s] > 0)
        BY <3>2 DEF ShutdownInv, AloneInv
      <3> QED BY <3>1, <3>3
    <2>4. \A s \in Sessions :
            /\ session[s] # "handshake" /\ ping[s] = "none"
            /\ listener[s] \notin Listening
      BY DEF ShutdownInv, AloneInv, Accepting, PeerInv, TypeInv
    <2>5. \A s \in Sessions : session[s] = "open" => listener[s] \in {"spawned", "refused"}
      BY <2>4 DEF ShutdownInv, SessionInv, TypeInv
    <2> QED BY <2>1, <2>2, <2>3, <2>4, <2>5 DEF AloneAfterClose, Listening
  <1> QED BY <1>1, ShutdownInvInit, ShutdownInvStep, PTL DEF Spec

=============================================================================
