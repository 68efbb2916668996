--------------------------- MODULE GatewayShutdown ---------------------------
(***************************************************************************)
(* Closing the gateway while its threads run: the two thread groups of     *)
(* modules/gateway (gateway.go), the permanent threads that OnStop waits   *)
(* for, the threads the peer manager starts, and the listeners and         *)
(* handlers of the sessions (rpc.go, peers.go).                            *)
(*                                                                         *)
(* g.threads is the ThreadGroup this module extends.  Its Stop keeps       *)
(* threads.bmu from its begin to its end, so a thread that calls           *)
(* threads.Add in between waits there.  g.peerTG is a second group: its    *)
(* counter is the number of listeners and pings that are counted, and its  *)
(* Stop is one of the functions of OnStop.                                 *)
(***************************************************************************)
EXTENDS ThreadGroup, FiniteSets, Sequences

CONSTANTS
    Sessions,              \* the connections that are ever made
    Closer,                \* the thread that calls Close
    concurrentRPCPerPeer,
    maxConcurrentOutboundPeerRequests,
    MaxCalls               \* bound on the calls of other modules at a time

ASSUME ShutdownAssumption ==
    /\ Closer # Nobody
    /\ IsFiniteSet(Sessions)
    /\ concurrentRPCPerPeer \in Nat \ {0}
    /\ maxConcurrentOutboundPeerRequests \in Nat \ {0}
    /\ MaxCalls \in Nat

Loops == {"purger", "nodeManager", "peerManager", "bootstrap"}

VARIABLES
    phase,     \* where Close is
    loop,      \* the permanent threads
    attempts,  \* the threads of the peer manager: before Add, and counted
    calls,     \* calls of other modules: RPC, Connect, Broadcast, the save loop
    session,   \* per connection: what it is
    listener,  \* per connection: threadedListenPeer
    watched,   \* per connection: the thread that waits for the end is through
    ping,      \* per connection: the ping after it was accepted
    waiting,   \* per connection: handlers before threads.Add,
    running    \* and handlers that are counted

perSession == <<session, listener, watched, ping, waiting, running>>
vars == <<tgVars, phase, loop, attempts, calls, perSession>>

Init ==
    /\ tgInit
    /\ phase = "open"
    /\ loop = [l \in Loops |-> "sleeping"]
    /\ attempts = [waiting |-> 0, counted |-> 0]
    /\ calls = 0
    /\ session = [s \in Sessions |-> "none"]
    /\ listener = [s \in Sessions |-> "none"]
    /\ watched = [s \in Sessions |-> FALSE]
    /\ ping = [s \in Sessions |-> "none"]
    /\ waiting = [s \in Sessions |-> 0]
    /\ running = [s \in Sessions |-> 0]

----------------------------------------------------------------------------
(* The permanent threads.  All of them sleep in a select that the closed   *)
(* stop channel ends.                                                      *)

\* The sleep is over and there is something to do: for the peer manager, to
\* wait for room in connectionLimiterChan; for the others, to dial or to call.
wakes(l) ==
    /\ loop[l] = "sleeping"
    /\ ~stopped
    /\ loop' = [loop EXCEPT ![l] = "busy"]
    /\ UNCHANGED <<tgVars, phase, attempts, calls, perSession>>

\* A dial, a handshake or a call ends: all have deadlines.
finishes(l) ==
    /\ l # "peerManager"
    /\ loop[l] = "busy"
    /\ loop' = [loop EXCEPT ![l] = "sleeping"]
    /\ UNCHANGED <<tgVars, phase, attempts, calls, perSession>>

leaves(l) ==
    /\ loop[l] = "sleeping"
    /\ stopped
    /\ loop' = [loop EXCEPT ![l] = "gone"]
    /\ UNCHANGED <<tgVars, phase, attempts, calls, perSession>>

\* permanentPeerManager finds room and starts a thread.
spawnConnect ==
    /\ loop["peerManager"] = "busy"
    /\ attempts.waiting + attempts.counted < maxConcurrentOutboundPeerRequests
    /\ attempts' = [attempts EXCEPT !.waiting = @ + 1]
    /\ loop' = [loop EXCEPT !["peerManager"] = "sleeping"]
    /\ UNCHANGED <<tgVars, phase, calls, perSession>>

connectEnter ==
    /\ attempts.waiting > 0
    /\ \/ Add /\ attempts' = [waiting |-> attempts.waiting - 1, counted |-> attempts.counted + 1]
       \/ ErrStopped /\ attempts' = [attempts EXCEPT !.waiting = @ - 1]
    /\ UNCHANGED <<phase, loop, calls, perSession>>

connectLeave ==
    /\ attempts.counted > 0
    /\ Done
    /\ attempts' = [attempts EXCEPT !.counted = @ - 1]
    /\ UNCHANGED <<phase, loop, calls, perSession>>

callEnter ==
    /\ calls < MaxCalls
    /\ Add
    /\ calls' = calls + 1
    /\ UNCHANGED <<phase, loop, attempts, perSession>>

callLeave ==
    /\ calls > 0
    /\ Done
    /\ calls' = calls - 1
    /\ UNCHANGED <<phase, loop, attempts, perSession>>

----------------------------------------------------------------------------
(* g.peerTG. *)

Closing == <<"purger", "nodeManager", "peerManager", "listen", "bootstrap", "peers">>

peerStopping == phase = "peers"                              \* peerTG.bmu is held
peerStopped == phase \in {"threads", "after", "closed"}

\* Mutant: the pings are not counted.
CountedListeners == {s \in Sessions : listener[s] \in {"accepting", "token", "closing"}}

CountedByPeerTG ==
    {s \in Sessions : listener[s] \in {"accepting", "token", "closing"} \/ ping[s] = "going"}

----------------------------------------------------------------------------
(* Connections. *)

\* permanentListen accepts a connection, until the listener is closed.
permanentListen(s) ==
    /\ session[s] = "none"
    /\ phase \in {"open", "purger", "nodeManager", "peerManager"}
    /\ session' = [session EXCEPT ![s] = "arrived"]
    /\ UNCHANGED <<tgVars, phase, loop, attempts, calls, listener, watched, ping, waiting, running>>

\* threadedAcceptConn
threadedAcceptConn(s) ==
    /\ session[s] = "arrived"
    /\ \/ Add /\ session' = [session EXCEPT ![s] = "handshake"]
       \/ ErrStopped /\ session' = [session EXCEPT ![s] = "closed"]
    /\ UNCHANGED <<phase, loop, attempts, calls, listener, watched, ping, waiting, running>>

handshakeFails(s) ==
    /\ session[s] = "handshake"
    /\ Done
    /\ session' = [session EXCEPT ![s] = "closed"]
    /\ UNCHANGED <<phase, loop, attempts, calls, listener, watched, ping, waiting, running>>

\* addPeer starts the listener.
addPeer(s) ==
    /\ session' = [session EXCEPT ![s] = "open"]
    /\ listener' = [listener EXCEPT ![s] = "spawned"]

\* acceptPeer in managedAcceptConnPeer; then the thread calls peerTG.Add ...
acceptPeer(s) ==
    /\ session[s] = "handshake"
    /\ addPeer(s)
    /\ ping' = [ping EXCEPT ![s] = "asking"]
    /\ UNCHANGED <<tgVars, phase, loop, attempts, calls, watched, waiting, running>>

\* ... and, if that succeeds, starts the thread that pings the peer.
managedAcceptConnPeer(s) ==
    /\ ping[s] = "asking"
    /\ ~peerStopping
    /\ ping' = [ping EXCEPT ![s] = IF peerStopped THEN "none" ELSE "going"]
    /\ Done
    /\ UNCHANGED <<phase, loop, attempts, calls, session, listener, watched, waiting, running>>

\* A thread that called managedConnect has dialled successfully.
managedConnect(s) ==
    /\ session[s] = "none"
    /\ attempts.counted > 0 \/ calls > 0 \/ loop["bootstrap"] = "busy"
    /\ addPeer(s)
    /\ UNCHANGED <<tgVars, phase, loop, attempts, calls, watched, ping, waiting, running>>

pingEnds(s) ==
    /\ ping[s] = "going"
    /\ ping' = [ping EXCEPT ![s] = "none"]
    /\ UNCHANGED <<tgVars, phase, loop, attempts, calls, session, listener, watched, waiting, running>>

sessionBreaks(s) ==
    /\ session[s] = "open"
    /\ session' = [session EXCEPT ![s] = "closed"]
    /\ UNCHANGED <<tgVars, phase, loop, attempts, calls, listener, watched, ping, waiting, running>>

----------------------------------------------------------------------------
(* threadedListenPeer and threadedHandleConn. *)

\* A listener that comes too late returns and leaves the session as it is.
threadedListenPeer(s) ==
    /\ listener[s] = "spawned"
    /\ ~peerStopping
    /\ listener' = [listener EXCEPT ![s] = IF peerStopped THEN "refused" ELSE "accepting"]
    /\ UNCHANGED <<tgVars, phase, loop, attempts, calls, session, watched, ping, waiting, running>>

\* A stream is accepted: now the listener needs a token.
acceptStream(s) ==
    /\ listener[s] = "accepting"
    /\ session[s] = "open"
    /\ listener' = [listener EXCEPT ![s] = "token"]
    /\ UNCHANGED <<tgVars, phase, loop, attempts, calls, session, watched, ping, waiting, running>>

takeToken(s) ==
    /\ listener[s] = "token"
    /\ waiting[s] + running[s] < concurrentRPCPerPeer
    /\ waiting' = [waiting EXCEPT ![s] = @ + 1]
    /\ listener' = [listener EXCEPT ![s] = "accepting"]
    /\ UNCHANGED <<tgVars, phase, loop, attempts, calls, session, watched, ping, running>>

threadedHandleConn(s) ==
    /\ waiting[s] > 0
    /\ waiting' = [waiting EXCEPT ![s] = @ - 1]
    /\ \/ Add /\ running' = [running EXCEPT ![s] = @ + 1]
       \/ ErrStopped /\ UNCHANGED running
    /\ UNCHANGED <<phase, loop, attempts, calls, session, listener, watched, ping>>

\* The handler returns, and with it the token: streams have deadlines.
handlerEnds(s) ==
    /\ running[s] > 0
    /\ running' = [running EXCEPT ![s] = @ - 1]
    /\ Done
    /\ UNCHANGED <<phase, loop, attempts, calls, session, listener, watched, ping, waiting>>

\* accept fails.
acceptFails(s) ==
    /\ listener[s] = "accepting"
    /\ session[s] = "closed"
    /\ listener' = [listener EXCEPT ![s] = "closing"]
    /\ UNCHANGED <<tgVars, phase, loop, attempts, calls, session, watched, ping, waiting, running>>

\* Mutant: the thread waits for the end of the listener only.
watcherOfPeer(s) ==
    /\ listener[s] = "closing"
    /\ ~watched[s]
    /\ session' = [session EXCEPT ![s] = "closed"]
    /\ watched' = [watched EXCEPT ![s] = TRUE]
    /\ UNCHANGED <<tgVars, phase, loop, attempts, calls, listener, ping, waiting, running>>

\* The thread that waits for the stop channel or for the end of the listener.
watcher(s) ==
    /\ listener[s] \in {"accepting", "token", "closing"}
    /\ ~watched[s]
    /\ stopped \/ listener[s] = "closing"
    /\ session' = [session EXCEPT ![s] = "closed"]
    /\ watched' = [watched EXCEPT ![s] = TRUE]
    /\ UNCHANGED <<tgVars, phase, loop, attempts, calls, listener, ping, waiting, running>>

listenerLeaves(s) ==
    /\ listener[s] = "closing"
    /\ watched[s]
    /\ listener' = [listener EXCEPT ![s] = "gone"]
    /\ UNCHANGED <<tgVars, phase, loop, attempts, calls, session, watched, ping, waiting, running>>

----------------------------------------------------------------------------
(* Close. *)

Close ==
    /\ phase = "open"
    /\ StopBegin(Closer)
    /\ phase' = "purger"
    /\ UNCHANGED <<loop, attempts, calls, perSession>>

\* The functions of OnStop, each of which waits for something: the closed
\* channels of the permanent threads, permanentListen (which has nothing else
\* to wait for once the listener is closed) and peerTG.Stop.
OnStop(i) ==
    /\ phase = Closing[i]
    /\ Closing[i] \in Loops => loop[Closing[i]] = "gone"
    /\ Closing[i] = "peers" => CountedByPeerTG = {}
    /\ phase' = IF i < Len(Closing) THEN Closing[i + 1] ELSE "threads"
    /\ UNCHANGED <<tgVars, loop, attempts, calls, perSession>>

\* Afterwards the node list is saved and the log is closed.
stopWait ==
    /\ phase = "threads"
    /\ Wait(Closer)
    /\ phase' = "after"
    /\ UNCHANGED <<loop, attempts, calls, perSession>>

closeReturns ==
    /\ phase = "after"
    /\ Release(Closer)
    /\ phase' = "closed"
    /\ UNCHANGED <<loop, attempts, calls, perSession>>

----------------------------------------------------------------------------
(* The specification. *)

\* What comes from outside, or is up to the clock.
Outside ==
    \/ Close
    \/ callEnter
    \/ \E l \in Loops : wakes(l)
    \/ \E s \in Sessions :
          permanentListen(s) \/ managedConnect(s) \/ sessionBreaks(s) \/ acceptStream(s)

Closes == (\E i \in DOMAIN Closing : OnStop(i)) \/ stopWait \/ closeReturns

Continues ==
    \/ callLeave \/ spawnConnect \/ connectEnter \/ connectLeave
    \/ \E l \in Loops : finishes(l) \/ leaves(l)

Proceeds(s) ==
    \/ threadedAcceptConn(s) \/ handshakeFails(s) \/ acceptPeer(s)
    \/ managedAcceptConnPeer(s) \/ pingEnds(s)
    \/ threadedListenPeer(s) \/ takeToken(s) \/ threadedHandleConn(s) \/ handlerEnds(s)
    \/ acceptFails(s) \/ watcher(s) \/ listenerLeaves(s)

\* What the gateway's own threads do.
Own == Closes \/ Continues \/ \E s \in Sessions : Proceeds(s)

Next == Outside \/ Own

Spec == Init /\ [][Next]_vars

\* As long as some thread of the gateway can take a step, some thread takes one.
\* Nothing more is needed: what runs for ever ends when the stop channel closes.
FairSpec == Spec /\ WF_vars(Own)

----------------------------------------------------------------------------
(* Properties. *)

\* When Close saves the node list and closes the log, and ever after, nobody is
\* left who would use them: the permanent threads are gone, no call, dial,
\* handshake, ping, listener or handler goes on.  The sessions are closed,
\* except those whose handshake ended after peerTG had been stopped.
AloneAfterClose ==
    phase \in {"after", "closed"} =>
        /\ \A l \in Loops : loop[l] = "gone"
        /\ attempts.counted = 0 /\ calls = 0
        /\ \A s \in Sessions :
            /\ ping[s] = "none" /\ running[s] = 0
            /\ session[s] # "handshake"
            /\ listener[s] \notin {"accepting", "token", "closing"}
            /\ session[s] = "open" => listener[s] \in {"spawned", "refused"}

\* A thread that Stop waits for needs one that waits for Stop in threads.Add: a
\* listener that needs a token while handlers have all of them, or the peer
\* manager that needs room while its threads take all of it.
Deadlocked ==
    /\ stopped
    /\ \/ \E s \in Sessions : listener[s] = "token" /\ waiting[s] = concurrentRPCPerPeer
       \/ /\ loop["peerManager"] = "busy"
          /\ attempts.waiting = maxConcurrentOutboundPeerRequests

\* Close returns, whatever the threads of the gateway were doing, unless one of
\* these two deadlocks is reached; there is no third way to hang.
CloseReturnsUnlessDeadlocked == phase = "purger" ~> phase = "closed" \/ Deadlocked

=============================================================================
