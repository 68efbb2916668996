---------------------------- MODULE GatewayPeers ----------------------------
(***************************************************************************)
(* The peer table and the node list of the gateway: modules/gateway        *)
(* (peers.go, peersmanager.go, nodes.go and the listening and calling side *)
(* of rpc.go), from start-up until the gateway is closed.                  *)
(*                                                                         *)
(* Whatever happens under one hold of g.mu is one step; a dial, a          *)
(* handshake, the opening of a stream and the end of a session happen with *)
(* the lock released, so that other threads come in between.  The table    *)
(* has one entry per address, while any number of sessions with one        *)
(* address may be open.  A session that is not NoSession has a listener.   *)
(* WasOutboundPeer, which only decides which nodes the peer manager tries  *)
(* first, and the file of nodes (see JSONPersist) are left out.            *)
(***************************************************************************)
EXTENDS Integers, FiniteSets, Functions

CONSTANTS
    Addrs,       \* the addresses of all other nodes
    Local,       \* those for which NetAddress.IsLocal holds
    Host,        \* NetAddress.Host
    Bootstrap,   \* the nodes the gateway knows at first
    Callers,     \* the addresses from which other nodes connect to this one
    InSessions,  \* sessions at a time with nodes that connected to this one,
    OutSessions, \* and with nodes this one connected to
    Users,       \* threads that call Connect, and the one that bootstraps
    Managers,    \* threads the peer manager may run at a time
    fullyConnectedThreshold, wellConnectedThreshold, maxLocalOutboundPeers,
    pruneNodeListLen,
    maxSharedNodes,
    MaxEvents,   \* bound on the connections, calls and breaks from outside
    None         \* no address

Sessions == InSessions \cup OutSessions
Dialers == Users \cup Managers

\* maxConcurrentOutboundPeerRequests
maxConcurrent == Cardinality(Managers)

ASSUME GatewayAssumption ==
    /\ Local \subseteq Addrs /\ Bootstrap \subseteq Addrs /\ Callers \subseteq Addrs
    /\ None \notin Addrs
    /\ IsFiniteSet(Addrs) /\ IsFiniteSet(Managers)
    /\ InSessions \cap OutSessions = {}
    /\ Users \cap Managers = {}
    /\ fullyConnectedThreshold \in Nat \ {0}
    /\ wellConnectedThreshold \in Nat
    /\ maxLocalOutboundPeers \in Nat
    /\ pruneNodeListLen \in Nat
    /\ maxSharedNodes \in Nat

VARIABLES
    peers,     \* g.peers: address to session, for the addresses in the table
    nodes,     \* the addresses in g.nodes
    session,   \* the sessions
    rpcs,      \* <<address, session>> read by a managedRPC that will open a stream
    cuts,      \* addresses a Disconnect will delete
    pings,     \* addresses an accepting thread pings
    dial,      \* what each thread in managedConnect is doing
    todo,      \* the rest of the list the peer manager goes through
    limiter,   \* the address for which the peer manager waits for a free thread
    purging,   \* the address the node purger pings
    events     \* how much has come from outside

table == <<peers, nodes, session>>
loops == <<todo, limiter, purging>>
vars == <<table, rpcs, cuts, pings, dial, loops, events>>

NoSession == [open |-> FALSE, addr |-> None, inbound |-> FALSE, byManager |-> FALSE]
NewSession(a, inbound, byManager) ==
    [open |-> TRUE, addr |-> a, inbound |-> inbound, byManager |-> byManager]
Idle == [at |-> "idle", addr |-> None]

Init ==
    /\ peers = << >>
    /\ nodes = Bootstrap
    /\ session = [s \in Sessions |-> NoSession]
    /\ rpcs = {} /\ cuts = {} /\ pings = {}
    /\ dial = [d \in Dialers |-> Idle]
    /\ todo = {} /\ limiter = None /\ purging = None
    /\ events = 0

----------------------------------------------------------------------------
(* The table and the list. *)

Without(f, a) == Restrict(f, DOMAIN f \ {a})
With(f, a, x) == [b \in DOMAIN f \cup {a} |-> IF b = a THEN x ELSE f[b]]

PeersThat(P(_)) == {a \in DOMAIN peers : P(session[peers[a]])}
Outbound == PeersThat(LAMBDA s : ~s.inbound)
numOutboundPeers == Cardinality(Outbound)

\* A session nobody has a pointer to any more.
Unused(s) == session[s] = NoSession /\ \A r \in rpcs : r[2] # s

\* Something that is not the gateway's own doing happens.
Event == events < MaxEvents /\ events' = events + 1

\* addNode for each address of A; the addresses that are known stay as they are.
addNodes(A) == nodes \cup A

removeNode(a) == nodes \ {a}

\* addPeer: the entry and the listener of a new session s, in table p.
addPeer(p, s, a, inbound, byManager, sessions) ==
    /\ peers' = With(p, a, s)
    /\ session' = [sessions EXCEPT ![s] = NewSession(a, inbound, byManager)]

----------------------------------------------------------------------------
(* Inbound connections. *)

\* Who may be kicked for a connection from a.
Kickable(a) ==
    LET inbound == PeersThat(LAMBDA s : s.inbound /\ s.addr \notin Local)
        sameHost == {b \in inbound : Host[b] = Host[a]}
    IN  IF sameHost # {} THEN sameHost ELSE inbound

\* acceptPeer and the ping managedAcceptConnPeer starts after it.
acceptPeer(s, a) ==
    /\ Unused(s)
    /\ Event
    /\ IF Cardinality(DOMAIN peers) < fullyConnectedThreshold \/ Kickable(a) = {}
         THEN addPeer(peers, s, a, TRUE, FALSE, session)
         ELSE \E kick \in Kickable(a) :
                addPeer(Without(peers, kick), s, a, TRUE, FALSE,
                        [session EXCEPT ![peers[kick]].open = FALSE])
    /\ pings' = pings \cup {a}
    /\ UNCHANGED <<nodes, rpcs, cuts, dial, loops>>

\* The ping ended; ok if a node answered.
pingEnds(a, ok) ==
    /\ a \in pings
    /\ pings' = pings \ {a}
    /\ nodes' = IF ok THEN addNodes({a}) ELSE nodes
    /\ UNCHANGED <<peers, session, rpcs, cuts, dial, loops, events>>

----------------------------------------------------------------------------
(* A session: its listener and its end. *)

\* The peer closes the session, or the network does.
sessionBreaks(s) ==
    /\ session[s].open
    /\ Event
    /\ session' = [session EXCEPT ![s].open = FALSE]
    /\ UNCHANGED <<peers, nodes, rpcs, cuts, pings, dial, loops>>

\* Mutant: the listener leaves its entry behind.
listenerEndsQuietly(s) ==
    /\ session[s] # NoSession
    /\ ~session[s].open
    /\ session' = [session EXCEPT ![s] = NoSession]
    /\ UNCHANGED <<peers, nodes, rpcs, cuts, pings, dial, loops, events>>

\* accept failed: the listener removes whatever the table has for the address.
listenerEnds(s) ==
    /\ session[s] # NoSession
    /\ ~session[s].open
    /\ peers' = Without(peers, session[s].addr)
    /\ session' = [session EXCEPT ![s] = NoSession]
    /\ UNCHANGED <<nodes, rpcs, cuts, pings, dial, loops, events>>

\* managedRPC reads the table ...
managedRPC(a) ==
    /\ a \in DOMAIN peers
    /\ Event
    /\ rpcs' = rpcs \cup {<<a, peers[a]>>}
    /\ UNCHANGED <<table, cuts, pings, dial, loops>>

\* ... and opens a stream; the call may be ShareNodes.
rpcEnds(r) ==
    /\ r \in rpcs
    /\ rpcs' = rpcs \ {r}
    /\ \/ /\ ~session[r[2]].open
          /\ peers' = Without(peers, r[1])
          /\ UNCHANGED nodes
       \/ /\ session[r[2]].open
          /\ \E A \in SUBSET Addrs :
                Cardinality(A) <= maxSharedNodes /\ nodes' = addNodes(A)
          /\ UNCHANGED peers
    /\ UNCHANGED <<session, cuts, pings, dial, loops, events>>

\* Disconnect closes the session it finds and later deletes the address.
Disconnect(a) ==
    /\ a \in DOMAIN peers
    /\ Event
    /\ session' = [session EXCEPT ![peers[a]].open = FALSE]
    /\ cuts' = cuts \cup {a}
    /\ UNCHANGED <<peers, nodes, rpcs, pings, dial, loops>>

disconnectEnds(a) ==
    /\ a \in cuts
    /\ cuts' = cuts \ {a}
    /\ peers' = Without(peers, a)
    /\ nodes' = removeNode(a)
    /\ UNCHANGED <<session, rpcs, pings, dial, loops, events>>

----------------------------------------------------------------------------
(* Outbound connections: managedConnect, called by Connect and by the      *)
(* threads of the peer manager.                                            *)

\* Connect: errPeerExists is returned to the user.
Connect(d, a) ==
    /\ d \in Users
    /\ dial[d] = Idle
    /\ a \notin DOMAIN peers
    /\ Event
    /\ dial' = [dial EXCEPT ![d] = [at |-> "dialing", addr |-> a]]
    /\ UNCHANGED <<table, rpcs, cuts, pings, loops>>

\* The look at the table in a thread of the peer manager.
managerConnect(d) ==
    /\ dial[d].at = "spawned"
    /\ dial' = [dial EXCEPT ![d].at =
                  IF dial[d].addr \in DOMAIN peers THEN "exists" ELSE "dialing"]
    /\ UNCHANGED <<table, rpcs, cuts, pings, loops, events>>

\* The rest of managedConnect after a successful dial and handshake.  The calls
\* of initRPCs are made by threads that begin with managedRPC.
connected(d, s) ==
    /\ dial[d].at = "dialing"
    /\ Unused(s)
    /\ addPeer(peers, s, dial[d].addr, FALSE, d \in Managers, session)
    /\ nodes' = addNodes({dial[d].addr})
    /\ dial' = [dial EXCEPT ![d] = Idle]
    /\ UNCHANGED <<rpcs, cuts, pings, loops, events>>

\* The dial or the handshake failed.  The peer manager forgets the node.
connectFails(d) ==
    /\ dial[d].at = "dialing"
    /\ nodes' = IF d \in Managers /\ Cardinality(nodes) > pruneNodeListLen
                  THEN removeNode(dial[d].addr) ELSE nodes
    /\ dial' = [dial EXCEPT ![d] = Idle]
    /\ UNCHANGED <<peers, session, rpcs, cuts, pings, loops, events>>

\* errPeerExists in managedPeerManagerConnect: the peer becomes outbound, if it
\* is still there.
convertPeer(d) ==
    LET a == dial[d].addr IN
    /\ dial[d].at = "exists"
    /\ IF a \in DOMAIN peers
         THEN /\ session' = [session EXCEPT ![peers[a]].inbound = FALSE,
                                            ![peers[a]].byManager =
                                              @ \/ session[peers[a]].inbound]
         ELSE UNCHANGED session
    /\ dial' = [dial EXCEPT ![d] = Idle]
    /\ UNCHANGED <<peers, nodes, rpcs, cuts, pings, loops, events>>

----------------------------------------------------------------------------
(* permanentPeerManager. *)

\* buildPeerManagerNodeList: the loop below takes the nodes in any order.
buildPeerManagerNodeList ==
    /\ todo = {} /\ limiter = None
    /\ nodes # {}
    /\ todo' = nodes
    /\ UNCHANGED <<table, rpcs, cuts, pings, dial, limiter, purging, events>>

\* Mutant: all addresses of the list are tried.
permanentPeerManagerEager(a) ==
    /\ limiter = None
    /\ a \in todo
    /\ todo' = todo \ {a}
    /\ limiter' = IF a \in Outbound THEN None ELSE a
    /\ UNCHANGED <<table, rpcs, cuts, pings, dial, purging, events>>

\* One turn of the loop over the list, for address a: the list is given up, the
\* address is passed over, or the manager goes on to wait for a free thread.
permanentPeerManager(a) ==
    /\ limiter = None
    /\ a \in todo
    /\ LET skip == \/ a \in Outbound
                   \/ numOutboundPeers >= maxLocalOutboundPeers /\ a \in Local
       IN  \/ /\ numOutboundPeers >= wellConnectedThreshold
              /\ todo' = {}
              /\ UNCHANGED limiter
           \/ /\ numOutboundPeers < wellConnectedThreshold
              /\ todo' = todo \ {a}
              /\ limiter' = IF skip THEN None ELSE a
    /\ UNCHANGED <<table, rpcs, cuts, pings, dial, purging, events>>

\* connectionLimiterChan has room.
spawnConnect(d) ==
    /\ d \in Managers
    /\ dial[d] = Idle
    /\ limiter # None
    /\ dial' = [dial EXCEPT ![d] = [at |-> "spawned", addr |-> limiter]]
    /\ limiter' = None
    /\ UNCHANGED <<table, rpcs, cuts, pings, todo, purging, events>>

----------------------------------------------------------------------------
(* permanentNodePurger. *)

purgerPicks(a) ==
    /\ purging = None
    /\ Event
    /\ Cardinality(nodes) > pruneNodeListLen
    /\ a \in nodes \ DOMAIN peers
    /\ purging' = a
    /\ UNCHANGED <<table, rpcs, cuts, pings, dial, todo, limiter>>

purgerEnds(ok) ==
    /\ purging # None
    /\ purging' = None
    /\ nodes' = IF ok THEN nodes ELSE removeNode(purging)
    /\ UNCHANGED <<peers, session, rpcs, cuts, pings, dial, todo, limiter, events>>

----------------------------------------------------------------------------
(* The specification. *)

Next ==
    \/ \E s \in InSessions, a \in Callers : acceptPeer(s, a)
    \/ \E a \in pings, ok \in BOOLEAN : pingEnds(a, ok)
    \/ \E s \in Sessions : sessionBreaks(s) \/ listenerEnds(s)
    \/ \E a \in Addrs : managedRPC(a) \/ Disconnect(a) \/ disconnectEnds(a)
    \/ \E r \in rpcs : rpcEnds(r)
    \/ \E d \in Users, a \in Addrs : Connect(d, a)
    \/ \E d \in Dialers : managerConnect(d) \/ connectFails(d) \/ convertPeer(d)
    \/ \E d \in Dialers, s \in OutSessions : connected(d, s)
    \/ buildPeerManagerNodeList
    \/ \E a \in Addrs : permanentPeerManager(a) \/ purgerPicks(a)
    \/ \E d \in Managers : spawnConnect(d)
    \/ \E ok \in BOOLEAN : purgerEnds(ok)

Spec == Init /\ [][Next]_vars

----------------------------------------------------------------------------
(* Properties. *)

\* Every entry of the table is a session with that address whose listener still
\* runs, and will remove the entry when the session ends: no interleaving of
\* connects, disconnects, failing calls and ending sessions leaves an entry
\* that nobody looks after.
PeersAreListened ==
    \A a \in DOMAIN peers : session[peers[a]].addr = a

\* The table keeps its bounds.  The inbound peers that are not local never
\* outnumber fullyConnectedThreshold, since each new one makes room for itself.
\* The peer manager looks at the number of outbound peers before it waits for
\* a free thread, so it may overshoot, but only by as many peers as it has
\* threads.
TableIsBounded ==
    /\ Cardinality(PeersThat(LAMBDA s : s.inbound /\ s.addr \notin Local))
         <= fullyConnectedThreshold
    /\ Cardinality(PeersThat(LAMBDA s : ~s.inbound /\ s.byManager))
         <= wellConnectedThreshold + maxConcurrent

=============================================================================
