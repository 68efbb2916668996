-------------------------- MODULE GatewayPeersProofs --------------------------
(***************************************************************************)
(* Every entry of the peer table has a listener, for every set of nodes,   *)
(* sessions and threads.  A listener that ends removes whatever the table  *)
(* has for its address; no other entry can be its session, because an      *)
(* entry and its session agree on the address.  A new session takes the    *)
(* place of one that has no address, which therefore no entry has.         *)
(***************************************************************************)
EXTENDS GatewayPeers, TLAPS

SessionType ==
    [open : BOOLEAN, addr : Addrs \cup {None}, inbound : BOOLEAN, byManager : BOOLEAN]

\* The table p and the sessions q agree.
TableInv(p, q) ==
    /\ q \in [Sessions -> SessionType]
    /\ DOMAIN p \subseteq Addrs
    /\ \A a \in DOMAIN p : p[a] \in Sessions /\ q[p[a]].addr = a

----------------------------------------------------------------------------
(* What the operations on the table do to it. *)

\* Removing an entry keeps the agreement.
LEMMA RemovalKeepsTable ==
    ASSUME NEW p, NEW q, NEW a, TableInv(p, q)
    PROVE  TableInv(Without(p, a), q)
BY DEF TableInv, Without, Restrict

\* Replacing a session by one with the same address keeps it: this is closing a
\* session, and turning an inbound peer into an outbound one.
LEMMA UpdateKeepsTable ==
    ASSUME NEW p, NEW q, NEW s \in Sessions, NEW r \in SessionType,
           TableInv(p, q), r.addr = q[s].addr
    PROVE  TableInv(p, [q EXCEPT ![s] = r])
BY DEF TableInv

\* A listener that ends and takes the entry of its address with it keeps it.
LEMMA EndKeepsTable ==
    ASSUME NEW p, NEW q, NEW s \in Sessions, TableInv(p, q)
    PROVE  TableInv(Without(p, q[s].addr), [q EXCEPT ![s] = NoSession])
<1>1. NoSession \in SessionType
  BY Zenon DEF SessionType, NoSession
<1>2. QED
  BY <1>1 DEF TableInv, Without, Restrict

\* addPeer with a session that was not in use keeps it.
LEMMA AddPeerKeepsTable ==
    ASSUME NEW p, NEW q, NEW s \in Sessions, NEW a \in Addrs,
           NEW i \in BOOLEAN, NEW m \in BOOLEAN,
           TableInv(p, q), q[s] = NoSession
    PROVE  TableInv(With(p, a, s), [q EXCEPT ![s] = NewSession(a, i, m)])
<1>1. NewSession(a, i, m) \in SessionType /\ NewSession(a, i, m).addr = a
  BY Zenon DEF SessionType, NewSession
<1>2. \A b \in DOMAIN p : p[b] # s
  BY GatewayAssumption DEF TableInv, NoSession
<1>3. QED
  BY <1>1, <1>2 DEF TableInv, With

\* Closing a session changes nothing else of it.
LEMMA CloseLemma ==
    ASSUME NEW r \in SessionType
    PROVE  /\ [r EXCEPT !.open = FALSE] \in SessionType
           /\ [r EXCEPT !.open = FALSE].addr = r.addr
BY DEF SessionType

\* Turning a peer into an outbound one leaves its address alone.
LEMMA ConvertLemma ==
    ASSUME NEW r \in SessionType, NEW m \in BOOLEAN
    PROVE  /\ [r EXCEPT !.inbound = FALSE, !.byManager = m] \in SessionType
           /\ [r EXCEPT !.inbound = FALSE, !.byManager = m].addr = r.addr
BY DEF SessionType

\* Closing session s.
LEMMA ClosingKeepsTable ==
    ASSUME NEW p, NEW q, NEW s \in Sessions, TableInv(p, q)
    PROVE  /\ TableInv(p, [q EXCEPT ![s].open = FALSE])
           /\ \A u \in Sessions \ {s} : [q EXCEPT ![s].open = FALSE][u] = q[u]
<1>1. q[s] \in SessionType
  BY DEF TableInv
<1>2. TableInv(p, [q EXCEPT ![s] = [q[s] EXCEPT !.open = FALSE]])
  BY <1>1, CloseLemma, UpdateKeepsTable
<1>3. QED
  BY <1>2 DEF TableInv

----------------------------------------------------------------------------
(* The invariant. *)

\* Whatever a thread dials is an address.
AddrsInv ==
    /\ nodes \subseteq Addrs
    /\ todo \subseteq Addrs
    /\ pings \subseteq Addrs
    /\ limiter \in Addrs \cup {None}
    /\ DOMAIN dial = Dialers
    /\ \A d \in Dialers : dial[d] # Idle => dial[d].addr \in Addrs

PeersInv == TableInv(peers, session) /\ AddrsInv

\* PeersInv holds at first.
LEMMA InitPeersInv == Init => PeersInv
<1> SUFFICES ASSUME Init PROVE PeersInv
  OBVIOUS
<1>1. NoSession \in SessionType
  BY Zenon DEF SessionType, NoSession
<1>2. TableInv(peers, session)
  BY <1>1 DEF Init, TableInv
<1>3. AddrsInv
  BY GatewayAssumption DEF Init, AddrsInv
<1>4. QED
  BY <1>2, <1>3 DEF PeersInv

\* Every step keeps AddrsInv: the lists only get addresses, and so do the dials.
LEMMA NextKeepsAddrs == AddrsInv /\ [Next]_vars => AddrsInv'
<1> SUFFICES ASSUME AddrsInv, [Next]_vars PROVE AddrsInv'
  OBVIOUS
<1> USE GatewayAssumption DEF AddrsInv
<1>1. CASE \E s \in InSessions, a \in Callers : acceptPeer(s, a)
  BY <1>1 DEF acceptPeer, loops
<1>2. CASE \E a \in pings, ok \in BOOLEAN : pingEnds(a, ok)
  BY <1>2 DEF pingEnds, addNodes, loops
<1>3. CASE \E s \in Sessions : sessionBreaks(s) \/ listenerEnds(s)
  BY <1>3 DEF sessionBreaks, listenerEnds, loops
<1>4. CASE \E a \in Addrs : managedRPC(a) \/ Disconnect(a) \/ disconnectEnds(a)
  BY <1>4 DEF managedRPC, Disconnect, disconnectEnds, removeNode, loops, table
<1>5. CASE \E r \in rpcs : rpcEnds(r)
  BY <1>5 DEF rpcEnds, addNodes, loops
<1>6. CASE \E d \in Users, a \in Addrs : Connect(d, a)
  BY <1>6 DEF Connect, Idle, Dialers, loops, table
<1>7. CASE \E d \in Dialers : managerConnect(d)
  BY <1>7 DEF managerConnect, Idle, loops, table
<1>8. CASE \E d \in Dialers : connectFails(d)
  BY <1>8 DEF connectFails, removeNode, Idle, loops
<1>9. CASE \E d \in Dialers : convertPeer(d)
  BY <1>9 DEF convertPeer, Idle, loops
<1>10. CASE \E d \in Dialers, s \in OutSessions : connected(d, s)
  BY <1>10 DEF connected, addNodes, Idle, loops
<1>11. CASE buildPeerManagerNodeList
  BY <1>11 DEF buildPeerManagerNodeList, table
<1>12. CASE \E a \in Addrs : permanentPeerManager(a) \/ purgerPicks(a)
  BY <1>12 DEF permanentPeerManager, purgerPicks, table
<1>13. CASE \E d \in Managers : spawnConnect(d)
  BY <1>13 DEF spawnConnect, Idle, Dialers, table
<1>14. CASE \E ok \in BOOLEAN : purgerEnds(ok)
  BY <1>14 DEF purgerEnds, removeNode
<1>15. CASE UNCHANGED vars
  BY <1>15 DEF vars, table, loops
<1>16. QED
  BY <1>1, <1>2, <1>3, <1>4, <1>5, <1>6, <1>7, <1>8, <1>9, <1>10, <1>11, <1>12, <1>13,
     <1>14, <1>15 DEF Next

\* Every step keeps the agreement of the table with the sessions.
LEMMA NextKeepsTable == PeersInv /\ [Next]_vars => TableInv(peers, session)'
<1> SUFFICES ASSUME PeersInv, [Next]_vars PROVE TableInv(peers', session')
  BY DEF TableInv
<1> USE DEF PeersInv
<1>1. ASSUME NEW s \in InSessions, NEW a \in Callers, acceptPeer(s, a)
      PROVE  TableInv(peers', session')
  <2>1. s \in Sessions /\ a \in Addrs /\ session[s] = NoSession
    BY <1>1, GatewayAssumption DEF acceptPeer, Unused, Sessions
  <2>2. CASE addPeer(peers, s, a, TRUE, FALSE, session)
    BY <2>1, <2>2, AddPeerKeepsTable DEF addPeer
  <2>3. ASSUME NEW kick \in Kickable(a),
               addPeer(Without(peers, kick), s, a, TRUE, FALSE,
                       [session EXCEPT ![peers[kick]].open = FALSE])
        PROVE  TableInv(peers', session')
    <3> DEFINE q == [session EXCEPT ![peers[kick]].open = FALSE]
    <3>1. kick \in DOMAIN peers /\ peers[kick] \in Sessions /\ peers[kick] # s
      BY <2>1, GatewayAssumption DEF Kickable, PeersThat, TableInv, NoSession
    <3>2. TableInv(peers, q) /\ q[s] = NoSession
      BY <2>1, <3>1, ClosingKeepsTable
    <3>3. TableInv(Without(peers, kick), q)
      BY <3>2, RemovalKeepsTable
    <3>4. QED
      BY <2>1, <2>3, <3>2, <3>3, AddPeerKeepsTable DEF addPeer
  <2>4. QED
    BY <1>1, <2>2, <2>3 DEF acceptPeer
<1>2. ASSUME NEW s \in Sessions, sessionBreaks(s)
      PROVE  TableInv(peers', session')
  BY <1>2, ClosingKeepsTable DEF sessionBreaks
<1>3. ASSUME NEW s \in Sessions, listenerEnds(s)
      PROVE  TableInv(peers', session')
  BY <1>3, EndKeepsTable DEF listenerEnds
<1>4. ASSUME NEW a \in Addrs, Disconnect(a)
      PROVE  TableInv(peers', session')
  BY <1>4, ClosingKeepsTable DEF Disconnect, TableInv
<1>5. ASSUME NEW a \in Addrs, disconnectEnds(a)
      PROVE  TableInv(peers', session')
  BY <1>5, RemovalKeepsTable DEF disconnectEnds
<1>6. ASSUME NEW r \in rpcs, rpcEnds(r)
      PROVE  TableInv(peers', session')
  BY <1>6, RemovalKeepsTable DEF rpcEnds
<1>7. ASSUME NEW d \in Dialers, NEW s \in OutSessions, connected(d, s)
      PROVE  TableInv(peers', session')
  <2>1. s \in Sessions /\ session[s] = NoSession /\ dial[d].addr \in Addrs
    BY <1>7 DEF connected, Unused, Sessions, AddrsInv, Idle
  <2>2. (d \in Managers) \in BOOLEAN
    OBVIOUS
  <2>3. QED
    BY <1>7, <2>1, <2>2, AddPeerKeepsTable DEF connected, addPeer
<1>8. ASSUME NEW d \in Dialers, convertPeer(d)
      PROVE  TableInv(peers', session')
  <2> DEFINE s == peers[dial[d].addr]
             r == [session[s] EXCEPT !.inbound = FALSE,
                                     !.byManager = @ \/ session[s].inbound]
  <2>1. CASE dial[d].addr \in DOMAIN peers
    <3>1. s \in Sessions /\ session[s] \in SessionType
      BY <2>1 DEF TableInv
    <3>2. r \in SessionType /\ r.addr = session[s].addr
      BY <3>1, ConvertLemma DEF SessionType
    <3>3. session' = [session EXCEPT ![s] = r] /\ peers' = peers
      BY <1>8, <2>1, <3>1 DEF convertPeer, TableInv
    <3>4. QED
      BY <3>1, <3>2, <3>3, UpdateKeepsTable
  <2>2. CASE dial[d].addr \notin DOMAIN peers
    BY <1>8, <2>2 DEF convertPeer
  <2>3. QED
    BY <2>1, <2>2
<1>9. ASSUME UNCHANGED <<peers, session>>
      PROVE  TableInv(peers', session')
  BY <1>9
<1>10. QED
  <2>1. CASE \E a \in pings, ok \in BOOLEAN : pingEnds(a, ok)
    BY <2>1, <1>9 DEF pingEnds
  <2>2. CASE \E a \in Addrs : managedRPC(a) \/ permanentPeerManager(a) \/ purgerPicks(a)
    BY <2>2, <1>9 DEF managedRPC, permanentPeerManager, purgerPicks, table
  <2>3. CASE \E d \in Users, a \in Addrs : Connect(d, a)
    BY <2>3, <1>9 DEF Connect, table
  <2>4. CASE \E d \in Dialers : managerConnect(d) \/ connectFails(d)
    BY <2>4, <1>9 DEF managerConnect, connectFails, table
  <2>5. CASE buildPeerManagerNodeList \/ \E d \in Managers : spawnConnect(d)
    BY <2>5, <1>9 DEF buildPeerManagerNodeList, spawnConnect, table
  <2>6. CASE \E ok \in BOOLEAN : purgerEnds(ok)
    BY <2>6, <1>9 DEF purgerEnds
  <2>7. CASE UNCHANGED vars
    BY <2>7, <1>9 DEF vars, table
  <2>8. QED
    BY <2>1, <2>2, <2>3, <2>4, <2>5, <2>6, <2>7,
       <1>1, <1>2, <1>3, <1>4, <1>5, <1>6, <1>7, <1>8 DEF Next

\* The table and the sessions agree at all times, whatever the nodes, the
\* sessions and the threads: the invariant behind EveryPeerIsListened.
THEOREM PeersInvHolds == Spec => []PeersInv
<1>1. PeersInv /\ [Next]_vars => PeersInv'
  BY NextKeepsAddrs, NextKeepsTable DEF PeersInv
<1>2. QED
  BY InitPeersInv, <1>1, PTL DEF Spec

\* Every entry of g.peers has a session with its address, whose listener
\* (threadedListenPeer) is there to remove it.
THEOREM EveryPeerIsListened == Spec => []PeersAreListened
<1>1. PeersInv => PeersAreListened
  BY DEF PeersInv, TableInv, PeersAreListened
<1>2. QED
  BY PeersInvHolds, <1>1, PTL

=============================================================================
