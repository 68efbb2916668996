----------------------------- MODULE Synchronize -----------------------------
(***************************************************************************)
(* How the nodes of a network come to know each other's blocks:            *)
(* modules/consensus/synchronize.go.  A node that accepts a block tells    *)
(* its peers the header (RelayHeader); a peer that knows the parent asks   *)
(* for the block (SendBlk), one that does not asks for everything it lacks *)
(* (SendBlocks).  A SendBlocks call is a session of many steps: the        *)
(* responder looks up every batch under a lock of its own, it does not     *)
(* wait for the caller, and both go on accepting other blocks meanwhile.   *)
(*                                                                         *)
(* Nodes have completed their initial download (synced is true), and a     *)
(* block is one that some node created: it is valid where it stands.       *)
(* Module ConsensusSet is about the other blocks.                          *)
(***************************************************************************)
EXTENDS BlockTree, BlockHistory, SequencesExt

CONSTANTS
    Nodes,
    Peers,             \* gateway.Peers(): a set of nodes per node
    MaxCatchUpBlocks,  \* blocks in a batch
    Calls,             \* bound: SendBlocks sessions at any time
    WireBatches,       \* bound: batches of a session sent and not yet read
    MaxDisturbances    \* bound: sessions started by a new connection, and failures

ASSUME SynchronizeAssumption ==
    /\ Peers \in [Nodes -> SUBSET Nodes]
    /\ \A n \in Nodes : n \notin Peers[n] /\ \A p \in Peers[n] : n \in Peers[p]
    /\ MaxCatchUpBlocks \in Nat \ {0}
    /\ WireBatches \in Nat \ {0}

VARIABLES
    known,     \* the block map of every node
    tip,       \* the current block of every node
    headers,   \* RelayHeader calls under way: <<from, to, block>>
    fetches,   \* SendBlk calls under way: <<caller, responder, block>>
    session,   \* the SendBlocks sessions
    connects, failures

vars == <<known, tip, headers, fetches, session, connects, failures>>

Undisturbed == connects + failures < MaxDisturbances

\* No session.
Idle == [phase |-> "idle"]

\* A batch as it is on the wire.
Batch(blocks, more) == [blocks |-> blocks, more |-> more]

Height(b) == Len(PathTo[b]) - 1
OnPathOf(b, n) == Height(b) <= Height(tip[n]) /\ PathTo[tip[n]][Height(b) + 1] = b

----------------------------------------------------------------------------
(* Accepting a block, and telling the peers. *)

\* Mutant: the parent is not looked up.
AcceptErrorNoOrphan(n, b) ==
    CASE b \in known[n] -> "known"
      [] OTHER          -> IF Surpasses(b, tip[n]) THEN "nil" ELSE "nonextending"

\* The outcome of managedAcceptBlock(b) at n.
AcceptError(n, b) ==
    CASE b \in known[n]            -> "known"
      [] Parent[b] \notin known[n] -> "orphan"
      [] OTHER                     -> IF Surpasses(b, tip[n]) THEN "nil" ELSE "nonextending"

\* The effect of managedAcceptBlock(b) at n.
managedAcceptBlock(n, b) ==
    LET err == AcceptError(n, b)
    IN  /\ known' = IF err \in {"nil", "nonextending"}
                    THEN [known EXCEPT ![n] = @ \cup {b}] ELSE known
        /\ tip' = IF err = "nil" THEN [tip EXCEPT ![n] = b] ELSE tip

\* managedBroadcastBlock: the header goes to every peer, in any order.
RelayHeaders(n, b) == {<<n, p, b>> : p \in Peers[n]}

Init ==
    /\ known = [n \in Nodes |-> {Genesis}]
    /\ tip = [n \in Nodes |-> Genesis]
    /\ headers = {}
    /\ fetches = {}
    /\ session = [c \in Calls |-> Idle]
    /\ connects = 0
    /\ failures = 0

\* A node creates a block on top of its current one and submits it.
AcceptBlock(n, b) ==
    /\ b # Genesis
    /\ Parent[b] = tip[n]
    /\ \A m \in Nodes : b \notin known[m]
    /\ b \in ValidBranches
    /\ managedAcceptBlock(n, b)
    /\ headers' = headers \cup RelayHeaders(n, b)
    /\ UNCHANGED <<fetches, session, connects, failures>>

----------------------------------------------------------------------------
(* RelayHeader and SendBlk. *)

\* n calls SendBlocks on p.
Calling(n, p) == [phase |-> "calling", caller |-> n, responder |-> p]

Open(c, n, p) == session[c] = Idle /\ session' = [session EXCEPT ![c] = Calling(n, p)]

\* threadedRPCRelayHeader at n, for a header that p sent.
threadedRPCRelayHeader(p, n, b) ==
    /\ <<p, n, b>> \in headers
    /\ headers' = headers \ {<<p, n, b>>}
    /\ \/ /\ b \in known[n]
          /\ UNCHANGED <<fetches, session>>
       \/ /\ b \notin known[n]
          /\ Parent[b] \notin known[n]
          /\ \E c \in Calls : Open(c, n, p)
          /\ UNCHANGED fetches
       \/ /\ b \notin known[n]
          /\ Parent[b] \in known[n]
          /\ fetches' = fetches \cup {<<n, p, b>>}
          /\ UNCHANGED session
    /\ UNCHANGED <<known, tip, connects, failures>>

\* rpcSendBlk and managedReceiveBlock: the block arrives, and its header is
\* relayed if it extends the chain.
managedReceiveBlock(n, p, b) ==
    /\ <<n, p, b>> \in fetches
    /\ b \in known[p]
    /\ fetches' = fetches \ {<<n, p, b>>}
    /\ managedAcceptBlock(n, b)
    /\ headers' = IF AcceptError(n, b) = "nil" THEN headers \cup RelayHeaders(n, b) ELSE headers
    /\ UNCHANGED <<session, connects, failures>>

\* The connect call: n has just connected to p.
threadedReceiveBlocks(n, p) ==
    /\ p \in Peers[n]
    /\ Undisturbed
    /\ connects' = connects + 1
    /\ \E c \in Calls : Open(c, n, p)
    /\ UNCHANGED <<known, tip, headers, fetches, failures>>

----------------------------------------------------------------------------
(* A SendBlocks session. *)

Blocks32(n) == {PathTo[tip[n]][h + 1] : h \in blockHistory(Height(tip[n]))}

\* managedReceiveBlocks, up to the loop: the caller sends its history.
SendHistory(c) ==
    /\ session[c].phase = "calling"
    /\ session' = [session EXCEPT ![c] =
         [phase |-> "asked", caller |-> @.caller, responder |-> @.responder,
          history |-> Blocks32(@.caller)]]
    /\ UNCHANGED <<known, tip, headers, fetches, connects, failures>>

\* The session once the responder serves it: the height it will go on from;
\* its current block when it last looked, and whether it has changed branch
\* since it started; what is on the wire; and what the caller has read: the
\* blocks of a batch, whether more are available, whether one has extended
\* its chain.
Serving(s, phase, start, wire) ==
    [phase |-> phase, caller |-> s.caller, responder |-> s.responder,
     start |-> start, served |-> tip[s.responder], moved |-> FALSE, wire |-> wire,
     read |-> <<>>, more |-> TRUE, extended |-> FALSE]

\* Mutant: serving starts after the child of the common block.
FindStartLate(c) ==
    LET s == session[c]
    IN  /\ s.phase = "asked"
        /\ LET common == {b \in s.history \cap known[s.responder] : OnPathOf(b, s.responder)}
               best == Max({-1} \cup {Height(b) : b \in common})
           IN  session' = [session EXCEPT ![c] =
                 IF best \in {-1, Height(tip[s.responder])}
                 THEN Serving(s, "served", 0, <<Batch(<<>>, FALSE)>>)
                 ELSE Serving(s, "serving", best + 2, <<>>)]
        /\ UNCHANGED <<known, tip, headers, fetches, connects, failures>>

\* rpcSendBlocks, the first lookup: the most recent block of the history that
\* is on the current path.
FindStart(c) ==
    LET s == session[c]
    IN  /\ s.phase = "asked"
        /\ LET common == {b \in s.history \cap known[s.responder] : OnPathOf(b, s.responder)}
               best == Max({-1} \cup {Height(b) : b \in common})
           IN  session' = [session EXCEPT ![c] =
                 IF best \in {-1, Height(tip[s.responder])}
                 THEN Serving(s, "served", 0, <<Batch(<<>>, FALSE)>>)
                 ELSE Serving(s, "serving", best + 1, <<>>)]
        /\ UNCHANGED <<known, tip, headers, fetches, connects, failures>>

\* Whether more blocks are available after the batch from start.
MoreAvailable(start, height) == start + MaxCatchUpBlocks <= height

\* rpcSendBlocks, one iteration: the next batch, by height, of the path as it
\* is now.
SendBatch(c) ==
    LET s == session[c]
        now == tip[s.responder]
        blocks == SubSeq(PathTo[now], s.start + 1,
                         Min({Height(now) + 1, s.start + MaxCatchUpBlocks}))
        more == MoreAvailable(s.start, Height(now))
    IN  /\ s.phase = "serving"
        /\ Len(s.wire) < WireBatches
        /\ session' = [session EXCEPT
             ![c].phase = IF more THEN "serving" ELSE "served",
             ![c].start = @ + MaxCatchUpBlocks,
             ![c].served = now,
             ![c].moved = @ \/ ~OnPathOf(s.served, s.responder),
             ![c].wire = Append(@, Batch(blocks, more))]
        /\ UNCHANGED <<known, tip, headers, fetches, connects, failures>>

InReading(s) == s.phase \in {"serving", "served"}

\* managedReceiveBlocks: the caller reads a batch.
ReadBatch(c) ==
    LET s == session[c]
    IN  /\ InReading(s)
        /\ s.read = <<>> /\ s.more
        /\ s.wire # <<>>
        /\ session' = [session EXCEPT ![c].wire = Tail(@),
                                      ![c].read = Head(s.wire).blocks,
                                      ![c].more = Head(s.wire).more]
        /\ UNCHANGED <<known, tip, headers, fetches, connects, failures>>

\* Mutant: the deferred broadcast is missing.
BroadcastNothing(n, extended, current) == UNCHANGED headers

\* The deferred call of managedReceiveBlocks, however it returns: a node whose
\* chain was extended relays the header of its current block.
BroadcastCurrent(n, extended, current) ==
    headers' = IF extended THEN headers \cup RelayHeaders(n, current) ELSE headers

\* The caller accepts a block.  An error other than "known" and
\* "nonextending" ends the session.
IntegrateBlock(c) ==
    LET s == session[c]
        b == Head(s.read)
        err == AcceptError(s.caller, b)
        extended == s.extended \/ err = "nil"
    IN  /\ InReading(s)
        /\ s.read # <<>>
        /\ managedAcceptBlock(s.caller, b)
        /\ \/ /\ err # "orphan"
              /\ session' = [session EXCEPT ![c].read = Tail(@), ![c].extended = extended]
              /\ UNCHANGED headers
           \/ /\ err = "orphan"
              /\ session' = [session EXCEPT ![c] = Idle]
              /\ BroadcastCurrent(s.caller, s.extended, tip[s.caller])
        /\ UNCHANGED <<fetches, connects, failures>>

\* The session's last batch is integrated: managedReceiveBlocks is about to
\* return nil.
Complete(s) == InReading(s) /\ s.read = <<>> /\ ~s.more

ReturnNil(c) ==
    LET s == session[c]
    IN  /\ Complete(s)
        /\ session' = [session EXCEPT ![c] = Idle]
        /\ BroadcastCurrent(s.caller, s.extended, tip[s.caller])
        /\ UNCHANGED <<known, tip, fetches, connects, failures>>

\* The connection of a session breaks or its deadline passes.
SessionFails(c) ==
    LET s == session[c]
    IN  /\ s # Idle
        /\ Undisturbed
        /\ failures' = failures + 1
        /\ session' = [session EXCEPT ![c] = Idle]
        /\ IF InReading(s) THEN BroadcastCurrent(s.caller, s.extended, tip[s.caller])
                           ELSE UNCHANGED headers
        /\ UNCHANGED <<known, tip, fetches, connects>>

\* A header or a block does not arrive.
CallFails ==
    /\ Undisturbed
    /\ failures' = failures + 1
    /\ \/ /\ \E h \in headers : headers' = headers \ {h}
          /\ UNCHANGED fetches
       \/ /\ \E f \in fetches : fetches' = fetches \ {f}
          /\ UNCHANGED headers
    /\ UNCHANGED <<known, tip, session, connects>>

----------------------------------------------------------------------------

Next ==
    \/ \E n \in Nodes, b \in Blocks : AcceptBlock(n, b)
    \/ \E n, p \in Nodes : threadedReceiveBlocks(n, p)
    \/ \E n, p \in Nodes, b \in Blocks : threadedRPCRelayHeader(n, p, b)
    \/ \E n, p \in Nodes, b \in Blocks : managedReceiveBlock(n, p, b)
    \/ \E c \in Calls : SendHistory(c)
    \/ \E c \in Calls : FindStart(c)
    \/ \E c \in Calls : SendBatch(c)
    \/ \E c \in Calls : ReadBatch(c)
    \/ \E c \in Calls : IntegrateBlock(c)
    \/ \E c \in Calls : ReturnNil(c)
    \/ \E c \in Calls : SessionFails(c)
    \/ CallFails

Spec == Init /\ [][Next]_vars

----------------------------------------------------------------------------
(* Properties. *)

\* What the block maps hold is a tree that contains the current path, nothing
\* in it is heavy enough to replace the current block, and whoever announces a
\* block or is asked for it knows it: rpcSendBlk finds what managedReceiveBlock
\* asks for, whatever was accepted in the meantime.
NetworkIsConsistent ==
    /\ \A n \in Nodes :
         /\ tip[n] \in known[n]
         /\ \A b \in known[n] \ {Genesis} : Parent[b] \in known[n]
         /\ \A b \in known[n] : ~Surpasses(b, tip[n])
    /\ \A h \in headers : h[3] \in known[h[1]]
    /\ \A f \in fetches : f[3] \in known[f[2]] /\ Parent[f[3]] \in known[f[1]]

\* While the responder stays on its branch, rpcSendBlocks sends what
\* managedReceiveBlocks can use: no block is an orphan, and a session that
\* ends without an error leaves the caller knowing the responder's current
\* block, even when one path grows and the other is replaced meanwhile.
SessionServesBranch ==
    \A c \in Calls :
      LET s == session[c]
      IN  InReading(s) /\ ~s.moved =>
            /\ s.read # <<>> => Parent[Head(s.read)] \in known[s.caller]
            /\ Complete(s) => s.served \in known[s.caller]

Quiet == headers = {} /\ fetches = {} /\ \A c \in Calls : session[c] = Idle

\* When nothing is under way no node has a current block that would replace a
\* peer's: the relay of headers, SendBlk, SendBlocks and the deferred broadcast
\* between them leave no peer behind, in whatever order they overtake each
\* other, unless a connection broke.
NobodyLeftBehind ==
    Quiet /\ failures = 0 =>
      \A n \in Nodes : \A p \in Peers[n] : ~Surpasses(tip[n], tip[p])

=============================================================================
