--------------------------- MODULE InitialDownload ---------------------------
(***************************************************************************)
(* threadedInitialBlockchainDownload, modules/consensus/synchronize.go: a  *)
(* node that starts asks its outbound peers for blocks, one after the      *)
(* other and round after round, until it takes itself for synchronised.    *)
(* A SendBlocks session, of which module Synchronize has the steps, is one *)
(* step here; it may fail in every way the gateway and the deadline of the *)
(* session allow.  Of the chains only the height matters.                  *)
(***************************************************************************)
EXTENDS Integers, FiniteSets, FiniteSetsExt

CONSTANTS
    Peers,        \* addresses of the outbound peers there may be
    Steady,       \* peers that stay connected and answer every call
    MinOutbound,  \* minNumOutbound
    MaxWait,      \* maxIBDWaitTime, in ticks
    MaxHeight     \* bound: the chains of the peers

ASSUME DownloadAssumption ==
    /\ IsFiniteSet(Peers)
    /\ Steady \subseteq Peers
    /\ MinOutbound \in Nat \ {0}
    /\ MaxWait \in Nat \ {0}
    /\ MaxHeight \in Nat

VARIABLES
    peers,      \* gateway.Peers() that are not inbound
    chain,      \* the height of every peer
    pc,         \* "start" of a round, "round", "done", "synced" or "stopped"
    todo,       \* peers this round has yet to call
    synced,     \* numOutboundSynced
    notSynced,  \* numOutboundNotSynced
    own,        \* blockHeight(tx)
    height,     \* the variable height: own, when a call last returned nil
    since,      \* time.Since(lastReceiveTime), up to MaxWait
    answered    \* peers whose call in this round returned nil

loop == <<pc, todo, synced, notSynced, own, height, since, answered>>
vars == <<peers, chain, loop>>

Init ==
    /\ peers \in {S \in SUBSET Peers : Steady \subseteq S}
    /\ chain \in [Peers -> 0..MaxHeight]
    /\ pc = "start"
    /\ todo = {}
    /\ synced = 0 /\ notSynced = 0
    /\ own = 0 /\ height = 0
    /\ since = 0
    /\ answered = {}

----------------------------------------------------------------------------

\* Mutant: the counters go on from the last round.
StartRoundOn ==
    /\ pc = "start"
    /\ pc' = "round"
    /\ todo' = peers
    /\ answered' = {}
    /\ UNCHANGED <<peers, chain, synced, notSynced, own, height, since>>

StartRound ==
    /\ pc = "start"
    /\ pc' = "round"
    /\ todo' = peers
    /\ synced' = 0
    /\ notSynced' = 0
    /\ answered' = {}
    /\ UNCHANGED <<peers, chain, own, height, since>>

\* The call returns nil: the node has all that p has.
CallReturnsNil(p) ==
    /\ pc = "round" /\ p \in todo
    /\ p \in peers
    /\ todo' = todo \ {p}
    /\ own' = Max({own, chain[p]})
    /\ synced' = synced + 1
    /\ answered' = answered \cup {p}
    /\ height' = Max({height, own'})
    /\ since' = IF own' > height THEN 0 ELSE since
    /\ UNCHANGED <<peers, chain, pc, notSynced>>

\* The errors of managedReceiveBlocks: a deadline that passed after some block
\* arrived, the same before any did (errSendBlocksStalled), and all others.
Errors == {"timeout", "errSendBlocksStalled", "error"}

isTimeoutErr(err) == err = "timeout"

\* The call fails; blocks may have arrived before it did.
CallFails(p, err) ==
    /\ pc = "round" /\ p \in todo
    /\ p \in peers => p \notin Steady
    /\ p \notin peers => err = "error"
    /\ todo' = todo \ {p}
    /\ notSynced' = notSynced + 1
    /\ \E h \in own..Max({own, chain[p]}) :
         /\ err = "errSendBlocksStalled" \/ p \notin peers => h = own
         /\ own' = h
    /\ peers' = IF isTimeoutErr(err) THEN peers \ {p} ELSE peers
    /\ UNCHANGED <<chain, pc, synced, height, since, answered>>

MajoritySynced == synced > notSynced /\ synced >= MinOutbound

\* Mutant: there is no way out for a node with few peers.
WaitedLongEnoughNever == FALSE

WaitedLongEnough == synced >= 1 /\ since >= MaxWait

\* The end of a round.
EndRound ==
    /\ pc = "round" /\ todo = {}
    /\ pc' = IF MajoritySynced \/ WaitedLongEnough THEN "done" ELSE "start"
    /\ UNCHANGED <<peers, chain, todo, synced, notSynced, own, height, since, answered>>

\* The rest of Start: the RPCs are registered and the node is marked as synced.
Start ==
    /\ pc = "done"
    /\ pc' = "synced"
    /\ UNCHANGED <<peers, chain, todo, synced, notSynced, own, height, since, answered>>

\* tg.Add fails before the next call, or after the download: the node closes.
Stop ==
    /\ \/ pc = "round" /\ todo # {}
       \/ pc = "done"
    /\ pc' = "stopped"
    /\ UNCHANGED <<peers, chain, todo, synced, notSynced, own, height, since, answered>>

Tick ==
    /\ pc \in {"start", "round"}
    /\ since < MaxWait
    /\ since' = since + 1
    /\ UNCHANGED <<peers, chain, pc, todo, synced, notSynced, own, height, answered>>

\* What happens to the peers: the gateway loses one or finds one, and their
\* chains grow.
PeerLeaves(p) ==
    /\ p \in peers \ Steady
    /\ peers' = peers \ {p}
    /\ UNCHANGED <<chain, loop>>

PeerJoins(p) ==
    /\ p \in Peers \ peers
    /\ peers' = peers \cup {p}
    /\ UNCHANGED <<chain, loop>>

ChainGrows(p) ==
    /\ chain[p] < MaxHeight
    /\ chain' = [chain EXCEPT ![p] = @ + 1]
    /\ UNCHANGED <<peers, loop>>

Next ==
    \/ StartRound
    \/ \E p \in Peers : CallReturnsNil(p)
    \/ \E p \in Peers, err \in Errors : CallFails(p, err)
    \/ EndRound
    \/ Start
    \/ Stop
    \/ Tick
    \/ \E p \in Peers : PeerLeaves(p)
    \/ \E p \in Peers : PeerJoins(p)
    \/ \E p \in Peers : ChainGrows(p)

Spec == Init /\ [][Next]_vars

\* The loop goes on, every call returns (it has a deadline), and time passes.
FairSpec ==
    /\ Spec
    /\ WF_vars(StartRound)
    /\ WF_vars(\E p \in Peers : CallReturnsNil(p) \/ \E err \in Errors : CallFails(p, err))
    /\ WF_vars(EndRound)
    /\ WF_vars(Start)
    /\ WF_vars(Tick)

----------------------------------------------------------------------------
(* Properties. *)

\* A node takes itself for synced only on answers of the round that has just
\* ended: threadedInitialBlockchainDownload never counts one from an earlier
\* round, or from a peer that failed it, and every peer is counted once.
SyncedOnFreshAnswers ==
    pc \in {"done", "synced"} =>
      /\ answered # {}
      /\ synced = Cardinality(answered)
      /\ height = own \/ notSynced > 0

\* "to prevent malicious peers from being able to barricade the sync'd status":
\* as long as one peer answers, the download ends, whatever the others do.
DownloadEnds == <>(pc \in {"synced", "stopped"})

=============================================================================
