---------------------------- MODULE HeaviestChain ----------------------------
(***************************************************************************)
(* What the consensus set promises its users: a tree of known blocks, the  *)
(* active path in it and a log of how the active path came about.  A move  *)
(* to another branch is one step, however many blocks it reverts, and it   *)
(* happens only for a branch that is valid and sufficiently heavier.       *)
(* Module ConsensusSet implements it; the modules about the users of the   *)
(* consensus set are built on it.                                          *)
(***************************************************************************)
EXTENDS BlockTree

VARIABLES
    known,  \* blocks in the tree
    path,   \* the active path, from the genesis block
    log     \* the change entries, from the genesis entry

chainVars == <<known, path, log>>

----------------------------------------------------------------------------

tip == path[Len(path)]

\* The number of blocks two branches have in common.
Fork(p, q) == Max({n \in 1..Len(p) : n <= Len(q) /\ SubSeq(p, 1, n) = SubSeq(q, 1, n)})

\* The entry for a move from p to q: blocks are reverted from the top.
Change(p, q) ==
    LET n == Fork(p, q)
    IN  Entry([i \in 1..(Len(p) - n) |-> p[Len(p) + 1 - i]], SubSeq(q, n + 1, Len(q)))

ChainInit ==
    /\ known = {Genesis}
    /\ path = <<Genesis>>
    /\ log = <<genesisEntry>>

\* A block that does not surpass the current one is remembered.
Store(b) ==
    /\ b \notin known
    /\ Parent[b] \in known
    /\ ~Surpasses(b, tip)
    /\ known' = known \cup {b}
    /\ UNCHANGED <<path, log>>

\* One that does, on a valid branch, becomes the current block.
MoveTo(b) ==
    /\ b \notin known
    /\ Parent[b] \in known
    /\ Surpasses(b, tip)
    /\ b \in ValidBranches
    /\ known' = known \cup {b}
    /\ path' = PathTo[b]
    /\ log' = Append(log, Change(path, PathTo[b]))

ChainNext == \E b \in Blocks \ {Genesis} : Store(b) \/ MoveTo(b)

Spec == ChainInit /\ [][ChainNext]_chainVars

----------------------------------------------------------------------------
(* Properties. *)

\* Replaying one entry on a path: the reverted blocks must be the top of the
\* path, in reverse, and the applied ones must connect.
Replays(p, e) ==
    LET n == Len(p) - Len(e.reverted)
    IN  /\ n >= 0
        /\ \A i \in 1..Len(e.reverted) : e.reverted[i] = p[Len(p) + 1 - i]
        /\ e.applied # <<>>
        /\ e.applied[1] = Genesis <=> n = 0
        /\ n > 0 => Parent[e.applied[1]] = p[n]

Replay(p, e) == SubSeq(p, 1, Len(p) - Len(e.reverted)) \o e.applied

\* The path after the first n entries of the log.
PathAfter(n) ==
    LET p[i \in 0..n] == IF i = 0 THEN <<>> ELSE Replay(p[i - 1], log[i])
    IN  p[n]

=============================================================================
