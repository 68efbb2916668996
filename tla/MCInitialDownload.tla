-------------------------- MODULE MCInitialDownload --------------------------
(***************************************************************************)
(* The initial download with three peers.  What a node asks its peers for  *)
(* is decided by blockHistory, which is checked here for every height up   *)
(* to a bound, with the constants of the code.                             *)
(***************************************************************************)
EXTENDS InitialDownload, BlockHistory

CONSTANT BatchSize  \* the blocks that one unit of height stands for

\* What is said of the history of a path of height h.
ReachesBack(h) ==
    LET history == blockHistory(h)
    IN  /\ history \subseteq 0..h
        /\ {0} \cup (Max({0, h + 1 - DenseBlocks})..h) \subseteq history
        /\ \A fork \in 0..h :
             LET found == Max({b \in history : b <= fork})
             IN  h - found <= 2 * (h - fork)
HeightsThatReachBack == {h \in 0..((MaxHeight + 1) * BatchSize) : ReachesBack(h)}

\* However far the download got, the history the node names to the next peer has
\* "the genesis block [...] always included" and the most recent blocks without
\* a gap, neither underflows nor leaves the path, and "always a common parent
\* within a factor of 2 is found": wherever the paths of the two nodes part,
\* the most recent block of the history below is at most twice as far back.
HistoryReachesBack == (own * BatchSize)..((own + 1) * BatchSize) \subseteq HeightsThatReachBack

=============================================================================
