---------------------------- MODULE BlockHistory ----------------------------
(***************************************************************************)
(* blockHistory, modules/consensus/synchronize.go: the blocks a node names *)
(* to a peer so that the two can find the block where their paths part.    *)
(* The function is over heights; its loop runs down from the current block *)
(* one by one at first and then in steps that double, and the genesis      *)
(* block is always last.                                                   *)
(***************************************************************************)
EXTENDS Integers, FiniteSets, FiniteSetsExt

CONSTANTS
    HistorySize,  \* 32 in the code
    DenseBlocks   \* 10 in the code

ASSUME HistoryAssumption ==
    /\ HistorySize \in Nat \ {0, 1}
    /\ DenseBlocks \in Nat \ {0}

\* Mutant: the steps triple.
HistoryLoopTriple(h) ==
    LET at[i \in 0..(HistorySize - 2)] ==
          IF i = 0 THEN [height |-> h, step |-> 1, stop |-> FALSE]
          ELSE LET last == at[i - 1]
                   step == IF i >= DenseBlocks THEN 3 * last.step ELSE last.step
               IN  IF last.stop \/ last.height <= step
                   THEN [last EXCEPT !.stop = TRUE]
                   ELSE [height |-> last.height - step, step |-> step, stop |-> FALSE]
    IN  at

\* The loop: the height at the i-th iteration.  Once it has broken off, the
\* remaining entries repeat the last one.
HistoryLoop(h) ==
    LET at[i \in 0..(HistorySize - 2)] ==
          IF i = 0 THEN [height |-> h, step |-> 1, stop |-> FALSE]
          ELSE LET last == at[i - 1]
                   step == IF i >= DenseBlocks THEN 2 * last.step ELSE last.step
               IN  IF last.stop \/ last.height <= step
                   THEN [last EXCEPT !.stop = TRUE]
                   ELSE [height |-> last.height - step, step |-> step, stop |-> FALSE]
    IN  at

\* The heights of the blocks of the history of a path of height h.
blockHistory(h) == {HistoryLoop(h)[i].height : i \in 0..(HistorySize - 2)} \cup {0}

=============================================================================
