--------------------------- MODULE MCConsensusSet ---------------------------
(***************************************************************************)
(* A block tree in which every interesting case of a reorganisation occurs.*)
(*                                                                         *)
(*   g --- a1 --- a2 --- a3 --- a4   a1 and b2 carry the same transaction; *)
(*     |      \-- x2 --- x3          a4 spends the payout of a1;           *)
(*     |-- b1 --- b2                 b1 spends an output it creates;       *)
(*     \-- c1 --- c2                 x2 double spends, which shows only    *)
(*                                   when it is applied on top of a1;      *)
(*                                   c2 is shorter than a4 but heavier.    *)
(*                                                                         *)
(* Depths: a1 b1 c1 = 5, a2 x2 = 10, b2 = 11, a3 = 15, a4 = 20, c2 = 25,   *)
(* x3 = 30.  With a2 as the current block b2 is heavier, but not by 20     *)
(* percent of the difficulty; with a1 as the current block it is.  A payout*)
(* matures after two blocks, so there are heights without a bucket of      *)
(* delayed outputs.  b1 is a block of the near future.                     *)
(***************************************************************************)
EXTENDS ConsensusSet, TLC

CONSTANTS g, a1, a2, a3, a4, b1, b2, c1, c2, x2, x3

MCBlocks == {g, a1, a2, a3, a4, b1, b2, c1, c2, x2, x3}
MCParent == (a1 :> g @@ a2 :> a1 @@ a3 :> a2 @@ a4 :> a3 @@ b1 :> g @@ b2 :> b1 @@
             c1 :> g @@ c2 :> c1 @@ x2 :> a1 @@ x3 :> x2)
MCDifficulty == [b \in MCBlocks |-> CASE b = b1 -> 6 [] b \in {c1, x2} -> 20 [] OTHER -> 5]
MCTimestamp == [b \in MCBlocks |-> IF b = b1 THEN 2 ELSE 0]

MCTransactions == {"genesis", "pay", "mid", "end", "late", "double", "stake"}
MCOutputs == {"coin0", "coin1", "stake0", "stake1", "pay_out", "mid_out", "end_out",
              "late_out", "double_out", "p_a1", "p_a2", "p_a3", "p_a4", "p_b1", "p_b2",
              "p_c1", "p_c2", "p_x2", "p_x3"}

MCTxns == [b \in MCBlocks |->
    CASE b = g  -> <<"genesis">>
      [] b = a1 -> <<"pay">>
      [] b = a2 -> <<"stake">>
      [] b = a4 -> <<"late">>
      [] b = b1 -> <<"mid", "end">>
      [] b = b2 -> <<"pay", "stake">>
      [] b = c2 -> <<"stake">>
      [] b = x2 -> <<"stake", "double">>
      [] OTHER  -> <<>>]

MCMinerPayouts == (g :> {} @@ a1 :> {"p_a1"} @@ a2 :> {"p_a2"} @@ a3 :> {"p_a3"} @@
    a4 :> {"p_a4"} @@ b1 :> {"p_b1"} @@ b2 :> {"p_b2"} @@ c1 :> {"p_c1"} @@
    c2 :> {"p_c2"} @@ x2 :> {"p_x2"} @@ x3 :> {"p_x3"})

MCCoinInputs == [t \in MCTransactions |->
    CASE t = "pay" -> {"coin0"} [] t = "mid" -> {"coin1"} [] t = "end" -> {"mid_out"}
      [] t = "late" -> {"p_a1"} [] t = "double" -> {"coin0"} [] OTHER -> {}]
MCCoinOutputs == [t \in MCTransactions |->
    CASE t = "genesis" -> {"coin0", "coin1"} [] t = "pay" -> {"pay_out"}
      [] t = "mid" -> {"mid_out"} [] t = "end" -> {"end_out"}
      [] t = "late" -> {"late_out"} [] t = "double" -> {"double_out"} [] OTHER -> {}]
MCBlockStakeInputs == [t \in MCTransactions |-> IF t = "stake" THEN {"stake0"} ELSE {}]
MCBlockStakeOutputs == [t \in MCTransactions |->
    CASE t = "genesis" -> {"stake0"} [] t = "stake" -> {"stake1"} [] OTHER -> {}]

\* Every payment leaves a fee of one coin; a block creates ten coins.
MCMinerFee == [t \in MCTransactions |-> IF t \in {"genesis", "stake"} THEN 0 ELSE 1]
MCValue == [o \in MCOutputs |->
    CASE o \in {"coin0", "coin1"} -> 20 [] o \in {"stake0", "stake1"} -> 7
      [] o \in {"pay_out", "mid_out", "double_out"} -> 19 [] o = "end_out" -> 18
      [] o = "p_b1" -> 12 [] o \in {"p_a1", "p_a4", "p_b2", "p_x2"} -> 11 [] OTHER -> 10]
MCFulfilled == MCTransactions \ {"genesis"}

=============================================================================
