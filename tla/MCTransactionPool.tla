-------------------------- MODULE MCTransactionPool --------------------------
(***************************************************************************)
(* t2 spends the output of t1; c1 spends what t1 spends; m spends nothing. *)
(* On one branch t1 and then t2 are confirmed, on the other c1 and m.  d1  *)
(* is a single block that is heavier than both branches: the height drops. *)
(*                                                                         *)
(*   g --- a1 [t1] --- a2 [t2 m]                                           *)
(*     \-- b1 [c1] --- b2 [m]                                              *)
(*     \-- d1 []  --- d2 [t1]                                              *)
(***************************************************************************)
EXTENDS TransactionPool, TLC

CONSTANTS g, a1, a2, b1, b2, d1, d2, t0, t1, t2, c1, m

MCBlocks == {g, a1, a2, b1, b2, d1, d2}
MCParent ==
    (a1 :> g @@ a2 :> a1 @@ b1 :> g @@ b2 :> b1 @@ d1 :> g @@ d2 :> d1)
MCDifficulty == [b \in MCBlocks |-> IF b = d1 THEN 40 ELSE 10]
MCTimestamp == [b \in MCBlocks |-> 0]
MCTxns ==
    (g :> <<t0>> @@ a1 :> <<t1>> @@ a2 :> <<t2, m>> @@ b1 :> <<c1>> @@ b2 :> <<m>>
       @@ d1 :> <<>> @@ d2 :> <<t1>>)
MCNoPayouts == [b \in MCBlocks |-> {}]

MCTransactions == {t0, t1, t2, c1, m}
MCOutputs == {"o", "p", "q", "r"}
MCCoinInputs == (t0 :> {} @@ t1 :> {"o"} @@ t2 :> {"p"} @@ c1 :> {"o"} @@ m :> {})
MCCoinOutputs == (t0 :> {"o"} @@ t1 :> {"p"} @@ t2 :> {"q"} @@ c1 :> {"r"} @@ m :> {})
MCNone == [t \in MCTransactions |-> {}]
MCFee == [t \in MCTransactions |-> 0]
MCValue == [o \in MCOutputs |-> 1]

MCSize == [t \in MCTransactions |-> IF t = m THEN 2 ELSE 1]
MCOffers == {<<t1>>, <<t1, t2>>, <<c1>>, <<m>>}

=============================================================================
