---------------------------- MODULE MCSynchronize ----------------------------
(***************************************************************************)
(* Three nodes in a line: what the outer two learn of each other goes      *)
(* through the middle one.  d2 is heavier than a2, so that a session may   *)
(* be overtaken by a change of branch at equal or lower height.            *)
(*                                                                         *)
(*   g --- a1 --- a2                                                       *)
(*     \-- d1 --- d2                                                       *)
(***************************************************************************)
EXTENDS Synchronize, TLC

CONSTANTS g, a1, a2, d1, d2, n1, n2, n3, t0, c1

MCParent == (a1 :> g @@ a2 :> a1 @@ d1 :> g @@ d2 :> d1)
MCDifficulty == [b \in Blocks |-> IF b = d1 THEN 40 ELSE 10]
MCZero == [b \in Blocks |-> 0]
MCTxns == [b \in Blocks |-> IF b = g THEN <<t0>> ELSE <<>>]
MCNoPayouts == [b \in Blocks |-> {}]
MCNone == (t0 :> {})
MCFee == (t0 :> 0)
MCNoValue == <<>>
MCLine == (n1 :> {n2} @@ n2 :> {n1, n3} @@ n3 :> {n2})
MCSymmetry == Permutations({n1, n3})

=============================================================================
