-------------------------- MODULE MCChainFollowers --------------------------
(***************************************************************************)
(* A tree on which a node that syncs twice may take different ways to the  *)
(* same block: to b3 through a2 and b2, or directly, with reorganisations  *)
(* of one and of two blocks.                                               *)
(*                                                                         *)
(*   g --- a1 --- a2                                                       *)
(*     \-- b1 --- b2 --- b3                                                *)
(*                                                                         *)
(* a1 authorises the addresses A, B and C, takes it away from C again and  *)
(* hands minting to the multisig wallet W; a2 passes coins on twice within *)
(* the block and creates coins.  b1 authorises A and C and pays C twice;   *)
(* b2 hands authorisation to Q1, which takes it away from C; b3 hands      *)
(* minting to K1 and moves coins of C nevertheless.                        *)
(***************************************************************************)
EXTENDS ChainFollowers

CONSTANTS g, a1, a2, b1, b2, b3, tpool, explorer

MCBlocks == {g, a1, a2, b1, b2, b3}
MCParent == (a1 :> g @@ a2 :> a1 @@ b1 :> g @@ b2 :> b1 @@ b3 :> b2)
MCDifficulty == [b \in MCBlocks |-> 5]
MCTimestamp ==
    (g :> 0 @@ a1 :> 1 @@ a2 :> 2 @@ b1 :> 3 @@ b2 :> 4 @@ b3 :> 5)
MCTxns ==
    (g :> <<"genesis">> @@ a1 :> <<"authAll", "mintW", "dropC0">> @@ a2 :> <<"t1", "t2", "create">> @@
     b1 :> <<"authAC", "pay">> @@ b2 :> <<"toQ1", "dropC">> @@ b3 :> <<"mintK1", "t3">>)
MCMinerPayouts ==
    (g :> {} @@ a1 :> {"pa1"} @@ a2 :> {"pa2"} @@ b1 :> {"pb1"} @@ b2 :> {"pb2"} @@
     b3 :> {"pb3"})

MCTransactions ==
    {"genesis", "authAll", "mintW", "dropC0", "t1", "t2", "create", "authAC", "pay", "toQ1", "dropC",
     "mintK1", "t3"}
MCOutputs == {"o0", "o1", "o2", "o3", "o4", "o5", "pa1", "pa2", "pb1", "pb2", "pb3"}
MCNone == [t \in MCTransactions |-> {}]
MCCoinInputs == [MCNone EXCEPT !["t1"] = {"o0"}, !["t2"] = {"o1"}, !["pay"] = {"o0"}, !["t3"] = {"o3"}]
MCCoinOutputs ==
    [MCNone EXCEPT !["genesis"] = {"o0"}, !["t1"] = {"o1"}, !["t2"] = {"o2"},
                   !["pay"] = {"o3", "o4"}, !["t3"] = {"o5"}]
MCFee == [t \in MCTransactions |-> 0]
MCValue == [o \in MCOutputs |-> IF o \in {"o0", "o1", "o2"} THEN 2 ELSE 1]

MCAddresses == {"A", "B", "C", "M", "W", "K0", "K1", "Q0", "Q1"}
MCUnlockHash ==
    [o \in MCOutputs |-> CASE o \in {"o0", "o2", "o5"} -> "A"
                           [] o = "o1" -> "B"
                           [] o \in {"o3", "o4"} -> "C"
                           [] OTHER -> "M"]
MCMembers == [u \in MCAddresses |-> IF u = "W" THEN {"A", "B"} ELSE {}]
MCPlain == {"t1", "t2", "pay", "t3"}

MCMintDefinitions == ("mintW" :> "W" @@ "mintK1" :> "K1")
MCMintFulfills == ("mintW" :> {"K0"} @@ "mintK1" :> {"K0"} @@ "create" :> {"W"})
MCAuthUpdates ==
    ("authAll" :> [auth |-> <<"A", "B", "C">>, deauth |-> <<>>] @@
     "dropC0" :> [auth |-> <<>>, deauth |-> <<"C">>] @@
     "authAC" :> [auth |-> <<"A", "C">>, deauth |-> <<>>] @@
     "dropC" :> [auth |-> <<>>, deauth |-> <<"C">>])
MCAuthConditionUpdates == ("toQ1" :> "Q1")
MCAuthFulfills ==
    ("authAll" :> {"Q0"} @@ "dropC0" :> {"Q0"} @@ "authAC" :> {"Q0"} @@ "dropC" :> {"Q1"} @@
     "toQ1" :> {"Q0"})

=============================================================================
