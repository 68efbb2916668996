--------------------------- MODULE MCBlockCreator ---------------------------
(***************************************************************************)
(* Room for two blocks of this node, x1 and x2, and for three of others:   *)
(* z beside x1, y on top of x2 and v beside x2, each heavy enough to take  *)
(* over.  The wallet has one stake and two outputs, one locked until       *)
(* height 2; a co-signer may spend the multisig output.                    *)
(***************************************************************************)
EXTENDS BlockCreator

MCBlocks == {"g", "x1", "x2", "y", "z", "v"}
MCParent == [x1 |-> "g", x2 |-> "x1", y |-> "x2", z |-> "g", v |-> "x1"]
MCWeight == [g |-> 1, x1 |-> 1, x2 |-> 1, y |-> 2, z |-> 3, v |-> 4]
MCGenesisTxn ==
    [ci |-> {}, co |-> << <<3, "own", 0>>, <<2, "own", 2>>, <<3, "joint", 0>> >>,
     bi |-> {}, bo |-> << <<1, "own", 0>> >>, fee |-> 0]
MCOffers ==
    {[ci |-> {<<"coin", MCGenesisTxn, 3>>}, co |-> << <<1, "joint", 0>>, <<2, "other", 0>> >>,
      bi |-> {}, bo |-> <<>>, fee |-> 0]}
MCOrders == {<<"pool", "wallet", "creator">>, <<"pool", "creator", "wallet">>}
SendCoins == [co |-> << <<1, "joint", 0>> >>, bo |-> <<>>, drop |-> FALSE]
SendBlockStakes == [co |-> <<>>, bo |-> << <<1, "other", 0>> >>, drop |-> FALSE]
JustFund == [co |-> << <<2, "other", 0>> >>, bo |-> <<>>, drop |-> TRUE]
MCRequests == [u1 |-> {SendCoins}, u2 |-> {SendCoins, SendBlockStakes, JustFund}]
MCClients == DOMAIN MCRequests
MCOwn == {"own"}
MCMultiSig == {"joint"}
MCOwnBlocks == {"x1", "x2"}

=============================================================================
