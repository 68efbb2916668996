--------------------------- MODULE MCGatewayPeers ---------------------------
(* Three other nodes, two of them on one host, one of those local. *)
EXTENDS GatewayPeers, TLC

CONSTANTS n1, n2, n3, h1, h2

MCHost == (n1 :> h1) @@ (n2 :> h2) @@ (n3 :> h2)

MCSymmetry == Permutations(InSessions) \cup Permutations(OutSessions)

=============================================================================
