--------------------------- MODULE MCBullyElector ----------------------------
(* An instance of BullyElector for TLC: three relayers.                      *)
EXTENDS BullyElector

CONSTANTS a, b, c

ThreePeers == {a, b, c}
SessionRank == [p \in Peer |-> CASE p = a -> 0 [] p = b -> 1 [] OTHER -> 2]
(* Nobody is excluded, or the first peer, or the second.                     *)
SomeLists == {{a, b, c}, {b, c}, {a, c}}
=============================================================================
