------------------------------- MODULE MCCluster -------------------------------
(* Two nodes and two keys for TLC: a key at each node, one of them past    *)
(* the end of the ring, and two nodes with one hash.                       *)
EXTENDS Cluster, TLC
CONSTANTS a1, a2, k1, k2
MCPeers == (a1 :> <<a2>>) @@ (a2 :> <<a1>>)
Placed(ha1, ha2, hk1, hk2) == (a1 :> ha1) @@ (a2 :> ha2) @@ (k1 :> hk1) @@ (k2 :> hk2)
MCHashes == {Placed(1, 2, 3, 2), Placed(1, 1, 0, 2)}
MCCmds == {[op |-> "set", key |-> k1, dest |-> k1], [op |-> "rename", key |-> k1, dest |-> k2],
           [op |-> "del", key |-> k1, dest |-> k1]}
=============================================================================
