-------------------------- MODULE MCConcurrentDict --------------------------
(* Small instances of the sharded dict for TLC.                            *)
EXTENDS ConcurrentDict, TLC

CONSTANTS k1, k2, v1, p1, p2

OneShard  == (k1 :> 1) @@ (k2 :> 1)
TwoShards == (k1 :> 1) @@ (k2 :> 2)
=============================================================================
