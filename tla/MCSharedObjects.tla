---------------------------- MODULE MCSharedObjects ----------------------------
(* Small instances of the list and set commands for TLC.                   *)
EXTENDS SharedObjects, TLC

CONSTANTS c1, c2, k1, k2, e1, e2

Symmetric == Permutations({c1, c2}) \cup Permutations({k1, k2}) \cup Permutations({e1, e2})
=============================================================================
