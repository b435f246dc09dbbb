-------------------------------- MODULE MCAof --------------------------------
(* A small instance of the append-only file for TLC.                       *)
EXTENDS Aof, TLC

CONSTANTS c1, c2
=============================================================================
