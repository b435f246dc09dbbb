----------------------- MODULE MCConcurrentDictHistory -----------------------
(* The instances of MCConcurrentDict with the history of scans and Clears. *)
EXTENDS MCConcurrentDict, ConcurrentDictHistory
=============================================================================
