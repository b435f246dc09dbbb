------------------------------ MODULE MCCommands ------------------------------
(* Small instances of the commands for TLC.  APPEND "x" makes a text of a  *)
(* missing key or an integer, and another text of a text.                  *)
EXTENDS Commands, TLC

CONSTANTS c1, c2, k1, k2, ta, tb

Indices == {-1, 0, 1, 2}
Down    == {-1}
AppendX == [v \in Int64 \cup {Nil} |-> ta] @@ (ta :> tb) @@ (tb :> ta)
TwoOrTwo == {(0 :> {k1, k2}) @@ (1 :> {}), (0 :> {k1}) @@ (1 :> {k1}), (0 :> {k2}) @@ (1 :> {k2})}
Symmetric == Permutations({c1, c2}) \cup Permutations({k1, k2})
=============================================================================
