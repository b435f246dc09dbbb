-------------------------------- MODULE ListSpec --------------------------------
(***************************************************************************)
(* What the list commands promise a client that is alone with a key: each  *)
(* turns a sequence into another and a reply.  Positions count from 0 at   *)
(* the head or from -1 at the tail, and a missing key is the empty list.   *)
(* A reply is a sequence too: the elements, or one integer, or <<Nil>> for *)
(* "no such", or <<>> for OK and for no elements.                          *)
(***************************************************************************)
EXTENDS Integers, SequencesExt

CONSTANT Nil      \* no element

Result(s, r) == [items |-> s, reply |-> r]

(* The position an index means.                                            *)
Place(s, i) == IF i < 0 THEN Len(s) + i ELSE i
Has(s, i)   == Place(s, i) \in 0..(Len(s) - 1)
(* The i-th of the elements at a set of positions.                         *)
Keep(s, D)  ==
  [i \in 1..Cardinality(D) |-> s[CHOOSE p \in D : Cardinality({q \in D : q <= p}) = i]]

Pushed(s)    == Result(s, <<Len(s)>>)
LPush(s, v)  == Pushed(<<v>> \o s)
RPush(s, v)  == Pushed(s \o <<v>>)
LPushX(s, v) == IF s = <<>> THEN Result(s, <<0>>) ELSE LPush(s, v)
RPushX(s, v) == IF s = <<>> THEN Result(s, <<0>>) ELSE RPush(s, v)

LPop(s) == IF s = <<>> THEN Result(s, <<Nil>>) ELSE Result(Tail(s), <<Head(s)>>)
RPop(s) == IF s = <<>> THEN Result(s, <<Nil>>) ELSE Result(Front(s), <<Last(s)>>)
(* From the tail of a list to its own head.                                *)
RPopLPush(s) ==
  IF s = <<>> THEN Result(s, <<Nil>>) ELSE Result(<<Last(s)>> \o Front(s), <<Last(s)>>)

(* The first n elements equal to v from the head, the last -n of them, or  *)
(* all for 0.                                                              *)
Condemned(s, n, v) ==
  LET hits == {p \in DOMAIN s : s[p] = v} IN
  {p \in hits : \/ n = 0
                \/ n > 0 /\ Cardinality({q \in hits : q <= p}) <= n
                \/ n < 0 /\ Cardinality({q \in hits : q >= p}) <= -n}
LRem(s, n, v) ==
  Result(Keep(s, DOMAIN s \ Condemned(s, n, v)), <<Cardinality(Condemned(s, n, v))>>)

LSet(s, i, v) ==
  IF Has(s, i) THEN Result([s EXCEPT ![Place(s, i) + 1] = v], <<>>) ELSE Result(s, <<Nil>>)
LIndex(s, i) == Result(s, <<IF Has(s, i) THEN s[Place(s, i) + 1] ELSE Nil>>)
LLen(s)      == Result(s, <<Len(s)>>)

(* The elements from the one place to the other, both included.            *)
LRange(s, a, b) ==
  Result(s, Keep(s, {p \in DOMAIN s : Place(s, a) <= p - 1 /\ p - 1 <= Place(s, b)}))
=============================================================================
