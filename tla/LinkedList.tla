------------------------------- MODULE LinkedList -------------------------------
(***************************************************************************)
(* The doubly linked list (datastruct/list/linked.go) under the commands   *)
(* of one client on one key (database/list.go).  What several clients do   *)
(* to one list is in module SharedObjects; here is the pointer structure,  *)
(* the walk from the nearer end, the three ways of removing by value, and  *)
(* the arithmetic of negative and excessive positions.                     *)
(*                                                                         *)
(* A list is a record: its nodes by address, both ends, and the size kept  *)
(* beside them.  A removed node is garbage at once and its address free.   *)
(* A key is removed with its last element, so a missing key and the fresh  *)
(* list that the next push makes are one.  A command is an operator from a *)
(* list to a list and a reply; the steps are those of the commands that    *)
(* change it.                                                              *)
(***************************************************************************)
EXTENDS Integers, Sequences

CONSTANTS
  Addr,     \* addresses of nodes
  Null,     \* the nil pointer
  Val,      \* elements
  Nil,      \* no element
  Arg,      \* the integers given as positions and counts
  MaxLen    \* bound on the length of the list

(* There is always an address free for one more node.                      *)
ASSUME ListAssumption ==
  /\ Null \notin Addr /\ Nil \notin Val /\ Arg \subseteq Int /\ MaxLen \in Nat
  /\ \A n \in 0..MaxLen : \A held \in [1..n -> Addr] :
       \E a \in Addr : \A i \in 1..n : held[i] # a

VARIABLE list   \* [node, first, last, size]

Fresh == [node |-> <<>>, first |-> Null, last |-> Null, size |-> 0]
Init == list = Fresh

-----------------------------------------------------------------------------
(* The methods of LinkedList, from a list to a list.                       *)
NewAddr(l) == CHOOSE a \in Addr : a \notin DOMAIN l.node
Node(v, p, n) == [val |-> v, prev |-> p, next |-> n]
Placed(nodes, a, x) == [b \in DOMAIN nodes \cup {a} |-> IF b = a THEN x ELSE nodes[b]]

Add(l, v) ==
  LET a == NewAddr(l)
      linked == IF l.last = Null THEN l.node ELSE [l.node EXCEPT ![l.last].next = a]
  IN [node  |-> Placed(linked, a, Node(v, l.last, Null)),
      first |-> IF l.last = Null THEN a ELSE l.first,
      last  |-> a,
      size  |-> l.size + 1]

(* The node n steps from a in a direction.                                 *)
Walk(l, a, way, n) ==
  LET w[j \in 0..n] == IF j = 0 THEN a ELSE l.node[w[j - 1]][way] IN w[n]

Find(l, i) ==
  IF i < l.size \div 2 THEN Walk(l, l.first, "next", i)
  ELSE Walk(l, l.last, "prev", l.size - 1 - i)

(* A slip: the pivot still points back over the new node.                  *)
InsertOneWay(l, i, v) ==
  IF i = l.size THEN Add(l, v)
  ELSE LET a == NewAddr(l) pivot == Find(l, i) before == l.node[pivot].prev
           linked == IF before = Null THEN l.node ELSE [l.node EXCEPT ![before].next = a]
       IN [l EXCEPT !.node = Placed(linked, a, Node(v, before, pivot)),
                    !.first = IF before = Null THEN a ELSE @,
                    !.size = @ + 1]

Insert(l, i, v) ==
  IF i = l.size THEN Add(l, v)
  ELSE LET a == NewAddr(l) pivot == Find(l, i) before == l.node[pivot].prev
           linked == IF before = Null THEN l.node ELSE [l.node EXCEPT ![before].next = a]
       IN [l EXCEPT !.node = Placed([linked EXCEPT ![pivot].prev = a], a, Node(v, before, pivot)),
                    !.first = IF before = Null THEN a ELSE @,
                    !.size = @ + 1]

RemoveNode(l, n) ==
  LET p == l.node[n].prev x == l.node[n].next
      linked == [a \in DOMAIN l.node \ {n} |->
                   [l.node[a] EXCEPT !.next = IF a = p THEN x ELSE @,
                                     !.prev = IF a = x THEN p ELSE @]]
  IN [node  |-> linked,
      first |-> IF p = Null THEN x ELSE l.first,
      last  |-> IF x = Null THEN p ELSE l.last,
      size  |-> l.size - 1]

(* RemoveByVal from the head, ReverseRemoveByVal from the tail: to the     *)
(* end, or until `count' nodes are removed; RemoveAllByVal gives no count. *)
Sweep(l, end, way, v, count) ==
  LET s[j \in 0..l.size] ==
        IF j = 0 THEN [list |-> l, at |-> end, removed |-> 0]
        ELSE LET o == s[j - 1] IN
             IF o.at = Null \/ o.removed = count THEN o
             ELSE LET hit == o.list.node[o.at].val = v IN
                  [list |-> IF hit THEN RemoveNode(o.list, o.at) ELSE o.list,
                   at   |-> o.list.node[o.at][way],
                   removed |-> IF hit THEN o.removed + 1 ELSE o.removed]
  IN s[l.size]
NoCount == -1

RangeOf(l, start, stop) ==
  [j \in 1..(stop - start) |-> l.node[Walk(l, l.first, "next", start + j - 1)].val]

-----------------------------------------------------------------------------
(* The commands.  Those that remove elements drop an emptied list.         *)
Result(l, r) == [list |-> l, reply |-> r]
Missing(l) == l.size = 0
Dropped(l) == IF l.size = 0 THEN Fresh ELSE l

LPush(l, v) == LET m == Insert(l, 0, v) IN Result(m, <<m.size>>)
RPush(l, v) == LET m == Add(l, v) IN Result(m, <<m.size>>)
LPushX(l, v) == IF Missing(l) THEN Result(l, <<0>>) ELSE LPush(l, v)
RPushX(l, v) == IF Missing(l) THEN Result(l, <<0>>) ELSE RPush(l, v)

Pop(l, n) == Result(Dropped(RemoveNode(l, n)), <<l.node[n].val>>)
LPop(l) == IF Missing(l) THEN Result(l, <<Nil>>) ELSE Pop(l, Find(l, 0))
RPop(l) == IF Missing(l) THEN Result(l, <<Nil>>) ELSE Pop(l, l.last)

(* With both keys the same: removed at the tail, then inserted at 0.       *)
RPopLPush(l) ==
  IF Missing(l) THEN Result(l, <<Nil>>)
  ELSE LET v == l.node[l.last].val
       IN Result(Dropped(Insert(RemoveNode(l, l.last), 0, v)), <<v>>)

(* A slip: a negative count removes the first ones too.                    *)
LRemFromHead(l, n, v) ==
  LET s == Sweep(l, l.first, "next", v, CASE n = 0 -> NoCount [] n > 0 -> n [] n < 0 -> -n)
  IN Result(Dropped(s.list), <<s.removed>>)

LRem(l, n, v) ==
  LET s == CASE n = 0 -> Sweep(l, l.first, "next", v, NoCount)
             [] n > 0 -> Sweep(l, l.first, "next", v, n)
             [] n < 0 -> Sweep(l, l.last, "prev", v, -n)
  IN Result(Dropped(s.list), <<s.removed>>)

(* LINDEX and LSET count from the tail what is negative.                   *)
Outside(l, i) == i < -l.size \/ i >= l.size
Counted(l, i) == IF i < 0 THEN l.size + i ELSE i
LSet(l, i, v) ==
  IF Outside(l, i) THEN Result(l, <<Nil>>)
  ELSE Result([l EXCEPT !.node[Find(l, Counted(l, i))].val = v], <<>>)
LIndex(l, i) ==
  Result(l, <<IF Outside(l, i) THEN Nil ELSE l.node[Find(l, Counted(l, i))].val>>)

LRange(l, a, b) ==
  LET size  == l.size
      start == CASE a < -size -> 0 [] a \in -size..-1 -> size + a [] OTHER -> a
      stop  == CASE b < -size -> 0 [] b \in -size..-1 -> size + b + 1
                 [] b \in 0..(size - 1) -> b + 1 [] OTHER -> size
  IN Result(l, IF start >= size THEN <<>>
               ELSE RangeOf(l, start, IF stop < start THEN start ELSE stop))

LLen(l) == Result(l, <<l.size>>)

Next ==
  \/ \E v \in Val : list.size < MaxLen /\ list' = LPush(list, v).list
  \/ \E v \in Val : list.size < MaxLen /\ list' = RPush(list, v).list
  \/ list' = LPop(list).list
  \/ list' = RPop(list).list
  \/ list' = RPopLPush(list).list
  \/ \E n \in Arg, v \in Val : list' = LRem(list, n, v).list
  \/ \E i \in Arg, v \in Val : list' = LSet(list, i, v).list

Spec == Init /\ [][Next]_list

-----------------------------------------------------------------------------
(* Every pointer is nil or leads to a node of the list: removeNode leaves  *)
(* none behind to a node it has taken out.                                 *)
Live == DOMAIN list.node
TypeOK ==
  /\ Live \subseteq Addr /\ list.size \in 0..MaxLen
  /\ {list.first, list.last} \subseteq Live \cup {Null}
  /\ list.node \in [Live -> [val : Val, prev : Live \cup {Null}, next : Live \cup {Null}]]

(* No pointer leads outside the list, `next' and `prev' undo each other,   *)
(* the ends are the ends, and the size kept aside is the number of nodes   *)
(* the forward walk meets, each once: so `find' reaches the same node from *)
(* either end.                                                             *)
TwoWay ==
  /\ TypeOK
  /\ \A a, b \in Live : list.node[a].next = b <=> list.node[b].prev = a
  /\ \A a \in Live : /\ list.node[a].prev = Null <=> list.first = a
                     /\ list.node[a].next = Null <=> list.last = a
  /\ Live = {Walk(list, list.first, "next", n) : n \in 0..(list.size - 1)}

(* In every list that commands can build, every command with any arguments *)
(* does to the sequence of the elements, and replies, what ListSpec says,  *)
(* whichever end its nodes are reached from.                               *)
S == INSTANCE ListSpec
Items(l) == RangeOf(l, 0, l.size)
Like(r, s) == Items(r.list) = s.items /\ r.reply = s.reply
AsOnSequences ==
  LET l == list s == Items(list) IN
  /\ Like(LPop(l), S!LPop(s)) /\ Like(RPop(l), S!RPop(s))
  /\ Like(RPopLPush(l), S!RPopLPush(s)) /\ Like(LLen(l), S!LLen(s))
  /\ \A v \in Val :
       /\ Like(LPush(l, v), S!LPush(s, v)) /\ Like(LPushX(l, v), S!LPushX(s, v))
       /\ Like(RPush(l, v), S!RPush(s, v)) /\ Like(RPushX(l, v), S!RPushX(s, v))
       /\ \A i \in Arg : /\ Like(LRem(l, i, v), S!LRem(s, i, v))
                         /\ Like(LSet(l, i, v), S!LSet(s, i, v))
  /\ \A i \in Arg : Like(LIndex(l, i), S!LIndex(s, i))
  /\ \A a, b \in Arg : Like(LRange(l, a, b), S!LRange(s, a, b))
=============================================================================
