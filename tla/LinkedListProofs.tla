--------------------------- MODULE LinkedListProofs ---------------------------
(***************************************************************************)
(* Theorems about LinkedList, for any elements, addresses, arguments and   *)
(* bound.  The list is reasoned about through the order of its nodes: a    *)
(* sequence of addresses that `next' follows forwards and `prev' backwards.*)
(* Each method is shown to make of one such sequence another.              *)
(***************************************************************************)
EXTENDS LinkedList, FiniteSetTheorems, TLAPS

(* A well-formed list: nodes in the order p, linked both ways.             *)
Fields(l) ==
  /\ DOMAIN l = {"node", "first", "last", "size"} /\ l = [node |-> l.node, first |-> l.first, last |-> l.last, size |-> l.size]
  /\ l.size \in Nat /\ DOMAIN l.node \subseteq Addr
  /\ l.node \in [DOMAIN l.node -> [val : Val, prev : Addr \cup {Null}, next : Addr \cup {Null}]]

Order(l, p) ==
  /\ p \in [1..l.size -> DOMAIN l.node]
  /\ \A a \in DOMAIN l.node : \E i \in 1..l.size : p[i] = a
  /\ \A i, j \in 1..l.size : p[i] = p[j] => i = j

Linked(l, p) ==
  /\ \A i \in 1..l.size : /\ l.node[p[i]].next = IF i = l.size THEN Null ELSE p[i + 1]
                          /\ l.node[p[i]].prev = IF i = 1 THEN Null ELSE p[i - 1]
  /\ l.first = (IF l.size = 0 THEN Null ELSE p[1]) /\ l.last = (IF l.size = 0 THEN Null ELSE p[l.size])

Chain(l, p) == Fields(l) /\ Order(l, p) /\ Linked(l, p)

-----------------------------------------------------------------------------
(* Induction from lo to hi over the set of the numbers it holds for.       *)
LEMMA UpTo ==
  ASSUME NEW lo \in Int, NEW hi \in Int, NEW G,
         lo \in G, \A n \in lo..(hi - 1) : n \in G => n + 1 \in G
  PROVE  \A n \in lo..hi : n \in G
<1> DEFINE Bad == {k \in Nat : lo + k <= hi /\ lo + k \notin G}
<1>1. Bad = {}
  <2>1. SUFFICES ASSUME Bad # {} PROVE FALSE
    OBVIOUS
  <2>2. PICK k \in Bad : \A j \in Nat : <<j, k>> \in OpToRel(<, Nat) => ~(j \in Bad)
    BY <2>1, NatLessThanWellFounded, WFMin
  <2>3. \A j \in Nat : j < k => j \notin Bad
    BY <2>2 DEF OpToRel
  <2>4. k \in Nat /\ lo + k <= hi /\ lo + k \notin G
    OBVIOUS
  <2>5. k # 0
    BY <2>4
  <2>6. k - 1 \in Nat /\ k - 1 < k /\ lo + (k - 1) \in lo..(hi - 1) /\ lo + (k - 1) + 1 = lo + k
    BY <2>4, <2>5
  <2>7. lo + (k - 1) \in G
    BY <2>3, <2>6
  <2> QED BY <2>4, <2>6, <2>7
<1>2. ASSUME NEW n \in lo..hi, n \notin G PROVE FALSE
  <2>1. n - lo \in Bad
    BY <1>2
  <2> QED BY <1>1, <2>1
<1> QED BY <1>2

(* A walk of n steps takes the nodes q[0], q[1] ... in turn, if each leads *)
(* to the next.                                                            *)
Leads(l, way, n, q) == \A j \in 1..n : l.node[q[j - 1]][way] = q[j]

LEMMA WalkIs ==
  ASSUME NEW l, NEW way, NEW n \in Nat, NEW q, Leads(l, way, n, q)
  PROVE  Walk(l, q[0], way, n) = q[n]
<1> DEFINE w[j \in 0..n] == IF j = 0 THEN q[0] ELSE l.node[w[j - 1]][way]
           Solves(g) == g = [j \in 0..n |-> IF j = 0 THEN q[0] ELSE l.node[g[j - 1]][way]]
           g == [j \in 0..n |-> q[j]]
<1>1. Walk(l, q[0], way, n) = w[n]
  BY DEF Walk
<1>2. w = CHOOSE x : Solves(x)
  BY DEF w
<1>3. \E x : Solves(x)
  <2>1. ASSUME NEW j \in 0..n
        PROVE g[j] = IF j = 0 THEN q[0] ELSE l.node[g[j - 1]][way]
    <3>1. CASE j = 0
      BY <3>1
    <3>2. CASE j \in 1..n
      <4>1. g[j] = q[j] /\ g[j - 1] = q[j - 1] /\ j # 0
        BY <3>2
      <4> HIDE DEF g
      <4> QED BY <4>1, <3>2 DEF Leads
    <3> QED BY <3>1, <3>2
  <2>2. g = [j \in 0..n |-> g[j]]
    OBVIOUS
  <2> HIDE DEF g
  <2>3. g = [j \in 0..n |-> IF j = 0 THEN q[0] ELSE l.node[g[j - 1]][way]]
    BY <2>1, <2>2
  <2> QED BY <2>3
<1>4. Solves(w)
  <2> HIDE DEF Solves, w
  <2> QED BY <1>2, <1>3
<1> HIDE DEF w
<1>5. \A j \in 0..n : w[j] = IF j = 0 THEN q[0] ELSE l.node[w[j - 1]][way]
  BY <1>4
<1> HIDE DEF Solves
<1> DEFINE G == {j \in 0..n : w[j] = q[j]}
<1>6. 0 \in G
  BY <1>5
<1>7. ASSUME NEW j \in 0..(n - 1), j \in G
      PROVE j + 1 \in G
  <2>1. j + 1 \in 1..n /\ j + 1 # 0 /\ (j + 1) - 1 = j
    OBVIOUS
  <2>2. w[j + 1] = l.node[w[j]][way] /\ w[j] = q[j]
    BY <1>5, <1>7, <2>1
  <2>3. l.node[q[j]][way] = q[j + 1]
    BY <2>1 DEF Leads
  <2> QED BY <2>1, <2>2, <2>3
<1>8. \A j \in 0..n : j \in G
  <2> HIDE DEF G
  <2> QED BY <1>6, <1>7, UpTo
<1> QED BY <1>1, <1>8

(* A node is found from either end.                                        *)
LEMMA Forwards ==
  ASSUME NEW l, NEW p, Chain(l, p), NEW i \in 0..(l.size - 1)
  PROVE  Walk(l, l.first, "next", i) = p[i + 1]
<1> DEFINE q == [j \in 0..i |-> p[j + 1]]
<1>1. l.size \in Nat /\ i \in Nat /\ l.size # 0
  BY DEF Chain, Fields
<1>2. q[0] = l.first /\ q[i] = p[i + 1]
  BY <1>1 DEF Chain, Linked
<1>3. ASSUME NEW j \in 1..i
      PROVE l.node[q[j - 1]]["next"] = q[j]
  <2>1. q[j - 1] = p[j] /\ q[j] = p[j + 1] /\ j \in 1..l.size /\ j # l.size
    BY <1>1
  <2> HIDE DEF q
  <2> QED BY <2>1 DEF Chain, Linked
<1> HIDE DEF q
<1>4. Leads(l, "next", i, q)
  BY <1>3 DEF Leads
<1>5. Walk(l, q[0], "next", i) = q[i]
  BY <1>1, <1>4, WalkIs
<1> QED BY <1>2, <1>5

LEMMA Backwards ==
  ASSUME NEW l, NEW p, Chain(l, p), NEW i \in 0..(l.size - 1)
  PROVE  Walk(l, l.last, "prev", i) = p[l.size - i]
<1> DEFINE q == [j \in 0..i |-> p[l.size - j]]
<1>1. l.size \in Nat /\ i \in Nat /\ l.size # 0
  BY DEF Chain, Fields
<1>2. q[0] = l.last /\ q[i] = p[l.size - i]
  BY <1>1 DEF Chain, Linked
<1>3. ASSUME NEW j \in 1..i
      PROVE l.node[q[j - 1]]["prev"] = q[j]
  <2>1. q[j - 1] = p[l.size - (j - 1)] /\ q[j] = p[l.size - j]
    BY <1>1
  <2>2. l.size - (j - 1) \in 1..l.size /\ l.size - (j - 1) # 1 /\ (l.size - (j - 1)) - 1 = l.size - j
    BY <1>1
  <2> HIDE DEF q
  <2> QED BY <2>1, <2>2 DEF Chain, Linked
<1> HIDE DEF q
<1>4. Leads(l, "prev", i, q)
  BY <1>3 DEF Leads
<1>5. Walk(l, q[0], "prev", i) = q[i]
  BY <1>1, <1>4, WalkIs
<1> QED BY <1>2, <1>5

LEMMA FindIs ==
  ASSUME NEW l, NEW p, Chain(l, p), NEW i \in 0..(l.size - 1)
  PROVE  Find(l, i) = p[i + 1]
<1>1. l.size \in Nat
  BY DEF Chain, Fields
<1>2. CASE i < l.size \div 2
  BY <1>2, Forwards DEF Find
<1>3. CASE ~(i < l.size \div 2)
  <2>1. l.size - 1 - i \in 0..(l.size - 1) /\ l.size - (l.size - 1 - i) = i + 1
    BY <1>1
  <2>2. Walk(l, l.last, "prev", l.size - 1 - i) = p[l.size - (l.size - 1 - i)]
    BY <2>1, Backwards
  <2> QED BY <1>3, <2>1, <2>2 DEF Find
<1> QED BY <1>2, <1>3

-----------------------------------------------------------------------------
(* The elements in the order p.                                            *)
Content(l, p) == [i \in 1..l.size |-> l.node[p[i]].val]

(* What a list in the order p gives of each of its nodes.                  *)
LEMMA NodeIs ==
  ASSUME NEW l, NEW p, Chain(l, p)
  PROVE  /\ l.size \in Nat /\ Null \notin DOMAIN l.node /\ DOMAIN l.node \subseteq Addr
         /\ \A i \in 1..l.size : /\ p[i] \in DOMAIN l.node /\ p[i] \in Addr /\ p[i] # Null
                                 /\ l.node[p[i]] \in [val : Val, prev : Addr \cup {Null}, next : Addr \cup {Null}]
         /\ \A i, j \in 1..l.size : p[i] = p[j] => i = j
         /\ \A a \in DOMAIN l.node : \E i \in 1..l.size : p[i] = a
BY ListAssumption DEF Chain, Fields, Order

(* removeNode takes the node at k out and joins its neighbours.            *)
Cut(p, n, k) == [i \in 1..(n - 1) |-> IF i < k THEN p[i] ELSE p[i + 1]]

LEMMA RemoveIs ==
  ASSUME NEW l, NEW p, Chain(l, p), NEW k \in 1..l.size
  PROVE  LET m == RemoveNode(l, p[k]) q == Cut(p, l.size, k) IN
         /\ m.size = l.size - 1 /\ Chain(m, q)
         /\ Content(m, q) = Cut(Content(l, p), l.size, k)
         /\ DOMAIN m.node = DOMAIN l.node \ {p[k]}
<1> DEFINE n == p[k]
           m == RemoveNode(l, n)
           q == Cut(p, l.size, k)
           x == l.node[n].next
           y == l.node[n].prev
           N == l.size
           Rec == [val : Val, prev : Addr \cup {Null}, next : Addr \cup {Null}]
<1>1. /\ N \in Nat /\ Null \notin DOMAIN l.node /\ DOMAIN l.node \subseteq Addr
      /\ \A i \in 1..N : p[i] \in DOMAIN l.node /\ p[i] \in Addr /\ p[i] # Null /\ l.node[p[i]] \in Rec
      /\ \A i, j \in 1..N : p[i] = p[j] => i = j
      /\ \A a \in DOMAIN l.node : \E i \in 1..N : p[i] = a
  BY NodeIs
<1>2. /\ \A i \in 1..N : /\ l.node[p[i]].next = IF i = N THEN Null ELSE p[i + 1]
                         /\ l.node[p[i]].prev = IF i = 1 THEN Null ELSE p[i - 1]
      /\ l.first = (IF N = 0 THEN Null ELSE p[1]) /\ l.last = (IF N = 0 THEN Null ELSE p[N])
  BY DEF Chain, Linked
<1>3. x = (IF k = N THEN Null ELSE p[k + 1]) /\ y = (IF k = 1 THEN Null ELSE p[k - 1])
  BY <1>2
<1>4. x \in Addr \cup {Null} /\ y \in Addr \cup {Null}
  BY <1>1, <1>3
<1>5. /\ m.node = [a \in DOMAIN l.node \ {n} |->
                     [l.node[a] EXCEPT !.next = IF a = y THEN x ELSE @, !.prev = IF a = x THEN y ELSE @]]
      /\ m.first = (IF y = Null THEN x ELSE l.first) /\ m.last = (IF x = Null THEN y ELSE l.last)
      /\ m.size = N - 1 /\ DOMAIN m = {"node", "first", "last", "size"}
      /\ m = [node |-> m.node, first |-> m.first, last |-> m.last, size |-> m.size]
  BY DEF RemoveNode
<1> HIDE DEF m, x, y
<1>6. \A a \in DOMAIN l.node : l.node[a] \in Rec
  BY DEF Chain, Fields
<1>7. DOMAIN m.node = DOMAIN l.node \ {n}
  BY <1>5
<1>8. ASSUME NEW a \in DOMAIN l.node, a # n
      PROVE /\ m.node[a] \in Rec /\ m.node[a].val = l.node[a].val
            /\ m.node[a].next = (IF a = y THEN x ELSE l.node[a].next)
            /\ m.node[a].prev = (IF a = x THEN y ELSE l.node[a].prev)
  <2>1. m.node[a] = [l.node[a] EXCEPT !.next = IF a = y THEN x ELSE @, !.prev = IF a = x THEN y ELSE @]
    BY <1>5, <1>8
  <2> QED BY <1>4, <1>6, <2>1
<1>9. ASSUME NEW i \in 1..(N - 1)
      PROVE /\ q[i] = (IF i < k THEN p[i] ELSE p[i + 1])
            /\ q[i] \in DOMAIN l.node /\ q[i] # n
  <2>1. q[i] = (IF i < k THEN p[i] ELSE p[i + 1])
    BY DEF Cut
  <2>2. i \in 1..N /\ i + 1 \in 1..N /\ (i < k => i # k) /\ (~(i < k) => i + 1 # k)
    BY <1>1
  <2> QED BY <1>1, <2>1, <2>2
<1>10. q \in [1..(N - 1) -> DOMAIN m.node]
  <2>1. q = [i \in 1..(N - 1) |-> q[i]]
    BY DEF Cut
  <2> HIDE DEF q
  <2> QED BY <2>1, <1>7, <1>9
<1> HIDE DEF q
<1>11. ASSUME NEW a \in DOMAIN m.node
       PROVE \E i \in 1..(N - 1) : q[i] = a
  <2>1. PICK i \in 1..N : p[i] = a
    BY <1>1, <1>7
  <2>2. i # k
    BY <1>7, <2>1
  <2>3. CASE i < k
    <3>1. i \in 1..(N - 1)
      BY <1>1, <2>3
    <3> QED BY <1>9, <2>1, <2>3, <3>1
  <2>4. CASE i > k
    <3>1. i - 1 \in 1..(N - 1) /\ ~(i - 1 < k) /\ (i - 1) + 1 = i
      BY <1>1, <2>4
    <3> QED BY <1>9, <2>1, <3>1
  <2> QED BY <2>2, <2>3, <2>4
<1>12. ASSUME NEW i \in 1..(N - 1), NEW j \in 1..(N - 1), q[i] = q[j]
       PROVE i = j
  <2>1. i \in 1..N /\ i + 1 \in 1..N /\ j \in 1..N /\ j + 1 \in 1..N
    BY <1>1
  <2>2. PICK u \in 1..N : u = (IF i < k THEN i ELSE i + 1) /\ q[i] = p[u]
    BY <1>9, <2>1
  <2>3. PICK w \in 1..N : w = (IF j < k THEN j ELSE j + 1) /\ q[j] = p[w]
    BY <1>9, <2>1
  <2>4. u = w
    <3>1. p[u] = p[w]
      BY <1>12, <2>2, <2>3
    <3> QED BY <1>1, <3>1
  <2> QED BY <2>2, <2>3, <2>4
<1>13. Order(m, q)
  BY <1>5, <1>10, <1>11, <1>12 DEF Order
<1>14. ASSUME NEW i \in 1..(N - 1)
       PROVE m.node[q[i]].next = IF i = N - 1 THEN Null ELSE q[i + 1]
  <2>1. m.node[q[i]].next = IF q[i] = y THEN x ELSE l.node[q[i]].next
    BY <1>8, <1>9
  <2>2. i \in 1..N /\ i + 1 \in 1..N /\ (i # N - 1 => i + 1 \in 1..(N - 1) /\ i + 1 # N /\ (i + 1) + 1 \in 1..N)
    BY <1>1
  <2>3. CASE i = k - 1
    <3>1. q[i] = p[i] /\ y = p[i]
      BY <1>3, <1>9, <2>3
    <3>2. i # N - 1 => q[i + 1] = p[k + 1] /\ k # N
      BY <1>9, <2>2, <2>3
    <3>3. i = N - 1 => k = N
      BY <2>3, <1>1
    <3> QED BY <1>3, <2>1, <3>1, <3>2, <3>3
  <2>4. CASE i < k - 1
    <3>1. q[i] = p[i] /\ q[i + 1] = p[i + 1] /\ i # N - 1 /\ i # N
      BY <1>1, <1>9, <2>2, <2>4
    <3>2. q[i] # y
      <4>1. k - 1 \in 1..N /\ i # k - 1
        BY <2>4, <1>1
      <4> QED BY <1>1, <1>3, <2>2, <3>1, <4>1
    <3> QED BY <1>2, <2>1, <2>2, <3>1, <3>2
  <2>5. CASE i >= k
    <3>1. q[i] = p[i + 1]
      BY <1>9, <2>5
    <3>2. q[i] # y
      <4>1. k # 1 => k - 1 \in 1..N /\ i + 1 # k - 1
        BY <2>5, <1>1
      <4> QED BY <1>1, <1>3, <2>2, <3>1, <4>1
    <3>3. l.node[p[i + 1]].next = IF i + 1 = N THEN Null ELSE p[(i + 1) + 1]
      BY <1>2, <2>2
    <3>4. i # N - 1 => q[i + 1] = p[(i + 1) + 1]
      BY <1>9, <2>2, <2>5
    <3> QED BY <1>1, <2>1, <3>1, <3>2, <3>3, <3>4
  <2> QED BY <2>3, <2>4, <2>5
<1>15. ASSUME NEW i \in 1..(N - 1)
       PROVE m.node[q[i]].prev = IF i = 1 THEN Null ELSE q[i - 1]
  <2>1. m.node[q[i]].prev = IF q[i] = x THEN y ELSE l.node[q[i]].prev
    BY <1>8, <1>9
  <2>2. i \in 1..N /\ i + 1 \in 1..N /\ (i # 1 => i - 1 \in 1..(N - 1))
    BY <1>1
  <2>3. CASE i = k
    <3>1. q[i] = p[k + 1] /\ x = p[k + 1]
      BY <1>3, <1>9, <2>3
    <3>2. i # 1 => q[i - 1] = p[k - 1]
      BY <1>9, <2>2, <2>3
    <3> QED BY <1>3, <2>1, <2>3, <3>1, <3>2
  <2>4. CASE i < k
    <3>1. q[i] = p[i] /\ (i # 1 => q[i - 1] = p[i - 1])
      BY <1>9, <2>2, <2>4
    <3>2. q[i] # x
      <4>1. k # N => k + 1 \in 1..N /\ i # k + 1
        BY <1>1, <2>4
      <4> QED BY <1>1, <1>3, <2>2, <3>1, <4>1
    <3> QED BY <1>2, <2>1, <2>2, <3>1, <3>2
  <2>5. CASE i > k
    <3>1. q[i] = p[i + 1] /\ i # 1 /\ q[i - 1] = p[i]
      BY <1>9, <2>2, <2>5
    <3>2. q[i] # x
      <4>1. k # N => k + 1 \in 1..N /\ i + 1 # k + 1
        BY <1>1, <2>5
      <4> QED BY <1>1, <1>3, <2>2, <3>1, <4>1
    <3>3. l.node[p[i + 1]].prev = p[(i + 1) - 1] /\ (i + 1) - 1 = i
      BY <1>2, <2>2
    <3> QED BY <2>1, <3>1, <3>2, <3>3
  <2> QED BY <2>3, <2>4, <2>5
<1>16. m.first = (IF N - 1 = 0 THEN Null ELSE q[1])
  <2>1. CASE k = 1
    <3>1. m.first = x
      BY <1>3, <1>5, <2>1
    <3>2. N - 1 # 0 => q[1] = p[2]
      BY <1>1, <1>9, <2>1
    <3> QED BY <1>1, <1>3, <2>1, <3>1, <3>2
  <2>2. CASE k # 1
    <3>1. k - 1 \in 1..N /\ y = p[k - 1] /\ N - 1 # 0 /\ 1 \in 1..(N - 1) /\ 1 < k
      BY <1>1, <1>3, <2>2
    <3>2. y # Null
      BY <1>1, <3>1
    <3>3. m.first = l.first
      BY <1>5, <3>2
    <3>5. l.first = p[1]
      BY <1>2, <3>1
    <3>4. q[1] = p[1]
      BY <1>9, <3>1
    <3> QED BY <3>1, <3>3, <3>4, <3>5
  <2> QED BY <2>1, <2>2
<1>17. m.last = (IF N - 1 = 0 THEN Null ELSE q[N - 1])
  <2>1. CASE k = N
    <3>1. m.last = y
      BY <1>3, <1>5, <2>1
    <3>2. N - 1 # 0 => q[N - 1] = p[N - 1]
      BY <1>1, <1>9, <2>1
    <3> QED BY <1>1, <1>3, <2>1, <3>1, <3>2
  <2>2. CASE k # N
    <3>1. k + 1 \in 1..N /\ x = p[k + 1] /\ N - 1 # 0 /\ N - 1 \in 1..(N - 1) /\ ~(N - 1 < k) /\ (N - 1) + 1 = N
      BY <1>1, <1>3, <2>2
    <3>2. x # Null
      BY <1>1, <3>1
    <3>3. m.last = l.last
      BY <1>5, <3>2
    <3>5. l.last = p[N]
      BY <1>2, <3>1
    <3>4. q[N - 1] = p[N]
      BY ONLY SMTT(30), <1>9, <3>1
    <3> QED BY <3>1, <3>3, <3>4, <3>5
  <2> QED BY <2>1, <2>2
<1>18. Linked(m, q)
  BY ONLY <1>5, <1>14, <1>15, <1>16, <1>17 DEF Linked
<1>19. Fields(m)
  <2>1. m.node \in [DOMAIN m.node -> Rec]
    <3>1. \A a \in DOMAIN m.node : m.node[a] \in Rec
      BY <1>7, <1>8
    <3>2. m.node = [a \in DOMAIN m.node |-> m.node[a]]
      BY <1>5
    <3> QED BY <3>1, <3>2
  <2>2. N - 1 \in Nat
    BY <1>1
  <2> QED BY <1>1, <1>5, <1>7, <2>1, <2>2 DEF Fields
<1>20. Content(m, q) = Cut(Content(l, p), N, k)
  <2>1. Content(m, q) = [i \in 1..(N - 1) |-> m.node[q[i]].val]
    BY <1>5 DEF Content
  <2>2. ASSUME NEW i \in 1..(N - 1)
        PROVE m.node[q[i]].val = IF i < k THEN Content(l, p)[i] ELSE Content(l, p)[i + 1]
    <3>1. m.node[q[i]].val = l.node[q[i]].val
      BY <1>8, <1>9
    <3>2. Content(l, p)[i] = l.node[p[i]].val /\ Content(l, p)[i + 1] = l.node[p[i + 1]].val
      BY <1>1 DEF Content
    <3> QED BY <1>9, <3>1, <3>2
  <2>3. Cut(Content(l, p), N, k) = [i \in 1..(N - 1) |-> IF i < k THEN Content(l, p)[i] ELSE Content(l, p)[i + 1]]
    BY DEF Cut
  <2> QED BY <2>1, <2>2, <2>3
<1> QED BY <1>5, <1>7, <1>13, <1>18, <1>19, <1>20 DEF Chain, m, q

-----------------------------------------------------------------------------
(* A list that is no longer than the bound leaves an address for one node  *)
(* more, and NewAddr gives it.                                             *)
LEMMA NewAddrIs ==
  ASSUME NEW l, NEW p, Chain(l, p), l.size <= MaxLen
  PROVE  NewAddr(l) \in Addr \ DOMAIN l.node
<1>1. l.size \in 0..MaxLen /\ p \in [1..l.size -> Addr]
  BY ListAssumption DEF Chain, Fields, Order
<1>2. \A n \in 0..MaxLen : \A held \in [1..n -> Addr] :
        \E a \in Addr : \A i \in 1..n : held[i] # a
  BY ListAssumption
<1>3. PICK a \in Addr : \A i \in 1..l.size : p[i] # a
  BY <1>1, <1>2
<1>4. a \notin DOMAIN l.node
  BY <1>3, NodeIs
<1> QED BY <1>3, <1>4 DEF NewAddr

(* Add links a node behind the last.                                       *)
Behind(p, n, a) == [i \in 1..(n + 1) |-> IF i = n + 1 THEN a ELSE p[i]]

LEMMA AddIs ==
  ASSUME NEW l, NEW p, Chain(l, p), l.size <= MaxLen, NEW v \in Val
  PROVE  LET m == Add(l, v) q == Behind(p, l.size, NewAddr(l)) IN
         /\ m.size = l.size + 1 /\ Chain(m, q)
         /\ Content(m, q) = Behind(Content(l, p), l.size, v)
<1> DEFINE a == NewAddr(l)
           m == Add(l, v)
           q == Behind(p, l.size, a)
           N == l.size
           Rec == [val : Val, prev : Addr \cup {Null}, next : Addr \cup {Null}]
           linked == IF l.last = Null THEN l.node ELSE [l.node EXCEPT ![l.last].next = a]
<1>1. /\ N \in Nat /\ Null \notin DOMAIN l.node /\ DOMAIN l.node \subseteq Addr
      /\ \A i \in 1..N : p[i] \in DOMAIN l.node /\ p[i] \in Addr /\ p[i] # Null /\ l.node[p[i]] \in Rec
      /\ \A i, j \in 1..N : p[i] = p[j] => i = j
      /\ \A b \in DOMAIN l.node : \E i \in 1..N : p[i] = b
  BY NodeIs
<1>2. /\ \A i \in 1..N : /\ l.node[p[i]].next = IF i = N THEN Null ELSE p[i + 1]
                         /\ l.node[p[i]].prev = IF i = 1 THEN Null ELSE p[i - 1]
      /\ l.first = (IF N = 0 THEN Null ELSE p[1]) /\ l.last = (IF N = 0 THEN Null ELSE p[N])
  BY DEF Chain, Linked
<1>3. a \in Addr /\ a \notin DOMAIN l.node /\ a # Null
  BY NewAddrIs, ListAssumption
<1>4. /\ m.node = Placed(linked, a, Node(v, l.last, Null))
      /\ m.first = (IF l.last = Null THEN a ELSE l.first) /\ m.last = a
      /\ m.size = N + 1 /\ DOMAIN m = {"node", "first", "last", "size"}
      /\ m = [node |-> m.node, first |-> m.first, last |-> m.last, size |-> m.size]
  BY DEF Add
<1>5. l.last = Null <=> N = 0
  BY <1>1, <1>2
<1>6. \A b \in DOMAIN l.node : l.node[b] \in Rec
  BY DEF Chain, Fields
<1>7. /\ DOMAIN linked = DOMAIN l.node
      /\ \A b \in DOMAIN l.node : /\ linked[b] \in Rec /\ linked[b].val = l.node[b].val
                                  /\ linked[b].prev = l.node[b].prev
                                  /\ linked[b].next = (IF b = l.last THEN a ELSE l.node[b].next)
  <2>1. CASE l.last = Null
    BY <1>1, <1>6, <2>1
  <2>2. CASE l.last # Null
    <3>1. linked = [l.node EXCEPT ![l.last].next = a]
      BY <2>2
    <3> HIDE DEF linked
    <3>2. DOMAIN linked = DOMAIN l.node
      BY <3>1
    <3>3. ASSUME NEW b \in DOMAIN l.node
          PROVE linked[b] = IF b = l.last THEN [l.node[b] EXCEPT !.next = a] ELSE l.node[b]
      BY <3>1
    <3>4. ASSUME NEW b \in DOMAIN l.node
          PROVE /\ linked[b] \in Rec /\ linked[b].val = l.node[b].val
                /\ linked[b].prev = l.node[b].prev
                /\ linked[b].next = (IF b = l.last THEN a ELSE l.node[b].next)
      BY ZenonT(60), <1>3, <1>6, <3>3
    <3> QED BY <3>2, <3>4
  <2> QED BY <2>1, <2>2
<1> HIDE DEF m, linked, a
<1>8. /\ DOMAIN m.node = DOMAIN l.node \cup {a} /\ m.node[a] = Node(v, l.last, Null)
      /\ \A b \in DOMAIN l.node : m.node[b] = linked[b]
      /\ m.node = [b \in DOMAIN m.node |-> m.node[b]]
  <2>1. a \notin DOMAIN linked /\ m.node = Placed(linked, a, Node(v, l.last, Null))
    BY <1>3, <1>4, <1>7
  <2> DEFINE g == Placed(linked, a, Node(v, l.last, Null))
  <2>2. /\ DOMAIN g = DOMAIN linked \cup {a} /\ g[a] = Node(v, l.last, Null)
        /\ \A b \in DOMAIN linked : g[b] = linked[b]
    BY <2>1 DEF Placed
  <2>3. g = [b \in DOMAIN linked \cup {a} |-> g[b]]
    BY <2>1 DEF Placed
  <2>4. m.node = g
    BY <2>1
  <2> HIDE DEF g
  <2> QED BY <1>7, <2>2, <2>3, <2>4
<1>9. \A i \in 1..(N + 1) : q[i] = IF i = N + 1 THEN a ELSE p[i]
  BY DEF Behind
<1>10. q = [i \in 1..(N + 1) |-> q[i]]
  BY DEF Behind
<1> HIDE DEF q
<1>11. \A i \in 1..N : i \in 1..(N + 1) /\ i # N + 1 /\ q[i] = p[i]
  BY <1>1, <1>9
<1>12. q[N + 1] = a /\ N + 1 \in 1..(N + 1)
  BY <1>1, <1>9
<1>13. \A i \in 1..(N + 1) : i \in 1..N \/ i = N + 1
  BY <1>1
<1>14. Order(m, q)
  <2>1. \A i \in 1..(N + 1) : q[i] \in DOMAIN m.node
    BY <1>1, <1>8, <1>11, <1>12, <1>13
  <2>2. \A b \in DOMAIN m.node : \E i \in 1..(N + 1) : q[i] = b
    BY <1>1, <1>8, <1>11, <1>12
  <2>3. \A i, j \in 1..(N + 1) : q[i] = q[j] => i = j
    BY <1>1, <1>3, <1>11, <1>12, <1>13
  <2> QED BY <1>4, <1>10, <2>1, <2>2, <2>3 DEF Order
<1>15. Linked(m, q)
  <2>1. ASSUME NEW i \in 1..N
        PROVE /\ m.node[q[i]].next = IF i = N + 1 THEN Null ELSE q[i + 1]
              /\ m.node[q[i]].prev = IF i = 1 THEN Null ELSE q[i - 1]
    <3>1. /\ m.node[q[i]].next = (IF p[i] = l.last THEN a ELSE l.node[p[i]].next)
          /\ m.node[q[i]].prev = l.node[p[i]].prev
      BY <1>1, <1>7, <1>8, <1>11
    <3>2. p[i] = l.last <=> i = N
      BY <1>1, <1>2
    <3>3. i # N => q[i + 1] = p[i + 1]
      BY <1>1, <1>11
    <3>4. i # 1 => q[i - 1] = p[i - 1]
      BY <1>1, <1>11
    <3> QED BY <1>2, <1>11, <1>12, <3>1, <3>2, <3>3, <3>4
  <2>2. m.node[q[N + 1]].next = Null /\ m.node[q[N + 1]].prev = IF N + 1 = 1 THEN Null ELSE q[(N + 1) - 1]
    <3>1. N # 0 => q[(N + 1) - 1] = p[N]
      BY <1>1, <1>11
    <3>2. N + 1 = 1 <=> N = 0
      BY <1>1
    <3> QED BY <1>2, <1>8, <1>12, <3>1, <3>2 DEF Node
  <2>3. m.first = q[1]
    <3>1. CASE N = 0
      BY <1>4, <1>5, <1>12, <3>1
    <3>2. CASE N # 0
      BY <1>1, <1>2, <1>4, <1>5, <1>11, <3>2
    <3> QED BY <3>1, <3>2
  <2>4. N + 1 # 0
    BY <1>1
  <2> QED BY <1>4, <1>12, <1>13, <2>1, <2>2, <2>3, <2>4 DEF Linked
<1>16. Fields(m)
  <2>1. Node(v, l.last, Null) \in Rec
    BY <1>1, <1>2 DEF Node
  <2>2. \A b \in DOMAIN m.node : m.node[b] \in Rec
    BY <1>7, <1>8, <2>1
  <2>3. m.node = [b \in DOMAIN m.node |-> m.node[b]]
    BY <1>8
  <2>4. m.node \in [DOMAIN m.node -> Rec]
    BY <2>2, <2>3
  <2>5. DOMAIN m.node \subseteq Addr /\ N + 1 \in Nat
    BY <1>1, <1>3, <1>8
  <2> QED BY <1>4, <2>4, <2>5 DEF Fields
<1>17. Content(m, q) = Behind(Content(l, p), N, v)
  <2>1. Content(m, q) = [i \in 1..(N + 1) |-> m.node[q[i]].val]
    BY <1>4 DEF Content
  <2>2. ASSUME NEW i \in 1..(N + 1)
        PROVE m.node[q[i]].val = IF i = N + 1 THEN v ELSE Content(l, p)[i]
    <3>1. CASE i = N + 1
      BY <1>8, <1>12, <3>1 DEF Node
    <3>2. CASE i \in 1..N
      <4>1. m.node[q[i]].val = l.node[p[i]].val /\ Content(l, p)[i] = l.node[p[i]].val
        BY <1>1, <1>7, <1>8, <1>11, <3>2 DEF Content
      <4> QED BY <1>11, <3>2, <4>1
    <3> QED BY <1>13, <3>1, <3>2
  <2>3. Behind(Content(l, p), N, v) = [i \in 1..(N + 1) |-> IF i = N + 1 THEN v ELSE Content(l, p)[i]]
    BY DEF Behind
  <2> QED BY <2>1, <2>2, <2>3
<1> QED BY <1>4, <1>14, <1>15, <1>16, <1>17 DEF Chain, m, q, a

(* Insert at 0 links a node in front of the first.                         *)
Before(p, n, a) == [i \in 1..(n + 1) |-> IF i = 1 THEN a ELSE p[i - 1]]

LEMMA InsertIs ==
  ASSUME NEW l, NEW p, Chain(l, p), l.size <= MaxLen, NEW v \in Val
  PROVE  LET m == Insert(l, 0, v) q == Before(p, l.size, NewAddr(l)) IN
         /\ m.size = l.size + 1 /\ Chain(m, q)
         /\ Content(m, q) = Before(Content(l, p), l.size, v)
<1> DEFINE a == NewAddr(l)
           m == Insert(l, 0, v)
           q == Before(p, l.size, a)
           N == l.size
           Rec == [val : Val, prev : Addr \cup {Null}, next : Addr \cup {Null}]
<1>n. N \in Nat
  BY NodeIs
<1>0. CASE N = 0
  <2>1. m = Add(l, v)
    BY <1>0 DEF Insert
  <2>2. q = Behind(p, l.size, a) /\ Before(Content(l, p), l.size, v) = Behind(Content(l, p), l.size, v)
    BY <1>0 DEF Before, Behind
  <2>3. LET x == Add(l, v) y == Behind(p, l.size, NewAddr(l)) IN
         /\ x.size = l.size + 1 /\ Chain(x, y)
         /\ Content(x, y) = Behind(Content(l, p), l.size, v)
    BY AddIs
  <2> QED BY <2>1, <2>2, <2>3
<1>00. CASE N # 0
  <2> DEFINE linked == [l.node EXCEPT ![p[1]].prev = a]
  <2>1. /\ N \in Nat /\ Null \notin DOMAIN l.node /\ DOMAIN l.node \subseteq Addr
        /\ \A i \in 1..N : p[i] \in DOMAIN l.node /\ p[i] \in Addr /\ p[i] # Null /\ l.node[p[i]] \in Rec
        /\ \A i, j \in 1..N : p[i] = p[j] => i = j
        /\ \A b \in DOMAIN l.node : \E i \in 1..N : p[i] = b
    BY NodeIs
  <2>2. /\ \A i \in 1..N : /\ l.node[p[i]].next = IF i = N THEN Null ELSE p[i + 1]
                           /\ l.node[p[i]].prev = IF i = 1 THEN Null ELSE p[i - 1]
        /\ l.first = p[1] /\ l.last = p[N]
    BY <1>00 DEF Chain, Linked
  <2>3. a \in Addr /\ a \notin DOMAIN l.node /\ a # Null
    BY NewAddrIs, ListAssumption
  <2>4. 1 \in 1..N /\ Find(l, 0) = p[1] /\ l.node[p[1]].prev = Null
    <3>1. 0 \in 0..(N - 1) /\ 1 \in 1..N /\ 0 + 1 = 1
      BY <1>00, <2>1
    <3>2. Find(l, 0) = p[0 + 1]
      BY <3>1, FindIs
    <3> QED BY <2>2, <3>1, <3>2
  <2>5. m = [l EXCEPT !.node = Placed(linked, a, Node(v, Null, p[1])), !.first = a, !.size = N + 1]
    <3>1. m = [l EXCEPT !.node = Placed([(IF l.node[Find(l, 0)].prev = Null THEN l.node
                                           ELSE [l.node EXCEPT ![l.node[Find(l, 0)].prev].next = a])
                                            EXCEPT ![Find(l, 0)].prev = a],
                                         a, Node(v, l.node[Find(l, 0)].prev, Find(l, 0))),
                        !.first = IF l.node[Find(l, 0)].prev = Null THEN a ELSE l.first,
                        !.size = l.size + 1]
      BY <1>00 DEF Insert
    <3> HIDE DEF m
    <3> QED BY <2>4, <3>1
  <2>6. /\ m.node = Placed(linked, a, Node(v, Null, p[1]))
        /\ m.first = a /\ m.last = l.last /\ m.size = N + 1 /\ DOMAIN m = {"node", "first", "last", "size"}
        /\ m = [node |-> m.node, first |-> m.first, last |-> m.last, size |-> m.size]
    <3>1. DOMAIN l = {"node", "first", "last", "size"}
          /\ l = [node |-> l.node, first |-> l.first, last |-> l.last, size |-> l.size]
      BY DEF Chain, Fields
    <3> HIDE DEF m, linked, a
    <3> QED BY <2>5, <3>1
  <2>7. \A b \in DOMAIN l.node : l.node[b] \in Rec
    BY DEF Chain, Fields
  <2>8. /\ DOMAIN linked = DOMAIN l.node
        /\ \A b \in DOMAIN l.node : /\ linked[b] \in Rec /\ linked[b].val = l.node[b].val
                                    /\ linked[b].next = l.node[b].next
                                    /\ linked[b].prev = (IF b = p[1] THEN a ELSE l.node[b].prev)
    <3>1. \A b \in DOMAIN l.node : linked[b] = IF b = p[1] THEN [l.node[b] EXCEPT !.prev = a] ELSE l.node[b]
      OBVIOUS
    <3>2. DOMAIN linked = DOMAIN l.node
      OBVIOUS
    <3> HIDE DEF linked
    <3>3. ASSUME NEW b \in DOMAIN l.node
          PROVE /\ linked[b] \in Rec /\ linked[b].val = l.node[b].val
                /\ linked[b].next = l.node[b].next
                /\ linked[b].prev = (IF b = p[1] THEN a ELSE l.node[b].prev)
      BY ZenonT(60), <2>3, <2>7, <3>1
    <3> QED BY <3>2, <3>3
  <2> HIDE DEF m, linked, a
  <2>9. /\ DOMAIN m.node = DOMAIN l.node \cup {a} /\ m.node[a] = Node(v, Null, p[1])
        /\ \A b \in DOMAIN l.node : m.node[b] = linked[b]
        /\ m.node = [b \in DOMAIN m.node |-> m.node[b]]
    <3>1. a \notin DOMAIN linked /\ m.node = Placed(linked, a, Node(v, Null, p[1]))
      BY <2>3, <2>6, <2>8
    <3> DEFINE g == Placed(linked, a, Node(v, Null, p[1]))
    <3>2. /\ DOMAIN g = DOMAIN linked \cup {a} /\ g[a] = Node(v, Null, p[1])
          /\ \A b \in DOMAIN linked : g[b] = linked[b]
      BY <3>1 DEF Placed
    <3>3. g = [b \in DOMAIN linked \cup {a} |-> g[b]]
      BY <3>1 DEF Placed
    <3>4. m.node = g
      BY <3>1
    <3> HIDE DEF g
    <3> QED BY <2>8, <3>2, <3>3, <3>4
  <2>10. \A i \in 1..(N + 1) : q[i] = IF i = 1 THEN a ELSE p[i - 1]
    BY DEF Before
  <2>11. q = [i \in 1..(N + 1) |-> q[i]]
    BY DEF Before
  <2> HIDE DEF q
  <2>12. q[1] = a /\ 1 \in 1..(N + 1)
    BY <2>1, <2>10
  <2>13. \A i \in 1..N : i + 1 \in 1..(N + 1) /\ i + 1 # 1 /\ q[i + 1] = p[i]
    BY <2>1, <2>10
  <2>14. \A i \in 1..(N + 1) : i = 1 \/ \E j \in 1..N : i = j + 1
    <3>1. ASSUME NEW i \in 1..(N + 1), i # 1
          PROVE i - 1 \in 1..N /\ i = (i - 1) + 1
      BY <2>1, <3>1
    <3> QED BY <3>1
  <2>15. Order(m, q)
    <3>1. \A i \in 1..(N + 1) : q[i] \in DOMAIN m.node
      BY <2>1, <2>9, <2>12, <2>13, <2>14
    <3>2. \A b \in DOMAIN m.node : \E i \in 1..(N + 1) : q[i] = b
      BY <2>1, <2>9, <2>12, <2>13
    <3>3. \A i, j \in 1..(N + 1) : q[i] = q[j] => i = j
      <4>1. ASSUME NEW i \in 1..(N + 1), NEW j \in 1..(N + 1), q[i] = q[j]
            PROVE i = j
        <5>1. CASE i = 1 /\ j = 1
          BY <5>1
        <5>2. CASE i # 1 /\ j # 1
          <6>1. PICK u \in 1..N : i = u + 1
            BY <2>14, <5>2
          <6>2. PICK w \in 1..N : j = w + 1
            BY <2>14, <5>2
          <6>3. p[u] = p[w]
            BY <2>13, <4>1, <6>1, <6>2
          <6> QED BY <2>1, <6>1, <6>2, <6>3
        <5>3. CASE i = 1 /\ j # 1
          <6>1. PICK w \in 1..N : j = w + 1
            BY <2>14, <5>3
          <6> QED BY <2>1, <2>3, <2>12, <2>13, <4>1, <5>3, <6>1
        <5>4. CASE i # 1 /\ j = 1
          <6>1. PICK w \in 1..N : i = w + 1
            BY <2>14, <5>4
          <6> QED BY <2>1, <2>3, <2>12, <2>13, <4>1, <5>4, <6>1
        <5> QED BY <5>1, <5>2, <5>3, <5>4
      <4> QED BY <4>1
    <3> QED BY <2>6, <2>11, <3>1, <3>2, <3>3 DEF Order
  <2>16. Linked(m, q)
    <3>1. ASSUME NEW i \in 1..(N + 1), i # 1
          PROVE /\ m.node[q[i]].next = IF i = N + 1 THEN Null ELSE q[i + 1]
                /\ m.node[q[i]].prev = q[i - 1]
      <4>1. PICK j \in 1..N : i = j + 1
        BY <2>14, <3>1
      <4>2. /\ m.node[q[i]].next = l.node[p[j]].next
            /\ m.node[q[i]].prev = (IF p[j] = p[1] THEN a ELSE l.node[p[j]].prev)
        BY <2>1, <2>8, <2>9, <2>13, <4>1
      <4>3. p[j] = p[1] <=> j = 1
        BY <2>1, <2>4
      <4>4. i = N + 1 <=> j = N
        BY <2>1, <4>1
      <4>5. j # N => j + 1 \in 1..N /\ q[i + 1] = p[j + 1]
        BY <2>1, <2>13, <4>1
      <4>6. j # 1 => j - 1 \in 1..N /\ q[i - 1] = p[j - 1]
        BY <2>1, <2>10, <4>1
      <4>7. j = 1 => q[i - 1] = a
        BY <2>12, <4>1
      <4> QED BY <2>2, <4>2, <4>3, <4>4, <4>5, <4>6, <4>7
    <3>2. m.node[q[1]].next = q[2] /\ m.node[q[1]].prev = Null /\ N + 1 # 1
      <4>1. q[2] = p[1]
        BY <2>4, <2>13
      <4>2. N + 1 # 1
        BY <1>00, <2>1
      <4> QED BY <2>9, <2>12, <4>1, <4>2 DEF Node
    <3>3. m.first = q[1] /\ m.last = q[N + 1] /\ N + 1 # 0
      <4>1. N \in 1..N /\ N + 1 # 0
        BY <1>00, <2>1
      <4> QED BY <2>2, <2>6, <2>12, <2>13, <4>1
    <3>4. 1 + 1 = 2
      OBVIOUS
    <3> QED BY <2>6, <3>1, <3>2, <3>3, <3>4 DEF Linked
  <2>17. Fields(m)
    <3>1. Node(v, Null, p[1]) \in Rec
      BY <2>1, <2>4 DEF Node
    <3>2. \A b \in DOMAIN m.node : m.node[b] \in Rec
      BY <2>8, <2>9, <3>1
    <3>3. m.node = [b \in DOMAIN m.node |-> m.node[b]]
      BY <2>9
    <3>4. m.node \in [DOMAIN m.node -> Rec]
      BY <3>2, <3>3
    <3>5. DOMAIN m.node \subseteq Addr /\ N + 1 \in Nat
      BY <2>1, <2>3, <2>9
    <3> QED BY <2>6, <3>4, <3>5 DEF Fields
  <2>18. Content(m, q) = Before(Content(l, p), N, v)
    <3>1. Content(m, q) = [i \in 1..(N + 1) |-> m.node[q[i]].val]
      BY <2>6 DEF Content
    <3>2. ASSUME NEW i \in 1..(N + 1)
          PROVE m.node[q[i]].val = IF i = 1 THEN v ELSE Content(l, p)[i - 1]
      <4>1. CASE i = 1
        BY <2>9, <2>12, <4>1 DEF Node
      <4>2. CASE i # 1
        <5>1. PICK j \in 1..N : i = j + 1
          BY <2>14, <4>2
        <5>2. m.node[q[i]].val = l.node[p[j]].val /\ Content(l, p)[j] = l.node[p[j]].val
          BY SMTT(30), <2>1, <2>8, <2>9, <2>13, <5>1 DEF Content
        <5> QED BY <4>2, <5>1, <5>2
      <4> QED BY <4>1, <4>2
    <3>3. Before(Content(l, p), N, v) = [i \in 1..(N + 1) |-> IF i = 1 THEN v ELSE Content(l, p)[i - 1]]
      BY DEF Before
    <3> QED BY <3>1, <3>2, <3>3
  <2> QED BY <2>6, <2>15, <2>16, <2>17, <2>18 DEF Chain, m, q, a
<1> QED BY <1>0, <1>00

-----------------------------------------------------------------------------
(* A function defined by recursion from lo to hi exists, whatever its step *)
(* makes of a position and of the value before it, as long as it stays in  *)
(* a set.                                                                  *)
Recursive(f, lo, hi, X, start, step) ==
  f \in [lo..hi -> X] /\ f[lo] = start /\ \A i \in (lo + 1)..hi : f[i] = step[i][f[i - 1]]

LEMMA Recursion ==
  ASSUME NEW lo \in Int, NEW hi \in Int, lo <= hi, NEW X, NEW start \in X,
         NEW step, \A i \in (lo + 1)..hi : \A x \in X : step[i][x] \in X
  PROVE  \E f : Recursive(f, lo, hi, X, start, step)
<1> DEFINE G == {n \in lo..hi : \E f : Recursive(f, lo, n, X, start, step)}
<1>1. lo \in G
  <2>1. Recursive([i \in lo..lo |-> start], lo, lo, X, start, step)
    BY DEF Recursive
  <2>2. lo \in lo..hi
    OBVIOUS
  <2> QED BY <2>1, <2>2
<1>2. ASSUME NEW n \in lo..(hi - 1), n \in G
      PROVE n + 1 \in G
  <2>1. PICK f : Recursive(f, lo, n, X, start, step)
    BY <1>2
  <2> DEFINE g == [i \in lo..(n + 1) |-> IF i = n + 1 THEN step[n + 1][f[n]] ELSE f[i]]
  <2>2. f[n] \in X /\ n + 1 \in (lo + 1)..hi
    BY <2>1 DEF Recursive
  <2>3. step[n + 1][f[n]] \in X
    BY <2>2
  <2>4. g \in [lo..(n + 1) -> X]
    BY <2>1, <2>3 DEF Recursive
  <2>5. \A i \in lo..n : g[i] = f[i]
    OBVIOUS
  <2>6. g[n + 1] = step[n + 1][g[n]]
    BY <2>5
  <2>7. ASSUME NEW i \in (lo + 1)..(n + 1)
        PROVE g[i] = step[i][g[i - 1]]
    <3>1. CASE i = n + 1
      BY <2>6, <3>1
    <3>2. CASE i \in (lo + 1)..n
      <4>1. g[i] = f[i] /\ g[i - 1] = f[i - 1]
        BY <3>2, <2>5
      <4> HIDE DEF g
      <4> QED BY <4>1, <3>2, <2>1 DEF Recursive
    <3> QED BY <3>1, <3>2
  <2>8. g[lo] = start
    BY <2>1, <2>5 DEF Recursive
  <2> HIDE DEF g
  <2>9. Recursive(g, lo, n + 1, X, start, step)
    BY <2>4, <2>7, <2>8 DEF Recursive
  <2> QED BY <2>9
<1> HIDE DEF G
<1>3. \A n \in lo..hi : n \in G
  BY <1>1, <1>2, UpTo
<1>4. hi \in G
  BY <1>3
<1> QED BY <1>4 DEF G

(* What a function gives is in the set when its steps do not leave it.     *)
LEMMA RecursionStays ==
  ASSUME NEW lo \in Int, NEW hi \in Int, NEW X, NEW f,
         f[lo] \in X, \A i \in (lo + 1)..hi : f[i - 1] \in X => f[i] \in X
  PROVE  \A i \in lo..hi : f[i] \in X
<1> DEFINE G == {n \in lo..hi : f[n] \in X}
<1>1. SUFFICES ASSUME lo <= hi PROVE \A i \in lo..hi : i \in G
  OBVIOUS
<1>2. lo \in G
  BY <1>1
<1>3. ASSUME NEW n \in lo..(hi - 1), n \in G
      PROVE n + 1 \in G
  <2>1. n + 1 \in (lo + 1)..hi /\ (n + 1) - 1 = n
    OBVIOUS
  <2> QED BY <1>3, <2>1
<1> HIDE DEF G
<1> QED BY <1>2, <1>3, UpTo

(* RemoveByVal and its like: the list stays well formed at every node they *)
(* come to, also when that node has just been taken out.                   *)
Nodes == UNION {[D -> [val : Val, prev : Addr \cup {Null}, next : Addr \cup {Null}]] : D \in SUBSET Addr}
Lists == [node : Nodes, first : Addr \cup {Null}, last : Addr \cup {Null}, size : Nat]
Sweeps == [list : Lists, at : Addr \cup {Null}, removed : Nat]

WellFormed(l) == \E p : Chain(l, p)

(* Where a sweep over a list of at most n elements may be.                 *)
Sweeping(n) == {o \in Sweeps : /\ WellFormed(o.list) /\ o.list.size <= n
                               /\ o.at \in (DOMAIN o.list.node) \cup {Null}}

LEMMA InLists ==
  ASSUME NEW l, WellFormed(l)
  PROVE  l \in Lists
<1>1. PICK p : Chain(l, p)
  BY DEF WellFormed
<1>2. l.size \in Nat /\ \A i \in 1..l.size : p[i] \in Addr
  BY <1>1, NodeIs
<1>3. l.first \in Addr \cup {Null} /\ l.last \in Addr \cup {Null}
  <2>1. l.first = (IF l.size = 0 THEN Null ELSE p[1]) /\ l.last = (IF l.size = 0 THEN Null ELSE p[l.size])
    BY <1>1 DEF Chain, Linked
  <2>2. l.size # 0 => 1 \in 1..l.size /\ l.size \in 1..l.size
    BY <1>2
  <2> QED BY <1>2, <2>1, <2>2
<1>4. l.node \in Nodes
  <2>1. l.node \in [DOMAIN l.node -> [val : Val, prev : Addr \cup {Null}, next : Addr \cup {Null}]]
        /\ DOMAIN l.node \in SUBSET Addr
    BY <1>1 DEF Chain, Fields
  <2> QED BY <2>1 DEF Nodes
<1>5. l = [node |-> l.node, first |-> l.first, last |-> l.last, size |-> l.size]
  BY <1>1 DEF Chain, Fields
<1> QED BY <1>2, <1>3, <1>4, <1>5 DEF Lists

LEMMA RemoveGood ==
  ASSUME NEW l, WellFormed(l), NEW a \in DOMAIN l.node
  PROVE  /\ WellFormed(RemoveNode(l, a)) /\ RemoveNode(l, a).size = l.size - 1 /\ l.size # 0
         /\ DOMAIN RemoveNode(l, a).node = DOMAIN l.node \ {a}
<1>1. PICK p : Chain(l, p)
  BY DEF WellFormed
<1>2. PICK k \in 1..l.size : p[k] = a
  BY <1>1, NodeIs
<1>3. LET m == RemoveNode(l, p[k]) q == Cut(p, l.size, k) IN
         /\ m.size = l.size - 1 /\ Chain(m, q)
         /\ DOMAIN m.node = DOMAIN l.node \ {p[k]}
  BY <1>1, RemoveIs
<1>4. l.size \in Nat /\ l.size # 0
  BY <1>1, <1>2, NodeIs
<1> QED BY <1>2, <1>3, <1>4 DEF WellFormed

(* The neighbours of a node are other nodes of the list.                   *)
LEMMA Neighbour ==
  ASSUME NEW l, WellFormed(l), NEW a \in DOMAIN l.node
  PROVE  /\ l.node[a].next \in ((DOMAIN l.node) \ {a}) \cup {Null}
         /\ l.node[a].prev \in ((DOMAIN l.node) \ {a}) \cup {Null}
<1>1. PICK p : Chain(l, p)
  BY DEF WellFormed
<1>2. PICK k \in 1..l.size : p[k] = a
  BY <1>1, NodeIs
<1>3. l.size \in Nat /\ \A i \in 1..l.size : p[i] \in DOMAIN l.node
  BY <1>1, NodeIs
<1>4. \A i, j \in 1..l.size : p[i] = p[j] => i = j
  BY <1>1, NodeIs
<1>5. /\ l.node[a].next = (IF k = l.size THEN Null ELSE p[k + 1])
      /\ l.node[a].prev = (IF k = 1 THEN Null ELSE p[k - 1])
  BY <1>1, <1>2 DEF Chain, Linked
<1>6. (k # l.size => k + 1 \in 1..l.size /\ k + 1 # k) /\ (k # 1 => k - 1 \in 1..l.size /\ k - 1 # k)
  BY <1>3
<1> QED BY <1>2, <1>3, <1>4, <1>5, <1>6

SweepStep(o, way, v, count) ==
  IF o.at = Null \/ o.removed = count THEN o
  ELSE LET hit == o.list.node[o.at].val = v IN
       [list |-> IF hit THEN RemoveNode(o.list, o.at) ELSE o.list,
        at   |-> o.list.node[o.at][way],
        removed |-> IF hit THEN o.removed + 1 ELSE o.removed]

LEMMA SweepStepStays ==
  ASSUME NEW n \in Nat, NEW o \in Sweeping(n), NEW way \in {"next", "prev"}, NEW v, NEW count
  PROVE  SweepStep(o, way, v, count) \in Sweeping(n)
<1>1. CASE o.at = Null \/ o.removed = count
  BY <1>1 DEF SweepStep
<1>2. CASE ~(o.at = Null \/ o.removed = count)
  <2> DEFINE l == o.list
             hit == l.node[o.at].val = v
             to == l.node[o.at][way]
  <2>1. WellFormed(l) /\ l.size <= n /\ o.at \in DOMAIN l.node /\ o.removed \in Nat
    BY <1>2 DEF Sweeping, Sweeps
  <2>2. to \in ((DOMAIN l.node) \ {o.at}) \cup {Null}
    <3>1. l.node[o.at].next \in ((DOMAIN l.node) \ {o.at}) \cup {Null}
          /\ l.node[o.at].prev \in ((DOMAIN l.node) \ {o.at}) \cup {Null}
      BY <2>1, Neighbour
    <3>2. CASE way = "next"
      BY <3>1, <3>2
    <3>3. CASE way = "prev"
      BY <3>1, <3>3
    <3> QED BY <3>2, <3>3
  <2>3. SweepStep(o, way, v, count) =
          [list |-> IF hit THEN RemoveNode(l, o.at) ELSE l, at |-> to, removed |-> IF hit THEN o.removed + 1 ELSE o.removed]
    BY <1>2 DEF SweepStep
  <2> HIDE DEF to
  <2>4. CASE hit
    <3> DEFINE m == RemoveNode(l, o.at)
    <3>1. WellFormed(m) /\ m.size = l.size - 1 /\ DOMAIN m.node = DOMAIN l.node \ {o.at}
      BY <2>1, RemoveGood
    <3>2. SweepStep(o, way, v, count) = [list |-> m, at |-> to, removed |-> o.removed + 1]
      BY <2>3, <2>4
    <3> HIDE DEF m
    <3>3. m \in Lists /\ m.size <= n
      <4>1. l.size \in Nat
        BY <2>1, NodeIs DEF WellFormed
      <4> QED BY <2>1, <3>1, <4>1, InLists
    <3>4. to \in Addr \cup {Null} /\ to \in (DOMAIN m.node) \cup {Null}
      BY <2>1, <2>2, <3>1, NodeIs DEF WellFormed
    <3> QED BY <2>1, <3>1, <3>2, <3>3, <3>4 DEF Sweeping, Sweeps
  <2>5. CASE ~hit
    <3>1. SweepStep(o, way, v, count) = [list |-> l, at |-> to, removed |-> o.removed]
      BY <2>3, <2>5
    <3>2. l \in Lists
      BY <2>1, InLists
    <3>3. to \in Addr \cup {Null} /\ to \in (DOMAIN l.node) \cup {Null}
      BY <2>1, <2>2, NodeIs DEF WellFormed
    <3> HIDE DEF hit
    <3> QED BY <2>1, <3>1, <3>2, <3>3 DEF Sweeping, Sweeps
  <2> QED BY <2>4, <2>5
<1> QED BY <1>1, <1>2

(* The turns of the loop: where it is after each.                          *)
Swept(s, l, end, way, v, count) ==
  /\ s[0] = [list |-> l, at |-> end, removed |-> 0]
  /\ \A j \in 1..l.size : s[j] = SweepStep(s[j - 1], way, v, count)

LEMMA SweepRuns ==
  ASSUME NEW l, WellFormed(l), NEW end \in (DOMAIN l.node) \cup {Null},
         NEW way \in {"next", "prev"}, NEW v, NEW count
  PROVE  \E s : Swept(s, l, end, way, v, count) /\ Sweep(l, end, way, v, count) = s[l.size]
                /\ s[0] \in Sweeping(l.size)
<1> DEFINE start == [list |-> l, at |-> end, removed |-> 0]
           N == l.size
           s[j \in 0..N] ==
             IF j = 0 THEN start
             ELSE LET o == s[j - 1] IN
                  IF o.at = Null \/ o.removed = count THEN o
                  ELSE LET hit == o.list.node[o.at].val = v IN
                       [list |-> IF hit THEN RemoveNode(o.list, o.at) ELSE o.list,
                        at   |-> o.list.node[o.at][way],
                        removed |-> IF hit THEN o.removed + 1 ELSE o.removed]
           Solves(g) == g = [j \in 0..N |-> IF j = 0 THEN start ELSE SweepStep(g[j - 1], way, v, count)]
           T == Sweeping(N)
<1>1. Sweep(l, end, way, v, count) = s[N]
  BY DEF Sweep
<1>2. s = CHOOSE g : Solves(g)
  BY DEF s, SweepStep
<1>l. N \in Nat /\ N \in Int /\ 0 \in Int /\ 0 <= N
  BY NodeIs DEF WellFormed
<1>3. start \in T
  <2>1. l \in Lists
    BY InLists
  <2>2. end \in Addr \cup {Null}
    BY NodeIs DEF WellFormed
  <2> QED BY <1>l, <2>1, <2>2 DEF Sweeping, Sweeps
<1>4. \A o \in T : SweepStep(o, way, v, count) \in T
  BY <1>l, SweepStepStays
<1> HIDE DEF start, T, s
<1>5. \E g : Solves(g)
  <2> DEFINE step == [j \in (0 + 1)..N |-> [o \in T |-> SweepStep(o, way, v, count)]]
  <2>1. \A j \in (0 + 1)..N : \A o \in T : step[j][o] = SweepStep(o, way, v, count)
    OBVIOUS
  <2>2. \A j \in (0 + 1)..N : \A o \in T : step[j][o] \in T
    BY <1>4, <2>1
  <2> HIDE DEF step, Solves
  <2>3. PICK g : Recursive(g, 0, N, T, start, step)
    BY <1>l, <1>3, <2>2, Recursion
  <2>4. g \in [0..N -> T] /\ g[0] = start /\ \A j \in (0 + 1)..N : g[j] = step[j][g[j - 1]]
    BY <2>3 DEF Recursive
  <2>5. ASSUME NEW j \in 0..N
        PROVE g[j] = IF j = 0 THEN start ELSE SweepStep(g[j - 1], way, v, count)
    <3>1. CASE j = 0
      BY <2>4, <3>1
    <3>2. CASE j \in (0 + 1)..N
      <4>1. j - 1 \in 0..N /\ j # 0
        BY <1>l, <3>2
      <4>2. g[j - 1] \in T
        BY <2>4, <4>1
      <4> QED BY <2>1, <2>4, <3>2, <4>1, <4>2
    <3> QED BY <1>l, <3>1, <3>2
  <2>6. g = [j \in 0..N |-> g[j]]
    BY <2>4
  <2>7. g = [j \in 0..N |-> IF j = 0 THEN start ELSE SweepStep(g[j - 1], way, v, count)]
    BY <2>5, <2>6
  <2> QED BY <2>7 DEF Solves
<1>6. Solves(s)
  <2> HIDE DEF Solves
  <2> QED BY <1>2, <1>5
<1>7. \A j \in 0..N : s[j] = IF j = 0 THEN start ELSE SweepStep(s[j - 1], way, v, count)
  BY <1>6
<1>8. s[0] = start /\ \A j \in 1..N : s[j] = SweepStep(s[j - 1], way, v, count)
  BY <1>7, <1>l
<1> HIDE DEF Solves
<1>9. Swept(s, l, end, way, v, count) /\ Sweep(l, end, way, v, count) = s[l.size] /\ s[0] \in Sweeping(l.size)
  BY <1>1, <1>3, <1>8, Zenon DEF Swept, start, T
<1> QED BY <1>9

LEMMA SweepStays ==
  ASSUME NEW l, WellFormed(l), NEW end \in (DOMAIN l.node) \cup {Null},
         NEW way \in {"next", "prev"}, NEW v, NEW count
  PROVE  Sweep(l, end, way, v, count) \in Sweeping(l.size)
<1> DEFINE T == Sweeping(l.size)
<1>1. PICK s : Swept(s, l, end, way, v, count) /\ Sweep(l, end, way, v, count) = s[l.size] /\ s[0] \in T
  BY SweepRuns
<1>2. l.size \in Nat /\ 0 \in Int /\ l.size \in Int /\ 0 + 1 = 1
  BY NodeIs DEF WellFormed
<1>3. ASSUME NEW j \in (0 + 1)..l.size, s[j - 1] \in T
      PROVE s[j] \in T
  <2>1. s[j] = SweepStep(s[j - 1], way, v, count)
    BY <1>1, <1>2 DEF Swept
  <2> QED BY <1>2, <1>3, <2>1, SweepStepStays
<1> HIDE DEF T
<1>4. \A j \in 0..l.size : s[j] \in T
  BY <1>1, <1>2, <1>3, RecursionStays
<1> QED BY <1>1, <1>2, <1>4 DEF T

-----------------------------------------------------------------------------
(* What the commands do to a well-formed list.                             *)
LEMMA FreshGood == WellFormed(Fresh)
<1>1. Fields(Fresh)
  BY DEF Fields, Fresh
<1>2. Order(Fresh, <<>>) /\ Linked(Fresh, <<>>)
  BY DEF Order, Linked, Fresh
<1> QED BY <1>1, <1>2 DEF WellFormed, Chain

LEMMA DroppedGood ==
  ASSUME NEW l, WellFormed(l)
  PROVE  WellFormed(Dropped(l)) /\ Dropped(l).size = l.size
BY FreshGood DEF Dropped, Fresh

(* The ends of a list, and what an element of it holds.                    *)
LEMMA EndsIn ==
  ASSUME NEW l, WellFormed(l)
  PROVE  /\ l.size \in Nat
         /\ l.size # 0 => /\ l.first \in DOMAIN l.node /\ l.last \in DOMAIN l.node
                          /\ l.node[l.last].val \in Val
         /\ l.first \in (DOMAIN l.node) \cup {Null} /\ l.last \in (DOMAIN l.node) \cup {Null}
         /\ \A i \in 0..(l.size - 1) : Find(l, i) \in DOMAIN l.node
<1>1. PICK p : Chain(l, p)
  BY DEF WellFormed
<1>2. l.size \in Nat
  BY <1>1, NodeIs
<1>3. \A i \in 1..l.size : p[i] \in DOMAIN l.node
                           /\ l.node[p[i]] \in [val : Val, prev : Addr \cup {Null}, next : Addr \cup {Null}]
  BY <1>1, NodeIs
<1>4. l.first = (IF l.size = 0 THEN Null ELSE p[1]) /\ l.last = (IF l.size = 0 THEN Null ELSE p[l.size])
  BY <1>1 DEF Chain, Linked
<1>5. l.size # 0 => 1 \in 1..l.size /\ l.size \in 1..l.size
  BY <1>2
<1>6. ASSUME NEW i \in 0..(l.size - 1)
      PROVE Find(l, i) \in DOMAIN l.node
  <2>1. Find(l, i) = p[i + 1] /\ i + 1 \in 1..l.size
    BY <1>1, <1>2, FindIs
  <2> QED BY <1>3, <2>1
<1> QED BY <1>2, <1>3, <1>4, <1>5, <1>6

(* Writing an element moves no node.                                       *)
LEMMA SetIs ==
  ASSUME NEW l, NEW p, Chain(l, p), NEW k \in 1..l.size, NEW v \in Val
  PROVE  LET m == [l EXCEPT !.node[p[k]].val = v] IN
         /\ Chain(m, p) /\ m.size = l.size
         /\ \A i \in 1..l.size : m.node[p[i]].val = IF i = k THEN v ELSE l.node[p[i]].val
<1> DEFINE a == p[k]
           m == [l EXCEPT !.node[a].val = v]
           Rec == [val : Val, prev : Addr \cup {Null}, next : Addr \cup {Null}]
<1>1. Chain(l, p) /\ a \in DOMAIN l.node /\ \A i \in 1..l.size : p[i] = a <=> i = k
  BY NodeIs
<1> HIDE DEF a
<1>2. DOMAIN l = {"node", "first", "last", "size"}
      /\ l = [node |-> l.node, first |-> l.first, last |-> l.last, size |-> l.size]
  BY <1>1 DEF Chain, Fields
<1>3. l.node \in [DOMAIN l.node -> Rec]
  BY <1>1 DEF Chain, Fields
<1>4. /\ m.node = [l.node EXCEPT ![a].val = v] /\ m.first = l.first /\ m.last = l.last /\ m.size = l.size
      /\ DOMAIN m = {"node", "first", "last", "size"}
      /\ m = [node |-> m.node, first |-> m.first, last |-> m.last, size |-> m.size]
  BY <1>2
<1> HIDE DEF m
<1>5. /\ DOMAIN m.node = DOMAIN l.node /\ m.node \in [DOMAIN l.node -> Rec]
      /\ \A b \in DOMAIN l.node : m.node[b].next = l.node[b].next /\ m.node[b].prev = l.node[b].prev
      /\ \A b \in DOMAIN l.node : m.node[b].val = IF b = a THEN v ELSE l.node[b].val
  <2> DEFINE x == [l.node[a] EXCEPT !.val = v]
  <2>1. l.node[a] \in Rec
    BY <1>1, <1>3
  <2>2. x \in Rec /\ x.next = l.node[a].next /\ x.prev = l.node[a].prev /\ x.val = v
    BY <2>1
  <2>3. m.node = [l.node EXCEPT ![a] = x]
    BY <1>4
  <2> HIDE DEF x, Rec
  <2>4. DOMAIN m.node = DOMAIN l.node /\ m.node \in [DOMAIN l.node -> Rec]
    BY <1>3, <2>2, <2>3
  <2>5. \A b \in DOMAIN l.node : m.node[b] = IF b = a THEN x ELSE l.node[b]
    BY <1>3, <2>3
  <2> QED BY <2>2, <2>4, <2>5
<1>6. Fields(m)
  BY <1>1, <1>4, <1>5 DEF Chain, Fields
<1>7. Order(m, p)
  BY <1>1, <1>4, <1>5 DEF Chain, Order
<1>8. Linked(m, p)
  <2>1. \A i \in 1..l.size : p[i] \in DOMAIN l.node
    BY <1>1, NodeIs
  <2> QED BY <1>1, <1>4, <1>5, <2>1 DEF Chain, Linked
<1>9. Chain(m, p)
  BY <1>6, <1>7, <1>8 DEF Chain
<1>10. \A i \in 1..l.size : m.node[p[i]].val = IF i = k THEN v ELSE l.node[p[i]].val
  <2>1. \A i \in 1..l.size : p[i] \in DOMAIN l.node
    BY <1>1, NodeIs
  <2> QED BY <1>1, <1>5, <2>1
<1> QED BY <1>4, <1>9, <1>10 DEF m, a

LEMMA SetGood ==
  ASSUME NEW l, WellFormed(l), NEW a \in DOMAIN l.node, NEW v \in Val
  PROVE  LET m == [l EXCEPT !.node[a].val = v] IN WellFormed(m) /\ m.size = l.size
<1>1. PICK p : Chain(l, p)
  BY DEF WellFormed
<1>2. PICK k \in 1..l.size : p[k] = a
  BY <1>1, NodeIs
<1> DEFINE m == [l EXCEPT !.node[p[k]].val = v]
<1>3. Chain(m, p) /\ m.size = l.size
  BY <1>1, SetIs
<1> QED BY <1>2, <1>3 DEF WellFormed

LEMMA AddGood ==
  ASSUME NEW l, WellFormed(l), l.size <= MaxLen, NEW v \in Val
  PROVE  /\ WellFormed(Add(l, v)) /\ Add(l, v).size = l.size + 1
         /\ WellFormed(Insert(l, 0, v)) /\ Insert(l, 0, v).size = l.size + 1
<1>1. PICK p : Chain(l, p)
  BY DEF WellFormed
<1>2. LET m == Add(l, v) q == Behind(p, l.size, NewAddr(l)) IN m.size = l.size + 1 /\ Chain(m, q)
  BY <1>1, AddIs
<1>3. LET m == Insert(l, 0, v) q == Before(p, l.size, NewAddr(l)) IN m.size = l.size + 1 /\ Chain(m, q)
  BY <1>1, InsertIs
<1> QED BY <1>2, <1>3 DEF WellFormed

ListInv == WellFormed(list) /\ list.size <= MaxLen

LEMMA NextGood ==
  ASSUME ListInv, [Next]_list
  PROVE  ListInv'
<1>0. WellFormed(list) /\ list.size <= MaxLen /\ list.size \in Nat /\ MaxLen \in Nat
  BY EndsIn, ListAssumption DEF ListInv
<1>1. ASSUME NEW m, WellFormed(m), m.size <= MaxLen, list' = m
      PROVE ListInv'
  BY <1>1 DEF ListInv
<1>2. CASE list' = list
  BY <1>0, <1>1, <1>2
<1>3. ASSUME NEW v \in Val, list.size < MaxLen, list' = LPush(list, v).list
      PROVE ListInv'
  <2>1. list' = Insert(list, 0, v)
    BY <1>3 DEF LPush, Result
  <2>2. WellFormed(Insert(list, 0, v)) /\ Insert(list, 0, v).size = list.size + 1
    BY <1>0, <1>3, AddGood
  <2> QED BY <1>0, <1>1, <1>3, <2>1, <2>2
<1>4. ASSUME NEW v \in Val, list.size < MaxLen, list' = RPush(list, v).list
      PROVE ListInv'
  <2>1. list' = Add(list, v)
    BY <1>4 DEF RPush, Result
  <2>2. WellFormed(Add(list, v)) /\ Add(list, v).size = list.size + 1
    BY <1>0, <1>4, AddGood
  <2> QED BY <1>0, <1>1, <1>4, <2>1, <2>2
<1>5. ASSUME NEW a \in DOMAIN list.node, list' = Dropped(RemoveNode(list, a))
      PROVE ListInv'
  <2>1. WellFormed(RemoveNode(list, a)) /\ RemoveNode(list, a).size = list.size - 1
    BY <1>0, RemoveGood
  <2>2. WellFormed(Dropped(RemoveNode(list, a))) /\ Dropped(RemoveNode(list, a)).size = list.size - 1
    BY <2>1, DroppedGood
  <2> QED BY <1>0, <1>1, <1>5, <2>2
<1>6. CASE list' = LPop(list).list
  <2>1. CASE Missing(list)
    BY <1>2, <1>6, <2>1 DEF LPop, Result
  <2>2. CASE ~Missing(list)
    <3>1. 0 \in 0..(list.size - 1)
      BY <1>0, <2>2 DEF Missing
    <3>2. Find(list, 0) \in DOMAIN list.node
      BY <1>0, <3>1, EndsIn
    <3>3. list' = Dropped(RemoveNode(list, Find(list, 0)))
      BY <1>6, <2>2 DEF LPop, Pop, Result
    <3> QED BY <1>5, <3>2, <3>3
  <2> QED BY <2>1, <2>2
<1>7. CASE list' = RPop(list).list
  <2>1. CASE Missing(list)
    BY <1>2, <1>7, <2>1 DEF RPop, Result
  <2>2. CASE ~Missing(list)
    <3>1. list.last \in DOMAIN list.node
      BY <1>0, <2>2, EndsIn DEF Missing
    <3>2. list' = Dropped(RemoveNode(list, list.last))
      BY <1>7, <2>2 DEF RPop, Pop, Result
    <3> QED BY <1>5, <3>1, <3>2
  <2> QED BY <2>1, <2>2
<1>8. CASE list' = RPopLPush(list).list
  <2>1. CASE Missing(list)
    BY <1>2, <1>8, <2>1 DEF RPopLPush, Result
  <2>2. CASE ~Missing(list)
    <3> DEFINE m == RemoveNode(list, list.last)
               v == list.node[list.last].val
    <3>1. list.last \in DOMAIN list.node /\ v \in Val
      BY <1>0, <2>2, EndsIn DEF Missing
    <3>2. list' = Dropped(Insert(m, 0, v))
      BY <1>8, <2>2 DEF RPopLPush, Result
    <3>3. WellFormed(m) /\ m.size = list.size - 1
      BY <1>0, <3>1, RemoveGood
    <3> HIDE DEF m, v
    <3>4. WellFormed(Insert(m, 0, v)) /\ Insert(m, 0, v).size = m.size + 1
      BY <1>0, <3>1, <3>3, AddGood
    <3>5. WellFormed(Dropped(Insert(m, 0, v))) /\ Dropped(Insert(m, 0, v)).size = m.size + 1
      BY <3>4, DroppedGood
    <3> QED BY <1>0, <1>1, <3>2, <3>3, <3>5
  <2> QED BY <2>1, <2>2
<1>9. ASSUME NEW n \in Arg, NEW v \in Val, list' = LRem(list, n, v).list
      PROVE ListInv'
  <2>1. \E s \in Sweeping(list.size) : list' = Dropped(s.list)
    <3>1. /\ list.first \in (DOMAIN list.node) \cup {Null} /\ list.last \in (DOMAIN list.node) \cup {Null}
          /\ n \in Int
      BY <1>0, EndsIn, ListAssumption
    <3>2. CASE n = 0
      <4>1. list' = Dropped(Sweep(list, list.first, "next", v, NoCount).list)
        BY <1>9, <3>2 DEF LRem, Result
      <4> QED BY <1>0, <3>1, <4>1, SweepStays
    <3>3. CASE n > 0
      <4>1. list' = Dropped(Sweep(list, list.first, "next", v, n).list)
        BY <1>9, <3>1, <3>3 DEF LRem, Result
      <4> QED BY <1>0, <3>1, <4>1, SweepStays
    <3>4. CASE n < 0
      <4>1. list' = Dropped(Sweep(list, list.last, "prev", v, -n).list)
        BY <1>9, <3>1, <3>4 DEF LRem, Result
      <4> QED BY <1>0, <3>1, <4>1, SweepStays
    <3> QED BY <3>1, <3>2, <3>3, <3>4
  <2>2. PICK s \in Sweeping(list.size) : list' = Dropped(s.list)
    BY <2>1
  <2>3. WellFormed(s.list) /\ s.list.size <= list.size
    BY DEF Sweeping
  <2>4. s.list.size \in Nat /\ WellFormed(Dropped(s.list)) /\ Dropped(s.list).size = s.list.size
    BY <2>3, EndsIn, DroppedGood
  <2> QED BY <1>0, <1>1, <2>2, <2>3, <2>4
<1>10. ASSUME NEW i \in Arg, NEW v \in Val, list' = LSet(list, i, v).list
       PROVE ListInv'
  <2>1. CASE Outside(list, i)
    BY <1>2, <1>10, <2>1 DEF LSet, Result
  <2>2. CASE ~Outside(list, i)
    <3> DEFINE a == Find(list, Counted(list, i))
    <3>1. Counted(list, i) \in 0..(list.size - 1)
      BY <1>0, <2>2, ListAssumption DEF Outside, Counted
    <3>2. a \in DOMAIN list.node
      BY <1>0, <3>1, EndsIn
    <3>3. list' = [list EXCEPT !.node[a].val = v]
      BY <1>10, <2>2 DEF LSet, Result
    <3> HIDE DEF a
    <3>4. LET m == [list EXCEPT !.node[a].val = v] IN WellFormed(m) /\ m.size = list.size
      BY <1>0, <3>2, SetGood
    <3> QED BY <1>0, <1>1, <3>3, <3>4
  <2> QED BY <2>1, <2>2
<1> QED BY <1>2, <1>3, <1>4, <1>6, <1>7, <1>8, <1>9, <1>10 DEF Next

(* Whatever commands come, the nodes can be put in an order that the        *)
(* pointers follow both ways (linked.go).                                  *)
THEOREM ListInvHolds == Spec => []ListInv
<1>1. Init => ListInv
  <2> SUFFICES ASSUME Init PROVE ListInv
    OBVIOUS
  <2> QED BY FreshGood, ListAssumption DEF Init, ListInv, Fresh
<1>2. ListInv /\ [Next]_list => ListInv'
  BY NextGood
<1> QED BY <1>1, <1>2, PTL DEF Spec

(* The pointers undo each other, none leads out of the list, and the size  *)
(* kept aside is the number of nodes a walk from the head meets.           *)
THEOREM LinksGoBothWays == Spec => []TwoWay
<1>1. ListInv => TwoWay
  <2> SUFFICES ASSUME ListInv PROVE TwoWay
    OBVIOUS
  <2>1. PICK p : Chain(list, p)
    BY DEF ListInv, WellFormed
  <2> DEFINE N == list.size
             L == DOMAIN list.node
  <2>2. /\ N \in Nat /\ Null \notin L /\ L \subseteq Addr
        /\ \A i \in 1..N : p[i] \in L /\ p[i] # Null
                           /\ list.node[p[i]] \in [val : Val, prev : Addr \cup {Null}, next : Addr \cup {Null}]
        /\ \A i, j \in 1..N : p[i] = p[j] => i = j
        /\ \A a \in L : \E i \in 1..N : p[i] = a
    BY <2>1, NodeIs
  <2>3. /\ \A i \in 1..N : /\ list.node[p[i]].next = IF i = N THEN Null ELSE p[i + 1]
                           /\ list.node[p[i]].prev = IF i = 1 THEN Null ELSE p[i - 1]
        /\ list.first = (IF N = 0 THEN Null ELSE p[1]) /\ list.last = (IF N = 0 THEN Null ELSE p[N])
    BY <2>1 DEF Chain, Linked
  <2>4. ASSUME NEW i \in 1..N
        PROVE (i # N => i + 1 \in 1..N) /\ (i # 1 => i - 1 \in 1..N) /\ 1 \in 1..N /\ N \in 1..N /\ N # 0
    BY <2>2
  <2>5. TypeOK
    <3>1. N \in 0..MaxLen
      BY <2>2, ListAssumption DEF ListInv
    <3>2. {list.first, list.last} \subseteq L \cup {Null}
      BY <2>1, EndsIn DEF WellFormed
    <3>3. list.node \in [L -> [val : Val, prev : Addr \cup {Null}, next : Addr \cup {Null}]]
      BY <2>1 DEF Chain, Fields
    <3>4. \A a \in L : list.node[a].next \in L \cup {Null} /\ list.node[a].prev \in L \cup {Null}
      BY <2>1, Neighbour DEF WellFormed
    <3>5. \A a \in L : list.node[a] \in [val : Val, prev : L \cup {Null}, next : L \cup {Null}]
      BY <3>3, <3>4
    <3>6. list.node \in [L -> [val : Val, prev : L \cup {Null}, next : L \cup {Null}]]
      BY <3>3, <3>5
    <3> QED BY <2>2, <3>1, <3>2, <3>6 DEF TypeOK, Live
  <2>6. ASSUME NEW a \in L, NEW b \in L
        PROVE list.node[a].next = b <=> list.node[b].prev = a
    <3>1. PICK i \in 1..N : p[i] = a
      BY <2>2
    <3>2. PICK j \in 1..N : p[j] = b
      BY <2>2
    <3>3. list.node[a].next = b <=> j = i + 1
      BY <2>2, <2>3, <2>4, <3>1, <3>2
    <3>4. list.node[b].prev = a <=> j = i + 1
      BY <2>2, <2>3, <2>4, <3>1, <3>2
    <3> QED BY <3>3, <3>4
  <2>7. ASSUME NEW a \in L
        PROVE (list.node[a].prev = Null <=> list.first = a) /\ (list.node[a].next = Null <=> list.last = a)
    <3>1. PICK i \in 1..N : p[i] = a
      BY <2>2
    <3> QED BY <2>2, <2>3, <2>4, <3>1
  <2>8. L = {Walk(list, list.first, "next", n) : n \in 0..(N - 1)}
    <3>1. \A n \in 0..(N - 1) : Walk(list, list.first, "next", n) = p[n + 1] /\ n + 1 \in 1..N
      BY <2>1, <2>2, Forwards
    <3>2. \A i \in 1..N : i - 1 \in 0..(N - 1) /\ p[i] = Walk(list, list.first, "next", i - 1)
      <4>1. \A i \in 1..N : i - 1 \in 0..(N - 1) /\ (i - 1) + 1 = i
        BY <2>2
      <4> QED BY <3>1, <4>1
    <3> QED BY <2>2, <3>1, <3>2
  <2> QED BY <2>5, <2>6, <2>7, <2>8 DEF TwoWay, Live
<1> QED BY <1>1, ListInvHolds, PTL

-----------------------------------------------------------------------------
(* The positions D in increasing order: the i-th is e[i].                  *)
Picks(e, m, D) ==
  /\ m \in Nat /\ e \in [1..m -> D] /\ \A t \in D : \E i \in 1..m : e[i] = t
  /\ \A i, j \in 1..m : i < j => e[i] < e[j]

(* What is left of s at the positions e.                                   *)
Kept(s, e, m) == [i \in 1..m |-> s[e[i]]]

LEMMA Cardinal == \A D : S!Cardinality(D) = Cardinality(D)
<1> SUFFICES ASSUME NEW D PROVE S!Cardinality(D) = Cardinality(D)
  OBVIOUS
<1> QED BY Zenon DEF S!Cardinality, Cardinality

LEMMA PicksCount ==
  ASSUME NEW D, D \subseteq Int, NEW m, NEW e, Picks(e, m, D)
  PROVE  Cardinality(D) = m /\ \A i \in 1..m : Cardinality({q \in D : q <= e[i]}) = i
<1>0. /\ m \in Nat /\ e \in [1..m -> D] /\ \A t \in D : \E i \in 1..m : e[i] = t
      /\ \A i, j \in 1..m : i < j => e[i] < e[j]
      /\ \A i \in 1..m : e[i] \in Int
  BY DEF Picks
<1>1. ASSUME NEW n \in 0..m, NEW T, T = {e[i] : i \in 1..n}
      PROVE Cardinality(T) = n
  <2> DEFINE f == [i \in 1..n |-> e[i]]
  <2>1. n \in Nat /\ \A i \in 1..n : i \in 1..m
    BY <1>0
  <2>2. f \in [1..n -> T] /\ \A t \in T : \E i \in 1..n : f[i] = t
    BY <1>1
  <2>3. ASSUME NEW i \in 1..n, NEW j \in 1..n, f[i] = f[j]
        PROVE i = j
    BY <1>0, <2>1, <2>3
  <2>4. DOMAIN f = 1..n
    OBVIOUS
  <2> HIDE DEF f
  <2>5. f \in Bijection(1..n, T)
    BY <2>2, <2>3, <2>4 DEF Bijection, Injection, Surjection, IsInjective
  <2> QED BY <2>1, <2>5, FS_CountingElements DEF ExistsBijection
<1>2. D = {e[i] : i \in 1..m}
  BY <1>0
<1>3. ASSUME NEW n \in 1..m
      PROVE Cardinality({q \in D : q <= e[n]}) = n
  <2>1. \A i \in 1..m : e[i] <= e[n] <=> i <= n
    BY <1>0
  <2>2. \A i \in 1..n : i \in 1..m /\ i <= n
    BY <1>0
  <2>3. {q \in D : q <= e[n]} = {e[i] : i \in 1..n}
    <3>1. ASSUME NEW q \in D, q <= e[n]
          PROVE q \in {e[i] : i \in 1..n}
      <4>1. PICK i \in 1..m : e[i] = q
        BY <1>0
      <4> QED BY <1>0, <2>1, <3>1, <4>1
    <3>2. ASSUME NEW i \in 1..n
          PROVE e[i] \in D /\ e[i] <= e[n]
      BY <1>0, <2>1, <2>2
    <3> QED BY <3>1, <3>2
  <2> QED BY <1>0, <1>1, <2>3
<1>4. Cardinality(D) = m
  BY <1>0, <1>1, <1>2
<1> QED BY <1>3, <1>4

LEMMA KeepIs ==
  ASSUME NEW s, NEW D, D \subseteq Int, NEW m, NEW e, Picks(e, m, D)
  PROVE  S!Keep(s, D) = Kept(s, e, m)
<1>0. m \in Nat /\ e \in [1..m -> D] /\ \A t \in D : \E i \in 1..m : e[i] = t
  BY DEF Picks
<1>1. Cardinality(D) = m /\ \A i \in 1..m : Cardinality({q \in D : q <= e[i]}) = i
  BY PicksCount
<1>2. S!Cardinality(D) = m
  BY <1>1, Cardinal
<1>3. ASSUME NEW i \in 1..m
      PROVE (CHOOSE p \in D : S!Cardinality({q \in D : q <= p}) = i) = e[i]
  <2> DEFINE P(p) == S!Cardinality({q \in D : q <= p}) = i
             c == CHOOSE p \in D : P(p)
  <2>1. e[i] \in D /\ P(e[i])
    BY <1>0, <1>1, Cardinal
  <2>2. c \in D /\ P(c)
    <3> HIDE DEF P
    <3> QED BY <2>1
  <2> HIDE DEF c
  <2>3. PICK k \in 1..m : e[k] = c
    BY <1>0, <2>2
  <2>4. Cardinality({q \in D : q <= e[k]}) = k
    BY <1>1
  <2>5. S!Cardinality({q \in D : q <= c}) = k
    BY <2>3, <2>4, Cardinal
  <2>6. k = i
    BY <2>2, <2>5
  <2>7. c = e[i]
    BY <2>3, <2>6
  <2> QED BY <2>7 DEF c
<1>4. S!Keep(s, D) = [i \in 1..m |-> s[CHOOSE p \in D : S!Cardinality({q \in D : q <= p}) = i]]
  BY <1>2 DEF S!Keep
<1> QED BY <1>3, <1>4 DEF Kept

-----------------------------------------------------------------------------
(* The elements of a list in the order p are what LRANGE walks over.       *)
LEMMA ItemsIs ==
  ASSUME NEW l, NEW p, Chain(l, p)
  PROVE  /\ Items(l) = Content(l, p) /\ Items(l) \in Seq(Val) /\ Len(Items(l)) = l.size
         /\ \A i \in 1..l.size : Items(l)[i] = l.node[p[i]].val
<1>1. l.size \in Nat /\ \A i \in 1..l.size : p[i] \in DOMAIN l.node /\ l.node[p[i]].val \in Val
  BY NodeIs
<1>2. ASSUME NEW j \in 1..(l.size - 0)
      PROVE Walk(l, l.first, "next", 0 + j - 1) = p[j] /\ j \in 1..l.size
  <2>1. j - 1 \in 0..(l.size - 1) /\ 0 + j - 1 = j - 1 /\ (j - 1) + 1 = j /\ j \in 1..l.size
    BY <1>1
  <2> QED BY <2>1, Forwards
<1>3. 1..(l.size - 0) = 1..l.size
  BY <1>1
<1>4. Items(l) = [j \in 1..l.size |-> l.node[p[j]].val]
  BY <1>2, <1>3 DEF Items, RangeOf
<1>5. Items(l) \in [1..l.size -> Val]
  BY <1>1, <1>4
<1>6. Items(l) \in Seq(Val) /\ Len(Items(l)) = l.size
  BY <1>1, <1>5
<1> QED BY <1>4, <1>6 DEF Content

LEMMA ItemsGood ==
  ASSUME NEW l, WellFormed(l)
  PROVE  /\ l.size \in Nat /\ Items(l) \in Seq(Val) /\ Len(Items(l)) = l.size
         /\ Items(l) = <<>> <=> l.size = 0
<1>1. l.size \in Nat /\ Items(l) \in Seq(Val) /\ Len(Items(l)) = l.size
  BY ItemsIs, NodeIs DEF WellFormed
<1> QED BY <1>1

LEMMA DroppedItems ==
  ASSUME NEW l, WellFormed(l)
  PROVE  Items(Dropped(l)) = Items(l)
<1>1. CASE l.size = 0
  <2>1. WellFormed(Fresh) /\ Fresh.size = 0
    BY FreshGood DEF Fresh
  <2>2. Items(Fresh) = <<>> /\ Items(l) = <<>>
    BY <1>1, <2>1, ItemsGood
  <2> QED BY <1>1, <2>2 DEF Dropped
<1> QED BY <1>1 DEF Dropped

(* The node at k taken out.                                                *)
LEMMA RemoveItems ==
  ASSUME NEW l, NEW p, Chain(l, p), NEW k \in 1..l.size
  PROVE  LET m == RemoveNode(l, p[k]) IN
         /\ WellFormed(m) /\ m.size = l.size - 1
         /\ Items(Dropped(m)) = Items(m)
         /\ Items(m) = Cut(Items(l), l.size, k)
<1> DEFINE m == RemoveNode(l, p[k])
           q == Cut(p, l.size, k)
<1>1. m.size = l.size - 1 /\ Chain(m, q) /\ Content(m, q) = Cut(Content(l, p), l.size, k)
  BY RemoveIs
<1> HIDE DEF m, q
<1>2. WellFormed(m) /\ Items(m) = Content(m, q) /\ Items(l) = Content(l, p)
  BY <1>1, ItemsIs DEF WellFormed
<1>3. WellFormed(m) /\ m.size = l.size - 1 /\ Items(Dropped(m)) = Items(m) /\ Items(m) = Cut(Items(l), l.size, k)
  BY <1>1, <1>2, DroppedItems
<1> QED BY <1>3 DEF m

LEMMA AddItems ==
  ASSUME NEW l, WellFormed(l), l.size <= MaxLen, NEW v \in Val
  PROVE  /\ Items(Add(l, v)) = Items(l) \o <<v>> /\ Add(l, v).size = l.size + 1
         /\ Items(Insert(l, 0, v)) = <<v>> \o Items(l) /\ Insert(l, 0, v).size = l.size + 1
<1>1. PICK p : Chain(l, p)
  BY DEF WellFormed
<1>2. l.size \in Nat /\ Items(l) = Content(l, p) /\ Items(l) \in Seq(Val) /\ Len(Items(l)) = l.size
  BY <1>1, ItemsIs, NodeIs
<1>3. Items(Add(l, v)) = Behind(Items(l), l.size, v) /\ Add(l, v).size = l.size + 1
  <2> DEFINE m == Add(l, v)
             q == Behind(p, l.size, NewAddr(l))
  <2>1. m.size = l.size + 1 /\ Chain(m, q) /\ Content(m, q) = Behind(Content(l, p), l.size, v)
    BY <1>1, AddIs
  <2> HIDE DEF m, q
  <2>2. Items(m) = Content(m, q)
    BY <2>1, ItemsIs
  <2>3. Items(m) = Behind(Items(l), l.size, v) /\ m.size = l.size + 1
    BY <1>2, <2>1, <2>2
  <2> QED BY <2>3 DEF m
<1>4. Items(Insert(l, 0, v)) = Before(Items(l), l.size, v) /\ Insert(l, 0, v).size = l.size + 1
  <2> DEFINE m == Insert(l, 0, v)
             q == Before(p, l.size, NewAddr(l))
  <2>1. m.size = l.size + 1 /\ Chain(m, q) /\ Content(m, q) = Before(Content(l, p), l.size, v)
    BY <1>1, InsertIs
  <2> HIDE DEF m, q
  <2>2. Items(m) = Content(m, q)
    BY <2>1, ItemsIs
  <2>3. Items(m) = Before(Items(l), l.size, v) /\ m.size = l.size + 1
    BY <1>2, <2>1, <2>2
  <2> QED BY <2>3 DEF m
<1>5. ASSUME NEW s \in Seq(Val)
      PROVE Behind(s, Len(s), v) = s \o <<v>> /\ Before(s, Len(s), v) = <<v>> \o s
  BY DEF Behind, Before
<1> QED BY <1>2, <1>3, <1>4, <1>5

LEMMA CutEnds ==
  ASSUME NEW s \in Seq(Val), s # <<>>
  PROVE  /\ Cut(s, Len(s), 1) = Tail(s) /\ Head(s) = s[1]
         /\ Cut(s, Len(s), Len(s)) = S!Front(s) /\ S!Last(s) = s[Len(s)] /\ S!Front(s) \in Seq(Val)
<1>1. Len(s) \in Nat /\ Len(s) # 0
  OBVIOUS
<1>2. Tail(s) \in Seq(Val) /\ Len(Tail(s)) = Len(s) - 1 /\ \A i \in 1..(Len(s) - 1) : Tail(s)[i] = s[i + 1]
  OBVIOUS
<1>3. Tail(s) = [i \in 1..(Len(s) - 1) |-> s[i + 1]]
  <2> DEFINE t == Tail(s)
  <2>1. t \in Seq(Val) /\ Len(t) = Len(s) - 1 /\ \A i \in 1..(Len(s) - 1) : t[i] = s[i + 1]
    BY <1>2
  <2> HIDE DEF t
  <2>2. t = [i \in 1..(Len(s) - 1) |-> t[i]]
    BY <2>1
  <2>3. t = [i \in 1..(Len(s) - 1) |-> s[i + 1]]
    BY <2>1, <2>2
  <2> QED BY <2>3 DEF t
<1>4. Cut(s, Len(s), 1) = [i \in 1..(Len(s) - 1) |-> s[i + 1]]
  BY <1>1 DEF Cut
<1>5. Head(s) = s[1]
  BY <1>1
<1>6. Cut(s, Len(s), Len(s)) = S!Front(s) /\ S!Last(s) = s[Len(s)] /\ S!Front(s) \in Seq(Val)
  BY <1>1 DEF Cut, S!Front, S!Last
<1> QED BY <1>3, <1>4, <1>5, <1>6

-----------------------------------------------------------------------------
(* The commands that push and pop, LLEN, LINDEX and LSET.                  *)
LEMMA PushesLike ==
  ASSUME NEW l, WellFormed(l), l.size <= MaxLen, NEW v \in Val
  PROVE  LET s == Items(l) IN
         /\ Like(LPush(l, v), S!LPush(s, v)) /\ Like(LPushX(l, v), S!LPushX(s, v))
         /\ Like(RPush(l, v), S!RPush(s, v)) /\ Like(RPushX(l, v), S!RPushX(s, v))
<1> DEFINE s == Items(l)
<1>1. l.size \in Nat /\ s \in Seq(Val) /\ Len(s) = l.size /\ (s = <<>> <=> l.size = 0)
  BY ItemsGood
<1>2. /\ Items(Add(l, v)) = s \o <<v>> /\ Add(l, v).size = l.size + 1
      /\ Items(Insert(l, 0, v)) = <<v>> \o s /\ Insert(l, 0, v).size = l.size + 1
  BY AddItems
<1> HIDE DEF s
<1>3. Len(s \o <<v>>) = l.size + 1 /\ Len(<<v>> \o s) = l.size + 1
  BY <1>1
<1>4. Like(LPush(l, v), S!LPush(s, v)) /\ Like(RPush(l, v), S!RPush(s, v))
  BY <1>2, <1>3 DEF Like, LPush, RPush, Result, S!LPush, S!RPush, S!Pushed, S!Result
<1>5. CASE l.size = 0
  <2>1. Items(l) = s
    BY DEF s
  <2> QED BY <1>1, <1>4, <1>5, <2>1 DEF Like, LPushX, RPushX, Missing, Result, S!LPushX, S!RPushX, S!Result, s
<1>6. CASE l.size # 0
  BY <1>1, <1>4, <1>6 DEF LPushX, RPushX, Missing, S!LPushX, S!RPushX, s
<1> QED BY <1>5, <1>6 DEF s

LEMMA PopsLike ==
  ASSUME NEW l, WellFormed(l), l.size <= MaxLen
  PROVE  LET s == Items(l) IN
         /\ Like(LPop(l), S!LPop(s)) /\ Like(RPop(l), S!RPop(s))
         /\ Like(RPopLPush(l), S!RPopLPush(s)) /\ Like(LLen(l), S!LLen(s))
<1> DEFINE s == Items(l)
           N == l.size
<1>1. N \in Nat /\ s \in Seq(Val) /\ Len(s) = N /\ (s = <<>> <=> N = 0) /\ MaxLen \in Nat
  BY ItemsGood, ListAssumption
<1>2. Like(LLen(l), S!LLen(s))
  BY <1>1 DEF Like, LLen, S!LLen, Result, S!Result
<1>3. CASE N = 0
  BY <1>1, <1>2, <1>3 DEF Like, LPop, RPop, RPopLPush, Missing, Result, S!LPop, S!RPop, S!RPopLPush, S!Result
<1>4. CASE N # 0
  <2>1. PICK p : Chain(l, p)
    BY DEF WellFormed
  <2>2. 1 \in 1..N /\ N \in 1..N /\ 0 \in 0..(N - 1)
    BY <1>1, <1>4
  <2>3. Find(l, 0) = p[1] /\ l.last = p[N]
    <3>1. Find(l, 0) = p[0 + 1]
      BY <2>1, <2>2, FindIs
    <3> QED BY <2>1, <1>4, <3>1 DEF Chain, Linked
  <2>4. \A i \in 1..N : l.node[p[i]].val = s[i] /\ s[i] \in Val
    BY <1>1, <2>1, ItemsIs
  <2>5. Cut(s, N, 1) = Tail(s) /\ Head(s) = s[1]
    BY <1>1, <1>4, CutEnds
  <2>6. Cut(s, N, N) = S!Front(s) /\ S!Last(s) = s[N] /\ S!Front(s) \in Seq(Val)
    BY <1>1, <1>4, CutEnds
  <2>7. Like(LPop(l), S!LPop(s))
    <3> DEFINE m == RemoveNode(l, p[1])
    <3>1. Items(Dropped(m)) = Cut(s, N, 1)
      BY <2>1, <2>2, RemoveItems
    <3>2. LPop(l) = [list |-> Dropped(m), reply |-> <<l.node[p[1]].val>>]
      BY <1>4, <2>3 DEF LPop, Missing, Pop, Result
    <3>3. S!LPop(s) = [items |-> Tail(s), reply |-> <<s[1]>>]
      BY <1>1, <1>4, <2>5 DEF S!LPop, S!Result
    <3> HIDE DEF m, s
    <3> QED BY <2>2, <2>4, <2>5, <3>1, <3>2, <3>3 DEF Like
  <2>8. Like(RPop(l), S!RPop(s))
    <3> DEFINE m == RemoveNode(l, p[N])
    <3>1. Items(Dropped(m)) = Cut(s, N, N)
      BY <2>1, <2>2, RemoveItems
    <3>2. RPop(l) = [list |-> Dropped(m), reply |-> <<l.node[p[N]].val>>]
      BY <1>4, <2>3 DEF RPop, Missing, Pop, Result
    <3>3. S!RPop(s) = [items |-> S!Front(s), reply |-> <<s[N]>>]
      BY <1>1, <1>4, <2>6 DEF S!RPop, S!Result
    <3> HIDE DEF m, s
    <3> QED BY <2>2, <2>4, <2>6, <3>1, <3>2, <3>3 DEF Like
  <2>9. Like(RPopLPush(l), S!RPopLPush(s))
    <3> DEFINE m == RemoveNode(l, p[N])
               v == l.node[p[N]].val
    <3>1. WellFormed(m) /\ m.size = N - 1 /\ Items(m) = Cut(s, N, N)
      BY <2>1, <2>2, RemoveItems
    <3>2. RPopLPush(l) = [list |-> Dropped(Insert(m, 0, v)), reply |-> <<v>>]
      BY <1>4, <2>3 DEF RPopLPush, Missing, Result
    <3>3. S!RPopLPush(s) = [items |-> <<s[N]>> \o S!Front(s), reply |-> <<s[N]>>]
      BY <1>1, <1>4, <2>6 DEF S!RPopLPush, S!Result
    <3>4. v = s[N] /\ v \in Val
      BY <2>2, <2>4
    <3> HIDE DEF m, v, s
    <3>5. m.size <= MaxLen
      BY <1>1, <3>1
    <3>6. Items(Insert(m, 0, v)) = <<v>> \o S!Front(s) /\ WellFormed(Insert(m, 0, v))
      BY <2>6, <3>1, <3>4, <3>5, AddItems, AddGood
    <3>7. Items(Dropped(Insert(m, 0, v))) = <<v>> \o S!Front(s)
      BY <3>6, DroppedItems
    <3> QED BY <3>2, <3>3, <3>4, <3>7 DEF Like
  <2> QED BY <1>2, <2>7, <2>8, <2>9
<1> QED BY <1>3, <1>4

LEMMA PlacesLike ==
  ASSUME NEW l, WellFormed(l), NEW i \in Int
  PROVE  LET s == Items(l) IN
         /\ Like(LIndex(l, i), S!LIndex(s, i))
         /\ \A v \in Val : Like(LSet(l, i, v), S!LSet(s, i, v))
<1> DEFINE s == Items(l)
           N == l.size
           j == Counted(l, i)
<1>1. N \in Nat /\ s \in Seq(Val) /\ Len(s) = N
  BY ItemsGood
<1>2. j \in Int /\ S!Place(s, i) = j /\ (S!Has(s, i) <=> j \in 0..(N - 1)) /\ (Outside(l, i) <=> j \notin 0..(N - 1))
  BY <1>1 DEF Counted, Outside, S!Place, S!Has
<1> HIDE DEF j
<1>3. CASE j \notin 0..(N - 1)
  BY <1>2, <1>3 DEF Like, LIndex, LSet, Result, S!LIndex, S!LSet, S!Result
<1>4. CASE j \in 0..(N - 1)
  <2>1. PICK p : Chain(l, p)
    BY DEF WellFormed
  <2>2. j + 1 \in 1..N
    BY <1>1, <1>4
  <2>3. Find(l, j) = p[j + 1]
    BY <1>4, <2>1, FindIs
  <2>4. \A k \in 1..N : l.node[p[k]].val = s[k]
    BY <1>1, <2>1, ItemsIs
  <2>5. Like(LIndex(l, i), S!LIndex(s, i))
    <3>1. LIndex(l, i) = [list |-> l, reply |-> <<l.node[p[j + 1]].val>>]
      BY <1>2, <1>4, <2>3 DEF LIndex, Result, j
    <3>2. S!LIndex(s, i) = [items |-> s, reply |-> <<s[j + 1]>>]
      BY <1>2, <1>4 DEF S!LIndex, S!Result
    <3> QED BY <2>2, <2>4, <3>1, <3>2 DEF Like
  <2>6. ASSUME NEW v \in Val
        PROVE Like(LSet(l, i, v), S!LSet(s, i, v))
    <3> DEFINE m == [l EXCEPT !.node[p[j + 1]].val = v]
    <3>1. LSet(l, i, v) = [list |-> m, reply |-> <<>>]
      BY <1>2, <1>4, <2>3 DEF LSet, Result, j
    <3>2. S!LSet(s, i, v) = [items |-> [s EXCEPT ![j + 1] = v], reply |-> <<>>]
      BY <1>2, <1>4 DEF S!LSet, S!Result
    <3>3. Items(m) = [s EXCEPT ![j + 1] = v]
      <4>1. Chain(m, p) /\ m.size = N /\ \A k \in 1..N : m.node[p[k]].val = IF k = j + 1 THEN v ELSE s[k]
        BY <2>1, <2>2, <2>4, SetIs
      <4> HIDE DEF m, s
      <4>2. Items(m) \in Seq(Val) /\ Len(Items(m)) = N /\ \A k \in 1..N : Items(m)[k] = IF k = j + 1 THEN v ELSE s[k]
        BY <4>1, ItemsIs
      <4>3. [s EXCEPT ![j + 1] = v] \in Seq(Val) /\ Len([s EXCEPT ![j + 1] = v]) = N
            /\ \A k \in 1..N : [s EXCEPT ![j + 1] = v][k] = IF k = j + 1 THEN v ELSE s[k]
        BY <1>1, <2>2
      <4> QED BY <4>2, <4>3
    <3> HIDE DEF m
    <3> QED BY <3>1, <3>2, <3>3 DEF Like
  <2> QED BY <2>5, <2>6
<1> QED BY <1>3, <1>4

(* LRANGE: what is left of the places after their normalisation is one     *)
(* stretch of the list.                                                    *)
LEMMA RangeLike ==
  ASSUME NEW l, WellFormed(l), NEW a \in Int, NEW b \in Int
  PROVE  Like(LRange(l, a, b), S!LRange(Items(l), a, b))
<1> DEFINE s == Items(l)
           N == l.size
           start == CASE a < -N -> 0 [] a \in -N..-1 -> N + a [] OTHER -> a
           stop == CASE b < -N -> 0 [] b \in -N..-1 -> N + b + 1
                     [] b \in 0..(N - 1) -> b + 1 [] OTHER -> N
           t == IF stop < start THEN start ELSE stop
           D == {p \in DOMAIN s : S!Place(s, a) <= p - 1 /\ p - 1 <= S!Place(s, b)}
           given == IF start >= N THEN <<>> ELSE RangeOf(l, start, t)
<1>1. N \in Nat /\ s \in Seq(Val) /\ Len(s) = N /\ DOMAIN s = 1..N
  BY ItemsGood
<1>2. LRange(l, a, b) = [list |-> l, reply |-> given]
  BY DEF LRange, Result
<1>3. S!LRange(s, a, b) = [items |-> s, reply |-> S!Keep(s, D)]
  BY DEF S!LRange, S!Result
<1>4. start \in Nat /\ \A p \in 1..N : S!Place(s, a) <= p - 1 <=> start <= p - 1
  <2>1. S!Place(s, a) = IF a < 0 THEN N + a ELSE a
    BY <1>1 DEF S!Place
  <2> HIDE DEF s
  <2>2. CASE a < -N
    BY <1>1, <2>1, <2>2
  <2>3. CASE a \in -N..-1
    BY <1>1, <2>1, <2>3
  <2>4. CASE a >= 0
    BY <1>1, <2>1, <2>4
  <2> QED BY <1>1, <2>2, <2>3, <2>4
<1>5. stop \in 0..N /\ \A p \in 1..N : p - 1 <= S!Place(s, b) <=> p <= stop
  <2>1. S!Place(s, b) = IF b < 0 THEN N + b ELSE b
    BY <1>1 DEF S!Place
  <2> HIDE DEF s
  <2>2. CASE b < -N
    BY <1>1, <2>1, <2>2
  <2>3. CASE b \in -N..-1
    BY SMTT(30), <1>1, <2>1, <2>3
  <2>4. CASE b \in 0..(N - 1)
    BY <1>1, <2>1, <2>4
  <2>5. CASE b >= N
    BY <1>1, <2>1, <2>5
  <2> QED BY <1>1, <2>2, <2>3, <2>4, <2>5
<1> HIDE DEF start, stop
<1>6. D = {p \in 1..N : start + 1 <= p /\ p <= stop}
  <2>1. \A p \in 1..N : start <= p - 1 <=> start + 1 <= p
    BY <1>4
  <2> HIDE DEF s
  <2> QED BY <1>1, <1>4, <1>5, <2>1
<1> HIDE DEF D, s
<1>7. S!Keep(s, D) = given
  <2>1. CASE start >= N
    <3>1. D = {}
      BY <1>1, <1>4, <1>6, <2>1
    <3> DEFINE e == <<>>
    <3>2. Picks(e, 0, D) /\ D \subseteq Int
      BY <3>1 DEF Picks
    <3> HIDE DEF e
    <3>3. S!Keep(s, D) = Kept(s, e, 0)
      BY <3>2, KeepIs
    <3> QED BY <2>1, <3>3 DEF Kept
  <2>2. CASE start < N
    <3> DEFINE m == t - start
               e == [i \in 1..m |-> start + i]
    <3>1. t \in start..N /\ m \in Nat /\ t = start + m
      BY <1>1, <1>4, <1>5, <2>2
    <3>2. \A p \in Int : p \in D <=> start + 1 <= p /\ p <= t
      BY <1>1, <1>4, <1>5, <1>6, <3>1
    <3>3. D \subseteq Int
      BY <1>6
    <3> HIDE DEF t, m
    <3>4. Picks(e, m, D)
      <4>1. \A i \in 1..m : start + i \in D
        BY <1>4, <3>1, <3>2
      <4>2. \A p \in D : p - start \in 1..m /\ start + (p - start) = p
        BY <1>4, <3>1, <3>2, <3>3
      <4>3. \A p \in D : e[p - start] = p
        BY <4>2
      <4>4. e \in [1..m -> D]
        BY <4>1
      <4>5. \A i, j \in 1..m : i < j => e[i] < e[j]
        BY <1>4
      <4> HIDE DEF e
      <4> QED BY <3>1, <4>2, <4>3, <4>4, <4>5 DEF Picks
    <3>5. S!Keep(s, D) = Kept(s, e, m)
      <4> HIDE DEF e
      <4> QED BY <3>3, <3>4, KeepIs
    <3>6. S!Keep(s, D) = [i \in 1..m |-> s[start + i]]
      BY <3>5 DEF Kept
    <3>7. given = [i \in 1..(t - start) |-> l.node[Walk(l, l.first, "next", start + i - 1)].val]
      BY <1>1, <1>4, <2>2 DEF RangeOf
    <3>8. PICK p : Chain(l, p)
      BY DEF WellFormed
    <3>9. ASSUME NEW i \in 1..(t - start)
          PROVE l.node[Walk(l, l.first, "next", start + i - 1)].val = s[start + i]
      <4>1. start + i - 1 \in 0..(N - 1) /\ (start + i - 1) + 1 = start + i /\ start + i \in 1..N
        BY <1>1, <1>4, <3>1
      <4>2. Walk(l, l.first, "next", start + i - 1) = p[start + i]
        BY <3>8, <4>1, Forwards
      <4> QED BY <3>8, <4>1, <4>2, ItemsIs DEF s
    <3> QED BY <3>6, <3>7, <3>9 DEF m
  <2> QED BY <1>1, <1>4, <2>1, <2>2
<1> HIDE DEF given
<1> QED BY <1>2, <1>3, <1>7 DEF Like, s

-----------------------------------------------------------------------------
(* Removal by value.  A sweep comes to the positions in turn, At is the    *)
(* j-th and Done are those it has left; Doomed are those it is to remove:  *)
(* as long as it has not removed `count', every one that holds v.          *)
At(n, way, j) == IF way = "next" THEN j ELSE n + 1 - j
Done(n, way, j) == IF way = "next" THEN 1..j ELSE (n + 1 - j)..n
Doomed(E, s, way, v, count) ==
  /\ E \subseteq 1..Len(s)
  /\ \A j \in 1..Len(s) : At(Len(s), way, j) \in E
       <=> s[At(Len(s), way, j)] = v /\ Cardinality(E \cap Done(Len(s), way, j - 1)) # count

(* Every position is come to once.                                         *)
InTurn(n, way) ==
  /\ Done(n, way, 0) = {} /\ Done(n, way, n) = 1..n
  /\ \A j \in 1..n : /\ At(n, way, j) \in 1..n /\ At(n, way, j) \notin Done(n, way, j - 1)
                     /\ Done(n, way, j) = Done(n, way, j - 1) \cup {At(n, way, j)}

LEMMA AtDone ==
  ASSUME NEW n \in Nat, NEW way \in {"next", "prev"}
  PROVE  InTurn(n, way)
<1>1. CASE way = "next"
  <2>1. Done(n, way, 0) = {} /\ Done(n, way, n) = 1..n
    BY <1>1 DEF Done
  <2>2. ASSUME NEW j \in 1..n
        PROVE /\ j \in 1..n /\ j \notin 1..(j - 1) /\ 1..j = (1..(j - 1)) \cup {j}
    OBVIOUS
  <2> QED BY <1>1, <2>1, <2>2 DEF At, Done, InTurn
<1>2. CASE way # "next"
  <2>1. Done(n, way, 0) = {} /\ Done(n, way, n) = 1..n
    BY <1>2 DEF Done
  <2>2. ASSUME NEW j \in 1..n
        PROVE /\ n + 1 - j \in 1..n /\ n + 1 - j \notin (n + 1 - (j - 1))..n
              /\ (n + 1 - j)..n = ((n + 1 - (j - 1))..n) \cup {n + 1 - j}
    OBVIOUS
  <2> QED BY <1>2, <2>1, <2>2 DEF At, Done, InTurn
<1> QED BY <1>1, <1>2

(* Taking a position out of those that are picked.                         *)
LEMMA CutPicks ==
  ASSUME NEW D, D \subseteq Int, NEW m, NEW e, Picks(e, m, D), NEW k \in 1..m
  PROVE  Picks(Cut(e, m, k), m - 1, D \ {e[k]})
<1>0. /\ m \in Nat /\ e \in [1..m -> D] /\ \A t \in D : \E i \in 1..m : e[i] = t
      /\ \A i, j \in 1..m : i < j => e[i] < e[j]
      /\ \A i \in 1..m : e[i] \in Int /\ e[i] \in D
  BY DEF Picks
<1> DEFINE f == Cut(e, m, k)
<1>1. /\ m - 1 \in Nat /\ \A i \in 1..(m - 1) : i \in 1..m /\ i + 1 \in 1..m /\ f[i] = IF i < k THEN e[i] ELSE e[i + 1]
      /\ DOMAIN f = 1..(m - 1) /\ f = [i \in 1..(m - 1) |-> f[i]]
  BY <1>0 DEF Cut
<1> HIDE DEF f
<1>2. \A i \in 1..(m - 1) : f[i] \in D \ {e[k]}
  <2>1. \A i \in 1..m : i # k => e[i] # e[k]
    BY <1>0
  <2> QED BY <1>0, <1>1, <2>1
<1>3. f \in [1..(m - 1) -> D \ {e[k]}]
  BY <1>1, <1>2
<1>4. ASSUME NEW t \in D \ {e[k]}
      PROVE \E i \in 1..(m - 1) : f[i] = t
  <2>1. PICK i \in 1..m : e[i] = t
    BY <1>0
  <2>2. i # k
    BY <2>1
  <2>3. CASE i < k
    <3>1. i \in 1..(m - 1)
      BY <1>0, <2>3
    <3> QED BY <1>1, <2>1, <2>3, <3>1
  <2>4. CASE i > k
    <3>1. i - 1 \in 1..(m - 1) /\ ~(i - 1 < k) /\ (i - 1) + 1 = i
      BY <1>0, <2>4
    <3> QED BY <1>1, <2>1, <3>1
  <2> QED BY <2>2, <2>3, <2>4
<1>5. ASSUME NEW i \in 1..(m - 1), NEW j \in 1..(m - 1), i < j
      PROVE f[i] < f[j]
  <2>1. f[i] = IF i < k THEN e[i] ELSE e[i + 1]
    BY <1>1
  <2>2. f[j] = IF j < k THEN e[j] ELSE e[j + 1]
    BY <1>1
  <2>3. i \in 1..m /\ i + 1 \in 1..m /\ j \in 1..m /\ j + 1 \in 1..m
    BY <1>1
  <2>4. e[i] < e[j] /\ e[i] < e[j + 1] /\ e[i + 1] < e[j + 1]
    BY <1>0, <1>5, <2>3
  <2> QED BY <1>5, <2>1, <2>2, <2>4
<1> QED BY <1>1, <1>3, <1>4, <1>5 DEF Picks, f

LEMMA CutKept ==
  ASSUME NEW m \in Nat, NEW p, NEW e, NEW k \in 1..m
  PROVE  Cut(Kept(p, e, m), m, k) = Kept(p, Cut(e, m, k), m - 1)
<1>1. \A i \in 1..(m - 1) : i \in 1..m /\ i + 1 \in 1..m
  OBVIOUS
<1> QED BY <1>1 DEF Cut, Kept

(* The neighbours of a position that is picked, if they are or are none.   *)
Adjoining(e, m, D, k) ==
  /\ e[k] + 1 \in D => k + 1 \in 1..m /\ e[k + 1] = e[k] + 1
  /\ (\A t \in D : t <= e[k]) => k = m
  /\ e[k] - 1 \in D => k - 1 \in 1..m /\ e[k - 1] = e[k] - 1
  /\ (\A t \in D : t >= e[k]) => k = 1

LEMMA PickNext ==
  ASSUME NEW D, D \subseteq Int, NEW m, NEW e, Picks(e, m, D), NEW k \in 1..m
  PROVE  Adjoining(e, m, D, k)
<1>0. /\ m \in Nat /\ \A t \in D : \E i \in 1..m : e[i] = t
      /\ \A i, j \in 1..m : i < j => e[i] < e[j]
      /\ \A i \in 1..m : e[i] \in Int /\ e[i] \in D
  BY DEF Picks
<1>1. ASSUME e[k] + 1 \in D
      PROVE k + 1 \in 1..m /\ e[k + 1] = e[k] + 1
  <2>1. PICK i \in 1..m : e[i] = e[k] + 1
    BY <1>0, <1>1
  <2>2. i > k
    BY <1>0, <2>1
  <2>3. k + 1 \in 1..m /\ e[k] < e[k + 1] /\ e[k + 1] \in Int
    BY <1>0, <2>2
  <2>4. i > k + 1 => e[k + 1] < e[i]
    BY <1>0, <2>3
  <2>5. i = k + 1
    BY <1>0, <2>1, <2>2, <2>3, <2>4
  <2> QED BY <2>1, <2>3, <2>5
<1>2. ASSUME \A t \in D : t <= e[k]
      PROVE k = m
  <2>1. CASE k < m
    <3>1. k + 1 \in 1..m
      BY <1>0, <2>1
    <3>2. e[k] < e[k + 1] /\ e[k + 1] \in D /\ e[k] \in Int /\ e[k + 1] \in Int
      BY <1>0, <3>1
    <3> QED BY <1>2, <3>2
  <2> QED BY <1>0, <2>1
<1>3. ASSUME e[k] - 1 \in D
      PROVE k - 1 \in 1..m /\ e[k - 1] = e[k] - 1
  <2>1. PICK i \in 1..m : e[i] = e[k] - 1
    BY <1>0, <1>3
  <2>2. i < k
    BY <1>0, <2>1
  <2>3. k - 1 \in 1..m /\ e[k - 1] < e[k] /\ e[k - 1] \in Int
    BY <1>0, <2>2
  <2>4. i < k - 1 => e[i] < e[k - 1]
    BY <1>0, <2>3
  <2>5. i = k - 1
    BY <1>0, <2>1, <2>2, <2>3, <2>4
  <2> QED BY <2>1, <2>3, <2>5
<1>4. ASSUME \A t \in D : t >= e[k]
      PROVE k = 1
  <2>1. CASE k > 1
    <3>1. k - 1 \in 1..m
      BY <1>0, <2>1
    <3>2. e[k - 1] < e[k] /\ e[k - 1] \in D /\ e[k] \in Int /\ e[k - 1] \in Int
      BY <1>0, <3>1, <2>1
    <3> QED BY <1>4, <3>2
  <2> QED BY <1>0, <2>1
<1> QED BY <1>1, <1>2, <1>3, <1>4 DEF Adjoining

(* What a sweep has made of the list when j positions are behind it.       *)
SweptTo(o, l, p, E, way, count, j) ==
  \E e, m :
    /\ Picks(e, m, (1..l.size) \ (E \cap Done(l.size, way, j)))
    /\ o.list.size = m /\ Chain(o.list, Kept(p, e, m))
    /\ Content(o.list, Kept(p, e, m)) = Kept(Content(l, p), e, m)
    /\ o.removed = Cardinality(E \cap Done(l.size, way, j))
    /\ o.removed = count \/ o.at = (IF j = l.size THEN Null ELSE p[At(l.size, way, j + 1)])

LEMMA SweepStepIs ==
  ASSUME NEW l, NEW p, Chain(l, p), NEW way \in {"next", "prev"}, NEW v, NEW count,
         NEW E, Doomed(E, Content(l, p), way, v, count),
         NEW j \in 1..l.size, NEW o, SweptTo(o, l, p, E, way, count, j - 1)
  PROVE  SweptTo(SweepStep(o, way, v, count), l, p, E, way, count, j)
<1> DEFINE N == l.size
           s == Content(l, p)
           t == At(N, way, j)
           Gone == E \cap Done(N, way, j - 1)
           D == (1..N) \ Gone
           end == IF j = N THEN Null ELSE p[At(N, way, j + 1)]
<1>1. PICK e, m :
        /\ Picks(e, m, D)
        /\ o.list.size = m /\ Chain(o.list, Kept(p, e, m))
        /\ Content(o.list, Kept(p, e, m)) = Kept(s, e, m)
        /\ o.removed = Cardinality(Gone)
        /\ o.removed = count \/ o.at = (IF j - 1 = N THEN Null ELSE p[At(N, way, (j - 1) + 1)])
  BY DEF SweptTo
<1> DEFINE q == Kept(p, e, m)
<1>2. N \in Nat /\ Len(s) = N /\ DOMAIN s = 1..N
  BY NodeIs DEF Content
<1>3. /\ t \in 1..N /\ t \notin Done(N, way, j - 1)
      /\ Done(N, way, j) = Done(N, way, j - 1) \cup {t}
  <2>1. InTurn(N, way)
    BY <1>2, AtDone
  <2> QED BY <2>1 DEF InTurn
<1>4. t \in E <=> s[t] = v /\ Cardinality(Gone) # count
  BY <1>2 DEF Doomed
<1>5. /\ t \notin E => E \cap Done(N, way, j) = Gone
      /\ t \in E => /\ E \cap Done(N, way, j) = Gone \cup {t} /\ t \notin Gone
                    /\ (1..N) \ (E \cap Done(N, way, j)) = D \ {t}
  BY <1>3
<1>6. D \subseteq Int /\ t \in D /\ IsFiniteSet(Gone)
  <2>1. E \subseteq 1..N
    BY <1>2 DEF Doomed
  <2>2. IsFiniteSet(1..N)
    BY <1>2, FS_Interval
  <2>3. Gone \in SUBSET (1..N)
    BY <2>1
  <2>4. IsFiniteSet(Gone)
    BY <2>2, <2>3, FS_Subset
  <2> QED BY <1>3, <2>4
<1>7. CASE o.removed = count
  <2>1. SweepStep(o, way, v, count) = o /\ t \notin E
    BY <1>1, <1>4, <1>7 DEF SweepStep
  <2>2. /\ Picks(e, m, (1..N) \ (E \cap Done(N, way, j)))
        /\ o.removed = Cardinality(E \cap Done(N, way, j))
    BY <1>1, <1>5, <2>1
  <2> QED BY <1>1, <1>7, <2>1, <2>2 DEF SweptTo
<1>8. CASE o.removed # count
  <2>1. o.at = p[t] /\ p[t] # Null
    <3>1. j - 1 # N /\ (j - 1) + 1 = j
      BY <1>2
    <3> QED BY <1>1, <1>3, <1>8, <3>1, NodeIs
  <2>2. PICK k \in 1..m : e[k] = t
    BY <1>1, <1>6 DEF Picks
  <2>3. m \in Nat /\ \A i \in 1..m : q[i] = p[e[i]] /\ e[i] \in D
    BY <1>1 DEF Picks, Kept
  <2>4. q[k] = p[t]
    BY <2>2, <2>3
  <2>5. o.list.node[p[t]].val = s[t]
    <3>1. Content(o.list, q)[k] = o.list.node[q[k]].val
      BY <1>1 DEF Content
    <3>2. Kept(s, e, m)[k] = s[t]
      BY <2>2 DEF Kept
    <3> QED BY <1>1, <2>4, <3>1, <3>2
  <2>6. o.list.node[p[t]].val = v <=> t \in E
    BY <1>1, <1>4, <1>8, <2>5
  <2>7. o.list.node[p[t]][way] = end
    <3>1. /\ o.list.node[q[k]].next = IF k = m THEN Null ELSE q[k + 1]
          /\ o.list.node[q[k]].prev = IF k = 1 THEN Null ELSE q[k - 1]
      BY <1>1, <2>2 DEF Chain, Linked
    <3>2. /\ t + 1 \in D => k + 1 \in 1..m /\ e[k + 1] = t + 1
          /\ (\A u \in D : u <= t) => k = m
          /\ t - 1 \in D => k - 1 \in 1..m /\ e[k - 1] = t - 1
          /\ (\A u \in D : u >= t) => k = 1
      <4> HIDE DEF D, t
      <4>1. Adjoining(e, m, D, k)
        BY <1>1, <1>6, PickNext
      <4> QED BY <2>2, <4>1 DEF Adjoining
    <3>3. CASE way = "next"
      <4>1. t = j /\ At(N, way, j + 1) = j + 1 /\ Done(N, way, j - 1) = 1..(j - 1)
        BY <3>3 DEF At, Done
      <4>2. CASE j = N
        <5>1. \A u \in D : u <= t
          BY <1>2, <4>1, <4>2
        <5> QED BY <2>4, <3>1, <3>2, <3>3, <4>2, <5>1
      <4>3. CASE j # N
        <5>1. t + 1 \in D
          BY <1>2, <4>1, <4>3
        <5>2. k # m /\ q[k + 1] = p[j + 1]
          BY <2>3, <3>2, <4>1, <5>1
        <5> QED BY <2>4, <3>1, <3>3, <4>1, <4>3, <5>2
      <4> QED BY <4>2, <4>3
    <3>4. CASE way = "prev"
      <4>1. t = N + 1 - j /\ At(N, way, j + 1) = N + 1 - (j + 1) /\ Done(N, way, j - 1) = (N + 1 - (j - 1))..N
        BY <3>4 DEF At, Done
      <4>2. CASE j = N
        <5>1. \A u \in D : u >= t
          BY <1>2, <4>1, <4>2
        <5> QED BY <2>4, <3>1, <3>2, <3>4, <4>2, <5>1
      <4>3. CASE j # N
        <5>1. t - 1 \in D /\ At(N, way, j + 1) = t - 1
          BY SMTT(30), <1>2, <4>1, <4>3
        <5>2. k # 1 /\ q[k - 1] = p[t - 1]
          BY <2>3, <3>2, <5>1
        <5> QED BY <2>4, <3>1, <3>4, <4>3, <5>1, <5>2
      <4> QED BY <4>2, <4>3
    <3> QED BY <3>3, <3>4
  <2>8. SweepStep(o, way, v, count) =
          [list |-> IF t \in E THEN RemoveNode(o.list, p[t]) ELSE o.list, at |-> end,
           removed |-> IF t \in E THEN o.removed + 1 ELSE o.removed]
    <3> HIDE DEF t, end
    <3> QED BY <1>8, <2>1, <2>6, <2>7 DEF SweepStep
  <2>9. CASE t \notin E
    <3> DEFINE u == [list |-> o.list, at |-> end, removed |-> o.removed]
    <3>1. SweepStep(o, way, v, count) = u
      BY <2>8, <2>9
    <3>2. u.list = o.list /\ u.at = end /\ u.removed = o.removed
      OBVIOUS
    <3> HIDE DEF u
    <3>3. SweptTo(u, l, p, E, way, count, j)
      BY <1>1, <1>5, <2>9, <3>2 DEF SweptTo
    <3> QED BY <3>1, <3>3
  <2>10. CASE t \in E
    <3> DEFINE g == RemoveNode(o.list, q[k])
               f == Cut(e, m, k)
               u == [list |-> g, at |-> end, removed |-> o.removed + 1]
    <3>1. g.size = m - 1 /\ Chain(g, Cut(q, m, k)) /\ Content(g, Cut(q, m, k)) = Cut(Kept(s, e, m), m, k)
      <4>1. k \in 1..o.list.size
        BY <1>1
      <4> HIDE DEF q
      <4>2. LET b == RemoveNode(o.list, q[k]) c == Cut(q, o.list.size, k) IN
              b.size = o.list.size - 1 /\ Chain(b, c) /\ Content(b, c) = Cut(Content(o.list, q), o.list.size, k)
        BY <1>1, <4>1, RemoveIs DEF q
      <4> QED BY <1>1, <4>2 DEF q
    <3>2. Cut(q, m, k) = Kept(p, f, m - 1) /\ Cut(Kept(s, e, m), m, k) = Kept(s, f, m - 1)
      BY <2>3, CutKept
    <3>3. Picks(f, m - 1, D \ {t})
      BY <1>1, <1>6, <2>2, CutPicks
    <3>4. Cardinality(Gone \cup {t}) = Cardinality(Gone) + 1
      BY <1>5, <1>6, <2>10, FS_AddElement
    <3>5. SweepStep(o, way, v, count) = u
      BY <2>4, <2>8, <2>10
    <3>6. u.list = g /\ u.at = end /\ u.removed = o.removed + 1
      OBVIOUS
    <3> HIDE DEF u, g, f, q
    <3> DEFINE r == m - 1
    <3>7. /\ Picks(f, r, (1..N) \ (E \cap Done(N, way, j)))
          /\ u.list.size = r /\ Chain(u.list, Kept(p, f, r))
          /\ Content(u.list, Kept(p, f, r)) = Kept(s, f, r)
          /\ u.removed = Cardinality(E \cap Done(N, way, j))
      <4> HIDE DEF t, Gone, D, s, N
      <4> QED BY <1>1, <1>5, <2>10, <3>1, <3>2, <3>3, <3>4, <3>6
    <3> HIDE DEF r
    <3>8. SweptTo(u, l, p, E, way, count, j)
      BY <3>6, <3>7 DEF SweptTo
    <3> QED BY <3>5, <3>8
  <2> QED BY <2>9, <2>10
<1> QED BY <1>7, <1>8

LEMMA SweepIs ==
  ASSUME NEW l, WellFormed(l), NEW way \in {"next", "prev"}, NEW v, NEW count,
         NEW E, Doomed(E, Items(l), way, v, count)
  PROVE  LET o == Sweep(l, IF way = "next" THEN l.first ELSE l.last, way, v, count) IN
         /\ WellFormed(o.list) /\ Items(o.list) = S!Keep(Items(l), (1..l.size) \ E)
         /\ o.removed = Cardinality(E)
<1> DEFINE end == IF way = "next" THEN l.first ELSE l.last
           N == l.size
<1>1. PICK p : Chain(l, p)
  BY DEF WellFormed
<1>2. N \in Nat /\ Items(l) = Content(l, p) /\ Len(Items(l)) = N
  BY <1>1, ItemsIs, NodeIs
<1>3. end \in (DOMAIN l.node) \cup {Null}
  BY EndsIn
<1>4. PICK s : Swept(s, l, end, way, v, count) /\ Sweep(l, end, way, v, count) = s[N]
  <2> HIDE DEF end
  <2> QED BY <1>3, SweepRuns
<1>5. E \subseteq 1..N
  BY <1>2 DEF Doomed
<1> DEFINE G == {j \in 0..N : SweptTo(s[j], l, p, E, way, count, j)}
<1>6. 0 \in G
  <2> DEFINE e == [i \in 1..N |-> i]
             u == [list |-> l, at |-> end, removed |-> 0]
  <2>1. s[0] = u
    BY <1>4 DEF Swept
  <2>2. E \cap Done(N, way, 0) = {}
    BY <1>2, AtDone DEF InTurn
  <2>3. Picks(e, N, (1..N) \ (E \cap Done(N, way, 0)))
    BY <1>2, <2>2 DEF Picks
  <2>4. Kept(Content(l, p), e, N) = Content(l, p) /\ Kept(p, e, N) = p
    <3>1. p = [i \in 1..N |-> p[i]]
      BY <1>1 DEF Chain, Order
    <3> QED BY <3>1 DEF Kept, Content
  <2>5. Cardinality(E \cap Done(N, way, 0)) = 0
    BY <2>2, FS_EmptySet
  <2>6. end = IF 0 = N THEN Null ELSE p[At(N, way, 0 + 1)]
    <3>1. l.first = (IF N = 0 THEN Null ELSE p[1]) /\ l.last = (IF N = 0 THEN Null ELSE p[N])
      BY <1>1 DEF Chain, Linked
    <3>2. At(N, way, 0 + 1) = IF way = "next" THEN 1 ELSE N
      BY <1>2 DEF At
    <3> QED BY <3>1, <3>2
  <2>7. u.list = l /\ u.at = end /\ u.removed = 0
    OBVIOUS
  <2> HIDE DEF u, e, end
  <2>8. SweptTo(u, l, p, E, way, count, 0)
    BY <1>1, <2>3, <2>4, <2>5, <2>6, <2>7 DEF SweptTo
  <2> QED BY <1>2, <2>1, <2>8
<1>7. ASSUME NEW j \in 0..(N - 1), j \in G
      PROVE j + 1 \in G
  <2>1. j + 1 \in 1..N /\ (j + 1) - 1 = j
    BY <1>2
  <2>2. s[j + 1] = SweepStep(s[j], way, v, count)
    BY <1>4, <2>1 DEF Swept
  <2>3. SweptTo(SweepStep(s[j], way, v, count), l, p, E, way, count, j + 1)
    BY <1>1, <1>2, <1>7, <2>1, SweepStepIs
  <2> QED BY <2>1, <2>2, <2>3
<1> HIDE DEF G, N
<1>8. \A j \in 0..N : j \in G
  <2>1. 0 \in Int /\ N \in Int
    BY <1>2
  <2> QED BY <1>6, <1>7, <2>1, UpTo
<1> USE DEF N
<1>9. SweptTo(s[N], l, p, E, way, count, N)
  BY <1>2, <1>8 DEF G
<1>10. E \cap Done(N, way, N) = E
  <2>1. InTurn(N, way)
    BY <1>2, AtDone
  <2> QED BY <1>5, <2>1 DEF InTurn
<1> DEFINE o == s[N]
           D == (1..N) \ E
<1>11. PICK e, m : /\ Picks(e, m, D) /\ o.list.size = m /\ Chain(o.list, Kept(p, e, m))
                   /\ Content(o.list, Kept(p, e, m)) = Kept(Content(l, p), e, m)
                   /\ o.removed = Cardinality(E)
  BY <1>9, <1>10 DEF SweptTo
<1>12. WellFormed(o.list) /\ Items(o.list) = Kept(Items(l), e, m)
  BY <1>2, <1>11, ItemsIs DEF WellFormed
<1>13. S!Keep(Items(l), D) = Kept(Items(l), e, m)
  <2>1. D \subseteq Int
    OBVIOUS
  <2> HIDE DEF D
  <2> QED BY <1>11, <2>1, KeepIs DEF Kept
<1> QED BY <1>4, <1>11, <1>12, <1>13

(* Which of those that hold v a count means, from its end of the list:     *)
(* they are what a sweep from there comes to before it has removed it.     *)
LEMMA FirstOnes ==
  ASSUME NEW s \in Seq(Val), NEW v, NEW n \in Nat, n # 0, NEW way \in {"next", "prev"}, NEW hits, NEW E,
         hits = {p \in 1..Len(s) : s[p] = v},
         E = {p \in hits : Cardinality({q \in hits : IF way = "next" THEN q <= p ELSE q >= p}) <= n}
  PROVE  Doomed(E, s, way, v, n)
<1> DEFINE N == Len(s)
           upto(j) == hits \cap Done(N, way, j)
<1>1. N \in Nat /\ hits \subseteq 1..N /\ E \subseteq hits
  OBVIOUS
<1>2. \A j \in 0..N : IsFiniteSet(upto(j)) /\ Cardinality(upto(j)) \in Nat /\ IsFiniteSet(E \cap Done(N, way, j))
                      /\ Cardinality(E \cap Done(N, way, j)) \in Nat
  <2>1. IsFiniteSet(1..N)
    BY <1>1, FS_Interval
  <2>2. ASSUME NEW T, T \subseteq 1..N PROVE IsFiniteSet(T) /\ Cardinality(T) \in Nat
    BY <2>1, <2>2, FS_Subset, FS_CardinalityType
  <2> QED BY <1>1, <2>2
<1>0. InTurn(N, way)
  BY <1>1, AtDone
<1>3. ASSUME NEW j \in 1..N
      PROVE {q \in hits : IF way = "next" THEN q <= At(N, way, j) ELSE q >= At(N, way, j)} = upto(j)
  BY <1>1 DEF At, Done
<1>4. ASSUME NEW j \in 1..N
      PROVE At(N, way, j) \in E <=> s[At(N, way, j)] = v /\ Cardinality(upto(j)) <= n
  <2>1. At(N, way, j) \in 1..N
    BY <1>0 DEF InTurn
  <2> QED BY <1>3, <2>1
(* As long as there are at most n hits they are all doomed; then there are *)
(* n and no more.                                                          *)
<1> DEFINE G == {j \in 0..N : /\ Cardinality(upto(j)) <= n => E \cap Done(N, way, j) = upto(j)
                              /\ Cardinality(upto(j)) > n => Cardinality(E \cap Done(N, way, j)) = n}
<1>5. 0 \in G
  <2>1. upto(0) = {} /\ E \cap Done(N, way, 0) = {}
    BY <1>0 DEF InTurn
  <2>2. Cardinality(upto(0)) = 0
    BY <2>1, FS_EmptySet
  <2> QED BY <1>1, <2>1, <2>2
<1>6. ASSUME NEW j \in 0..(N - 1), j \in G
      PROVE j + 1 \in G
  <2> DEFINE t == At(N, way, j + 1)
             A == upto(j)
             B == E \cap Done(N, way, j)
  <2>1. j + 1 \in 1..N /\ (j + 1) - 1 = j /\ j \in 0..N /\ j + 1 \in 0..N
    BY <1>1
  <2>2. t \in 1..N /\ t \notin Done(N, way, j) /\ Done(N, way, j + 1) = Done(N, way, j) \cup {t}
    BY <1>0, <2>1 DEF InTurn
  <2>3. /\ Cardinality(A) \in Nat /\ IsFiniteSet(A)
        /\ Cardinality(A) <= n => B = A
        /\ Cardinality(A) > n => Cardinality(B) = n
    BY <1>2, <1>6, <2>1
  <2>4. CASE t \in hits
    <3>1. upto(j + 1) = A \cup {t} /\ t \notin A
      BY <2>2, <2>4
    <3>2. Cardinality(upto(j + 1)) = Cardinality(A) + 1
      <4> HIDE DEF A, t
      <4>1. Cardinality(A \cup {t}) = Cardinality(A) + 1
        BY <2>3, <3>1, FS_AddElement
      <4> QED BY <3>1, <4>1
    <3>3. s[t] = v
      BY <2>2, <2>4
    <3>4. t \in E <=> Cardinality(A) + 1 <= n
      BY <1>4, <2>1, <3>2, <3>3
    <3>5. E \cap Done(N, way, j + 1) = IF t \in E THEN B \cup {t} ELSE B
      BY <2>2
    <3> DEFINE U == upto(j + 1)
               X == E \cap Done(N, way, j + 1)
    <3>6. /\ Cardinality(U) <= n => X = U
          /\ Cardinality(U) > n => Cardinality(X) = n
      <4>1. /\ U = A \cup {t} /\ Cardinality(U) = Cardinality(A) + 1 /\ X = IF t \in E THEN B \cup {t} ELSE B
            /\ t \in E <=> Cardinality(A) + 1 <= n
        BY <3>1, <3>2, <3>4, <3>5
      <4> HIDE DEF t, U, X, A, B
      <4>2. CASE Cardinality(A) + 1 <= n
        <5>1. B = A
          BY <2>3, <4>2
        <5>2. X = U
          BY <4>1, <4>2, <5>1
        <5> QED BY <2>3, <4>1, <4>2, <5>2
      <4>3. CASE Cardinality(A) + 1 > n
        <5>1. Cardinality(B) = n
          BY <2>3, <4>3
        <5>2. X = B
          BY <2>3, <4>1, <4>3
        <5> QED BY <2>3, <4>1, <4>3, <5>1, <5>2
      <4> QED BY <2>3, <4>2, <4>3
    <3> QED BY <2>1, <3>6
  <2>5. CASE t \notin hits
    <3>1. upto(j + 1) = A /\ E \cap Done(N, way, j + 1) = B
      BY <1>1, <2>2, <2>5
    <3> QED BY <2>1, <2>3, <3>1
  <2> QED BY <2>4, <2>5
<1>7. \A j \in 0..N : j \in G
  <2> HIDE DEF G, N
  <2>1. 0 \in Int /\ N \in Int
    BY <1>1
  <2> QED BY <1>5, <1>6, <2>1, UpTo
<1>8. ASSUME NEW j \in 1..N
      PROVE At(N, way, j) \in E <=> s[At(N, way, j)] = v /\ Cardinality(E \cap Done(N, way, j - 1)) # n
  <2> DEFINE t == At(N, way, j)
             A == upto(j - 1)
             B == E \cap Done(N, way, j - 1)
  <2>1. j - 1 \in 0..N /\ j \in 0..N
    BY <1>1
  <2>2. t \in 1..N /\ t \notin Done(N, way, j - 1) /\ Done(N, way, j) = Done(N, way, j - 1) \cup {t}
    BY <1>0 DEF InTurn
  <2>3. /\ Cardinality(A) \in Nat /\ IsFiniteSet(A)
        /\ Cardinality(A) <= n => B = A
        /\ Cardinality(A) > n => Cardinality(B) = n
    BY <1>2, <1>7, <2>1
  <2>4. CASE s[t] = v
    <3>1. upto(j) = A \cup {t} /\ t \notin A
      BY <2>2, <2>4
    <3>2. Cardinality(upto(j)) = Cardinality(A) + 1
      <4> HIDE DEF A, t
      <4>1. Cardinality(A \cup {t}) = Cardinality(A) + 1
        BY <2>3, <3>1, FS_AddElement
      <4> QED BY <3>1, <4>1
    <3>3. t \in E <=> Cardinality(A) + 1 <= n
      BY <1>4, <2>4, <3>2
    <3> HIDE DEF t, upto, A, B
    <3>4. Cardinality(A) + 1 <= n <=> Cardinality(B) # n
      BY <2>3
    <3> QED BY <2>4, <3>3, <3>4 DEF t, B
  <2>5. CASE s[t] # v
    BY <1>4, <2>5
  <2> QED BY <2>4, <2>5
<1> QED BY <1>1, <1>8 DEF Doomed

LEMMA AllOnes ==
  ASSUME NEW s \in Seq(Val), NEW v, NEW E, E = {p \in 1..Len(s) : s[p] = v}
  PROVE  Doomed(E, s, "next", v, NoCount)
<1>1. InTurn(Len(s), "next")
  BY AtDone
<1>2. ASSUME NEW T \in SUBSET E PROVE Cardinality(T) # NoCount
  <2>1. IsFiniteSet(1..Len(s))
    BY FS_Interval
  <2>2. T \in SUBSET (1..Len(s))
    OBVIOUS
  <2>3. Cardinality(T) \in Nat
    BY <2>1, <2>2, FS_Subset, FS_CardinalityType
  <2> QED BY <2>3 DEF NoCount
<1>3. \A j \in Int : Cardinality(E \cap Done(Len(s), "next", j)) # NoCount
  BY <1>2
<1>4. ASSUME NEW j \in 1..Len(s)
      PROVE At(Len(s), "next", j) \in E <=> s[At(Len(s), "next", j)] = v
  BY <1>1 DEF InTurn
<1>5. \A j \in 1..Len(s) : j - 1 \in Int
  OBVIOUS
<1>6. \A j \in 1..Len(s) : Cardinality(E \cap Done(Len(s), "next", j - 1)) # NoCount
  BY <1>3, <1>5
<1>7. E \subseteq 1..Len(s)
  OBVIOUS
<1> QED BY <1>4, <1>6, <1>7 DEF Doomed

(* LREM, from either end and without a count.                              *)
LEMMA RemoveLike ==
  ASSUME NEW l, WellFormed(l), NEW n \in Int, NEW v
  PROVE  Like(LRem(l, n, v), S!LRem(Items(l), n, v))
<1> DEFINE s == Items(l)
           hits == {p \in 1..Len(s) : s[p] = v}
           E == S!Condemned(s, n, v)
           SweepDoes(o) == LRem(l, n, v) = [list |-> Dropped(o.list), reply |-> <<o.removed>>]
           Kin == Like(LRem(l, n, v), S!LRem(s, n, v))
<1>1. l.size \in Nat /\ s \in Seq(Val) /\ Len(s) = l.size /\ DOMAIN s = 1..l.size
  BY ItemsGood
<1>2. E = {p \in hits : \/ n = 0
                        \/ n > 0 /\ Cardinality({q \in hits : q <= p}) <= n
                        \/ n < 0 /\ Cardinality({q \in hits : q >= p}) <= -n}
  <2>1. \A p : S!Cardinality({q \in hits : q <= p}) = Cardinality({q \in hits : q <= p})
            /\ S!Cardinality({q \in hits : q >= p}) = Cardinality({q \in hits : q >= p})
    BY Cardinal
  <2>2. hits = {p \in DOMAIN s : s[p] = v}
    BY <1>1
  <2>3. E = {p \in hits : \/ n = 0
                          \/ n > 0 /\ S!Cardinality({q \in hits : q <= p}) <= n
                          \/ n < 0 /\ S!Cardinality({q \in hits : q >= p}) <= -n}
    BY <2>2 DEF S!Condemned
  <2> QED BY <2>1, <2>3
<1>3. S!LRem(s, n, v) = [items |-> S!Keep(s, (1..l.size) \ E), reply |-> <<Cardinality(E)>>]
  BY <1>1, Cardinal DEF S!LRem, S!Result
<1> HIDE DEF E
<1>4. ASSUME NEW way \in {"next", "prev"}, NEW count, Doomed(E, s, way, v, count), NEW from,
             from = (IF way = "next" THEN l.first ELSE l.last), SweepDoes(Sweep(l, from, way, v, count))
      PROVE Kin
  <2> DEFINE o == Sweep(l, from, way, v, count)
  <2>1. WellFormed(o.list) /\ Items(o.list) = S!Keep(s, (1..l.size) \ E) /\ o.removed = Cardinality(E)
    BY <1>4, SweepIs
  <2>2. Items(Dropped(o.list)) = Items(o.list)
    BY <2>1, DroppedItems
  <2>3. LRem(l, n, v) = [list |-> Dropped(o.list), reply |-> <<o.removed>>]
    BY <1>4
  <2> HIDE DEF s, o
  <2> QED BY <1>3, <2>1, <2>2, <2>3 DEF Like
<1>5. CASE n = 0
  <2>1. E = hits
    BY <1>2, <1>5
  <2>2. Doomed(E, s, "next", v, NoCount)
    <3> HIDE DEF s
    <3> QED BY <1>1, <2>1, AllOnes
  <2>3. SweepDoes(Sweep(l, l.first, "next", v, NoCount))
    BY <1>5 DEF LRem, Result
  <2>4. l.first = (IF "next" = "next" THEN l.first ELSE l.last) /\ "next" \in {"next", "prev"}
    OBVIOUS
  <2>5. Kin
    <3> HIDE DEF s, Kin, SweepDoes
    <3> QED BY <1>4, <2>2, <2>3, <2>4
  <2> QED BY <2>5
<1>6. CASE n > 0
  <2>1. E = {p \in hits : Cardinality({q \in hits : IF "next" = "next" THEN q <= p ELSE q >= p}) <= n}
    BY <1>2, <1>6
  <2>2. Doomed(E, s, "next", v, n)
    <3>1. n \in Nat /\ n # 0
      BY <1>6
    <3> HIDE DEF s
    <3> QED BY <1>1, <2>1, <3>1, FirstOnes
  <2>3. SweepDoes(Sweep(l, l.first, "next", v, n))
    BY <1>6 DEF LRem, Result
  <2>4. l.first = (IF "next" = "next" THEN l.first ELSE l.last) /\ "next" \in {"next", "prev"}
    OBVIOUS
  <2>5. Kin
    <3> HIDE DEF s, Kin, SweepDoes
    <3> QED BY <1>4, <2>2, <2>3, <2>4
  <2> QED BY <2>5
<1>7. CASE n < 0
  <2>1. E = {p \in hits : Cardinality({q \in hits : IF "prev" = "next" THEN q <= p ELSE q >= p}) <= -n}
    BY <1>2, <1>7
  <2>2. Doomed(E, s, "prev", v, -n)
    <3>1. -n \in Nat /\ -n # 0
      BY <1>7
    <3> HIDE DEF s
    <3> QED BY <1>1, <2>1, <3>1, FirstOnes
  <2>3. SweepDoes(Sweep(l, l.last, "prev", v, -n))
    BY <1>7 DEF LRem, Result
  <2>4. l.last = (IF "prev" = "next" THEN l.first ELSE l.last) /\ "prev" \in {"next", "prev"}
    OBVIOUS
  <2>5. Kin
    <3> HIDE DEF s, Kin, SweepDoes
    <3> QED BY <1>4, <2>2, <2>3, <2>4
  <2> QED BY <2>5
<1> QED BY <1>5, <1>6, <1>7

(* Every command, with any arguments, does to the elements of any list     *)
(* that commands can build, and replies, what ListSpec says (list.go).     *)
THEOREM CommandsActOnSequences == Spec => []AsOnSequences
<1>1. ListInv => AsOnSequences
  <2> SUFFICES ASSUME ListInv PROVE AsOnSequences
    OBVIOUS
  <2>1. WellFormed(list) /\ list.size <= MaxLen /\ Arg \subseteq Int
    BY ListAssumption DEF ListInv
  <2>2. /\ Like(LPop(list), S!LPop(Items(list))) /\ Like(RPop(list), S!RPop(Items(list)))
        /\ Like(RPopLPush(list), S!RPopLPush(Items(list))) /\ Like(LLen(list), S!LLen(Items(list)))
    BY <2>1, PopsLike
  <2>3. ASSUME NEW v \in Val
        PROVE /\ Like(LPush(list, v), S!LPush(Items(list), v)) /\ Like(LPushX(list, v), S!LPushX(Items(list), v))
              /\ Like(RPush(list, v), S!RPush(Items(list), v)) /\ Like(RPushX(list, v), S!RPushX(Items(list), v))
    BY <2>1, PushesLike
  <2>4. ASSUME NEW i \in Arg
        PROVE /\ Like(LIndex(list, i), S!LIndex(Items(list), i))
              /\ \A v \in Val : Like(LSet(list, i, v), S!LSet(Items(list), i, v))
              /\ \A v \in Val : Like(LRem(list, i, v), S!LRem(Items(list), i, v))
    BY <2>1, PlacesLike, RemoveLike
  <2>5. ASSUME NEW a \in Arg, NEW b \in Arg
        PROVE Like(LRange(list, a, b), S!LRange(Items(list), a, b))
    BY <2>1, RangeLike
  <2> QED BY <2>2, <2>3, <2>4, <2>5 DEF AsOnSequences
<1> QED BY <1>1, ListInvHolds, PTL
=============================================================================
