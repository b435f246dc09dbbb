----------------------------- MODULE ClusterProofs -----------------------------
(***************************************************************************)
(* Theorems about a cluster, for any nodes, keys, hashes and numbers of    *)
(* clients and commands.                                                   *)
(***************************************************************************)
EXTENDS Cluster, TLAPS, WellFoundedInduction, SequenceTheorems

-----------------------------------------------------------------------------
(* The hash ring.                                                          *)
LEMMA LeastIs ==
  ASSUME NEW S, S \subseteq Nat, S # {}
  PROVE  Least(S) \in S /\ \A g \in S : Least(S) <= g
  <1>1. \E h \in S : \A g \in S : ~ (<<g, h>> \in OpToRel(<, Nat))
    BY NatLessThanWellFounded, WFMin
  <1>2. PICK h \in S : \A g \in S : ~ (<<g, h>> \in OpToRel(<, Nat))
    BY <1>1
  <1>3. ASSUME NEW g \in S PROVE h <= g
    <2>1. <<g, h>> \in Nat \X Nat
      OBVIOUS
    <2>2. ~ (g < h)
      BY <1>2, <2>1 DEF OpToRel
    <2> QED
      BY <2>2
  <1> QED
    BY <1>3 DEF Least

LEMMA LastIs ==
  ASSUME NEW n \in Nat, NEW S, S \subseteq 1..n, S # {}
  PROVE  \E i \in S : \A j \in S : j <= i
  <1> DEFINE T == {n - i : i \in S}
  <1>0. \A i \in S : i \in Nat /\ n - i \in Nat
    OBVIOUS
  <1>1. T \subseteq Nat /\ T # {}
    BY <1>0
  <1>2. PICK i \in S : Least(T) = n - i
    BY <1>1, LeastIs
  <1>3. \A j \in S : n - i <= n - j
    BY <1>1, <1>2, LeastIs
  <1>4. i \in S /\ \A j \in S : j <= i
    BY <1>0, <1>3
  <1> QED
    BY <1>4

(* All nodes are on the ring of each of them, itself last.                 *)
LEMMA NodesAre ==
  ASSUME NEW a \in Node
  PROVE  /\ Nodes(a) \in Seq(Node) /\ Len(Nodes(a)) \in Nat /\ Len(Nodes(a)) > 1
         /\ DOMAIN Nodes(a) = 1..Len(Nodes(a))
         /\ Nodes(a)[Len(Nodes(a))] = a
         /\ Nodes(a)[1] # a
         /\ \A b \in Node : \E i \in DOMAIN Nodes(a) : Nodes(a)[i] = b
  <1>1. Peers[a] \in Seq(Node) /\ Peers[a] # <<>> /\ Range(Peers[a]) = Node \ {a}
    BY PeersAreTheOthers
  <1>2. \A b \in Node \ {a} : \E i \in DOMAIN Peers[a] : Peers[a][i] = b
    BY <1>1 DEF Range
  <1>3. Peers[a][1] # a
    BY <1>1 DEF Range
  <1>4. \A i \in DOMAIN Peers[a] : i \in DOMAIN Nodes(a) /\ Nodes(a)[i] = Peers[a][i]
    BY <1>1 DEF Nodes
  <1>5. /\ Nodes(a) \in Seq(Node) /\ Len(Nodes(a)) \in Nat /\ Len(Nodes(a)) > 1
        /\ DOMAIN Nodes(a) = 1..Len(Nodes(a))
        /\ Nodes(a)[Len(Nodes(a))] = a
    BY <1>1 DEF Nodes
  <1>6. Nodes(a)[1] # a
    BY <1>1, <1>3, <1>4
  <1>7. ASSUME NEW b \in Node PROVE \E i \in DOMAIN Nodes(a) : Nodes(a)[i] = b
    <2>1. CASE b = a
      BY <1>5, <2>1
    <2>2. CASE b # a
      BY <1>2, <1>4, <2>2
    <2> QED
      BY <2>1, <2>2
  <1> QED
    BY <1>5, <1>6, <1>7

LEMMA RingIs ==
  ASSUME hash \in Hashes, NEW a \in Node
  PROVE  /\ NodeHashes(a) = {hash[b] : b \in Node}
         /\ NodeHashes(a) \subseteq Nat
         /\ NodeHashes(a) # {}
  <1>1. \A b \in Node : hash[b] \in Nat
    BY HashesAssumption
  <1>2. \A i \in DOMAIN Nodes(a) : Nodes(a)[i] \in Node
    BY NodesAre
  <1>3. \A b \in Node : \E i \in DOMAIN Nodes(a) : Nodes(a)[i] = b
    BY NodesAre
  <1>4. NodeHashes(a) = {hash[b] : b \in Node}
    BY <1>2, <1>3, Zenon DEF NodeHashes
  <1> QED
    BY <1>1, <1>4

LEMMA AddNodeIs ==
  ASSUME NEW a \in Node, NEW h \in NodeHashes(a)
  PROVE  AddNode(a, h) \in Node /\ hash[AddNode(a, h)] = h
  <1> DEFINE at == {i \in DOMAIN Nodes(a) : hash[Nodes(a)[i]] = h}
  <1>1. at \subseteq 1..Len(Nodes(a)) /\ at # {} /\ Len(Nodes(a)) \in Nat
    BY NodesAre DEF NodeHashes
  <1>2. \E i \in at : \A j \in at : j <= i
    BY <1>1, LastIs
  <1>3. (CHOOSE i \in at : \A j \in at : j <= i) \in at
    BY <1>2
  <1> QED
    BY <1>3, NodesAre DEF AddNode

(* The place of a node's hash on its own ring is the node's.               *)
LEMMA AddNodeSelf ==
  ASSUME NEW a \in Node
  PROVE  AddNode(a, hash[a]) = a
  <1> DEFINE n == Len(Nodes(a))
             at == {i \in DOMAIN Nodes(a) : hash[Nodes(a)[i]] = hash[a]}
  <1>0. n \in Nat /\ n > 1 /\ DOMAIN Nodes(a) = 1..n /\ Nodes(a)[n] = a
    BY NodesAre
  <1>1. n \in at /\ \A j \in at : j <= n
    BY <1>0
  <1>2. \A i \in at : (\A j \in at : j <= i) => i = n
    BY <1>0, <1>1
  <1>3. (CHOOSE i \in at : \A j \in at : j <= i) = n
    BY <1>1, <1>2
  <1> QED
    BY <1>3, NodesAre DEF AddNode

(* The place of a key on a ring of some nodes, and on the ring of all:     *)
(* each of these has its own, with the same places.                        *)
PlaceAmong(S, k) ==
  LET all == {hash[b] : b \in S}
      after == {h \in all : h >= hash[k]}
  IN Least(IF after = {} THEN all ELSE after)
Place(k) == PlaceAmong(Node, k)

LEMMA PickNodeIs ==
  ASSUME hash \in Hashes, NEW a \in Node, NEW k \in Key
  PROVE  /\ PickNode(a, k) = AddNode(a, Place(k))
         /\ Place(k) \in NodeHashes(a)
         /\ PickNode(a, k) \in Node
         /\ hash[PickNode(a, k)] = Place(k)
  <1> DEFINE all == {hash[b] : b \in Node}
             after == {h \in all : h >= hash[k]}
  <1>1. NodeHashes(a) = all /\ all \subseteq Nat /\ all # {}
    BY RingIs
  <1>2. PickNode(a, k) = AddNode(a, Place(k))
    BY <1>1 DEF PickNode, Place, PlaceAmong
  <1>3. Place(k) \in all
    <2>1. CASE after = {}
      BY <1>1, <2>1, LeastIs DEF Place, PlaceAmong
    <2>2. CASE after # {}
      <3>1. after \subseteq Nat /\ after \subseteq all
        BY <1>1
      <3> HIDE DEF after
      <3>2. Least(after) \in after
        BY <2>2, <3>1, LeastIs
      <3> QED
        BY <2>2, <3>1, <3>2 DEF Place, PlaceAmong, after
    <2> QED
      BY <2>1, <2>2
  <1> QED
    BY <1>1, <1>2, <1>3, AddNodeIs

(* The node that a node looks for a key at looks for it at itself.         *)
LEMMA PickNodeTwice ==
  ASSUME hash \in Hashes, NEW a \in Node, NEW k \in Key
  PROVE  PickNode(PickNode(a, k), k) = PickNode(a, k)
  BY PickNodeIs, AddNodeSelf

(* When no two hashes are the same all nodes look for a key at the same    *)
(* one.                                                                    *)
LEMMA PickNodeAgrees ==
  ASSUME hash \in Hashes, Apart, NEW a \in Node, NEW b \in Node, NEW k \in Key
  PROVE  PickNode(a, k) = PickNode(b, k)
  BY PickNodeIs DEF Apart

LEMMA LeastOfFewer ==
  ASSUME NEW T, T \subseteq Nat, NEW R, R \subseteq T, Least(T) \in R
  PROVE  Least(R) = Least(T)
  <1>1. \A h \in T : Least(T) <= h
    BY LeastIs
  <1>2. Least(R) \in R /\ Least(R) <= Least(T)
    BY LeastIs
  <1>3. Least(T) <= Least(R) /\ Least(T) \in Nat /\ Least(R) \in Nat
    BY <1>1, <1>2
  <1> QED
    BY <1>2, <1>3

(* Consistent hashing: PickNode finds a key at the place that it has on    *)
(* every smaller ring with the node it picks.  So nodes that are taken     *)
(* away move none but their own keys, and the keys that move when nodes    *)
(* are added move to one of them.                                          *)
THEOREM OtherKeysStay ==
  ASSUME hash \in Hashes, NEW a \in Node, NEW k \in Key,
         NEW S, S \subseteq Node, PickNode(a, k) \in S
  PROVE  hash[PickNode(a, k)] = PlaceAmong(S, k)
  <1> DEFINE all == {hash[b] : b \in Node}
             after == {h \in all : h >= hash[k]}
             some == {hash[b] : b \in S}
             next == {h \in some : h >= hash[k]}
  <1>1. all \subseteq Nat /\ some \subseteq all /\ next \subseteq after
    BY RingIs
  <1>2. hash[PickNode(a, k)] = Place(k) /\ Place(k) \in some
    BY PickNodeIs
  <1>3. Place(k) = Least(IF after = {} THEN all ELSE after)
    BY DEF Place, PlaceAmong
  <1>4. PlaceAmong(S, k) = Least(IF next = {} THEN some ELSE next)
    BY DEF PlaceAmong
  <1>5. CASE after = {}
    <2>1. next = {}
      BY <1>1, <1>5
    <2> HIDE DEF all, after, some, next
    <2>2. Least(all) \in some
      BY <1>2, <1>3, <1>5
    <2> QED
      BY <1>1, <1>2, <1>3, <1>4, <1>5, <2>1, <2>2, LeastOfFewer
  <1>6. CASE after # {}
    <2>1. after \subseteq Nat
      BY <1>1
    <2>2. Least(after) \in after
      BY <1>6, <2>1, LeastIs
    <2>3. Least(after) \in next
      BY <1>2, <1>3, <1>6, <2>2
    <2> HIDE DEF all, after, some, next
    <2> QED
      BY <1>1, <1>2, <1>3, <1>4, <1>6, <2>1, <2>3, LeastOfFewer
  <1> QED
    BY <1>5, <1>6

-----------------------------------------------------------------------------
(* What holds of the calls: one under way has a command and a node, and    *)
(* the call it waits for is one of the same command and of no other.       *)
HashOK == hash \in Hashes
CmdOK ==
  /\ cmd \in [1..MaxCmd -> Cmds \cup {None}] /\ issued \in 0..MaxCmd
  /\ \A n \in 1..issued : cmd[n] \in Cmds
AnswerOK == answer \in [1..MaxCmd -> {"none", "ok", "error"}]
CallOK ==
  /\ call \in [Slot -> Calls]
  /\ \A s \in Slot : /\ call[s].n # 0 => call[s].n \in 1..issued /\ call[s].at \in Node
                     /\ call[s].n = 0 => call[s] = Free
KidOK ==
  \A s \in Slot : call[s].kid # None =>
    /\ call[s].kid # s
    /\ call[call[s].kid].n # 0 /\ call[call[s].kid].n = call[s].n
    /\ \A t \in Slot : call[t].kid = call[s].kid => t = s

CInv == HashOK /\ CmdOK /\ AnswerOK /\ CallOK /\ KidOK

LEMMA FreeIs == Free \in Calls /\ Free.n = 0 /\ Free.kid = None /\ Free.reply = "none"
  BY BoundsAssumption DEF Free, Call, Calls

LEMMA CallIs ==
  ASSUME NEW n \in 0..MaxCmd, NEW a \in Node, NEW b \in Link \cup {User}
  PROVE  LET c == Call(n, a, b) IN
         c \in Calls /\ c.n = n /\ c.at = a /\ c.by = b /\ c.i = 1 /\ c.kid = None /\ c.reply = "none"
  BY DEF Call, Calls

LEMMA NewSlotIs ==
  ASSUME Space
  PROVE  NewSlot \in Slot /\ call[NewSlot].n = 0
  BY DEF Space, NewSlot

(* The node that a command goes to next.                                   *)
LEMMA TargetIs ==
  ASSUME HashOK, CmdOK, CallOK, NEW s \in Slot, Live(s), ~ Broadcast(s)
  PROVE  Target(s) \in Node /\ Target(s) = PickNode(call[s].at, What(s).key) /\ What(s).key \in Key
  <1>1. What(s) \in Command /\ call[s].at \in Node
    BY CmdsAssumption DEF CmdOK, CallOK, Live, What
  <1> QED
    BY <1>1, PickNodeIs DEF Target, HashOK, Command

(* What a step of call s does to the calls, if it sends nothing.           *)
Moves(s) ==
  /\ call' \in [Slot -> Calls]
  /\ \A t \in Slot \ {s} : \/ call'[t] = call[t]
                           \/ call'[t] = Free /\ call[s].kid = t
  /\ call'[s] = Free \/ (call'[s].n = call[s].n /\ call'[s].at = call[s].at /\ call'[s].by = call[s].by)
  /\ call'[s].kid = None
  /\ call'[s].n = 0 => call'[s] = Free /\ ~ Asked(s)
  /\ UNCHANGED <<hash, cmd, issued>>

LEMMA AdvanceMoves ==
  ASSUME CInv, NEW s \in Slot, Live(s), NEW r \in {"ok", "error"}, NEW calls \in [Slot -> Calls],
         \A t \in Slot \ {s} : calls[t] = call[t] \/ (calls[t] = Free /\ call[s].kid = t),
         calls[s] = call[s],
         Advance(s, r, calls) \/ Finish(s, r, calls),
         UNCHANGED <<hash, cmd, issued>>
  PROVE  Moves(s)
  <1>1. call[s] \in Calls /\ call[s].n # 0
    BY DEF CInv, CallOK, Live
  <1>2. ASSUME NEW q \in {"ok", "error"}, Finish(s, q, calls) PROVE Moves(s)
    <2>1. call' = [calls EXCEPT ![s] = IF Asked(s) THEN [call[s] EXCEPT !.reply = q, !.link = None, !.kid = None] ELSE Free]
      BY <1>2 DEF Finish
    <2> DEFINE d == [call[s] EXCEPT !.reply = q, !.link = None, !.kid = None]
    <2>2. d \in Calls /\ d.n = call[s].n /\ d.at = call[s].at /\ d.by = call[s].by /\ d.kid = None
      BY <1>1 DEF Calls
    <2>3. call'[s] = IF Asked(s) THEN d ELSE Free
      BY <2>1
    <2>4. \A t \in Slot \ {s} : call'[t] = calls[t]
      BY <2>1
    <2> HIDE DEF d
    <2>5. call'[s] \in Calls
      BY <2>2, <2>3, FreeIs
    <2>6. call' \in [Slot -> Calls]
      BY <2>1, <2>3, <2>5
    <2> QED
      BY <1>1, <2>2, <2>3, <2>4, <2>6, FreeIs DEF Moves
  <1>3. CASE Broadcast(s) /\ call[s].i < Len(Nodes(call[s].at)) /\ Advance(s, r, calls)
    <2> DEFINE bad == call[s].bad \/ r = "error"
               d == [call[s] EXCEPT !.i = @ + 1, !.bad = bad, !.link = None, !.kid = None]
    <2>1. call' = [calls EXCEPT ![s] = d]
      BY ZenonT(60), <1>3 DEF Advance
    <2>2. d \in Calls /\ d.n = call[s].n /\ d.at = call[s].at /\ d.by = call[s].by /\ d.kid = None
      <3>1. bad \in BOOLEAN
        BY <1>1 DEF Calls
      <3>2. call[s].i + 1 \in Nat \ {0}
        BY <1>1 DEF Calls
      <3> HIDE DEF bad
      <3> QED
        BY <1>1, <3>1, <3>2 DEF Calls
    <2> HIDE DEF d
    <2> QED
      BY <1>1, <2>1, <2>2 DEF Moves
  <1> QED
    BY <1>2, <1>3 DEF Advance

LEMMA StepMoves ==
  ASSUME CInv, NEW s \in Slot, Step(s) \/ RelayFails(s)
  PROVE  Moves(s) /\ Live(s)
  <1>0. call \in [Slot -> Calls] /\ Live(s)
    BY DEF CInv, CallOK, Step, Rename, RelaySelf, Return, Timeout, RelayFails, Running, Waiting
  <1>1. CASE Rename(s) \/ RelaySelf(s) \/ RelayFails(s) \/ Timeout(s)
    BY <1>0, <1>1, AdvanceMoves DEF Rename, RelaySelf, RelayFails, Timeout
  <1>2. CASE Return(s)
    <2> DEFINE k == call[s].kid
               calls == [call EXCEPT ![k] = Free]
    <2>1. k \in Slot /\ k # s /\ call[k].reply \in {"ok", "error"}
      BY <1>0, <1>2 DEF Return, Waiting, Calls, CInv, KidOK
    <2>2. calls \in [Slot -> Calls] /\ calls[s] = call[s]
          /\ \A t \in Slot \ {s} : calls[t] = call[t] \/ (calls[t] = Free /\ call[s].kid = t)
      BY <1>0, <2>1, FreeIs
    <2>3. Advance(s, call[k].reply, calls) /\ UNCHANGED <<hash, cmd, issued>>
      BY <1>2 DEF Return
    <2> HIDE DEF calls
    <2> QED
      BY <1>0, <2>1, <2>2, <2>3, AdvanceMoves
  <1> QED
    BY <1>0, <1>1, <1>2 DEF Step

LEMMA MovesKeep ==
  ASSUME CInv, NEW s \in Slot, Moves(s)
  PROVE  HashOK' /\ CmdOK' /\ CallOK' /\ KidOK'
  <1>1. HashOK' /\ CmdOK'
    BY DEF CInv, Moves, HashOK, CmdOK
  <1>2. CallOK'
    BY FreeIs DEF CInv, Moves, CallOK
  <1>3. ASSUME NEW t \in Slot, call'[t].kid # None
        PROVE  t # s /\ call'[t] = call[t] /\ call[t].kid \in Slot
    BY <1>3, FreeIs, SlotAssumption DEF CInv, Moves, CallOK, Calls
  <1>4. ASSUME NEW t \in Slot, call'[t].kid # None
        PROVE  call'[call[t].kid].n = call[call[t].kid].n
    <2> DEFINE k == call[t].kid
    <2>1. k \in Slot /\ k # t /\ t # s /\ k # None /\ call[k].n # 0
      BY <1>3, <1>4 DEF CInv, KidOK
    <2>2. CASE k = s
      BY <1>3, <2>1, <2>2, FreeIs DEF Moves, Asked
    <2>3. CASE k # s
      <3>1. call[s].kid # k
        BY <2>1 DEF CInv, KidOK
      <3> QED
        BY <2>1, <2>3, <3>1 DEF Moves
    <2> QED
      BY <2>2, <2>3
  <1>5. KidOK'
    BY <1>3, <1>4 DEF CInv, KidOK
  <1> QED
    BY <1>1, <1>2, <1>5

(* A new call, sent by a user or, with link and kid, for the call s.       *)
LEMMA ExecKeeps ==
  ASSUME CInv, NEW a \in Node, NEW x \in Cmds, Exec(a, x)
  PROVE  CInv'
  <1> DEFINE u == NewSlot
             c == Call(issued', a, User)
  <1>1. u \in Slot /\ call[u].n = 0
    BY NewSlotIs DEF Exec
  <1>2. issued \in Nat /\ issued' = issued + 1 /\ issued' \in 1..MaxCmd
    BY BoundsAssumption DEF Exec, CInv, CmdOK
  <1>3. c \in Calls /\ c.n = issued' /\ c.at = a /\ c.kid = None
    BY <1>2, BoundsAssumption, CallIs
  <1> HIDE DEF u, c
  <1>4. call' = [call EXCEPT ![u] = c] /\ cmd' = [cmd EXCEPT ![issued'] = x]
        /\ UNCHANGED <<hash, answer>>
    BY DEF Exec, u, c
  <1>5. HashOK' /\ AnswerOK'
    BY <1>4 DEF CInv, HashOK, AnswerOK
  <1>6. CmdOK'
    BY <1>2, <1>4 DEF CInv, CmdOK
  <1>7. CallOK'
    BY <1>1, <1>2, <1>3, <1>4 DEF CInv, CallOK
  <1>8. KidOK'
    BY <1>1, <1>3, <1>4 DEF CInv, CallOK, Calls, KidOK
  <1> QED
    BY <1>5, <1>6, <1>7, <1>8 DEF CInv

LEMMA RelayKeeps ==
  ASSUME CInv, NEW s \in Slot, NEW l \in Link, Relay(s, l)
  PROVE  CInv'
  <1> DEFINE u == NewSlot
             c == Call(call[s].n, l[2], l)
             d == [call[s] EXCEPT !.link = l, !.kid = u]
  <1>1. u \in Slot /\ call[u].n = 0 /\ s # u /\ call[s].n # 0 /\ call[s] \in Calls /\ u # None
        /\ call[s].kid = None
    BY NewSlotIs, SlotAssumption DEF Relay, Running, Live, CInv, CallOK
  <1>2. l[2] \in Node
    BY DEF Link
  <1>3. c \in Calls /\ c.n = call[s].n /\ c.at = l[2] /\ c.kid = None
    BY <1>1, <1>2, CallIs DEF Calls
  <1>4. d \in Calls /\ d.n = call[s].n /\ d.at = call[s].at /\ d.kid = u
    BY <1>1 DEF Calls
  <1>5. call' = [call EXCEPT ![s] = d, ![u] = c] /\ UNCHANGED <<hash, cmd, issued, answer>>
    <2>1. call' = [call EXCEPT ![s].link = l, ![s].kid = u, ![u] = c]
      BY DEF Relay
    <2> QED
      BY <1>1, <2>1 DEF Relay, CInv, CallOK
  <1> HIDE DEF u, c, d
  <1>6. HashOK' /\ CmdOK' /\ AnswerOK'
    BY <1>5 DEF CInv, HashOK, CmdOK, AnswerOK
  <1>7. CallOK'
    BY <1>1, <1>2, <1>3, <1>4, <1>5 DEF CInv, CallOK
  <1>8. KidOK'
    BY <1>1, <1>3, <1>4, <1>5 DEF CInv, CallOK, Calls, KidOK
  <1> QED
    BY <1>6, <1>7, <1>8 DEF CInv

-----------------------------------------------------------------------------
(* The replies.                                                            *)
LEMMA AnswersOf ==
  ASSUME CInv, NEW s \in Slot, Step(s) \/ RelayFails(s)
  PROVE  \E r \in {"ok", "error"} :
           \/ UNCHANGED answer
           \/ answer' = [answer EXCEPT ![call[s].n] = r]
  <1>1. ASSUME NEW r, NEW calls, Advance(s, r, calls) \/ Finish(s, "error", calls)
        PROVE \E q \in {"ok", "error"} : UNCHANGED answer \/ answer' = [answer EXCEPT ![call[s].n] = q]
    BY <1>1 DEF Advance, Finish
  <1> QED
    BY <1>1 DEF Step, Rename, RelaySelf, Return, Timeout, RelayFails

LEMMA CInvInit == Init => CInv
  <1> SUFFICES ASSUME Init PROVE CInv
    OBVIOUS
  <1>1. HashOK /\ CmdOK /\ AnswerOK
    BY BoundsAssumption DEF Init, HashOK, CmdOK, AnswerOK
  <1>2. CallOK
    BY FreeIs DEF Init, CallOK
  <1>3. KidOK
    BY FreeIs DEF Init, KidOK
  <1> QED
    BY <1>1, <1>2, <1>3 DEF CInv

LEMMA Steps ==
  ASSUME [Next]_vars
  PROVE  \/ \E a \in Node, x \in Cmds : Exec(a, x)
         \/ \E s \in Slot : Step(s) \/ RelayFails(s)
         \/ \E s \in Slot, l \in Link : Relay(s, l)
         \/ UNCHANGED vars
  BY DEF Next, Step

LEMMA CInvStep ==
  ASSUME CInv, [Next]_vars
  PROVE  CInv'
  <1>1. ASSUME NEW s \in Slot, Step(s) \/ RelayFails(s) PROVE CInv'
    <2>1. HashOK' /\ CmdOK' /\ CallOK' /\ KidOK'
      BY <1>1, StepMoves, MovesKeep
    <2>2. AnswerOK'
      BY <1>1, AnswersOf DEF CInv, AnswerOK
    <2> QED
      BY <2>1, <2>2 DEF CInv
  <1>2. CASE UNCHANGED vars
    BY <1>2 DEF vars, CInv, HashOK, CmdOK, AnswerOK, CallOK, KidOK
  <1> QED
    BY <1>1, <1>2, ExecKeeps, RelayKeeps, Steps

(* The commands under way are known by their number.                       *)
LEMMA WhatStays ==
  ASSUME CInv, [Next]_vars, NEW n \in 1..issued
  PROVE  cmd'[n] = cmd[n] /\ n \in 1..issued'
  <1>1. ASSUME NEW a \in Node, NEW x \in Cmds, Exec(a, x) PROVE cmd'[n] = cmd[n] /\ n \in 1..issued'
    BY <1>1 DEF Exec, CInv, CmdOK
  <1>2. CASE UNCHANGED <<cmd, issued>>
    BY <1>2
  <1> QED
    BY <1>1, <1>2, Steps, StepMoves DEF Moves, Relay, vars

LEMMA HashStays ==
  ASSUME CInv, [Next]_vars
  PROVE  hash' = hash
  BY Steps, StepMoves DEF Exec, Moves, Relay, vars

LEMMA PickNodeStays ==
  ASSUME hash' = hash, NEW s \in Slot
  PROVE  PickNode(call[s].at, What(s).key)' = PickNode(call'[s].at, What(s)'.key)
  BY DEF PickNode, AddNode, NodeHashes

-----------------------------------------------------------------------------
(* A command on a key is relayed once at most.                             *)
LEMMA OneHopStep ==
  ASSUME CInv, OneHop, [Next]_vars
  PROVE  OneHop'
  <1> USE DEF OneHop
  <1> SUFFICES ASSUME NEW s \in Slot, call'[s].n # 0, call'[s].by # User, Keyed(call[s].n)'
               PROVE  PickNode(call'[s].at, What(s)'.key) = call'[s].at
    BY HashStays, PickNodeStays
  <1>1. CASE call[s].n # 0 /\ call'[s].n = call[s].n /\ call'[s].at = call[s].at /\ call'[s].by = call[s].by
    <2>1. call[s].n \in 1..issued
      BY <1>1 DEF CInv, CallOK
    <2>2. What(s)' = What(s) /\ Keyed(call[s].n)
      BY <1>1, <2>1, WhatStays DEF What, Keyed
    <2> QED
      BY <1>1, <2>2
  <1>2. ASSUME NEW t \in Slot, NEW l \in Link, Relay(t, l)
        PROVE  PickNode(call'[s].at, What(s)'.key) = call'[s].at
    <2>1. NewSlot \in Slot /\ call[NewSlot].n = 0 /\ call[t].n # 0
      BY <1>2, NewSlotIs DEF Relay, Running, Live
    <2>2. CASE s = NewSlot
      <3> DEFINE c == Call(call[t].n, l[2], l)
      <3>1. call'[s] = c
        BY <1>2, <2>2, <2>1 DEF Relay, CInv, CallOK
      <3>2. c.n = call[t].n /\ c.at = l[2]
        BY DEF Call
      <3> HIDE DEF c
      <3>3. What(s)' = What(t) /\ ~ Broadcast(t)
        BY <1>2, <3>1, <3>2 DEF Relay, What, Keyed, Broadcast
      <3>4. call[t].at \in Node
        BY <2>1 DEF CInv, CallOK
      <3>5. l[2] = PickNode(call[t].at, What(t).key) /\ What(t).key \in Key
        BY <1>2, <3>3, TargetIs DEF Relay, Running, CInv
      <3>6. PickNode(l[2], What(t).key) = l[2]
        BY <3>4, <3>5, PickNodeTwice DEF CInv, HashOK
      <3> QED
        BY <3>1, <3>2, <3>3, <3>6
    <2>3. CASE s = t
      <3> DEFINE d == [call[s] EXCEPT !.link = l, !.kid = NewSlot]
      <3>1. call'[s] = d
        BY <1>2, <2>1, <2>3 DEF Relay, CInv, CallOK
      <3>2. d.n = call[s].n /\ d.at = call[s].at /\ d.by = call[s].by
        BY DEF CInv, CallOK, Calls
      <3> HIDE DEF d
      <3> QED
        BY <1>1, <2>1, <2>3, <3>1, <3>2
    <2>4. CASE s # t /\ s # NewSlot
      <3>1. call'[s] = call[s]
        BY <1>2, <2>1, <2>4 DEF Relay, CInv, CallOK
      <3> QED
        BY <1>1, <3>1
    <2> QED
      BY <2>2, <2>3, <2>4
  <1>3. ASSUME NEW a \in Node, NEW x \in Cmds, Exec(a, x)
        PROVE  PickNode(call'[s].at, What(s)'.key) = call'[s].at
    <2>1. NewSlot \in Slot /\ call[NewSlot].n = 0
      BY <1>3, NewSlotIs DEF Exec
    <2>2. s # NewSlot
      BY <1>3, <2>1 DEF Exec, Call, CInv, CallOK
    <2>3. call'[s] = call[s]
      BY <1>3, <2>1, <2>2 DEF Exec, CInv, CallOK
    <2> QED
      BY <1>1, <2>3
  <1>4. ASSUME NEW t \in Slot, Step(t) \/ RelayFails(t)
        PROVE  PickNode(call'[s].at, What(s)'.key) = call'[s].at
    <2>1. Moves(t) /\ Live(t)
      BY <1>4, StepMoves
    <2> QED
      BY <1>1, <2>1, FreeIs DEF Moves, Live
  <1> QED
    BY <1>1, <1>2, <1>3, <1>4, Steps DEF vars

-----------------------------------------------------------------------------
(* The memory of the nodes.                                                *)
MemOK == mem \in [Node -> [Key -> 1..MaxCmd \cup {None}]]

LEMMA EffectIs ==
  ASSUME NEW x \in Command, NEW n \in 1..MaxCmd, NEW m \in [Key -> 1..MaxCmd \cup {None}]
  PROVE  /\ Effect(x, n, m) \in [Key -> 1..MaxCmd \cup {None}]
         /\ \A k \in Key : Effect(x, n, m)[k] # None =>
              \/ m[k] # None
              \/ x.op \notin Wide /\ k = x.key
              \/ x.op = "rename" /\ k = x.dest
  <1>1. x.key \in Key /\ x.dest \in Key /\ x.op \in {"set", "rename", "del", "flushdb"}
    BY DEF Command, Wide
  <1>2. CASE x.op = "set"
    BY <1>1, <1>2 DEF Effect, Wide
  <1>3. CASE x.op = "rename"
    BY <1>1, <1>3 DEF Effect, Wide
  <1>4. CASE x.op = "del"
    BY <1>1, <1>4 DEF Effect
  <1>5. CASE x.op = "flushdb"
    BY <1>1, <1>5 DEF Effect
  <1> QED
    BY <1>1, <1>2, <1>3, <1>4, <1>5

LEMMA MemStep ==
  ASSUME CInv, MemOK, [Next]_vars
  PROVE  \/ mem' = mem
         \/ \E s \in Slot : /\ RelaySelf(s) /\ What(s) \in Command /\ call[s].at \in Node
                            /\ call[s].n \in 1..MaxCmd
  <1>1. ASSUME NEW s \in Slot, RelaySelf(s)
        PROVE  What(s) \in Command /\ call[s].at \in Node /\ call[s].n \in 1..MaxCmd
    BY <1>1, CmdsAssumption, BoundsAssumption DEF RelaySelf, Running, Live, CInv, CmdOK, CallOK, What
  <1> QED
    BY <1>1, Steps DEF Exec, Step, Rename, Return, Timeout, RelayFails, Relay, vars

LEMMA KeysAtHomeStep ==
  ASSUME CInv, MemOK, KeysAtHome, [Next]_vars
  PROVE  MemOK' /\ KeysAtHome'
  <1>a. hash' = hash
    BY HashStays
  <1>0. ASSUME NEW a \in Node, NEW k \in Key PROVE PickNode(a, k)' = PickNode(a, k)
    BY <1>a DEF PickNode, AddNode, NodeHashes
  <1> SUFFICES MemOK' /\ \A a \in Node, k \in Key : mem'[a][k] # None => PickNode(a, k) = a
    BY <1>0 DEF KeysAtHome
  <1>1. CASE mem' = mem
    BY <1>1 DEF MemOK, KeysAtHome
  <1>2. ASSUME NEW s \in Slot, RelaySelf(s), What(s) \in Command, call[s].at \in Node,
               call[s].n \in 1..MaxCmd
        PROVE  MemOK' /\ \A a \in Node, k \in Key : mem'[a][k] # None => PickNode(a, k) = a
    <2> DEFINE b == call[s].at
               m == Effect(What(s), call[s].n, mem[b])
    <2>1. mem' = [mem EXCEPT ![b] = m]
      BY <1>2 DEF RelaySelf
    <2>2. /\ m \in [Key -> 1..MaxCmd \cup {None}]
          /\ \A k \in Key : m[k] # None =>
              \/ mem[b][k] # None
              \/ What(s).op \notin Wide /\ k = What(s).key
              \/ What(s).op = "rename" /\ k = What(s).dest
      BY <1>2, EffectIs DEF MemOK
    <2>3. What(s).op \notin Wide => PickNode(b, What(s).key) = b
      BY <1>2, TargetIs DEF RelaySelf, Running, Broadcast, CInv
    <2>4. What(s).op = "rename" => PickNode(b, What(s).dest) = b
      BY <1>2, <2>3 DEF RelaySelf, Crosses, Wide
    <2> HIDE DEF m
    <2>5. MemOK'
      BY <1>2, <2>1, <2>2 DEF MemOK
    <2>6. ASSUME NEW a \in Node, NEW k \in Key, mem'[a][k] # None PROVE PickNode(a, k) = a
      <3>1. CASE a # b
        BY <2>1, <2>6, <3>1 DEF MemOK, KeysAtHome
      <3>2. CASE a = b
        <4>1. m[k] # None
          BY <1>2, <2>1, <2>6, <3>2 DEF MemOK
        <4> QED
          BY <1>2, <2>2, <2>3, <2>4, <3>2, <4>1 DEF KeysAtHome
      <3> QED
        BY <3>1, <3>2
    <2> QED
      BY <2>5, <2>6
  <1> QED
    BY <1>1, <1>2, MemStep

-----------------------------------------------------------------------------
(* A broadcast has failed when it is past the first node.                  *)
Failing ==
  \A s \in Slot : call[s].n # 0 /\ Broadcast(s) =>
    call[s].reply # "ok" /\ (call[s].i > 1 => call[s].bad)

LEMMA BroadcastAdvance ==
  ASSUME CInv, Failing, NEW s \in Slot, Live(s), Broadcast(s), NEW r \in {"ok", "error"},
         call[s].i = 1 => r = "error",
         NEW calls \in [Slot -> Calls], calls[s] = call[s], Advance(s, r, calls)
  PROVE  /\ call'[s].reply # "ok" /\ (call'[s].i > 1 => call'[s].bad)
         /\ answer' = answer \/ answer' = [answer EXCEPT ![call[s].n] = "error"]
  <1>1. call[s] \in Calls /\ call[s].at \in Node /\ call[s].reply = "none"
        /\ (call[s].i > 1 => call[s].bad) /\ call[s].i \in Nat \ {0}
    BY DEF CInv, CallOK, Live, Failing, Calls
  <1>2. call[s].bad \/ r = "error"
    BY <1>1
  <1>3. CASE call[s].i < Len(Nodes(call[s].at))
    <2>1. call' = [calls EXCEPT ![s] = [call[s] EXCEPT !.i = @ + 1, !.bad = TRUE, !.link = None, !.kid = None]]
          /\ answer' = answer
      BY <1>2, <1>3 DEF Advance
    <2>2. call'[s].reply = "none" /\ call'[s].bad
      BY <1>1, <2>1 DEF Calls
    <2> QED
      BY <2>1, <2>2
  <1>4. CASE ~ (call[s].i < Len(Nodes(call[s].at)))
    <2>0. Len(Nodes(call[s].at)) \in Nat /\ Len(Nodes(call[s].at)) > 1
      BY <1>1, NodesAre
    <2>1. call[s].i > 1
      BY <1>1, <1>4, <2>0
    <2>2. Finish(s, "error", calls)
      BY <1>2, <1>4 DEF Advance
    <2> DEFINE d == [call[s] EXCEPT !.reply = "error", !.link = None, !.kid = None]
    <2>3. call'[s] = d \/ call'[s] = Free
      BY <2>2 DEF Finish
    <2>4. d.reply = "error" /\ d.i = call[s].i /\ d.bad = call[s].bad
      BY <1>1 DEF Calls
    <2>5. Free.reply = "none" /\ Free.i = 1
      BY DEF Free, Call
    <2> HIDE DEF d
    <2> QED
      BY <1>1, <2>1, <2>2, <2>3, <2>4, <2>5 DEF Finish
  <1> QED
    BY <1>3, <1>4

LEMMA FailingMoves ==
  ASSUME CInv, Failing, NEW s \in Slot, Step(s) \/ RelayFails(s), Broadcast(s)
  PROVE  /\ call'[s].reply # "ok" /\ (call'[s].i > 1 => call'[s].bad)
         /\ answer' = answer \/ answer' = [answer EXCEPT ![call[s].n] = "error"]
  <1>0. Live(s) /\ call \in [Slot -> Calls] /\ call[s].at \in Node
    BY StepMoves DEF CInv, CallOK, Live
  <1>1. CASE Rename(s)
    BY <1>1 DEF Rename, Crosses, Broadcast, Wide
  <1>2. CASE RelaySelf(s)
    <2>1. call[s].i = 1 => Target(s) # call[s].at
      BY <1>0, NodesAre DEF Target
    <2> QED
      BY <1>0, <1>2, <2>1, BroadcastAdvance DEF RelaySelf
  <1>3. CASE RelayFails(s) \/ Timeout(s)
    BY <1>0, <1>3, BroadcastAdvance DEF RelayFails, Timeout
  <1>4. CASE Return(s)
    <2> DEFINE k == call[s].kid
               calls == [call EXCEPT ![k] = Free]
    <2>1. k \in Slot /\ k # s /\ call[k].n # 0 /\ call[k].n = call[s].n
      BY <1>0, <1>4 DEF Return, Waiting, Calls, CInv, KidOK
    <2>2. call[k].reply = "error"
      <3>1. Broadcast(k)
        BY <2>1 DEF Broadcast, What
      <3> QED
        BY <1>0, <1>4, <2>1, <3>1 DEF Failing, Return, Calls
    <2>3. calls \in [Slot -> Calls] /\ calls[s] = call[s]
      BY <1>0, <2>1, FreeIs
    <2>4. Advance(s, call[k].reply, calls)
      BY <1>4 DEF Return
    <2> HIDE DEF calls
    <2> QED
      BY <1>0, <2>2, <2>3, <2>4, BroadcastAdvance
  <1> QED
    BY <1>1, <1>2, <1>3, <1>4 DEF Step

LEMMA FailingStep ==
  ASSUME CInv, Failing, [Next]_vars
  PROVE  Failing'
  <1> SUFFICES ASSUME NEW s \in Slot, call'[s].n # 0, What(s)'.op \in Wide
               PROVE  call'[s].reply # "ok" /\ (call'[s].i > 1 => call'[s].bad)
    BY DEF Failing, Broadcast
  <1>1. CASE call'[s] = call[s]
    <2>1. What(s)' = What(s)
      BY <1>1, WhatStays DEF CInv, CallOK, What
    <2> QED
      BY <1>1, <2>1 DEF Failing, Broadcast
  <1>2. CASE \E n, a, b : call'[s] = Call(n, a, b)
    BY <1>2 DEF Call
  <1>3. ASSUME NEW a \in Node, NEW x \in Cmds, Exec(a, x)
        PROVE  call'[s] = call[s] \/ call'[s] = Call(issued', a, User)
    BY <1>3 DEF Exec, CInv, CallOK
  <1>4. ASSUME NEW t \in Slot, NEW l \in Link, Relay(t, l)
        PROVE  call'[s].reply # "ok" /\ (call'[s].i > 1 => call'[s].bad)
    <2> DEFINE d == [call[t] EXCEPT !.link = l, !.kid = NewSlot]
    <2>1. call' = [call EXCEPT ![t] = d, ![NewSlot] = Call(call[t].n, l[2], l)]
          /\ Live(t) /\ call[t] \in Calls
      BY <1>4 DEF Relay, Running, CInv, CallOK
    <2>2. d.n = call[t].n /\ d.i = call[t].i /\ d.bad = call[t].bad /\ d.reply = "none"
      BY <2>1 DEF Calls, Live
    <2> HIDE DEF d
    <2>3. call'[s] = call[s] \/ call'[s] = Call(call[t].n, l[2], l) \/ (s = t /\ call'[s] = d)
      BY <2>1 DEF CInv, CallOK
    <2>4. CASE s = t /\ call'[s] = d
      <3>1. What(s)' = What(s)
        BY <2>2, <2>4, <1>4 DEF What, Relay
      <3>2. call[s].n # 0 /\ Broadcast(s)
        BY <2>2, <2>4, <3>1 DEF Broadcast
      <3> QED
        BY <2>2, <2>4, <3>2 DEF Failing
    <2> QED
      BY <1>1, <1>2, <2>3, <2>4
  <1>5. ASSUME NEW t \in Slot, Step(t) \/ RelayFails(t)
        PROVE  call'[s].reply # "ok" /\ (call'[s].i > 1 => call'[s].bad)
    <2>1. Moves(t)
      BY <1>5, StepMoves
    <2>2. CASE s # t
      BY <1>1, <2>1, <2>2, FreeIs DEF Moves
    <2>3. CASE s = t
      <3>1. call'[s].n = call[s].n /\ cmd' = cmd
        BY <2>1, <2>3, FreeIs DEF Moves
      <3>2. Broadcast(s)
        BY <3>1 DEF Broadcast, What
      <3> QED
        BY <1>5, <2>3, <3>2, FailingMoves
    <2> QED
      BY <2>2, <2>3
  <1> QED
    BY <1>1, <1>2, <1>3, <1>4, <1>5, Steps DEF vars

-----------------------------------------------------------------------------
(* A command on a key is executed once at most: of its calls one at most   *)
(* is still to execute it or to send it on, and none when it was executed. *)
Armed(s) == Live(s) /\ call[s].kid = None

OnceOK ==
  /\ applied \in [1..MaxCmd -> Nat]
  /\ \A n \in issued + 1 .. MaxCmd : answer[n] = "none" /\ applied[n] = 0
  /\ \A n \in 1..issued : cmd[n].op \notin Wide =>
       applied[n] <= 1 /\ (answer[n] = "ok" => applied[n] = 1)
  /\ \A s \in Slot : call[s].n # 0 /\ ~ Broadcast(s) =>
       /\ call[s].reply = "ok" => applied[call[s].n] = 1
       /\ Armed(s) => /\ applied[call[s].n] = 0
                      /\ \A t \in Slot : Armed(t) /\ call[t].n = call[s].n => t = s

(* The end of a call with a command on a key.                              *)
LEMMA KeyedEnds ==
  ASSUME CInv, NEW s \in Slot, Step(s) \/ RelayFails(s), ~ Broadcast(s)
  PROVE  \E r \in {"ok", "error"} :
           /\ call'[s] = Free \/ (call'[s].reply = r /\ call'[s].n = call[s].n)
           /\ answer' = answer \/ answer' = [answer EXCEPT ![call[s].n] = r]
           /\ r = "ok" => \/ RelaySelf(s)
                          \/ Return(s) /\ call[call[s].kid].reply = "ok"
  <1>0. Live(s) /\ call[s] \in Calls /\ call \in [Slot -> Calls]
    BY StepMoves DEF CInv, CallOK, Live
  <1>1. ASSUME NEW r \in {"ok", "error"}, NEW calls \in [Slot -> Calls], calls[s] = call[s], Finish(s, r, calls)
        PROVE  /\ call'[s] = Free \/ (call'[s].reply = r /\ call'[s].n = call[s].n)
               /\ answer' = answer \/ answer' = [answer EXCEPT ![call[s].n] = r]
    <2> DEFINE d == [call[s] EXCEPT !.reply = r, !.link = None, !.kid = None]
    <2>1. d.reply = r /\ d.n = call[s].n
      BY <1>0 DEF Calls
    <2>2. call'[s] = d \/ call'[s] = Free
      BY <1>1 DEF Finish
    <2> HIDE DEF d
    <2> QED
      BY <1>1, <2>1, <2>2 DEF Finish
  <1>2. ASSUME NEW r, NEW calls, Advance(s, r, calls)
        PROVE  Finish(s, "error", calls) \/ (r # "error" /\ Finish(s, "ok", calls))
    BY <1>2 DEF Advance
  <1>3. CASE RelaySelf(s)
    BY <1>0, <1>1, <1>2, <1>3 DEF RelaySelf
  <1>4. CASE Rename(s)
    BY <1>0, <1>1, <1>4 DEF Rename
  <1>5. CASE RelayFails(s) \/ Timeout(s)
    <2>1. Advance(s, "error", call)
      BY <1>5 DEF RelayFails, Timeout
    <2>2. Finish(s, "error", call)
      BY <1>2, <2>1
    <2> QED
      BY <1>0, <1>1, <2>2
  <1>6. CASE Return(s)
    <2> DEFINE k == call[s].kid
               calls == [call EXCEPT ![k] = Free]
    <2>1. k \in Slot /\ k # s /\ call[k].reply \in {"ok", "error"}
      BY <1>0, <1>6 DEF Return, Waiting, Calls, CInv, KidOK
    <2>2. calls \in [Slot -> Calls] /\ calls[s] = call[s]
      BY <1>0, <2>1, FreeIs
    <2>3. Advance(s, call[k].reply, calls)
      BY <1>6 DEF Return
    <2> HIDE DEF calls
    <2>4. Finish(s, "error", calls) \/ (call[k].reply = "ok" /\ Finish(s, "ok", calls))
      BY <1>2, <2>1, <2>3
    <2> QED
      BY <1>1, <1>6, <2>2, <2>4
  <1> QED
    BY <1>3, <1>4, <1>5, <1>6 DEF Step

LEMMA OnceExec ==
  ASSUME CInv, OnceOK, NEW a \in Node, NEW x \in Cmds, Exec(a, x)
  PROVE  OnceOK'
  <1> DEFINE u == NewSlot
             c == Call(issued', a, User)
  <1>1. u \in Slot /\ call[u].n = 0
    BY NewSlotIs DEF Exec
  <1>2. c.n = issued' /\ c.reply = "none" /\ c.kid = None
    BY DEF Call
  <1>3. /\ issued \in Nat /\ MaxCmd \in Nat /\ issued' = issued + 1 /\ issued' \in 1..MaxCmd
        /\ cmd' = [cmd EXCEPT ![issued'] = x] /\ UNCHANGED <<answer, applied>>
        /\ call' = [call EXCEPT ![u] = c]
    BY BoundsAssumption DEF Exec, CInv, CmdOK
  <1> HIDE DEF u, c
  <1>4. applied'[issued'] = 0 /\ answer'[issued'] = "none"
    BY <1>3 DEF OnceOK
  <1>5. \A s \in Slot \ {u} : call'[s] = call[s] /\ (call[s].n # 0 => call[s].n # issued' /\ call[s].n \in 1..issued)
    BY <1>1, <1>3 DEF CInv, CallOK
  <1>6. \A s \in Slot \ {u} : call[s].n # 0 => What(s)' = What(s)
    BY <1>3, <1>5 DEF What, CInv, CmdOK
  <1>7. /\ applied' \in [1..MaxCmd -> Nat]
        /\ \A n \in issued' + 1 .. MaxCmd : answer'[n] = "none" /\ applied'[n] = 0
        /\ \A n \in 1..issued' : cmd'[n].op \notin Wide =>
             applied'[n] <= 1 /\ (answer'[n] = "ok" => applied'[n] = 1)
    BY <1>3, <1>4 DEF OnceOK, CInv, CmdOK
  <1>8. ASSUME NEW s \in Slot, call'[s].n # 0, ~ Broadcast(s)'
        PROVE  /\ call'[s].reply = "ok" => applied'[call'[s].n] = 1
               /\ Armed(s)' => /\ applied'[call'[s].n] = 0
                               /\ \A t \in Slot : Armed(t)' /\ call'[t].n = call'[s].n => t = s
    <2>1. CASE s = u
      <3>1. call'[s] = c
        BY <1>1, <1>3, <2>1 DEF CInv, CallOK
      <3> QED
        BY <1>2, <1>4, <1>5, <2>1, <3>1 DEF Armed, Live
    <2>2. CASE s # u
      <3>1. ~ Broadcast(s) /\ call'[s] = call[s] /\ call[s].n # 0 /\ call[s].n # issued'
        BY <1>5, <1>6, <1>8, <2>2 DEF Broadcast
      <3>2. \A t \in Slot : Armed(t)' /\ call'[t].n = call'[s].n => t # u /\ Armed(t) /\ call[t].n = call[s].n
        BY <1>1, <1>2, <1>3, <1>5, <3>1 DEF Armed, Live, CInv, CallOK
      <3>3. Armed(s)' => Armed(s)
        BY <3>1 DEF Armed, Live
      <3> QED
        BY <1>3, <3>1, <3>2, <3>3 DEF OnceOK
    <2> QED
      BY <2>1, <2>2
  <1> QED
    BY <1>7, <1>8 DEF OnceOK

LEMMA OnceRelay ==
  ASSUME CInv, OnceOK, NEW s \in Slot, NEW l \in Link, Relay(s, l)
  PROVE  OnceOK'
  <1> DEFINE u == NewSlot
             c == Call(call[s].n, l[2], l)
             d == [call[s] EXCEPT !.link = l, !.kid = u]
  <1>1. u \in Slot /\ call[u].n = 0 /\ s # u /\ Armed(s) /\ call[s].n # 0 /\ u # None
    BY NewSlotIs, SlotAssumption DEF Relay, Running, Live, Armed
  <1>2. c.n = call[s].n /\ c.reply = "none" /\ c.kid = None
    BY DEF Call
  <1>3. d.n = call[s].n /\ d.reply = "none" /\ d.kid = u
    BY <1>1 DEF CInv, CallOK, Calls, Armed, Live
  <1>4. call' = [call EXCEPT ![s] = d, ![u] = c] /\ UNCHANGED <<cmd, issued, answer, applied>>
    BY <1>1 DEF Relay, CInv, CallOK
  <1> HIDE DEF u, c, d
  <1>5. call'[s] = d /\ call'[u] = c /\ \A t \in Slot \ {s, u} : call'[t] = call[t]
    BY <1>1, <1>4 DEF CInv, CallOK
  <1>6. ASSUME NEW t \in Slot, call'[t].n # 0, ~ Broadcast(t)'
        PROVE  /\ call'[t].reply = "ok" => applied'[call'[t].n] = 1
               /\ Armed(t)' => /\ applied'[call'[t].n] = 0
                               /\ \A v \in Slot : Armed(v)' /\ call'[v].n = call'[t].n => v = t
    <2>1. \A v \in Slot : Armed(v)' => v = u \/ (v # s /\ Armed(v) /\ call'[v].n = call[v].n)
      BY <1>1, <1>3, <1>5 DEF Armed, Live
    <2>2. CASE t = u
      <3>1. ~ Broadcast(s) /\ call'[t].n = call[s].n
        BY <1>2, <1>4, <1>5, <1>6, <2>2 DEF Broadcast, What
      <3>2. applied[call[s].n] = 0 /\ \A v \in Slot : Armed(v) /\ call[v].n = call[s].n => v = s
        BY <1>1, <3>1 DEF OnceOK
      <3>3. call'[t].reply = "none"
        BY <1>2, <1>5, <2>2
      <3> QED
        BY <1>4, <2>1, <2>2, <3>1, <3>2, <3>3
    <2>3. CASE t = s
      BY <1>1, <1>3, <1>5, <2>1, <2>3
    <2>4. CASE t # u /\ t # s
      <3>1. call'[t] = call[t] /\ ~ Broadcast(t)
        BY <1>4, <1>5, <1>6, <2>4 DEF Broadcast, What
      <3>2. Armed(t)' => Armed(t) /\ call[t].n # call[s].n
        BY <1>1, <1>6, <2>1, <2>4, <3>1 DEF OnceOK
      <3>3. /\ call[t].reply = "ok" => applied[call[t].n] = 1
            /\ Armed(t) => /\ applied[call[t].n] = 0
                           /\ \A v \in Slot : Armed(v) /\ call[v].n = call[t].n => v = t
        BY <1>6, <3>1 DEF OnceOK
      <3>4. call'[u].n = call[s].n
        BY <1>2, <1>5
      <3> QED
        BY <1>4, <2>1, <3>1, <3>2, <3>3, <3>4
    <2> QED
      BY <2>2, <2>3, <2>4
  <1> QED
    BY <1>4, <1>6 DEF OnceOK

LEMMA OnceEnds ==
  ASSUME CInv, OnceOK, NEW s \in Slot, Step(s) \/ RelayFails(s)
  PROVE  OnceOK'
  <1> DEFINE n == call[s].n
  <1>1. Moves(s) /\ Live(s) /\ n \in 1..issued /\ UNCHANGED <<cmd, issued>>
    BY StepMoves DEF Moves, Live, CInv, CallOK
  <1>2. issued \in Nat /\ MaxCmd \in Nat /\ issued <= MaxCmd /\ AnswerOK
    BY BoundsAssumption DEF CInv, CmdOK
  <1>3. \/ applied' = applied /\ (Broadcast(s) \/ ~ RelaySelf(s))
        \/ RelaySelf(s) /\ ~ Broadcast(s) /\ applied' = [applied EXCEPT ![n] = @ + 1]
    BY DEF Step, Rename, RelaySelf, Return, Timeout, RelayFails
  <1>4. PICK r \in {"ok", "error"} :
          /\ answer' = answer \/ answer' = [answer EXCEPT ![n] = r]
          /\ ~ Broadcast(s) => /\ call'[s] = Free \/ (call'[s].reply = r /\ call'[s].n = n)
                               /\ r = "ok" => \/ RelaySelf(s)
                                              \/ Return(s) /\ call[call[s].kid].reply = "ok"
    BY AnswersOf, KeyedEnds
  <1>5. ~ Broadcast(s) /\ RelaySelf(s) => applied[n] = 0 /\ applied'[n] = 1
    <2>1. RelaySelf(s) => Armed(s)
      BY DEF RelaySelf, Running, Armed
    <2> QED
      BY <1>1, <1>2, <1>3, <2>1 DEF OnceOK, Live
  <1>6. ~ Broadcast(s) /\ r = "ok" => applied'[n] = 1
    <2>1. ASSUME ~ Broadcast(s), ~ RelaySelf(s), Return(s), call[call[s].kid].reply = "ok"
          PROVE  applied[n] = 1
      <3>1. call[s].kid \in Slot /\ call[call[s].kid].n = n
        BY <2>1 DEF Return, Waiting, CInv, CallOK, Calls, KidOK
      <3> QED
        BY <1>1, <2>1, <3>1 DEF OnceOK, Broadcast, What, Live
    <2> QED
      BY <1>3, <1>4, <1>5, <2>1
  <1>7. \A m \in 1..MaxCmd : m # n => applied'[m] = applied[m] /\ answer'[m] = answer[m]
    BY <1>1, <1>2, <1>3, <1>4 DEF OnceOK, AnswerOK
  <1>8. /\ applied' \in [1..MaxCmd -> Nat]
        /\ \A m \in issued' + 1 .. MaxCmd : answer'[m] = "none" /\ applied'[m] = 0
    <2>1. applied \in [1..MaxCmd -> Nat] /\ n \in 1..MaxCmd /\ issued' = issued
      BY <1>1, <1>2 DEF OnceOK
    <2>2. applied' \in [1..MaxCmd -> Nat]
      BY ONLY <1>3, <2>1
    <2>3. ASSUME NEW m \in issued' + 1 .. MaxCmd PROVE answer'[m] = "none" /\ applied'[m] = 0
      <3>1. m \in 1..MaxCmd /\ m # n /\ m \in issued + 1 .. MaxCmd
        BY <1>1, <1>2, <2>1, <2>3
      <3>2. answer[m] = "none" /\ applied[m] = 0
        BY <3>1 DEF OnceOK
      <3> QED BY <1>7, <3>1, <3>2
    <2> QED BY <2>2, <2>3
  <1>9. applied'[n] = applied[n] \/ (~ Broadcast(s) /\ applied[n] = 0 /\ applied'[n] = 1)
    BY <1>3, <1>5
  <1>10. ASSUME NEW m \in 1..issued, cmd[m].op \notin Wide
         PROVE  applied'[m] <= 1 /\ (answer'[m] = "ok" => applied'[m] = 1)
    <2>1. CASE m = n
      <3>1. ~ Broadcast(s)
        BY <1>10, <2>1 DEF Broadcast, What
      <3>2. applied'[m] <= 1
        BY <1>1, <1>9, <1>10, <2>1 DEF OnceOK
      <3>3. answer'[m] = "ok" => answer[m] = "ok" \/ r = "ok"
        BY <1>1, <1>2, <1>4, <2>1 DEF AnswerOK
      <3> QED
        BY <1>1, <1>6, <1>9, <1>10, <2>1, <3>1, <3>2, <3>3 DEF OnceOK
    <2>2. CASE m # n
      BY <1>2, <1>7, <1>10, <2>2 DEF OnceOK
    <2> QED
      BY <2>1, <2>2
  <1>11. ASSUME NEW t \in Slot, call'[t].n # 0, ~ Broadcast(t)'
         PROVE  /\ call'[t].reply = "ok" => applied'[call'[t].n] = 1
                /\ Armed(t)' => /\ applied'[call'[t].n] = 0
                                /\ \A v \in Slot : Armed(v)' /\ call'[v].n = call'[t].n => v = t
    <2>1. \A v \in Slot : v # s /\ call'[v].n # 0 => call'[v] = call[v]
      BY <1>1, FreeIs DEF Moves
    <2>2. ~ Broadcast(s) => ~ Armed(s)' /\ (call'[s].n # 0 => call'[s].reply = r /\ call'[s].n = n)
      BY <1>4, FreeIs DEF Armed, Live
    <2>3. CASE t = s
      <3>1. ~ Broadcast(s) /\ call'[s].n = n
        BY <1>1, <1>11, <2>3, FreeIs DEF Broadcast, What, Moves
      <3> QED
        BY <1>6, <1>11, <2>2, <2>3, <3>1
    <2>4. CASE t # s
      <3>1. call'[t] = call[t] /\ ~ Broadcast(t) /\ call[t].n \in 1..MaxCmd /\ call[t].n # 0
        BY <1>1, <1>2, <1>11, <2>1, <2>4 DEF Broadcast, What, CInv, CallOK
      <3>2. call'[t].reply = "ok" => applied'[call'[t].n] = 1
        BY <1>7, <1>9, <3>1 DEF OnceOK
      <3>3. ASSUME Armed(t)'
            PROVE  Armed(t) /\ applied'[call[t].n] = 0
        <4>1. Armed(t)
          BY <3>1, <3>3 DEF Armed, Live
        <4>2. call[t].n = n => ~ RelaySelf(s)
          BY <1>1, <2>4, <3>1, <4>1 DEF OnceOK, RelaySelf, Running, Armed
        <4> QED
          BY <1>3, <1>7, <3>1, <4>1, <4>2 DEF OnceOK
      <3>4. ASSUME Armed(t)', NEW v \in Slot, Armed(v)', call'[v].n = call'[t].n
            PROVE  v = t
        <4>1. Armed(t)
          BY <3>3, <3>4
        <4>2. CASE v = s
          <5>1. call[t].n = n /\ ~ Broadcast(s)
            BY <1>1, <3>1, <3>4, <4>2, FreeIs DEF Moves, Broadcast, What, Armed, Live
          <5> QED
            BY <2>2, <3>4, <4>2, <5>1
        <4>3. CASE v # s
          <5>1. call'[v] = call[v] /\ Armed(v)
            BY <2>1, <3>4, <4>3 DEF Armed, Live
          <5> QED
            BY <3>1, <3>4, <4>1, <5>1 DEF OnceOK
        <4> QED
          BY <4>2, <4>3
      <3> QED
        BY <3>1, <3>2, <3>3, <3>4
    <2> QED
      BY <2>3, <2>4
  <1> QED
    BY <1>1, <1>8, <1>10, <1>11 DEF OnceOK

LEMMA OnceStep ==
  ASSUME CInv, OnceOK, [Next]_vars
  PROVE  OnceOK'
  <1>1. CASE UNCHANGED vars
    BY <1>1 DEF vars, OnceOK, Armed, Live, Broadcast, What
  <1> QED
    BY <1>1, OnceExec, OnceRelay, OnceEnds, Steps

LEMMA BroadcastsFailStep ==
  ASSUME CInv, OnceOK, Failing, BroadcastsFail, [Next]_vars
  PROVE  BroadcastsFail'
  <1>0. CmdOK /\ AnswerOK /\ MaxCmd \in Nat
    BY BoundsAssumption DEF CInv
  <1>1. ASSUME NEW a \in Node, NEW x \in Cmds, Exec(a, x)
        PROVE  BroadcastsFail'
    BY <1>0, <1>1 DEF Exec, OnceOK, BroadcastsFail, CmdOK
  <1>2. CASE UNCHANGED <<cmd, issued, answer>>
    BY <1>2 DEF BroadcastsFail
  <1>3. ASSUME NEW s \in Slot, Step(s) \/ RelayFails(s)
        PROVE  BroadcastsFail'
    <2>1. UNCHANGED <<cmd, issued>> /\ call[s].n \in 1..issued
      BY <1>3, StepMoves DEF Moves, CInv, CallOK, Live
    <2>2. PICK r \in {"ok", "error"} : answer' = answer \/ answer' = [answer EXCEPT ![call[s].n] = r]
      BY <1>3, AnswersOf
    <2>3. cmd[call[s].n].op \in Wide =>
            answer' = answer \/ answer' = [answer EXCEPT ![call[s].n] = "error"]
      BY <1>3, FailingMoves DEF Broadcast, What
    <2> QED
      BY <1>0, <2>1, <2>2, <2>3 DEF BroadcastsFail, AnswerOK, CmdOK
  <1> QED
    BY <1>1, <1>2, <1>3, Steps DEF Relay, vars

-----------------------------------------------------------------------------
(* The calls outstanding in a connection.                                  *)
LEMMA PushIs ==
  ASSUME NEW q \in Seq(Slot), NEW u \in Slot, IsInjective(q), u \notin Range(q)
  PROVE  /\ Append(q, u) \in Seq(Slot) /\ IsInjective(Append(q, u))
         /\ Range(Append(q, u)) = Range(q) \cup {u}
         /\ q # <<>> => Head(Append(q, u)) = Head(q)
  <1> DEFINE p == Append(q, u)
  <1>1. /\ p \in Seq(Slot) /\ Len(p) = Len(q) + 1 /\ Len(q) \in Nat
        /\ \A i \in 1..Len(q) : p[i] = q[i]
        /\ p[Len(q) + 1] = u
    BY AppendProperties
  <1>2. DOMAIN p = 1..(Len(q) + 1) /\ DOMAIN q = 1..Len(q)
    BY <1>1
  <1> HIDE DEF p
  <1>3. IsInjective(p)
    <2> SUFFICES ASSUME NEW i \in 1..(Len(q) + 1), NEW j \in 1..(Len(q) + 1), p[i] = p[j]
                 PROVE  i = j
      BY <1>2 DEF IsInjective
    <2>1. \A n \in 1..Len(q) : q[n] # u
      BY <1>2 DEF Range
    <2> QED
      BY <1>1, <1>2, <2>1 DEF IsInjective
  <1>4. Range(p) = Range(q) \cup {u}
    BY <1>1, <1>2 DEF Range
  <1>5. q # <<>> => Head(p) = Head(q)
    BY HeadTailAppend DEF p
  <1> QED
    BY <1>1, <1>3, <1>4, <1>5 DEF p

LEMMA PopIs ==
  ASSUME NEW q \in Seq(Slot), q # <<>>, IsInjective(q)
  PROVE  /\ Tail(q) \in Seq(Slot) /\ IsInjective(Tail(q))
         /\ Range(Tail(q)) = Range(q) \ {Head(q)}
  <1> DEFINE p == Tail(q)
  <1>1. /\ p \in Seq(Slot) /\ Len(p) = Len(q) - 1 /\ Len(q) \in Nat \ {0}
        /\ \A i \in 1..Len(p) : p[i] = q[i + 1]
        /\ Head(q) = q[1]
    BY HeadTailProperties
  <1>2. DOMAIN p = 1..(Len(q) - 1) /\ DOMAIN q = 1..Len(q)
    BY <1>1
  <1> HIDE DEF p
  <1>3. IsInjective(p)
    BY SMTT(30), <1>1, <1>2 DEF IsInjective
  <1>4. Range(p) = Range(q) \ {Head(q)}
    <2>1. \A i \in 1..(Len(q) - 1) : p[i] \in Range(q) /\ p[i] # q[1]
      BY SMTT(30), <1>1, <1>2 DEF Range, IsInjective
    <2>2. ASSUME NEW x \in Range(q), x # q[1] PROVE x \in Range(p)
      <3>1. PICK i \in 1..Len(q) : x = q[i]
        BY <1>2 DEF Range
      <3>2. i - 1 \in 1..(Len(q) - 1) /\ p[i - 1] = x
        BY <1>1, <2>2, <3>1
      <3> QED
        BY <1>2, <3>2 DEF Range
    <2>3. \A x \in Range(p) : x \in Range(q) /\ x # q[1]
      BY <1>2, <2>1 DEF Range
    <2> QED
      BY <1>1, <2>2, <2>3
  <1> QED
    BY <1>1, <1>3, <1>4 DEF p

(* What a step of call s does to the calls that count in the connections,  *)
(* if it sends nothing: it goes on, or ends and lets the next have a turn. *)
Turns(s) ==
  /\ \A t \in Slot \ {s} : call'[t] = call[t] \/ (call'[t] = Free /\ ~Live(t))
  /\ \/ /\ queue' = queue /\ call'[s].reply = "none" /\ call'[s].kid = None
        /\ call'[s].n = call[s].n /\ call'[s].by = call[s].by
     \/ /\ call'[s].n = 0 \/ call'[s].reply # "none"
        /\ queue' = IF call[s].by = User THEN queue
                    ELSE [queue EXCEPT ![call[s].by] = Tail(@)]

LEMMA AdvanceTurns ==
  ASSUME CInv, NEW s \in Slot, Live(s), NEW r \in {"ok", "error"}, NEW calls \in [Slot -> Calls],
         \A t \in Slot \ {s} : calls[t] = call[t] \/ (calls[t] = Free /\ ~Live(t)),
         calls[s] = call[s],
         Advance(s, r, calls) \/ Finish(s, r, calls)
  PROVE  Turns(s)
  <1>1. call[s] \in Calls /\ call[s].reply = "none"
    BY DEF CInv, CallOK, Live
  <1>2. ASSUME NEW q \in {"ok", "error"}, Finish(s, q, calls) PROVE Turns(s)
    <2> DEFINE d == [call[s] EXCEPT !.reply = q, !.link = None, !.kid = None]
    <2>1. call' = [calls EXCEPT ![s] = IF Asked(s) THEN d ELSE Free]
      BY <1>2 DEF Finish
    <2>2. d.reply # "none"
      BY <1>1 DEF Calls
    <2>3. call'[s] = IF Asked(s) THEN d ELSE Free
      BY <2>1
    <2>4. \A t \in Slot \ {s} : call'[t] = calls[t]
      BY <2>1
    <2> HIDE DEF d
    <2> QED
      BY <1>2, <2>2, <2>3, <2>4, FreeIs DEF Turns, Finish
  <1>3. CASE Broadcast(s) /\ call[s].i < Len(Nodes(call[s].at)) /\ Advance(s, r, calls)
    <2> DEFINE bad == call[s].bad \/ r = "error"
               d == [call[s] EXCEPT !.i = @ + 1, !.bad = bad, !.link = None, !.kid = None]
    <2>1. call' = [calls EXCEPT ![s] = d] /\ queue' = queue
      BY ZenonT(60), <1>3 DEF Advance
    <2>2. d.n = call[s].n /\ d.by = call[s].by /\ d.kid = None /\ d.reply = "none"
      BY <1>1 DEF Calls
    <2> HIDE DEF d
    <2> QED
      BY <1>1, <2>1, <2>2 DEF Turns
  <1> QED
    BY <1>2, <1>3 DEF Advance

LEMMA StepTurns ==
  ASSUME CInv, NEW s \in Slot, Step(s) \/ RelayFails(s)
  PROVE  Turns(s) /\ Live(s) /\ (Running(s) \/ Waiting(s))
  <1>0. call \in [Slot -> Calls] /\ Live(s) /\ (Running(s) \/ Waiting(s))
    BY DEF CInv, CallOK, Step, Rename, RelaySelf, Return, Timeout, RelayFails, Running, Waiting
  <1>1. CASE Rename(s) \/ RelaySelf(s) \/ RelayFails(s) \/ Timeout(s)
    BY <1>0, <1>1, AdvanceTurns DEF Rename, RelaySelf, RelayFails, Timeout
  <1>2. CASE Return(s)
    <2> DEFINE k == call[s].kid
               calls == [call EXCEPT ![k] = Free]
    <2>1. k \in Slot /\ k # s /\ call[k].reply \in {"ok", "error"} /\ ~Live(k)
      BY <1>0, <1>2 DEF Return, Waiting, Calls, CInv, KidOK, Live
    <2>2. calls \in [Slot -> Calls] /\ calls[s] = call[s]
          /\ \A t \in Slot \ {s} : calls[t] = call[t] \/ (calls[t] = Free /\ ~Live(t))
      BY <1>0, <2>1, FreeIs
    <2>3. Advance(s, call[k].reply, calls)
      BY <1>2 DEF Return
    <2> HIDE DEF calls
    <2> QED
      BY <1>0, <2>1, <2>2, <2>3, AdvanceTurns
  <1> QED
    BY <1>0, <1>1, <1>2 DEF Step

(* The queue of a connection is its unanswered calls; only the first of    *)
(* them may be waiting for another node.                                   *)
QueueOK ==
  /\ queue \in [Link -> Seq(Slot)]
  /\ \A l \in Link : /\ IsInjective(queue[l])
                     /\ Range(queue[l]) = {s \in Slot : Live(s) /\ call[s].by = l}
  /\ \A s \in Slot : Waiting(s) /\ call[s].by # User => Head(queue[call[s].by]) = s

LEMMA Outstanding ==
  ASSUME CInv, QueueOK, NEW s \in Slot, Live(s), call[s].by # User
  PROVE  /\ call[s].by \in Link /\ queue[call[s].by] \in Seq(Slot)
         /\ queue[call[s].by] # <<>> /\ s \in Range(queue[call[s].by])
  <1>1. call[s].by \in Link
    BY DEF CInv, CallOK, Calls
  <1>2. s \in Range(queue[call[s].by])
    BY <1>1 DEF QueueOK
  <1> QED
    BY <1>1, <1>2 DEF QueueOK, Range

LEMMA UserIsNoLink == User \notin Link
  BY DEF User, Link

LEMMA QueueStepTurns ==
  ASSUME CInv, QueueOK, NEW s \in Slot, Step(s) \/ RelayFails(s)
  PROVE  QueueOK'
  <1>1. Turns(s) /\ Live(s) /\ (Running(s) \/ Waiting(s))
    BY StepTurns
  <1>2. call[s].by # User => Head(queue[call[s].by]) = s
    BY <1>1 DEF Running, QueueOK
  <1>3. \A t \in Slot \ {s} : /\ Live(t)' <=> Live(t)
                              /\ Live(t) => call'[t] = call[t]
    BY <1>1, FreeIs DEF Turns, Live
  <1>4. \A t \in Slot \ {s} : Waiting(t)' => Waiting(t) /\ call'[t] = call[t]
    BY <1>3 DEF Waiting
  <1>5. CASE /\ queue' = queue /\ call'[s].reply = "none" /\ call'[s].kid = None
             /\ call'[s].n = call[s].n /\ call'[s].by = call[s].by
    <2>1. Live(s)' /\ ~Waiting(s)'
      BY <1>1, <1>5 DEF Live, Waiting
    <2>2. ASSUME NEW l \in Link
          PROVE  {t \in Slot : Live(t)' /\ call'[t].by = l} = {t \in Slot : Live(t) /\ call[t].by = l}
      BY <1>1, <1>3, <1>5, <2>1
    <2> QED
      BY <1>4, <1>5, <2>1, <2>2 DEF QueueOK
  <1>6. CASE /\ call'[s].n = 0 \/ call'[s].reply # "none"
             /\ queue' = IF call[s].by = User THEN queue
                         ELSE [queue EXCEPT ![call[s].by] = Tail(@)]
    <2>1. ~Live(s)' /\ ~Waiting(s)'
      BY <1>6 DEF Live, Waiting
    <2>2. CASE call[s].by = User
      <3>1. ASSUME NEW l \in Link
            PROVE  {t \in Slot : Live(t)' /\ call'[t].by = l} = {t \in Slot : Live(t) /\ call[t].by = l}
        BY <1>3, <2>1, <2>2, UserIsNoLink
      <3> QED
        BY <1>4, <1>6, <2>1, <2>2, <3>1 DEF QueueOK
    <2>3. CASE call[s].by # User
      <3> DEFINE b == call[s].by
      <3>1. b \in Link /\ queue[b] \in Seq(Slot) /\ queue[b] # <<>>
        BY <1>1, <2>3, Outstanding
      <3>2. /\ Tail(queue[b]) \in Seq(Slot) /\ IsInjective(Tail(queue[b]))
            /\ Range(Tail(queue[b])) = Range(queue[b]) \ {s}
        BY <1>2, <2>3, <3>1, PopIs DEF QueueOK
      <3>3. queue' = [queue EXCEPT ![b] = Tail(queue[b])] /\ queue \in [Link -> Seq(Slot)]
        BY <1>6, <2>3 DEF QueueOK
      <3>4. ASSUME NEW l \in Link
            PROVE  /\ IsInjective(queue'[l])
                   /\ Range(queue'[l]) = {t \in Slot : Live(t)' /\ call'[t].by = l}
        <4>1. {t \in Slot : Live(t)' /\ call'[t].by = l}
                = {t \in Slot : Live(t) /\ call[t].by = l} \ {s}
          BY <1>3, <2>1
        <4>2. IsInjective(queue[l]) /\ Range(queue[l]) = {t \in Slot : Live(t) /\ call[t].by = l}
          BY DEF QueueOK
        <4>3. l # b => s \notin Range(queue[l])
          BY <4>2
        <4> QED
          BY <3>2, <3>3, <4>1, <4>2, <4>3
      <3>5. ASSUME NEW t \in Slot, Waiting(t)', call'[t].by # User
            PROVE  Head(queue'[call'[t].by]) = t
        <4>1. t # s /\ Waiting(t) /\ call'[t] = call[t]
          BY <1>4, <2>1, <3>5
        <4>2. Head(queue[call[t].by]) = t
          BY <3>5, <4>1 DEF QueueOK
        <4>3. call[t].by # b
          BY <1>2, <2>3, <4>1, <4>2
        <4>4. call[t].by \in Link
          BY <3>5, <4>1, Outstanding DEF Waiting
        <4> QED
          BY <3>3, <4>1, <4>2, <4>3, <4>4
      <3> QED
        BY <3>1, <3>2, <3>3, <3>4, <3>5 DEF QueueOK
    <2> QED
      BY <2>2, <2>3
  <1> QED
    BY <1>1, <1>5, <1>6 DEF Turns

-----------------------------------------------------------------------------
LEMMA QueueStepRelay ==
  ASSUME CInv, QueueOK, NEW s \in Slot, NEW l \in Link, Relay(s, l)
  PROVE  QueueOK'
  <1>0. PICK u \in Slot : u = NewSlot
    BY NewSlotIs DEF Relay
  <1> DEFINE c == Call(call[s].n, l[2], l)
             d == [call[s] EXCEPT !.link = l, !.kid = u]
  <1>1. /\ u \in Slot /\ call[u].n = 0 /\ s # u /\ Live(s) /\ call[s] \in Calls
        /\ call \in [Slot -> Calls] /\ ~Live(u) /\ queue \in [Link -> Seq(Slot)]
        /\ call[s].by # User => Head(queue[call[s].by]) = s
    BY <1>0, NewSlotIs DEF Relay, Running, Live, CInv, CallOK, QueueOK
  <1>2. c.n = call[s].n /\ c.by = l /\ c.reply = "none" /\ c.kid = None
    BY DEF Call
  <1>3. d.n = call[s].n /\ d.by = call[s].by /\ d.reply = call[s].reply
    BY <1>1 DEF Calls
  <1>4. call' = [call EXCEPT ![s] = d, ![u] = c] /\ queue' = [queue EXCEPT ![l] = Append(@, u)]
    <2>1. call' = [call EXCEPT ![s].link = l, ![s].kid = u, ![u] = c]
      BY <1>0 DEF Relay
    <2> QED
      BY <1>0, <1>1, <2>1 DEF Relay
  <1> HIDE DEF c, d
  <1>5. /\ call'[u] = c /\ call'[s] = d /\ \A t \in Slot \ {s, u} : call'[t] = call[t]
        /\ Live(s)' /\ Live(u)' /\ ~Waiting(u)'
    BY <1>1, <1>2, <1>3, <1>4 DEF Live, Waiting
  <1>6. \A t \in Slot \ {u} : (Live(t)' <=> Live(t)) /\ call'[t].by = call[t].by
    BY <1>1, <1>3, <1>5 DEF Live
  <1>7. u \notin Range(queue[l])
    BY <1>1 DEF QueueOK
  <1>8. /\ queue[l] \in Seq(Slot)
        /\ Append(queue[l], u) \in Seq(Slot) /\ IsInjective(Append(queue[l], u))
        /\ Range(Append(queue[l], u)) = Range(queue[l]) \cup {u}
        /\ queue[l] # <<>> => Head(Append(queue[l], u)) = Head(queue[l])
    BY <1>1, <1>7, PushIs DEF QueueOK
  <1>9. ASSUME NEW k \in Link
        PROVE  /\ IsInjective(queue'[k])
               /\ Range(queue'[k]) = {t \in Slot : Live(t)' /\ call'[t].by = k}
    <2>1. IsInjective(queue[k]) /\ Range(queue[k]) = {t \in Slot : Live(t) /\ call[t].by = k}
      BY DEF QueueOK
    <2>2. CASE k = l
      <3>1. {t \in Slot : Live(t)' /\ call'[t].by = l}
              = {t \in Slot : Live(t) /\ call[t].by = l} \cup {u}
        BY <1>1, <1>2, <1>5, <1>6
      <3> QED
        BY <1>1, <1>4, <1>8, <2>1, <2>2, <3>1
    <2>3. CASE k # l
      <3>1. {t \in Slot : Live(t)' /\ call'[t].by = k}
              = {t \in Slot : Live(t) /\ call[t].by = k}
        BY <1>1, <1>2, <1>5, <1>6, <2>3
      <3> QED
        BY <1>1, <1>4, <2>1, <2>3, <3>1
    <2> QED
      BY <2>2, <2>3
  <1>10. ASSUME NEW t \in Slot, Waiting(t)', call'[t].by # User
         PROVE  Head(queue'[call'[t].by]) = t
    <2>1. t # u /\ Live(t) /\ call'[t].by = call[t].by
      BY <1>5, <1>6, <1>10 DEF Waiting
    <2>2. Head(queue[call[t].by]) = t
      <3>1. CASE t = s
        BY <1>1, <1>10, <2>1, <3>1
      <3>2. CASE t # s
        BY <1>5, <1>10, <2>1, <3>2 DEF Waiting, QueueOK
      <3> QED
        BY <3>1, <3>2
    <2>3. call[t].by \in Link /\ queue[call[t].by] # <<>>
      BY <1>10, <2>1, Outstanding
    <2> QED
      BY <1>1, <1>4, <1>8, <2>1, <2>2, <2>3
  <1>11. queue' \in [Link -> Seq(Slot)]
    BY <1>1, <1>4, <1>8
  <1> QED
    BY <1>9, <1>10, <1>11 DEF QueueOK

LEMMA QueueStepExec ==
  ASSUME CInv, QueueOK, NEW a \in Node, NEW x \in Cmds, Exec(a, x)
  PROVE  QueueOK'
  <1> DEFINE u == NewSlot
             c == Call(issued', a, User)
  <1>1. u \in Slot /\ call[u].n = 0 /\ ~Live(u)
    BY NewSlotIs DEF Exec, Live
  <1>2. c.by = User /\ c.kid = None
    BY DEF Call
  <1>3. call' = [call EXCEPT ![u] = c] /\ queue' = queue /\ call \in [Slot -> Calls]
    BY DEF Exec, CInv, CallOK
  <1> HIDE DEF u, c
  <1>4. \A t \in Slot \ {u} : call'[t] = call[t] /\ (Live(t)' <=> Live(t)) /\ (Waiting(t)' <=> Waiting(t))
    BY <1>1, <1>3 DEF Live, Waiting
  <1>5. call'[u] = c
    BY <1>1, <1>3
  <1>6. ASSUME NEW l \in Link
        PROVE  {t \in Slot : Live(t)' /\ call'[t].by = l} = {t \in Slot : Live(t) /\ call[t].by = l}
    BY <1>1, <1>2, <1>4, <1>5, UserIsNoLink
  <1>7. \A t \in Slot : Waiting(t)' /\ call'[t].by # User => Waiting(t) /\ call'[t] = call[t]
    BY <1>2, <1>4, <1>5
  <1> QED
    BY <1>3, <1>6, <1>7 DEF QueueOK

LEMMA QueueStep ==
  ASSUME CInv, QueueOK, [Next]_vars
  PROVE  QueueOK'
  <1>1. CASE UNCHANGED vars
    BY <1>1 DEF vars, QueueOK, Live, Waiting
  <1> QED
    BY <1>1, QueueStepTurns, QueueStepRelay, QueueStepExec, Steps

LEMMA QueueInit == Init => QueueOK
  <1> SUFFICES ASSUME Init PROVE QueueOK
    OBVIOUS
  <1>1. \A s \in Slot : ~Live(s) /\ ~Waiting(s)
    BY FreeIs DEF Init, Live, Waiting
  <1>2. queue = [l \in Link |-> <<>>]
    BY DEF Init
  <1>3. \A l \in Link : queue[l] \in Seq(Slot) /\ DOMAIN queue[l] = {}
    BY <1>2
  <1> QED
    BY <1>1, <1>2, <1>3 DEF QueueOK, IsInjective, Range

(* No more failed attempts to connect than the bound.                      *)
FailsOK == fails \in 0..MaxFail
LEMMA FailsStep ==
  ASSUME FailsOK, [Next]_vars
  PROVE  FailsOK'
  <1>1. ASSUME NEW s \in Slot, RelayFails(s) PROVE FailsOK'
    BY <1>1, BoundsAssumption DEF FailsOK, RelayFails
  <1>2. ASSUME fails' = fails PROVE FailsOK'
    BY <1>2 DEF FailsOK
  <1>3. ASSUME NEW s \in Slot, Step(s) PROVE fails' = fails
    BY <1>3 DEF Step, Rename, RelaySelf, Return, Timeout
  <1> QED
    BY <1>1, <1>2, <1>3, Steps DEF Exec, Relay, vars

-----------------------------------------------------------------------------
Inv ==
  /\ CInv /\ OneHop /\ MemOK /\ KeysAtHome /\ OnceOK /\ Failing /\ BroadcastsFail
  /\ QueueOK /\ FailsOK

THEOREM InvHolds == Spec => []Inv
  <1>1. Init => Inv
    <2> SUFFICES ASSUME Init PROVE Inv
      OBVIOUS
    <2>1. CInv
      BY CInvInit
    <2>2. \A s \in Slot : call[s].n = 0
      BY FreeIs DEF Init
    <2>3. OneHop /\ Failing
      BY <2>2 DEF OneHop, Failing
    <2>4. MemOK /\ KeysAtHome /\ BroadcastsFail
      BY BoundsAssumption DEF Init, MemOK, KeysAtHome, BroadcastsFail
    <2>5. OnceOK
      BY <2>2, BoundsAssumption DEF Init, OnceOK
    <2>6. QueueOK /\ FailsOK
      BY QueueInit, BoundsAssumption DEF Init, FailsOK
    <2> QED
      BY <2>1, <2>3, <2>4, <2>5, <2>6 DEF Inv
  <1>2. Inv /\ [Next]_vars => Inv'
    BY CInvStep, OneHopStep, KeysAtHomeStep, OnceStep, FailingStep,
      BroadcastsFailStep, QueueStep, FailsStep DEF Inv, OnceOK
  <1> QED
    BY <1>1, <1>2, PTL DEF Spec

(* The types, and that the calls outstanding in a connection are the       *)
(* unanswered ones that came over it, each once: every reply that a node   *)
(* writes is matched with the request it answers, by their order alone.    *)
THEOREM ClusterTyping == Spec => []TypeOK
  <1>1. Inv => TypeOK
    BY DEF Inv, TypeOK, CInv, HashOK, CmdOK, AnswerOK, CallOK, MemOK, OnceOK, QueueOK, FailsOK
  <1> QED
    BY <1>1, InvHolds, PTL

(* A node holds no key that it would look for at another: what it stores   *)
(* is stored for a command that the hash ring sent to it.                  *)
THEOREM KeysStayHome == Spec => []KeysAtHome
  BY InvHolds, PTL DEF Inv

(* When no two node hashes collide, no key is at two nodes: the rings of   *)
(* the nodes give it the same place and the same node.                     *)
THEOREM KeysHaveOneHome == Spec => []OneHome
  <1>1. Inv => OneHome
    <2> SUFFICES ASSUME Inv, Apart, NEW a \in Node, NEW b \in Node, NEW k \in Key,
                        mem[a][k] # None, mem[b][k] # None
                 PROVE  a = b
      BY DEF OneHome
    <2>1. PickNode(a, k) = a /\ PickNode(b, k) = b
      BY DEF Inv, KeysAtHome
    <2> QED
      BY <2>1, PickNodeAgrees DEF Inv, CInv, HashOK
  <1> QED
    BY <1>1, InvHolds, PTL

(* A command on a key is not relayed by the node it was relayed to, also   *)
(* when hashes collide.                                                    *)
THEOREM RelayedOnce == Spec => []OneHop
  BY InvHolds, PTL DEF Inv

(* No DEL and no FLUSHDB of a user is ever answered with success.          *)
THEOREM NoBroadcastSucceeds == Spec => []BroadcastsFail
  BY InvHolds, PTL DEF Inv

(* A command on one key is executed once at most, whatever times out, and  *)
(* it has been executed when its user is told so.                          *)
THEOREM ExecutedOnce == Spec => []OnceIfOk
  <1>1. Inv => OnceIfOk
    BY DEF Inv, OnceOK, OnceIfOk, Keyed
  <1> QED
    BY <1>1, InvHolds, PTL
=============================================================================
