-------------------------------- MODULE Cluster --------------------------------
(***************************************************************************)
(* The nodes of a cluster (cluster/), each a server for the users that     *)
(* connect to it and for the other nodes.  A command on one key is relayed *)
(* to the node that the consistent hash gives the key, DEL and FLUSHDB to  *)
(* every node in turn; each node treats what another relays to it like     *)
(* what a user sends.                                                      *)
(*                                                                         *)
(* A node has a pool of clients for each other node.  relay borrows one,   *)
(* waits for the reply three seconds at most, and gives it back: what it   *)
(* sent stays with the other node, which executes the commands that come   *)
(* over one connection in their order.  That a client gives each request   *)
(* its own reply is module PipelineClient's, as long as connections last;  *)
(* what a command does to the memory of a node is in module Commands, here *)
(* it is one step.  SELECT, which relay sends first, is refused by the     *)
(* router of every node, as is a user's: all commands are in database 0.   *)
(***************************************************************************)
EXTENDS Integers, Sequences, FiniteSets, Functions

CONSTANTS
  Node, Key,
  Peers,     \* Peers[a]: the configured peers of a, in their order
  Cmds,      \* the commands users send
  Hashes,    \* the hashes that nodes and keys may have
  PoolSize,  \* clients in a pool
  Slot,      \* bound: calls at one time
  MaxCmd,    \* bound: commands of users
  MaxWide,   \* bound: of them, to all nodes
  MaxFail,   \* bound: failed attempts to connect
  None       \* no value, no client, no call

VARIABLES
  hash,      \* hash[x]: the hash of a node's address or of a key
  mem,       \* mem[a][k]: what node a holds for k
  cmd,       \* cmd[n]: the n-th command of the users
  issued,    \* how many there were
  answer,    \* answer[n]: its reply, "none" until there is one
  call,      \* call[s]: an execution of a command by a node
  queue,     \* queue[l]: the calls sent over l and not yet answered
  applied,   \* applied[n]: how often command n was executed on its key
  fails      \* failed attempts to connect

vars == <<hash, mem, cmd, issued, answer, call, queue, applied, fails>>

Wide == {"del", "flushdb"}
(* SET stands for every command on one key.                                *)
Command == [op : {"set", "rename"} \cup Wide, key : Key, dest : Key]
Link == {l \in Node \X Node \X (1..PoolSize) : l[1] # l[2]}
User == <<>>

ASSUME NodesAreFinite == IsFiniteSet(Node) /\ None \notin Node /\ Node \cap Key = {}
ASSUME PeersAreTheOthers ==
  \A a \in Node : Peers[a] \in Seq(Node) /\ Peers[a] # <<>> /\ Range(Peers[a]) = Node \ {a}
ASSUME CmdsAssumption == Cmds \subseteq Command
ASSUME HashesAssumption == Hashes \subseteq [Node \cup Key -> Nat]
ASSUME SlotAssumption == None \notin Slot
ASSUME BoundsAssumption == PoolSize \in Nat \ {0} /\ {MaxCmd, MaxWide, MaxFail} \subseteq Nat

-----------------------------------------------------------------------------
(* The hash ring of a node: the nodes by their hash.  Of two nodes with    *)
(* one hash the one added later has the place; the node itself is last.    *)
Nodes(a) == Append(Peers[a], a)
NodeHashes(a) == {hash[Nodes(a)[i]] : i \in DOMAIN Nodes(a)}

(* A slip: the node that was added first keeps the place.                  *)
AddNodeKeeps(a, h) ==
  LET at == {i \in DOMAIN Nodes(a) : hash[Nodes(a)[i]] = h}
  IN Nodes(a)[CHOOSE i \in at : \A j \in at : i <= j]

AddNode(a, h) ==
  LET at == {i \in DOMAIN Nodes(a) : hash[Nodes(a)[i]] = h}
  IN Nodes(a)[CHOOSE i \in at : \A j \in at : j <= i]

Least(S) == CHOOSE h \in S : \A g \in S : h <= g

PickNode(a, k) ==
  LET after == {h \in NodeHashes(a) : h >= hash[k]}
  IN AddNode(a, Least(IF after = {} THEN NodeHashes(a) ELSE after))

-----------------------------------------------------------------------------
(* A call: the command, the node, the link it came over (User: none), the  *)
(* node of a broadcast it is at and whether one before has failed; while   *)
(* it is relayed the link in use and the call made over it; the reply.     *)
Call(n, a, by) == [n |-> n, at |-> a, by |-> by, i |-> 1, bad |-> FALSE,
                   link |-> None, kid |-> None, reply |-> "none"]
Free == Call(0, None, User)

Init ==
  /\ hash \in Hashes
  /\ mem = [a \in Node |-> [k \in Key |-> None]]
  /\ cmd = [n \in 1..MaxCmd |-> None] /\ issued = 0
  /\ answer = [n \in 1..MaxCmd |-> "none"]
  /\ call = [s \in Slot |-> Free]
  /\ queue = [l \in Link |-> <<>>]
  /\ applied = [n \in 1..MaxCmd |-> 0]
  /\ fails = 0

(* The slot of the next call.                                              *)
Space == \E s \in Slot : call[s].n = 0
NewSlot == CHOOSE s \in Slot : call[s].n = 0

What(s) == cmd[call[s].n]
Broadcast(s) == What(s).op \in Wide
Live(s) == call[s].n # 0 /\ call[s].reply = "none"
Waiting(s) == Live(s) /\ call[s].kid # None
(* It is the turn of call s, and it does not wait for another node.        *)
Running(s) ==
  /\ Live(s) /\ call[s].kid = None
  /\ call[s].by # User => Head(queue[call[s].by]) = s
Asked(s) == \E t \in Slot : call[t].kid = s

(* A slip: RENAME looks at its first key only.                             *)
NeverCrosses(s) == FALSE

(* RENAME and RENAMENX of a key to one of another node.                    *)
Crosses(s) ==
  /\ What(s).op = "rename"
  /\ PickNode(call[s].at, What(s).key) # PickNode(call[s].at, What(s).dest)
(* The node relay is called with.                                          *)
Target(s) == IF Broadcast(s) THEN Nodes(call[s].at)[call[s].i]
             ELSE PickNode(call[s].at, What(s).key)

(* A slip: a reply that nobody waits for any more stays in the connection. *)
FinishUnread(s, r, calls) ==
  /\ call' = [calls EXCEPT ![s] = IF Asked(s) THEN [@ EXCEPT !.reply = r, !.link = None, !.kid = None] ELSE Free]
  /\ queue' = IF ~Asked(s) THEN queue ELSE [queue EXCEPT ![call[s].by] = Tail(@)]
  /\ answer' = IF call[s].by = User THEN [answer EXCEPT ![call[s].n] = r] ELSE answer

(* The reply r ends call s; the other calls are as in calls.               *)
Finish(s, r, calls) ==
  /\ call' = [calls EXCEPT ![s] = IF Asked(s) THEN [@ EXCEPT !.reply = r, !.link = None, !.kid = None] ELSE Free]
  /\ queue' = IF call[s].by = User THEN queue
              ELSE [queue EXCEPT ![call[s].by] = Tail(@)]
  /\ answer' = IF call[s].by = User THEN [answer EXCEPT ![call[s].n] = r] ELSE answer

(* A slip: an error of one node is forgotten.                              *)
AdvanceOnLast(s, r, calls) ==
  IF Broadcast(s) /\ call[s].i < Len(Nodes(call[s].at))
  THEN /\ call' = [calls EXCEPT ![s].i = @ + 1, ![s].link = None, ![s].kid = None]
       /\ UNCHANGED <<queue, answer>>
  ELSE Finish(s, r, calls)

(* The reply of one relay: the next node of a broadcast, or the end.       *)
Advance(s, r, calls) ==
  LET bad == call[s].bad \/ r = "error" IN
  IF Broadcast(s) /\ call[s].i < Len(Nodes(call[s].at))
  THEN /\ call' = [calls EXCEPT ![s].i = @ + 1, ![s].bad = bad, ![s].link = None, ![s].kid = None]
       /\ UNCHANGED <<queue, answer>>
  ELSE Finish(s, IF bad THEN "error" ELSE "ok", calls)

-----------------------------------------------------------------------------
(* A user's command arrives at node a.                                     *)
Exec(a, x) ==
  /\ issued < MaxCmd /\ Space
  /\ x.op \in Wide => Cardinality({n \in 1..issued : cmd[n].op \in Wide}) < MaxWide
  /\ issued' = issued + 1
  /\ cmd' = [cmd EXCEPT ![issued'] = x]
  /\ call' = [call EXCEPT ![NewSlot] = Call(issued', a, User)]
  /\ UNCHANGED <<hash, mem, answer, queue, applied, fails>>

Rename(s) ==
  /\ Running(s) /\ Crosses(s)
  /\ Finish(s, "error", call)
  /\ UNCHANGED <<hash, mem, cmd, issued, applied, fails>>

(* A command on the memory m of a node.  A value is the number of the      *)
(* command that stored it; RENAME of a key to itself removes it.           *)
Effect(x, n, m) ==
  CASE x.op = "set" -> [m EXCEPT ![x.key] = n]
    [] x.op = "rename" -> IF m[x.key] = None THEN m
                          ELSE [m EXCEPT ![x.dest] = m[x.key], ![x.key] = None]
    [] x.op = "del" -> [m EXCEPT ![x.key] = None]
    [] x.op = "flushdb" -> [k \in Key |-> None]

RelaySelf(s) ==
  LET a == call[s].at n == call[s].n IN
  /\ Running(s) /\ ~Crosses(s) /\ Target(s) = a
  /\ mem' = [mem EXCEPT ![a] = Effect(What(s), n, @)]
  /\ applied' = IF Broadcast(s) THEN applied ELSE [applied EXCEPT ![n] = @ + 1]
  /\ Advance(s, "ok", call)
  /\ UNCHANGED <<hash, cmd, issued, fails>>

(* getPeerClient, which waits for a client without a limit, and Send.      *)
Idle(l) == \A s \in Slot : call[s].link # l
Relay(s, l) ==
  /\ Running(s) /\ ~Crosses(s) /\ Target(s) # call[s].at
  /\ l[1] = call[s].at /\ l[2] = Target(s) /\ Idle(l) /\ Space
  /\ call' = [call EXCEPT ![s].link = l, ![s].kid = NewSlot,
                          ![NewSlot] = Call(call[s].n, l[2], l)]
  /\ queue' = [queue EXCEPT ![l] = Append(@, NewSlot)]
  /\ UNCHANGED <<hash, mem, cmd, issued, answer, applied, fails>>

(* No client is idle and a new one finds nobody to connect to.             *)
RelayFails(s) ==
  /\ Running(s) /\ ~Crosses(s) /\ Target(s) # call[s].at /\ fails < MaxFail
  /\ fails' = fails + 1
  /\ Advance(s, "error", call)
  /\ UNCHANGED <<hash, mem, cmd, issued, applied>>

(* Send returns the reply of the other node.                               *)
Return(s) ==
  /\ Waiting(s) /\ call[call[s].kid].reply # "none"
  /\ Advance(s, call[call[s].kid].reply, [call EXCEPT ![call[s].kid] = Free])
  /\ UNCHANGED <<hash, mem, cmd, issued, applied, fails>>

(* A slip: what is not answered in time is sent again.                     *)
TimeoutRetries(s) ==
  /\ Waiting(s) /\ call[call[s].kid].reply = "none"
  /\ call' = [call EXCEPT ![s].link = None, ![s].kid = None]
  /\ UNCHANGED <<hash, mem, cmd, issued, answer, queue, applied, fails>>

(* A slip: only a command of a user is given up.                           *)
TimeoutOfUsers(s) ==
  /\ Waiting(s) /\ call[call[s].kid].reply = "none" /\ call[s].by = User
  /\ Advance(s, "error", call)
  /\ UNCHANGED <<hash, mem, cmd, issued, applied, fails>>

(* Three seconds have passed; the call that was made goes on.              *)
Timeout(s) ==
  /\ Waiting(s) /\ call[call[s].kid].reply = "none"
  /\ Advance(s, "error", call)
  /\ UNCHANGED <<hash, mem, cmd, issued, applied, fails>>

Step(s) == Rename(s) \/ RelaySelf(s) \/ Return(s) \/ Timeout(s)

Next ==
  \/ \E a \in Node, x \in Cmds : Exec(a, x)
  \/ \E s \in Slot : Rename(s) \/ RelaySelf(s) \/ RelayFails(s) \/ Return(s) \/ Timeout(s)
  \/ \E s \in Slot, l \in Link : Relay(s, l)

Spec == Init /\ [][Next]_vars

(* A call that can go on does; one that waits for a client gets one when   *)
(* clients become idle again and again: returning one wakes a waiter.      *)
Fairness == \A s \in Slot : WF_vars(Step(s)) /\ SF_vars(\E l \in Link : Relay(s, l))
FairSpec == Spec /\ Fairness

-----------------------------------------------------------------------------
Keyed(n) == cmd[n] # None /\ cmd[n].op \notin Wide
Apart == \A a, b \in Node : hash[a] = hash[b] => a = b

Calls == [n : 0..MaxCmd, at : Node \cup {None}, by : Link \cup {User}, i : Nat \ {0},
          bad : BOOLEAN, link : Link \cup {None}, kid : Slot \cup {None},
          reply : {"none", "ok", "error"}]

(* What each variable holds, and that the calls outstanding in a           *)
(* connection are unanswered ones that came over it, each once.            *)
TypeOK ==
  /\ hash \in Hashes
  /\ mem \in [Node -> [Key -> 1..MaxCmd \cup {None}]]
  /\ cmd \in [1..MaxCmd -> Cmds \cup {None}] /\ issued \in 0..MaxCmd
  /\ answer \in [1..MaxCmd -> {"none", "ok", "error"}]
  /\ call \in [Slot -> Calls]
  /\ queue \in [Link -> Seq(Slot)]
  /\ \A l \in Link : /\ IsInjective(queue[l])
                     /\ Range(queue[l]) = {s \in Slot : Live(s) /\ call[s].by = l}
  /\ applied \in [1..MaxCmd -> Nat] /\ fails \in 0..MaxFail

(* A node holds no key that it would look for at another node.             *)
KeysAtHome == \A a \in Node, k \in Key : mem[a][k] # None => PickNode(a, k) = a

(* A key is at one node: whichever node a user is connected to, it finds   *)
(* the same value (unless the hashes of two nodes collide).                *)
OneHome ==
  Apart => \A a, b \in Node, k \in Key : mem[a][k] # None /\ mem[b][k] # None => a = b

(* A command on a key that one node relays is not relayed again by the     *)
(* other, with any hashes: requests do not travel in circles.              *)
OneHop ==
  \A s \in Slot : call[s].n # 0 /\ call[s].by # User /\ Keyed(call[s].n)
                     => PickNode(call[s].at, What(s).key) = call[s].at

(* A command on a key is executed once at most, whatever times out, and    *)
(* has been executed when the user is told so.                             *)
OnceIfOk ==
  \A n \in 1..issued :
    Keyed(n) => applied[n] <= 1 /\ (answer[n] = "ok" => applied[n] = 1)

(* A DEL or FLUSHDB is never answered with success: each node it is        *)
(* relayed to relays it to every node again, until a client times out.     *)
BroadcastsFail ==
  \A n \in 1..issued : cmd[n].op \in Wide => answer[n] # "ok"

(* Every command is answered, and nothing of a command on a key is left    *)
(* over for ever: nodes that wait for each other's clients, or for the     *)
(* requests ahead in a connection, go on when the clients time out.        *)
Settled ==
  \A n \in 1..MaxCmd :
    issued >= n ~> answer[n] # "none" /\ (Keyed(n) => \A s \in Slot : call[s].n # n)

(* When a DEL has been answered it is over, at every node: it does not     *)
(* remove what is stored afterwards.                                       *)
DelEnds ==
  \A n \in 1..MaxCmd :
    answer[n] # "none" /\ cmd[n].op = "del" ~> \A s \in Slot : call[s].n # n
=============================================================================
