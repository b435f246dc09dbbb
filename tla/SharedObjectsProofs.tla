-------------------------- MODULE SharedObjectsProofs --------------------------
(***************************************************************************)
(* Theorems about the commands on lists and sets: who may be at an object, *)
(* and that the log rebuilds memory, for any connections, keys, elements   *)
(* and references, and lists of any length.                                *)
(*                                                                         *)
(* The invariant has two halves.  OwnInv says whose each object is; it     *)
(* holds whatever commands overlap.  Follows says, for a command that      *)
(* nothing disturbs, how far memory has come from the log at each of its   *)
(* places (Agrees).  Every step of a command has one shape (Acts), from    *)
(* which the first half follows, and with it that the step leaves the keys *)
(* of the other commands alone; what remains to say of each action is what *)
(* it does on the keys of its own command (Progress).                      *)
(***************************************************************************)
EXTENDS SharedObjects, WellFoundedInduction, TLAPS

(* What every command looks like.                                          *)
Writers == Pushes \cup {"lrem", "lset", "sadd", "srem"}
Loners  == Writers \cup {"lpop", "rpop", "lindex", "look", "del", "spop"}
Shaped(x) ==
  /\ x.op \in Loners \cup {"rpoplpush", "rename"} \cup Stores
  /\ Len(x.keys) \in 1..3 /\ DOMAIN x.keys = 1..Len(x.keys)
  /\ \A n \in 1..Len(x.keys) : x.keys[n] \in Key
  /\ x.op \in Loners => Len(x.keys) = 1
  /\ x.op \in {"rpoplpush", "rename"} => Len(x.keys) = 2
  /\ x.op \in Stores => Len(x.keys) \in 2..3
  /\ x.op \in Writers => x.val \in Val
  /\ x.op = "spop" => x.n \in {1, 2}

(* Where each command can be, and what it has with it there.               *)
Fits(f) ==
  LET x == f.cmd op == f.cmd.op n == Len(f.refs) IN
  /\ f.pc = "idle" => f = Idle
  /\ f.pc # "idle" => x \in CommandSet
  /\ op \in Stores => f.acc = None \/ f.acc \in SUBSET Val
  /\ op \in {"sinterstore", "sdiffstore"} /\ f.pc \in {"get", "inside"} /\ f.i = 3 => f.acc # None
  /\ op \in Stores /\ f.pc \in {"get", "inside"} => f.i \in 2..Len(x.keys)
  /\ f.pc \in {"get", "init", "inside"} /\ op \in Loners \cup {"rename"} => f.i = 1
  /\ f.pc = "get" => n = IF op = "rpoplpush" THEN f.i - 1 ELSE 0
  /\ f.pc = "get" /\ op = "rpoplpush" => f.i \in 1..2
  /\ f.pc = "init" =>
       \/ op \in {"lpush", "rpush", "sadd"} /\ n = 0
       \/ op = "rpoplpush" /\ f.i = 2 /\ n = 1
  /\ f.pc = "inside" => op \notin {"del", "rename"} /\ n = IF op = "rpoplpush" THEN 2 ELSE 1
  /\ f.pc = "into" => op = "rpoplpush" /\ n = 2 /\ f.acc \in SUBSET Elem
  /\ f.pc = "check" => \/ op \in {"lpop", "rpop", "lrem", "srem"} /\ n = 1
                       \/ op = "rpoplpush" /\ n = 2
  /\ f.pc = "checkonly" => op \in {"lrem", "srem"} /\ n = 1
  /\ f.pc = "drop" => op \in {"lpop", "rpop", "lrem", "srem", "rpoplpush", "del", "rename"}
  /\ f.pc = "droponly" => op \in {"lrem", "srem", "sinterstore", "sdiffstore"}
  /\ f.pc = "clear" => op = "sunionstore"
  /\ f.pc = "put" => op \in Stores /\ f.acc # None
  /\ f.pc = "dest" => op = "rename" /\ n = 1
  /\ f.pc = "log" => op \notin {"look", "lindex"}
FitsAll == \A c \in Client : Fits(run[c])

Keys(c) == Touched(run[c].cmd)
Refs(c) == {run[c].refs[n] : n \in DOMAIN run[c].refs}

(* Commands that share a key are not followed any more; a command is       *)
(* followed on all of its keys or on none.                                 *)
Solo ==
  /\ \A c, d \in Client : c # d /\ Keys(c) \cap Keys(d) # {} => Keys(c) \cup Keys(d) \subseteq apart
  /\ \A c \in Client : Keys(c) \subseteq apart \/ Keys(c) \cap apart = {}

(* An object with two keys, or at which two commands are, or that is a key *)
(* of one and in the hands of another, or torn, is of keys not followed.   *)
Owned ==
  /\ \A k, l \in Key : k # l /\ data[k] # None /\ data[k] = data[l] => {k, l} \subseteq apart \/ Renaming(k, l)
  /\ \A c \in Client : \A k \in Key : data[k] \in Refs(c) =>
       k \in Keys(c) \/ (k \in apart /\ Keys(c) \subseteq apart)
  /\ \A c, d \in Client : c # d /\ Refs(c) \cap Refs(d) # {} => Keys(c) \cup Keys(d) \subseteq apart
  /\ \A k \in Key : data[k] \in torn => k \in apart
  /\ \A c \in Client : Refs(c) \cap torn # {} => Keys(c) \subseteq apart

(* Objects in use are lists or sets, of the kind that who is at them wants; *)
(* others are gone.                                                        *)
Proper(o) ==
  /\ o.kind = "list" => o.mem = {}
  /\ o.kind = "set"  => o.seq = <<>>
  /\ o.kind = "none" => o = Absent
Serves(op, o) == /\ op \in ListOps => o.kind = "list"
                 /\ op \in SetOps => o.kind = "set"
Alive ==
  /\ \A r \in Ref : /\ InUse(r) => heap[r].kind # "none"
                    /\ ~InUse(r) => heap[r] = Absent /\ r \notin torn
                    /\ Proper(heap[r])
  /\ \A c \in Client : \A r \in Refs(c) : Serves(Op(c), heap[r])

(* How far the command of frame f, that nothing disturbs, has come: where  *)
(* the objects are that it fetched, when D leads from keys to objects;     *)
(* what it has read of the contents st of the log; and what it has made of *)
(* them in memory m.                                                       *)
Sound(o) == Proper(o) /\ (o.kind = "list" => o.seq # <<>>)
Holds(f, D) ==
  LET x == f.cmd op == f.cmd.op a == f.cmd.keys[1] b == f.cmd.keys[2] IN
  /\ f.pc = "init" => D[x.keys[f.i]] = None
  /\ f.pc = "inside" => f.refs[1] = D[IF op \in Stores THEN x.keys[f.i] ELSE a]
  /\ f.pc \in {"into", "check", "checkonly", "dest"} => f.refs[1] = D[a]
  /\ op = "rpoplpush" /\ f.pc \in {"get", "init"} /\ f.i = 2 => f.refs[1] = D[a]
  /\ op = "rpoplpush" /\ f.pc \in {"inside", "into"} => f.refs[2] = D[b]
HasRead(f, st) ==
  LET x == f.cmd op == f.cmd.op a == f.cmd.keys[1] b == f.cmd.keys[2] IN
  /\ f.pc = "into" => st[a].seq # <<>> /\ f.acc = {st[a].seq[Len(st[a].seq)]}
  /\ op \in Stores /\ f.pc \in {"get", "inside"} /\ f.i = 2 => f.acc = None
  /\ op \in Stores /\ f.pc \in {"get", "inside"} /\ f.i = 3 =>
       f.acc = IF op = "sunionstore" /\ st[b] = Absent THEN None ELSE st[b].mem
  /\ f.pc = "clear" /\ f.acc # None => f.acc = Result(op, Sources(x, st))
  /\ f.pc = "put" => f.acc = Result(op, Sources(x, st))
HasMade(f, m, st) ==
  LET x == f.cmd op == f.cmd.op T == Touched(f.cmd) a == f.cmd.keys[1] b == f.cmd.keys[2] IN
  /\ f.pc \in {"get", "init", "dest", "checkonly", "droponly", "clear"} => \A k \in T : m[k] = st[k]
  /\ f.pc = "inside" /\ op \notin {"lpush", "rpush", "sadd", "rpoplpush"} => \A k \in T : m[k] = st[k]
  /\ f.pc = "inside" /\ op \in {"lpush", "rpush"} => m[a] = List(st[a].seq)
  /\ f.pc = "inside" /\ op = "sadd" => m[a] = MkSet(st[a].mem)
  /\ f.pc = "inside" /\ op = "rpoplpush" => m[a] = st[a]
  /\ f.pc = "into" => m[a] = List(Front(st[a].seq))
  /\ f.pc \in {"inside", "into"} /\ op = "rpoplpush" /\ a # b => m[b] = List(st[b].seq)
  /\ f.pc = "put" => \A k \in T \ {a} : m[k] = st[k]
  /\ f.pc = "check" => Apply(x, st)[a] = Kept(m[a])
  /\ f.pc = "drop" => Apply(x, st)[a] = Absent
  /\ f.pc \in {"check", "drop"} => \A k \in T \ {a} : Apply(x, st)[k] = m[k] /\ Sound(m[k])
  /\ f.pc = "log" => \A k \in T : Apply(x, st)[k] = m[k] /\ Sound(m[k])
Agrees(f, D, m, st) == Holds(f, D) /\ HasRead(f, st) /\ HasMade(f, m, st)

Memory == [k \in Key |-> InMemory(k)]
Follows ==
  /\ \A k \in Key \ apart : Sound(saved[k])
  /\ \A c \in Client : run[c].pc # "idle" /\ Keys(c) \cap apart = {} => Agrees(run[c], data, Memory, saved)
  /\ \A k \in Key \ apart : Working(k) = {} => saved[k] = Memory[k]

(* The shape of every step of a command c: its frame becomes f, key k gets *)
(* the object v, the objects become h and t, and the keys S are no longer  *)
(* followed.  It changes its own keys and the objects in its hands, takes  *)
(* the objects of its own keys or new ones, and tears an object only when  *)
(* its keys are not followed.                                              *)
Held(f) == {f.refs[n] : n \in DOMAIN f.refs}
Acts(c, f, k, v, h, t, S) ==
  /\ run' = [run EXCEPT ![c] = f] /\ data' = [data EXCEPT ![k] = v]
  /\ apart' = apart \cup S /\ Objects(h, t)
  /\ f \in Frame /\ Fits(f) /\ k \in Key /\ v \in Ref \cup {None}
  /\ f = Idle \/ f.cmd = run[c].cmd
  /\ S \subseteq Keys(c) /\ (S = {} \/ f = Idle \/ S = Keys(c))
  /\ v = data[k] \/ (k \in Keys(c) /\ v \in {None} \cup Refs(c) \cup Unused)
  /\ v \in Refs(c) /\ v # data[k] =>
       Op(c) = "rename" /\ k = At(c, 2) /\ f.pc = "drop" /\ f.cmd = run[c].cmd
  /\ Op(c) = "rename" /\ run[c].pc = "drop" => k = At(c, 1) /\ v = None
  /\ Held(f) \subseteq Refs(c) \cup {data[l] : l \in Keys(c)} \cup Unused
  /\ h \in [Ref -> Contents] /\ \A r \in Ref : Proper(h[r])
  /\ \A r \in Ref : \/ h[r] = heap[r]
                    \/ r \in Refs(c) /\ h[r].kind = heap[r].kind
                    \/ r \in Unused
  /\ \A r \in Unused : r = v \/ r \in Held(f) => h[r].kind # "none"
  /\ \A r \in Held(f) : r \in Refs(c) \/ Serves(f.cmd.op, h[r])
  /\ t \subseteq torn \cup Refs(c) /\ (t = torn \/ Keys(c) \subseteq apart)

OwnInv == TypeOK /\ FitsAll /\ Solo /\ Owned /\ Alive
ObjectsInv == OwnInv /\ Follows

-----------------------------------------------------------------------------
(* A set of natural numbers that is not empty has a least element.         *)
LEMMA Least ==
  ASSUME NEW T \in SUBSET Nat, T # {}
  PROVE  \E n \in T : \A m \in T : n <= m
  <1>1. PICK n \in T : \A y \in Nat : <<y, n>> \in OpToRel(<, Nat) => ~ (y \in T)
    BY NatLessThanWellFounded, WFMin
  <1>2. \A m \in T : ~(m < n)
    BY <1>1 DEF OpToRel
  <1>3. QED
    BY <1>2

(* A list without the elements equal to v is a list of elements of it.     *)
LEMMA WithoutIs ==
  ASSUME NEW S, NEW s \in Seq(S), NEW v
  PROVE  Without(s, v) \in Seq(S)
  <1> DEFINE kept[n \in 0..Len(s)] ==
        IF n = 0 THEN <<>> ELSE IF s[n] = v THEN kept[n - 1] ELSE Append(kept[n - 1], s[n])
      Good(g, m) == g = [n \in 0..m |-> IF n = 0 THEN <<>> ELSE IF s[n] = v THEN g[n - 1] ELSE Append(g[n - 1], s[n])]
      Bad == {m \in Nat : ~\E g : Good(g, m)}
  <1>1. Without(s, v) = kept[Len(s)]
    BY DEF Without
  <1>2. kept = CHOOSE g : Good(g, Len(s))
    BY DEF kept
  <1>3. Bad = {}
    <2>1. SUFFICES ASSUME Bad # {} PROVE FALSE
      OBVIOUS
    <2>2. PICK m \in Bad : \A k \in Bad : m <= k
      BY <2>1, Least
    <2>3. m # 0
      <3>1. Good([n \in 0..0 |-> <<>>], 0)
        OBVIOUS
      <3>2. QED
        BY <3>1, <2>2
    <2>4. m \in Nat /\ m - 1 \in Nat /\ m - 1 \notin Bad
      <3>1. m \in Nat
        <4> HIDE DEF Good
        <4>1. QED
          BY <2>2
      <3> HIDE DEF Bad
      <3>2. QED
        BY <2>2, <2>3, <3>1
    <2>5. PICK g : Good(g, m - 1)
      <3> HIDE DEF Good
      <3>1. QED
        BY <2>4
    <2> DEFINE h == [n \in 0..m |-> IF n = 0 THEN <<>> ELSE IF s[n] = v THEN g[n - 1] ELSE Append(g[n - 1], s[n])]
    <2>6. \A n \in 0..(m - 1) : h[n] = g[n]
      <3>1. TAKE n \in 0..(m - 1)
      <3>2. h[n] = IF n = 0 THEN <<>> ELSE IF s[n] = v THEN g[n - 1] ELSE Append(g[n - 1], s[n])
        BY <2>4
      <3>3. g[n] = IF n = 0 THEN <<>> ELSE IF s[n] = v THEN g[n - 1] ELSE Append(g[n - 1], s[n])
        BY <2>5
      <3>4. QED
        BY <3>2, <3>3
    <2>7. h = [n \in 0..m |-> IF n = 0 THEN <<>> ELSE IF s[n] = v THEN h[n - 1] ELSE Append(h[n - 1], s[n])]
      <3>1. \A n \in 0..m : n # 0 => h[n - 1] = g[n - 1]
        <4> HIDE DEF h
        <4>1. QED
          BY <2>6, <2>4
      <3>2. \A n \in 0..m : (IF n = 0 THEN <<>> ELSE IF s[n] = v THEN g[n - 1] ELSE Append(g[n - 1], s[n]))
                 = (IF n = 0 THEN <<>> ELSE IF s[n] = v THEN h[n - 1] ELSE Append(h[n - 1], s[n]))
        <4> HIDE DEF h
        <4>1. QED
          BY <3>1
      <3>3. QED
        BY <3>2
    <2>8. Good(h, m)
      <3> HIDE DEF h
      <3>1. QED
        BY <2>7
    <2>9. QED
      <3> HIDE DEF Good, h
      <3>1. QED
        BY <2>2, <2>8
  <1>4. Good(kept, Len(s))
    <2>1. \E g : Good(g, Len(s))
      BY <1>3
    <2> HIDE DEF Good, kept
    <2>2. QED
      BY <2>1, <1>2
  <1> HIDE DEF kept
  <1>5. \A n \in 0..Len(s) : kept[n] \in Seq(S)
    <2> DEFINE Odd == {n \in 0..Len(s) : kept[n] \notin Seq(S)}
    <2>1. SUFFICES ASSUME Odd # {} PROVE FALSE
      OBVIOUS
    <2>2. PICK m \in Odd : \A k \in Odd : m <= k
      BY <2>1, Least, Odd \in SUBSET Nat
    <2>3. m # 0
      BY <1>4, <2>2
    <2>4. m - 1 \in 0..Len(s) /\ kept[m - 1] \in Seq(S)
      BY <2>2, <2>3
    <2>5. kept[m] = IF s[m] = v THEN kept[m - 1] ELSE Append(kept[m - 1], s[m])
      BY <1>4, <2>2, <2>3
    <2>6. s[m] \in S
      BY <2>2, <2>3
    <2>7. kept[m] \in Seq(S) /\ m \in 0..Len(s)
      BY <2>2, <2>4, <2>5, <2>6
    <2>8. QED
      BY <2>2, <2>7
  <1>6. QED
    BY <1>1, <1>5

(* A command has as many keys, and such a value, as its op calls for.      *)
LEMMA CommandShape == \A x \in CommandSet : Shaped(x)
  <1> SUFFICES ASSUME NEW x \in CommandSet PROVE Shaped(x)
    OBVIOUS
  <1> DEFINE Triples == {t \in Key \X Key \X Key : t[2] # t[3]}
  <1>k. /\ \A s \in Singles : Len(s) = 1 /\ DOMAIN s = 1..1 /\ s[1] \in Key
        /\ \A s \in Pairs : Len(s) = 2 /\ DOMAIN s = 1..2 /\ s[1] \in Key /\ s[2] \in Key
        /\ \A s \in Triples : Len(s) = 3 /\ DOMAIN s = 1..3 /\ s[1] \in Key /\ s[2] \in Key /\ s[3] \in Key
    BY DEF Singles, Pairs
  <1>n. \A ops, keys, vals : \A y \in Command(ops, keys, vals) :
          y.op \in ops /\ y.keys \in keys /\ y.val \in vals
    BY DEF Command
  <1> USE DEF Shaped, Loners, Writers, Pushes, Stores
  <1>1. CASE x \in Command(Pushes \cup {"lrem", "lset", "sadd", "srem"}, Singles, Val)
    <2>1. x.op \in Writers /\ x.keys \in Singles /\ x.val \in Val
      BY <1>1, <1>n
    <2>2. QED
      BY <2>1, <1>k
  <1>2. CASE x \in Command({"lpop", "rpop", "lindex", "look", "del"}, Singles, {None})
    <2>1. x.op \in {"lpop", "rpop", "lindex", "look", "del"} /\ x.keys \in Singles
      BY <1>2, <1>n
    <2>2. QED
      BY <2>1, <1>k
  <1>3. CASE x \in Command({"rpoplpush", "rename"}, Pairs, {None})
    <2>1. x.op \in {"rpoplpush", "rename"} /\ x.keys \in Pairs
      BY <1>3, <1>n
    <2>2. QED
      BY <2>1, <1>k
  <1>4. CASE x \in Command(Stores, Pairs \cup Triples, {None})
    <2>1. x.op \in Stores /\ x.keys \in Pairs \cup Triples
      BY <1>4, <1>n
    <2>2. QED
      <3> HIDE DEF Triples
      <3>1. QED
        BY <2>1, <1>k
  <1>5. CASE x \in [op : {"spop"} \cap Ops, keys : Singles, val : {None}, n : {1, 2}]
    <2>1. x.op = "spop" /\ x.keys \in Singles /\ x.n \in {1, 2}
      BY <1>5
    <2>2. QED
      BY <2>1, <1>k
  <1>6. QED
    BY <1>1, <1>2, <1>3, <1>4, <1>5 DEF CommandSet

-----------------------------------------------------------------------------
(* The keys of a command.                                                  *)
LEMMA TouchedIs ==
  ASSUME NEW x \in CommandSet
  PROVE  /\ Touched(x) = {x.keys[n] : n \in 1..Len(x.keys)} /\ Touched(x) \subseteq Key
         /\ x.keys[1] \in Touched(x) /\ x.keys[1] \in Key
         /\ Len(x.keys) = 1 => Touched(x) = {x.keys[1]}
         /\ Len(x.keys) = 2 => Touched(x) = {x.keys[1], x.keys[2]}
         /\ Len(x.keys) = 3 => Touched(x) = {x.keys[1], x.keys[2], x.keys[3]}
         /\ \A n \in 1..Len(x.keys) : x.keys[n] \in Touched(x) /\ x.keys[n] \in Key
  BY CommandShape DEF Shaped, Touched

(* The ops are what they are.                                              *)
LEMMA NoTouch == Touched(NoCommand) = {}
  BY DEF Touched, NoCommand

(* A command at work is one of the commands.                               *)
LEMMA AtWork ==
  ASSUME TypeOK, FitsAll, NEW c \in Client
  PROVE  /\ run[c] \in Frame /\ Fits(run[c]) /\ Keys(c) \subseteq Key
         /\ run[c].pc # "idle" => run[c].cmd \in CommandSet /\ Shaped(run[c].cmd)
         /\ run[c].pc = "idle" => run[c] = Idle /\ Keys(c) = {} /\ Refs(c) = {}
         /\ Refs(c) \subseteq Ref /\ Refs(c) = {run[c].refs[n] : n \in 1..Len(run[c].refs)}
  <1>1. run[c] \in Frame /\ Fits(run[c])
    BY DEF TypeOK, FitsAll
  <1>2. run[c].pc # "idle" => run[c].cmd \in CommandSet /\ Shaped(run[c].cmd) /\ Keys(c) \subseteq Key
    BY <1>1, CommandShape, TouchedIs DEF Fits, Keys
  <1>3. run[c].pc = "idle" => run[c] = Idle /\ Keys(c) = {} /\ Refs(c) = {}
    BY <1>1, NoTouch DEF Fits, Keys, Refs, Idle
  <1>4. run[c].refs \in Seq(Ref)
    BY <1>1 DEF Frame
  <1>5. Refs(c) \subseteq Ref /\ Refs(c) = {run[c].refs[n] : n \in 1..Len(run[c].refs)}
    BY <1>4 DEF Refs
  <1>6. QED
    BY <1>1, <1>2, <1>3, <1>5

(* A replayed command changes its keys only, and what it makes of them     *)
(* depends on them only.                                                   *)
LEMMA ApplyIs ==
  ASSUME NEW x \in CommandSet, NEW st, st = [k \in Key |-> st[k]]
  PROVE  /\ Apply(x, st) = [k \in Key |-> Apply(x, st)[k]]
         /\ \A k \in Key \ Touched(x) : Apply(x, st)[k] = st[k]
  <1>1. Shaped(x) /\ \A n \in 1..Len(x.keys) : x.keys[n] \in Touched(x) /\ x.keys[n] \in Key
    BY CommandShape, TouchedIs
  <1>2. x.keys[1] \in Touched(x) /\ x.keys[1] \in Key
    BY TouchedIs
  <1>b. x.op \in {"rpoplpush", "rename"} => x.keys[2] \in Touched(x) /\ x.keys[2] \in Key
    BY <1>1 DEF Shaped
  <1>3. CASE x.op = "rename"
    BY <1>b, <1>2, <1>3 DEF Apply, Stores
  <1>4. CASE x.op = "rpoplpush"
    BY <1>b, <1>2, <1>4 DEF Apply, Moved, Stores
  <1>5. CASE x.op \in Stores
    BY <1>1, <1>2, <1>5 DEF Apply, Stores
  <1>6. CASE x.op \notin Stores \cup {"rename", "rpoplpush"}
    BY <1>1, <1>2, <1>6 DEF Apply
  <1>7. QED
    BY <1>3, <1>4, <1>5, <1>6

LEMMA ApplyLocal ==
  ASSUME NEW x \in CommandSet, NEW st, NEW su, st = [k \in Key |-> st[k]], su = [k \in Key |-> su[k]],
         \A k \in Touched(x) : st[k] = su[k]
  PROVE  /\ \A k \in Touched(x) : Apply(x, st)[k] = Apply(x, su)[k]
         /\ x.op \in Stores => Sources(x, st) = Sources(x, su)
  <1>1. Shaped(x) /\ \A n \in 1..Len(x.keys) : x.keys[n] \in Touched(x) /\ x.keys[n] \in Key
    BY CommandShape, TouchedIs
  <1>2. x.keys[1] \in Touched(x) /\ x.keys[1] \in Key /\ Touched(x) \subseteq Key
    BY TouchedIs
  <1>b. x.op \in {"rpoplpush", "rename"} => x.keys[2] \in Touched(x) /\ x.keys[2] \in Key
    BY <1>1 DEF Shaped
  <1>3. CASE x.op = "rename"
    BY SMTT(30), <1>b, <1>2, <1>3 DEF Apply, Stores
  <1>4. CASE x.op = "rpoplpush"
    BY <1>b, <1>2, <1>4 DEF Apply, Moved, Stores
  <1>5. CASE x.op \in Stores
    <2>1. \A n \in 1..(Len(x.keys) - 1) : st[x.keys[n + 1]] = su[x.keys[n + 1]]
      <3>1. Len(x.keys) \in 1..3
        BY <1>1 DEF Shaped
      <3>2. \A n \in 1..(Len(x.keys) - 1) : n + 1 \in 1..Len(x.keys)
        BY <3>1
      <3>3. QED
        BY <3>2, <1>1
    <2>2. Sources(x, st) = Sources(x, su)
      BY <2>1 DEF Sources
    <2>3. QED
      BY <1>2, <1>5, <2>2 DEF Apply, Stores
  <1>6. CASE x.op \notin Stores \cup {"rename", "rpoplpush"}
    BY <1>1, <1>2, <1>6 DEF Apply
  <1>7. QED
    BY <1>3, <1>4, <1>5, <1>6 DEF Stores

(* How far a command has come depends on its keys only.                    *)
LEMMA AgreesLocal ==
  ASSUME NEW f \in Frame, Fits(f), f.pc # "idle",
         NEW D, NEW m, NEW st, NEW D2, NEW m2, NEW st2,
         st = [k \in Key |-> st[k]], st2 = [k \in Key |-> st2[k]],
         \A k \in Touched(f.cmd) : D[k] = D2[k] /\ m[k] = m2[k] /\ st[k] = st2[k],
         Agrees(f, D, m, st)
  PROVE  Agrees(f, D2, m2, st2)
  <1> DEFINE x == f.cmd T == Touched(f.cmd) a == f.cmd.keys[1] b == f.cmd.keys[2]
  <1>1. x \in CommandSet /\ Shaped(x) /\ a \in T /\ \A n \in 1..Len(x.keys) : x.keys[n] \in T
    BY CommandShape, TouchedIs DEF Fits
  <1>2. /\ \A k \in T : Apply(x, st)[k] = Apply(x, st2)[k]
        /\ x.op \in Stores => Sources(x, st) = Sources(x, st2)
    <2>1. /\ x \in CommandSet
          /\ st = [k \in Key |-> st[k]] /\ st2 = [k \in Key |-> st2[k]]
          /\ \A k \in Touched(x) : st[k] = st2[k]
      BY <1>1
    <2> HIDE DEF x
    <2>2. /\ \A k \in Touched(x) : Apply(x, st)[k] = Apply(x, st2)[k]
          /\ x.op \in Stores => Sources(x, st) = Sources(x, st2)
      BY ONLY <2>1, ApplyLocal
    <2>3. QED
      BY <2>2 DEF x
  <1>3. x.op \in {"rpoplpush", "rename"} \cup Stores => b \in T
    BY <1>1 DEF Shaped
  <1>4. f.i \in 1..3
    BY DEF Frame
  <1>5. x.op \in Stores /\ f.pc \in {"get", "inside"} => x.keys[f.i] \in T
    BY <1>1, <1>4 DEF Fits
  <1>6. f.pc = "init" => x.keys[f.i] \in T
    BY <1>1, <1>3 DEF Fits, Loners, Writers, Pushes
  <1>7. f.pc = "into" => x.op = "rpoplpush"
    BY DEF Fits
  <1>8. f.pc \in {"clear", "put"} => x.op \in Stores
    BY DEF Fits, Stores
  <1> HIDE DEF T, x, a, b
  <1>9. Holds(f, D2)
    <2>1. Holds(f, D)
      BY DEF Agrees
    <2>2. QED
      BY <2>1, <1>1, <1>3, <1>5, <1>6, <1>7 DEF Holds, T, x, a, b
  <1>10. HasRead(f, st2)
    <2>1. HasRead(f, st)
      BY DEF Agrees
    <2>2. st[a] = st2[a] /\ (x.op \in Stores => st[b] = st2[b])
      BY <1>1, <1>3 DEF T
    <2>3. /\ f.pc = "into" => st[a].seq # <<>> /\ f.acc = {st[a].seq[Len(st[a].seq)]}
          /\ x.op \in Stores /\ f.pc \in {"get", "inside"} /\ f.i = 2 => f.acc = None
          /\ x.op \in Stores /\ f.pc \in {"get", "inside"} /\ f.i = 3 =>
               f.acc = IF x.op = "sunionstore" /\ st[b] = Absent THEN None ELSE st[b].mem
          /\ f.pc = "clear" /\ f.acc # None => f.acc = Result(x.op, Sources(x, st))
          /\ f.pc = "put" => f.acc = Result(x.op, Sources(x, st))
      BY ONLY <2>1 DEF HasRead, x, a, b
    <2>4. /\ f.pc = "into" => st2[a].seq # <<>> /\ f.acc = {st2[a].seq[Len(st2[a].seq)]}
          /\ x.op \in Stores /\ f.pc \in {"get", "inside"} /\ f.i = 3 =>
               f.acc = IF x.op = "sunionstore" /\ st2[b] = Absent THEN None ELSE st2[b].mem
      BY ONLY <2>2, <2>3
    <2>5. /\ f.pc = "clear" /\ f.acc # None => f.acc = Result(x.op, Sources(x, st2))
          /\ f.pc = "put" => f.acc = Result(x.op, Sources(x, st2))
      BY ONLY SMTT(30), <2>3, <1>2, <1>8
    <2>6. QED
      BY ONLY <2>3, <2>4, <2>5 DEF HasRead, x, a, b
  <1>11. HasMade(f, m2, st2)
    <2>1. HasMade(f, m, st)
      BY DEF Agrees
    <2>2. st[a] = st2[a] /\ m[a] = m2[a] /\ (x.op = "rpoplpush" => st[b] = st2[b] /\ m[b] = m2[b])
      BY <1>1, <1>3 DEF T
    <2>3. \A k \in T : st[k] = st2[k] /\ m[k] = m2[k] /\ Apply(x, st)[k] = Apply(x, st2)[k]
      BY <1>2 DEF T
    <2>4. /\ f.pc \in {"get", "init", "dest", "checkonly", "droponly", "clear"} => \A k \in T : m2[k] = st2[k]
          /\ f.pc = "inside" /\ x.op \notin {"lpush", "rpush", "sadd", "rpoplpush"} => \A k \in T : m2[k] = st2[k]
          /\ f.pc = "put" => \A k \in T \ {a} : m2[k] = st2[k]
      BY <2>1, <2>3 DEF HasMade, T, x, a, b
    <2>5. /\ f.pc = "check" => Apply(x, st2)[a] = Kept(m2[a])
          /\ f.pc = "drop" => Apply(x, st2)[a] = Absent
          /\ f.pc \in {"check", "drop"} => \A k \in T \ {a} : Apply(x, st2)[k] = m2[k] /\ Sound(m2[k])
          /\ f.pc = "log" => \A k \in T : Apply(x, st2)[k] = m2[k] /\ Sound(m2[k])
      BY ONLY <2>1, <2>2, <2>3, <1>1 DEF HasMade, T, x, a, b
    <2>6. /\ f.pc = "inside" /\ x.op \in {"lpush", "rpush"} => m2[a] = List(st2[a].seq)
          /\ f.pc = "inside" /\ x.op = "sadd" => m2[a] = MkSet(st2[a].mem)
          /\ f.pc = "inside" /\ x.op = "rpoplpush" => m2[a] = st2[a]
          /\ f.pc = "into" => m2[a] = List(Front(st2[a].seq))
          /\ f.pc \in {"inside", "into"} /\ x.op = "rpoplpush" /\ a # b => m2[b] = List(st2[b].seq)
      BY <2>1, <2>2 DEF HasMade, T, x, a, b
    <2>7. QED
      BY <2>4, <2>5, <2>6 DEF HasMade, T, x, a, b
  <1>12. QED
    BY <1>9, <1>10, <1>11 DEF Agrees

-----------------------------------------------------------------------------
(* What Objects leaves.                                                    *)
LEMMA ObjectsAre ==
  ASSUME NEW h, NEW t \in SUBSET Ref, h \in [Ref -> Contents], Objects(h, t)
  PROVE  /\ \A r \in Ref : InUse(r)' => heap'[r] = h[r]
         /\ \A r \in Ref : ~InUse(r)' => heap'[r] = Absent /\ r \notin torn'
         /\ torn' \subseteq t /\ heap' \in [Ref -> Contents]
  <1>1. Absent \in Contents
    BY DEF Absent, Object, Contents
  <1>2. heap' = [r \in Ref |-> IF InUse(r)' THEN h[r] ELSE Absent] /\ torn' = {r \in t : InUse(r)'}
    BY DEF Objects
  <1>3. QED
    BY <1>1, <1>2

(* Objects in use are those of keys and those in hands.                    *)
LEMMA InUseIs ==
  ASSUME NEW r
  PROVE  InUse(r) <=> (\E k \in Key : data[k] = r) \/ \E c \in Client : r \in Refs(c)
  BY DEF InUse, Refs

(* What a step leaves of the other commands.                               *)
LEMMA OthersStay ==
  ASSUME TypeOK, FitsAll, NEW c \in Client, NEW f, NEW k, NEW v, NEW h, NEW t, NEW S, Acts(c, f, k, v, h, t, S)
  PROVE  /\ \A d \in Client \ {c} : /\ run'[d] = run[d] /\ Keys(d)' = Keys(d) /\ Refs(d)' = Refs(d)
                                    /\ Op(d)' = Op(d)
         /\ run'[c] = f /\ Refs(c)' = Held(f) /\ Op(c)' = f.cmd.op
         /\ \/ f = Idle /\ Keys(c)' = {} /\ Refs(c)' = {}
            \/ f # Idle /\ f.cmd = run[c].cmd /\ Keys(c)' = Keys(c) /\ Op(c)' = Op(c)
         /\ Keys(c)' \subseteq Keys(c)
         /\ data' \in [Key -> Ref \cup {None}] /\ data'[k] = v /\ \A l \in Key \ {k} : data'[l] = data[l]
         /\ run' \in [Client -> Frame]
  <1>1. run' = [run EXCEPT ![c] = f] /\ f \in Frame /\ run \in [Client -> Frame]
    BY DEF Acts, TypeOK
  <1>2. \A d \in Client \ {c} : run'[d] = run[d]
    BY <1>1
  <1>3. run'[c] = f
    BY <1>1
  <1>4. \A d \in Client \ {c} : Keys(d)' = Keys(d) /\ Refs(d)' = Refs(d) /\ Op(d)' = Op(d)
    BY <1>2 DEF Keys, Refs, Op
  <1>5. Refs(c)' = Held(f) /\ Keys(c)' = Touched(f.cmd) /\ Op(c)' = f.cmd.op
    BY <1>3 DEF Refs, Held, Keys, Op
  <1>6. f = Idle => Keys(c)' = {} /\ Refs(c)' = {}
    BY <1>5, NoTouch DEF Idle, Held
  <1>7. f # Idle => f.cmd = run[c].cmd /\ Keys(c)' = Keys(c) /\ Op(c)' = Op(c)
    BY <1>5 DEF Acts, Keys, Op
  <1>8. data' = [data EXCEPT ![k] = v] /\ k \in Key /\ v \in Ref \cup {None} /\ data \in [Key -> Ref \cup {None}]
    BY DEF Acts, TypeOK
  <1>9. data' \in [Key -> Ref \cup {None}] /\ data'[k] = v /\ \A l \in Key \ {k} : data'[l] = data[l]
    BY <1>8
  <1>10. QED
    <2>1. Keys(c)' \subseteq Keys(c)
      BY <1>6, <1>7
    <2>2. run' \in [Client -> Frame]
      BY <1>1
    <2>3. QED
      BY <1>2, <1>3, <1>4, <1>5, <1>6, <1>7, <1>9, <2>1, <2>2

(* A step keeps who is followed, whose the objects are, and of what kind.  *)
LEMMA SoloKept ==
  ASSUME OwnInv, NEW c \in Client, NEW f, NEW k, NEW v, NEW h, NEW t, NEW S, Acts(c, f, k, v, h, t, S)
  PROVE  Solo'
  <1>1. /\ \A d \in Client \ {c} : Keys(d)' = Keys(d)
        /\ Keys(c)' = {} \/ (f # Idle /\ Keys(c)' = Keys(c))
        /\ Keys(c)' \subseteq Keys(c)
    BY OthersStay DEF OwnInv
  <1>2. apart' = apart \cup S /\ S \subseteq Keys(c) /\ (S = {} \/ f = Idle \/ S = Keys(c))
    BY DEF Acts
  <1>3. /\ \A d, e \in Client : d # e /\ Keys(d) \cap Keys(e) # {} => Keys(d) \cup Keys(e) \subseteq apart
        /\ \A d \in Client : Keys(d) \subseteq apart \/ Keys(d) \cap apart = {}
    BY DEF OwnInv, Solo
  <1>4. \A d, e \in Client : d # e /\ Keys(d)' \cap Keys(e)' # {} => Keys(d)' \cup Keys(e)' \subseteq apart'
    <2>1. \A d \in Client : Keys(d)' \subseteq Keys(d)
      BY <1>1
    <2>2. QED
      BY <2>1, <1>2, <1>3
  <1>5. ASSUME NEW d \in Client \ {c} PROVE Keys(d)' \subseteq apart' \/ Keys(d)' \cap apart' = {}
    <2>1. Keys(d)' = Keys(d) /\ (Keys(d) \cap S # {} => Keys(d) \subseteq apart)
      BY <1>1, <1>2, <1>3
    <2>2. QED
      BY <2>1, <1>2, <1>3
  <1>6. Keys(c)' \subseteq apart' \/ Keys(c)' \cap apart' = {}
    BY <1>1, <1>2, <1>3
  <1>7. QED
    BY <1>4, <1>5, <1>6 DEF Solo

LEMMA OwnedKept ==
  ASSUME OwnInv, NEW c \in Client, NEW f, NEW k, NEW v, NEW h, NEW t, NEW S, Acts(c, f, k, v, h, t, S)
  PROVE  Owned'
  <1>0. /\ TypeOK /\ FitsAll /\ Solo /\ Owned /\ Alive
        /\ \A d \in Client : Keys(d) \subseteq apart \/ Keys(d) \cap apart = {}
        /\ \A d, e \in Client : d # e /\ Keys(d) \cap Keys(e) # {} => Keys(d) \cup Keys(e) \subseteq apart
    BY DEF OwnInv, Solo
  <1>1. /\ \A d \in Client \ {c} : run'[d] = run[d] /\ Keys(d)' = Keys(d) /\ Refs(d)' = Refs(d)
        /\ Refs(c)' = Held(f)
        /\ (Keys(c)' = {} /\ Refs(c)' = {}) \/ (f # Idle /\ Keys(c)' = Keys(c))
        /\ Keys(c)' \subseteq Keys(c)
        /\ data'[k] = v /\ \A l \in Key \ {k} : data'[l] = data[l]
    BY <1>0, OthersStay
  <1>2. /\ apart' = apart \cup S /\ k \in Key
        /\ v = data[k] \/ (k \in Keys(c) /\ v \in {None} \cup Refs(c) \cup Unused)
        /\ Held(f) \subseteq Refs(c) \cup {data[l] : l \in Keys(c)} \cup Unused
        /\ t \subseteq torn \cup Refs(c) /\ (t = torn \/ Keys(c) \subseteq apart)
    BY DEF Acts
  <1>3. \A d \in Client : Keys(d) \subseteq Key /\ Refs(d) \subseteq Ref
    BY <1>0, AtWork
  <1>4. torn' \subseteq t
    BY <1>0, <1>2, <1>3, ObjectsAre DEF Acts, TypeOK
  <1>5. /\ \A r \in Unused : r \notin torn /\ (\A l \in Key : data[l] # r) /\ \A d \in Client : r \notin Refs(d)
        /\ None \notin Ref
    BY <1>0, InUseIs, ObjectsAssumption DEF Unused, Alive
  <1>6. \A l, j \in Key : (l # j /\ data[l] # None /\ data[l] = data[j]) =>
           (\/ {l, j} \subseteq apart
            \/ \E d \in Client : Op(d) = "rename" /\ run[d].pc = "drop" /\ {At(d, 1), At(d, 2)} = {l, j} /\ Keys(d) = {l, j})
    <2>1. \A d \in Client : Op(d) = "rename" /\ run[d].pc = "drop" => Keys(d) = {At(d, 1), At(d, 2)}
      <3>1. TAKE d \in Client
      <3>2. HAVE Op(d) = "rename" /\ run[d].pc = "drop"
      <3>3. run[d].cmd \in CommandSet /\ Shaped(run[d].cmd)
        BY <1>0, <3>2, AtWork
      <3>4. Len(run[d].cmd.keys) = 2
        BY <3>2, <3>3 DEF Shaped, Op
      <3>5. QED
        BY <3>3, <3>4, TouchedIs DEF Keys, At
    <2>2. QED
      BY <2>1, <1>0 DEF Owned, Renaming
  <1>o. /\ \A d \in Client : \A l \in Key : data[l] \in Refs(d) => l \in Keys(d) \/ (l \in apart /\ Keys(d) \subseteq apart)
        /\ \A d, e \in Client : d # e /\ Refs(d) \cap Refs(e) # {} => Keys(d) \cup Keys(e) \subseteq apart
        /\ \A l \in Key : data[l] \in torn => l \in apart
        /\ \A d \in Client : Refs(d) \cap torn # {} => Keys(d) \subseteq apart
    BY <1>0 DEF Owned
  (* c gets hold of what its own keys lead to. *)
  <1>7. ASSUME NEW l \in Key, NEW j \in Keys(c), data[l] # None, data[l] = data[j], l \notin Keys(c)
        PROVE  l \in apart /\ Keys(c) \subseteq apart
    <2>1. CASE {l, j} \subseteq apart
      BY <2>1, <1>0, <1>7
    <2>2. ASSUME NEW d \in Client, Keys(d) = {l, j} PROVE l \in apart /\ Keys(c) \subseteq apart
      BY <2>2, <1>0, <1>7
    <2>3. QED
      BY <2>1, <2>2, <1>3, <1>6, <1>7
  <1>8. ASSUME NEW l \in Key, NEW j \in Key, l # j, data'[l] # None, data'[l] = data'[j], ~({l, j} \subseteq apart')
        PROVE  Renaming(l, j)'
    <2>1. CASE data'[l] = data[l] /\ data'[j] = data[j]
      <3>1. PICK d \in Client : Op(d) = "rename" /\ run[d].pc = "drop" /\ {At(d, 1), At(d, 2)} = {l, j}
        <4>1. data[l] # None /\ data[l] = data[j] /\ ~({l, j} \subseteq apart)
          BY <1>2, <1>8, <2>1
        <4>2. QED
          BY <1>6, <1>8, <4>1
      <3>2. CASE d = c
        <4>1. k = At(c, 1) /\ v = None
          BY <3>1, <3>2 DEF Acts
        <4>2. l = k \/ j = k
          BY <3>1, <3>2, <4>1
        <4>3. QED
          BY <1>1, <1>8, <4>1, <4>2
      <3>3. CASE d # c
        <4>1. run'[d] = run[d]
          BY <1>1, <3>3
        <4>2. QED
          BY <3>1, <4>1 DEF Renaming, Op, At
      <3>4. QED
        BY <3>2, <3>3
    <2>2. ASSUME NEW o \in Key, o # k, v # data[k], v # None, data[o] = v, ~({k, o} \subseteq apart')
          PROVE  Op(c) = "rename" /\ f.pc = "drop" /\ f.cmd = run[c].cmd /\ {At(c, 1), At(c, 2)} = {k, o}
      <3>1. v \in Refs(c) /\ k \in Keys(c)
        BY <1>2, <1>5, <2>2
      <3>2. o \in Keys(c)
        BY <1>2, <1>o, <2>2, <3>1
      <3>3. Op(c) = "rename" /\ k = At(c, 2) /\ f.pc = "drop" /\ f.cmd = run[c].cmd
        BY <2>2, <3>1 DEF Acts
      <3>4. run[c].cmd \in CommandSet /\ Shaped(run[c].cmd)
        BY <1>0, <3>1, AtWork
      <3>5. Len(run[c].cmd.keys) = 2
        BY <3>3, <3>4 DEF Shaped, Op
      <3>6. Keys(c) = {At(c, 1), At(c, 2)}
        BY <3>4, <3>5, TouchedIs DEF Keys, At
      <3>7. QED
        BY <3>2, <3>3, <3>6, <2>2
    <2>3. ASSUME NEW o \in Key, {At(c, 1), At(c, 2)} = {k, o}, Op(c) = "rename", f.pc = "drop", f.cmd = run[c].cmd
          PROVE  Renaming(k, o)' /\ Renaming(o, k)'
      <3>1. run'[c] = f
        BY <1>0, OthersStay
      <3>2. QED
        BY <2>3, <3>1 DEF Renaming, Op, At
    <2>4. CASE data'[l] # data[l]
      <3>1. l = k /\ v # data[k] /\ v # None /\ data[j] = v
        BY <1>1, <1>8, <2>4
      <3>2. QED
        BY <1>8, <2>2, <2>3, <3>1
    <2>5. CASE data'[j] # data[j]
      <3>1. j = k /\ v # data[k] /\ v # None /\ data[l] = v
        BY <1>1, <1>8, <2>5
      <3>2. QED
        BY <1>8, <2>2, <2>3, <3>1
    <2>6. QED
      BY <2>1, <2>4, <2>5
  <1>9. ASSUME NEW d \in Client, NEW l \in Key, data'[l] \in Refs(d)'
        PROVE  l \in Keys(d)' \/ (l \in apart' /\ Keys(d)' \subseteq apart')
    <2> DEFINE r == data'[l]
    <2>1. CASE d # c
      <3>1. r \in Refs(d) /\ Keys(d)' = Keys(d)
        BY <1>1, <1>9, <2>1
      <3>2. CASE r = data[l]
        BY <1>2, <1>o, <3>1, <3>2
      <3>3. CASE r # data[l]
        <4>1. l = k /\ r = v /\ k \in Keys(c) /\ v \in Refs(c)
          BY <1>1, <1>2, <1>3, <1>5, <1>9, <3>1, <3>3, ObjectsAssumption
        <4>2. QED
          BY <1>2, <1>o, <2>1, <3>1, <4>1
      <3>4. QED
        BY <3>2, <3>3
    <2>2. CASE d = c
      <3>1. r \in Held(f) /\ Keys(c)' = Keys(c)
        BY <1>1, <1>9, <2>2
      <3>2. CASE r # data[l]
        BY <1>1, <1>2, <2>2, <3>1, <3>2
      <3>3. CASE r = data[l] /\ r \in Refs(c)
        BY <1>2, <1>o, <2>2, <3>1, <3>3
      <3>4. ASSUME NEW j \in Keys(c), r = data[j], r = data[l]
            PROVE  l \in Keys(c) \/ (l \in apart /\ Keys(c) \subseteq apart)
        <4>1. r # None
          <5>1. r \in Ref
            <6>1. f.refs \in Seq(Ref)
              BY DEF Acts, Frame
            <6>2. QED
              BY <3>1, <6>1 DEF Held
          <5>2. QED
            BY <5>1, <1>5
        <4>2. QED
          BY <1>7, <3>4, <4>1
      <3>5. CASE r = data[l] /\ r \in Unused
        BY <1>5, <3>5
      <3> HIDE DEF r
      <3>6. QED
        BY <3>1, <3>2, <3>3, <3>4, <3>5, <1>2, <2>2
    <2>3. QED
      BY <2>1, <2>2
  <1>10. ASSUME NEW d \in Client, d # c, Held(f) \cap Refs(d) # {}
         PROVE  Keys(c) \cup Keys(d) \subseteq apart
    <2>1. PICK r \in Held(f) : r \in Refs(d)
      BY <1>10
    <2>2. CASE r \in Refs(c)
      BY <1>o, <1>10, <2>1, <2>2
    <2>3. ASSUME NEW j \in Keys(c), r = data[j] PROVE Keys(c) \cup Keys(d) \subseteq apart
      <3>1. j \in Keys(d) \/ (j \in apart /\ Keys(d) \subseteq apart)
        BY <1>3, <1>o, <2>1, <2>3
      <3>2. QED
        BY <3>1, <1>0, <1>10, <2>3
    <2>4. QED
      BY <1>2, <1>5, <2>1, <2>2, <2>3
  <1>11. \A d, e \in Client : d # e /\ Refs(d)' \cap Refs(e)' # {} => Keys(d)' \cup Keys(e)' \subseteq apart'
    <2>1. TAKE d, e \in Client
    <2>2. HAVE d # e /\ Refs(d)' \cap Refs(e)' # {}
    <2>3. CASE d # c /\ e # c
      BY <1>1, <1>2, <1>o, <2>2, <2>3
    <2>4. CASE d = c
      BY <1>1, <1>2, <1>10, <2>2, <2>4
    <2>5. CASE e = c
      BY <1>1, <1>2, <1>10, <2>2, <2>5
    <2>6. QED
      BY <2>3, <2>4, <2>5
  <1>12. ASSUME NEW r \in t, r \notin torn PROVE r \in Refs(c) /\ Keys(c) \subseteq apart
    BY <1>2, <1>12
  <1>13. ASSUME NEW l \in Key, data'[l] \in torn' PROVE l \in apart'
    <2> DEFINE r == data'[l]
    <2>1. r \in t
      BY <1>4, <1>13
    <2>2. CASE r = data[l]
      BY <2>1, <2>2, <1>2, <1>12, <1>o
    <2>3. CASE r # data[l]
      <3>1. l = k /\ r = v /\ k \in Keys(c) /\ (v \in Refs(c) \/ v \in Unused)
        <4>1. r # None
          BY <2>1, <1>2, <1>3, <1>5, <1>0 DEF TypeOK
        <4>2. QED
          BY <4>1, <1>1, <1>2, <2>3
      <3>2. QED
        BY <2>1, <3>1, <1>2, <1>5, <1>12, <1>o
    <2>4. QED
      BY <2>2, <2>3
  <1>14. ASSUME NEW d \in Client, Refs(d)' \cap torn' # {} PROVE Keys(d)' \subseteq apart'
    <2>1. PICK r \in Refs(d)' : r \in t
      BY <1>4, <1>14
    <2>2. CASE d # c
      <3>1. r \in Refs(d) /\ Keys(d)' = Keys(d)
        BY <1>1, <2>1, <2>2
      <3>2. QED
        BY <2>1, <2>2, <3>1, <1>2, <1>12, <1>o
    <2>3. CASE d = c
      <3>1. r \in Held(f) /\ Keys(c)' \subseteq Keys(c)
        BY <1>1, <2>1, <2>3
      <3>2. CASE r \in Refs(c)
        BY <2>1, <2>3, <3>1, <3>2, <1>2, <1>12, <1>o
      <3>3. ASSUME NEW j \in Keys(c), r = data[j] PROVE Keys(c) \subseteq apart
        <4>1. j \in apart \/ Keys(c) \subseteq apart
          BY <2>1, <3>3, <1>3, <1>12, <1>o
        <4>2. QED
          BY <4>1, <1>0
      <3>4. CASE r \in Unused
        BY <2>1, <2>3, <3>1, <3>4, <1>2, <1>5, <1>12
      <3>5. QED
        BY <3>1, <3>2, <3>3, <3>4, <1>2, <2>3
    <2>4. QED
      BY <2>2, <2>3
  <1>15. QED
    <2>1. \A l, j \in Key : l # j /\ data'[l] # None /\ data'[l] = data'[j] => {l, j} \subseteq apart' \/ Renaming(l, j)'
      BY <1>8
    <2>2. QED
      BY <2>1, <1>9, <1>11, <1>13, <1>14 DEF Owned

LEMMA AliveKept ==
  ASSUME OwnInv, NEW c \in Client, NEW f, NEW k, NEW v, NEW h, NEW t, NEW S, Acts(c, f, k, v, h, t, S)
  PROVE  Alive'
  <1>0. TypeOK /\ FitsAll /\ Alive
    BY DEF OwnInv
  <1>1. /\ \A d \in Client \ {c} : Refs(d)' = Refs(d) /\ Op(d)' = Op(d)
        /\ Refs(c)' = Held(f) /\ Op(c)' = f.cmd.op
        /\ (f = Idle /\ Refs(c)' = {}) \/ Op(c)' = Op(c)
        /\ data'[k] = v /\ \A l \in Key \ {k} : data'[l] = data[l]
    BY <1>0, OthersStay
  <1>2. /\ k \in Key
        /\ v = data[k] \/ (k \in Keys(c) /\ v \in {None} \cup Refs(c) \cup Unused)
        /\ Held(f) \subseteq Refs(c) \cup {data[l] : l \in Keys(c)} \cup Unused
        /\ h \in [Ref -> Contents] /\ \A r \in Ref : Proper(h[r])
        /\ \A r \in Ref : \/ h[r] = heap[r]
                          \/ r \in Refs(c) /\ h[r].kind = heap[r].kind
                          \/ r \in Unused
        /\ \A r \in Unused : r = v \/ r \in Held(f) => h[r].kind # "none"
        /\ \A r \in Held(f) : r \in Refs(c) \/ Serves(f.cmd.op, h[r])
    BY DEF Acts
  <1>3. \A d \in Client : Keys(d) \subseteq Key /\ Refs(d) \subseteq Ref
    BY <1>0, AtWork
  <1>4. /\ \A r \in Ref : InUse(r)' => heap'[r] = h[r]
        /\ \A r \in Ref : ~InUse(r)' => heap'[r] = Absent /\ r \notin torn'
    BY <1>0, <1>3, ObjectsAre DEF Acts, TypeOK
  <1>5. \A r : InUse(r)' <=> (\E l \in Key : data'[l] = r) \/ \E d \in Client : r \in Refs(d)'
    BY DEF InUse, Refs
  <1>6. \A r \in Ref : r \in Unused <=> ~InUse(r)
    BY DEF Unused
  <1>7. ASSUME NEW r \in Ref, InUse(r)' PROVE heap'[r].kind # "none" /\ Proper(heap'[r])
    <2>1. heap'[r] = h[r] /\ Proper(h[r])
      BY <1>2, <1>4, <1>7
    <2>2. CASE InUse(r)
      <3>1. h[r].kind = heap[r].kind /\ heap[r].kind # "none"
        BY <1>0, <1>2, <1>6, <2>2 DEF Alive
      <3>2. QED
        BY <2>1, <3>1
    <2>3. CASE ~InUse(r)
      <3>1. (\A l \in Key : data[l] # r) /\ \A d \in Client : r \notin Refs(d)
        BY <2>3, InUseIs
      <3>2. r = v \/ r \in Held(f)
        BY <3>1, <1>1, <1>5, <1>7
      <3>3. QED
        BY <2>1, <2>3, <3>2, <1>2, <1>6
    <2>4. QED
      BY <2>2, <2>3
  <1>8. Proper(Absent)
    BY DEF Proper, Absent, Object
  <1>9. ASSUME NEW d \in Client, NEW r \in Refs(d)' PROVE Serves(Op(d)', heap'[r])
    <2>0. r \in Ref
      <3>1. f.refs \in Seq(Ref)
        BY DEF Acts, Frame
      <3>2. Held(f) \subseteq Ref
        BY <3>1 DEF Held
      <3>3. QED
        BY <3>2, <1>1, <1>3, <1>9
    <2>1. InUse(r)' /\ heap'[r] = h[r]
      BY <2>0, <1>4, <1>5, <1>9
    <2>2. CASE r \in Refs(d)
      <3>1. Serves(Op(d), heap[r])
        BY <1>0, <2>2 DEF Alive
      <3>2. h[r].kind = heap[r].kind
        BY <1>2, <1>6, <2>0, <2>2, InUseIs
      <3>3. Op(d)' = Op(d)
        BY <1>1, <1>9
      <3>4. QED
        BY <2>1, <3>1, <3>2, <3>3 DEF Serves
    <2>3. CASE r \notin Refs(d)
      <3>1. d = c /\ r \in Held(f)
        BY <1>1, <1>9, <2>3
      <3>2. QED
        BY <2>1, <2>3, <3>1, <1>1, <1>2
    <2>4. QED
      BY <2>2, <2>3
  <1>10. QED
    <2>1. \A r \in Ref : (InUse(r) => heap[r].kind # "none")' /\ (~InUse(r) => heap[r] = Absent /\ r \notin torn)' /\ Proper(heap[r])'
      BY <1>4, <1>7, <1>8
    <2>2. \A d \in Client : \A r \in Refs(d)' : Serves(Op(d), heap[r])'
      BY <1>9
    <2>3. QED
      BY <2>1, <2>2 DEF Alive

LEMMA OwnKept ==
  ASSUME OwnInv, NEW c \in Client, NEW f, NEW k, NEW v, NEW h, NEW t, NEW S, Acts(c, f, k, v, h, t, S),
         saved' \in [Key -> Contents]
  PROVE  OwnInv'
  <1>0. TypeOK /\ FitsAll
    BY DEF OwnInv
  <1>1. /\ \A d \in Client \ {c} : run'[d] = run[d]
        /\ run'[c] = f /\ data' \in [Key -> Ref \cup {None}] /\ run' \in [Client -> Frame]
    BY <1>0, OthersStay
  <1>2. Keys(c) \subseteq Key /\ Refs(c) \subseteq Ref
    BY <1>0, AtWork
  <1>3. heap' \in [Ref -> Contents] /\ torn' \subseteq Ref
    BY <1>0, <1>2, ObjectsAre DEF Acts, TypeOK
  <1>4. apart' \subseteq Key
    BY <1>0, <1>2 DEF Acts, TypeOK
  <1>5. FitsAll'
    BY <1>0, <1>1 DEF Acts, FitsAll
  <1>6. QED
    BY <1>1, <1>3, <1>4, <1>5, SoloKept, OwnedKept, AliveKept DEF OwnInv, TypeOK

-----------------------------------------------------------------------------
(* What a key holds after a step of c.                                     *)
LEMMA MemoryIs ==
  ASSUME OwnInv, NEW c \in Client, NEW f, NEW k, NEW v, NEW h, NEW t, NEW S, Acts(c, f, k, v, h, t, S)
  PROVE  /\ \A l \in Key : Memory'[l] = IF data'[l] = None THEN Absent ELSE h[data'[l]]
         /\ \A l \in Key \ (Keys(c) \cup apart) : Memory'[l] = Memory[l] /\ data'[l] = data[l]
         /\ \A l \in Key : Memory[l] = IF data[l] = None THEN Absent ELSE heap[data[l]]
         /\ Memory = [l \in Key |-> Memory[l]] /\ Memory' = [l \in Key |-> Memory'[l]]
  <1>0. TypeOK /\ FitsAll /\ Owned
    BY DEF OwnInv
  <1>1. /\ data' \in [Key -> Ref \cup {None}]
        /\ data'[k] = v /\ \A l \in Key \ {k} : data'[l] = data[l]
    BY <1>0, OthersStay
  <1>2. /\ v = data[k] \/ k \in Keys(c)
        /\ \A r \in Ref : h[r] = heap[r] \/ r \in Refs(c) \/ r \in Unused
    BY DEF Acts
  <1>3. Refs(c) \subseteq Ref
    BY <1>0, AtWork
  <1>4. \A r \in Ref : InUse(r)' => heap'[r] = h[r]
    BY <1>0, <1>3, ObjectsAre DEF Acts, TypeOK
  <1>5. \A l \in Key : Memory[l] = IF data[l] = None THEN Absent ELSE heap[data[l]]
    BY DEF Memory, InMemory
  <1>6. \A l \in Key : Memory'[l] = IF data'[l] = None THEN Absent ELSE heap'[data'[l]]
    BY DEF Memory, InMemory
  <1>7. \A l \in Key : data'[l] # None => heap'[data'[l]] = h[data'[l]]
    <2>1. \A l \in Key : \A r : data'[l] = r => InUse(r)'
      BY DEF InUse
    <2>2. QED
      BY <2>1, <1>1, <1>4
  <1>8. ASSUME NEW l \in Key \ (Keys(c) \cup apart) PROVE Memory'[l] = Memory[l] /\ data'[l] = data[l]
    <2>1. data'[l] = data[l]
      BY <1>1, <1>2, <1>8
    <2>2. data[l] \notin Refs(c)
      BY <1>0, <1>8 DEF Owned
    <2>3. data[l] \notin Unused
      BY <1>8, InUseIs DEF Unused
    <2>4. data[l] # None => h[data[l]] = heap[data[l]]
      BY <1>0, <1>2, <1>8, <2>2, <2>3 DEF TypeOK
    <2>5. QED
      BY <2>1, <2>4, <1>5, <1>6, <1>7, <1>8
  <1>9. QED
    <2>1. Memory = [l \in Key |-> Memory[l]] /\ Memory' = [l \in Key |-> Memory'[l]]
      BY DEF Memory
    <2>2. QED
      BY <1>5, <1>6, <1>7, <1>8, <2>1

(* A step that does what it should on its own keys keeps every command,    *)
(* and every key no command is at, where the invariant says.               *)
Progress(c, f) ==
  /\ \A l \in Key \ Keys(c) : saved'[l] = saved[l] \/ l \in apart'
  /\ Keys(c) \cap apart = {} /\ run[c].pc # "idle" =>
       /\ f.pc # "idle" /\ Keys(c) \cap apart' = {} => Agrees(f, data', Memory', saved')
       /\ \A l \in Keys(c) \ apart' : /\ Sound(saved'[l])
                                      /\ f.pc = "idle" => saved'[l] = Memory'[l]
LEMMA StepKeeps ==
  ASSUME ObjectsInv, NEW c \in Client, NEW f, NEW k, NEW v, NEW h, NEW t, NEW S, Acts(c, f, k, v, h, t, S),
         run[c].pc # "idle", saved' \in [Key -> Contents], Progress(c, f)
  PROVE  ObjectsInv'
  <1>0. OwnInv /\ TypeOK /\ FitsAll /\ Solo /\ Follows
    BY DEF OwnInv, ObjectsInv
  <1>1. OwnInv'
    BY <1>0, OwnKept
  <1>2. /\ \A d \in Client \ {c} : run'[d] = run[d] /\ Keys(d)' = Keys(d)
        /\ run'[c] = f
        /\ (f = Idle /\ Keys(c)' = {}) \/ Keys(c)' = Keys(c)
        /\ Keys(c)' \subseteq Keys(c)
    BY <1>0, OthersStay
  <1>3. /\ \A l \in Key \ (Keys(c) \cup apart) : Memory'[l] = Memory[l] /\ data'[l] = data[l]
        /\ apart \subseteq apart'
    <2>1. apart' = apart \cup S
      BY DEF Acts
    <2>2. \A l \in Key \ (Keys(c) \cup apart) : Memory'[l] = Memory[l] /\ data'[l] = data[l]
      BY <1>0, MemoryIs
    <2>3. QED
      BY <2>1, <2>2
  <1>4. \A d, e \in Client : d # e /\ Keys(d) \cap Keys(e) # {} => Keys(d) \cup Keys(e) \subseteq apart
    BY <1>0 DEF Solo
  <1>5. Keys(c) \subseteq apart \/ Keys(c) \cap apart = {}
    BY <1>0 DEF Solo
  <1>6. \A l \in Key \ (Keys(c) \cup apart') : saved'[l] = saved[l]
    BY DEF Progress
  <1>7. \A d \in Client : \A l : l \in Keys(d) <=> d \in Working(l)
    BY DEF Keys, Working
  <1>8. \A d \in Client : \A l : l \in Keys(d)' <=> d \in Working(l)'
    BY DEF Keys, Working
  <1>9. ASSUME NEW l \in Key \ apart' PROVE Sound(saved'[l])
    <2>1. CASE l \in Keys(c)
      BY <1>3, <1>5, <1>9, <2>1 DEF Progress
    <2>2. CASE l \notin Keys(c)
      BY <1>0, <1>3, <1>6, <1>9, <2>2 DEF Follows
    <2>3. QED
      BY <2>1, <2>2
  <1>10. ASSUME NEW d \in Client, run'[d].pc # "idle", Keys(d)' \cap apart' = {}
         PROVE  Agrees(run'[d], data', Memory', saved')
    <2>1. CASE d = c
      <3>1. f.pc # "idle" /\ f # Idle
        BY <1>2, <1>10, <2>1 DEF Idle
      <3>2. Keys(c) \cap apart' = {}
        BY <1>2, <1>10, <2>1, <3>1
      <3>3. QED
        BY <1>2, <1>3, <2>1, <3>1, <3>2 DEF Progress
    <2>2. CASE d # c
      <3>1. run'[d] = run[d] /\ Keys(d)' = Keys(d) /\ Keys(d) \cap apart = {}
        BY <1>2, <1>3, <1>10, <2>2
      <3>2. CASE Keys(d) = {}
        <4>1. run[d].cmd \in CommandSet
          BY <1>0, <1>10, <3>1, AtWork
        <4>2. QED
          BY <3>2, <4>1, TouchedIs DEF Keys
      <3>3. CASE Keys(d) # {}
        <4>1. Keys(d) \cap Keys(c) = {}
          BY <1>4, <2>2, <3>1, <3>3
        <4>2. \A l \in Keys(d) : data[l] = data'[l] /\ Memory[l] = Memory'[l] /\ saved[l] = saved'[l]
          <5>1. Keys(d) \subseteq Key
            BY <1>0, AtWork
          <5>2. QED
            BY <5>1, <1>3, <1>6, <1>10, <3>1, <4>1
        <4>3. Agrees(run[d], data, Memory, saved)
          BY <1>0, <1>10, <3>1 DEF Follows
        <4>4. run[d] \in Frame /\ Fits(run[d]) /\ run[d].pc # "idle"
          BY <1>0, <1>10, <3>1, AtWork
        <4>5. saved = [l \in Key |-> saved[l]] /\ saved' = [l \in Key |-> saved'[l]]
          BY <1>0 DEF TypeOK
        <4>6. \A l \in Touched(run[d].cmd) : data[l] = data'[l] /\ Memory[l] = Memory'[l] /\ saved[l] = saved'[l]
          BY <4>2 DEF Keys
        <4>7. Agrees(run[d], data', Memory', saved')
          BY <4>3, <4>4, <4>5, <4>6, AgreesLocal
        <4>8. QED
          BY <4>7, <3>1
      <3>4. QED
        BY <3>2, <3>3
    <2>3. QED
      BY <2>1, <2>2
  <1>11. ASSUME NEW l \in Key \ apart', Working(l)' = {} PROVE saved'[l] = Memory'[l]
    <2>1. \A d \in Client : l \notin Keys(d)'
      BY <1>8, <1>11
    <2>2. CASE l \in Keys(c)
      <3>1. f = Idle
        BY <1>2, <2>1, <2>2
      <3>2. QED
        BY <1>3, <1>5, <1>11, <2>2, <3>1 DEF Progress, Idle
    <2>3. CASE l \notin Keys(c)
      <3>1. \A d \in Client : l \notin Keys(d)
        BY <1>2, <2>1, <2>3
      <3>2. Working(l) = {}
        BY <1>7, <3>1 DEF Working
      <3>3. QED
        BY <1>0, <1>3, <1>6, <1>11, <2>3, <3>2 DEF Follows
    <2>4. QED
      BY <2>2, <2>3
  <1>12. Follows'
    <2>1. \A d \in Client : run'[d].pc # "idle" /\ Keys(d)' \cap apart' = {} => Agrees(run'[d], data', Memory', saved')
      BY <1>10
    <2>2. QED
      BY <1>9, <2>1, <1>11 DEF Follows
  <1>13. QED
    BY <1>1, <1>12 DEF ObjectsInv

-----------------------------------------------------------------------------
(* A command is idle, or is at work with its frame.                        *)
LEMMA FrameFacts ==
  ASSUME NEW f \in Frame
  PROVE  /\ DOMAIN f = {"pc", "cmd", "i", "refs", "acc"}
         /\ f.pc \in Places /\ f.cmd \in CommandSet \cup {NoCommand} /\ f.i \in 1..3
         /\ f.refs \in Seq(Ref) /\ f.acc \in {None} \cup SUBSET Elem
         /\ Held(f) = {f.refs[n] : n \in 1..Len(f.refs)} /\ Held(f) \subseteq Ref
  <1>1. f.refs \in Seq(Ref)
    BY DEF Frame
  <1>2. Held(f) = {f.refs[n] : n \in 1..Len(f.refs)} /\ Held(f) \subseteq Ref
    BY <1>1 DEF Held
  <1>3. QED
    BY <1>1, <1>2 DEF Frame

LEMMA IdleFits == Idle \in Frame /\ Fits(Idle) /\ Held(Idle) = {}
  <1>1. <<>> \in Seq(Ref)
    OBVIOUS
  <1>2. Idle \in Frame
    BY <1>1 DEF Idle, Frame, Places
  <1>3. Held(Idle) = {}
    BY DEF Held, Idle
  <1>4. Fits(Idle)
    BY DEF Fits, Idle, NoCommand, Stores, Loners, Writers, Pushes
  <1>5. QED
    BY <1>2, <1>3, <1>4

(* A step that leaves the objects as they are, and takes none that is new. *)
LEMMA QuietActs ==
  ASSUME OwnInv, NEW c \in Client, NEW f, run' = [run EXCEPT ![c] = f], NEW k \in Key, NEW v,
         v = data[k] \/ (k \in Keys(c) /\ v = None),
         data' = [data EXCEPT ![k] = v], NEW S \in SUBSET Keys(c), apart' = apart \cup S,
         S = {} \/ f = Idle \/ S = Keys(c), Objects(heap, torn),
         f = Idle \/ (f \in Frame /\ Fits(f) /\ f.cmd = run[c].cmd),
         \A r \in Held(f) : r \in Refs(c) \/ (r \in {data[l] : l \in Keys(c)} /\ Serves(f.cmd.op, heap[r])),
         Op(c) = "rename" /\ run[c].pc = "drop" => k = At(c, 1) /\ v = None
  PROVE  Acts(c, f, k, v, heap, torn, S)
  <1>1. TypeOK /\ FitsAll /\ Alive
    BY DEF OwnInv
  <1>2. f \in Frame /\ Fits(f)
    BY IdleFits
  <1>3. heap \in [Ref -> Contents] /\ (\A r \in Ref : Proper(heap[r])) /\ v \in Ref \cup {None}
    BY <1>1 DEF TypeOK, Alive
  <1>4. \A r \in Unused : r # v /\ r \notin Held(f)
    <2>1. \A r \in Unused : r \in Ref /\ (\A l \in Key : data[l] # r) /\ \A d \in Client : r \notin Refs(d)
      BY InUseIs DEF Unused
    <2>2. Keys(c) \subseteq Key
      BY <1>1, AtWork
    <2>3. QED
      BY <2>1, <2>2, ObjectsAssumption
  <1>5. v \in Refs(c) /\ v # data[k] => FALSE
    <2>1. Refs(c) \subseteq Ref
      BY <1>1, AtWork
    <2>2. QED
      BY <2>1, ObjectsAssumption
  <1>6. Held(f) \subseteq Refs(c) \cup {data[l] : l \in Keys(c)} \cup Unused
    OBVIOUS
  <1>7. QED
    BY <1>2, <1>3, <1>4, <1>5, <1>6 DEF Acts

(* Only those whose keys are not followed race.                            *)
LEMMA RacingIs ==
  ASSUME OwnInv
  PROVE  /\ \A e \in Client : Touching(e) \subseteq Refs(e)
         /\ \A c, d \in Client : Racing(c, d) => Keys(c) \cup Keys(d) \subseteq apart
         /\ \A c \in Client : Raced(c) => Keys(c) \subseteq apart
  <1>0. TypeOK /\ FitsAll /\ Owned
    BY DEF OwnInv
  <1>1. ASSUME NEW e \in Client PROVE Touching(e) \subseteq Refs(e)
    <2>1. Fits(run[e]) /\ Refs(e) = {run[e].refs[n] : n \in 1..Len(run[e].refs)}
      BY <1>0, <1>1, AtWork
    <2>2. CASE run[e].pc = "inside"
      <3>1. 1 \in 1..Len(run[e].refs)
        BY <2>1, <2>2 DEF Fits
      <3>2. QED
        BY <2>1, <2>2, <3>1 DEF Touching
    <2>3. CASE run[e].pc = "into"
      <3>1. Len(run[e].refs) = 2
        BY <2>1, <2>3 DEF Fits
      <3>2. QED
        BY <2>1, <2>3, <3>1 DEF Touching
    <2>4. CASE run[e].pc \notin {"inside", "into"}
      BY <2>4 DEF Touching
    <2>5. QED
      BY <2>2, <2>3, <2>4
  <1>2. \A c, d \in Client : Racing(c, d) => Keys(c) \cup Keys(d) \subseteq apart
    <2>1. TAKE c, d \in Client
    <2>2. HAVE Racing(c, d)
    <2>3. c # d /\ Refs(c) \cap Refs(d) # {}
      BY <1>1, <2>2 DEF Racing
    <2>4. QED
      BY <1>0, <2>3 DEF Owned
  <1>3. QED
    BY <1>1, <1>2 DEF Raced

(* A command that is followed: no one else is at its keys or its objects.  *)
LEMMA Followed ==
  ASSUME ObjectsInv, NEW c \in Client, run[c].pc # "idle", Keys(c) \cap apart = {}
  PROVE  /\ Holds(run[c], data) /\ HasRead(run[c], saved) /\ HasMade(run[c], Memory, saved)
         /\ \A l \in Keys(c) : Sound(saved[l]) /\ data[l] \notin torn
         /\ Refs(c) \cap torn = {} /\ ~Raced(c)
         /\ ~(Op(c) = "rename" /\ run[c].pc = "drop") =>
              \A l, j \in Keys(c) : l # j /\ data[l] # None => data[l] # data[j]
  <1>0. TypeOK /\ FitsAll /\ Solo /\ Owned /\ Follows
    BY DEF ObjectsInv, OwnInv
  <1>1. Keys(c) \subseteq Key /\ Keys(c) # {} /\ ~(Keys(c) \subseteq apart)
    <2>1. run[c].cmd \in CommandSet
      BY <1>0, AtWork
    <2>2. QED
      BY <2>1, TouchedIs DEF Keys
  <1>2. Agrees(run[c], data, Memory, saved) /\ \A l \in Keys(c) : Sound(saved[l])
    BY <1>0, <1>1 DEF Follows
  <1>3. \A l \in Keys(c) : data[l] \notin torn
    BY <1>0, <1>1 DEF Owned
  <1>4. Refs(c) \cap torn = {}
    BY <1>0, <1>1 DEF Owned
  <1>6. ~Raced(c)
    BY <1>1, RacingIs DEF ObjectsInv
  <1>7. ASSUME NEW l \in Keys(c), NEW j \in Keys(c), l # j, data[l] # None, data[l] = data[j]
        PROVE  Op(c) = "rename" /\ run[c].pc = "drop"
    <2>1. PICK d \in Client : Op(d) = "rename" /\ run[d].pc = "drop" /\ {At(d, 1), At(d, 2)} = {l, j}
      BY <1>0, <1>1, <1>7 DEF Owned, Renaming
    <2>2. run[d].cmd \in CommandSet /\ Shaped(run[d].cmd)
      BY <1>0, <2>1, AtWork
    <2>3. At(d, 1) \in Keys(d) /\ At(d, 2) \in Keys(d)
      <3>1. Len(run[d].cmd.keys) = 2
        BY <2>1, <2>2 DEF Shaped, Op
      <3>2. QED
        BY <2>2, <3>1, TouchedIs DEF Keys, At
    <2>4. d = c
      BY <1>0, <1>1, <1>7, <2>1, <2>3 DEF Solo
    <2>5. QED
      BY <2>1, <2>4
  <1>8. QED
    BY <1>2, <1>3, <1>4, <1>6, <1>7 DEF Agrees

(* A step that only looks.                                                 *)
LEMMA QuietKeeps ==
  ASSUME ObjectsInv, NEW c \in Client, run[c].pc # "idle", NEW f, Be(c, f),
         UNCHANGED <<data, saved, apart>>, Objects(heap, torn),
         f = Idle \/ (f \in Frame /\ Fits(f) /\ f.cmd = run[c].cmd /\ f.pc # "idle"),
         \A r \in Held(f) : r \in Refs(c) \/ (r \in {data[l] : l \in Keys(c)} /\ Serves(f.cmd.op, heap[r])),
         ~(Op(c) = "rename" /\ run[c].pc = "drop"),
         Keys(c) \cap apart = {} =>
           IF f = Idle THEN \A l \in Keys(c) : saved[l] = Memory[l] ELSE Agrees(f, data, Memory, saved)
  PROVE  ObjectsInv'
  <1>0. OwnInv /\ TypeOK /\ FitsAll
    BY DEF ObjectsInv, OwnInv
  <1>1. run[c].cmd \in CommandSet /\ At(c, 1) \in Keys(c) /\ Keys(c) \subseteq Key
    <2>1. run[c].cmd \in CommandSet
      BY <1>0, AtWork
    <2>2. QED
      BY <2>1, TouchedIs DEF Keys, At
  <1> DEFINE k == At(c, 1) v == data[k]
  <1>2. Acts(c, f, k, v, heap, torn, {})
    <2>1. data' = [data EXCEPT ![k] = v] /\ k \in Key
      BY <1>0, <1>1 DEF TypeOK
    <2>2. apart' = apart \cup {}
      OBVIOUS
    <2> HIDE DEF k, v
    <2>3. v = data[k]
      BY DEF v
    <2>4. QED
      BY <1>0, <2>1, <2>2, <2>3, QuietActs DEF Be
  <1> HIDE DEF k, v
  <1>3. Memory' = Memory
    <2>1. \A l \in Key : Memory'[l] = IF data'[l] = None THEN Absent ELSE heap[data'[l]]
      BY <1>0, <1>2, MemoryIs
    <2>2. \A l \in Key : Memory[l] = IF data[l] = None THEN Absent ELSE heap[data[l]]
      BY <1>0, <1>2, MemoryIs
    <2>3. Memory = [l \in Key |-> Memory[l]] /\ Memory' = [l \in Key |-> Memory'[l]]
      BY <1>0, <1>2, MemoryIs
    <2>4. \A l \in Key : Memory'[l] = Memory[l]
      BY <2>1, <2>2
    <2>5. QED
      BY <2>3, <2>4
  <1>4. Progress(c, f)
    <2>1. ASSUME Keys(c) \cap apart = {} PROVE \A l \in Keys(c) : Sound(saved[l])
      BY <2>1, Followed
    <2>2. (f.pc = "idle") <=> (f = Idle)
      BY DEF Idle
    <2>3. QED
      BY <1>3, <2>1, <2>2 DEF Progress
  <1>5. QED
    BY <1>0, <1>2, <1>4, StepKeeps DEF TypeOK

-----------------------------------------------------------------------------
(* A new command shares no key with those that are followed.               *)
LEMMA ExecKeeps ==
  ASSUME ObjectsInv, NEW c \in Client, NEW x \in CommandSet, Exec(c, x)
  PROVE  ObjectsInv'
  <1> DEFINE S == Disturbed(x) f == [Idle EXCEPT !.pc = "get", !.cmd = x, !.i = IF x.op \in Stores THEN 2 ELSE 1]
  <1>0. OwnInv /\ TypeOK /\ FitsAll /\ Solo /\ Owned /\ Alive /\ Follows
    BY DEF ObjectsInv, OwnInv
  <1>1. /\ run[c] = Idle /\ Keys(c) = {} /\ Refs(c) = {} /\ Touched(x) \cap apart = {}
        /\ UNCHANGED <<data, heap, torn>> /\ run' = [run EXCEPT ![c] = f]
        /\ apart' = apart \cup S /\ saved' = [k \in Key |-> IF k \in S THEN Absent ELSE saved[k]]
    <2>1. run[c] = Idle
      BY DEF Exec
    <2>2. Keys(c) = {} /\ Refs(c) = {}
      BY <2>1, <1>0, AtWork DEF Idle
    <2>3. QED
      BY <2>1, <2>2 DEF Exec, Be, Part
  <1>2. /\ f.pc = "get" /\ f.cmd = x /\ f.refs = <<>> /\ f.acc = None
        /\ f.i = IF x.op \in Stores THEN 2 ELSE 1
    BY DEF Idle
  <1>3. f \in Frame
    <2>1. Idle \in Frame /\ "get" \in Places /\ x \in CommandSet \cup {NoCommand}
      BY IdleFits DEF Places
    <2>2. (IF x.op \in Stores THEN 2 ELSE 1) \in 1..3
      OBVIOUS
    <2>3. QED
      BY <2>1, <2>2 DEF Frame
  <1> HIDE DEF f
  <1>4. Shaped(x) /\ Touched(x) \subseteq Key /\ Touched(x) # {}
    BY CommandShape, TouchedIs
  <1>5. Fits(f)
    <2>1. x.op \in Stores => Len(x.keys) \in 2..3
      BY <1>4 DEF Shaped
    <2>2. x.op \in Loners \cup {"rpoplpush", "rename"} => x.op \notin Stores
      BY DEF Stores, Loners, Writers, Pushes
    <2>3. Len(f.refs) = 0
      BY <1>2
    <2>4. QED
      <3>1. f.i \in {1, 2} /\ (x.op \in Stores => f.i = 2) /\ (x.op \notin Stores => f.i = 1)
        BY <1>2
      <3>2. x.op = "rpoplpush" => x.op \notin Stores
        BY <2>2
      <3>3. f.pc = "get" /\ f.cmd = x /\ f.acc = None /\ x \in CommandSet
        BY <1>2
      <3>4. ASSUME x.op \in Stores PROVE f.i \in 2..Len(x.keys)
        <4>1. f.i = 2 /\ Len(x.keys) \in 2..3
          BY <2>1, <3>1, <3>4
        <4>2. \A n \in 2..3 : 2 \in 2..n
          OBVIOUS
        <4>3. QED
          BY <4>1, <4>2
      <3>5. x.op \in Loners \cup {"rename"} => f.i = 1
        BY <2>2, <3>1
      <3>6. /\ Len(f.refs) = IF x.op = "rpoplpush" THEN f.i - 1 ELSE 0
            /\ x.op = "rpoplpush" => f.i \in 1..2
        BY <2>3, <3>1, <3>2
      <3>7. f.i # 3
        BY <3>1
      <3>8. QED
        BY <3>3, <3>4, <3>5, <3>6, <3>7 DEF Fits
  <1>6. /\ \A d \in Client \ {c} : run'[d] = run[d] /\ Keys(d)' = Keys(d) /\ Refs(d)' = Refs(d) /\ Op(d)' = Op(d)
        /\ run'[c] = f /\ Keys(c)' = Touched(x) /\ Refs(c)' = {} /\ run' \in [Client -> Frame]
    <2>1. (\A d \in Client \ {c} : run'[d] = run[d]) /\ run'[c] = f /\ run' \in [Client -> Frame]
      BY <1>0, <1>1, <1>3 DEF TypeOK
    <2>2. Keys(c)' = Touched(x) /\ Refs(c)' = {}
      BY <2>1, <1>2 DEF Keys, Refs
    <2>3. QED
      BY <2>1, <2>2 DEF Keys, Refs, Op
  <1>7. /\ S \subseteq Key
        /\ \A d \in Client : Keys(d) \cap Touched(x) # {} => Touched(x) \cup Keys(d) \subseteq S
        /\ \A k \in S : k \in Touched(x) \/ \E d \in Client : k \in Keys(d) /\ Keys(d) \cap Touched(x) # {}
        /\ S = {} \/ Touched(x) \subseteq S
    <2>1. \A d \in Client : d \in Rivals(x) <=> Keys(d) \cap Touched(x) # {}
      BY DEF Rivals, Keys
    <2>2. \A d \in Client : Keys(d) \subseteq Key
      BY <1>0, AtWork
    <2>3. \A d : Touched(run[d].cmd) = Keys(d)
      BY DEF Keys
    <2>4. S = IF Rivals(x) = {} THEN {} ELSE Touched(x) \cup UNION {Keys(d) : d \in Rivals(x)}
      BY <2>3 DEF Disturbed
    <2>5. Rivals(x) \subseteq Client
      BY DEF Rivals
    <2> HIDE DEF S
    <2>6. QED
      BY <2>1, <2>2, <2>4, <2>5, <1>4
  <1> HIDE DEF S
  <1>8. /\ \A d, e \in Client : d # e /\ Keys(d) \cap Keys(e) # {} => Keys(d) \cup Keys(e) \subseteq apart
        /\ \A d \in Client : Keys(d) \subseteq apart \/ Keys(d) \cap apart = {}
    BY <1>0 DEF Solo
  <1>9. ASSUME NEW d \in Client PROVE Keys(d)' \subseteq apart' \/ Keys(d)' \cap apart' = {}
    <2>1. CASE d = c
      BY <2>1, <1>1, <1>6, <1>7
    <2>2. CASE d # c
      <3>1. CASE Keys(d) \cap S = {}
        BY <2>2, <3>1, <1>1, <1>6, <1>8
      <3>2. CASE Keys(d) \cap Touched(x) # {}
        BY <2>2, <3>2, <1>1, <1>6, <1>7
      <3>3. ASSUME NEW e \in Client, Keys(d) \cap Keys(e) # {}, Keys(e) \cap Touched(x) # {}
            PROVE  Keys(d) \subseteq apart \/ Keys(d) \subseteq S
        <4>1. CASE d = e
          BY <3>3, <4>1, <1>7
        <4>2. CASE d # e
          BY <3>3, <4>2, <1>8
        <4>3. QED
          BY <4>1, <4>2
      <3>4. QED
        BY <2>2, <3>1, <3>2, <3>3, <1>1, <1>6, <1>7
    <2>3. QED
      BY <2>1, <2>2
  <1>10. ASSUME NEW d \in Client, NEW e \in Client, d # e, Keys(d)' \cap Keys(e)' # {}
         PROVE  Keys(d)' \cup Keys(e)' \subseteq apart'
    <2>1. CASE d # c /\ e # c
      BY <2>1, <1>1, <1>6, <1>8, <1>10
    <2>2. CASE d = c \/ e = c
      BY <2>2, <1>1, <1>6, <1>7, <1>10
    <2>3. QED
      BY <2>1, <2>2
  <1>11. Solo'
    BY <1>9, <1>10 DEF Solo
  <1>12. \A r : InUse(r)' <=> InUse(r)
    <2>1. \A r : InUse(r)' <=> (\E k \in Key : data'[k] = r) \/ \E d \in Client : r \in Refs(d)'
      BY DEF InUse, Refs
    <2>2. QED
      BY <2>1, <1>1, <1>6, InUseIs
  <1>13. Owned'
    <2>1. \A k, l : Renaming(k, l) => Renaming(k, l)'
      <3>1. \A d \in Client : run[d].pc = "drop" => run'[d] = run[d]
        BY <1>1, <1>6 DEF Idle
      <3>2. QED
        BY <3>1 DEF Renaming, Op, At
    <2>2. \A d \in Client : Refs(d)' = Refs(d) /\ (Refs(d) # {} => Keys(d)' = Keys(d))
      BY <1>1, <1>6
    <2>3. apart \subseteq apart' /\ data' = data /\ torn' = torn
      BY <1>1
    <2>4. \A k, l \in Key : k # l /\ data'[k] # None /\ data'[k] = data'[l] => {k, l} \subseteq apart' \/ Renaming(k, l)'
      BY <1>0, <2>1, <2>3 DEF Owned
    <2>5. \A d \in Client : \A k \in Key : data'[k] \in Refs(d)' => k \in Keys(d)' \/ (k \in apart' /\ Keys(d)' \subseteq apart')
      BY <1>0, <2>2, <2>3 DEF Owned
    <2>6. \A d, e \in Client : d # e /\ Refs(d)' \cap Refs(e)' # {} => Keys(d)' \cup Keys(e)' \subseteq apart'
      BY <1>0, <2>2, <2>3 DEF Owned
    <2>7. \A d \in Client : Refs(d)' \cap torn' # {} => Keys(d)' \subseteq apart'
      BY <1>0, <2>2, <2>3 DEF Owned
    <2>8. \A k \in Key : data'[k] \in torn' => k \in apart'
      BY <1>0, <2>3 DEF Owned
    <2>9. QED
      BY <2>4, <2>5, <2>6, <2>7, <2>8 DEF Owned
  <1>14. Alive'
    <2>1. \A r \in Ref : (InUse(r) => heap[r].kind # "none")' /\ (~InUse(r) => heap[r] = Absent /\ r \notin torn)' /\ Proper(heap[r])'
      BY <1>0, <1>1, <1>12 DEF Alive
    <2>2. \A d \in Client : \A r \in Refs(d)' : Serves(Op(d), heap[r])'
      BY <1>0, <1>1, <1>6 DEF Alive
    <2>3. QED
      BY <2>1, <2>2 DEF Alive
  <1>15. TypeOK'
    <2>1. Absent \in Contents
      BY DEF Absent, Object, Contents
    <2>2. QED
      BY <1>0, <1>1, <1>6, <1>7, <2>1 DEF TypeOK
  <1>16. FitsAll'
    BY <1>0, <1>5, <1>6 DEF FitsAll
  <1>17. Memory' = Memory /\ Memory = [k \in Key |-> Memory[k]]
    BY <1>1 DEF Memory, InMemory
  <1>18. \A k \in Key \ apart' : saved'[k] = saved[k] /\ k \notin apart
    BY <1>1
  <1>19. ASSUME NEW d \in Client, run'[d].pc # "idle", Keys(d)' \cap apart' = {}
         PROVE  Agrees(run'[d], data', Memory', saved')
    <2>1. CASE d # c
      <3>1. run'[d] = run[d] /\ Keys(d) \cap apart = {} /\ run[d].pc # "idle"
        BY <1>1, <1>6, <1>19, <2>1
      <3>2. Agrees(run[d], data, Memory, saved)
        BY <1>0, <3>1 DEF Follows
      <3>3. run[d] \in Frame /\ Fits(run[d]) /\ Keys(d) \subseteq Key
        BY <1>0, AtWork
      <3>4. saved = [k \in Key |-> saved[k]] /\ saved' = [k \in Key |-> saved'[k]]
        BY <1>0, <1>1 DEF TypeOK
      <3>5. \A k \in Touched(run[d].cmd) : data[k] = data'[k] /\ Memory[k] = Memory'[k] /\ saved[k] = saved'[k]
        BY <1>1, <1>6, <1>17, <1>18, <1>19, <2>1, <3>3 DEF Keys
      <3>6. Agrees(run[d], data', Memory', saved')
        BY <3>1, <3>2, <3>3, <3>4, <3>5, AgreesLocal
      <3>7. QED
        BY <3>1, <3>6
    <2>2. CASE d = c
      <3>1. Touched(x) \cap apart' = {} /\ run'[c] = f
        BY <1>6, <1>19, <2>2
      <3>2. \A e \in Client : Keys(e) \cap Touched(x) = {}
        BY <1>1, <1>4, <1>7, <3>1
      <3>3. \A k \in Touched(x) : Working(k) = {}
        BY <3>2 DEF Working, Keys
      <3>4. \A k \in Touched(x) : Memory'[k] = saved'[k]
        BY <1>0, <1>4, <1>17, <1>18, <3>1, <3>3 DEF Follows
      <3>5. HasMade(f, Memory', saved')
        BY <1>2, <3>4 DEF HasMade
      <3>6. HasRead(f, saved')
        BY <1>2 DEF HasRead
      <3>7. Holds(f, data')
        BY <1>2 DEF Holds, Stores
      <3>8. QED
        BY <2>2, <3>1, <3>5, <3>6, <3>7 DEF Agrees
    <2>3. QED
      BY <2>1, <2>2
  <1>20. Follows'
    <2>1. \A k \in Key \ apart' : Sound(saved'[k])
      BY <1>0, <1>18 DEF Follows
    <2>2. ASSUME NEW k \in Key \ apart', Working(k)' = {} PROVE saved'[k] = Memory'[k]
      <3>1. \A d \in Client : k \notin Keys(d)'
        BY <2>2 DEF Working, Keys
      <3>2. \A d \in Client : k \notin Keys(d)
        BY <3>1, <1>1, <1>6
      <3>3. Working(k) = {}
        BY <3>2 DEF Working, Keys
      <3>4. QED
        BY <1>0, <1>17, <1>18, <3>3 DEF Follows
    <2>3. \A d \in Client : run'[d].pc # "idle" /\ Keys(d)' \cap apart' = {} => Agrees(run'[d], data', Memory', saved')
      BY <1>19
    <2>4. QED
      BY <2>1, <2>2, <2>3 DEF Follows
  <1>21. QED
    BY <1>11, <1>13, <1>14, <1>15, <1>16, <1>20 DEF ObjectsInv, OwnInv

-----------------------------------------------------------------------------
(* What a store makes of one source, or of two.                            *)
LEMMA ResultIs ==
  ASSUME NEW x \in CommandSet, x.op \in Stores, NEW st \in [Key -> Contents]
  PROVE  /\ Len(x.keys) = 2 => Result(x.op, Sources(x, st)) = st[x.keys[2]].mem
         /\ Len(x.keys) = 3 => Result(x.op, Sources(x, st)) =
              CASE x.op = "sinterstore" -> st[x.keys[2]].mem \cap st[x.keys[3]].mem
                [] x.op = "sunionstore" -> st[x.keys[2]].mem \cup st[x.keys[3]].mem
                [] x.op = "sdiffstore"  -> st[x.keys[2]].mem \ st[x.keys[3]].mem
         /\ Result(x.op, Sources(x, st)) \in SUBSET Val
  <1>1. /\ Shaped(x) /\ Len(x.keys) \in 2..3
        /\ \A n \in 1..Len(x.keys) : x.keys[n] \in Key
    BY CommandShape DEF Shaped
  <1>2. \A k \in Key : st[k].mem \in SUBSET Val
    BY DEF Contents
  <1> DEFINE b == x.keys[2] d == x.keys[3]
  <1>3. CASE Len(x.keys) = 2
    <2>1. b \in Key
      BY <1>1, <1>3
    <2>2. Sources(x, st) = [n \in 1..1 |-> st[x.keys[n + 1]].mem]
      BY <1>3 DEF Sources
    <2>3. DOMAIN Sources(x, st) = {1} /\ Sources(x, st)[1] = st[b].mem
      BY <2>2
    <2>4. Result(x.op, Sources(x, st)) = st[b].mem
      <3> HIDE DEF b
      <3>1. CASE x.op = "sinterstore"
        BY <1>2, <2>1, <2>3, <3>1 DEF Result
      <3>2. CASE x.op = "sunionstore"
        BY <1>2, <2>1, <2>3, <3>2 DEF Result
      <3>3. CASE x.op = "sdiffstore"
        BY <1>2, <2>1, <2>3, <3>3 DEF Result
      <3>4. QED
        BY <3>1, <3>2, <3>3 DEF Stores
    <2>5. QED
      BY <1>2, <1>3, <2>1, <2>4
  <1>4. CASE Len(x.keys) = 3
    <2>1. b \in Key /\ d \in Key
      BY <1>1, <1>4
    <2>2. Sources(x, st) = [n \in 1..2 |-> st[x.keys[n + 1]].mem]
      BY <1>4 DEF Sources
    <2>3. DOMAIN Sources(x, st) = {1, 2} /\ Sources(x, st)[1] = st[b].mem /\ Sources(x, st)[2] = st[d].mem
      BY <2>2
    <2> HIDE DEF b, d
    <2>4. st[b].mem \in SUBSET Val /\ st[d].mem \in SUBSET Val
      BY <1>2, <2>1
    <2>5. CASE x.op = "sinterstore"
      <3>1. Result(x.op, Sources(x, st)) = st[b].mem \cap st[d].mem
        BY <2>3, <2>4, <2>5 DEF Result
      <3>2. QED
        BY <1>4, <2>4, <2>5, <3>1 DEF b, d
    <2>6. CASE x.op = "sunionstore"
      <3>1. Result(x.op, Sources(x, st)) = st[b].mem \cup st[d].mem
        BY <2>3, <2>4, <2>6 DEF Result
      <3>2. QED
        BY <1>4, <2>4, <2>6, <3>1 DEF b, d
    <2>7. CASE x.op = "sdiffstore"
      <3>1. Result(x.op, Sources(x, st)) = st[b].mem \ st[d].mem
        BY <2>3, <2>4, <2>7 DEF Result
      <3>2. QED
        BY <1>4, <2>4, <2>7, <3>1 DEF b, d
    <2>8. QED
      BY <2>5, <2>6, <2>7 DEF Stores
  <1>5. Len(x.keys) = 2 \/ Len(x.keys) = 3
    BY <1>1
  <1>6. QED
    BY <1>3, <1>4, <1>5

(* A store at one of its sources goes on with a.                           *)
OnwardTo(c, a) ==
  [run[c] EXCEPT !.acc = a, !.refs = <<>>,
                 !.i  = IF LastKey(c) THEN @ ELSE @ + 1,
                 !.pc = IF ~LastKey(c) THEN "get"
                        ELSE IF Op(c) = "sunionstore" THEN "clear" ELSE "put"]
LEMMA OnwardFits ==
  ASSUME ObjectsInv, NEW c \in Client, run[c].pc \in {"get", "inside"}, Op(c) \in Stores,
         NEW a \in {None} \cup SUBSET Val,
         Op(c) \in {"sinterstore", "sdiffstore"} => a # None
  PROVE  LET f == OnwardTo(c, a) IN
         /\ f \in Frame /\ Fits(f) /\ f.cmd = run[c].cmd /\ f.pc # "idle" /\ Held(f) = {}
         /\ /\ Keys(c) \cap apart = {}
            /\ IF LastKey(c)
               THEN a # None => a = Result(Op(c), Sources(run[c].cmd, saved))
               ELSE a = IF Op(c) = "sunionstore" /\ saved[At(c, 2)] = Absent THEN None ELSE saved[At(c, 2)].mem
            => Agrees(f, data, Memory, saved)
  <1> DEFINE x == run[c].cmd f == OnwardTo(c, a)
  <1>0. TypeOK /\ FitsAll
    BY DEF ObjectsInv, OwnInv
  <1>1. run[c] \in Frame /\ Fits(run[c]) /\ x \in CommandSet /\ Shaped(x)
    BY <1>0, AtWork
  <1>2. /\ f.acc = a /\ f.refs = <<>> /\ f.cmd = x
        /\ f.i = IF LastKey(c) THEN run[c].i ELSE run[c].i + 1
        /\ f.pc = IF ~LastKey(c) THEN "get" ELSE IF Op(c) = "sunionstore" THEN "clear" ELSE "put"
    BY <1>1 DEF Frame, OnwardTo
  <1>3. x.op = Op(c) /\ Len(x.keys) \in 2..3 /\ run[c].i \in 2..Len(x.keys) /\ run[c].i \in 2..3
    <2>1. Len(x.keys) \in 2..3
      BY <1>1 DEF Op, Shaped
    <2>2. run[c].i \in 2..Len(x.keys)
      BY <1>1 DEF Fits, Op
    <2>3. QED
      BY <2>1, <2>2, <1>1 DEF Op, Frame
  <1>4. LastKey(c) <=> run[c].i = Len(x.keys)
    BY DEF LastKey
  <1>5. ASSUME ~LastKey(c) PROVE run[c].i = 2 /\ Len(x.keys) = 3 /\ f.i = 3
    <2>1. \A m \in 2..3 : \A n \in 2..m : n # m => n = 2 /\ m = 3
      OBVIOUS
    <2>2. run[c].i = 2 /\ Len(x.keys) = 3
      BY <2>1, <1>3, <1>4, <1>5
    <2>3. QED
      BY <2>2, <1>2, <1>5
  <1>6. f.i \in 2..3 /\ f.i \in 2..Len(x.keys)
    BY <1>2, <1>3, <1>4, <1>5
  <1>7. f \in Frame
    <2>1. <<>> \in Seq(Ref) /\ a \in {None} \cup SUBSET Elem
      BY DEF Elem
    <2>2. /\ (IF LastKey(c) THEN run[c].i ELSE run[c].i + 1) \in 1..3
          /\ (IF ~LastKey(c) THEN "get" ELSE IF Op(c) = "sunionstore" THEN "clear" ELSE "put") \in Places
      BY <1>2, <1>6 DEF Places
    <2>3. QED
      BY <2>1, <2>2, <1>1 DEF Frame, OnwardTo
  <1> HIDE DEF x, f
  <1>8. Fits(f)
    <2>1. x.op \in Stores /\ x.op \notin Loners \cup {"rpoplpush", "rename"}
      BY <1>3 DEF Stores, Loners, Writers, Pushes
    <2>2. f.pc = "get" => f.i = 3 /\ Len(f.refs) = 0
      BY <1>2, <1>5
    <2>3. f.pc = "clear" => x.op = "sunionstore"
      BY <1>2, <1>3
    <2>4. f.pc = "put" => f.acc # None
      BY <1>2, <1>3, <2>1 DEF Stores
    <2>5. f.pc \in {"get", "clear", "put"} /\ f.cmd = x /\ x \in CommandSet
      BY <1>1, <1>2
    <2>6. (f.acc = None \/ f.acc \in SUBSET Val) /\ (x.op \in {"sinterstore", "sdiffstore"} => f.acc # None)
      BY <1>2, <1>3
    <2>7. QED
      BY <1>6, <2>1, <2>2, <2>3, <2>4, <2>5, <2>6 DEF Fits
  <1>9. Held(f) = {}
    BY <1>2 DEF Held
  <1>10. ASSUME Keys(c) \cap apart = {},
                IF LastKey(c)
                THEN a # None => a = Result(Op(c), Sources(run[c].cmd, saved))
                ELSE a = IF Op(c) = "sunionstore" /\ saved[At(c, 2)] = Absent THEN None ELSE saved[At(c, 2)].mem
         PROVE  Agrees(f, data, Memory, saved)
    <2>1. \A l \in Touched(x) : Memory[l] = saved[l]
      <3>1. HasMade(run[c], Memory, saved)
        BY <1>10, Followed
      <3>2. QED
        BY <3>1, <1>3 DEF HasMade, x, Stores
    <2>2. x.op \in Stores /\ x.op \notin Loners \cup {"rpoplpush", "rename"}
      BY <1>3 DEF Stores, Loners, Writers, Pushes
    <2>3. f.pc \in {"get", "clear", "put"} /\ f.cmd = x
      BY <1>2
    <2>4. Holds(f, data)
      BY <2>2, <2>3 DEF Holds
    <2>5. HasMade(f, Memory, saved)
      BY <2>1, <2>2, <2>3 DEF HasMade
    <2>6. HasRead(f, saved)
      <3>1. CASE LastKey(c)
        <4>1. f.pc \in {"clear", "put"} /\ f.acc = a /\ (a # None => a = Result(x.op, Sources(x, saved)))
          BY <1>2, <1>3, <1>10, <3>1 DEF x
        <4>2. f.pc = "put" => a # None
          BY <1>2, <1>3, <3>1, <2>2 DEF Stores
        <4>3. QED
          BY <4>1, <4>2, <2>3 DEF HasRead
      <3>2. CASE ~LastKey(c)
        <4>1. f.pc = "get" /\ f.i = 3 /\ f.acc = a
          BY <1>2, <1>5, <3>2
        <4>2. QED
          BY <4>1, <2>3, <1>3, <1>10, <3>2 DEF HasRead, At, x
      <3>3. QED
        BY <3>1, <3>2
    <2>7. QED
      BY <2>4, <2>5, <2>6 DEF Agrees
  <1>11. f.pc # "idle" /\ f.cmd = run[c].cmd
    BY <1>2 DEF x
  <1>12. QED
    BY <1>7, <1>8, <1>9, <1>10, <1>11 DEF f

-----------------------------------------------------------------------------
(* A command about to fetch the object of a key.                           *)
LEMMA GetFacts ==
  ASSUME ObjectsInv, NEW c \in Client, run[c].pc = "get"
  PROVE  /\ run[c] \in Frame /\ Fits(run[c]) /\ run[c].cmd \in CommandSet /\ Shaped(run[c].cmd)
         /\ run[c].i \in 1..Len(run[c].cmd.keys) /\ At(c, run[c].i) \in Keys(c) /\ Keys(c) \subseteq Key
         /\ At(c, run[c].i) \in Key /\ data[At(c, run[c].i)] \in Ref \cup {None}
         /\ Len(run[c].refs) = IF Op(c) = "rpoplpush" THEN run[c].i - 1 ELSE 0
         /\ Op(c) \notin Stores \cup {"rpoplpush"} => run[c].i = 1
         /\ Op(c) = "rpoplpush" => run[c].i \in 1..2 /\ Len(run[c].cmd.keys) = 2
         /\ Keys(c) \cap apart = {} => \A l \in Keys(c) : Memory[l] = saved[l]
         /\ Keys(c) \cap apart = {} => Holds(run[c], data) /\ HasRead(run[c], saved)
  <1> DEFINE x == run[c].cmd i == run[c].i
  <1>0. TypeOK /\ FitsAll
    BY DEF ObjectsInv, OwnInv
  <1>1. run[c] \in Frame /\ Fits(run[c]) /\ x \in CommandSet /\ Shaped(x) /\ Keys(c) \subseteq Key
    BY <1>0, AtWork
  <1>2. i \in 1..3 /\ Len(x.keys) \in 1..3
    BY <1>1 DEF Frame, Shaped
  <1>3. x.op \in Loners \cup {"rpoplpush", "rename"} \cup Stores
    BY <1>1 DEF Shaped
  <1>4. /\ x.op \in Loners \cup {"rename"} => i = 1
        /\ x.op = "rpoplpush" => i \in 1..2 /\ Len(x.keys) = 2
        /\ x.op \in Stores => i \in 2..Len(x.keys)
    BY <1>1 DEF Fits, Shaped
  <1>5. i \in 1..Len(x.keys)
    <2>1. \A m \in 1..3 : 1 \in 1..m /\ \A n \in 2..m : n \in 1..m
      OBVIOUS
    <2>2. x.op \in Loners \cup {"rename"} => i \in 1..Len(x.keys)
      BY <2>1, <1>2, <1>4
    <2>3. x.op = "rpoplpush" => i \in 1..Len(x.keys)
      BY <1>4
    <2>4. x.op \in Stores => i \in 1..Len(x.keys)
      BY <2>1, <1>2, <1>4
    <2>5. QED
      BY <1>3, <2>2, <2>3, <2>4
  <1>6. At(c, i) \in Keys(c)
    BY <1>1, <1>5, TouchedIs DEF At, Keys
  <1>7. data[At(c, i)] \in Ref \cup {None}
    BY <1>0, <1>1, <1>6 DEF TypeOK
  <1>8. Len(run[c].refs) = IF Op(c) = "rpoplpush" THEN i - 1 ELSE 0
    BY <1>1 DEF Fits, Op
  <1>9. ASSUME Keys(c) \cap apart = {}
        PROVE  (\A l \in Keys(c) : Memory[l] = saved[l]) /\ Holds(run[c], data) /\ HasRead(run[c], saved)
    <2>1. HasMade(run[c], Memory, saved) /\ Holds(run[c], data) /\ HasRead(run[c], saved)
      BY <1>9, Followed
    <2>2. QED
      BY <2>1 DEF HasMade, Keys
  <1>10. Op(c) \notin Stores \cup {"rpoplpush"} => i = 1
    BY <1>3, <1>4 DEF Op
  <1>11. QED
    BY <1>1, <1>4, <1>5, <1>6, <1>7, <1>8, <1>9, <1>10 DEF Op

(* A key that leads nowhere.                                               *)
LEMMA GetMissingKeeps ==
  ASSUME ObjectsInv, NEW c \in Client, run[c].pc = "get", data[At(c, run[c].i)] = None, GetMissing(c),
         UNCHANGED <<data, saved, apart>>, Objects(heap, torn)
  PROVE  ObjectsInv'
  <1> DEFINE x == run[c].cmd i == run[c].i k == At(c, run[c].i)
  <1>0. TypeOK
    BY DEF ObjectsInv, OwnInv
  <1>1. /\ run[c] \in Frame /\ Fits(run[c]) /\ x \in CommandSet /\ Shaped(x)
        /\ i \in 1..Len(x.keys) /\ k \in Keys(c) /\ Keys(c) \subseteq Key /\ k \in Key
        /\ Len(run[c].refs) = IF Op(c) = "rpoplpush" THEN i - 1 ELSE 0
        /\ Op(c) = "rpoplpush" => i \in 1..2 /\ Len(x.keys) = 2
        /\ Op(c) \notin Stores \cup {"rpoplpush"} => i = 1
        /\ Keys(c) \cap apart = {} => \A l \in Keys(c) : Memory[l] = saved[l]
        /\ Keys(c) \cap apart = {} => Holds(run[c], data) /\ HasRead(run[c], saved)
    BY GetFacts
  <1>2. Keys(c) \cap apart = {} => saved[k] = Absent
    BY <1>1 DEF Memory, InMemory
  <1>3. ASSUME Creates(c), Goto(c, "init") PROVE ObjectsInv'
    <2> DEFINE f == [run[c] EXCEPT !.pc = "init"]
    <2>1. Be(c, f)
      BY <1>3 DEF Goto
    <2>2. /\ f.pc = "init" /\ f.cmd = x /\ f.i = i /\ f.refs = run[c].refs /\ f.acc = run[c].acc
          /\ f \in Frame /\ Held(f) = Refs(c)
      BY <1>1 DEF Frame, Places, Held, Refs
    <2> HIDE DEF f
    <2>3. \/ x.op \in {"lpush", "rpush", "sadd"} /\ i = 1 /\ Len(f.refs) = 0
          \/ x.op = "rpoplpush" /\ i = 2 /\ Len(f.refs) = 1
      <3>1. CASE Op(c) \in {"lpush", "rpush", "sadd"}
        <4>1. Op(c) \notin Stores \cup {"rpoplpush"}
          BY <3>1 DEF Stores
        <4>2. i = 1 /\ Len(run[c].refs) = 0
          BY <1>1, <4>1
        <4>3. QED
          BY <2>2, <3>1, <4>2 DEF Op
      <3>2. CASE Op(c) = "rpoplpush" /\ i = 2
        BY <1>1, <2>2, <3>2 DEF Op
      <3>3. QED
        BY <1>3, <3>1, <3>2 DEF Creates
    <2>4. x.op \notin Stores
      BY <2>3 DEF Stores
    <2>5. Fits(f)
      BY <1>1, <2>2, <2>3, <2>4 DEF Fits
    <2>6. ASSUME Keys(c) \cap apart = {} PROVE Agrees(f, data, Memory, saved)
      <3>1. HasMade(f, Memory, saved)
        BY <1>1, <2>2, <2>4, <2>6 DEF HasMade, Keys
      <3>2. HasRead(f, saved)
        BY <2>2, <2>4 DEF HasRead
      <3>3. data[x.keys[f.i]] = None
        BY <2>2 DEF At
      <3>4. x.op = "rpoplpush" => f.refs[1] = data[x.keys[1]]
        BY <1>1, <2>2, <2>3, <2>6 DEF Holds
      <3>5. Holds(f, data)
        BY <2>2, <2>4, <3>3, <3>4 DEF Holds
      <3>6. QED
        BY <3>1, <3>2, <3>5 DEF Agrees
    <2>7. QED
      BY <1>0, <1>1, <2>1, <2>2, <2>5, <2>6, QuietKeeps
  <1>4. ASSUME Op(c) = "sinterstore" \/ (Op(c) = "sdiffstore" /\ i = 2), Goto(c, "droponly") PROVE ObjectsInv'
    <2> DEFINE f == [run[c] EXCEPT !.pc = "droponly"]
    <2>1. Be(c, f)
      BY <1>4 DEF Goto
    <2>2. /\ f.pc = "droponly" /\ f.cmd = x /\ f.i = i /\ f.refs = run[c].refs /\ f.acc = run[c].acc
          /\ f \in Frame /\ Held(f) = Refs(c)
      BY <1>1 DEF Frame, Places, Held, Refs
    <2> HIDE DEF f
    <2>3. x.op \in {"sinterstore", "sdiffstore"}
      BY <1>4 DEF Op
    <2>4. x.op \in Stores /\ x.op # "rpoplpush"
      BY <2>3 DEF Stores
    <2>5. Fits(f)
      <3>1. f.acc = None \/ f.acc \in SUBSET Val
        BY <1>1, <2>2, <2>4 DEF Fits
      <3>2. QED
        BY <1>1, <2>2, <2>3, <2>4, <3>1 DEF Fits
    <2>6. ASSUME Keys(c) \cap apart = {} PROVE Agrees(f, data, Memory, saved)
      BY <1>1, <2>2, <2>4, <2>6 DEF Agrees, HasMade, HasRead, Holds, Keys
    <2>7. QED
      BY <1>0, <1>1, <2>1, <2>2, <2>5, <2>6, QuietKeeps
  <1>5. ASSUME Op(c) \in Stores, Op(c) # "sinterstore", Op(c) = "sdiffstore" => i # 2, Onward(c, run[c].acc)
        PROVE  ObjectsInv'
    <2> DEFINE a == run[c].acc f == OnwardTo(c, a)
    <2>1. Be(c, f)
      BY <1>5 DEF Onward, OnwardTo
    <2>2. i \in 2..3 /\ i \in 2..Len(x.keys) /\ Len(x.keys) \in 2..3 /\ x.op = Op(c)
      BY <1>1, <1>5 DEF Fits, Op, Shaped
    <2>3. a \in {None} \cup SUBSET Val /\ (Op(c) \in {"sinterstore", "sdiffstore"} => a # None)
      BY <1>1, <1>5, <2>2 DEF Fits, Op
    <2>4. LastKey(c) <=> i = Len(x.keys)
      BY DEF LastKey
    <2>5. ASSUME Keys(c) \cap apart = {}
          PROVE  IF LastKey(c)
                 THEN a # None => a = Result(Op(c), Sources(x, saved))
                 ELSE a = IF Op(c) = "sunionstore" /\ saved[At(c, 2)] = Absent THEN None ELSE saved[At(c, 2)].mem
      <3>1. HasRead(run[c], saved) /\ saved[k] = Absent /\ Absent.mem = {}
        BY <1>1, <1>2, <2>5 DEF Absent, Object
      <3>2. CASE i = 2
        <4>1. a = None
          BY <1>5, <2>2, <3>1, <3>2 DEF HasRead
        <4>2. Op(c) = "sunionstore"
          BY <1>5, <3>2 DEF Stores
        <4>3. QED
          BY <3>1, <3>2, <4>1, <4>2
      <3>3. CASE i = 3
        <4>1. Len(x.keys) = 3 /\ LastKey(c)
          <5>1. \A m \in 2..3 : 3 \in 2..m => m = 3
            OBVIOUS
          <5>2. QED
            BY <5>1, <2>2, <2>4, <3>3
        <4>2. a = IF x.op = "sunionstore" /\ saved[x.keys[2]] = Absent THEN None ELSE saved[x.keys[2]].mem
          BY <1>5, <2>2, <3>1, <3>3 DEF HasRead
        <4>3. saved[x.keys[3]].mem = {}
          BY <3>1, <3>3 DEF At
        <4>4. ASSUME a # None PROVE a = Result(x.op, Sources(x, saved))
          <5>1. a = saved[x.keys[2]].mem
            BY <4>2, <4>4
          <5>2. x.op \in {"sunionstore", "sdiffstore"}
            BY <1>5, <2>2 DEF Stores
          <5>3. Result(x.op, Sources(x, saved)) = a
            <6>1. CASE x.op = "sunionstore"
              <7>1. Result(x.op, Sources(x, saved)) = saved[x.keys[2]].mem \cup saved[x.keys[3]].mem
                BY <1>0, <1>1, <1>5, <2>2, <4>1, <6>1, ResultIs DEF TypeOK
              <7>2. QED
                BY <4>3, <5>1, <7>1
            <6>2. CASE x.op = "sdiffstore"
              <7>1. Result(x.op, Sources(x, saved)) = saved[x.keys[2]].mem \ saved[x.keys[3]].mem
                BY <1>0, <1>1, <1>5, <2>2, <4>1, <6>2, ResultIs DEF TypeOK
              <7>2. QED
                BY <4>3, <5>1, <7>1
            <6>3. QED
              BY <5>2, <6>1, <6>2
          <5>4. QED
            BY <5>3
        <4>5. QED
          BY <2>2, <4>1, <4>4
      <3>4. QED
        BY <2>2, <3>2, <3>3
    <2>6. /\ f \in Frame /\ Fits(f) /\ f.cmd = run[c].cmd /\ f.pc # "idle" /\ Held(f) = {}
          /\ Keys(c) \cap apart = {} => Agrees(f, data, Memory, saved)
      <3> HIDE DEF a
      <3>1. run[c].pc \in {"get", "inside"}
        OBVIOUS
      <3>2. QED
        BY <1>5, <2>3, <2>5, <3>1, OnwardFits
    <2> HIDE DEF f
    <2>7. QED
      BY <1>0, <1>1, <2>1, <2>6, QuietKeeps
  <1>6. ASSUME Reply(c) PROVE ObjectsInv'
    <2>1. Be(c, Idle) /\ Held(Idle) = {}
      BY <1>6, IdleFits DEF Reply
    <2>2. QED
      BY <1>1, <2>1, QuietKeeps
  <1>7. CASE Creates(c)
    <2>1. Op(c) \notin Stores
      BY <1>7 DEF Creates, Stores
    <2>2. Goto(c, "init")
      BY <1>7, <2>1 DEF GetMissing
    <2>3. QED
      BY <1>3, <1>7, <2>2
  <1>8. CASE Op(c) \in Stores
    <2>1. ~Creates(c)
      BY <1>8 DEF Creates, Stores
    <2>2. IF Op(c) = "sinterstore" \/ (Op(c) = "sdiffstore" /\ i = 2)
          THEN Goto(c, "droponly") ELSE Onward(c, run[c].acc)
      BY <1>8, <2>1 DEF GetMissing
    <2>3. QED
      BY <1>4, <1>5, <1>8, <2>2
  <1>9. CASE ~Creates(c) /\ Op(c) \notin Stores
    <2>1. Reply(c)
      BY <1>9 DEF GetMissing
    <2>2. QED
      BY <1>6, <2>1
  <1>10. QED
    BY <1>7, <1>8, <1>9

(* A sequence with an element more.                                        *)
LEMMA AppendIs ==
  ASSUME NEW T, NEW s \in Seq(T), NEW e \in T
  PROVE  /\ Append(s, e) \in Seq(T) /\ Len(Append(s, e)) = Len(s) + 1
         /\ {Append(s, e)[n] : n \in DOMAIN Append(s, e)} = {s[n] : n \in DOMAIN s} \cup {e}
         /\ Len(s) = 0 => Append(s, e)[1] = e /\ Len(Append(s, e)) = 1
         /\ Len(s) = 1 => Append(s, e)[1] = s[1] /\ Append(s, e)[2] = e /\ Len(Append(s, e)) = 2
  <1> DEFINE t == Append(s, e)
  <1>1. t \in Seq(T) /\ Len(t) = Len(s) + 1 /\ Len(s) \in Nat /\ DOMAIN t = 1..(Len(s) + 1) /\ DOMAIN s = 1..Len(s)
    OBVIOUS
  <1>2. t[Len(s) + 1] = e /\ \A n \in 1..Len(s) : t[n] = s[n]
    OBVIOUS
  <1> HIDE DEF t
  <1>3. \A n \in 1..(Len(s) + 1) : n \in 1..Len(s) \/ n = Len(s) + 1
    BY <1>1
  <1>4. \A n \in 1..Len(s) : n \in 1..(Len(s) + 1)
    BY <1>1
  <1>5. Len(s) + 1 \in 1..(Len(s) + 1)
    BY <1>1
  <1>6. {t[n] : n \in DOMAIN t} = {s[n] : n \in DOMAIN s} \cup {e}
    BY <1>1, <1>2, <1>3, <1>4, <1>5
  <1>7. Len(s) = 0 => t[1] = e /\ Len(t) = 1
    BY <1>1, <1>2
  <1>8. Len(s) = 1 => t[1] = s[1] /\ t[2] = e /\ Len(t) = 2
    BY <1>1, <1>2
  <1>9. QED
    BY <1>1, <1>6, <1>7, <1>8 DEF t

(* A key that leads to an object.                                          *)
LEMMA GetFoundKeeps ==
  ASSUME ObjectsInv, NEW c \in Client, run[c].pc = "get", NEW r, r = data[At(c, run[c].i)], r # None, GetFound(c, r),
         UNCHANGED <<data, saved, apart>>, Objects(heap, torn)
  PROVE  ObjectsInv'
  <1> DEFINE x == run[c].cmd i == run[c].i k == At(c, run[c].i)
  <1>0. TypeOK /\ Alive
    BY DEF ObjectsInv, OwnInv
  <1>1. /\ run[c] \in Frame /\ Fits(run[c]) /\ x \in CommandSet /\ Shaped(x)
        /\ i \in 1..Len(x.keys) /\ k \in Keys(c) /\ Keys(c) \subseteq Key /\ k \in Key
        /\ Len(run[c].refs) = IF Op(c) = "rpoplpush" THEN i - 1 ELSE 0
        /\ Op(c) = "rpoplpush" => i \in 1..2 /\ Len(x.keys) = 2
        /\ Op(c) \notin Stores \cup {"rpoplpush"} => i = 1
        /\ Keys(c) \cap apart = {} => \A l \in Keys(c) : Memory[l] = saved[l]
        /\ Keys(c) \cap apart = {} => Holds(run[c], data) /\ HasRead(run[c], saved)
        /\ r \in Ref
    BY GetFacts
  <1>2. Keys(c) \cap apart = {} => saved[k] = heap[r]
    BY <1>1 DEF Memory, InMemory
  <1>3. run[c].refs \in Seq(Ref) /\ x.op = Op(c) /\ Refs(c) = {run[c].refs[n] : n \in 1..Len(run[c].refs)}
    BY <1>1 DEF Frame, Op, Refs
  <1>4. heap[r].kind # "none" /\ Proper(heap[r]) /\ heap[r].kind \in {"list", "set", "none"}
    <2>1. InUse(r)
      BY <1>1 DEF InUse
    <2>2. QED
      BY <2>1, <1>0, <1>1 DEF Alive, TypeOK, Contents
  <1>5. CASE ~Wanted(x, heap[r])
    <2>1. Be(c, Idle) /\ Held(Idle) = {}
      BY <1>5, IdleFits DEF Reply, GetFound
    <2>2. QED
      BY <1>1, <2>1, QuietKeeps
  <1>6. Wanted(x, heap[r]) => Serves(x.op, heap[r])
    BY DEF Wanted, Serves
  <1>7. CASE Wanted(x, heap[r]) /\ Op(c) = "del"
    <2> DEFINE f == [run[c] EXCEPT !.pc = "drop"]
    <2>1. Be(c, f)
      BY <1>7 DEF GetFound, Goto
    <2>2. /\ f.pc = "drop" /\ f.cmd = x /\ f.refs = run[c].refs
          /\ f \in Frame /\ Held(f) = Refs(c)
      BY <1>1 DEF Frame, Places, Held, Refs
    <2> HIDE DEF f
    <2>3. x.op = "del" /\ x.op \notin Stores
      BY <1>3, <1>7 DEF Stores
    <2>4. Fits(f)
      BY <1>1, <2>2, <2>3 DEF Fits
    <2>5. ASSUME Keys(c) \cap apart = {} PROVE Agrees(f, data, Memory, saved)
      <3>1. Apply(x, saved)[x.keys[1]] = Absent
        <4>1. x.keys[1] \in Key /\ saved \in [Key -> Contents]
          BY <1>0, <1>1, TouchedIs DEF TypeOK
        <4>2. QED
          BY <2>3, <4>1 DEF Apply, Alone, Stores
      <3>2. Touched(x) \ {x.keys[1]} = {}
        <4>1. Len(x.keys) = 1
          BY <1>1, <2>3 DEF Shaped, Loners
        <4>2. QED
          BY <1>1, <4>1, TouchedIs
      <3>3. HasMade(f, Memory, saved)
        BY <2>2, <2>3, <3>1, <3>2 DEF HasMade
      <3>4. QED
        BY <2>2, <2>3, <3>3 DEF Agrees, HasRead, Holds
    <2>6. QED
      BY <1>0, <1>1, <2>1, <2>2, <2>4, <2>5, QuietKeeps
  <1>8. CASE Wanted(x, heap[r]) /\ Op(c) = "rename"
    <2> DEFINE f == [run[c] EXCEPT !.refs = <<r>>, !.pc = "dest"]
    <2>1. Be(c, f)
      BY <1>8 DEF GetFound
    <2>2. f.pc = "dest" /\ f.cmd = x /\ f.refs = <<r>> /\ f.i = i
      BY <1>1 DEF Frame
    <2>3. f \in Frame
      <3>1. <<r>> \in Seq(Ref) /\ "dest" \in Places
        BY <1>1 DEF Places
      <3>2. QED
        BY <1>1, <3>1 DEF Frame
    <2> HIDE DEF f
    <2>4. Held(f) = {r} /\ Len(f.refs) = 1
      BY <2>2 DEF Held
    <2>5. x.op = "rename" /\ x.op \notin Stores /\ i = 1
      BY <1>1, <1>3, <1>8 DEF Stores
    <2>6. Fits(f)
      BY <1>1, <2>2, <2>4, <2>5 DEF Fits
    <2>7. ASSUME Keys(c) \cap apart = {} PROVE Agrees(f, data, Memory, saved)
      <3>1. HasMade(f, Memory, saved)
        BY <1>1, <2>2, <2>5, <2>7 DEF HasMade, Keys
      <3>2. f.refs[1] = data[x.keys[1]]
        BY <2>2, <2>5 DEF At
      <3>3. QED
        BY <2>2, <2>5, <3>1, <3>2 DEF Agrees, HasRead, Holds
    <2>8. Serves(f.cmd.op, heap[r])
      BY <1>6, <1>8, <2>2
    <2>9. QED
      BY <1>0, <1>1, <2>1, <2>2, <2>3, <2>4, <2>6, <2>7, <2>8, QuietKeeps
  <1>9. CASE Wanted(x, heap[r]) /\ Op(c) = "rpoplpush" /\ i = 1
    <2> DEFINE f == [run[c] EXCEPT !.refs = <<r>>, !.i = 2]
    <2>1. Be(c, f)
      BY <1>9 DEF GetFound
    <2>2. f.pc = "get" /\ f.cmd = x /\ f.refs = <<r>> /\ f.i = 2
      BY <1>1 DEF Frame
    <2>3. f \in Frame
      <3>1. <<r>> \in Seq(Ref) /\ 2 \in 1..3
        BY <1>1
      <3>2. QED
        BY <1>1, <3>1 DEF Frame
    <2> HIDE DEF f
    <2>4. Held(f) = {r} /\ Len(f.refs) = 1
      BY <2>2 DEF Held
    <2>5. x.op = "rpoplpush" /\ x.op \notin Stores \cup Loners \cup {"rename"}
      BY <1>3, <1>9 DEF Stores, Loners, Writers, Pushes
    <2>6. Fits(f)
      BY <1>1, <2>2, <2>4, <2>5 DEF Fits
    <2>7. ASSUME Keys(c) \cap apart = {} PROVE Agrees(f, data, Memory, saved)
      <3>1. HasMade(f, Memory, saved)
        BY ONLY SMTT(30), <1>1, <2>2, <2>5, <2>7 DEF HasMade, Keys
      <3>2. f.refs[1] = data[x.keys[1]]
        <4>1. f.refs = <<r>> /\ r = data[At(c, 1)] /\ At(c, 1) = x.keys[1]
          BY <1>9, <2>2 DEF At
        <4>2. QED
          BY ONLY <4>1
      <3>3. QED
        BY <2>2, <2>5, <3>1, <3>2 DEF Agrees, HasRead, Holds
    <2>8. Serves(f.cmd.op, heap[r])
      BY <1>6, <1>9, <2>2
    <2>9. QED
      BY <1>0, <1>1, <2>1, <2>2, <2>3, <2>4, <2>6, <2>7, <2>8, QuietKeeps
  <1>10. CASE Wanted(x, heap[r]) /\ Op(c) \notin {"del", "rename"} /\ ~(Op(c) = "rpoplpush" /\ i = 1)
    <2> DEFINE f == [run[c] EXCEPT !.refs = Append(@, r), !.pc = "inside"]
    <2>1. Be(c, f)
      BY <1>10 DEF GetFound
    <2>2. f.pc = "inside" /\ f.cmd = x /\ f.refs = Append(run[c].refs, r) /\ f.i = i /\ f.acc = run[c].acc
      BY <1>1 DEF Frame
    <2>3. f \in Frame
      <3>1. Append(run[c].refs, r) \in Seq(Ref) /\ "inside" \in Places
        BY <1>1, <1>3 DEF Places
      <3>2. QED
        BY <1>1, <3>1 DEF Frame
    <2> HIDE DEF f
    <2>4. /\ Len(run[c].refs) = 0 => f.refs[1] = r /\ Len(f.refs) = 1
          /\ Len(run[c].refs) = 1 => f.refs[1] = run[c].refs[1] /\ f.refs[2] = r /\ Len(f.refs) = 2
          /\ Held(f) \subseteq Refs(c) \cup {r}
      <3>1. Held(f) = Refs(c) \cup {r}
        <4>1. /\ f.refs = Append(run[c].refs, r) /\ run[c].refs \in Seq(Ref) /\ r \in Ref
          BY <1>1, <1>3, <2>2
        <4>2. {f.refs[n] : n \in DOMAIN f.refs} = {run[c].refs[n] : n \in DOMAIN run[c].refs} \cup {r}
          <5> DEFINE s == run[c].refs t == f.refs q == r
          <5>1. t = Append(s, q) /\ s \in Seq(Ref) /\ q \in Ref
            BY ONLY <4>1
          <5> HIDE DEF s, t, q
          <5>2. {t[n] : n \in DOMAIN t} = {s[n] : n \in DOMAIN s} \cup {q}
            BY ONLY <5>1, AppendIs
          <5>3. QED
            BY ONLY <5>2 DEF s, t, q
        <4>3. QED
          BY <4>2 DEF Held, Refs
      <3>2. QED
        BY <1>1, <1>3, <2>2, <3>1, AppendIs
    <2>5. \/ x.op = "rpoplpush" /\ i = 2 /\ Len(run[c].refs) = 1 /\ x.op \notin Stores \cup Loners
          \/ x.op \in Stores /\ Len(run[c].refs) = 0 /\ x.op # "rpoplpush" /\ x.op \notin Loners
          \/ x.op \in Loners /\ x.op \notin Stores \cup {"rpoplpush"} /\ i = 1 /\ Len(run[c].refs) = 0
      <3>1. CASE Op(c) = "rpoplpush"
        <4>1. i = 2 /\ Len(run[c].refs) = 1
          BY <1>1, <1>10, <3>1
        <4>2. QED
          BY <4>1, <3>1, <1>3 DEF Stores, Loners, Writers, Pushes
      <3>2. CASE Op(c) \in Stores
        <4>1. Op(c) # "rpoplpush" /\ Op(c) \notin Loners
          BY <3>2 DEF Stores, Loners, Writers, Pushes
        <4>2. QED
          BY <4>1, <3>2, <1>1, <1>3
      <3>3. CASE Op(c) \notin Stores \cup {"rpoplpush"}
        <4>1. Op(c) \in Loners
          BY <1>1, <1>3, <1>10, <3>3 DEF Shaped
        <4>2. QED
          BY <4>1, <3>3, <1>1, <1>3
      <3>4. QED
        BY <3>1, <3>2, <3>3
    <2>6. f.refs[1] = (IF x.op = "rpoplpush" THEN run[c].refs[1] ELSE r) /\ (x.op = "rpoplpush" => f.refs[2] = r)
      BY <2>4, <2>5
    <2>7. Fits(f)
      <3>1. Len(f.refs) = IF x.op = "rpoplpush" THEN 2 ELSE 1
        BY <2>4, <2>5
      <3>2. x.op \notin {"del", "rename"}
        BY <1>3, <1>10
      <3>3. f.pc # "idle" /\ x \in CommandSet
        BY <1>1, <2>2
      <3>4. x.op \in Stores => /\ f.acc = None \/ f.acc \in SUBSET Val
                               /\ f.i \in 2..Len(x.keys)
        BY <1>1, <2>2 DEF Fits
      <3>5. x.op \in {"sinterstore", "sdiffstore"} /\ f.i = 3 => f.acc # None
        BY <1>1, <2>2 DEF Fits
      <3>6. x.op \in Loners \cup {"rename"} => f.i = 1
        BY <2>2, <2>5, <3>2
      <3>7. QED
        BY <2>2, <3>1, <3>2, <3>3, <3>4, <3>5, <3>6 DEF Fits
    <2>8. ASSUME Keys(c) \cap apart = {} PROVE Agrees(f, data, Memory, saved)
      <3>0. /\ \A l \in Touched(x) : Memory[l] = saved[l]
            /\ Holds(run[c], data) /\ HasRead(run[c], saved) /\ saved[k] = heap[r] /\ k \in Touched(x)
            /\ k = x.keys[i] /\ x.keys[1] \in Touched(x)
        BY <1>1, <1>2, <2>8, TouchedIs DEF Keys, At
      <3>1. x.op \in {"lpush", "rpush"} => heap[r] = List(heap[r].seq)
        <4>1. heap[r] \in Contents
          BY <1>0, <1>1 DEF TypeOK
        <4>2. x.op \in {"lpush", "rpush"} => heap[r].kind = "list" /\ heap[r].mem = {}
          BY <1>4, <1>6, <1>10 DEF Serves, Proper, ListOps, Pushes
        <4>3. QED
          BY <4>1, <4>2 DEF Contents, List, Object
      <3>2. x.op = "sadd" => heap[r] = MkSet(heap[r].mem)
        <4>1. heap[r] \in Contents
          BY <1>0, <1>1 DEF TypeOK
        <4>2. x.op = "sadd" => heap[r].kind = "set" /\ heap[r].seq = <<>>
          BY <1>4, <1>6, <1>10 DEF Serves, Proper, SetOps
        <4>3. QED
          BY <4>1, <4>2 DEF Contents, MkSet, Object
      <3>3. x.op = "rpoplpush" => heap[r] = List(heap[r].seq)
        <4>1. heap[r] \in Contents
          BY <1>0, <1>1 DEF TypeOK
        <4>2. x.op = "rpoplpush" => heap[r].kind = "list" /\ heap[r].mem = {}
          BY <1>4, <1>6, <1>10 DEF Serves, Proper, ListOps
        <4>3. QED
          BY <4>1, <4>2 DEF Contents, List, Object
      <3>4. x.op \in {"lpush", "rpush", "sadd"} => k = x.keys[1]
        <4>1. x.op \in {"lpush", "rpush", "sadd"} => x.op \notin Stores \cup {"rpoplpush"}
          BY ONLY <3>0 DEF Stores
        <4>2. QED
          BY <2>5, <3>0, <4>1
      <3>5. HasMade(f, Memory, saved)
        <4>1. Memory[k] = heap[r] /\ Memory[x.keys[1]] = saved[x.keys[1]]
          BY ONLY <3>0
        <4>2. x.op \in {"lpush", "rpush"} => Memory[x.keys[1]] = List(saved[x.keys[1]].seq)
          BY ONLY <3>0, <3>1, <3>4, <4>1
        <4>3. x.op = "sadd" => Memory[x.keys[1]] = MkSet(saved[x.keys[1]].mem)
          BY ONLY <3>0, <3>2, <3>4, <4>1
        <4>4. x.op = "rpoplpush" => Memory[x.keys[2]] = List(saved[x.keys[2]].seq)
          BY ONLY SMTT(30), <2>5, <3>0, <3>3, <4>1
        <4>5. QED
          BY ONLY <2>2, <3>0, <4>1, <4>2, <4>3, <4>4 DEF HasMade
      <3>6. HasRead(f, saved)
        BY <2>2, <3>0 DEF HasRead
      <3>7. Holds(f, data)
        <4>1. x.op = "rpoplpush" => run[c].refs[1] = data[x.keys[1]]
          BY <2>5, <3>0 DEF Holds
        <4>2. f.refs[1] = data[IF x.op \in Stores THEN x.keys[i] ELSE x.keys[1]]
          BY <2>5, <2>6, <3>0, <4>1
        <4>3. x.op = "rpoplpush" => f.refs[2] = data[x.keys[2]]
          BY <2>5, <2>6, <3>0
        <4>4. QED
          BY <2>2, <4>2, <4>3 DEF Holds
      <3>8. QED
        BY SMTT(30), <3>5, <3>6, <3>7 DEF Agrees
    <2>9. Serves(f.cmd.op, heap[r])
      BY <1>6, <1>10, <2>2
    <2>10. QED
      BY <1>0, <1>1, <2>1, <2>2, <2>3, <2>4, <2>7, <2>8, <2>9, QuietKeeps
  <1>11. QED
    BY <1>5, <1>7, <1>8, <1>9, <1>10

LEMMA GetKeeps ==
  ASSUME ObjectsInv, NEW c \in Client, Get(c)
  PROVE  ObjectsInv'
  <1>1. /\ run[c].pc = "get" /\ UNCHANGED <<data, saved, apart>> /\ Objects(heap, torn)
        /\ IF data[At(c, run[c].i)] = None THEN GetMissing(c) ELSE GetFound(c, data[At(c, run[c].i)])
    BY DEF Get
  <1>2. CASE data[At(c, run[c].i)] = None
    BY <1>1, <1>2, GetMissingKeeps
  <1>3. CASE data[At(c, run[c].i)] # None
    BY <1>1, <1>3, GetFoundKeeps
  <1>4. QED
    BY <1>2, <1>3

-----------------------------------------------------------------------------
(* Whoever panics is not followed.                                         *)
LEMMA PanicKeeps ==
  ASSUME ObjectsInv, NEW c \in Client, Panic(c)
  PROVE  ObjectsInv'
  <1> DEFINE k == At(c, 1) v == data[k] t == IF Reads(run[c].cmd) THEN torn ELSE torn \cup Touching(c)
  <1>0. OwnInv /\ TypeOK /\ FitsAll /\ Owned /\ Alive
    BY DEF ObjectsInv, OwnInv
  <1>1. /\ Touching(c) # {} /\ (Raced(c) \/ Touching(c) \subseteq torn)
        /\ run' = [run EXCEPT ![c] = Idle] /\ UNCHANGED <<data, saved, apart>> /\ Objects(heap, t)
    BY DEF Panic, Reply, Be
  <1>2. Touching(c) \subseteq Refs(c) /\ (Raced(c) => Keys(c) \subseteq apart)
    BY <1>0, RacingIs
  <1>3. Keys(c) \subseteq apart
    BY <1>0, <1>1, <1>2 DEF Owned
  <1>4. run[c].pc # "idle"
    BY <1>1 DEF Touching
  <1>5. k \in Keys(c) /\ k \in Key
    <2>1. run[c].cmd \in CommandSet
      BY <1>0, <1>4, AtWork
    <2>2. QED
      BY <2>1, TouchedIs DEF Keys, At
  <1>6. Acts(c, Idle, k, v, heap, t, {})
    <2>1. Idle \in Frame /\ Fits(Idle) /\ Held(Idle) = {}
      BY IdleFits
    <2>2. data' = [data EXCEPT ![k] = v] /\ v \in Ref \cup {None}
      BY <1>0, <1>1, <1>5 DEF TypeOK
    <2>3. t \subseteq torn \cup Refs(c)
      BY <1>2
    <2>4. heap \in [Ref -> Contents] /\ \A r \in Ref : Proper(heap[r])
      BY <1>0 DEF TypeOK, Alive
    <2>5. Op(c) = "rename" /\ run[c].pc = "drop" => FALSE
      BY <1>1 DEF Touching
    <2>6. \A r \in Unused : r # v
      BY <1>5, InUseIs DEF Unused
    <2>7. apart' = apart \cup {}
      BY <1>1
    <2>8. v = data[k]
      OBVIOUS
    <2> HIDE DEF t, k, v
    <2>9. QED
      BY <1>1, <1>3, <1>5, <2>1, <2>2, <2>3, <2>4, <2>5, <2>6, <2>7, <2>8 DEF Acts
  <1>7. Progress(c, Idle)
    BY <1>1, <1>3, <1>5 DEF Progress
  <1>8. saved' \in [Key -> Contents]
    BY <1>0, <1>1 DEF TypeOK
  <1> HIDE DEF k, v, t
  <1>9. QED
    BY <1>4, <1>6, <1>7, <1>8, StepKeeps

-----------------------------------------------------------------------------
(* A command that only moves on.                                           *)
MovedTo(c, p) == [run[c] EXCEPT !.pc = p]
LEMMA MoveFits ==
  ASSUME OwnInv, NEW c \in Client, run[c].pc # "idle", NEW p \in {"drop", "droponly", "log", "check", "checkonly"},
         p = "drop" => Op(c) \in {"lpop", "rpop", "lrem", "srem", "rpoplpush", "del", "rename"},
         p = "droponly" => Op(c) \in {"lrem", "srem", "sinterstore", "sdiffstore"},
         p = "log" => Op(c) \notin {"look", "lindex"},
         p = "check" => Op(c) \in {"lpop", "rpop", "lrem", "srem"} /\ Len(run[c].refs) = 1,
         p = "checkonly" => Op(c) \in {"lrem", "srem"} /\ Len(run[c].refs) = 1
  PROVE  LET f == MovedTo(c, p) IN
         /\ f \in Frame /\ Fits(f) /\ Held(f) = Refs(c) /\ f # Idle
         /\ f.pc = p /\ f.cmd = run[c].cmd /\ f.refs = run[c].refs /\ f.i = run[c].i /\ f.acc = run[c].acc
  <1> DEFINE f == MovedTo(c, p) x == run[c].cmd
  <1>1. run[c] \in Frame /\ Fits(run[c]) /\ x \in CommandSet /\ x.op = Op(c)
    BY AtWork DEF OwnInv, Op
  <1>2. p \in Places /\ p # "idle"
    BY DEF Places
  <1>3. /\ f.pc = p /\ f.cmd = x /\ f.refs = run[c].refs /\ f.i = run[c].i /\ f.acc = run[c].acc
        /\ f \in Frame
    BY <1>1, <1>2 DEF Frame, MovedTo
  <1> HIDE DEF f
  <1>4. x.op \in Stores => f.acc = None \/ f.acc \in SUBSET Val
    BY <1>1, <1>3 DEF Fits
  <1>5. Fits(f)
    BY <1>1, <1>2, <1>3, <1>4 DEF Fits
  <1>6. Held(f) = Refs(c) /\ f # Idle
    BY <1>2, <1>3 DEF Held, Refs, Idle
  <1>7. QED
    BY <1>3, <1>5, <1>6 DEF f

(* What is in memory, seen from the objects.                               *)
LEMMA InHand ==
  ASSUME ObjectsInv, NEW k \in Key, data[k] # None
  PROVE  /\ data[k] \in Ref /\ Memory[k] = heap[data[k]] /\ heap[data[k]] \in Contents
         /\ Proper(heap[data[k]]) /\ heap[data[k]].kind \in {"list", "set"}
  <1>1. InUse(data[k]) /\ data[k] \in Ref /\ Memory[k] = heap[data[k]]
    BY DEF InUse, Memory, InMemory, ObjectsInv, OwnInv, TypeOK
  <1>2. heap[data[k]] \in Contents /\ Proper(heap[data[k]]) /\ heap[data[k]].kind # "none"
    BY <1>1 DEF ObjectsInv, OwnInv, TypeOK, Alive
  <1>3. QED
    BY <1>1, <1>2 DEF Contents

(* An object not torn is found as it is.                                   *)
LEMMA FoundIs ==
  ASSUME NEW r, r \notin torn
  PROVE  Found(r) = {heap[r]}
  BY DEF Found

(* A command that looks whether it left its object empty.                  *)
LEMMA CheckKeeps ==
  ASSUME ObjectsInv, NEW c \in Client, Check(c)
  PROVE  ObjectsInv'
  <1> DEFINE x == run[c].cmd r == run[c].refs[1] a == x.keys[1]
  <1>0. OwnInv /\ TypeOK /\ FitsAll
    BY DEF ObjectsInv, OwnInv
  <1>1. /\ run[c].pc \in {"check", "checkonly"} /\ run[c].pc # "idle"
        /\ UNCHANGED <<data, saved, apart>> /\ Objects(heap, torn)
    BY DEF Check
  <1>2. PICK o \in Found(r) :
          IF Empty(o) THEN Goto(c, IF run[c].pc = "check" THEN "drop" ELSE "droponly")
          ELSE NextOr(c, IF run[c].pc = "check" THEN "log" ELSE "idle")
    BY DEF Check
  <1>3. run[c] \in Frame /\ Fits(run[c]) /\ x \in CommandSet /\ Shaped(x) /\ Keys(c) \subseteq Key
    BY <1>0, <1>1, AtWork
  <1>4. /\ run[c].pc = "check" => Op(c) \in {"lpop", "rpop", "lrem", "srem", "rpoplpush"}
        /\ run[c].pc = "checkonly" => Op(c) \in {"lrem", "srem"}
        /\ Len(run[c].refs) \in 1..2 /\ x.op = Op(c)
    <2>1. run[c].pc = "check" => Op(c) \in {"lpop", "rpop", "lrem", "srem", "rpoplpush"}
      BY <1>3 DEF Fits, Op
    <2>2. run[c].pc = "checkonly" => Op(c) \in {"lrem", "srem"}
      BY <1>3 DEF Fits, Op
    <2>3. Len(run[c].refs) = 1 \/ Len(run[c].refs) = 2
      BY <1>1, <1>3 DEF Fits
    <2>4. QED
      BY <2>1, <2>2, <2>3 DEF Op
  <1>5. a \in Keys(c) /\ a \in Key /\ Touched(x) = Keys(c)
    BY <1>3, TouchedIs DEF Keys
  <1>6. r \in Refs(c) /\ r \in Ref
    <2>1. 1 \in 1..Len(run[c].refs)
      BY <1>4
    <2>2. QED
      BY <2>1, <1>0, AtWork
  <1>7. ASSUME Keys(c) \cap apart = {}
        PROVE  /\ HasMade(run[c], Memory, saved) /\ data[a] = r /\ o = Memory[a] /\ data[a] # None
               /\ Proper(Memory[a]) /\ Memory[a].kind \in {"list", "set"} /\ Memory[a] \in Contents
    <2>1. Holds(run[c], data) /\ HasMade(run[c], Memory, saved) /\ r \notin torn
      BY <1>1, <1>6, <1>7, Followed
    <2>2. data[a] = r
      BY <1>1, <2>1 DEF Holds
    <2>3. o = heap[r]
      BY <2>1, FoundIs
    <2>4. data[a] # None
      BY <1>6, <2>2, ObjectsAssumption
    <2>5. QED
      BY <1>5, <2>1, <2>2, <2>3, <2>4, InHand
  <1>8. ASSUME NEW p \in {"drop", "droponly", "log"}, Be(c, MovedTo(c, p)),
               p = "drop" => run[c].pc = "check", p = "log" => run[c].pc = "check", p = "droponly" => run[c].pc = "checkonly",
               Keys(c) \cap apart = {} => HasMade(MovedTo(c, p), Memory, saved)
        PROVE  ObjectsInv'
    <2> DEFINE f == MovedTo(c, p)
    <2>1. /\ f \in Frame /\ Fits(f) /\ Held(f) = Refs(c) /\ f # Idle
          /\ f.pc = p /\ f.cmd = x
      BY SMTT(30), <1>0, <1>1, <1>4, <1>8, MoveFits
    <2> HIDE DEF f
    <2>2. HasRead(f, saved) /\ Holds(f, data)
      <3>1. Op(c) \notin Stores
        BY <1>1, <1>4 DEF Stores
      <3>2. QED
        BY <2>1, <1>4, <1>8, <3>1 DEF HasRead, Holds
    <2>3. Keys(c) \cap apart = {} => Agrees(f, data, Memory, saved)
      BY <1>8, <2>2 DEF Agrees, f
    <2>4. f.pc # "idle"
      BY <2>1, <1>8
    <2>5. Be(c, f)
      BY <1>8 DEF f
    <2>6. QED
      BY <1>1, <2>1, <2>3, <2>4, <2>5, QuietKeeps
  <1>9. CASE run[c].pc = "check" /\ Empty(o)
    <2>1. Be(c, MovedTo(c, "drop"))
      BY <1>2, <1>9 DEF Goto, MovedTo
    <2>2. ASSUME Keys(c) \cap apart = {} PROVE HasMade(MovedTo(c, "drop"), Memory, saved)
      <3>1. Apply(x, saved)[a] = Kept(Memory[a]) /\ \A k \in Touched(x) \ {a} : Apply(x, saved)[k] = Memory[k] /\ Sound(Memory[k])
        BY <1>7, <1>9, <2>2 DEF HasMade
      <3>2. Apply(x, saved)[a] = Absent
        BY <1>7, <1>9, <2>2, <3>1 DEF Kept
      <3>3. MovedTo(c, "drop").pc = "drop" /\ MovedTo(c, "drop").cmd = x
        BY <1>3 DEF MovedTo, Frame
      <3>4. QED
        BY <3>1, <3>2, <3>3 DEF HasMade
    <2>3. QED
      BY <1>8, <1>9, <2>1, <2>2
  <1>10. CASE run[c].pc = "check" /\ ~Empty(o)
    <2>1. Be(c, MovedTo(c, "log"))
      BY <1>2, <1>10 DEF NextOr, MovedTo
    <2>2. ASSUME Keys(c) \cap apart = {} PROVE HasMade(MovedTo(c, "log"), Memory, saved)
      <3>1. Apply(x, saved)[a] = Kept(Memory[a]) /\ \A k \in Touched(x) \ {a} : Apply(x, saved)[k] = Memory[k] /\ Sound(Memory[k])
        BY <1>7, <1>10, <2>2 DEF HasMade
      <3>2. Apply(x, saved)[a] = Memory[a]
        BY ONLY SMTT(30), <1>7, <1>10, <2>2, <3>1 DEF Kept
      <3>3. Sound(Memory[a])
        BY <1>7, <1>10, <2>2 DEF Sound, Proper, Empty
      <3>4. MovedTo(c, "log").pc = "log" /\ MovedTo(c, "log").cmd = x
        BY <1>3 DEF MovedTo, Frame
      <3>5. \A k \in Touched(x) : Apply(x, saved)[k] = Memory[k] /\ Sound(Memory[k])
        BY <3>1, <3>2, <3>3
      <3>6. QED
        BY <3>4, <3>5 DEF HasMade
    <2>3. QED
      BY <1>8, <1>10, <2>1, <2>2
  <1>11. CASE run[c].pc = "checkonly" /\ Empty(o)
    <2>1. Be(c, MovedTo(c, "droponly"))
      BY <1>2, <1>11 DEF Goto, MovedTo
    <2>2. ASSUME Keys(c) \cap apart = {} PROVE HasMade(MovedTo(c, "droponly"), Memory, saved)
      <3>1. \A k \in Touched(x) : Memory[k] = saved[k]
        BY <1>7, <1>11, <2>2 DEF HasMade
      <3>2. MovedTo(c, "droponly").pc = "droponly" /\ MovedTo(c, "droponly").cmd = x
        BY <1>3 DEF MovedTo, Frame
      <3>3. QED
        BY <3>1, <3>2 DEF HasMade
    <2>3. QED
      BY <1>8, <1>11, <2>1, <2>2
  <1>12. CASE run[c].pc = "checkonly" /\ ~Empty(o)
    <2>1. Be(c, Idle) /\ Held(Idle) = {}
      BY <1>2, <1>12, IdleFits DEF NextOr
    <2>2. ASSUME Keys(c) \cap apart = {} PROVE \A l \in Keys(c) : saved[l] = Memory[l]
      BY <1>5, <1>7, <1>12, <2>2 DEF HasMade
    <2>3. ~(Op(c) = "rename" /\ run[c].pc = "drop")
      BY <1>1
    <2>4. QED
      BY <1>1, <2>1, <2>2, <2>3, QuietKeeps
  <1>13. QED
    BY <1>1, <1>9, <1>10, <1>11, <1>12

-----------------------------------------------------------------------------
(* A step that removes the first key of its command and looks at no object.*)
LEMMA DropActs ==
  ASSUME OwnInv, NEW c \in Client, run[c].pc # "idle", NEW f, Be(c, f),
         Drop(At(c, 1)), NEW S \in SUBSET {At(c, 1)}, apart' = apart \cup S, S = {} \/ f = Idle,
         Objects(heap, torn), f = Idle \/ (f \in Frame /\ Fits(f) /\ f.cmd = run[c].cmd), Held(f) \subseteq Refs(c)
  PROVE  /\ Acts(c, f, At(c, 1), None, heap, torn, S)
         /\ Memory'[At(c, 1)] = Absent /\ data'[At(c, 1)] = None
         /\ \A l \in Key \ {At(c, 1)} : Memory'[l] = Memory[l] /\ data'[l] = data[l]
         /\ At(c, 1) \in Keys(c) /\ Keys(c) \subseteq Key
  <1> DEFINE k == At(c, 1)
  <1>0. TypeOK /\ FitsAll
    BY DEF OwnInv
  <1>1. k \in Keys(c) /\ Keys(c) \subseteq Key /\ k \in Key
    <2>1. run[c].cmd \in CommandSet
      BY <1>0, AtWork
    <2>2. QED
      BY <2>1, TouchedIs DEF Keys, At
  <1>2. run' = [run EXCEPT ![c] = f] /\ data' = [data EXCEPT ![k] = None] /\ S \in SUBSET Keys(c)
    BY <1>1 DEF Be, Drop
  <1> HIDE DEF k
  <1>3. Acts(c, f, k, None, heap, torn, S)
    <2>1. Op(c) = "rename" /\ run[c].pc = "drop" => k = At(c, 1) /\ None = None
      BY DEF k
    <2>2. \A r \in Held(f) : r \in Refs(c) \/ (r \in {data[l] : l \in Keys(c)} /\ Serves(f.cmd.op, heap[r]))
      OBVIOUS
    <2>3. QED
      BY <1>1, <1>2, <2>1, <2>2, QuietActs
  <1>4. data'[k] = None /\ \A l \in Key \ {k} : data'[l] = data[l]
    BY <1>0, <1>1, <1>2 DEF TypeOK
  <1>5. /\ \A l \in Key : Memory'[l] = IF data'[l] = None THEN Absent ELSE heap[data'[l]]
        /\ \A l \in Key : Memory[l] = IF data[l] = None THEN Absent ELSE heap[data[l]]
    BY <1>3, MemoryIs
  <1>6. QED
    BY <1>1, <1>3, <1>4, <1>5 DEF k

LEMMA RemoveKeeps ==
  ASSUME ObjectsInv, NEW c \in Client, Remove(c)
  PROVE  ObjectsInv'
  <1> DEFINE x == run[c].cmd a == At(c, 1) f == MovedTo(c, "log")
  <1>0. OwnInv /\ TypeOK /\ FitsAll
    BY DEF ObjectsInv, OwnInv
  <1>1. /\ run[c].pc = "drop" /\ run[c].pc # "idle" /\ Drop(a) /\ Be(c, f)
        /\ UNCHANGED <<saved, apart>> /\ Objects(heap, torn)
    BY DEF Remove, Goto, MovedTo
  <1>2. run[c] \in Frame /\ Fits(run[c]) /\ x \in CommandSet
    BY <1>0, <1>1, AtWork
  <1>3. Op(c) \in {"lpop", "rpop", "lrem", "srem", "rpoplpush", "del", "rename"}
    BY <1>1, <1>2 DEF Fits, Op
  <1>4. /\ f \in Frame /\ Fits(f) /\ Held(f) = Refs(c) /\ f # Idle /\ f.pc = "log" /\ f.cmd = x
    BY <1>0, <1>1, <1>3, MoveFits
  <1> HIDE DEF f
  <1>5. /\ Acts(c, f, a, None, heap, torn, {})
        /\ Memory'[a] = Absent /\ data'[a] = None
        /\ \A l \in Key \ {a} : Memory'[l] = Memory[l] /\ data'[l] = data[l]
        /\ a \in Keys(c) /\ Keys(c) \subseteq Key
    <2>1. apart' = apart \cup {} /\ {} \in SUBSET {a}
      BY <1>1
    <2>2. QED
      BY <1>0, <1>1, <1>4, <2>1, DropActs
  <1>6. ASSUME Keys(c) \cap apart = {}
        PROVE  Agrees(f, data', Memory', saved') /\ \A l \in Keys(c) : Sound(saved'[l])
    <2>1. HasMade(run[c], Memory, saved) /\ \A l \in Keys(c) : Sound(saved[l])
      BY <1>1, <1>6, Followed
    <2>2. /\ Apply(x, saved)[a] = Absent
          /\ \A k \in Touched(x) \ {a} : Apply(x, saved)[k] = Memory[k] /\ Sound(Memory[k])
      BY <1>1, <2>1 DEF HasMade, At
    <2>3. Sound(Absent)
      BY DEF Sound, Proper, Absent, Object
    <2>4. saved' = saved
      BY <1>1
    <2>5. \A k \in Touched(x) : Apply(x, saved)[k] = Memory'[k] /\ Sound(Memory'[k])
      BY <1>5, <2>2, <2>3 DEF Keys
    <2>6. HasMade(f, Memory', saved)
      BY <1>4, <2>5 DEF HasMade
    <2>7. HasRead(f, saved) /\ Holds(f, data')
      BY <1>4 DEF HasRead, Holds
    <2>8. QED
      BY <2>1, <2>4, <2>6, <2>7 DEF Agrees
  <1>7. Progress(c, f)
    BY <1>1, <1>4, <1>6 DEF Progress
  <1>8. saved' \in [Key -> Contents]
    BY <1>0, <1>1 DEF TypeOK
  <1>9. QED
    BY <1>1, <1>5, <1>7, <1>8, StepKeeps

LEMMA RemoveOnlyKeeps ==
  ASSUME ObjectsInv, NEW c \in Client, RemoveOnly(c)
  PROVE  ObjectsInv'
  <1> DEFINE a == At(c, 1) S == IF data[a] = None THEN {} ELSE {a}
  <1>0. OwnInv /\ TypeOK /\ FitsAll
    BY DEF ObjectsInv, OwnInv
  <1>1. /\ run[c].pc = "droponly" /\ run[c].pc # "idle" /\ Drop(a) /\ Be(c, Idle) /\ Objects(heap, torn)
        /\ apart' = apart \cup S /\ saved' = [k \in Key |-> IF k \in S THEN Absent ELSE saved[k]]
    BY DEF RemoveOnly, Reply, Part
  <1>2. /\ Acts(c, Idle, a, None, heap, torn, S)
        /\ Memory'[a] = Absent /\ data'[a] = None
        /\ \A l \in Key \ {a} : Memory'[l] = Memory[l] /\ data'[l] = data[l]
        /\ a \in Keys(c) /\ Keys(c) \subseteq Key
    <2>1. S \in SUBSET {a} /\ Held(Idle) \subseteq Refs(c)
      BY IdleFits
    <2> HIDE DEF S
    <2>2. QED
      BY <1>0, <1>1, <2>1, DropActs
  <1>3. \A l \in Key \ apart' : saved'[l] = saved[l]
    BY <1>1
  <1>4. ASSUME Keys(c) \cap apart = {}, NEW l \in Keys(c) \ apart' PROVE Sound(saved'[l]) /\ saved'[l] = Memory'[l]
    <2>1. HasMade(run[c], Memory, saved) /\ Sound(saved[l])
      BY <1>1, <1>4, Followed
    <2>2. Memory[l] = saved[l]
      BY <1>1, <2>1, <1>4 DEF HasMade, Keys
    <2>3. l = a => Memory[a] = Absent
      <3>1. l = a => data[a] = None
        BY <1>1, <1>4
      <3>2. QED
        BY <3>1, <1>2 DEF Memory, InMemory
    <2>4. QED
      BY <2>1, <2>2, <2>3, <1>2, <1>3, <1>4
  <1>5. Progress(c, Idle)
    BY <1>1, <1>3, <1>4 DEF Progress, Idle
  <1>6. saved' \in [Key -> Contents]
    <2>1. Absent \in Contents
      BY DEF Absent, Object, Contents
    <2>2. QED
      BY <1>0, <1>1, <2>1 DEF TypeOK
  <1> HIDE DEF S
  <1>7. QED
    BY <1>1, <1>2, <1>5, <1>6, StepKeeps
-----------------------------------------------------------------------------
(* What is in memory is a list or a set, or nothing.                       *)
LEMMA MemoryType ==
  ASSUME TypeOK
  PROVE  Memory \in [Key -> Contents] /\ Absent \in Contents /\ saved = [l \in Key |-> saved[l]]
  <1>1. Absent \in Contents
    BY DEF Absent, Object, Contents
  <1>2. \A l \in Key : InMemory(l) \in Contents
    BY <1>1 DEF TypeOK, InMemory
  <1>3. saved = [l \in Key |-> saved[l]]
    BY DEF TypeOK
  <1>4. QED
    BY <1>1, <1>2, <1>3 DEF Memory

(* A command logs itself, and replies.                                     *)
LEMMA AddAofKeeps ==
  ASSUME ObjectsInv, NEW c \in Client, AddAof(c)
  PROVE  ObjectsInv'
  <1> DEFINE x == run[c].cmd k == At(c, 1) v == data[k]
  <1>0. OwnInv /\ TypeOK /\ FitsAll
    BY DEF ObjectsInv, OwnInv
  <1>1. /\ run[c].pc = "log" /\ run[c].pc # "idle" /\ Be(c, Idle) /\ UNCHANGED <<data, apart>> /\ Objects(heap, torn)
        /\ saved' = IF Keys(c) \cap apart = {} THEN Apply(x, saved) ELSE saved
    BY DEF AddAof, Reply, Keys
  <1>2. x \in CommandSet /\ k \in Keys(c) /\ Keys(c) \subseteq Key /\ k \in Key
    <2>1. x \in CommandSet
      BY <1>0, <1>1, AtWork
    <2>2. QED
      BY <2>1, TouchedIs DEF Keys, At
  <1> HIDE DEF x, k, v
  <1>3. Acts(c, Idle, k, v, heap, torn, {})
    <2>1. data' = [data EXCEPT ![k] = v]
      BY <1>0, <1>1, <1>2 DEF TypeOK, v
    <2>2. apart' = apart \cup {} /\ Held(Idle) = {}
      BY <1>1, IdleFits
    <2>3. v = data[k]
      BY DEF v
    <2>4. ~(Op(c) = "rename" /\ run[c].pc = "drop")
      BY <1>1
    <2>5. QED
      BY <1>0, <1>1, <1>2, <2>1, <2>2, <2>3, <2>4, QuietActs DEF Be
  <1>4. \A l \in Key : Memory'[l] = Memory[l]
    <2>1. /\ \A l \in Key : Memory'[l] = IF data'[l] = None THEN Absent ELSE heap[data'[l]]
          /\ \A l \in Key : Memory[l] = IF data[l] = None THEN Absent ELSE heap[data[l]]
      BY <1>0, <1>3, MemoryIs
    <2>2. QED
      BY <2>1, <1>1
  <1>5. Memory \in [Key -> Contents] /\ saved = [l \in Key |-> saved[l]]
    BY <1>0, MemoryType
  <1>6. ASSUME Keys(c) \cap apart = {}
        PROVE  /\ \A l \in Keys(c) : saved'[l] = Memory[l] /\ Sound(saved'[l])
               /\ \A l \in Key \ Keys(c) : saved'[l] = saved[l]
               /\ saved' = [l \in Key |-> saved'[l]]
    <2>1. HasMade(run[c], Memory, saved)
      BY <1>1, <1>6, Followed
    <2>2. \A l \in Keys(c) : Apply(x, saved)[l] = Memory[l] /\ Sound(Memory[l])
      BY <1>1, <2>1 DEF HasMade, Keys, x
    <2>3. Apply(x, saved) = [l \in Key |-> Apply(x, saved)[l]] /\ \A l \in Key \ Keys(c) : Apply(x, saved)[l] = saved[l]
      BY <1>2, <1>5, ApplyIs DEF Keys, x
    <2>4. saved' = Apply(x, saved)
      BY <1>1, <1>6
    <2>5. QED
      BY <2>2, <2>3, <2>4
  <1>7. saved' \in [Key -> Contents]
    <2>1. CASE Keys(c) \cap apart = {}
      <3>1. \A l \in Key : saved'[l] \in Contents
        BY <1>0, <1>5, <1>6, <2>1 DEF TypeOK
      <3>2. QED
        BY <3>1, <1>6, <2>1
    <2>2. CASE Keys(c) \cap apart # {}
      BY <1>0, <1>1, <2>2 DEF TypeOK
    <2>3. QED
      BY <2>1, <2>2
  <1>8. Progress(c, Idle)
    <2>1. \A l \in Key \ Keys(c) : saved'[l] = saved[l]
      BY <1>1, <1>6
    <2>2. ASSUME Keys(c) \cap apart = {}
          PROVE  \A l \in Keys(c) : Sound(saved'[l]) /\ saved'[l] = Memory'[l]
      BY <2>2, <1>2, <1>4, <1>6
    <2>3. Idle.pc = "idle"
      BY DEF Idle
    <2>4. QED
      BY <2>1, <2>2, <2>3 DEF Progress
  <1>9. QED
    BY <1>1, <1>3, <1>7, <1>8, StepKeeps

(* RENAME gives its object to the new name.                                *)
LEMMA RenamePutKeeps ==
  ASSUME ObjectsInv, NEW c \in Client, RenamePut(c)
  PROVE  ObjectsInv'
  <1> DEFINE x == run[c].cmd a == At(c, 1) k == At(c, 2) v == run[c].refs[1]
             f == [run[c] EXCEPT !.pc = "drop", !.refs = <<>>]
  <1>0. OwnInv /\ TypeOK /\ FitsAll /\ Alive
    BY DEF ObjectsInv, OwnInv
  <1>1. /\ run[c].pc = "dest" /\ run[c].pc # "idle" /\ data' = [data EXCEPT ![k] = v] /\ run' = [run EXCEPT ![c] = f]
        /\ UNCHANGED <<saved, apart>> /\ Objects(heap, torn)
    BY DEF RenamePut, Be
  <1>2. run[c] \in Frame /\ Fits(run[c]) /\ x \in CommandSet /\ Shaped(x) /\ Op(c) = "rename" /\ x.op = "rename" /\ Len(run[c].refs) = 1
    <2>1. run[c] \in Frame /\ Fits(run[c]) /\ x \in CommandSet /\ Shaped(x)
      BY <1>0, <1>1, AtWork
    <2>2. QED
      BY <2>1, <1>1 DEF Fits, Op
  <1>3. Len(x.keys) = 2 /\ Keys(c) = {a, k} /\ Keys(c) \subseteq Key
    <2>1. Len(x.keys) = 2
      BY <1>2 DEF Shaped
    <2>2. QED
      BY <2>1, <1>2, TouchedIs DEF Keys, At
  <1>4. v \in Refs(c) /\ v \in Ref /\ v # None
    <2>1. 1 \in 1..Len(run[c].refs)
      BY <1>2
    <2>2. v \in Refs(c) /\ v \in Ref
      BY <2>1, <1>0, AtWork
    <2>3. QED
      BY <2>2, ObjectsAssumption
  <1>5. f.pc = "drop" /\ f.cmd = x /\ f.refs = <<>> /\ f.i = run[c].i /\ f.acc = run[c].acc
    BY <1>2 DEF Frame
  <1>6. f \in Frame
    <2>1. <<>> \in Seq(Ref) /\ "drop" \in Places
      BY DEF Places
    <2>2. QED
      BY <2>1, <1>2 DEF Frame
  <1> HIDE DEF x, a, k, v, f
  <1>7. Fits(f) /\ Held(f) = {}
    <2>1. x.op \notin Stores
      BY <1>2 DEF Stores
    <2>2. Fits(f)
      BY <1>2, <1>5, <2>1 DEF Fits
    <2>3. QED
      BY <2>2, <1>5 DEF Held
  <1>8. Acts(c, f, k, v, heap, torn, {})
    <2>1. heap \in [Ref -> Contents] /\ \A r \in Ref : Proper(heap[r])
      BY <1>0 DEF TypeOK, Alive
    <2>2. \A r \in Unused : r # v
      BY <1>4, InUseIs DEF Unused
    <2>3. apart' = apart \cup {}
      BY <1>1
    <2>4. k \in Keys(c) /\ k \in Key /\ k = At(c, 2) /\ f.cmd = run[c].cmd
      BY <1>3, <1>5 DEF k, x
    <2>5. QED
      BY <1>1, <1>2, <1>4, <1>5, <1>6, <1>7, <2>1, <2>2, <2>3, <2>4 DEF Acts
  <1>9. ASSUME Keys(c) \cap apart = {} PROVE Agrees(f, data', Memory', saved) /\ \A l \in Keys(c) : Sound(saved[l])
    <2>1. HasMade(run[c], Memory, saved) /\ Holds(run[c], data) /\ \A l \in Keys(c) : Sound(saved[l])
      BY <1>1, <1>9, Followed
    <2>2. Memory[a] = saved[a] /\ v = data[a]
      <3>1. x.keys[1] = a /\ run[c].cmd = x /\ run[c].refs[1] = v /\ Touched(x) = Keys(c)
        BY DEF a, At, x, Keys, v
      <3>2. QED
        BY <3>1, <2>1, <1>1, <1>3 DEF HasMade, Holds
    <2>3. Memory'[k] = heap[v]
      <3>1. data'[k] = v
        BY <1>0, <1>1, <1>3 DEF TypeOK
      <3>2. QED
        BY <3>1, <1>0, <1>3, <1>4, <1>8, MemoryIs
    <2>4. Memory[a] = heap[v]
      BY <2>2, <1>3, <1>4 DEF Memory, InMemory
    <2>5. Apply(x, saved) = [saved EXCEPT ![k] = saved[a], ![a] = Absent]
      <3>1. x.keys[1] = a /\ x.keys[2] = k
        BY DEF a, k, At, x
      <3>2. QED
        BY <3>1, <1>2 DEF Apply, Stores
    <2>6. HasMade(f, Memory', saved)
      <3>1. saved = [l \in Key |-> saved[l]]
        BY <1>0, MemoryType
      <3>2. Apply(x, saved)[a] = Absent /\ (k # a => Apply(x, saved)[k] = saved[a])
        BY <3>1, <2>5, <1>3
      <3>3. Sound(saved[a]) /\ saved[a] = Memory'[k]
        BY <2>1, <2>2, <2>3, <2>4, <1>3
      <3>4. x.keys[1] = a /\ Touched(x) \ {a} \subseteq {k} \ {a}
        BY <1>3 DEF a, At, x, Keys
      <3>5. QED
        BY <3>2, <3>3, <3>4, <1>5 DEF HasMade
    <2>7. HasRead(f, saved) /\ Holds(f, data')
      <3>1. x.op \notin Stores
        BY <1>2 DEF Stores
      <3>2. QED
        BY <3>1, <1>2, <1>5 DEF HasRead, Holds
    <2>8. QED
      BY <2>1, <2>6, <2>7 DEF Agrees
  <1>10. Progress(c, f)
    BY <1>1, <1>5, <1>9 DEF Progress
  <1>11. saved' \in [Key -> Contents]
    BY <1>0, <1>1 DEF TypeOK
  <1>12. QED
    BY <1>1, <1>8, <1>10, <1>11, StepKeeps
-----------------------------------------------------------------------------
(* What a command finds in an object is of the object's kind.              *)
LEMMA FoundType ==
  ASSUME OwnInv, NEW r \in Ref, heap[r].kind # "none", NEW o \in Found(r)
  PROVE  o \in Contents /\ o.kind = heap[r].kind /\ Proper(o)
  <1>1. heap[r] \in Contents /\ Proper(heap[r])
    BY DEF OwnInv, TypeOK, Alive
  <1>2. heap[r].kind \in {"list", "set"}
    BY <1>1 DEF Contents
  <1>3. CASE r \in torn
    <2>1. o \in Possible(heap[r].kind)
      BY <1>3 DEF Found
    <2>2. CASE heap[r].kind = "set"
      <3>1. PICK m \in SUBSET Val : o = MkSet(m)
        BY <2>1, <2>2 DEF Possible
      <3>2. QED
        BY <3>1, <2>2 DEF MkSet, Object, Contents, Proper
    <2>3. CASE heap[r].kind = "list"
      <3>1. PICK s \in {<<>>} \cup {<<v>> : v \in Val} : o = List(s)
        BY <2>1, <2>3 DEF Possible
      <3>2. <<>> \in Seq(Elem) /\ \A v \in Val : <<v>> \in Seq(Elem)
        BY DEF Elem
      <3>3. QED
        BY <3>1, <3>2, <2>3 DEF List, Object, Contents, Proper
    <2>4. QED
      BY <1>2, <2>2, <2>3
  <1>4. CASE r \notin torn
    BY <1>1, <1>4 DEF Found
  <1>5. QED
    BY <1>3, <1>4

(* The object that a command is inside of.                                 *)
LEMMA InsideFacts ==
  ASSUME ObjectsInv, NEW c \in Client, run[c].pc \in {"inside", "into"}
  PROVE  LET x == run[c].cmd r == run[c].refs[1] IN
         /\ run[c] \in Frame /\ Fits(run[c]) /\ x \in CommandSet /\ Shaped(x) /\ x.op = Op(c)
         /\ At(c, 1) \in Keys(c) /\ Keys(c) \subseteq Key /\ At(c, 1) = x.keys[1] /\ Keys(c) = Touched(x)
         /\ \A n \in 1..Len(run[c].refs) : LET q == run[c].refs[n] IN
              q \in Refs(c) /\ q \in Ref /\ q # None /\ heap[q].kind \in {"list", "set"} /\ Serves(x.op, heap[q])
         /\ r \in Refs(c) /\ r \in Ref /\ r # None /\ heap[r].kind \in {"list", "set"} /\ Serves(x.op, heap[r])
         /\ Len(run[c].refs) = IF x.op = "rpoplpush" THEN 2 ELSE 1
  <1> DEFINE x == run[c].cmd r == run[c].refs[1]
  <1>0. OwnInv /\ TypeOK /\ FitsAll /\ Alive
    BY DEF ObjectsInv, OwnInv
  <1>1. run[c] \in Frame /\ Fits(run[c]) /\ x \in CommandSet /\ Shaped(x) /\ x.op = Op(c) /\ Keys(c) \subseteq Key
    BY <1>0, AtWork DEF Op
  <1>2. At(c, 1) \in Keys(c) /\ At(c, 1) = x.keys[1] /\ Keys(c) = Touched(x)
    BY <1>1, TouchedIs DEF At, Keys
  <1>3. Len(run[c].refs) = IF x.op = "rpoplpush" THEN 2 ELSE 1
    BY <1>1 DEF Fits
  <1>4. ASSUME NEW n \in 1..Len(run[c].refs), NEW q, q = run[c].refs[n]
        PROVE  q \in Refs(c) /\ q \in Ref /\ q # None /\ heap[q].kind \in {"list", "set"} /\ Serves(x.op, heap[q])
    <2>1. q \in Refs(c) /\ q \in Ref
      BY <1>0, <1>4, AtWork
    <2>2. InUse(q)
      BY <2>1, InUseIs
    <2>3. heap[q].kind # "none" /\ heap[q] \in Contents
      BY <1>0, <2>1, <2>2 DEF Alive, TypeOK
    <2>4. QED
      BY <1>0, <1>1, <2>1, <2>3, ObjectsAssumption DEF Contents, Alive
  <1>5. 1 \in 1..Len(run[c].refs)
    BY <1>3
  <1>6. QED
    BY <1>1, <1>2, <1>3, <1>4, <1>5

(* A store reads a source.                                                 *)
LEMMA CopyKeeps ==
  ASSUME ObjectsInv, NEW c \in Client, Copy(c)
  PROVE  ObjectsInv'
  <1> DEFINE x == run[c].cmd i == run[c].i r == run[c].refs[1] k == At(c, run[c].i) acc == run[c].acc
  <1>0. OwnInv /\ TypeOK /\ FitsAll /\ Alive
    BY DEF ObjectsInv, OwnInv
  <1>1. /\ run[c].pc = "inside" /\ run[c].pc # "idle" /\ Op(c) \in Stores
        /\ UNCHANGED <<data, saved, apart>> /\ Objects(heap, torn)
    BY DEF Copy
  <1>2. PICK o \in Found(r) :
          LET a == Combined(Op(c), acc, o.mem) IN
          IF a = {} /\ acc # None /\ Op(c) # "sunionstore"
          THEN Be(c, [run[c] EXCEPT !.pc = "droponly", !.refs = <<>>, !.acc = None])
          ELSE Onward(c, a)
    BY DEF Copy
  <1> DEFINE a == Combined(Op(c), acc, o.mem)
  <1>3. /\ run[c] \in Frame /\ Fits(run[c]) /\ x \in CommandSet /\ Shaped(x) /\ x.op = Op(c)
        /\ Keys(c) \subseteq Key /\ Keys(c) = Touched(x)
        /\ r \in Refs(c) /\ r \in Ref /\ r # None /\ heap[r].kind \in {"list", "set"} /\ Serves(x.op, heap[r])
    BY <1>1, InsideFacts
  <1>4. Len(x.keys) \in 2..3 /\ i \in 2..Len(x.keys) /\ (acc = None \/ acc \in SUBSET Val)
        /\ (x.op \in {"sinterstore", "sdiffstore"} /\ i = 3 => acc # None)
    BY <1>1, <1>3 DEF Shaped, Fits
  <1>5. \/ i = 2 /\ Len(x.keys) = 2 /\ LastKey(c)
        \/ i = 2 /\ Len(x.keys) = 3 /\ ~LastKey(c)
        \/ i = 3 /\ Len(x.keys) = 3 /\ LastKey(c)
    <2>1. \A m \in 2..3 : \A n \in 2..m : (n = 2 /\ m = 2) \/ (n = 2 /\ m = 3) \/ (n = 3 /\ m = 3)
      OBVIOUS
    <2>2. LastKey(c) <=> i = Len(x.keys)
      BY DEF LastKey
    <2>3. QED
      BY <1>4, <2>1, <2>2
  <1>6. k \in Keys(c) /\ k = x.keys[i]
    <2>1. i \in 1..Len(x.keys)
      <3> DEFINE l == Len(x.keys)
      <3>1. l \in 2..3 /\ i \in 2..l
        BY <1>4
      <3> HIDE DEF l
      <3>2. i \in 1..l
        BY ONLY <3>1
      <3>3. QED
        BY ONLY <3>2 DEF l
    <2>2. QED
      BY <2>1, <1>3, TouchedIs DEF At
  <1>7. o.mem \in SUBSET Val
    <2>1. o \in Contents
      BY <1>0, <1>3, FoundType
    <2>2. QED
      BY <2>1 DEF Contents
  <1> HIDE DEF x, i, r, k, acc
  <1>8. a \in SUBSET Val /\ a # None
    <2>1. a \in SUBSET Val
      <3>1. Op(c) = "sinterstore" \/ Op(c) = "sunionstore" \/ Op(c) = "sdiffstore"
        BY <1>1 DEF Stores
      <3>2. QED
        BY <3>1, <1>4, <1>7 DEF Combined
    <2> HIDE DEF a
    <2>2. a \in SUBSET (Val \cup {None})
      BY <2>1
    <2>3. QED
      BY <2>1, <2>2, ObjectsAssumption
  <1>9. ASSUME Keys(c) \cap apart = {}
        PROVE  /\ \A l \in Keys(c) : Memory[l] = saved[l]
               /\ HasRead(run[c], saved) /\ o = saved[k] /\ saved[k] # Absent
    <2>1. /\ HasMade(run[c], Memory, saved) /\ HasRead(run[c], saved) /\ Holds(run[c], data) /\ r \notin torn
      BY <1>1, <1>3, <1>9, Followed
    <2>2. \A l \in Keys(c) : Memory[l] = saved[l]
      <3>1. Op(c) \notin {"lpush", "rpush", "sadd", "rpoplpush"}
        BY <1>1 DEF Stores
      <3>2. QED
        BY <2>1, <3>1, <1>1, <1>3 DEF HasMade, x
    <2>3. r = data[k]
      BY <2>1, <1>1, <1>3, <1>6 DEF Holds, x, r, i
    <2>4. o = heap[r]
      BY <2>1, FoundIs
    <2>5. Memory[k] = heap[r]
      BY <2>3, <1>3, <1>6 DEF Memory, InMemory
    <2>6. heap[r] # Absent
      BY <1>3 DEF Absent, Object
    <2>7. QED
      BY <2>1, <2>2, <2>4, <2>5, <2>6, <1>6
  <1>10. CASE a = {} /\ acc # None /\ Op(c) # "sunionstore"
    <2> DEFINE f == [run[c] EXCEPT !.pc = "droponly", !.refs = <<>>, !.acc = None]
    <2>1. Be(c, f)
      BY <1>2, <1>10 DEF acc
    <2>2. f.pc = "droponly" /\ f.cmd = x /\ f.refs = <<>> /\ f.acc = None
      BY <1>3 DEF Frame, x
    <2>3. f \in Frame
      <3>1. <<>> \in Seq(Ref) /\ "droponly" \in Places
        BY DEF Places
      <3>2. QED
        BY <3>1, <1>3 DEF Frame
    <2> HIDE DEF f
    <2>4. Held(f) = {}
      BY <2>2 DEF Held
    <2>5. Fits(f)
      <3>1. x.op \in {"sinterstore", "sdiffstore"}
        BY <1>1, <1>3, <1>10 DEF Stores
      <3>2. QED
        BY <3>1, <2>2, <1>3 DEF Fits
    <2>6. ASSUME Keys(c) \cap apart = {} PROVE Agrees(f, data, Memory, saved)
      <3>1. HasMade(f, Memory, saved)
        BY <1>3, <1>9, <2>2, <2>6 DEF HasMade
      <3>2. HasRead(f, saved) /\ Holds(f, data)
        BY <2>2, <1>1, <1>3 DEF HasRead, Holds, Stores
      <3>3. QED
        BY <3>1, <3>2 DEF Agrees
    <2>7. f.pc # "idle" /\ f # Idle /\ ~(Op(c) = "rename" /\ run[c].pc = "drop")
      BY <2>2, <1>1 DEF Idle
    <2>8. QED
      BY <1>1, <2>1, <2>2, <2>3, <2>4, <2>5, <2>6, <2>7, QuietKeeps DEF x
  <1>11. CASE ~(a = {} /\ acc # None /\ Op(c) # "sunionstore")
    <2> DEFINE f == OnwardTo(c, a)
    <2>1. Be(c, f)
      BY <1>2, <1>11 DEF acc, Onward, OnwardTo
    <2>2. ASSUME Keys(c) \cap apart = {}
          PROVE  IF LastKey(c)
                 THEN a # None => a = Result(Op(c), Sources(x, saved))
                 ELSE a = IF Op(c) = "sunionstore" /\ saved[At(c, 2)] = Absent THEN None ELSE saved[At(c, 2)].mem
      <3>1. /\ Len(x.keys) = 2 => Result(x.op, Sources(x, saved)) = saved[x.keys[2]].mem
            /\ Len(x.keys) = 3 => Result(x.op, Sources(x, saved)) =
              CASE x.op = "sinterstore" -> saved[x.keys[2]].mem \cap saved[x.keys[3]].mem
                [] x.op = "sunionstore" -> saved[x.keys[2]].mem \cup saved[x.keys[3]].mem
                [] x.op = "sdiffstore"  -> saved[x.keys[2]].mem \ saved[x.keys[3]].mem
        BY <1>0, <1>1, <1>3, ResultIs DEF TypeOK
      <3>2. CASE i = 2
        <4>1. acc = None
          BY <1>1, <1>3, <1>9, <2>2, <3>2 DEF HasRead, x, i, acc
        <4>2. a = saved[x.keys[2]].mem /\ saved[x.keys[2]] # Absent
          BY <4>1, <1>6, <1>9, <2>2, <3>2 DEF Combined
        <4>3. At(c, 2) = x.keys[2]
          BY DEF At, x
        <4>4. QED
          BY <4>2, <4>3, <3>1, <3>2, <1>3, <1>5
      <3>3. CASE i = 3
        <4> DEFINE b == saved[x.keys[2]].mem d == saved[x.keys[3]].mem
        <4>1. acc = IF x.op = "sunionstore" /\ saved[x.keys[2]] = Absent THEN None ELSE b
          BY <1>1, <1>3, <1>9, <2>2, <3>3 DEF HasRead, x, i, acc
        <4>2. o.mem = d /\ LastKey(c) /\ Len(x.keys) = 3
          BY <1>5, <1>6, <1>9, <2>2, <3>3
        <4>3. CASE acc = None
          <5>0. b # None
            <6>1. x.keys[2] \in Key
              <7>1. 2 \in 1..Len(x.keys)
                BY <4>2
              <7>2. QED
                BY <7>1, <1>3, TouchedIs
            <6>2. b \in SUBSET (Val \cup {None})
              BY <6>1, <1>0 DEF TypeOK, Contents
            <6>3. QED
              BY <6>2, ObjectsAssumption
          <5>1. x.op = "sunionstore" /\ saved[x.keys[2]] = Absent
            BY <4>1, <4>3, <5>0
          <5>2. b = {}
            BY <5>1 DEF Absent, Object
          <5>3. a = d
            BY <4>2, <4>3 DEF Combined
          <5> HIDE DEF a
          <5>4. Result(x.op, Sources(x, saved)) = b \cup d
            BY <5>1, <3>1, <4>2
          <5>5. QED
            BY <5>2, <5>3, <5>4, <4>2, <1>3
        <4>4. CASE acc # None
          <5>1. acc = b
            BY <4>1, <4>4
          <5>2. x.op = "sinterstore" \/ x.op = "sunionstore" \/ x.op = "sdiffstore"
            BY <1>1, <1>3 DEF Stores
          <5>3. a = Result(x.op, Sources(x, saved))
            <6>1. CASE x.op = "sinterstore"
              BY <6>1, <5>1, <4>2, <4>4, <3>1, <1>3 DEF Combined
            <6>2. CASE x.op = "sunionstore"
              BY <6>2, <5>1, <4>2, <4>4, <3>1, <1>3 DEF Combined
            <6>3. CASE x.op = "sdiffstore"
              BY <6>3, <5>1, <4>2, <4>4, <3>1, <1>3 DEF Combined
            <6>4. QED
              BY <5>2, <6>1, <6>2, <6>3
          <5>4. QED
            BY <5>3, <4>2, <1>3
        <4>5. QED
          BY <4>3, <4>4
      <3>4. QED
        BY <1>5, <3>2, <3>3
    <2> HIDE DEF a
    <2>3. /\ f \in Frame /\ Fits(f) /\ f.cmd = x /\ f.pc # "idle" /\ Held(f) = {}
          /\ Keys(c) \cap apart = {} => Agrees(f, data, Memory, saved)
      <3>1. a \in {None} \cup SUBSET Val /\ run[c].pc \in {"get", "inside"}
        BY <1>1, <1>8
      <3>2. QED
        BY <3>1, <1>1, <1>8, <2>2, OnwardFits DEF x
    <2> HIDE DEF f
    <2>4. f # Idle /\ ~(Op(c) = "rename" /\ run[c].pc = "drop")
      BY <2>3, <1>1 DEF Idle
    <2>5. QED
      BY <1>1, <2>1, <2>3, <2>4, QuietKeeps DEF x
  <1>12. QED
    BY <1>10, <1>11
-----------------------------------------------------------------------------
(* SUNIONSTORE removes its destination.                                    *)
LEMMA ClearKeeps ==
  ASSUME ObjectsInv, NEW c \in Client, Clear(c)
  PROVE  ObjectsInv'
  <1> DEFINE x == run[c].cmd a == At(c, 1) nothing == run[c].acc = None
             S == IF nothing /\ data[a] # None THEN {a} ELSE {}
             f == IF nothing THEN Idle ELSE MovedTo(c, "put")
  <1>0. OwnInv /\ TypeOK /\ FitsAll
    BY DEF ObjectsInv, OwnInv
  <1>1. /\ run[c].pc = "clear" /\ run[c].pc # "idle" /\ Drop(a) /\ Be(c, f) /\ Objects(heap, torn)
        /\ apart' = apart \cup S /\ saved' = [l \in Key |-> IF l \in S THEN Absent ELSE saved[l]]
    BY DEF Clear, NextOr, Part, MovedTo
  <1>2. run[c] \in Frame /\ Fits(run[c]) /\ x \in CommandSet /\ x.op = "sunionstore" /\ Touched(x) = Keys(c)
    <2>1. run[c] \in Frame /\ Fits(run[c]) /\ x \in CommandSet
      BY <1>0, <1>1, AtWork
    <2>2. QED
      BY <2>1, <1>1 DEF Fits, Keys
  <1>3. MovedTo(c, "put").pc = "put" /\ MovedTo(c, "put").cmd = x /\ MovedTo(c, "put").refs = run[c].refs
        /\ MovedTo(c, "put").acc = run[c].acc /\ MovedTo(c, "put") \in Frame
    BY <1>2 DEF Frame, MovedTo, Places
  <1>4. nothing => f = Idle /\ Held(f) = {}
    BY IdleFits
  <1>5. ~nothing => f.pc = "put" /\ f.cmd = x /\ f.acc = run[c].acc /\ f \in Frame /\ Held(f) = Refs(c) /\ f.refs = run[c].refs
    BY <1>3 DEF Held, Refs
  <1>6. S \in SUBSET {a} /\ (S = {} \/ f = Idle)
    BY <1>4
  <1> HIDE DEF S, f, x, a
  <1>7. ~nothing => Fits(f)
    <2>1. x.op \in Stores /\ x.op # "rpoplpush"
      BY <1>2 DEF Stores
    <2>2. nothing <=> run[c].acc = None
      OBVIOUS
    <2>3. run[c].acc = None \/ run[c].acc \in SUBSET Val
      BY <1>2, <2>1 DEF Fits, x
    <2> HIDE DEF nothing
    <2>4. QED
      BY <1>2, <1>5, <2>1, <2>2, <2>3 DEF Fits
  <1>8. /\ Acts(c, f, a, None, heap, torn, S)
        /\ Memory'[a] = Absent /\ data'[a] = None
        /\ \A l \in Key \ {a} : Memory'[l] = Memory[l] /\ data'[l] = data[l]
        /\ a \in Keys(c) /\ Keys(c) \subseteq Key
    <2>1. Held(f) \subseteq Refs(c) /\ (f = Idle \/ (f \in Frame /\ Fits(f) /\ f.cmd = run[c].cmd))
      BY <1>4, <1>5, <1>7 DEF x
    <2>2. QED
      BY <1>0, <1>1, <1>6, <2>1, DropActs DEF a
  <1>9. \A l \in Key \ apart' : saved'[l] = saved[l]
    BY <1>1
  <1>10. ASSUME Keys(c) \cap apart = {}
         PROVE  /\ \A l \in Keys(c) : Memory[l] = saved[l] /\ Sound(saved[l])
                /\ ~nothing => run[c].acc = Result(x.op, Sources(x, saved))
    <2>1. HasMade(run[c], Memory, saved) /\ HasRead(run[c], saved) /\ \A l \in Keys(c) : Sound(saved[l])
      BY <1>1, <1>10, Followed
    <2>2. \A l \in Keys(c) : Memory[l] = saved[l]
      BY <1>1, <2>1, <1>2 DEF HasMade, x
    <2>3. ~nothing => run[c].acc = Result(x.op, Sources(x, saved))
      BY <1>1, <2>1 DEF HasRead, x
    <2>4. QED
      BY <2>1, <2>2, <2>3
  <1>11. saved' \in [Key -> Contents]
    BY <1>0, <1>1, MemoryType DEF TypeOK
  <1>12. CASE nothing
    <2>1. ASSUME Keys(c) \cap apart = {}, NEW l \in Keys(c) \ apart' PROVE Sound(saved'[l]) /\ saved'[l] = Memory'[l]
      <3>1. l = a => Memory[a] = Absent
        <4>1. l = a => data[a] = None
          BY <1>1, <1>12, <2>1 DEF S
        <4>2. QED
          BY <4>1, <1>8 DEF Memory, InMemory
      <3>2. QED
        BY <3>1, <1>8, <1>9, <1>10, <2>1
    <2>2. Progress(c, f)
      BY <1>1, <1>4, <1>9, <1>12, <2>1 DEF Progress, Idle
    <2>3. QED
      BY <1>1, <1>8, <1>11, <2>2, StepKeeps
  <1>13. CASE ~nothing
    <2>1. S = {} /\ saved' = saved
      <3>1. S = {}
        BY <1>13 DEF S
      <3>2. saved = [l \in Key |-> saved[l]]
        BY <1>0, MemoryType
      <3>3. QED
        BY <1>1, <3>1, <3>2
    <2>2. ASSUME Keys(c) \cap apart = {} PROVE Agrees(f, data', Memory', saved)
      <3>1. HasMade(f, Memory', saved)
        BY <1>2, <1>5, <1>8, <1>10, <1>13, <2>2 DEF HasMade, a, At, x
      <3>2. HasRead(f, saved)
        BY <1>5, <1>10, <1>13, <2>2 DEF HasRead
      <3>3. Holds(f, data')
        BY <1>2, <1>5, <1>13 DEF Holds, Stores
      <3>4. QED
        BY <3>1, <3>2, <3>3 DEF Agrees
    <2>3. Progress(c, f)
      BY <1>5, <1>10, <1>13, <2>1, <2>2 DEF Progress
    <2>4. QED
      BY <1>1, <1>8, <1>11, <2>3, StepKeeps
  <1>14. QED
    BY <1>12, <1>13

-----------------------------------------------------------------------------
(* A step that writes o to an object r in hand and lets S go.              *)
LEMMA WriteKeeps ==
  ASSUME ObjectsInv, NEW c \in Client, run[c].pc # "idle", NEW f, Be(c, f),
         NEW r \in Refs(c), NEW o \in Contents, Proper(o), o.kind = heap[r].kind, Leave(c, r, o),
         NEW S, S = {} \/ S = Keys(c), Part(S), UNCHANGED data,
         f = Idle \/ (f \in Frame /\ Fits(f) /\ f.cmd = run[c].cmd /\ f.pc # "idle"), Held(f) \subseteq Refs(c),
         ~(Op(c) = "rename" /\ run[c].pc = "drop"),
         Keys(c) \cap apart = {} /\ S = {} =>
           LET m == [l \in Key |-> IF data[l] = r THEN o ELSE Memory[l]]
           IN IF f = Idle THEN \A l \in Keys(c) : saved[l] = m[l] ELSE Agrees(f, data, m, saved)
  PROVE  ObjectsInv'
  <1> DEFINE k == At(c, 1) v == data[k] m == [l \in Key |-> IF data[l] = r THEN o ELSE Memory[l]]
  <1>0. OwnInv /\ TypeOK /\ FitsAll /\ Owned /\ Alive
    BY DEF ObjectsInv, OwnInv
  <1>1. k \in Keys(c) /\ Keys(c) \subseteq Key /\ Keys(c) # {}
    <2>1. run[c].cmd \in CommandSet
      BY <1>0, AtWork
    <2>2. QED
      BY <2>1, TouchedIs DEF Keys, At
  <1>2. PICK t \in {torn} \cup (IF Raced(c) THEN {torn \cup {r}} ELSE {}) :
          Objects([heap EXCEPT ![r] = IF r \in t THEN Object(@.kind, <<>>, {}) ELSE o], t)
    BY DEF Leave
  <1> DEFINE h == [heap EXCEPT ![r] = IF r \in t THEN Object(@.kind, <<>>, {}) ELSE o]
  <1>3. r \in Ref /\ Refs(c) \subseteq Ref
    BY <1>0, AtWork
  <1>4. /\ t \subseteq torn \cup Refs(c) /\ (t = torn \/ Keys(c) \subseteq apart)
        /\ Keys(c) \cap apart = {} => t = torn /\ r \notin t
    <2>1. Raced(c) => Keys(c) \subseteq apart
      BY <1>0, RacingIs
    <2>2. r \in torn => Keys(c) \subseteq apart
      BY <1>0 DEF Owned
    <2>3. Keys(c) \subseteq apart => Keys(c) \cap apart # {}
      BY <1>1
    <2>4. QED
      BY <1>2, <2>1, <2>2, <2>3
  <1>5. /\ h \in [Ref -> Contents] /\ \A q \in Ref \ {r} : h[q] = heap[q]
        /\ h[r].kind = heap[r].kind /\ \A q \in Ref : Proper(h[q])
        /\ r \notin t => h[r] = o
    <2> DEFINE e == IF r \in t THEN Object(heap[r].kind, <<>>, {}) ELSE o
    <2>1. heap \in [Ref -> Contents] /\ \A q \in Ref : Proper(heap[q])
      BY <1>0 DEF TypeOK, Alive
    <2>2. e \in Contents /\ e.kind = heap[r].kind /\ Proper(e)
      <3>1. CASE r \in t
        <4>1. heap[r].kind \in {"none", "list", "set"}
          BY <1>3, <2>1 DEF Contents
        <4>2. <<>> \in Seq(Elem)
          OBVIOUS
        <4>3. QED
          BY <3>1, <4>1, <4>2 DEF Object, Contents, Proper, Absent
      <3>2. CASE r \notin t
        BY <3>2
      <3>3. QED
        BY <3>1, <3>2
    <2>3. h = [heap EXCEPT ![r] = e]
      OBVIOUS
    <2>4. r \notin t => e = o
      OBVIOUS
    <2> HIDE DEF e, h
    <2>5. h[r] = e /\ \A q \in Ref \ {r} : h[q] = heap[q]
      BY <2>1, <2>3, <1>3
    <2>6. QED
      BY <2>1, <2>2, <2>3, <2>4, <2>5, <1>3
  <1>6. Objects(h, t)
    BY <1>2
  <1> HIDE DEF h, k, v, m
  <1>7. Acts(c, f, k, v, h, t, S)
    <2>1. f \in Frame /\ Fits(f)
      BY IdleFits
    <2>2. data' = [data EXCEPT ![k] = v] /\ v \in Ref \cup {None} /\ v = data[k]
      BY <1>0, <1>1 DEF TypeOK, v
    <2>3. apart' = apart \cup S /\ run' = [run EXCEPT ![c] = f]
      BY DEF Part, Be
    <2>4. \A q \in Unused : q # v /\ q \notin Held(f)
      BY <1>1, <2>2, InUseIs DEF Unused
    <2>5. \A q \in Ref : h[q] = heap[q] \/ (q \in Refs(c) /\ h[q].kind = heap[q].kind)
      BY <1>5
    <2>6. QED
      BY <1>1, <1>4, <1>5, <1>6, <2>1, <2>2, <2>3, <2>4, <2>5 DEF Acts
  <1>8. Memory \in [Key -> Contents] /\ Absent \in Contents /\ saved = [l \in Key |-> saved[l]]
    BY <1>0, MemoryType
  <1>9. saved' = [l \in Key |-> IF l \in S THEN Absent ELSE saved[l]] /\ apart' = apart \cup S
    BY DEF Part
  <1>10. saved' \in [Key -> Contents]
    BY <1>0, <1>8, <1>9 DEF TypeOK
  <1>11. ASSUME Keys(c) \cap apart = {} PROVE Memory' = m
    <2>1. /\ \A l \in Key : Memory'[l] = IF data'[l] = None THEN Absent ELSE h[data'[l]]
          /\ \A l \in Key : Memory[l] = IF data[l] = None THEN Absent ELSE heap[data[l]]
          /\ Memory' = [l \in Key |-> Memory'[l]]
      BY <1>0, <1>7, MemoryIs
    <2>2. h[r] = o /\ r # None
      BY <1>3, <1>4, <1>5, <1>11, ObjectsAssumption
    <2>3. \A l \in Key : Memory'[l] = m[l]
      <3>1. TAKE l \in Key
      <3>2. data'[l] = data[l] /\ data[l] \in Ref \cup {None}
        BY <1>0 DEF TypeOK
      <3>3. QED
        BY <3>2, <2>1, <2>2, <1>5 DEF m
    <2>4. QED
      BY <2>1, <2>3 DEF m
  <1>12. Progress(c, f)
    <2>1. \A l \in Key : saved'[l] = saved[l] \/ l \in apart'
      BY <1>9
    <2>2. ASSUME Keys(c) \cap apart = {}
          PROVE  /\ f.pc # "idle" /\ Keys(c) \cap apart' = {} => Agrees(f, data', Memory', saved')
                 /\ \A l \in Keys(c) \ apart' : /\ Sound(saved'[l])
                                                /\ f.pc = "idle" => saved'[l] = Memory'[l]
      <3>1. CASE S = Keys(c)
        <4>1. Keys(c) \subseteq apart'
          BY <3>1, <1>9
        <4>2. QED
          BY <4>1, <1>1
      <3>2. CASE S = {}
        <4>1. saved' = saved /\ Memory' = m /\ data' = data
          BY <3>2, <1>8, <1>9, <1>11, <2>2
        <4>2. IF f = Idle THEN \A l \in Keys(c) : saved[l] = m[l] ELSE Agrees(f, data, m, saved)
          BY <2>2, <3>2 DEF m
        <4>3. \A l \in Keys(c) : Sound(saved[l])
          BY <2>2, Followed
        <4>4. f.pc = "idle" <=> f = Idle
          BY DEF Idle
        <4>5. QED
          BY <4>1, <4>2, <4>3, <4>4
      <3>3. QED
        BY <3>1, <3>2
    <2>3. QED
      BY <2>1, <2>2 DEF Progress
  <1>13. QED
    BY <1>7, <1>10, <1>12, StepKeeps

(* A step that gives a new object o to a key k of its command.             *)
LEMMA NewKeeps ==
  ASSUME ObjectsInv, NEW c \in Client, run[c].pc # "idle", NEW f, Be(c, f), NEW r \in Unused, NEW k \in Keys(c),
         data' = [data EXCEPT ![k] = r], NEW o \in Contents, Proper(o), o.kind # "none",
         Objects([heap EXCEPT ![r] = o], torn), UNCHANGED <<saved, apart>>,
         f \in Frame, Fits(f), f.cmd = run[c].cmd, f.pc # "idle",
         Held(f) \subseteq Refs(c) \cup {r}, r \in Held(f) => Serves(f.cmd.op, o),
         ~(Op(c) = "rename" /\ run[c].pc = "drop"),
         Keys(c) \cap apart = {} => Agrees(f, data', [Memory EXCEPT ![k] = o], saved)
  PROVE  ObjectsInv'
  <1> DEFINE h == [heap EXCEPT ![r] = o]
  <1>0. OwnInv /\ TypeOK /\ FitsAll /\ Owned /\ Alive
    BY DEF ObjectsInv, OwnInv
  <1>1. Keys(c) \subseteq Key /\ Refs(c) \subseteq Ref
    BY <1>0, AtWork
  <1>2. r \in Ref /\ r # None /\ r \notin Refs(c) /\ \A l \in Key : data[l] # r
    <2>1. r \in Ref /\ ~InUse(r)
      BY DEF Unused
    <2>2. QED
      BY <2>1, InUseIs, ObjectsAssumption
  <1>3. h \in [Ref -> Contents] /\ h[r] = o /\ (\A q \in Ref \ {r} : h[q] = heap[q]) /\ \A q \in Ref : Proper(h[q])
    BY <1>0, <1>2 DEF TypeOK, Alive
  <1>4. Objects(h, torn)
    OBVIOUS
  <1> HIDE DEF h
  <1>5. Acts(c, f, k, r, h, torn, {})
    <2>1. run' = [run EXCEPT ![c] = f] /\ apart' = apart \cup {}
      BY DEF Be
    <2>2. \A q \in Unused : q = r \/ q \in Held(f) => h[q].kind # "none"
      <3>1. \A q \in Unused : q \notin Refs(c)
        BY InUseIs DEF Unused
      <3>2. QED
        BY <3>1, <1>3
    <2>3. \A q \in Ref : h[q] = heap[q] \/ q \in Unused
      BY <1>3
    <2>4. \A q \in Held(f) : q \in Refs(c) \/ Serves(f.cmd.op, h[q])
      BY <1>3
    <2>5. QED
      BY <1>0, <1>1, <1>2, <1>3, <1>4, <2>1, <2>2, <2>3, <2>4 DEF Acts
  <1>6. Memory' = [Memory EXCEPT ![k] = o]
    <2>1. /\ \A l \in Key : Memory'[l] = IF data'[l] = None THEN Absent ELSE h[data'[l]]
          /\ \A l \in Key : Memory[l] = IF data[l] = None THEN Absent ELSE heap[data[l]]
          /\ Memory = [l \in Key |-> Memory[l]] /\ Memory' = [l \in Key |-> Memory'[l]]
      BY <1>0, <1>5, MemoryIs
    <2>2. data'[k] = r /\ \A l \in Key \ {k} : data'[l] = data[l] /\ data[l] \in Ref \cup {None}
      BY <1>0, <1>1 DEF TypeOK
    <2>3. Memory'[k] = o /\ \A l \in Key \ {k} : Memory'[l] = Memory[l]
      BY <1>1, <1>2, <1>3, <2>1, <2>2
    <2>4. QED
      BY <1>1, <2>1, <2>3
  <1>7. Progress(c, f)
    <2>1. ASSUME Keys(c) \cap apart = {} PROVE \A l \in Keys(c) : Sound(saved[l])
      BY <2>1, Followed
    <2>2. QED
      BY <1>6, <2>1 DEF Progress
  <1>8. saved' \in [Key -> Contents]
    BY <1>0 DEF TypeOK
  <1>9. QED
    BY <1>5, <1>7, <1>8, StepKeeps
-----------------------------------------------------------------------------
(* A new list or set for a key that led nowhere.                           *)
LEMMA PutEmptyKeeps ==
  ASSUME ObjectsInv, NEW c \in Client, PutEmpty(c)
  PROVE  ObjectsInv'
  <1> DEFINE x == run[c].cmd r == Fresh k == At(c, run[c].i) kind == IF Op(c) = "sadd" THEN "set" ELSE "list"
             o == Object(kind, <<>>, {}) f == [run[c] EXCEPT !.refs = Append(@, r), !.pc = "inside"]
             a == x.keys[1] b == x.keys[2]
  <1>0. OwnInv /\ TypeOK /\ FitsAll
    BY DEF ObjectsInv, OwnInv
  <1>1. /\ run[c].pc = "init" /\ run[c].pc # "idle" /\ r \in Unused
        /\ data' = [data EXCEPT ![k] = r] /\ Be(c, f) /\ UNCHANGED <<saved, apart>>
        /\ Objects([heap EXCEPT ![r] = o], torn)
    BY DEF PutEmpty, Fresh
  <1>2. /\ run[c] \in Frame /\ Fits(run[c]) /\ x \in CommandSet /\ Shaped(x) /\ x.op = Op(c)
        /\ Keys(c) \subseteq Key /\ Keys(c) = Touched(x) /\ r \in Ref /\ run[c].refs \in Seq(Ref)
    <2>1. run[c] \in Frame /\ Fits(run[c]) /\ x \in CommandSet /\ Shaped(x) /\ Keys(c) \subseteq Key
      BY <1>0, <1>1, AtWork
    <2>2. r \in Ref
      BY <1>1 DEF Unused
    <2>3. QED
      BY <2>1, <2>2 DEF Op, Keys, Frame
  <1>3. /\ f.pc = "inside" /\ f.cmd = x /\ f.refs = Append(run[c].refs, r) /\ f.i = run[c].i /\ f.acc = run[c].acc
        /\ f \in Frame
    <2>1. Append(run[c].refs, r) \in Seq(Ref) /\ "inside" \in Places
      BY <1>2 DEF Places
    <2>2. QED
      BY <2>1, <1>2 DEF Frame
  <1>4. \/ x.op \in {"lpush", "rpush", "sadd"} /\ Len(run[c].refs) = 0 /\ run[c].i = 1 /\ k = a
        \/ x.op = "rpoplpush" /\ run[c].i = 2 /\ Len(run[c].refs) = 1 /\ k = b
    BY <1>1, <1>2 DEF Fits, Loners, Writers, Pushes, At
  <1>5. a \in Keys(c) /\ (x.op = "rpoplpush" => b \in Keys(c)) /\ k \in Keys(c)
    <2>1. x.op = "rpoplpush" => Len(x.keys) = 2
      BY <1>2 DEF Shaped
    <2>2. QED
      BY <2>1, <1>2, <1>4, TouchedIs
  <1> HIDE DEF x, r, k, a, b, f
  <1>6. /\ Len(run[c].refs) = 0 => f.refs[1] = r /\ Len(f.refs) = 1
        /\ Len(run[c].refs) = 1 => f.refs[1] = run[c].refs[1] /\ f.refs[2] = r /\ Len(f.refs) = 2
        /\ Held(f) = Refs(c) \cup {r}
    <2>1. f.refs = Append(run[c].refs, r) /\ run[c].refs \in Seq(Ref) /\ r \in Ref
      BY <1>2, <1>3
    <2>2. /\ {f.refs[n] : n \in DOMAIN f.refs} = {run[c].refs[n] : n \in DOMAIN run[c].refs} \cup {r}
          /\ Len(run[c].refs) = 0 => f.refs[1] = r /\ Len(f.refs) = 1
          /\ Len(run[c].refs) = 1 => f.refs[1] = run[c].refs[1] /\ f.refs[2] = r /\ Len(f.refs) = 2
      <3> DEFINE s == run[c].refs t == f.refs
      <3>1. t = Append(s, r) /\ s \in Seq(Ref) /\ r \in Ref
        BY ONLY <2>1
      <3> HIDE DEF s, t
      <3>2. /\ {t[n] : n \in DOMAIN t} = {s[n] : n \in DOMAIN s} \cup {r}
            /\ Len(s) = 0 => t[1] = r /\ Len(t) = 1
            /\ Len(s) = 1 => t[1] = s[1] /\ t[2] = r /\ Len(t) = 2
        BY ONLY <3>1, AppendIs
      <3>3. QED
        BY ONLY <3>2 DEF s, t
    <2>3. QED
      BY <2>2 DEF Held, Refs
  <1>7. x.op \notin Stores /\ x.op \notin {"del", "rename"}
    BY <1>4 DEF Stores
  <1>8. Fits(f)
    <2>1. Len(f.refs) = IF x.op = "rpoplpush" THEN 2 ELSE 1
      BY <1>4, <1>6
    <2>2. x.op \in Loners \cup {"rename"} => f.i = 1
      BY <1>3, <1>4 DEF Loners, Writers, Pushes
    <2>3. QED
      BY <1>2, <1>3, <1>7, <2>1, <2>2 DEF Fits, Stores
  <1>9. kind \in {"list", "set"} /\ Serves(x.op, o) /\ o \in Contents /\ Proper(o) /\ o.kind = kind
    <2>1. x.op \in ListOps => kind = "list"
      BY <1>2 DEF ListOps, Pushes
    <2>2. x.op \in SetOps => kind = "set"
      BY <1>2, <1>4 DEF SetOps, Stores
    <2>3. <<>> \in Seq(Elem)
      OBVIOUS
    <2>4. QED
      BY <2>1, <2>2, <2>3 DEF Serves, Object, Contents, Proper
  <1>10. ASSUME Keys(c) \cap apart = {} PROVE Agrees(f, data', [Memory EXCEPT ![k] = o], saved)
    <2> DEFINE m == [Memory EXCEPT ![k] = o]
    <2>1. HasMade(run[c], Memory, saved) /\ Holds(run[c], data)
      BY <1>1, <1>10, Followed
    <2>2. /\ \A l \in Keys(c) : Memory[l] = saved[l]
          /\ data[k] = None
      BY <2>1, <1>1, <1>2 DEF HasMade, Holds, x, k, At
    <2>3. saved[k] = Absent
      BY <2>2, <1>2, <1>5 DEF Memory, InMemory
    <2>4. m[k] = o /\ \A l \in Key \ {k} : m[l] = Memory[l]
      <3>1. Memory \in [Key -> Contents]
        BY <1>0, MemoryType
      <3>2. QED
        BY <3>1, <1>2, <1>5
    <2> HIDE DEF m
    <2>5. data'[k] = r /\ \A l \in Key \ {k} : data'[l] = data[l]
      BY <1>0, <1>1, <1>2, <1>5 DEF TypeOK
    <2>6. HasRead(f, saved)
      BY <1>3, <1>7 DEF HasRead
    <2>7. CASE x.op \in {"lpush", "rpush", "sadd"}
      <3>1. k = a /\ f.refs[1] = r
        BY <1>4, <1>6, <2>7
      <3>2. Holds(f, data')
        BY <1>3, <1>7, <2>5, <2>7, <3>1 DEF Holds, a
      <3>e. saved[a].seq = <<>> /\ saved[a].mem = {}
        BY <2>3, <3>1 DEF Absent, Object
      <3>3. x.op \in {"lpush", "rpush"} => o = List(saved[a].seq)
        <4>1. x.op \in {"lpush", "rpush"} => kind = "list"
          BY <1>2
        <4>2. QED
          BY <3>e, <4>1 DEF List
      <3>4. x.op = "sadd" => o = MkSet(saved[a].mem)
        <4>1. x.op = "sadd" => kind = "set"
          BY <1>2
        <4>2. QED
          BY <3>e, <4>1 DEF MkSet
      <3>5. HasMade(f, m, saved)
        BY <1>3, <2>4, <2>7, <3>1, <3>3, <3>4 DEF HasMade, a
      <3>6. QED
        BY <2>6, <3>2, <3>5 DEF Agrees, m
    <2>8. CASE x.op = "rpoplpush"
      <3>1. k = b /\ f.refs[1] = run[c].refs[1] /\ f.refs[2] = r /\ run[c].i = 2
        BY <1>4, <1>6, <2>8
      <3>2. run[c].refs[1] = data[a]
        BY <1>1, <2>1, <2>8, <3>1 DEF Holds, x, a
      <3>3. data[a] # None
        <4>0. Len(run[c].refs) = 1
          BY <1>4, <2>8
        <4>1. 1 \in 1..Len(run[c].refs)
          BY <4>0
        <4>2. run[c].refs[1] \in Ref
          BY <4>1, <1>2
        <4>3. QED
          BY <3>2, <4>2, ObjectsAssumption
      <3>4. a # b /\ data'[a] = data[a] /\ m[a] = saved[a]
        BY <1>2, <1>5, <2>2, <2>4, <2>5, <3>1, <3>3
      <3>5. Holds(f, data')
        BY <1>3, <2>5, <2>8, <3>1, <3>2, <3>4 DEF Holds, a, b, Stores
      <3>6. o = List(saved[b].seq)
        <4>1. kind = "list"
          BY <1>2, <2>8
        <4>2. saved[b].seq = <<>>
          BY <2>3, <3>1 DEF Absent, Object
        <4>3. QED
          BY <4>1, <4>2 DEF List
      <3>7. HasMade(f, m, saved)
        BY <1>3, <2>4, <2>8, <3>1, <3>4, <3>6 DEF HasMade, a, b
      <3>8. QED
        BY <2>6, <3>5, <3>7 DEF Agrees, m
    <2>9. QED
      BY <1>4, <2>7, <2>8
  <1> HIDE DEF o
  <1>11. f.cmd = run[c].cmd /\ f.pc # "idle" /\ Serves(f.cmd.op, o) /\ o.kind # "none"
         /\ ~(Op(c) = "rename" /\ run[c].pc = "drop")
    BY <1>1, <1>3, <1>9 DEF x
  <1>12. QED
    BY <1>1, <1>3, <1>5, <1>6, <1>8, <1>9, <1>10, <1>11, NewKeeps

(* A store puts its result.                                                *)
LEMMA PutResultKeeps ==
  ASSUME ObjectsInv, NEW c \in Client, PutResult(c)
  PROVE  ObjectsInv'
  <1> DEFINE x == run[c].cmd r == Fresh a == At(c, 1) o == MkSet(run[c].acc)
             f == [run[c] EXCEPT !.pc = "log", !.acc = None]
  <1>0. OwnInv /\ TypeOK /\ FitsAll
    BY DEF ObjectsInv, OwnInv
  <1>1. /\ run[c].pc = "put" /\ run[c].pc # "idle" /\ r \in Unused
        /\ data' = [data EXCEPT ![a] = r] /\ Be(c, f) /\ UNCHANGED <<saved, apart>>
        /\ Objects([heap EXCEPT ![r] = o], torn)
    BY DEF PutResult, Fresh
  <1>2. /\ run[c] \in Frame /\ Fits(run[c]) /\ x \in CommandSet /\ x.op = Op(c)
        /\ Keys(c) \subseteq Key /\ Keys(c) = Touched(x) /\ a \in Keys(c) /\ a = x.keys[1]
    <2>1. run[c] \in Frame /\ Fits(run[c]) /\ x \in CommandSet /\ Keys(c) \subseteq Key
      BY <1>0, <1>1, AtWork
    <2>2. QED
      BY <2>1, TouchedIs DEF Op, Keys, At
  <1>3. /\ f.pc = "log" /\ f.cmd = x /\ f.refs = run[c].refs /\ f.i = run[c].i /\ f.acc = None
        /\ f \in Frame
    <2>1. "log" \in Places
      BY DEF Places
    <2>2. QED
      BY <2>1, <1>2 DEF Frame
  <1>4. x.op \in Stores /\ run[c].acc \in SUBSET Val
    BY <1>1, <1>2 DEF Fits
  <1> HIDE DEF x, r, a, f
  <1>5. Fits(f) /\ Held(f) = Refs(c)
    <2>1. x.op \notin {"look", "lindex"}
      BY <1>4 DEF Stores
    <2>2. Fits(f)
      BY <1>2, <1>3, <2>1 DEF Fits
    <2>3. QED
      BY <2>2, <1>3 DEF Held, Refs
  <1>6. o \in Contents /\ Proper(o) /\ o.kind = "set" /\ Sound(o)
    <2>1. <<>> \in Seq(Elem)
      OBVIOUS
    <2>2. QED
      BY <2>1, <1>4 DEF MkSet, Object, Contents, Proper, Sound
  <1>7. Serves(x.op, o)
    BY <1>4, <1>6 DEF Serves, ListOps, Pushes, Stores
  <1>8. ASSUME Keys(c) \cap apart = {} PROVE Agrees(f, data', [Memory EXCEPT ![a] = o], saved)
    <2> DEFINE m == [Memory EXCEPT ![a] = o]
    <2>1. HasMade(run[c], Memory, saved) /\ HasRead(run[c], saved) /\ \A l \in Keys(c) : Sound(saved[l])
      BY <1>1, <1>8, Followed
    <2>2. /\ \A l \in Keys(c) \ {a} : Memory[l] = saved[l]
          /\ o = MkSet(Result(x.op, Sources(x, saved)))
      BY <2>1, <1>1, <1>2 DEF HasMade, HasRead, x
    <2>3. Apply(x, saved) = [saved EXCEPT ![a] = o]
      <3>1. x.op # "rename" /\ x.op # "rpoplpush"
        BY <1>4 DEF Stores
      <3>2. QED
        BY <3>1, <1>2, <1>4, <2>2 DEF Apply
    <2>4. \A l \in Keys(c) : Apply(x, saved)[l] = m[l] /\ Sound(m[l])
      <3>1. Memory \in [Key -> Contents] /\ saved = [l \in Key |-> saved[l]]
        BY <1>0, MemoryType
      <3> HIDE DEF o
      <3>2. QED
        BY <3>1, <1>2, <1>6, <2>1, <2>2, <2>3
    <2> HIDE DEF m
    <2>5. HasMade(f, m, saved)
      BY <1>2, <1>3, <2>4 DEF HasMade
    <2>6. HasRead(f, saved) /\ Holds(f, data')
      BY <1>3 DEF HasRead, Holds
    <2>7. QED
      BY <2>5, <2>6 DEF Agrees, m
  <1> HIDE DEF o
  <1>9. f.cmd = run[c].cmd /\ f.pc # "idle" /\ Serves(f.cmd.op, o) /\ o.kind # "none"
        /\ ~(Op(c) = "rename" /\ run[c].pc = "drop")
    BY <1>1, <1>3, <1>6, <1>7 DEF x
  <1>10. QED
    BY <1>1, <1>2, <1>3, <1>5, <1>6, <1>8, <1>9, NewKeeps
-----------------------------------------------------------------------------
(* Parts of a list that is not empty.                                      *)
LEMMA PartsOf ==
  ASSUME NEW S, NEW s \in Seq(S), s # <<>>
  PROVE  /\ Len(s) \in Nat \ {0} /\ s[Len(s)] \in S
         /\ Front(s) \in Seq(S) /\ Tail(s) \in Seq(S) /\ Tail(s) = SubSeq(s, 2, Len(s))
         /\ \A v \in S : /\ [s EXCEPT ![1] = v] \in Seq(S) /\ [s EXCEPT ![1] = v] # <<>>
                         /\ [s EXCEPT ![1] = v] = [n \in DOMAIN s |-> IF n = 1 THEN v ELSE s[n]]
  <1>1. Len(s) \in Nat \ {0} /\ DOMAIN s = 1..Len(s)
    OBVIOUS
  <1>2. s[Len(s)] \in S
    BY <1>1
  <1>3. Front(s) \in Seq(S)
    BY <1>1 DEF Front
  <1>4. Tail(s) \in Seq(S) /\ Tail(s) = SubSeq(s, 2, Len(s))
    BY <1>1
  <1>5. ASSUME NEW v \in S
        PROVE  /\ [s EXCEPT ![1] = v] \in Seq(S) /\ [s EXCEPT ![1] = v] # <<>>
               /\ [s EXCEPT ![1] = v] = [n \in DOMAIN s |-> IF n = 1 THEN v ELSE s[n]]
    <2> DEFINE t == [n \in 1..Len(s) |-> IF n = 1 THEN v ELSE s[n]]
    <2>1. [s EXCEPT ![1] = v] = t
      BY <1>1
    <2>2. t \in Seq(S) /\ Len(t) = Len(s)
      BY <1>1
    <2>3. QED
      BY <1>1, <2>1, <2>2
  <1>6. QED
    BY <1>1, <1>2, <1>3, <1>4, <1>5

(* What a command may make of a list or a set is one of that kind.         *)
LEMMA EffectType ==
  ASSUME NEW x \in CommandSet, NEW o \in Contents, Proper(o), o.kind \in {"list", "set"}, Serves(x.op, o),
         NEW new \in Effects(x, o)
  PROVE  new \in Contents /\ Proper(new) /\ new.kind = o.kind
  <1>1. x.op \in Writers => x.val \in Val /\ x.val \in Elem
    BY CommandShape DEF Shaped, Elem
  <1>2. o.seq \in Seq(Elem) /\ o.mem \in SUBSET Val
    BY DEF Contents
  <1>3. ~Empty(o) /\ o.kind = "list" => o.seq # <<>>
    BY DEF Empty, Proper
  <1>4. \A s \in Seq(Elem) : List(s) \in Contents /\ Proper(List(s)) /\ List(s).kind = "list"
    BY DEF List, Object, Contents, Proper
  <1>5. \A m \in SUBSET Val : MkSet(m) \in Contents /\ Proper(MkSet(m)) /\ MkSet(m).kind = "set"
    <2>1. <<>> \in Seq(Elem)
      OBVIOUS
    <2>2. QED
      BY <2>1 DEF MkSet, Object, Contents, Proper
  <1>6. x.op \in ListOps => o.kind = "list"
    BY DEF Serves
  <1>7. x.op \in SetOps => o.kind = "set"
    BY DEF Serves
  <1>8. CASE x.op \in {"lpush", "lpushx"}
    <2>1. new = List(<<x.val>> \o o.seq) /\ x.op \in ListOps /\ x.op \in Writers
      BY <1>8 DEF Effects, ListOps, Pushes, Writers
    <2>2. <<x.val>> \o o.seq \in Seq(Elem)
      BY <1>1, <1>2, <2>1
    <2>3. QED
      BY <1>4, <1>6, <2>1, <2>2
  <1>9. CASE x.op \in {"rpush", "rpushx"}
    <2>1. new = List(Append(o.seq, x.val)) /\ x.op \in ListOps /\ x.op \in Writers
      BY <1>9 DEF Effects, ListOps, Pushes, Writers
    <2>2. Append(o.seq, x.val) \in Seq(Elem)
      BY <1>1, <1>2, <2>1
    <2>3. QED
      BY <1>4, <1>6, <2>1, <2>2
  <1>10. CASE x.op \in {"lpop", "rpop", "rpoplpush", "lset"} /\ ~Empty(o)
    <2>1. /\ x.op = "lpop" => new = List(Tail(o.seq))
          /\ x.op \in {"rpop", "rpoplpush"} => new = List(Front(o.seq))
          /\ x.op = "lset" => new = List([o.seq EXCEPT ![1] = x.val])
      BY <1>10 DEF Effects
    <2>2. x.op \in ListOps /\ (x.op = "lset" => x.op \in Writers)
      BY <1>10 DEF ListOps, Writers
    <2>3. Tail(o.seq) \in Seq(Elem) /\ Front(o.seq) \in Seq(Elem) /\ \A v \in Elem : [o.seq EXCEPT ![1] = v] \in Seq(Elem)
      BY <1>2, <1>3, <1>6, <1>10, <2>2, PartsOf
    <2>4. QED
      BY <1>1, <1>4, <1>6, <1>10, <2>1, <2>2, <2>3
  <1>11. CASE x.op = "lrem"
    <2>1. new = List(Without(o.seq, x.val)) /\ x.op \in ListOps
      BY <1>11 DEF Effects, ListOps
    <2>2. Without(o.seq, x.val) \in Seq(Elem)
      BY <1>2, WithoutIs
    <2>3. QED
      BY <1>4, <1>6, <2>1, <2>2
  <1>12. CASE x.op \in {"sadd", "srem"}
    <2>1. (new = MkSet(o.mem \cup {x.val}) \/ new = MkSet(o.mem \ {x.val})) /\ x.op \in SetOps /\ x.op \in Writers
      BY <1>12 DEF Effects, SetOps, Writers
    <2>2. QED
      BY <1>1, <1>2, <1>5, <1>7, <2>1
  <1>13. CASE x.op = "spop"
    <2>1. PICK p \in Some(x.n, o.mem) : new = MkSet(o.mem \ p)
      BY <1>13 DEF Effects
    <2>2. QED
      BY <1>2, <1>5, <1>7, <1>13, <2>1 DEF SetOps
  <1>14. CASE /\ x.op \notin {"lpush", "lpushx", "rpush", "rpushx", "lrem", "sadd", "srem", "spop"}
              /\ ~(x.op \in {"lpop", "rpop", "rpoplpush", "lset"} /\ ~Empty(o))
    BY <1>14 DEF Effects
  <1>15. QED
    BY <1>8, <1>9, <1>10, <1>11, <1>12, <1>13, <1>14

(* Where a command goes after its work.                                    *)
LEMMA ThenIs ==
  ASSUME NEW x \in CommandSet, x.op \in Loners \ {"del"}, NEW o, NEW new
  PROVE  LET p == Then(x, o, new) IN
         /\ p \in {"idle", "check", "checkonly", "log"}
         /\ p = "check" => x.op \in {"lpop", "rpop", "lrem", "srem"}
         /\ p = "checkonly" => x.op \in {"lrem", "srem"}
         /\ p = "log" => x.op \notin {"look", "lindex", "lpop", "rpop", "lrem", "srem"}
         /\ p = "log" /\ x.op \in {"lset", "spop"} => ~Empty(o)
         /\ x.op \in {"look", "lindex"} => p = "idle"
         /\ p = "idle" => x.op \in {"look", "lindex"} \/ (x.op \in {"lpop", "lset", "spop"} /\ Empty(o))
         /\ x.op = "lpop" /\ p = "check" => ~Empty(o)
         /\ p = "checkonly" => new = o
  <1>1. CASE x.op \in {"look", "lindex"}
    BY <1>1 DEF Then
  <1>2. CASE x.op \in {"lpop", "lset", "spop"}
    BY <1>2 DEF Then
  <1>3. CASE x.op = "rpop"
    BY <1>3 DEF Then
  <1>4. CASE x.op \in {"lrem", "srem"}
    BY <1>4 DEF Then
  <1>5. CASE x.op \notin {"look", "lindex", "lpop", "lset", "spop", "rpop", "lrem", "srem"}
    BY <1>5 DEF Then
  <1>6. QED
    BY <1>1, <1>2, <1>3, <1>4, <1>5

(* The work of a command, and what its replay makes of what is in the log. *)
LEMMA WorkMakes ==
  ASSUME NEW x \in CommandSet, x.op \in Loners \ {"del", "look", "lindex"},
         NEW o \in Contents, Proper(o), o.kind \in {"list", "set"}, Serves(x.op, o),
         NEW new \in Effects(x, o), NEW s, Sound(s),
         x.op \in ListOps => s.seq = o.seq, x.op \in SetOps => s.mem = o.mem,
         x.op \notin {"lpush", "rpush", "sadd"} => s = o
  PROVE  LET p == Then(x, o, new) IN
         /\ p = "check" => Alone(x, s) = Kept(new)
         /\ p \in {"idle", "checkonly"} => new = o
         /\ p = "log" /\ (x.op = "spop" => Empty(new)) => Alone(x, s) = new /\ Sound(new)
  <1> DEFINE p == Then(x, o, new)
  <1>1. x.op \in Writers => x.val \in Val /\ x.val \in Elem
    BY CommandShape DEF Shaped, Elem
  <1>2. o.seq \in Seq(Elem) /\ o.mem \in SUBSET Val
    BY DEF Contents
  <1>3. x.op \in ListOps => o.kind = "list" /\ (x.op \notin {"lpush", "rpush"} => o.seq # <<>> /\ ~Empty(o))
    BY DEF Serves, Sound, ListOps, Pushes, Empty
  <1>4. x.op \in SetOps => o.kind = "set" /\ o = MkSet(o.mem)
    <2>1. o.kind = "set" => o.seq = <<>>
      BY DEF Proper
    <2>2. o = [kind |-> o.kind, seq |-> o.seq, mem |-> o.mem]
      BY DEF Contents
    <2>3. QED
      BY <2>1, <2>2 DEF Serves, MkSet, Object
  <1>5. \A t \in Seq(Elem) : t # <<>> => Sound(List(t)) /\ ~Empty(List(t))
    BY DEF Sound, Proper, List, Object, Empty
  <1>6. \A m : Sound(MkSet(m))
    BY DEF Sound, Proper, MkSet, Object
  <1>7. /\ p \in {"idle", "check", "checkonly", "log"}
        /\ p = "check" => x.op \in {"lpop", "rpop", "lrem", "srem"}
        /\ p = "log" => x.op \notin {"look", "lindex", "lpop", "rpop", "lrem", "srem"}
        /\ p = "idle" => x.op \in {"lpop", "lset", "spop"} /\ Empty(o)
        /\ p = "checkonly" => new = o
    BY ThenIs
  <1> HIDE DEF p
  <1>8. CASE x.op \in {"lpush", "lpushx"}
    <2>1. new = List(<<x.val>> \o o.seq) /\ x.op \in Writers /\ Alone(x, s) = List(<<x.val>> \o o.seq)
      BY <1>8 DEF Effects, Writers, Pushes, Alone, ListOps
    <2>2. <<x.val>> \o o.seq \in Seq(Elem) /\ <<x.val>> \o o.seq # <<>>
      BY <1>1, <1>2, <2>1
    <2>3. QED
      BY <1>5, <1>7, <1>8, <2>1, <2>2 DEF p
  <1>9. CASE x.op \in {"rpush", "rpushx"}
    <2>1. new = List(Append(o.seq, x.val)) /\ x.op \in Writers /\ Alone(x, s) = List(o.seq \o <<x.val>>)
      BY <1>9 DEF Effects, Writers, Pushes, Alone, ListOps
    <2>2. Append(o.seq, x.val) \in Seq(Elem) /\ Append(o.seq, x.val) # <<>> /\ Append(o.seq, x.val) = o.seq \o <<x.val>>
      BY ONLY <1>1, <1>2, <2>1
    <2>3. QED
      BY <1>5, <1>7, <1>9, <2>1, <2>2 DEF p
  <1>10. CASE x.op \in {"lpop", "rpop"}
    <2>1. x.op \in ListOps /\ s = o /\ o.seq # <<>> /\ ~Empty(o)
      BY <1>3, <1>10 DEF ListOps
    <2>2. Tail(o.seq) = SubSeq(o.seq, 2, Len(o.seq))
      BY <1>2, <2>1, PartsOf
    <2>3. CASE x.op = "lpop"
      <3>1. new = List(Tail(o.seq)) /\ Alone(x, s) = Kept(List(SubSeq(o.seq, 2, Len(o.seq))))
        BY <2>1, <2>3 DEF Effects, Alone
      <3>2. QED
        BY <3>1, <2>1, <2>2, <1>7, <2>3 DEF p
    <2>4. CASE x.op = "rpop"
      <3>1. new = List(Front(o.seq)) /\ Alone(x, s) = Kept(List(Front(o.seq)))
        BY <2>1, <2>4 DEF Effects, Alone
      <3>2. QED
        BY <3>1, <2>1, <1>7, <2>4 DEF p
    <2>5. QED
      BY <1>10, <2>3, <2>4
  <1>11. CASE x.op = "lrem"
    <2>1. new = List(Without(o.seq, x.val)) /\ s = o /\ Alone(x, s) = Kept(List(Without(o.seq, x.val)))
      BY <1>11 DEF Effects, Alone
    <2>2. QED
      BY <1>7, <1>11, <2>1 DEF p
  <1>12. CASE x.op = "lset"
    <2>1. x.op \in ListOps /\ s = o /\ o.seq # <<>> /\ ~Empty(o) /\ x.val \in Elem
      BY <1>1, <1>3, <1>12 DEF ListOps, Writers
    <2>2. /\ new = List([o.seq EXCEPT ![1] = x.val])
          /\ Alone(x, s) = List([n \in DOMAIN o.seq |-> IF n = 1 THEN x.val ELSE o.seq[n]])
      BY <1>12, <2>1 DEF Effects, Alone
    <2>3. /\ [o.seq EXCEPT ![1] = x.val] \in Seq(Elem) /\ [o.seq EXCEPT ![1] = x.val] # <<>>
          /\ [o.seq EXCEPT ![1] = x.val] = [n \in DOMAIN o.seq |-> IF n = 1 THEN x.val ELSE o.seq[n]]
      BY ONLY <1>2, <2>1, PartsOf
    <2>4. QED
      BY <1>5, <1>7, <1>12, <2>1, <2>2, <2>3 DEF p
  <1>13. CASE x.op = "sadd"
    <2>1. new = MkSet(o.mem \cup {x.val}) /\ Alone(x, s) = MkSet(o.mem \cup {x.val})
      BY <1>13 DEF Effects, Alone, SetOps
    <2>2. QED
      BY <1>6, <1>7, <1>13, <2>1 DEF p
  <1>14. CASE x.op = "srem"
    <2>1. new = MkSet(o.mem \ {x.val}) /\ s = o /\ Alone(x, s) = Kept(MkSet(o.mem \ {x.val}))
      BY <1>14 DEF Effects, Alone
    <2>2. QED
      BY <1>7, <1>14, <2>1 DEF p
  <1>15. CASE x.op = "spop"
    <2>1. PICK q \in Some(x.n, o.mem) : new = MkSet(o.mem \ q)
      BY <1>15 DEF Effects
    <2>2. Alone(x, s) = MkSet({})
      BY <1>15 DEF Alone
    <2>3. o = MkSet(o.mem)
      BY <1>4, <1>15 DEF SetOps
    <2>4. Empty(o) => o.mem = {} /\ new = MkSet({})
      BY <2>1 DEF Empty
    <2>5. Empty(new) => new = MkSet({})
      BY <2>1 DEF Empty, MkSet, Object
    <2>6. QED
      BY <1>6, <1>7, <1>15, <2>2, <2>3, <2>4, <2>5 DEF p
  <1>16. QED
    <2>1. Loners \ {"del", "look", "lindex"} \subseteq
            {"lpush", "lpushx", "rpush", "rpushx", "lpop", "rpop", "lrem", "lset", "sadd", "srem", "spop"}
      BY DEF Loners, Writers, Pushes
    <2>2. QED
      BY <2>1, <1>8, <1>9, <1>10, <1>11, <1>12, <1>13, <1>14, <1>15 DEF p
-----------------------------------------------------------------------------
(* What a command inside of its object has made of it.                     *)
LEMMA InsideMakes ==
  ASSUME NEW g, NEW m, NEW st, g.pc = "inside", HasMade(g, m, st), NEW x, x = g.cmd,
         NEW a, a = x.keys[1], a \in Touched(x), x.op # "rpoplpush"
  PROVE  /\ x.op \notin {"lpush", "rpush", "sadd"} => m[a] = st[a]
         /\ x.op \in {"lpush", "rpush"} => m[a] = List(st[a].seq)
         /\ x.op = "sadd" => m[a] = MkSet(st[a].mem)
  BY DEF HasMade

(* A command works on its object.                                          *)
LEMMA WorkKeeps ==
  ASSUME ObjectsInv, NEW c \in Client, Work(c)
  PROVE  ObjectsInv'
  <1> DEFINE x == run[c].cmd r == run[c].refs[1] a == At(c, 1)
  <1>0. OwnInv /\ TypeOK /\ FitsAll
    BY DEF ObjectsInv, OwnInv
  <1>1. run[c].pc = "inside" /\ run[c].pc # "idle" /\ x.op \notin Stores \cup {"rpoplpush"} /\ UNCHANGED data
    BY DEF Work
  <1>2. PICK o \in Found(r) : \E new \in Effects(x, o) :
          /\ NextOr(c, Then(x, o, new)) /\ Part(Guessed(x, new))
          /\ IF Reads(x) THEN Objects(heap, torn) ELSE Leave(c, r, new)
    BY DEF Work
  <1>3. PICK new \in Effects(x, o) :
          /\ NextOr(c, Then(x, o, new)) /\ Part(Guessed(x, new))
          /\ IF Reads(x) THEN Objects(heap, torn) ELSE Leave(c, r, new)
    BY <1>2
  <1> DEFINE p == Then(x, o, new) S == Guessed(x, new) f == IF p = "idle" THEN Idle ELSE MovedTo(c, p)
  <1>4. /\ run[c] \in Frame /\ Fits(run[c]) /\ x \in CommandSet /\ Shaped(x) /\ x.op = Op(c)
        /\ a \in Keys(c) /\ Keys(c) \subseteq Key /\ a = x.keys[1] /\ Keys(c) = Touched(x)
        /\ r \in Refs(c) /\ r \in Ref /\ r # None /\ heap[r].kind \in {"list", "set"} /\ Serves(x.op, heap[r])
        /\ Len(run[c].refs) = 1
    <2>1. run[c].pc \in {"inside", "into"}
      BY <1>1
    <2>2. QED
      BY <2>1, <1>1, InsideFacts
  <1>5. x.op \in Loners \ {"del"} /\ Keys(c) = {a}
    <2>1. x.op \in Loners \ {"del"}
      BY <1>1, <1>4 DEF Shaped, Fits
    <2>2. Len(x.keys) = 1
      BY <1>4, <2>1 DEF Shaped
    <2>3. QED
      BY <2>1, <2>2, <1>4, TouchedIs
  <1>6. Be(c, f)
    BY <1>3 DEF NextOr, MovedTo
  <1> HIDE DEF x, r, a
  <1>7. o \in Contents /\ o.kind = heap[r].kind /\ Proper(o) /\ Serves(x.op, o)
    <2>1. o \in Contents /\ o.kind = heap[r].kind /\ Proper(o)
      BY <1>0, <1>4, FoundType
    <2>2. QED
      BY <2>1, <1>4 DEF Serves
  <1>8. new \in Contents /\ new.kind = heap[r].kind /\ Proper(new)
    BY <1>4, <1>7, EffectType
  <1>9. /\ p \in {"idle", "check", "checkonly", "log"}
        /\ p = "check" => x.op \in {"lpop", "rpop", "lrem", "srem"}
        /\ p = "checkonly" => x.op \in {"lrem", "srem"}
        /\ p = "log" => x.op \notin {"look", "lindex"}
        /\ x.op \in {"look", "lindex"} => p = "idle"
    BY <1>4, <1>5, ThenIs
  <1> HIDE DEF p
  <1>10. /\ p = "idle" => f = Idle
         /\ p # "idle" => /\ f \in Frame /\ Fits(f) /\ Held(f) = Refs(c) /\ f # Idle
                          /\ f.pc = p /\ f.cmd = x /\ f.refs = run[c].refs
    <2>1. CASE p # "idle"
      <3>1. f = MovedTo(c, p) /\ p \in {"drop", "droponly", "log", "check", "checkonly"} /\ p # "drop" /\ p # "droponly"
        BY <1>9, <2>1
      <3>2. /\ p = "log" => Op(c) \notin {"look", "lindex"}
            /\ p = "check" => Op(c) \in {"lpop", "rpop", "lrem", "srem"} /\ Len(run[c].refs) = 1
            /\ p = "checkonly" => Op(c) \in {"lrem", "srem"} /\ Len(run[c].refs) = 1
        BY <1>4, <1>9
      <3> HIDE DEF f
      <3>3. QED
        BY <1>0, <1>1, <2>1, <3>1, <3>2, MoveFits DEF x
    <2>2. QED
      BY <2>1
  <1>11. Held(f) \subseteq Refs(c)
    BY <1>10, IdleFits
  <1> HIDE DEF f
  <1>12. /\ S = {} \/ S = Keys(c)
         /\ S = {} => (x.op = "spop" => Empty(new))
         /\ x.op # "spop" => S = {}
    <2>1. S = IF x.op = "spop" /\ ~Empty(new) THEN Keys(c) ELSE {}
      BY <1>4 DEF Guessed
    <2>2. QED
      BY <1>5, <2>1
  <1>13. Part(S)
    BY <1>3
  <1> HIDE DEF S
  <1>14. ASSUME Keys(c) \cap apart = {}
         PROVE  /\ HasMade(run[c], Memory, saved) /\ r = data[a] /\ o = heap[r] /\ Memory[a] = heap[r] /\ Sound(saved[a])
                /\ x.op \in ListOps => saved[a].seq = o.seq
                /\ x.op \in SetOps => saved[a].mem = o.mem
                /\ x.op \notin {"lpush", "rpush", "sadd"} => saved[a] = o
    <2>1. HasMade(run[c], Memory, saved) /\ Holds(run[c], data) /\ r \notin torn /\ Sound(saved[a])
      BY SMTT(30), <1>1, <1>4, <1>14, Followed
    <2>2. r = data[a]
      BY <2>1, <1>1, <1>4 DEF Holds, x, r
    <2>3. o = heap[r]
      BY <2>1, FoundIs
    <2>4. Memory[a] = heap[r]
      BY SMTT(30), <2>2, <1>4 DEF Memory, InMemory
    <2> DEFINE m == Memory
    <2>5. /\ x.op \notin {"lpush", "rpush", "sadd"} => m[a] = saved[a]
          /\ x.op \in {"lpush", "rpush"} => m[a] = List(saved[a].seq)
          /\ x.op = "sadd" => m[a] = MkSet(saved[a].mem)
      <3>1. run[c].pc = "inside" /\ HasMade(run[c], m, saved) /\ x.op # "rpoplpush"
        BY <1>1, <2>1
      <3>2. x = run[c].cmd /\ a = x.keys[1] /\ a \in Touched(x)
        BY <1>4 DEF x
      <3> HIDE DEF m
      <3>3. QED
        BY ONLY <3>1, <3>2, InsideMakes
    <2>6. m[a] = o
      BY <2>3, <2>4
    <2> HIDE DEF m
    <2>7. /\ x.op \notin {"lpush", "rpush", "sadd"} => saved[a] = o
          /\ x.op \in {"lpush", "rpush"} => o = List(saved[a].seq)
          /\ x.op = "sadd" => o = MkSet(saved[a].mem)
      BY ONLY <2>5, <2>6
    <2>8. \A s, t : List(s).seq = s /\ MkSet(t).mem = t
      BY DEF List, MkSet, Object
    <2>9. ListOps \cap {"sadd"} = {} /\ SetOps \cap {"lpush", "rpush"} = {}
      BY DEF ListOps, SetOps, Pushes, Stores
    <2>10. QED
      BY <2>1, <2>2, <2>3, <2>4, <2>7, <2>8, <2>9
  <1>15. ~(Op(c) = "rename" /\ run[c].pc = "drop")
    BY <1>1
  <1>16. CASE x.op \in {"look", "lindex"}
    <2>1. Reads(x) /\ f = Idle /\ Held(f) = {}
      BY <1>9, <1>10, <1>16, IdleFits DEF Reads
    <2>2. S = {}
      BY <1>12, <1>16
    <2>3. UNCHANGED <<saved, apart>>
      BY <2>2, <1>0, <1>1, <1>13, MemoryType DEF Part
    <2>4. Objects(heap, torn)
      BY <1>3, <2>1
    <2>5. Keys(c) \cap apart = {} => \A l \in Keys(c) : saved[l] = Memory[l]
      BY <1>5, <1>14, <1>16
    <2>6. QED
      BY <1>1, <1>6, <1>15, <2>1, <2>3, <2>4, <2>5, QuietKeeps
  <1>17. CASE x.op \notin {"look", "lindex"}
    <2>1. ~Reads(x) /\ Leave(c, r, new)
      <3>1. ~Reads(x)
        BY <1>1, <1>17 DEF Reads, x
      <3>2. QED
        BY <3>1, <1>3
    <2> DEFINE m == [l \in Key |-> IF data[l] = r THEN new ELSE Memory[l]]
    <2>2. ASSUME Keys(c) \cap apart = {}, S = {}
          PROVE  IF f = Idle THEN \A l \in Keys(c) : saved[l] = m[l] ELSE Agrees(f, data, m, saved)
      <3>1. m[a] = new
        BY <1>4, <1>14, <2>2
      <3> HIDE DEF m
      <3>2. /\ p = "check" => Alone(x, saved[a]) = Kept(new)
            /\ p \in {"idle", "checkonly"} => new = o
            /\ p = "log" => Alone(x, saved[a]) = new /\ Sound(new)
        <4>1. x.op \in Loners \ {"del", "look", "lindex"} /\ o.kind \in {"list", "set"}
          BY <1>4, <1>5, <1>7, <1>17
        <4>2. QED
          BY <4>1, <1>4, <1>7, <1>12, <1>14, <2>2, WorkMakes DEF p
      <3>3. Apply(x, saved)[a] = Alone(x, saved[a])
        <4>1. x.op # "rename" /\ x.op # "rpoplpush" /\ x.op \notin Stores
          BY <1>5 DEF Loners, Writers, Pushes, Stores
        <4>2. a \in Key /\ saved \in [Key -> Contents]
          BY <1>0, <1>4 DEF TypeOK
        <4>3. QED
          BY <4>1, <4>2, <1>4 DEF Apply
      <3>4. p \in {"idle", "checkonly"} => saved[a] = new
        <4>1. p \in {"idle", "checkonly"} => x.op \notin {"lpush", "rpush", "sadd"}
          <5>1. p = "idle" => x.op \in {"look", "lindex"} \/ (x.op \in {"lpop", "lset", "spop"} /\ Empty(o))
            BY <1>4, <1>5, ThenIs DEF p
          <5>2. QED
            BY <5>1, <1>9
        <4>2. QED
          BY <4>1, <3>2, <1>14, <2>2
      <3>5. CASE p = "idle"
        BY <3>1, <3>4, <3>5, <1>5, <1>10
      <3>6. CASE p # "idle"
        <4>1. f # Idle /\ f.pc = p /\ f.cmd = x /\ f.refs[1] = r /\ x.op \notin Stores \cup {"rpoplpush"}
          BY <1>1, <1>10, <3>6 DEF r, x
        <4>2. HasRead(f, saved)
          BY <4>1, <1>9 DEF HasRead
        <4>3. Holds(f, data)
          BY <4>1, <1>4, <1>9, <1>14, <2>2 DEF Holds
        <4>4. HasMade(f, m, saved)
          <5>1. Touched(x) = {a} /\ x.keys[1] = a
            BY <1>4, <1>5
          <5>2. CASE p = "check"
            BY <5>1, <5>2, <4>1, <3>1, <3>2, <3>3 DEF HasMade
          <5>3. CASE p = "checkonly"
            BY <5>1, <5>3, <4>1, <3>1, <3>4 DEF HasMade
          <5>4. CASE p = "log"
            BY <5>1, <5>4, <4>1, <3>1, <3>2, <3>3 DEF HasMade
          <5>5. QED
            BY <1>9, <3>6, <5>2, <5>3, <5>4
        <4>5. QED
          BY <4>1, <4>2, <4>3, <4>4 DEF Agrees
      <3>7. QED
        BY <3>5, <3>6
    <2> HIDE DEF m
    <2>3. f = Idle \/ (f \in Frame /\ Fits(f) /\ f.cmd = run[c].cmd /\ f.pc # "idle")
      BY <1>10 DEF x
    <2>4. Keys(c) \cap apart = {} /\ S = {} =>
            LET q == [l \in Key |-> IF data[l] = r THEN new ELSE Memory[l]]
            IN IF f = Idle THEN \A l \in Keys(c) : saved[l] = q[l] ELSE Agrees(f, data, q, saved)
      BY <2>2 DEF m
    <2>5. QED
      BY <1>1, <1>4, <1>6, <1>8, <1>11, <1>12, <1>13, <1>15, <2>1, <2>3, <2>4, WriteKeeps
  <1>18. QED
    BY <1>16, <1>17
-----------------------------------------------------------------------------
(* RPOPLPUSH takes the last element of its source.                         *)
LEMMA TakeLastKeeps ==
  ASSUME ObjectsInv, NEW c \in Client, TakeLast(c)
  PROVE  ObjectsInv'
  <1> DEFINE x == run[c].cmd r == run[c].refs[1] a == At(c, 1) b == At(c, 2)
  <1>0. OwnInv /\ TypeOK /\ FitsAll
    BY DEF ObjectsInv, OwnInv
  <1>1. run[c].pc = "inside" /\ run[c].pc # "idle" /\ x.op = "rpoplpush" /\ UNCHANGED <<data, saved, apart>>
    BY DEF TakeLast
  <1>2. PICK o \in Found(r) : \E new \in Effects(x, o) :
          /\ Be(c, [run[c] EXCEPT !.pc = "into",
                    !.acc = {IF Empty(o) THEN None ELSE o.seq[Len(o.seq)]}])
          /\ Leave(c, r, new)
    BY DEF TakeLast
  <1> DEFINE e == {IF Empty(o) THEN None ELSE o.seq[Len(o.seq)]} f == [run[c] EXCEPT !.pc = "into", !.acc = e]
  <1>3. PICK new \in Effects(x, o) : Be(c, f) /\ Leave(c, r, new)
    BY <1>2
  <1>4. /\ run[c] \in Frame /\ Fits(run[c]) /\ x \in CommandSet /\ Shaped(x) /\ x.op = Op(c)
        /\ a \in Keys(c) /\ Keys(c) \subseteq Key /\ a = x.keys[1] /\ Keys(c) = Touched(x)
        /\ r \in Refs(c) /\ r \in Ref /\ r # None /\ heap[r].kind \in {"list", "set"} /\ Serves(x.op, heap[r])
        /\ Len(run[c].refs) = 2
    <2>1. run[c].pc \in {"inside", "into"}
      BY <1>1
    <2>2. QED
      BY <2>1, <1>1, InsideFacts
  <1>5. b = x.keys[2] /\ b \in Keys(c) /\ Keys(c) = {a, b}
    <2>1. Len(x.keys) = 2
      BY <1>1, <1>4 DEF Shaped
    <2>2. QED
      BY <2>1, <1>4, TouchedIs DEF At
  <1>6. o \in Contents /\ o.kind = heap[r].kind /\ Proper(o) /\ Serves(x.op, o) /\ o.kind = "list"
    <2>1. o \in Contents /\ o.kind = heap[r].kind /\ Proper(o)
      BY <1>0, <1>4, FoundType
    <2>2. QED
      BY <2>1, <1>1, <1>4 DEF Serves, ListOps
  <1>7. new \in Contents /\ new.kind = heap[r].kind /\ Proper(new)
    BY <1>4, <1>6, EffectType
  <1>8. e \in SUBSET Elem
    <2>1. o.seq \in Seq(Elem) /\ (~Empty(o) => o.seq # <<>>)
      BY <1>6 DEF Contents, Empty, Proper
    <2>2. ~Empty(o) => o.seq[Len(o.seq)] \in Elem
      BY <2>1, PartsOf
    <2>3. QED
      BY <2>2 DEF Elem
  <1>9. /\ f.pc = "into" /\ f.cmd = x /\ f.refs = run[c].refs /\ f.i = run[c].i /\ f.acc = e
        /\ f \in Frame
    <2>1. "into" \in Places
      BY DEF Places
    <2> HIDE DEF e
    <2>2. QED
      BY <2>1, <1>4, <1>8 DEF Frame
  <1> HIDE DEF x, r, a, b, f, e
  <1>10. Fits(f) /\ Held(f) = Refs(c)
    <2>1. Fits(f)
      BY <1>1, <1>4, <1>8, <1>9 DEF Fits, Stores
    <2>2. QED
      BY <2>1, <1>9 DEF Held, Refs
  <1> DEFINE m == [l \in Key |-> IF data[l] = r THEN new ELSE Memory[l]]
  <1>11. ASSUME Keys(c) \cap apart = {} PROVE Agrees(f, data, m, saved)
    <2>1. HasMade(run[c], Memory, saved) /\ Holds(run[c], data) /\ r \notin torn /\ Sound(saved[a])
      BY SMTT(30), <1>1, <1>4, <1>11, Followed
    <2>2. r = data[a] /\ run[c].refs[2] = data[b]
      BY <2>1, <1>1, <1>4, <1>5 DEF Holds, x, r, Stores
    <2>3. o = heap[r]
      BY <2>1, FoundIs
    <2>4. Memory[a] = heap[r]
      BY ONLY SMTT(30), <2>2, <1>4 DEF Memory, InMemory
    <2>5. saved[a] = o /\ (a # b => Memory[b] = List(saved[b].seq))
      BY <2>1, <2>3, <2>4, <1>1, <1>4, <1>5 DEF HasMade, x
    <2>6. o.seq # <<>> /\ ~Empty(o)
      BY <2>1, <2>5, <1>6 DEF Sound, Empty
    <2>7. new = List(Front(o.seq)) /\ e = {o.seq[Len(o.seq)]}
      BY <1>1, <2>6 DEF Effects, e
    <2>8. m[a] = new /\ (a # b => m[b] = Memory[b])
      <3>1. a # b => data[b] # data[a]
        BY <1>1, <1>4, <1>5, <1>11, <2>2, Followed
      <3>2. QED
        BY <3>1, <2>2, <1>4, <1>5
    <2> HIDE DEF m
    <2>9. Holds(f, data)
      BY <1>1, <1>4, <1>5, <1>9, <2>2 DEF Holds, r, Stores
    <2>10. HasRead(f, saved)
      BY <1>1, <1>4, <1>9, <2>5, <2>6, <2>7 DEF HasRead, Stores
    <2>11. HasMade(f, m, saved)
      BY <1>1, <1>4, <1>5, <1>9, <2>5, <2>7, <2>8 DEF HasMade
    <2>12. QED
      BY <2>9, <2>10, <2>11 DEF Agrees
  <1>12. Keys(c) \cap apart = {} /\ {} = {} =>
           LET q == [l \in Key |-> IF data[l] = r THEN new ELSE Memory[l]]
           IN IF f = Idle THEN \A l \in Keys(c) : saved[l] = q[l] ELSE Agrees(f, data, q, saved)
    <2>1. f # Idle
      BY <1>9 DEF Idle
    <2>2. QED
      BY <2>1, <1>11 DEF m
  <1> HIDE DEF m
  <1>13. Part({})
    BY <1>0, <1>1, MemoryType DEF Part
  <1>14. f.cmd = run[c].cmd /\ f.pc # "idle" /\ ~(Op(c) = "rename" /\ run[c].pc = "drop") /\ UNCHANGED data /\ Be(c, f)
    BY <1>1, <1>3, <1>9 DEF x
  <1>15. Held(f) \subseteq Refs(c) /\ Leave(c, r, new)
    BY <1>3, <1>10
  <1>16. QED
    BY SMTT(30), <1>1, <1>4, <1>7, <1>9, <1>10, <1>12, <1>13, <1>14, <1>15, WriteKeeps

(* What a command that has taken an element knows of the log.              *)
LEMMA IntoReads ==
  ASSUME NEW g, NEW st, g.pc = "into", HasRead(g, st), NEW x, x = g.cmd, NEW a, a = x.keys[1]
  PROVE  st[a].seq # <<>> /\ g.acc = {st[a].seq[Len(st[a].seq)]}
  BY DEF HasRead

LEMMA IntoMakes ==
  ASSUME NEW g, NEW m, NEW st, g.pc = "into", HasMade(g, m, st),
         NEW x, x = g.cmd, x.op = "rpoplpush", NEW a, a = x.keys[1], NEW b, b = x.keys[2]
  PROVE  m[a] = List(Front(st[a].seq)) /\ (a # b => m[b] = List(st[b].seq))
  BY DEF HasMade

(* What it takes is put in front of the destination.                       *)
LEMMA PushIntoKeeps ==
  ASSUME ObjectsInv, NEW c \in Client, PushInto(c)
  PROVE  ObjectsInv'
  <1> DEFINE x == run[c].cmd r == run[c].refs[2] a == At(c, 1) b == At(c, 2)
             f == [run[c] EXCEPT !.pc = "check", !.acc = None]
  <1>0. OwnInv /\ TypeOK /\ FitsAll
    BY DEF ObjectsInv, OwnInv
  <1>1. run[c].pc = "into" /\ run[c].pc # "idle" /\ UNCHANGED <<data, saved, apart>>
    BY DEF PushInto
  <1>2. PICK o \in Found(r), v \in run[c].acc : Be(c, f) /\ Leave(c, r, List(<<v>> \o o.seq))
    BY DEF PushInto
  <1> DEFINE new == List(<<v>> \o o.seq)
  <1>3. /\ run[c] \in Frame /\ Fits(run[c]) /\ x \in CommandSet /\ Shaped(x) /\ x.op = Op(c)
        /\ a \in Keys(c) /\ Keys(c) \subseteq Key /\ a = x.keys[1] /\ Keys(c) = Touched(x)
    <2>1. run[c].pc \in {"inside", "into"}
      BY <1>1
    <2>2. QED
      BY <2>1, InsideFacts
  <1>4. x.op = "rpoplpush" /\ Len(run[c].refs) = 2 /\ run[c].acc \in SUBSET Elem
    BY <1>1, <1>3 DEF Fits
  <1>5. r \in Refs(c) /\ r \in Ref /\ r # None /\ heap[r].kind \in {"list", "set"} /\ Serves(x.op, heap[r])
    <2>1. run[c].pc \in {"inside", "into"} /\ 2 \in 1..Len(run[c].refs)
      BY <1>1, <1>4
    <2>2. QED
      BY <2>1, InsideFacts
  <1>6. b = x.keys[2] /\ b \in Keys(c) /\ Keys(c) = {a, b}
    <2>1. Len(x.keys) = 2
      BY <1>3, <1>4 DEF Shaped
    <2>2. QED
      BY <2>1, <1>3, TouchedIs DEF At
  <1>7. o \in Contents /\ o.kind = "list" /\ heap[r].kind = "list" /\ Proper(o)
    <2>1. o \in Contents /\ o.kind = heap[r].kind /\ Proper(o)
      BY <1>0, <1>5, FoundType
    <2>2. QED
      BY <2>1, <1>4, <1>5 DEF Serves, ListOps
  <1>8. v \in Elem /\ \A s \in Seq(Elem) : <<v>> \o s \in Seq(Elem) /\ <<v>> \o s # <<>>
    BY <1>4
  <1>9. \A s \in Seq(Elem) : /\ List(s) \in Contents /\ Proper(List(s)) /\ List(s).kind = "list"
                             /\ List(s).seq = s /\ List(s).mem = {}
    BY DEF List, Object, Contents, Proper
  <1>10. o.seq \in Seq(Elem) /\ new \in Contents /\ Proper(new) /\ new.kind = heap[r].kind
    <2>1. o.seq \in Seq(Elem)
      BY <1>7 DEF Contents
    <2>2. QED
      BY <2>1, <1>7, <1>8, <1>9
  <1>11. /\ f.pc = "check" /\ f.cmd = x /\ f.refs = run[c].refs /\ f.i = run[c].i /\ f.acc = None
         /\ f \in Frame
    <2>1. "check" \in Places
      BY DEF Places
    <2>2. QED
      BY <2>1, <1>3 DEF Frame
  <1> HIDE DEF x, r, a, b, f
  <1>12. Fits(f) /\ Held(f) = Refs(c)
    <2>1. Fits(f)
      BY <1>3, <1>4, <1>11 DEF Fits, Stores
    <2>2. QED
      BY <2>1, <1>11 DEF Held, Refs
  <1> DEFINE m == [l \in Key |-> IF data[l] = r THEN new ELSE Memory[l]]
  <1>13. ASSUME Keys(c) \cap apart = {} PROVE Agrees(f, data, m, saved)
    <2> DEFINE s == saved[a].seq
    <2>1. /\ HasMade(run[c], Memory, saved) /\ HasRead(run[c], saved) /\ Holds(run[c], data)
          /\ r \notin torn /\ Sound(saved[a]) /\ Sound(saved[b])
      <3>1. run[c].pc # "idle" /\ r \in Refs(c) /\ a \in Keys(c) /\ b \in Keys(c)
        BY <1>1, <1>3, <1>5, <1>6
      <3>2. /\ HasMade(run[c], Memory, saved) /\ HasRead(run[c], saved) /\ Holds(run[c], data)
            /\ \A l \in Keys(c) : Sound(saved[l])
            /\ Refs(c) \cap torn = {}
        BY SMTT(30), <3>1, <1>13, Followed
      <3>3. QED
        BY ONLY <3>1, <3>2
    <2>2. r = data[b] /\ run[c].refs[1] = data[a]
      BY <2>1, <1>1, <1>3, <1>4, <1>6 DEF Holds, x, r
    <2>3. o = heap[r] /\ Memory[b] = heap[r]
      <3>1. o \in Found(r)
        BY <1>2
      <3>2. o = heap[r]
        BY <3>1, <2>1, FoundIs
      <3>3. Memory[b] = heap[r]
        BY ONLY SMTT(30), <2>2, <1>3, <1>5, <1>6 DEF Memory, InMemory
      <3>4. QED
        BY <3>2, <3>3
    <2>4. s # <<>> /\ v = s[Len(s)]
      <3>1. x = run[c].cmd /\ a = x.keys[1] /\ v \in run[c].acc
        BY <1>2, <1>3 DEF x
      <3>2. saved[a].seq # <<>> /\ run[c].acc = {saved[a].seq[Len(saved[a].seq)]}
        <4>1. run[c].pc = "into" /\ HasRead(run[c], saved)
          BY <1>1, <2>1
        <4>2. QED
          BY ONLY <3>1, <4>1, IntoReads
      <3>3. QED
        BY ONLY <3>1, <3>2
    <2>5. Memory[a] = List(Front(s)) /\ (a # b => Memory[b] = List(saved[b].seq))
      <3>1. x = run[c].cmd /\ a = x.keys[1] /\ b = x.keys[2] /\ x.op = "rpoplpush"
        BY <1>3, <1>4, <1>6 DEF x
      <3>2. run[c].pc = "into" /\ HasMade(run[c], Memory, saved)
        BY <1>1, <2>1
      <3>3. QED
        BY ONLY <3>1, <3>2, IntoMakes
    <2>6. saved \in [Key -> Contents] /\ s \in Seq(Elem) /\ saved[b].seq \in Seq(Elem)
      BY <1>0, <1>3, <1>6 DEF TypeOK, Contents
    <2> HIDE DEF s
    <2>7. Front(s) \in Seq(Elem)
      BY <2>4, <2>6, PartsOf
    <2>8. Apply(x, saved) = Moved(saved, a, b)
      BY <1>3, <1>4, <1>6 DEF Apply, Stores
    <2>9. \A t \in Seq(Elem) : Sound(List(<<v>> \o t)) /\ ~Empty(List(<<v>> \o t))
      BY <1>8 DEF List, Object, Sound, Proper, Empty
    <2> DEFINE short == [saved EXCEPT ![a] = Kept(List(Front(s)))]
    <2>10. Moved(saved, a, b) = [short EXCEPT ![b] = List(<<v>> \o @.seq)]
      BY <2>4 DEF Moved, s
    <2>11. short[a] = Kept(List(Front(s))) /\ (a # b => short[b] = saved[b]) /\ DOMAIN short = Key
      BY <2>6, <1>3, <1>6
    <2> HIDE DEF short
    <2>12. CASE a = b
      <3>1. o.seq = Front(s)
        BY <2>3, <2>5, <2>7, <1>9, <2>12
      <3>2. short[b].seq = Front(s)
        <4>1. Kept(List(Front(s))).seq = Front(s)
          BY <2>7, <1>9 DEF Kept, Empty, Absent, Object
        <4>2. QED
          BY <4>1, <2>11, <2>12
      <3>3. Apply(x, saved)[a] = new
        BY <2>8, <2>10, <2>11, <2>12, <3>1, <3>2, <1>3
      <3>4. m[a] = new /\ Kept(new) = new
        BY <1>3, <1>10, <2>2, <2>9, <2>12 DEF Kept
      <3> HIDE DEF m, new
      <3>5. HasMade(f, m, saved)
        BY <1>3, <1>6, <1>11, <2>12, <3>3, <3>4 DEF HasMade
      <3>6. QED
        BY <3>5, <2>2, <1>3, <1>4, <1>11 DEF Agrees, HasRead, Holds, Stores
    <2>13. CASE a # b
      <3>1. data[a] # data[b]
        BY <1>1, <1>3, <1>5, <1>6, <1>13, <2>2, <2>13, Followed
      <3>2. m[b] = new /\ m[a] = Memory[a]
        BY <3>1, <2>2, <1>3, <1>6
      <3>3. o.seq = saved[b].seq
        BY <2>3, <2>5, <2>6, <2>13, <1>9
      <3>4. Apply(x, saved)[a] = Kept(m[a])
        BY ONLY SMTT(30), <2>5, <2>8, <2>10, <2>11, <2>13, <3>2, <1>3
      <3>5. Apply(x, saved)[b] = m[b] /\ Sound(m[b])
        <4>1. m[b] = List(<<v>> \o saved[b].seq)
          BY <3>2, <3>3
        <4> HIDE DEF m, new
        <4>2. Sound(m[b])
          BY ONLY <2>6, <2>9, <4>1
        <4>3. Moved(saved, a, b)[b] = List(<<v>> \o saved[b].seq)
          BY ONLY <1>3, <1>6, <2>10, <2>11, <2>13
        <4>4. QED
          BY ONLY <2>8, <4>1, <4>2, <4>3
      <3> HIDE DEF m, new
      <3>6. HasMade(f, m, saved)
        BY <1>3, <1>6, <1>11, <3>4, <3>5 DEF HasMade
      <3>7. QED
        BY <3>6, <2>2, <1>3, <1>4, <1>11 DEF Agrees, HasRead, Holds, Stores
    <2>14. QED
      BY <2>12, <2>13
  <1> HIDE DEF new
  <1>14. Keys(c) \cap apart = {} /\ {} = {} =>
           LET q == [l \in Key |-> IF data[l] = r THEN new ELSE Memory[l]]
           IN IF f = Idle THEN \A l \in Keys(c) : saved[l] = q[l] ELSE Agrees(f, data, q, saved)
    <2>1. f # Idle
      BY <1>11 DEF Idle
    <2>2. QED
      BY <2>1, <1>13 DEF m
  <1> HIDE DEF m
  <1>15. Part({})
    BY <1>0, <1>1, MemoryType DEF Part
  <1>16. f.cmd = run[c].cmd /\ f.pc # "idle" /\ ~(Op(c) = "rename" /\ run[c].pc = "drop") /\ UNCHANGED data
    BY <1>1, <1>11 DEF x
  <1>17. Held(f) \subseteq Refs(c) /\ Leave(c, r, new) /\ Be(c, f)
    BY <1>2, <1>12 DEF new
  <1>18. QED
    BY <1>1, <1>5, <1>10, <1>11, <1>12, <1>14, <1>15, <1>16, <1>17, WriteKeeps
-----------------------------------------------------------------------------
(* At the start nothing is there.                                          *)
LEMMA InitKeeps == Init => ObjectsInv
  <1> SUFFICES ASSUME Init PROVE ObjectsInv
    OBVIOUS
  <1>1. /\ data = [k \in Key |-> None] /\ heap = [r \in Ref |-> Absent] /\ torn = {}
        /\ run = [c \in Client |-> Idle] /\ saved = [k \in Key |-> Absent] /\ apart = {}
    BY DEF Init
  <1>2. Absent \in Contents /\ Proper(Absent) /\ Sound(Absent)
    BY DEF Absent, Object, Contents, Proper, Sound
  <1>3. Idle \in Frame /\ Fits(Idle) /\ Held(Idle) = {} /\ Touched(Idle.cmd) = {} /\ Idle.pc = "idle"
    BY IdleFits, NoTouch DEF Idle
  <1>4. TypeOK
    BY <1>1, <1>2, <1>3 DEF TypeOK
  <1>5. FitsAll
    BY <1>1, <1>3 DEF FitsAll
  <1>6. \A c \in Client : Keys(c) = {} /\ Refs(c) = {} /\ run[c] = Idle
    BY <1>1, <1>3 DEF Keys, Refs, Held
  <1>7. Solo /\ Owned
    BY <1>1, <1>6 DEF Solo, Owned
  <1>8. Alive
    <2>1. \A r \in Ref : ~InUse(r) /\ heap[r] = Absent
      BY <1>1, <1>6, InUseIs, ObjectsAssumption
    <2>2. QED
      BY <1>1, <1>2, <1>6, <2>1 DEF Alive
  <1>9. Follows
    BY <1>1, <1>2, <1>3, <1>6 DEF Follows, Memory, InMemory
  <1>10. QED
    BY <1>4, <1>5, <1>7, <1>8, <1>9 DEF ObjectsInv, OwnInv

(* Every step keeps the invariant.                                         *)
LEMMA NextKeeps == ObjectsInv /\ [Next]_vars => ObjectsInv'
  <1> SUFFICES ASSUME ObjectsInv, [Next]_vars PROVE ObjectsInv'
    OBVIOUS
  <1>1. ASSUME NEW c \in Client, Step(c) PROVE ObjectsInv'
    BY <1>1, GetKeeps, PutEmptyKeeps, WorkKeeps, TakeLastKeeps, PushIntoKeeps, PanicKeeps, CheckKeeps, RemoveKeeps,
       RemoveOnlyKeeps, CopyKeeps, ClearKeeps, PutResultKeeps, RenamePutKeeps, AddAofKeeps DEF Step
  <1>2. ASSUME NEW c \in Client, NEW x \in CommandSet, Exec(c, x) PROVE ObjectsInv'
    BY <1>2, ExecKeeps
  <1>3. CASE UNCHANGED vars
    <2>1. UNCHANGED <<data, heap, torn, run, saved, apart>>
      BY <1>3 DEF vars
    <2>2. TypeOK' /\ FitsAll'
      BY <2>1 DEF ObjectsInv, OwnInv, TypeOK, FitsAll
    <2>3. /\ \A c \in Client : Keys(c)' = Keys(c) /\ Refs(c)' = Refs(c) /\ Op(c)' = Op(c)
          /\ \A k, l : Renaming(k, l)' <=> Renaming(k, l)
          /\ \A r : InUse(r)' <=> InUse(r)
          /\ \A k : Working(k)' = Working(k)
          /\ Memory' = Memory
      BY <2>1 DEF Keys, Refs, Op, At, Renaming, InUse, Working, Memory, InMemory
    <2>4. Solo'
      BY <2>1, <2>3 DEF ObjectsInv, OwnInv, Solo
    <2>5. Owned'
      BY <2>1, <2>3 DEF ObjectsInv, OwnInv, Owned
    <2>6. Alive'
      BY <2>1, <2>3 DEF ObjectsInv, OwnInv, Alive
    <2>7. Follows'
      BY <2>1, <2>3 DEF ObjectsInv, Follows
    <2>8. QED
      BY <2>2, <2>4, <2>5, <2>6, <2>7 DEF ObjectsInv, OwnInv
  <1>4. QED
    BY <1>1, <1>2, <1>3 DEF Next

-----------------------------------------------------------------------------
(* Whatever commands run beside each other: objects are in hand or under a *)
(* key as the invariant says, and a command that nothing disturbs is as    *)
(* far on as its place in list.go, set.go or keys.go has it.               *)
THEOREM ObjectsInvHolds == Spec => []ObjectsInv
  BY InitKeeps, NextKeeps, PTL DEF Spec

(* The variables have their types: a key leads to a list or a set, lists   *)
(* hold elements (or the nil that RPOPLPUSH moves), sets members.          *)
THEOREM ObjectsTyping == Spec => []TypeOK
  <1>1. ObjectsInv => TypeOK
    BY DEF ObjectsInv, OwnInv
  <1>2. QED
    BY <1>1, ObjectsInvHolds, PTL

(* For any clients, keys, elements and references: stores copy, so that no *)
(* two keys lead to one list or set, but where commands overlap on them or *)
(* within a RENAME; and no key leads to an object that is gone.            *)
THEOREM ObjectsHaveOneOwner == Spec => []OneOwner
  <1>1. ObjectsInv => OneOwner
    <2> SUFFICES ASSUME ObjectsInv, NEW k \in Key, data[k] # None
                 PROVE  /\ heap[data[k]].kind # "none"
                        /\ \A l \in Key \ {k} : data[l] = data[k] => {k, l} \subseteq apart \/ Renaming(k, l)
      BY DEF OneOwner
    <2>1. heap[data[k]].kind # "none"
      BY InHand
    <2>2. \A l \in Key \ {k} : data[l] = data[k] => {k, l} \subseteq apart \/ Renaming(k, l)
      BY DEF ObjectsInv, OwnInv, Owned
    <2>3. QED
      BY <2>1, <2>2
  <1>2. QED
    BY <1>1, ObjectsInvHolds, PTL

(* Two commands are inside one object, one of them writing, only after     *)
(* commands have overlapped on their keys; so whoever keeps to his own     *)
(* keys never finds a list or set torn by a data race.                     *)
THEOREM NoRaceOnOwnKeys == Spec => []RacesApart
  <1>1. ObjectsInv => RacesApart
    <2> SUFFICES ASSUME ObjectsInv PROVE RacesApart
      OBVIOUS
    <2>1. \A c, d \in Client : Racing(c, d) => Keys(c) \cup Keys(d) \subseteq apart
      BY RacingIs DEF ObjectsInv
    <2>2. \A k \in Key : data[k] \in torn => k \in apart
      BY DEF ObjectsInv, OwnInv, Owned
    <2>3. QED
      BY <2>1, <2>2 DEF RacesApart, Keys
  <1>2. QED
    BY <1>1, ObjectsInvHolds, PTL

(* The log rebuilds every list and set of a key that is still followed,    *)
(* however long its lists grow and whatever the other clients do: each     *)
(* command of list.go, set.go and keys.go hands to addAof what its replay  *)
(* makes of its keys.                                                      *)
THEOREM LogRebuildsObjects == Spec => []RecoveryExact
  <1>1. ObjectsInv => RecoveryExact
    <2> SUFFICES ASSUME ObjectsInv, NEW k \in Key \ apart
                 PROVE  /\ Working(k) = {} => saved[k] = InMemory(k)
                        /\ \A c \in Working(k) : run[c].pc = "log" => Apply(run[c].cmd, saved)[k] = InMemory(k)
      BY DEF RecoveryExact
    <2>1. Memory[k] = InMemory(k)
      BY DEF Memory
    <2>2. Working(k) = {} => saved[k] = InMemory(k)
      BY <2>1 DEF ObjectsInv, Follows
    <2>3. ASSUME NEW c \in Working(k), run[c].pc = "log" PROVE Apply(run[c].cmd, saved)[k] = InMemory(k)
      <3>1. c \in Client /\ k \in Keys(c)
        BY DEF Working, Keys
      <3>2. Keys(c) \cap apart = {}
        BY <3>1 DEF ObjectsInv, OwnInv, Solo
      <3>3. HasMade(run[c], Memory, saved)
        BY <2>3, <3>1, <3>2, Followed
      <3>4. QED
        BY <2>1, <2>3, <3>1, <3>3 DEF HasMade, Keys
    <2>4. QED
      BY <2>2, <2>3
  <1>2. QED
    BY <1>1, ObjectsInvHolds, PTL

(* "assert: size > 0" (list.go:276) is right for a key on which nothing    *)
(* has overlapped: LSET and LINDEX never meet an empty list there.         *)
THEOREM NoEmptyListMet == Spec => []AssertedSize
  <1>1. ObjectsInv => AssertedSize
    <2> SUFFICES ASSUME ObjectsInv, NEW c \in Client, Op(c) \in {"lset", "lindex"}, run[c].pc = "inside", At(c, 1) \notin apart
                 PROVE  heap[run[c].refs[1]].seq # <<>>
      BY DEF AssertedSize
    <2>1. /\ At(c, 1) \in Keys(c) /\ Keys(c) \subseteq Key /\ At(c, 1) = run[c].cmd.keys[1] /\ Keys(c) = Touched(run[c].cmd)
          /\ run[c].cmd.op = Op(c) /\ run[c].refs[1] # None /\ Serves(Op(c), heap[run[c].refs[1]])
      BY InsideFacts
    <2>2. Keys(c) \cap apart = {}
      BY <2>1 DEF ObjectsInv, OwnInv, Solo
    <2>3. HasMade(run[c], Memory, saved) /\ Holds(run[c], data) /\ Sound(saved[At(c, 1)])
      BY <2>1, <2>2, Followed
    <2>4. run[c].refs[1] = data[At(c, 1)]
      BY <2>1, <2>3 DEF Holds, Stores
    <2>5. heap[run[c].refs[1]] = Memory[At(c, 1)]
      BY <2>1, <2>4 DEF Memory, InMemory
    <2>6. Memory[At(c, 1)] = saved[At(c, 1)]
      BY <2>1, <2>3 DEF HasMade
    <2>7. heap[run[c].refs[1]].kind = "list"
      BY <2>1 DEF Serves, ListOps
    <2>8. QED
      BY <2>3, <2>5, <2>6, <2>7 DEF Sound
  <1>2. QED
    BY <1>1, ObjectsInvHolds, PTL
=============================================================================
