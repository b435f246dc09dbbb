------------------------------ MODULE SharedObjects ------------------------------
(***************************************************************************)
(* The commands on lists and sets (database/list.go, database/set.go), and *)
(* DEL and RENAME on their keys, as the goroutines of many connections run *)
(* them at once on one database.                                           *)
(*                                                                         *)
(* A key's value is a reference to a list or set that all goroutines       *)
(* share.  A command fetches the reference from the dict and then works on *)
(* the object, without a lock, for as long as it is `inside': meanwhile    *)
(* the key may be removed or given to another object, and others may be    *)
(* inside the same object, which is a data race when one of them writes.   *)
(* A raced write is done as intended, or leaves a `torn' object, in which  *)
(* whoever works on it finds anything or panics (Exec recovers).           *)
(*                                                                         *)
(* As in module Commands, a command that changed something hands itself to *)
(* addAof as its last act, and `saved' is what replaying the log makes.    *)
(* Databases and restarts are in that module: a replay is one client's run *)
(* of commands, which is a behaviour of this one.  Which elements a LREM   *)
(* with a count removes, and positions, are module LinkedList's: LREM is   *)
(* given 0 and LSET the head here, and a push one element, a set command   *)
(* one member.  A command that only reads is a look at each of its objects.*)
(***************************************************************************)
EXTENDS Integers, Sequences, FiniteSets

CONSTANTS
  Client,    \* the goroutines of the connections
  Key,
  Val,       \* elements of lists, members of sets
  None,      \* no object, no set accumulated, the nil element
  Ref,       \* references, numbered (bound: an object is made while one is unused)
  MaxLen,    \* bound on the length of a list
  Ops        \* the commands in use

ASSUME ObjectsAssumption ==
  /\ Ref \subseteq Nat /\ None \notin Ref \cup Val
  /\ \A S \in SUBSET (Val \cup {None}) : None # S
  /\ MaxLen \in Nat \ {0}

VARIABLES
  data,    \* data[k]: the object of key k
  heap,    \* the objects
  torn,    \* those whose contents are unknown after a race
  run,     \* run[c]: the command of a client and its locals
  saved,   \* what the log would rebuild
  apart    \* keys whose value in memory and log may differ

vars == <<data, heap, torn, run, saved, apart>>

Object(k, s, m) == [kind |-> k, seq |-> s, mem |-> m]
List(s)  == Object("list", s, {})
MkSet(m) == Object("set", <<>>, m)
Absent   == Object("none", <<>>, {})
Empty(o) == o.seq = <<>> /\ o.mem = {}

Pushes  == {"lpush", "rpush", "lpushx", "rpushx"}
ListOps == Pushes \cup {"lpop", "rpop", "lrem", "lset", "lindex", "rpoplpush"}
Stores  == {"sinterstore", "sunionstore", "sdiffstore"}
SetOps  == Stores \cup {"sadd", "srem", "spop"}

Singles == {<<k>> : k \in Key}
Pairs   == Key \X Key
Command(ops, keys, vals) == [op : ops \cap Ops, keys : keys, val : vals, n : {0}]
CommandSet ==
       Command(Pushes \cup {"lrem", "lset", "sadd", "srem"}, Singles, Val)
  \cup Command({"lpop", "rpop", "lindex", "look", "del"}, Singles, {None})
  \cup Command({"rpoplpush", "rename"}, Pairs, {None})
  \cup Command(Stores, Pairs \cup {t \in Key \X Key \X Key : t[2] # t[3]}, {None})
  \cup [op : {"spop"} \cap Ops, keys : Singles, val : {None}, n : {1, 2}]
NoCommand == [op |-> "none", keys |-> <<>>, val |-> None, n |-> 0]

(* Where it is, the command, which key it is at, the objects fetched, and  *)
(* the set accumulated or (in a set) the element popped.                   *)
Idle == [pc |-> "idle", cmd |-> NoCommand, i |-> 1, refs |-> <<>>, acc |-> None]

Init ==
  /\ data = [k \in Key |-> None]
  /\ heap = [r \in Ref |-> Absent]
  /\ torn = {}
  /\ run  = [c \in Client |-> Idle]
  /\ saved = [k \in Key |-> Absent]
  /\ apart = {}

-----------------------------------------------------------------------------
Op(c)    == run[c].cmd.op
At(c, n) == run[c].cmd.keys[n]
Touched(x) == {x.keys[n] : n \in DOMAIN x.keys}

Be(c, f)  == run' = [run EXCEPT ![c] = f]
Goto(c, p) == Be(c, [run[c] EXCEPT !.pc = p])
Reply(c)  == Be(c, Idle)
NextOr(c, p) == Be(c, IF p = "idle" THEN Idle ELSE [run[c] EXCEPT !.pc = p])

(* The objects after a step; those no one refers to any more are collected.*)
InUse(r) == \/ \E k \in Key : data[k] = r
            \/ \E c \in Client : \E n \in DOMAIN run[c].refs : run[c].refs[n] = r
Objects(h, t) ==
  /\ heap' = [r \in Ref |-> IF InUse(r)' THEN h[r] ELSE Absent]
  /\ torn' = {r \in t : InUse(r)'}
Unused == {r \in Ref : ~InUse(r)}
Fresh  == CHOOSE r \in Unused : TRUE

Drop(k)   == data' = [data EXCEPT ![k] = None]
(* Memory and log may differ from now on in these keys.                    *)
Part(S) ==
  /\ apart' = apart \cup S
  /\ saved' = [k \in Key |-> IF k \in S THEN Absent ELSE saved[k]]

(* The object c is at work on, and whether others are, one of them writing.*)
Touching(c) ==
  CASE run[c].pc = "inside" -> {run[c].refs[1]}
    [] run[c].pc = "into"   -> {run[c].refs[2]}
    [] OTHER -> {}
Reads(x) == x.op \in {"lindex", "look"} \cup Stores
Racing(c, d) == /\ c # d /\ Touching(c) \cap Touching(d) # {}
                /\ ~(Reads(run[c].cmd) /\ Reads(run[d].cmd))
Raced(c) == \E d \in Client : Racing(c, d)

(* What c may find in an object, and what it leaves when it wrote o there. *)
Possible(kind) == IF kind = "set" THEN {MkSet(m) : m \in SUBSET Val}
                  ELSE {List(s) : s \in {<<>>} \cup {<<v>> : v \in Val}}
Found(r) == IF r \in torn THEN Possible(heap[r].kind) ELSE {heap[r]}
Leave(c, r, o) ==
  \E t \in {torn} \cup (IF Raced(c) THEN {torn \cup {r}} ELSE {}) :
    Objects([heap EXCEPT ![r] = IF r \in t THEN Object(@.kind, <<>>, {}) ELSE o], t)
-----------------------------------------------------------------------------
(* A command begins.  As in module Commands, keys on which commands        *)
(* overlap are no longer followed.  (Bound: a key that is not followed is  *)
(* given to no other command.)                                             *)
Rivals(x) == {d \in Client : Touched(run[d].cmd) \cap Touched(x) # {}}
Disturbed(x) ==
  IF Rivals(x) = {} THEN {}
  ELSE Touched(x) \cup UNION {Touched(run[d].cmd) : d \in Rivals(x)}

Exec(c, x) ==
  /\ run[c] = Idle /\ Touched(x) \cap apart = {}
  /\ Be(c, [Idle EXCEPT !.pc = "get", !.cmd = x, !.i = IF x.op \in Stores THEN 2 ELSE 1])
  /\ Part(Disturbed(x))
  /\ UNCHANGED <<data, heap, torn>>

(* getAsList, getAsSet, GetEntity: fetch the object of the key at hand.    *)
Wanted(x, o) == /\ x.op \in ListOps => o.kind = "list"
                /\ x.op \in SetOps  => o.kind = "set"
Creates(c) == \/ Op(c) \in {"lpush", "rpush", "sadd"}
              \/ Op(c) = "rpoplpush" /\ run[c].i = 2
LastKey(c) == run[c].i = Len(run[c].cmd.keys)
(* To the next source of a store, or to its end.                           *)
Onward(c, a) ==
  Be(c, [run[c] EXCEPT !.acc = a, !.refs = <<>>,
                       !.i  = IF LastKey(c) THEN @ ELSE @ + 1,
                       !.pc = IF ~LastKey(c) THEN "get"
                              ELSE IF Op(c) = "sunionstore" THEN "clear" ELSE "put"])

GetFound(c, r) ==
  IF ~Wanted(run[c].cmd, heap[r]) THEN Reply(c)
  ELSE CASE Op(c) = "del" -> Goto(c, "drop")
         [] Op(c) = "rename" -> Be(c, [run[c] EXCEPT !.refs = <<r>>, !.pc = "dest"])
         [] Op(c) = "rpoplpush" /\ run[c].i = 1 -> Be(c, [run[c] EXCEPT !.refs = <<r>>, !.i = 2])
         [] OTHER -> Be(c, [run[c] EXCEPT !.refs = Append(@, r), !.pc = "inside"])
(* A slip: LPUSHX and RPUSHX do not notice that there is no list.          *)
GetMissingX(c) ==
  CASE Creates(c) -> Goto(c, "init")
    [] Op(c) \in Stores -> IF Op(c) = "sinterstore" \/ (Op(c) = "sdiffstore" /\ run[c].i = 2)
                           THEN Goto(c, "droponly") ELSE Onward(c, run[c].acc)
    [] Op(c) \in Pushes -> Be(c, [run[c] EXCEPT !.refs = <<None>>, !.pc = "inside"])
    [] OTHER -> Reply(c)

GetMissing(c) ==
  CASE Creates(c) -> Goto(c, "init")
    [] Op(c) \in Stores -> IF Op(c) = "sinterstore" \/ (Op(c) = "sdiffstore" /\ run[c].i = 2)
                           THEN Goto(c, "droponly") ELSE Onward(c, run[c].acc)
    [] OTHER -> Reply(c)
Get(c) ==
  LET r == data[At(c, run[c].i)] IN
  /\ run[c].pc = "get"
  /\ IF r = None THEN GetMissing(c) ELSE GetFound(c, r)
  /\ UNCHANGED <<data, saved, apart>>
  /\ Objects(heap, torn)

(* getOrInitList, getOrInitSet: a new, empty object, in place of whatever  *)
(* the key holds by now.                                                   *)
PutEmpty(c) ==
  LET r == Fresh kind == IF Op(c) = "sadd" THEN "set" ELSE "list" IN
  /\ run[c].pc = "init" /\ Unused # {}
  /\ data' = [data EXCEPT ![At(c, run[c].i)] = r]
  /\ Be(c, [run[c] EXCEPT !.refs = Append(@, r), !.pc = "inside"])
  /\ UNCHANGED <<saved, apart>>
  /\ Objects([heap EXCEPT ![r] = Object(kind, <<>>, {})], torn)

-----------------------------------------------------------------------------
(* The work of the commands with one object: what they may make of it, and *)
(* where they go on.                                                       *)
Front(s) == SubSeq(s, 1, Len(s) - 1)
Without(s, v) ==
  LET kept[n \in 0..Len(s)] ==
        IF n = 0 THEN <<>> ELSE IF s[n] = v THEN kept[n - 1] ELSE Append(kept[n - 1], s[n])
  IN kept[Len(s)]
Some(n, m) == {p \in SUBSET m : Cardinality(p) = n \/ (p = m /\ Cardinality(m) < n)}
Effects(x, o) ==
  CASE x.op \in {"lpush", "lpushx"} -> {List(<<x.val>> \o o.seq)}
    [] x.op \in {"rpush", "rpushx"} -> {List(Append(o.seq, x.val))}
    [] x.op = "lpop" /\ ~Empty(o) -> {List(Tail(o.seq))}
    [] x.op \in {"rpop", "rpoplpush"} /\ ~Empty(o) -> {List(Front(o.seq))}
    [] x.op = "lrem" -> {List(Without(o.seq, x.val))}
    [] x.op = "lset" /\ ~Empty(o) -> {List([o.seq EXCEPT ![1] = x.val])}
    [] x.op = "sadd" -> {MkSet(o.mem \cup {x.val})}
    [] x.op = "srem" -> {MkSet(o.mem \ {x.val})}
    [] x.op = "spop" -> {MkSet(o.mem \ p) : p \in Some(x.n, o.mem)}
    [] OTHER -> {o}

(* LPOP of an empty list panics; LSET refuses; SPOP has nothing to log.    *)
(* LREM and SREM are logged only if they removed something.                *)
Then(x, o, new) ==
  CASE x.op \in {"lindex", "look"} \/ (x.op \in {"lpop", "lset", "spop"} /\ Empty(o)) -> "idle"
    [] x.op = "rpop" \/ (x.op = "lpop" /\ ~Empty(o)) -> "check"
    [] x.op \in {"lrem", "srem"} -> IF new # o THEN "check" ELSE "checkonly"
    [] OTHER -> "log"

(* SPOP of some members but not of all: its replay may pick others.        *)
Guessed(x, new) == IF x.op = "spop" /\ ~Empty(new) THEN Touched(x) ELSE {}

Work(c) ==
  LET x == run[c].cmd r == run[c].refs[1] IN
  /\ run[c].pc = "inside" /\ x.op \notin Stores \cup {"rpoplpush"}
  /\ \E o \in Found(r) : \E new \in Effects(x, o) :
       /\ Len(new.seq) <= MaxLen
       /\ NextOr(c, Then(x, o, new))
       /\ Part(Guessed(x, new))
       /\ UNCHANGED data
       /\ IF Reads(x) THEN Objects(heap, torn) ELSE Leave(c, r, new)

(* RPOPLPUSH works on its source, then on its destination; from an empty   *)
(* list it takes nil.                                                      *)
TakeLast(c) ==
  LET x == run[c].cmd r == run[c].refs[1] IN
  /\ run[c].pc = "inside" /\ x.op = "rpoplpush"
  /\ \E o \in Found(r) : \E new \in Effects(x, o) :
       /\ Be(c, [run[c] EXCEPT !.pc = "into",
                    !.acc = {IF Empty(o) THEN None ELSE o.seq[Len(o.seq)]}])
       /\ UNCHANGED <<data, saved, apart>>
       /\ Leave(c, r, new)

PushInto(c) ==
  LET r == run[c].refs[2] IN
  /\ run[c].pc = "into"
  /\ \E o \in Found(r) : \E v \in run[c].acc :
       /\ Len(o.seq) < MaxLen
       /\ Be(c, [run[c] EXCEPT !.pc = "check", !.acc = None])
       /\ UNCHANGED <<data, saved, apart>>
       /\ Leave(c, r, List(<<v>> \o o.seq))

(* Inside a torn object, or racing, a command may panic.                   *)
Panic(c) ==
  /\ Touching(c) # {} /\ (Raced(c) \/ Touching(c) \subseteq torn)
  /\ Reply(c)
  /\ UNCHANGED <<data, saved, apart>>
  /\ Objects(heap, IF Reads(run[c].cmd) THEN torn ELSE torn \cup Touching(c))

(* A command that removed looks whether it left the object empty, and then *)
(* removes the key, whichever object that leads to by then.                *)
Check(c) ==
  /\ run[c].pc \in {"check", "checkonly"}
  /\ \E o \in Found(run[c].refs[1]) :
       IF Empty(o) THEN Goto(c, IF run[c].pc = "check" THEN "drop" ELSE "droponly")
       ELSE NextOr(c, IF run[c].pc = "check" THEN "log" ELSE "idle")
  /\ UNCHANGED <<data, saved, apart>>
  /\ Objects(heap, torn)

(* A slip: RENAME leaves the old name.                                     *)
RemoveNotOld(c) ==
  /\ run[c].pc = "drop"
  /\ IF Op(c) = "rename" THEN UNCHANGED data ELSE Drop(At(c, 1))
  /\ Goto(c, "log")
  /\ UNCHANGED <<saved, apart>>
  /\ Objects(heap, torn)

Remove(c) ==
  /\ run[c].pc = "drop"
  /\ Drop(At(c, 1))
  /\ Goto(c, "log")
  /\ UNCHANGED <<saved, apart>>
  /\ Objects(heap, torn)

(* A key removed by a command that is not logged: SREM and LREM that find  *)
(* the object already empty, SINTERSTORE and SDIFFSTORE without a result.  *)
RemoveOnly(c) ==
  LET k == At(c, 1) IN
  /\ run[c].pc = "droponly"
  /\ Drop(k)
  /\ Part(IF data[k] = None THEN {} ELSE {k})
  /\ Reply(c)
  /\ Objects(heap, torn)

-----------------------------------------------------------------------------
(* A slip: what the later set has and the earlier ones do not.             *)
CombinedBackwards(op, a, m) ==
  IF a = None THEN m
  ELSE CASE op = "sinterstore" -> a \cap m
         [] op = "sunionstore" -> a \cup m
         [] op = "sdiffstore"  -> m \ a

(* SINTERSTORE, SUNIONSTORE, SDIFFSTORE read their sources one by one.     *)
Combined(op, a, m) ==
  IF a = None THEN m
  ELSE CASE op = "sinterstore" -> a \cap m
         [] op = "sunionstore" -> a \cup m
         [] op = "sdiffstore"  -> a \ m
Copy(c) ==
  /\ run[c].pc = "inside" /\ Op(c) \in Stores
  /\ \E o \in Found(run[c].refs[1]) :
       LET a == Combined(Op(c), run[c].acc, o.mem) IN
       IF a = {} /\ run[c].acc # None /\ Op(c) # "sunionstore"
       THEN Be(c, [run[c] EXCEPT !.pc = "droponly", !.refs = <<>>, !.acc = None])
       ELSE Onward(c, a)
  /\ UNCHANGED <<data, saved, apart>>
  /\ Objects(heap, torn)

(* SUNIONSTORE removes the destination first, and that is all if there was *)
(* nothing to unite.                                                       *)
Clear(c) ==
  LET k == At(c, 1) nothing == run[c].acc = None IN
  /\ run[c].pc = "clear"
  /\ Drop(k)
  /\ NextOr(c, IF nothing THEN "idle" ELSE "put")
  /\ Part(IF nothing /\ data[k] # None THEN {k} ELSE {})
  /\ Objects(heap, torn)

(* A slip: the union of one set is that set itself, not a copy.            *)
PutResultShared(c) ==
  LET r == IF Len(run[c].cmd.keys) = 2 THEN data[At(c, 2)] ELSE Fresh IN
  /\ run[c].pc = "put" /\ r # None
  /\ data' = [data EXCEPT ![At(c, 1)] = r]
  /\ Be(c, [run[c] EXCEPT !.pc = "log", !.acc = None])
  /\ UNCHANGED <<saved, apart>>
  /\ Objects([heap EXCEPT ![r] = MkSet(run[c].acc)], torn)

PutResult(c) ==
  LET r == Fresh IN
  /\ run[c].pc = "put" /\ Unused # {}
  /\ data' = [data EXCEPT ![At(c, 1)] = r]
  /\ Be(c, [run[c] EXCEPT !.pc = "log", !.acc = None])
  /\ UNCHANGED <<saved, apart>>
  /\ Objects([heap EXCEPT ![r] = MkSet(run[c].acc)], torn)

(* RENAME puts the object under the new name, then removes the old one.    *)
RenamePut(c) ==
  /\ run[c].pc = "dest"
  /\ data' = [data EXCEPT ![At(c, 2)] = run[c].refs[1]]
  /\ Be(c, [run[c] EXCEPT !.pc = "drop", !.refs = <<>>])
  /\ UNCHANGED <<saved, apart>>
  /\ Objects(heap, torn)

-----------------------------------------------------------------------------
(* What a logged command makes of the contents when it is replayed alone.  *)
Kept(o) == IF Empty(o) THEN Absent ELSE o
Alone(x, o) ==
  LET s == o.seq IN
  CASE x.op \in {"lpush", "lpushx"} -> List(<<x.val>> \o s)
    [] x.op \in {"rpush", "rpushx"} -> List(s \o <<x.val>>)
    [] x.op = "lpop" -> Kept(List(SubSeq(s, 2, Len(s))))
    [] x.op = "rpop" -> Kept(List(Front(s)))
    [] x.op = "lrem" -> Kept(List(Without(s, x.val)))
    [] x.op = "lset" -> List([n \in DOMAIN s |-> IF n = 1 THEN x.val ELSE s[n]])
    [] x.op = "sadd" -> MkSet(o.mem \cup {x.val})
    [] x.op = "srem" -> Kept(MkSet(o.mem \ {x.val}))
    [] x.op = "spop" -> MkSet({})
    [] x.op = "del"  -> Absent
Moved(st, s, d) ==
  LET v == st[s].seq[Len(st[s].seq)]
      short == [st EXCEPT ![s] = Kept(List(Front(@.seq)))]
  IN [short EXCEPT ![d] = List(<<v>> \o @.seq)]
Sources(x, st) == [n \in 1..(Len(x.keys) - 1) |-> st[x.keys[n + 1]].mem]
Result(op, ms) ==
  CASE op = "sinterstore" -> {v \in Val : \A n \in DOMAIN ms : v \in ms[n]}
    [] op = "sunionstore" -> {v \in Val : \E n \in DOMAIN ms : v \in ms[n]}
    [] op = "sdiffstore"  -> {v \in ms[1] : \A n \in DOMAIN ms \ {1} : v \notin ms[n]}
Apply(x, st) ==
  LET k == x.keys[1] IN
  CASE x.op = "rename" -> [st EXCEPT ![x.keys[2]] = st[k], ![k] = Absent]
    [] x.op = "rpoplpush" -> Moved(st, k, x.keys[2])
    [] x.op \in Stores -> [st EXCEPT ![k] = MkSet(Result(x.op, Sources(x, st)))]
    [] OTHER -> [st EXCEPT ![k] = Alone(x, @)]

(* addAof, and the reply.                                                  *)
AddAof(c) ==
  LET x == run[c].cmd IN
  /\ run[c].pc = "log"
  /\ saved' = IF Touched(x) \cap apart = {} THEN Apply(x, saved) ELSE saved
  /\ Reply(c)
  /\ UNCHANGED <<data, apart>>
  /\ Objects(heap, torn)

Step(c) ==
  \/ Get(c) \/ PutEmpty(c) \/ Work(c) \/ TakeLast(c) \/ PushInto(c) \/ Panic(c)
  \/ Check(c) \/ Remove(c) \/ RemoveOnly(c)
  \/ Copy(c) \/ Clear(c) \/ PutResult(c) \/ RenamePut(c) \/ AddAof(c)

Next == \E c \in Client : (\E x \in CommandSet : Exec(c, x)) \/ Step(c)

Spec == Init /\ [][Next]_vars

-----------------------------------------------------------------------------
(* The type of every variable.                                             *)
Places == {"idle", "get", "init", "inside", "into", "check", "checkonly", "drop",
           "droponly", "clear", "put", "dest", "log"}
Elem == Val \cup {None}
Contents == [kind : {"none", "list", "set"}, seq : Seq(Elem), mem : SUBSET Val]
Frame == [pc : Places, cmd : CommandSet \cup {NoCommand}, i : 1..3,
          refs : Seq(Ref), acc : {None} \cup SUBSET Elem]
TypeOK ==
  /\ data \in [Key -> Ref \cup {None}]
  /\ heap \in [Ref -> Contents] /\ torn \subseteq Ref
  /\ run  \in [Client -> Frame]
  /\ saved \in [Key -> Contents] /\ apart \subseteq Key

(* No key leads to an object that is gone, and unless commands overlap on  *)
(* them no two keys lead to one object, but for the two names of a RENAME  *)
(* under way: stores copy, so a later SADD to one key shows in that key    *)
(* only.                                                                   *)
Renaming(k, l) == \E c \in Client : Op(c) = "rename" /\ run[c].pc = "drop"
                                      /\ {At(c, 1), At(c, 2)} = {k, l}
OneOwner ==
  \A k \in Key : data[k] # None =>
    /\ heap[data[k]].kind # "none"
    /\ \A l \in Key \ {k} : data[l] = data[k] => {k, l} \subseteq apart \/ Renaming(k, l)

(* A data race on an object needs commands that overlap on a key: clients  *)
(* that keep out of each other's keys never corrupt a list or a set, nor   *)
(* abort the process by writing one Go map at once.                        *)
RacesApart ==
  /\ \A c, d \in Client : Racing(c, d) => Touched(run[c].cmd) \cup Touched(run[d].cmd) \subseteq apart
  /\ \A k \in Key : data[k] \in torn => k \in apart

(* What the README promises, that the operations are thread-safe: no two   *)
(* commands are ever inside one object while one of them writes it.        *)
NeverRacing == \A c, d \in Client : ~Racing(c, d)

(* The same promise to two clients that push: as long as nothing removes   *)
(* anything, the list that a push went into is the list of its key.        *)
PushesLast ==
  \A c \in Client : Op(c) = "lpush" /\ run[c].pc = "log" => data[At(c, 1)] = run[c].refs[1]

(* Unless commands overlap on a key, or one of the unlogged or random      *)
(* outcomes has met it, the log rebuilds exactly the list or set that      *)
(* memory holds, and no key holds an emptied list; a command under way is  *)
(* wholly missing from the log until its last act.                         *)
InMemory(k) == IF data[k] = None THEN Absent ELSE heap[data[k]]
Working(k) == {c \in Client : k \in Touched(run[c].cmd)}
RecoveryExact ==
  \A k \in Key \ apart :
    /\ Working(k) = {} => saved[k] = InMemory(k)
    /\ \A c \in Working(k) : run[c].pc = "log" => Apply(run[c].cmd, saved)[k] = InMemory(k)

(* "assert: size > 0" (list.go:276): LSET never meets an empty list, if no *)
(* command overlaps it on its key: a list is empty only between its making *)
(* and its first push, and between the pop of its last element and the     *)
(* removal of its key.                                                     *)
AssertedSize ==
  \A c \in Client :
    Op(c) \in {"lset", "lindex"} /\ run[c].pc = "inside" /\ At(c, 1) \notin apart
      => heap[run[c].refs[1]].seq # <<>>

(* The assertion as it stands in the code, whatever overlaps.              *)
AssertedSizeAlways ==
  \A c \in Client :
    Op(c) \in {"lset", "lindex"} /\ run[c].pc = "inside" => heap[run[c].refs[1]].seq # <<>>
=============================================================================
