--------------------------- MODULE ConcurrentDict ---------------------------
(***************************************************************************)
(* The sharded hash map of datastruct/dict/sync_dict_concurrenthashmap.go, *)
(* used by any number of goroutines at once: every database keeps its keys *)
(* in one, and every command works on it without any other lock.           *)
(*                                                                         *)
(* A table is an array of shards, each a Go map behind a sync.RWMutex.  A  *)
(* keyed operation reads dict.table once, locks one shard of the table it  *)
(* read, works on the shard's map and adjusts dict.count before it         *)
(* unlocks.  Clear overwrites the struct field by field with a new table   *)
(* and a zero count, holding no lock: an operation that already read       *)
(* dict.table goes on with the old one.  Tables are numbered by            *)
(* allocation, so dict.table is the number of the current table.           *)
(***************************************************************************)
EXTENDS Integers, FiniteSets

CONSTANTS
  Key, Val,   \* the keys and the values stored
  Absent,     \* what looking up a missing key finds
  Proc,       \* the goroutines
  NShard,     \* shardCount
  ShardOf,    \* the shard of a key: spread(fnv32(key))
  MaxGen,     \* bound: Clear runs at most MaxGen times
  Ops         \* the operations the goroutines call

KeyedOps == {"Get", "Put", "PutIfAbsent", "PutIfExists", "Remove"}
ScanOps  == {"ForEach", "ForEachUntil", "Keys"}

ASSUME DataAssumption ==
  /\ Key # {} /\ IsFiniteSet(Key)
  /\ Val # {} /\ Absent \notin Val
ASSUME ProcAssumption == IsFiniteSet(Proc)
ASSUME ShardAssumption ==
  /\ NShard \in Nat \ {0}
  /\ ShardOf \in [Key -> 1..NShard]
ASSUME BoundAssumption ==
  /\ MaxGen \in Nat
  /\ Ops \subseteq KeyedOps \cup ScanOps \cup {"Len", "Clear"}

Gen   == 0..MaxGen
Shard == 1..NShard
AnyKey == CHOOSE k \in Key : TRUE
AnyVal == CHOOSE v \in Val : TRUE

VARIABLES
  m,        \* m[g][k]: what the shard maps of table g hold for key k
  writer,   \* writer[g][s]: who holds, or claimed, the shard's write lock
  readers,  \* readers[g][s]: who holds the shard's read lock
  table,    \* dict.table
  count,    \* dict.count
  fresh,    \* the last table allocated
  pc,       \* where each goroutine is
  call,     \* the operation it runs, with its arguments
  tab,      \* the table it works on (the slice it read, or allocated)
  at,       \* the shard it works on
  found,    \* what its lookup found under the write lock
  seen,     \* the keys its scan has passed to the consumer
  ret       \* what it returns, or the Len that Keys read

shared == <<m, writer, readers, table, count, fresh>>
frame  == <<call, tab, at, found, seen, ret>>
vars   == <<m, writer, readers, table, count, fresh,
            pc, call, tab, at, found, seen, ret>>

Calls ==
  [op : {"Get", "Remove"}, key : Key, val : {AnyVal}]
    \cup [op : {"Put", "PutIfAbsent", "PutIfExists"}, key : Key, val : Val]
Bare(o) == [op |-> o, key |-> AnyKey, val |-> AnyVal]
NoCall  == Bare("none")
Scans ==
  {Bare("ForEach")} \cup [op : {"ForEachUntil"}, key : Key, val : {AnyVal}]

Init ==
  /\ m = [g \in Gen |-> [k \in Key |-> Absent]]
  /\ writer  = [g \in Gen |-> [s \in Shard |-> {}]]
  /\ readers = [g \in Gen |-> [s \in Shard |-> {}]]
  /\ table = 0 /\ count = 0 /\ fresh = 0
  /\ pc    = [p \in Proc |-> "idle"]
  /\ call  = [p \in Proc |-> NoCall]
  /\ tab   = [p \in Proc |-> 0]
  /\ at    = [p \in Proc |-> 1]
  /\ found = [p \in Proc |-> Absent]
  /\ seen  = [p \in Proc |-> {}]
  /\ ret   = [p \in Proc |-> 0]

Goto(p, from, to) == pc[p] = from /\ pc' = [pc EXCEPT ![p] = to]
(* A return: the frame of the call, and what it returned, are gone.        *)
Leave(p) ==
  /\ call'  = [call EXCEPT ![p] = NoCall]
  /\ tab'   = [tab EXCEPT ![p] = 0]
  /\ at'    = [at EXCEPT ![p] = 1]
  /\ found' = [found EXCEPT ![p] = Absent]
  /\ seen'  = [seen EXCEPT ![p] = {}]
  /\ ret'   = [ret EXCEPT ![p] = 0]
Op(p)   == call[p].op
Held(p) == m[tab[p]][call[p].key]   \* shard.m[key]

-----------------------------------------------------------------------------
(* A keyed operation: hash the key, fetch its shard from dict.table.       *)
StartKeyed(p, c) ==
  /\ c.op \in Ops
  /\ Goto(p, "idle", IF c.op = "Get" THEN "rlock" ELSE "lock")
  /\ call' = [call EXCEPT ![p] = c]
  /\ tab'  = [tab EXCEPT ![p] = table]
  /\ at'   = [at EXCEPT ![p] = ShardOf[c.key]]
  /\ UNCHANGED <<shared, found, seen, ret>>

(* RWMutex.Lock in its two stages: claim the lock, which stops every later *)
(* Lock and RLock, then wait until the readers already in have left.       *)
Lock(p) ==
  /\ Goto(p, "lock", "drain")
  /\ writer[tab[p]][at[p]] = {}
  /\ writer' = [writer EXCEPT ![tab[p]][at[p]] = {p}]
  /\ UNCHANGED <<m, readers, table, count, fresh, frame>>

(* A slip of the kind this module is to catch: the writer does not wait.   *)
DrainAtOnce(p) ==
  /\ Goto(p, "drain", "body")
  /\ UNCHANGED <<shared, frame>>

Drain(p) ==
  /\ Goto(p, "drain", "body")
  /\ readers[tab[p]][at[p]] = {}
  /\ UNCHANGED <<shared, frame>>

(* The body of an operation under the write lock: look the key up, leave v *)
(* under it, and go on to `next` with result r.                            *)
Body(p, op, v, r, next) ==
  /\ Op(p) = op
  /\ Goto(p, "body", next)
  /\ found' = [found EXCEPT ![p] = Held(p)]
  /\ m'   = [m EXCEPT ![tab[p]][call[p].key] = v]
  /\ ret' = [ret EXCEPT ![p] = r]
  /\ UNCHANGED <<writer, readers, table, count, fresh, call, tab, at, seen>>

(* Slips: key and val swapped in the assignment; every Put counted; the    *)
(* value replaced before the test of PutIfAbsent.                          *)
PutStoresKey(p) == Body(p, "Put", call[p].key, 1, "count")
PutAlwaysCounts(p) == Body(p, "Put", call[p].val, 1, "count")
PutIfAbsentClaims(p) ==
  IF Held(p) # Absent
  THEN Body(p, "PutIfAbsent", Held(p), 1, "unlock")
  ELSE Body(p, "PutIfAbsent", call[p].val, 1, "count")

PutBody(p) ==
  IF Held(p) # Absent
  THEN Body(p, "Put", call[p].val, 0, "unlock")
  ELSE Body(p, "Put", call[p].val, 1, "count")

PutIfAbsentBody(p) ==
  IF Held(p) # Absent
  THEN Body(p, "PutIfAbsent", Held(p), 0, "unlock")
  ELSE Body(p, "PutIfAbsent", call[p].val, 1, "count")

PutIfExistsBody(p) ==
  IF Held(p) # Absent
  THEN Body(p, "PutIfExists", call[p].val, 1, "unlock")
  ELSE Body(p, "PutIfExists", Held(p), 0, "unlock")

RemoveBody(p) ==
  IF Held(p) # Absent
  THEN Body(p, "Remove", Absent, 1, "count")
  ELSE Body(p, "Remove", Held(p), 0, "unlock")

(* addCount and decreaseCount: one atomic add on dict.count, whichever     *)
(* table is current by then.                                               *)
Count(p) ==
  /\ Goto(p, "count", "unlock")
  /\ count' = IF Op(p) = "Remove" THEN count - 1 ELSE count + 1
  /\ UNCHANGED <<m, writer, readers, table, fresh, frame>>

(* A slip: a return before the Unlock.                                     *)
UnlockForgotten(p) ==
  /\ Goto(p, "unlock", "idle")
  /\ Leave(p)
  /\ UNCHANGED shared

(* The deferred Unlock, and the return.                                    *)
Unlock(p) ==
  /\ Goto(p, "unlock", "idle")
  /\ writer' = [writer EXCEPT ![tab[p]][at[p]] = {}]
  /\ Leave(p)
  /\ UNCHANGED <<m, readers, table, count, fresh>>

(* Get and the scans read a shard under its read lock.                     *)
RLock(p) ==
  /\ Goto(p, "rlock", "read")
  /\ writer[tab[p]][at[p]] = {}
  /\ readers' = [readers EXCEPT ![tab[p]][at[p]] = @ \cup {p}]
  /\ UNCHANGED <<m, writer, table, count, fresh, frame>>

GetBody(p) ==
  /\ Op(p) = "Get"
  /\ Goto(p, "read", "runlock")
  /\ ret' = [ret EXCEPT ![p] = Held(p)]
  /\ UNCHANGED <<shared, call, tab, at, found, seen>>

(* A slip: the shards numbered from 1 in the loop, from 0 in the table.    *)
InShardBefore(s) == {k \in Key : ShardOf[k] + 1 = s}

InShard(s) == {k \in Key : ShardOf[k] = s}

(* The inner function of ForEach: the consumer is given the entries of the *)
(* shard in Go's random map order, up to one for which it answers false.   *)
(* The consumer of a "ForEachUntil" answers false for call.key, and that   *)
(* of a "ForEach" (execKeys) or of Keys never does.                        *)
Visit(p) ==
  LET entries == {k \in InShard(at[p]) : m[tab[p]][k] # Absent} IN
  /\ Op(p) \in ScanOps
  /\ Goto(p, "read", "runlock")
  /\ \E given \in SUBSET entries :
       /\ IF Op(p) = "ForEachUntil" /\ call[p].key \in entries
          THEN call[p].key \in given
          ELSE given = entries
       /\ seen' = [seen EXCEPT ![p] = @ \cup given]
  /\ UNCHANGED <<shared, call, tab, at, found, ret>>

(* The deferred RUnlock: a scan goes on to the next shard of the table it  *)
(* ranges over, anything else returns.                                     *)
RUnlock(p) ==
  /\ readers' = [readers EXCEPT ![tab[p]][at[p]] = @ \ {p}]
  /\ \/ /\ Op(p) = "Get" \/ at[p] = NShard
        /\ Goto(p, "runlock", "idle")
        /\ Leave(p)
     \/ /\ Op(p) # "Get" /\ at[p] # NShard
        /\ Goto(p, "runlock", "rlock")
        /\ at' = [at EXCEPT ![p] = @ + 1]
        /\ UNCHANGED <<call, tab, found, seen, ret>>
  /\ UNCHANGED <<m, writer, table, count, fresh>>

(* ForEach ranges over the value dict.table has when it is called.         *)
ForEach(p, c) ==
  /\ c.op \in Ops
  /\ Goto(p, "idle", "rlock")
  /\ call' = [call EXCEPT ![p] = c]
  /\ tab'  = [tab EXCEPT ![p] = table]
  /\ UNCHANGED <<shared, at, found, seen, ret>>

(* A slip: one place too many in the slice of Keys.                        *)
KeysLenPlusOne(p) ==
  /\ "Keys" \in Ops
  /\ Goto(p, "idle", IF count < 0 THEN "done" ELSE "scan")
  /\ call' = [call EXCEPT ![p] = Bare("Keys")]
  /\ ret'  = [ret EXCEPT ![p] = count + 1]
  /\ UNCHANGED <<shared, tab, at, found, seen>>

(* Keys sizes its slice with Len, then scans; make([]string, n) panics     *)
(* when n is negative, and the call is over with a negative ret.  A slice  *)
(* longer than the keys seen keeps "" in its last places.                  *)
KeysLen(p) ==
  /\ "Keys" \in Ops
  /\ Goto(p, "idle", IF count < 0 THEN "done" ELSE "scan")
  /\ call' = [call EXCEPT ![p] = Bare("Keys")]
  /\ ret'  = [ret EXCEPT ![p] = count]
  /\ UNCHANGED <<shared, tab, at, found, seen>>

KeysScan(p) ==
  /\ Goto(p, "scan", "rlock")
  /\ tab' = [tab EXCEPT ![p] = table]
  /\ UNCHANGED <<shared, call, at, found, seen, ret>>

(* Len is one atomic load.                                                 *)
ReadLen(p) ==
  /\ "Len" \in Ops
  /\ Goto(p, "idle", "done")
  /\ call' = [call EXCEPT ![p] = Bare("Len")]
  /\ ret'  = [ret EXCEPT ![p] = count]
  /\ UNCHANGED <<shared, tab, at, found, seen>>

Return(p) ==
  /\ Goto(p, "done", "idle")
  /\ Leave(p)
  /\ UNCHANGED shared

-----------------------------------------------------------------------------
(* Clear builds a new dict, then copies it over the old one: the words of  *)
(* the struct are written one by one, in an order the compiler chooses.    *)
Clear(p) ==
  /\ "Clear" \in Ops /\ fresh < MaxGen
  /\ Goto(p, "idle", "clear")
  /\ call'  = [call EXCEPT ![p] = Bare("Clear")]
  /\ fresh' = fresh + 1
  /\ tab'   = [tab EXCEPT ![p] = fresh + 1]
  /\ UNCHANGED <<m, writer, readers, table, count, at, found, seen, ret>>

FirstWrite(p, other) ==
  /\ Goto(p, "clear", other)
  /\ UNCHANGED frame
LastWrite(p, this) ==
  /\ Goto(p, this, "idle")
  /\ Leave(p)

WriteTable(p) ==
  /\ FirstWrite(p, "clearCount") \/ LastWrite(p, "clearTable")
  /\ table' = tab[p]
  /\ UNCHANGED <<m, writer, readers, count, fresh>>

(* A slip: Clear replaces the table and keeps the count.                   *)
CountKept(p) ==
  /\ FirstWrite(p, "clearTable") \/ LastWrite(p, "clearCount")
  /\ UNCHANGED shared

WriteCount(p) ==
  /\ FirstWrite(p, "clearTable") \/ LastWrite(p, "clearCount")
  /\ count' = 0
  /\ UNCHANGED <<m, writer, readers, table, fresh>>

-----------------------------------------------------------------------------
Start(p) ==
  \/ \E c \in Calls : StartKeyed(p, c)
  \/ \E c \in Scans : ForEach(p, c)
  \/ KeysLen(p) \/ ReadLen(p) \/ Clear(p)

Acquire(p) == Lock(p) \/ RLock(p)

Step(p) ==
  \/ Drain(p) \/ Count(p) \/ Unlock(p)
  \/ PutBody(p) \/ PutIfAbsentBody(p) \/ PutIfExistsBody(p) \/ RemoveBody(p)
  \/ GetBody(p) \/ Visit(p) \/ RUnlock(p) \/ KeysScan(p) \/ Return(p)
  \/ WriteTable(p) \/ WriteCount(p)

Next == \E p \in Proc : Start(p) \/ Acquire(p) \/ Step(p)

Spec == Init /\ [][Next]_vars

(* The Go scheduler runs every runnable goroutine, and a sync.RWMutex does *)
(* not starve a waiter (its Mutex hands over to the longest waiter, a      *)
(* pending Lock stops new readers, an Unlock lets the waiting readers in). *)
Fairness == \A p \in Proc : WF_vars(Step(p)) /\ SF_vars(Acquire(p))
FairSpec == Spec /\ Fairness

-----------------------------------------------------------------------------
Place == {"idle", "lock", "drain", "body", "count", "unlock", "rlock", "read",
          "runlock", "scan", "done", "clear", "clearTable", "clearCount"}
Frame == [op : KeyedOps \cup ScanOps \cup {"Len", "Clear", "none"},
          key : Key, val : Val]

(* The type of every variable.                                             *)
TypeOK ==
  /\ m \in [Gen -> [Key -> Val \cup {Absent}]]
  /\ writer  \in [Gen -> [Shard -> SUBSET Proc]]
  /\ readers \in [Gen -> [Shard -> SUBSET Proc]]
  /\ table \in Gen /\ count \in Int /\ fresh \in Gen
  /\ pc    \in [Proc -> Place]
  /\ call  \in [Proc -> Frame]
  /\ tab   \in [Proc -> Gen]
  /\ at    \in [Proc -> Shard]
  /\ found \in [Proc -> Val \cup {Absent}]
  /\ seen  \in [Proc -> SUBSET Key]
  /\ ret   \in [Proc -> Val \cup {Absent} \cup Int]

(* Go aborts the whole process when a map is read and written at once: no  *)
(* goroutine is inside a shard's map while another one writes it.          *)
SameShard(p, q) == tab[p] = tab[q] /\ at[p] = at[q]
NoMapRace ==
  \A p, q \in Proc :
    p # q /\ pc[p] = "body" /\ SameShard(p, q) => pc[q] \notin {"body", "read"}

(* An operation that changed its shard but not yet dict.count has not      *)
(* taken effect: Effective is the contents without those changes.          *)
Uncounted(g, k) == {p \in Proc : pc[p] = "count" /\ tab[p] = g /\ call[p].key = k}
Effective ==
  [g \in Gen |-> [k \in Key |->
     IF Uncounted(g, k) = {} THEN m[g][k]
     ELSE found[CHOOSE p \in Uncounted(g, k) : TRUE]]]
Present(g) == {k \in Key : Effective[g][k] # Absent}

(* Until the first Clear, dict.count is the number of keys, whatever       *)
(* operations are half done.                                               *)
CountExact == fresh = 0 => count = Cardinality(Present(0))

(* What makes the above inductive: who is past Lock or RLock holds the     *)
(* lock, and a writer past Drain has no reader beside it;                  *)
LockInv(p) ==
  /\ pc[p] \in {"drain", "body", "count", "unlock"} =>
       writer[tab[p]][at[p]] = {p}
  /\ pc[p] \in {"body", "count", "unlock"} => readers[tab[p]][at[p]] = {}
  /\ pc[p] \in {"read", "runlock"} => p \in readers[tab[p]][at[p]]

(* each place belongs to some operations, working on the shard of its key; *)
CallInv(p) ==
  /\ pc[p] \in {"lock", "drain", "body", "count", "unlock"} =>
       Op(p) \in KeyedOps \ {"Get"} /\ at[p] = ShardOf[call[p].key]
  /\ pc[p] \in {"rlock", "read", "runlock"} =>
       \/ Op(p) = "Get" /\ at[p] = ShardOf[call[p].key]
       \/ Op(p) \in ScanOps
  /\ pc[p] \in {"idle", "scan", "done"} => at[p] = 1
  /\ pc[p] = "scan" => Op(p) = "Keys"
  /\ pc[p] \in {"clear", "clearTable", "clearCount"} => Op(p) = "Clear"
  /\ pc[p] \in {"idle", "lock", "drain", "body"} => ret[p] = 0
  /\ pc[p] = "idle" => call[p] = NoCall

(* no table is used before it is allocated;                                *)
TableInv(p) ==
  /\ tab[p] <= fresh
  /\ pc[p] \in {"clear", "clearTable", "clearCount"} => fresh > 0

(* and whoever is about to count has found, and done, what it will count.  *)
UncountedInv(p) == pc[p] = "count" =>
  /\ ret[p] = 1
  /\ \/ Op(p) = "Remove" /\ found[p] # Absent /\ Held(p) = Absent
     \/ /\ Op(p) \in {"Put", "PutIfAbsent"}
        /\ found[p] = Absent /\ Held(p) = call[p].val

IInv ==
  /\ TypeOK /\ table <= fresh
  /\ \A p \in Proc : LockInv(p) /\ CallInv(p) /\ TableInv(p) /\ UncountedInv(p)

(* Every call returns.                                                     *)
EveryCallReturns == \A p \in Proc : pc[p] # "idle" ~> pc[p] = "idle"

(* What Consumer promises: once the consumer has answered false, the       *)
(* traversal is broken off and the consumer is given nothing more.  The    *)
(* return of ForEach leaves only the function literal of one shard.        *)
Scanning(p) == Op(p) \in ScanOps /\ pc[p] \in {"rlock", "read", "runlock"}
StopsWhenTold ==
  [][\A p \in Proc :
       Scanning(p) /\ Op(p) = "ForEachUntil" /\ call[p].key \in seen[p]
         => seen'[p] \subseteq seen[p]]_vars

(* The sharded dict implements the dictionary that changes contents and    *)
(* size in one step of each operation, and breaks a traversal off when the *)
(* consumer says so: with one shard, or if no consumer ever does.          *)
StopsInOneShard == NShard = 1 \/ "ForEachUntil" \notin Ops
AbsPhase(p) ==
  CASE pc[p] \in {"lock", "drain", "body", "count", "rlock", "read"} -> "open"
    [] pc[p] = "unlock" -> "done"
    [] pc[p] = "runlock" -> IF Op(p) = "Get" THEN "done" ELSE "open"
    [] OTHER -> pc[p]
AbsLeft(p) ==
  IF Op(p) \notin ScanOps THEN {}
  ELSE CASE pc[p] \in {"rlock", "read"} -> {k \in Key : ShardOf[k] >= at[p]}
         [] pc[p] = "runlock" -> {k \in Key : ShardOf[k] > at[p]}
         [] OTHER -> {}
AbsRet(p) == IF pc[p] = "count" THEN 0 ELSE ret[p]
Abs == INSTANCE DictSpec WITH
  content <- Effective, size <- count, cur <- table,
  phase <- [p \in Proc |-> AbsPhase(p)],
  left  <- [p \in Proc |-> AbsLeft(p)],
  ret   <- [p \in Proc |-> AbsRet(p)]
ImplementsDictSpec == Abs!Spec
=============================================================================
