\* Two goroutines and every operation on two keys of one shard, Clear among
\* them: the lock protocol, the count and the refinement of the atomic dictionary,
\* with consumers that break a traversal off.
CONSTANTS
  k1 = k1  k2 = k2  v1 = v1  p1 = p1  p2 = p2
  Key = {k1, k2}
  Val = {v1}
  Absent = Absent
  Proc = {p1, p2}
  NShard = 1
  ShardOf <- OneShard
  MaxGen = 1
  Ops = {"Get", "Put", "PutIfAbsent", "PutIfExists", "Remove", "Len",
         "ForEach", "ForEachUntil", "Keys", "Clear"}
SPECIFICATION FairSpec
INVARIANTS TypeOK NoMapRace CountExact
PROPERTIES ImplementsDictSpec EveryCallReturns
