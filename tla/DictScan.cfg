\* Scans of two shards, Clear and a writer: what scans see, the count across
\* Clears, and the refinement for scans that no consumer breaks off.
CONSTANTS
  k1 = k1  k2 = k2  v1 = v1  p1 = p1  p2 = p2
  Key = {k1, k2}
  Val = {v1}
  Absent = Absent
  Proc = {p1, p2}
  NShard = 2
  ShardOf <- TwoShards
  MaxGen = 1
  Ops = {"Put", "Remove", "ForEach", "Keys", "Clear"}
SPECIFICATION HSpec
INVARIANTS ScanSound CountExactUnlessRaced KeysSlots
PROPERTY ImplementsDictSpec
