\* Two connections and two keys; lists of up to two of two elements, sets of two
\* members; all commands but LINDEX, which is a read like "look", LSET, which changes
\* one element, RPUSH and LPUSHX, which differ from LPUSH and RPUSHX in the end they
\* push to, and SINTERSTORE, which ends early as SDIFFSTORE does.
CONSTANTS
  c1 = c1  c2 = c2  k1 = k1  k2 = k2  e1 = e1  e2 = e2
  Client = {c1, c2}
  Key = {k1, k2}
  Val = {e1, e2}
  None = None
  Ref = {1, 2, 3, 4, 5, 6}
  MaxLen = 2
  Ops = {"lpush", "rpushx", "lpop", "rpop", "lrem", "rpoplpush", "del", "rename", "look",
         "sadd", "srem", "spop", "sunionstore", "sdiffstore"}
SPECIFICATION Spec
INVARIANTS TypeOK OneOwner RacesApart RecoveryExact
SYMMETRY Symmetric
CHECK_DEADLOCK FALSE
