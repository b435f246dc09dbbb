\* Two connections and two keys: in one database, or one in each of two; commands
\* that write one key or several, and commands that read, compute and put back;
\* the process ends and starts at any moment.
CONSTANTS
  c1 = c1  c2 = c2  k1 = k1  k2 = k2  ta = ta  tb = tb
  Client = {c1, c2}
  Key = {k1, k2}
  NDB = 2
  Half = 1
  Text = {ta, tb}
  Uses <- TwoOrTwo
  Nil = Nil
  Appended <- AppendX
  SetVal = {0}
  Delta <- Down
  Index <- Indices
  Ops = {"set", "setnx", "setxx", "getset", "incrby", "append", "mset", "msetnx", "del", "rename",
         "renamenx", "flushdb"}
SPECIFICATION Spec
INVARIANTS TypeOK RecoveryExact
SYMMETRY Symmetric
