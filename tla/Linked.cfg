\* Lists of up to five elements of two values; positions and counts from one
\* below the smallest sensible one to one above the largest.
CONSTANTS
  Addr = {1, 2, 3, 4, 5, 6}
  Null = Null
  Val = {a, b}
  Nil = Nil
  Arg <- Args
  MaxLen = 5
SPECIFICATION Spec
INVARIANTS TwoWay AsOnSequences
