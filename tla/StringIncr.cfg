\* Two connections count the same key.
CONSTANTS
  c1 = c1  c2 = c2  k1 = k1  k2 = k2  ta = ta  tb = tb
  Client = {c1, c2}
  Key = {k1, k2}
  NDB = 2
  Half = 1
  Text = {ta, tb}
  Nil = Nil
  Appended <- AppendX
  SetVal = {0}
  Delta <- Down
  Index = {0}
  Uses <- TwoOrTwo
  Ops = {"incrby"}
SPECIFICATION Spec
PROPERTY IncrAdds
