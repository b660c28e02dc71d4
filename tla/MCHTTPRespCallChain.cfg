CONSTANTS
  Conns = {c1}
  Ids = {m1}
  Resps = {w1}
  Nil = Nil
  Names = {"x-a"}
  Values = {v1, v2}
  Empty = Empty
  Chain <- MCChain
  MaxRaw = 1
  MaxOps = 3
SPECIFICATION Spec
INVARIANT ChainCutByWrite
