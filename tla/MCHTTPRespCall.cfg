CONSTANTS
  Conns = {c1, c2}
  Ids = {m1, m2}
  Resps = {w1, w2}
  Nil = Nil
  Names = {"x-a"}
  Values = {v1, v2}
  Empty = Empty
  Chain <- MCChain
  MaxRaw = 1
  MaxOps = 3
SPECIFICATION Spec
INVARIANTS TypeOK RespIsIntent  RespInfoIsOwn RespChainStops
SYMMETRY Symmetry
