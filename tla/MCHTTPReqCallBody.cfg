CONSTANTS
  Conns = {c1}
  Calls = {m1}
  Reqs = {q1}
  Resps = {w1}
  Nil = Nil
  Chain <- MCChain
  Parts = {"body"}
  MaxOps = 3
SPECIFICATION Spec
INVARIANT BodyIsIntent
