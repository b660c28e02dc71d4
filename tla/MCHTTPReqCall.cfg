CONSTANTS
  Conns = {c1, c2}
  Calls = {m1, m2}
  Reqs = {q1, q2}
  Resps = {w1, w2}
  Nil = Nil
  Chain <- MCChain
  Parts = {"path", "hdr", "args", "respHdr", "body"}
  MaxOps = 2
SPECIFICATION Spec
INVARIANTS TypeOK InfoIsOwn ContextScoped ReplyIsIntent ChainStops
SYMMETRY Symmetry
