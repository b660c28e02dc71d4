CONSTANTS
  c1 = c1
  c2 = c2
  Conns = {c1}
  Builders = {b1, b2}
  NoBuilder = NoBuilder
  NoCall = NoCall
  Calls <- MCOneConn
  Sizes = {3, 6, 7}
  LenSpace = 4
  MaxAsks = 1
SPECIFICATION Spec
INVARIANT LengthDeclared
