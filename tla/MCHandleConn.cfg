CONSTANTS
  c1 = c1
  c2 = c2
  Conns = {c1, c2}
  Builders = {b1, b2}
  NoBuilder = NoBuilder
  NoCall = NoCall
  Calls <- MCCalls
  Sizes = {3, 7}
  LenSpace = 4
  MaxAsks = 2
SPECIFICATION FairSpec
INVARIANTS TypeOK BuilderExclusive ReplyIsForCall AnswerIsAnswer
PROPERTIES CallAnswered HandlerEnds
