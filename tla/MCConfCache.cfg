CONSTANTS
  Conns = {c1, c2}
  k1 = k1
  k2 = k2
  Keys = {k1, k2}
  NoKey = NoKey
  NoReq = NoReq
  NoToken = NoToken
  Requests <- MCRequests
  Registered <- MCRegistered
  TokenSpace = 3
  TTL = 2
  MaxPrepares = 2
SPECIFICATION FairSpec
INVARIANTS TypeOK TokenBinding AnswerIsOwn
PROPERTIES KeyStable ImplementsConfStore PrepareReturns
