CONSTANTS
  Conns = {c1}
  Keys = {k1, k2}
  NoKey = NoKey
  NoReq = NoReq
  Requests <- MCRoutes
  Routes <- MCRoutes
  Registered = {k1, k2}
  TokenSpace = 3
  MaxPrepares = 2
  ConfExpireTime = 5
  TTL = 6
  MaxLag = 1
  MaxRestarts = 0
SPECIFICATION UseSpec
INVARIANT ConfOutlivesToken
