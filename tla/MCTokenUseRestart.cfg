CONSTANTS
  Conns = {c1}
  Keys = {k1, k2}
  NoKey = NoKey
  NoReq = NoReq
  Requests <- MCRoutes
  Routes <- MCRoutes
  Registered = {k1, k2}
  TokenSpace = 4
  MaxPrepares = 3
  ConfExpireTime = 5
  TTL = 6
  MaxLag = 1
  MaxRestarts = 1
SPECIFICATION UseSpec
INVARIANT ServedConfIsOwn
