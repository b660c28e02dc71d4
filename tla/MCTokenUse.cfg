CONSTANTS
  Conns = {c1, c2}
  Keys = {k1, k2}
  NoKey = NoKey
  NoReq = NoReq
  Requests <- MCRoutes
  Routes <- MCRoutes
  Registered = {k1, k2}
  TokenSpace = 3
  MaxPrepares = 2
  ConfExpireTime = 5
  TTL = 6
  MaxLag = 1
  MaxRestarts = 1
SPECIFICATION UseSpec
INVARIANTS TokenSelectsOwnConf FoundTokenLasts KeyOutlivesToken LimiterKept
SYMMETRY UseSymmetry
VIEW UseView
