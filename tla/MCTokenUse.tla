------------------------------ MODULE MCTokenUse ------------------------------
EXTENDS TokenUse, TLC

\* Each route has a plugin of its own, which goes by the route's key.
MCRoutes ==
  {[key |-> k, wellFormed |-> TRUE,
    conf |-> << [name |-> k, value |-> "good"] >>] : k \in Keys}

UseSymmetry == Permutations(Conns) \cup Permutations(Keys)

\* States that differ only in answers that APISIX has already read are one: no
\* action and no property looks at ret[c] before the next call on c has set it.
Unread == [c \in Conns |-> IF stage[c] \in {"asked", "called"} THEN ret[c] ELSE NoReq]
UseView ==
  <<tokenCache, keyCache, tokenCounter, lock, pc, req, entries, token, issued, calls,
    Unread, clientVars>>
=============================================================================
