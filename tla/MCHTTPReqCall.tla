----------------------------- MODULE MCHTTPReqCall -----------------------------
EXTENDS HTTPReqCall, TLC

\* Two plugins and one that is not registered.
MCChain == <<TRUE, FALSE, TRUE>>

Symmetry ==
  Permutations(Conns) \cup Permutations(Calls) \cup Permutations(Reqs)
    \cup Permutations(Resps)
=============================================================================
