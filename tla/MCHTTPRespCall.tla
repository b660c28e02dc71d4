---------------------------- MODULE MCHTTPRespCall ----------------------------
EXTENDS HTTPRespCall, TLC

\* Two plugins and one that is not registered.
MCChain == <<TRUE, FALSE, TRUE>>

Symmetry ==
  Permutations(Conns) \cup Permutations(Ids) \cup Permutations(Resps)
    \cup Permutations(Values)
=============================================================================
