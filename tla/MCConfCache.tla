----------------------------- MODULE MCConfCache -----------------------------
EXTENDS ConfCacheRefinement

CONSTANTS k1, k2

Entry(n, v) == [name |-> n, value |-> v]

\* One request per key with a configuration of its own (known, unknown and
\* rejected entries), one without a key, one that panics while it is parsed
\* and one that cannot be read at all.
MCRequests ==
  { [key |-> k1, wellFormed |-> TRUE,
     conf |-> <<Entry("say", "good"), Entry("gone", "good"), Entry("limit", "bad")>>],
    [key |-> k2, wellFormed |-> TRUE,
     conf |-> <<Entry("limit", "good"), Entry("say", "good")>>],
    [key |-> NoKey, wellFormed |-> TRUE, conf |-> <<Entry("say", "good")>>],
    [key |-> NoKey, wellFormed |-> TRUE, conf |-> <<Entry("limit", "good")>>],
    [key |-> k1, wellFormed |-> TRUE,
     conf |-> <<Entry("gone", "panic"), Entry("say", "panic")>>],
    [key |-> k2, wellFormed |-> FALSE, conf |-> <<>>] }

MCRegistered == {"say", "limit"}
=============================================================================
