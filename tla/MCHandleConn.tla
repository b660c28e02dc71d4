----------------------------- MODULE MCHandleConn -----------------------------
EXTENDS HandleConn, TLC

CONSTANTS c1, c2

\* One call of each kind that takes a path of its own through dispatchRPC, the
\* response phase on a connection of its own.
MCCalls ==
  c1 :> { [ty |-> "prepare", data |-> "good"], [ty |-> "req", data |-> "good"],
          [ty |-> "req", data |-> "unknown"], [ty |-> "resp", data |-> "bad"],
          [ty |-> "other", data |-> "good"] }
  @@ c2 :> { [ty |-> "resp", data |-> "good"] }

MCOneConn == c1 :> MCCalls[c1]
=============================================================================
