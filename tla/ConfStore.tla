------------------------------ MODULE ConfStore ------------------------------
(***************************************************************************)
(* What the configuration cache promises, without lock, counter or clock:  *)
(* PrepareConf answers in one step, either with the token its key is bound *)
(* to or with a token never used before; a token resolves to the           *)
(* configuration it was granted for until it expires, and nothing but      *)
(* expiry takes a binding away.                                            *)
(***************************************************************************)
CONSTANTS
  Conns, Keys, NoKey, Requests, NoReq,
  Token,
  NoToken,        \* "not bound"
  Parse(_),       \* the configuration a request stands for
  Unusable(_)     \* requests that make the runner panic

VARIABLES
  pending,        \* the request a caller waits for, or NoReq
  reply,          \* the last answer a caller got
  grant,          \* the request a token was granted for, or NoReq
  live,           \* the tokens that resolve
  bound           \* the token a key is bound to, or NoToken

vars == <<pending, reply, grant, live, bound>>

Init ==
  /\ pending = [c \in Conns |-> NoReq]
  /\ reply = [c \in Conns |-> [kind |-> "none"]]
  /\ grant = [t \in Token |-> NoReq]
  /\ live = {}
  /\ bound = [k \in Keys |-> NoToken]

Answer(c, result) ==
  /\ pending' = [pending EXCEPT ![c] = NoReq]
  /\ reply' = [reply EXCEPT ![c] = result]

Call(c, r) ==
  /\ pending[c] = NoReq
  /\ pending' = [pending EXCEPT ![c] = r]
  /\ reply' = [reply EXCEPT ![c] = [kind |-> "none"]]
  /\ UNCHANGED <<grant, live, bound>>

\* The key is bound: its token again.
Reuse(c) ==
  /\ pending[c] # NoReq
  /\ pending[c].key \in Keys
  /\ bound[pending[c].key] # NoToken
  /\ Answer(c, [kind |-> "token", token |-> bound[pending[c].key]])
  /\ UNCHANGED <<grant, live, bound>>

\* The key is not bound, or there is none: a token never granted before.
Issue(c, t) ==
  /\ pending[c] # NoReq
  /\ ~Unusable(pending[c])
  /\ pending[c].key \in Keys => bound[pending[c].key] = NoToken
  /\ grant[t] = NoReq
  /\ grant' = [grant EXCEPT ![t] = pending[c]]
  /\ live' = live \cup {t}
  /\ bound' = [k \in Keys |-> IF k = pending[c].key THEN t ELSE bound[k]]
  /\ Answer(c, [kind |-> "token", token |-> t])

\* A request that cannot be processed changes nothing.
Fail(c) ==
  /\ pending[c] # NoReq
  /\ Unusable(pending[c])
  /\ Answer(c, [kind |-> "panic"])
  /\ UNCHANGED <<grant, live, bound>>

Get(c, t) ==
  /\ pending[c] = NoReq
  /\ reply' = [reply EXCEPT ![c] =
                 IF t \in live
                 THEN [kind |-> "conf", token |-> t, conf |-> Parse(grant[t])]
                 ELSE [kind |-> "notfound"]]
  /\ UNCHANGED <<pending, grant, live, bound>>

\* Tokens and keys expire independently of each other.
Expire ==
  /\ live' \in SUBSET live
  /\ \E K \in SUBSET Keys :
       bound' = [k \in Keys |-> IF k \in K THEN NoToken ELSE bound[k]]
  /\ UNCHANGED <<pending, reply, grant>>

Next ==
  \/ \E c \in Conns, r \in Requests : Call(c, r)
  \/ \E c \in Conns : Reuse(c) \/ Fail(c)
  \/ \E c \in Conns, t \in Token : Issue(c, t) \/ Get(c, t)
  \/ Expire

Spec == Init /\ [][Next]_vars
=============================================================================
