------------------------------- MODULE TokenUse -------------------------------
(***************************************************************************)
(* ConfCache together with its only client.  APISIX (external) keeps the   *)
(* token a route was answered with for ConfExpireTime and sends it with    *)
(* every HTTPReqCall; when the runner answers CONF_TOKEN_NOT_FOUND it      *)
(* forgets the token, prepares the configuration again and retries.  The   *)
(* runner derives the life of its own entries from the same setting        *)
(* (getConfCacheTTL).  Restart is a new runner process: APISIX does not    *)
(* notice when it does not manage the runner, as in development.           *)
(***************************************************************************)
EXTENDS ConfCache

CONSTANTS
  Routes,          \* the requests APISIX sends for its routes, one per key
  ConfExpireTime,  \* APISIX_CONF_EXPIRE_TIME, in ticks
  MaxLag,          \* the ticks an HTTP request may take in APISIX, retries included
  MaxRestarts      \* bound: restarts of the runner

\* The life of a runner entry: 1.2 times that of APISIX, in whole seconds.
getConfCacheTTL(n) == (n * 12) \div 10

ASSUME RoutesAssumption ==
  /\ Routes \subseteq Requests
  /\ \A r \in Routes : r.key \in Keys /\ r.wellFormed /\ ~ParsePanics(r)
  /\ \A r, s \in Routes : r.key = s.key => r = s

ASSUME LifeAssumption ==
  /\ ConfExpireTime \in Nat \ {0}
  /\ TTL = getConfCacheTTL(ConfExpireTime)
  /\ MaxLag \in Nat /\ MaxRestarts \in Nat

VARIABLES
  held,        \* the token APISIX holds for a key; history: the ticks it took
               \* to get (late) and whether an HTTPReqCall found it (used)
  stage,       \* what APISIX waits for on a connection
  route,       \* the route whose HTTP request is on the connection
  using,       \* the token the HTTPReqCall carries and the process it is from
  lag,         \* the ticks this HTTP request has taken so far
  limiter,     \* history: what ParseConf made that a route was last served with
  restarts

clientVars == <<held, stage, route, using, lag, limiter, restarts>>

NoHeld == [token |-> 0, life |-> 0, epoch |-> 0, late |-> 0, used |-> FALSE]
NoUse  == [token |-> 0, epoch |-> 0, late |-> 0]

\* The ticks for which the key of c's token is sure to stay cached: the time by
\* which the life of an entry exceeds that of a token, less the time that the
\* request which got the token and the one on c have taken.
Window(c) == TTL - ConfExpireTime + 1 - using[c].late - lag[c]

\* limit-req keeps its limiter in what ParseConf returns, so a token stands for
\* one limiter.
NoLimiter == [token |-> 0, life |-> 0]
Limiter(c) == [token |-> ret[c].token, life |-> Window(c)]

UseInit ==
  /\ Init
  /\ held = [k \in Keys |-> NoHeld]
  /\ stage = [c \in Conns |-> "rest"]
  /\ route = [c \in Conns |-> NoReq]
  /\ using = [c \in Conns |-> NoUse]
  /\ lag = [c \in Conns |-> 0]
  /\ limiter = [k \in Keys |-> NoLimiter]
  /\ restarts = 0

-----------------------------------------------------------------------------
\* An HTTP request for route r: APISIX uses the token it holds or asks for one.
Begin(c, r) ==
  /\ stage[c] = "rest"
  /\ route' = [route EXCEPT ![c] = r]
  /\ \/ /\ Live(held[r.key])
        /\ using' = [using EXCEPT ![c] = [token |-> held[r.key].token,
                                          epoch |-> held[r.key].epoch,
                                          late |-> held[r.key].late]]
        /\ stage' = [stage EXCEPT ![c] = "call"]
     \/ /\ ~Live(held[r.key])
        /\ stage' = [stage EXCEPT ![c] = "ask"]
        /\ UNCHANGED using
  /\ UNCHANGED <<vars, held, lag, limiter, restarts>>

Ask(c) ==
  /\ stage[c] = "ask"
  /\ PrepareConf(c, route[c])
  /\ stage' = [stage EXCEPT ![c] = "asked"]
  /\ UNCHANGED <<held, route, using, lag, limiter, restarts>>

\* The HTTP request on c is over.
Finish(c) ==
  /\ stage' = [stage EXCEPT ![c] = "rest"]
  /\ route' = [route EXCEPT ![c] = NoReq]
  /\ using' = [using EXCEPT ![c] = NoUse]
  /\ lag' = [lag EXCEPT ![c] = 0]

\* A statement of Set on behalf of c.
Serve(c) == (Lock(c) \/ SetStep(c)) /\ UNCHANGED clientVars

\* The token arrives: APISIX keeps it and sends the HTTPReqCall.
Receive(c) ==
  /\ stage[c] = "asked"
  /\ pc[c] = "idle"
  /\ ret[c].kind = "token"
  /\ held' = [held EXCEPT ![route[c].key] =
                [token |-> ret[c].token, life |-> ConfExpireTime,
                 epoch |-> restarts, late |-> lag[c], used |-> FALSE]]
  /\ using' = [using EXCEPT ![c] = [token |-> ret[c].token, epoch |-> restarts,
                                    late |-> lag[c]]]
  /\ stage' = [stage EXCEPT ![c] = "call"]
  /\ UNCHANGED <<vars, route, lag, limiter, restarts>>

\* HTTPReqCall on c finds the token APISIX holds for the route.
Finds(c) ==
  /\ Live(tokenCache[using[c].token])
  /\ using[c].token = held[route[c].key].token
  /\ using[c].epoch = held[route[c].key].epoch

\* HTTPReqCall resolves its token.
HTTPReqCall(c) ==
  /\ stage[c] = "call"
  /\ GetRuleConf(c, using[c].token)
  /\ held' = [held EXCEPT ![route[c].key].used = @ \/ Finds(c)]
  /\ stage' = [stage EXCEPT ![c] = "called"]
  /\ UNCHANGED <<route, using, lag, limiter, restarts>>

\* The plugins of the configuration found ran, limit-req with its limiter.
Served(c) ==
  /\ stage[c] = "called"
  /\ ret[c].kind = "conf"
  /\ limiter' = IF using[c].epoch = restarts
                THEN [limiter EXCEPT ![route[c].key] = Limiter(c)]
                ELSE limiter
  /\ Finish(c)
  /\ UNCHANGED <<vars, held, restarts>>

\* CONF_TOKEN_NOT_FOUND: refresh and try again.
NotFound(c) ==
  /\ stage[c] = "called"
  /\ ret[c].kind = "notfound"
  /\ held' = [held EXCEPT ![route[c].key] = NoHeld]
  /\ using' = [using EXCEPT ![c] = NoUse]
  /\ stage' = [stage EXCEPT ![c] = "ask"]
  /\ UNCHANGED <<vars, route, lag, limiter, restarts>>

\* The HTTP request ends early, after PrepareConf too: APISIX then keeps a token
\* that no HTTPReqCall has used.
Drop(c) ==
  /\ stage[c] \in {"ask", "call"}
  /\ Finish(c)
  /\ UNCHANGED <<vars, held, limiter, restarts>>

\* A new runner process: empty caches, counter at zero, calls under way lost.
Restart ==
  /\ restarts < MaxRestarts
  /\ restarts' = restarts + 1
  /\ tokenCache' = [t \in Token |-> NoTokenEntry]
  /\ keyCache' = [k \in Keys \cup {NoKey} |-> NoKeyEntry]
  /\ tokenCounter' = 0
  /\ issued' = [t \in Token |-> NoReq]
  /\ lock' = {}
  /\ pc' = [c \in Conns |-> "idle"]
  /\ req' = [c \in Conns |-> NoReq]
  /\ entries' = [c \in Conns |-> <<>>]
  /\ token' = [c \in Conns |-> 0]
  /\ ret' = [c \in Conns |-> [kind |-> "none"]]
  /\ stage' = [c \in Conns |-> "rest"]
  /\ route' = [c \in Conns |-> NoReq]
  /\ using' = [c \in Conns |-> NoUse]
  /\ lag' = [c \in Conns |-> 0]
  /\ limiter' = [k \in Keys |-> NoLimiter]
  /\ UNCHANGED <<calls, held>>

\* A tick passes for the runner and for APISIX, between any two steps of the
\* requests under way.  That they end in time is up to the timeouts of APISIX,
\* to which CreateRequest refers.
Pass ==
  /\ \A c \in Conns : stage[c] = "rest" \/ lag[c] < MaxLag
  /\ Tick
  /\ lag' = [c \in Conns |-> IF stage[c] = "rest" THEN 0 ELSE lag[c] + 1]
  /\ held' = [k \in Keys |-> Age(held[k], NoHeld)]
  /\ limiter' = [k \in Keys |-> Age(limiter[k], NoLimiter)]
  /\ UNCHANGED <<stage, route, using, restarts>>

UseNext ==
  \/ \E c \in Conns, r \in Routes : Begin(c, r)
  \/ \E c \in Conns :
       \/ Ask(c) \/ Serve(c) \/ Receive(c) \/ HTTPReqCall(c) \/ Served(c)
       \/ NotFound(c) \/ Drop(c)
  \/ Restart
  \/ Pass

UseSpec == UseInit /\ [][UseNext]_<<vars, clientVars>>

-----------------------------------------------------------------------------
\* Connection c has just been given the configuration of a token.
Resolved(c) == stage[c] = "called" /\ ret[c].kind = "conf"

(***************************************************************************)
(* A route is served with its own configuration: what HTTPReqCall finds    *)
(* under the token APISIX kept was parsed from this route's PrepareConf,   *)
(* however late the token is used (plugin.go, HTTPReqCall) and whatever    *)
(* happened to the runner meanwhile.                                       *)
(***************************************************************************)
ServedConfIsOwn == \A c \in Conns : Resolved(c) => ret[c].conf = Entries(route[c])

(***************************************************************************)
(* The same for tokens of the running process: two routes never share or   *)
(* swap tokens while their entries expire, are extended and prepared again *)
(* on several connections (ConfCache.Set, ConfCache.Get, HTTPReqCall).     *)
(***************************************************************************)
TokenSelectsOwnConf ==
  \A c \in Conns :
    Resolved(c) /\ using[c].epoch = restarts => ret[c].conf = Entries(route[c])

(***************************************************************************)
(* The configuration cached in the runner outlives the token APISIX holds  *)
(* (the comment in getConfCacheTTL), in the runner process that issued it. *)
(***************************************************************************)
ConfOutlivesToken ==
  \A k \in Keys :
    Live(held[k]) /\ held[k].epoch = restarts => Live(tokenCache[held[k].token])

(***************************************************************************)
(* What is left of that: a token that an HTTPReqCall has found since       *)
(* PrepareConf answered with it is found by every later one, for as long   *)
(* as APISIX holds it and however slow or rare the requests are, since     *)
(* Get extends the entry by more than the token has left (ConfCache.Get).  *)
(***************************************************************************)
FoundTokenLasts ==
  \A k \in Keys :
    Live(held[k]) /\ held[k].epoch = restarts /\ held[k].used
      => Live(tokenCache[held[k].token])

(***************************************************************************)
(* The idempotency key outlives the token: while APISIX holds a token of   *)
(* this process, found or not, another PrepareConf for the route would be  *)
(* answered with that token and parse nothing (ConfCache.Set; the life of  *)
(* the key is renewed on a hit only, that of the token on each answer).    *)
(***************************************************************************)
KeyOutlivesToken ==
  \A k \in Keys :
    Live(held[k]) /\ held[k].epoch = restarts
      => Live(keyCache[k]) /\ keyCache[k].token = held[k].token

(***************************************************************************)
(* A route keeps its limiter as long as it is used: two requests that are  *)
(* not further apart than a runner entry outlives a token (less the time   *)
(* they took) are limited by the same one, whatever expired and was        *)
(* prepared again in between (the comment of LimitReq.ParseConf: its       *)
(* output is unique per route).                                            *)
(***************************************************************************)
LimiterKept ==
  \A c \in Conns :
    /\ Resolved(c) /\ using[c].epoch = restarts /\ Window(c) > 0
    /\ Live(limiter[route[c].key])
    => ret[c].token = limiter[route[c].key].token
=============================================================================
