---------------------------- MODULE TokenUseProofs ----------------------------
(***************************************************************************)
(* Proofs about TokenUse for every set of routes, connections and tokens,  *)
(* every ConfExpireTime, requests of any duration and any number of        *)
(* restarts, as long as the token counter has not wrapped.  They rest on   *)
(* one invariant: whoever has a token of the running process has one that  *)
(* was issued for his route, and the key of the route stays cached with it *)
(* at least as long as the token can be used, if requests are quick.       *)
(***************************************************************************)
EXTENDS TokenUse, ConfCacheProofs

\* By how much the life of an entry exceeds that of a token.
Slack == TTL - ConfExpireTime

\* Token t is one for key k, which is cached with it for n more ticks.
Tied(k, t, n) ==
  /\ issued[t] # NoReq /\ issued[t].key = k
  /\ n > 0 => keyCache[k].token = t /\ keyCache[k].life >= n

\* The answer to a PrepareConf that APISIX has not read yet.
Arrived(c) == stage[c] = "asked" /\ pc[c] = "idle" /\ ret[c].kind = "token"

StageSet == {"rest", "ask", "asked", "call", "called"}
Lags     == 0 .. MaxLag
HeldType == [token : Token, life : 0 .. ConfExpireTime, epoch : Nat, late : Lags,
             used : BOOLEAN]
UseType  == [token : Token, epoch : Nat, late : Lags]

(* Types of what APISIX keeps.                                             *)
ClientType ==
  /\ held \in [Keys -> HeldType]
  /\ stage \in [Conns -> StageSet]
  /\ route \in [Conns -> Routes \cup {NoReq}]
  /\ using \in [Conns -> UseType]
  /\ lag \in [Conns -> Lags]
  /\ limiter \in [Keys -> [token : Token, life : Int]]
  /\ restarts \in Nat
  /\ \A k \in Keys : held[k].epoch <= restarts

(* An HTTP request and the calls to the runner on its behalf.              *)
Flow(c) ==
  /\ stage[c] # "rest" => route[c] \in Routes
  /\ pc[c] # "idle" => stage[c] = "asked"
  /\ stage[c] = "asked" => req[c] = route[c]
  /\ Resolved(c) => ret[c].token = using[c].token

FlowInv ==
  /\ \A c \in Conns : Flow(c)
  /\ \A t \in Token : issued[t] # NoReq => issued[t] \in Routes

(* Whoever has a token of this process has it tied to the route's key; a   *)
(* token that was found is cached longer than it is held.                  *)
HeldTied(k) ==
  Live(held[k]) /\ held[k].epoch = restarts =>
    /\ Tied(k, held[k].token, Slack + held[k].life - held[k].late)
    /\ held[k].used => tokenCache[held[k].token].life >= held[k].life
LimiterTied(k) ==
  Live(limiter[k]) => Tied(k, limiter[k].token, limiter[k].life)
AnswerTied(c) ==
  Arrived(c) => Tied(route[c].key, ret[c].token, TTL - lag[c])
UsingTied(c) ==
  stage[c] \in {"call", "called"} /\ using[c].epoch = restarts
    => Tied(route[c].key, using[c].token, Window(c))

TiedInv ==
  /\ \A k \in Keys : HeldTied(k) /\ LimiterTied(k)
  /\ \A c \in Conns : AnswerTied(c) /\ UsingTied(c)

UseInv == BindInv /\ ClientType /\ FlowInv /\ TiedInv


-----------------------------------------------------------------------------
(* Steps of the runner other than the passing of time.                     *)
RunnerStep ==
  \/ UNCHANGED vars
  \/ \E c \in Conns, r \in Requests : PrepareConf(c, r)
  \/ \E c \in Conns : Lock(c) \/ SetStep(c)
  \/ \E c \in Conns, t \in Token : GetRuleConf(c, t)

\* Without a tick, cached keys keep their tokens and no life gets shorter.
KeysKept ==
  \A k \in Keys : Live(keyCache[k]) =>
    keyCache'[k].token = keyCache[k].token /\ keyCache'[k].life >= keyCache[k].life
TokensKept ==
  \A t \in Token : tokenCache'[t].life >= tokenCache[t].life

\* Nor does a token get another owner.
IssuedKept == \A t \in Token : issued[t] # NoReq => issued'[t] = issued[t]

\* What no step but a tick or a restart disturbs.
Kept == KeysKept /\ TokensKept /\ IssuedKept

(* An entry lives at least as long as the token (getConfCacheTTL).         *)
LEMMA Lives ==
  /\ TTL \in Nat \ {0} /\ ConfExpireTime \in Nat \ {0} /\ Slack \in Nat
  /\ TTL = Slack + ConfExpireTime
<1>1. \A n \in Nat : (n * 12) \div 10 \in Nat /\ (n * 12) \div 10 >= n
  OBVIOUS
<1> QED  BY <1>1, LifeAssumption, ConstantsAssumption DEF Slack, getConfCacheTTL

(* What the routes are.                                                    *)
LEMMA RouteType ==
  \A r \in Routes : r \in Requests /\ r.key \in Keys /\ r # NoReq
BY RoutesAssumption, ConstantsAssumption

(* The invariant's parts about one step of the runner.                     *)
LEMMA RunnerKeeps ==
  ASSUME LockInv, RunnerStep
  PROVE  KeysKept /\ TokensKept
<1> USE DEF KeysKept, TokensKept
<1>1. TypeOK /\ Exclusion /\ MissPersists /\ TTL \in Nat \ {0}
  BY ConstantsAssumption DEF LockInv
<1>2. /\ \A k \in Keys : keyCache[k] \in [token : Token, life : 0 .. TTL]
      /\ \A t \in Token : tokenCache[t] \in [conf : ParsedConfs, life : 0 .. TTL]
  BY <1>1 DEF TypeOK
<1>3. /\ \A k \in Keys : keyCache[k].life \in Nat /\ keyCache[k].life <= TTL
      /\ \A t \in Token : tokenCache[t].life \in Nat /\ tokenCache[t].life <= TTL
  BY <1>1, <1>2
<1>4. CASE UNCHANGED <<keyCache, tokenCache>>
  BY <1>3, <1>4
<1>5. ASSUME NEW c \in Conns, KeyHit(c) PROVE KeysKept /\ TokensKept
  <2>1. /\ keyCache' = [keyCache EXCEPT ![req[c].key] = [@ EXCEPT !.life = TTL]]
        /\ tokenCache' = tokenCache
    BY <1>5 DEF KeyHit, Touch
  <2> QED  BY <2>1, <1>1, <1>2, <1>3 DEF TypeOK
<1>6. ASSUME NEW c \in Conns, StoreToken(c) PROVE KeysKept /\ TokensKept
  <2>1. /\ keyCache' = keyCache
        /\ tokenCache' = [tokenCache EXCEPT ![token[c]] = [conf |-> entries[c], life |-> TTL]]
    BY <1>6 DEF StoreToken
  <2> QED  BY <2>1, <1>1, <1>3 DEF TypeOK
<1>7. ASSUME NEW c \in Conns, StoreKey(c) PROVE KeysKept /\ TokensKept
  <2>1. /\ tokenCache' = tokenCache /\ pc[c] = "storeKey"
        /\ keyCache' = [keyCache EXCEPT ![req[c].key] = [token |-> token[c], life |-> TTL]]
    BY <1>7 DEF StoreKey
  <2>2. req[c].key \in Keys => ~Live(keyCache[req[c].key])
    BY <1>1, <2>1 DEF MissPersists, Missed
  <2> QED  BY <2>1, <2>2, <1>1, <1>3 DEF TypeOK
<1>8. ASSUME NEW c \in Conns, NEW t \in Token, GetRuleConf(c, t)
      PROVE  KeysKept /\ TokensKept
  <2>1. keyCache' = keyCache
    BY <1>8 DEF GetRuleConf
  <2>2. CASE tokenCache' = tokenCache
    BY <2>1, <2>2, <1>3
  <2>3. CASE tokenCache' = [tokenCache EXCEPT ![t] = [@ EXCEPT !.life = TTL]]
    BY <2>1, <2>3, <1>1, <1>2, <1>3 DEF TypeOK
  <2> QED  BY <1>8, <2>2, <2>3 DEF GetRuleConf, Touch
<1>9. ASSUME NEW c \in Conns, Lock(c) \/ SetStep(c) PROVE KeysKept /\ TokensKept
  <2>1. CASE Lock(c) \/ KeyMiss(c) \/ ParseConf(c) \/ Panic(c) \/ CountToken(c) \/ TakeToken(c)
    BY <2>1, <1>4 DEF Lock, KeyMiss, ParseConf, Panic, CountToken, TakeToken, cacheVars
  <2> QED  BY <1>5, <1>6, <1>7, <1>9, <2>1 DEF SetStep
<1>10. CASE UNCHANGED vars \/ \E c \in Conns, r \in Requests : PrepareConf(c, r)
  BY <1>4, <1>10 DEF vars, cacheVars, PrepareConf
<1> HIDE DEF KeysKept, TokensKept
<1> QED  BY <1>8, <1>9, <1>10 DEF RunnerStep

(* What is tied stays tied as long as time does not pass.                  *)
LEMMA TiedGrows ==
  ASSUME TypeOK, TypeOK', Kept, NEW k \in Keys, NEW t \in Token, NEW n \in Int,
         Tied(k, t, n)
  PROVE  /\ issued'[t] # NoReq /\ issued'[t].key = k
         /\ n > 0 => keyCache'[k].token = t /\ keyCache'[k].life >= n
<1>1. keyCache[k].life \in Nat /\ keyCache'[k].life \in Nat
  BY ConstantsAssumption DEF TypeOK
<1> QED  BY <1>1 DEF Tied, Kept, KeysKept, IssuedKept, Live

\* Connection c is where it was.
Same(c) == UNCHANGED <<stage[c], pc[c], ret[c], route[c], using[c], lag[c]>>

(* The numbers the bounds are made of.                                     *)
LEMMA Bounds ==
  ASSUME UseInv
  PROVE  /\ \A k \in Keys : /\ held[k].life \in Nat /\ held[k].late \in Nat
                            /\ held[k].life <= ConfExpireTime /\ held[k].late <= MaxLag
                            /\ held[k].token \in Token /\ held[k].epoch \in Nat
                            /\ limiter[k].life \in Int /\ limiter[k].token \in Token
                            /\ keyCache[k].life \in Nat
         /\ \A t \in Token : tokenCache[t].life \in Nat
         /\ \A c \in Conns : /\ lag[c] \in Nat /\ lag[c] <= MaxLag /\ using[c].late \in Nat
                             /\ using[c].token \in Token
                             /\ Window(c) = Slack + 1 - using[c].late - lag[c]
                             /\ Window(c) \in Int
<1>1. TypeOK /\ ClientType
  BY DEF UseInv, BindInv, LockInv
<1>2. TTL \in Nat /\ ConfExpireTime \in Nat /\ Slack \in Nat /\ MaxLag \in Nat
  BY Lives, LifeAssumption
<1>3. ASSUME NEW k \in Keys
      PROVE  /\ held[k].life \in Nat /\ held[k].late \in Nat
             /\ held[k].life <= ConfExpireTime /\ held[k].late <= MaxLag
             /\ held[k].token \in Token /\ held[k].epoch \in Nat
             /\ limiter[k].life \in Int /\ limiter[k].token \in Token
             /\ keyCache[k].life \in Nat
  <2>1. /\ held[k] \in HeldType /\ limiter[k] \in [token : Token, life : Int]
        /\ keyCache[k] \in [token : Token, life : 0 .. TTL]
    BY <1>1 DEF ClientType, TypeOK
  <2> QED  BY <2>1, <1>2 DEF HeldType, Lags
<1>4. \A t \in Token : tokenCache[t].life \in Nat
  BY <1>1, <1>2 DEF TypeOK
<1>5. ASSUME NEW c \in Conns
      PROVE  /\ lag[c] \in Nat /\ lag[c] <= MaxLag /\ using[c].late \in Nat
             /\ using[c].token \in Token
             /\ Window(c) = Slack + 1 - using[c].late - lag[c]
             /\ Window(c) \in Int
  <2>1. lag[c] \in Lags /\ using[c] \in UseType
    BY <1>1 DEF ClientType
  <2>2. /\ lag[c] \in Nat /\ lag[c] <= MaxLag /\ using[c].late \in Nat
        /\ using[c].token \in Token
    BY <2>1, <1>2 DEF UseType, Lags
  <2> QED  BY <2>2, <1>2 DEF Window, Slack
<1> QED  BY <1>3, <1>4, <1>5

(* The parts of TiedInv a step without a tick does not touch.             *)
LEMMA TiedKept ==
  ASSUME UseInv, TypeOK', Kept, restarts' = restarts
  PROVE  /\ \A k \in Keys : held'[k] = held[k] => HeldTied(k)'
         /\ \A k \in Keys : limiter'[k] = limiter[k] => LimiterTied(k)'
         /\ \A c \in Conns : Same(c) => AnswerTied(c)' /\ UsingTied(c)'
<1>1. TypeOK
  BY DEF UseInv, BindInv, LockInv
<1>2. ASSUME NEW k \in Keys, held'[k] = held[k] PROVE HeldTied(k)'
  <2> DEFINE n == Slack + held[k].life - held[k].late
  <2> SUFFICES ASSUME Live(held[k]), held[k].epoch = restarts
               PROVE  /\ issued'[held[k].token] # NoReq /\ issued'[held[k].token].key = k
                      /\ n > 0 => /\ keyCache'[k].token = held[k].token
                                  /\ keyCache'[k].life >= n
                      /\ held[k].used => tokenCache'[held[k].token].life >= held[k].life
    BY <1>2 DEF HeldTied, Tied
  <2>1. n \in Int /\ held[k].token \in Token /\ held[k].life \in Nat
    BY Bounds, Lives
  <2>2. /\ Tied(k, held[k].token, n)
        /\ held[k].used => tokenCache[held[k].token].life >= held[k].life
    BY DEF UseInv, TiedInv, HeldTied
  <2>3. /\ tokenCache[held[k].token].life \in Nat
        /\ tokenCache'[held[k].token].life \in Nat
        /\ tokenCache'[held[k].token].life >= tokenCache[held[k].token].life
    BY <1>1, <2>1, Lives DEF TypeOK, Kept, TokensKept
  <2>4. held[k].used => tokenCache'[held[k].token].life >= held[k].life
    BY <2>1, <2>2, <2>3
  <2> HIDE DEF n
  <2> QED  BY <1>1, <2>1, <2>2, <2>4, TiedGrows
<1>3. ASSUME NEW k \in Keys, limiter'[k] = limiter[k] PROVE LimiterTied(k)'
  <2> SUFFICES ASSUME Live(limiter[k])
               PROVE  /\ issued'[limiter[k].token] # NoReq
                      /\ issued'[limiter[k].token].key = k
                      /\ limiter[k].life > 0 => /\ keyCache'[k].token = limiter[k].token
                                                /\ keyCache'[k].life >= limiter[k].life
    BY <1>3 DEF LimiterTied, Tied
  <2>1. limiter[k].life \in Int /\ limiter[k].token \in Token
    BY Bounds
  <2>2. Tied(k, limiter[k].token, limiter[k].life)
    BY DEF UseInv, TiedInv, LimiterTied
  <2> QED  BY <1>1, <2>1, <2>2, TiedGrows
<1>4. ASSUME NEW c \in Conns, Same(c) PROVE AnswerTied(c)' /\ UsingTied(c)'
  <2>1. /\ stage'[c] = stage[c] /\ pc'[c] = pc[c] /\ ret'[c] = ret[c]
        /\ route'[c] = route[c] /\ using'[c] = using[c] /\ lag'[c] = lag[c]
    BY <1>4 DEF Same
  <2>2. /\ AnswerTied(c) /\ UsingTied(c)
        /\ stage[c] # "rest" => route[c].key \in Keys
    BY RouteType DEF UseInv, TiedInv, FlowInv, Flow
  <2>3. AnswerTied(c)'
    <3> DEFINE n == TTL - lag[c]
               t == ret[c].token
               k == route[c].key
    <3> SUFFICES ASSUME Arrived(c)
                 PROVE  /\ issued'[t] # NoReq /\ issued'[t].key = k
                        /\ n > 0 => keyCache'[k].token = t /\ keyCache'[k].life >= n
      BY <2>1 DEF AnswerTied, Arrived, Tied
    <3>1. Tied(k, t, n) /\ k \in Keys
      BY <2>2 DEF AnswerTied, Arrived
    <3>2. t \in Token
      BY <1>1 DEF Arrived, TypeOK, Result
    <3>3. n \in Int
      BY Bounds, Lives
    <3> HIDE DEF n, t, k
    <3> QED  BY <3>1, <3>2, <3>3, <1>1, TiedGrows
  <2>4. UsingTied(c)'
    <3> DEFINE n == Window(c)
               t == using[c].token
               k == route[c].key
    <3>1. Window(c)' = n
      BY <2>1 DEF Window
    <3> SUFFICES ASSUME stage[c] \in {"call", "called"}, using[c].epoch = restarts
                 PROVE  /\ issued'[t] # NoReq /\ issued'[t].key = k
                        /\ n > 0 => keyCache'[k].token = t /\ keyCache'[k].life >= n
      BY <2>1, <3>1 DEF UsingTied, Tied
    <3>2. Tied(k, t, n) /\ k \in Keys
      BY <2>2 DEF UsingTied
    <3>3. t \in Token /\ n \in Int
      BY Bounds
    <3> HIDE DEF n, t, k
    <3> QED  BY <3>2, <3>3, <1>1, TiedGrows
  <2> QED  BY <2>3, <2>4
<1> QED  BY <1>2, <1>3, <1>4


-----------------------------------------------------------------------------
(* What a step of the whole is for the runner.                             *)
LEMMA StepKind ==
  ASSUME UseInv, [UseNext]_<<vars, clientVars>>
  PROVE  RunnerStep \/ Pass \/ Restart
<1>1. ASSUME NEW c \in Conns, Ask(c) PROVE RunnerStep
  <2>1. route[c] \in Requests
    BY <1>1, RouteType DEF UseInv, FlowInv, Flow, Ask
  <2> QED  BY <1>1, <2>1 DEF Ask, RunnerStep
<1>2. ASSUME NEW c \in Conns, HTTPReqCall(c) PROVE RunnerStep
  <2>1. using[c].token \in Token
    BY Bounds
  <2> QED  BY <1>2, <2>1 DEF HTTPReqCall, RunnerStep
<1>3. ASSUME NEW c \in Conns, Serve(c) PROVE RunnerStep
  BY <1>3 DEF Serve, RunnerStep
<1>4. ASSUME NEW c \in Conns,
             \/ Receive(c) \/ Served(c) \/ NotFound(c) \/ Drop(c)
             \/ \E r \in Routes : Begin(c, r)
      PROVE  RunnerStep
  <2>1. UNCHANGED vars
    BY <1>4 DEF Receive, Served, NotFound, Drop, Begin
  <2> QED  BY <2>1 DEF RunnerStep
<1>5. CASE UNCHANGED <<vars, clientVars>>
  BY <1>5 DEF RunnerStep
<1> QED  BY <1>1, <1>2, <1>3, <1>4, <1>5 DEF UseNext

(* The cache invariant survives the client and a restart.                  *)
LEMMA BindKept ==
  ASSUME NoWrap, UseInv, [UseNext]_<<vars, clientVars>>
  PROVE  BindInv'
<1>1. BindInv /\ calls \in 0 .. MaxPrepares
  BY DEF UseInv, BindInv, LockInv, TypeOK
<1>2. CASE RunnerStep \/ Pass
  <2>1. [Next]_vars
    BY <1>2 DEF RunnerStep, Pass, Next
  <2> QED  BY <1>1, <2>1, BindStep
<1>3. CASE Restart
  <2>1. Start' /\ (calls \in 0 .. MaxPrepares)'
    BY <1>1, <1>3 DEF Restart, Start, newConfCache
  <2>2. Start' /\ (calls \in 0 .. MaxPrepares)' => BindInv'
    BY StartBinds, PTL
  <2> QED  BY <2>1, <2>2
<1> QED  BY <1>2, <1>3, StepKind

(* What a step of the runner leaves alone.                                 *)
LEMMA StepKeeps ==
  ASSUME UseInv, RunnerStep
  PROVE  Kept
<1>1. LockInv /\ Fresh
  BY DEF UseInv, BindInv
<1>2. [Next]_vars
  BY DEF RunnerStep, Next
<1>3. IssuedKept
  BY <1>1, <1>2, IssuedGrows DEF IssuedKept
<1> QED  BY <1>1, <1>3, RunnerKeeps DEF Kept

(* A step on connection c, checked on what it changes.                     *)
LEMMA OneConnection ==
  ASSUME UseInv, TypeOK', Kept, restarts' = restarts, NEW c \in Conns,
         \A d \in Conns \ {c} : Same(d) /\ req'[d] = req[d],
         \A k \in Keys : held'[k] = held[k] \/ HeldTied(k)',
         \A k \in Keys : limiter'[k] = limiter[k] \/ LimiterTied(k)',
         Flow(c)', AnswerTied(c)', UsingTied(c)',
         \A t \in Token : issued'[t] # NoReq => issued'[t] \in Routes
  PROVE  FlowInv' /\ TiedInv'
<1>1. ASSUME NEW d \in Conns \ {c} PROVE Flow(d)'
  <2>1. /\ stage'[d] = stage[d] /\ pc'[d] = pc[d] /\ ret'[d] = ret[d]
        /\ route'[d] = route[d] /\ using'[d] = using[d] /\ req'[d] = req[d]
    BY DEF Same
  <2>2. Flow(d)
    BY DEF UseInv, FlowInv
  <2> QED  BY <2>1, <2>2 DEF Flow, Resolved
<1>2. FlowInv'
  BY <1>1 DEF FlowInv
<1>3. /\ \A k \in Keys : HeldTied(k)' /\ LimiterTied(k)'
      /\ \A d \in Conns : AnswerTied(d)' /\ UsingTied(d)'
  BY TiedKept
<1> QED  BY <1>2, <1>3 DEF TiedInv

(* Begin: a held token of this process is tied to the route's key.         *)
LEMMA BeginStep ==
  ASSUME UseInv, TypeOK', Kept, NEW c \in Conns, NEW r \in Routes, Begin(c, r)
  PROVE  ClientType' /\ FlowInv' /\ TiedInv'
<1> USE DEF UseInv
<1> DEFINE h == held[r.key]
<1>1. /\ stage[c] = "rest" /\ route' = [route EXCEPT ![c] = r]
      /\ UNCHANGED <<vars, held, lag, limiter, restarts>>
      /\ r.key \in Keys
  BY RouteType DEF Begin
<1>2. UNCHANGED <<pc, ret, req, keyCache, issued>>
  BY <1>1 DEF vars, localVars, cacheVars
<1>3. /\ h \in HeldType /\ [token |-> h.token, epoch |-> h.epoch, late |-> h.late] \in UseType
      /\ h.life \in Nat /\ h.late \in Nat /\ lag[c] \in Nat
  <2>1. h \in HeldType
    BY <1>1 DEF ClientType
  <2>2. [token |-> h.token, epoch |-> h.epoch, late |-> h.late] \in UseType
    BY <2>1 DEF HeldType, UseType
  <2> QED  BY <2>1, <2>2, <1>1, Bounds
<1>4. ClientType'
  <2>1. stage' \in [Conns -> StageSet] /\ route' \in [Conns -> Routes \cup {NoReq}]
    BY <1>1 DEF Begin, ClientType, StageSet
  <2>2. using' \in [Conns -> UseType]
    BY <1>3 DEF Begin, ClientType
  <2> QED  BY <2>1, <2>2, <1>1 DEF ClientType
<1>5. \A d \in Conns \ {c} : Same(d) /\ req'[d] = req[d]
  BY <1>1, <1>2 DEF Same, Begin, ClientType
<1>6. /\ route'[c] = r /\ stage'[c] \in {"ask", "call"} /\ pc[c] = "idle"
      /\ stage'[c] = "call" =>
           Live(h) /\ using'[c] = [token |-> h.token, epoch |-> h.epoch, late |-> h.late]
  BY <1>1 DEF Begin, ClientType, FlowInv, Flow
<1>7. Flow(c)' /\ AnswerTied(c)'
  BY <1>2, <1>6 DEF Flow, AnswerTied, Arrived, Resolved
<1>8. UsingTied(c)'
  <2> SUFFICES ASSUME stage'[c] = "call", using'[c].epoch = restarts
               PROVE  Tied(route[c].key, using[c].token, Window(c))'
    BY <1>1, <1>6 DEF UsingTied
  <2>1. /\ Live(h) /\ using'[c].token = h.token /\ using'[c].late = h.late
        /\ h.epoch = restarts
    BY <1>6
  <2>2. Tied(r.key, h.token, Slack + h.life - h.late)
    BY <1>1, <2>1 DEF TiedInv, HeldTied
  <2>3. Window(c)' = Slack + 1 - h.late - lag[c]
    BY <1>1, <2>1 DEF Window, Slack
  <2>4. /\ keyCache[r.key].life \in Nat /\ h.life >= 1
        /\ Slack + 1 - h.late - lag[c] <= Slack + h.life - h.late
        /\ Slack + 1 - h.late - lag[c] \in Int /\ Slack + h.life - h.late \in Int
    BY <1>1, <1>3, <2>1, Bounds, Lives DEF Live
  <2> QED  BY <1>2, <1>6, <2>1, <2>2, <2>3, <2>4 DEF Tied
<1>9. \A t \in Token : issued'[t] # NoReq => issued'[t] \in Routes
  BY <1>2 DEF FlowInv
<1> QED  BY <1>1, <1>4, <1>5, <1>7, <1>8, <1>9, OneConnection

(* Ask: PrepareConf for the route.                                         *)
LEMMA AskStep ==
  ASSUME UseInv, TypeOK', Kept, NEW c \in Conns, Ask(c)
  PROVE  ClientType' /\ FlowInv' /\ TiedInv'
<1> USE DEF UseInv
<1>1. /\ stage[c] = "ask" /\ stage' = [stage EXCEPT ![c] = "asked"]
      /\ pc' = [pc EXCEPT ![c] = "lock"] /\ req' = [req EXCEPT ![c] = route[c]]
      /\ ret' = [ret EXCEPT ![c] = [kind |-> "none"]]
      /\ UNCHANGED <<held, route, using, lag, limiter, restarts, issued>>
  BY DEF Ask, PrepareConf, cacheVars
<1>2. ClientType'
  BY <1>1 DEF ClientType, StageSet
<1>3. \A d \in Conns \ {c} : Same(d) /\ req'[d] = req[d]
  BY <1>1 DEF Same, ClientType, BindInv, LockInv, TypeOK
<1>4. /\ stage'[c] = "asked" /\ pc'[c] = "lock" /\ req'[c] = route'[c]
      /\ route[c] \in Routes
  BY <1>1 DEF ClientType, BindInv, LockInv, TypeOK, FlowInv, Flow
<1>5. Flow(c)' /\ AnswerTied(c)' /\ UsingTied(c)'
  BY <1>1, <1>4 DEF Flow, AnswerTied, Arrived, Resolved, UsingTied
<1>6. \A t \in Token : issued'[t] # NoReq => issued'[t] \in Routes
  BY <1>1 DEF FlowInv
<1> QED  BY <1>1, <1>2, <1>3, <1>5, <1>6, OneConnection

(* Serve: a token PrepareConf returns is tied to the route's key.          *)
LEMMA ServeStep ==
  ASSUME UseInv, BindInv', Kept, NEW c \in Conns, Serve(c)
  PROVE  ClientType' /\ FlowInv' /\ TiedInv'
<1> USE DEF UseInv
<1>1. /\ Lock(c) \/ SetStep(c)
      /\ UNCHANGED <<held, stage, route, using, lag, limiter, restarts>>
  BY DEF Serve, clientVars
<1>2. TypeOK /\ Exclusion /\ TypeOK'
  BY DEF BindInv, LockInv
<1>3. /\ pc[c] # "idle"
      /\ \A d \in Conns \ {c} : pc'[d] = pc[d] /\ ret'[d] = ret[d]
      /\ req' = req
      /\ \/ issued' = issued
         \/ issued' = [issued EXCEPT ![token[c]] = req[c]]
  BY <1>1, <1>2
     DEF Lock, SetStep, KeyHit, KeyMiss, ParseConf, Panic, CountToken, TakeToken,
         StoreToken, StoreKey, Advance, Return, cacheVars, TypeOK
<1>4. /\ stage[c] = "asked" /\ req[c] = route[c] /\ route[c] \in Routes
      /\ route[c].key \in Keys
  BY <1>3, RouteType DEF FlowInv, Flow
<1>5. ClientType'
  BY <1>1 DEF ClientType
<1>6. \A d \in Conns \ {c} : Same(d) /\ req'[d] = req[d]
  BY <1>1, <1>3 DEF Same
<1>7. Flow(c)' /\ UsingTied(c)'
  BY <1>1, <1>3, <1>4 DEF Flow, Resolved, UsingTied
<1>8. AnswerTied(c)'
  <2> SUFFICES ASSUME pc'[c] = "idle", ret'[c].kind = "token"
               PROVE  Tied(route[c].key, ret[c].token, TTL - lag[c])'
    BY DEF AnswerTied, Arrived
  <2>1. KeyHit(c) \/ StoreKey(c)
    <3>1. ~Panic(c)
      BY <1>2 DEF Panic, Return, TypeOK
    <3>2. ~(Lock(c) \/ KeyMiss(c) \/ ParseConf(c) \/ CountToken(c) \/ TakeToken(c)
            \/ StoreToken(c))
      BY <1>2 DEF Lock, KeyMiss, ParseConf, CountToken, TakeToken, StoreToken, Advance,
         TypeOK
    <3> QED  BY <3>1, <3>2, <1>1 DEF SetStep
  <2>2. TTL \in Nat /\ route[c].key \in Keys \cup {NoKey}
    BY <1>4, Lives
  <2> DEFINE Cached == /\ keyCache'[route[c].key].token = ret'[c].token
                       /\ keyCache'[route[c].key].life = TTL
  <2>3. ASSUME KeyHit(c) PROVE Cached
    <3>1. /\ keyCache' = [keyCache EXCEPT ![route[c].key] = [@ EXCEPT !.life = TTL]]
          /\ ret' = [ret EXCEPT ![c] = [kind |-> "token",
                                        token |-> keyCache[route[c].key].token]]
      BY <2>3, <1>4 DEF KeyHit, Return, Touch
    <3> QED  BY <3>1, <2>2, <1>2 DEF TypeOK
  <2>4. ASSUME StoreKey(c) PROVE Cached
    <3>1. /\ keyCache' = [keyCache EXCEPT ![route[c].key] = [token |-> token[c], life |-> TTL]]
          /\ ret' = [ret EXCEPT ![c] = [kind |-> "token", token |-> token[c]]]
      BY <2>4, <1>4 DEF StoreKey, Return
    <3> QED  BY <3>1, <2>2, <1>2 DEF TypeOK
  <2>5. Cached
    BY <2>1, <2>3, <2>4
  <2>6. /\ issued'[ret'[c].token] # NoReq
        /\ issued'[ret'[c].token].key = route[c].key
    BY <2>5, <1>4, Lives DEF BindInv, TokenBinding, Live
  <2>7. TTL >= TTL - lag'[c] /\ route'[c] = route[c]
    BY <1>1, Bounds, Lives
  <2> QED  BY <2>5, <2>6, <2>7 DEF Tied
<1>9. \A t \in Token : issued'[t] # NoReq => issued'[t] \in Routes
  BY <1>2, <1>3, <1>4 DEF FlowInv, TypeOK
<1> QED  BY <1>1, <1>2, <1>5, <1>6, <1>7, <1>8, <1>9, OneConnection

(* Receive: the token APISIX keeps and the one it uses are the answer's.   *)
LEMMA ReceiveStep ==
  ASSUME UseInv, TypeOK', Kept, NEW c \in Conns, Receive(c)
  PROVE  ClientType' /\ FlowInv' /\ TiedInv'
<1> USE DEF UseInv
<1> DEFINE k == route[c].key
           h == [token |-> ret[c].token, life |-> ConfExpireTime, epoch |-> restarts,
                 late |-> lag[c], used |-> FALSE]
           u == [token |-> ret[c].token, epoch |-> restarts, late |-> lag[c]]
<1>1. /\ Arrived(c) /\ stage' = [stage EXCEPT ![c] = "call"]
      /\ held' = [held EXCEPT ![k] = h] /\ using' = [using EXCEPT ![c] = u]
      /\ UNCHANGED <<vars, route, lag, limiter, restarts>>
  BY DEF Receive, Arrived
<1>2. UNCHANGED <<pc, ret, req, keyCache, tokenCache, issued>>
  BY <1>1 DEF vars, localVars, cacheVars
<1>3. /\ ret[c].token \in Token /\ restarts \in Nat /\ route[c] \in Routes
      /\ k \in Keys /\ pc[c] = "idle" /\ lag[c] \in Lags
  BY <1>1, RouteType
     DEF Arrived, BindInv, LockInv, TypeOK, Result, ClientType, FlowInv, Flow
<1>4. h \in HeldType /\ u \in UseType
  BY <1>3, Lives DEF HeldType, UseType
<1> HIDE DEF h, u
<1>5. ClientType'
  <2>1. held' \in [Keys -> HeldType]
    BY <1>1, <1>4 DEF ClientType
  <2>2. \A j \in Keys : held'[j].epoch <= restarts
    BY <1>1, <1>3 DEF ClientType, h
  <2>3. using' \in [Conns -> UseType]
    BY <1>1, <1>4 DEF ClientType
  <2>4. stage' \in [Conns -> StageSet]
    BY <1>1 DEF ClientType, StageSet
  <2> QED  BY <2>1, <2>2, <2>3, <2>4, <1>1 DEF ClientType
<1>6. \A d \in Conns \ {c} : Same(d) /\ req'[d] = req[d]
  BY <1>1, <1>2 DEF Same, ClientType
<1>7. stage'[c] = "call" /\ using'[c] = u
  BY <1>1 DEF ClientType
<1>8. Flow(c)' /\ AnswerTied(c)'
  BY <1>1, <1>2, <1>3, <1>7 DEF Flow, Resolved, AnswerTied, Arrived
<1>9. /\ Tied(k, ret[c].token, TTL - lag[c])
      /\ keyCache[k].life \in Nat /\ lag[c] \in Nat
  BY <1>1, <1>3, Bounds DEF TiedInv, AnswerTied
<1>10. UsingTied(c)'
  <2>1. Window(c)' = Slack + 1 - lag[c] - lag[c]
    BY <1>1, <1>7 DEF Window, Slack, u
  <2>2. /\ Slack + 1 - lag[c] - lag[c] \in Int /\ TTL - lag[c] \in Int
        /\ Slack + 1 - lag[c] - lag[c] <= TTL - lag[c]
    BY <1>9, Lives
  <2> QED  BY <2>1, <2>2, <1>1, <1>2, <1>7, <1>9 DEF UsingTied, Tied, u
<1>11. ASSUME NEW j \in Keys PROVE held'[j] = held[j] \/ HeldTied(j)'
  <2>1. CASE j # k
    BY <2>1, <1>1 DEF ClientType
  <2>2. CASE j = k
    <3>1. /\ held'[j].token = ret[c].token /\ held'[j].life = ConfExpireTime
          /\ held'[j].late = lag[c] /\ ~held'[j].used
      BY <2>2, <1>1, <1>3 DEF ClientType, h
    <3>2. Slack + held'[j].life - held'[j].late = TTL - lag[c]
      BY <3>1, <1>9, Lives
    <3>3. Tied(j, held[j].token, Slack + held[j].life - held[j].late)'
      BY <2>2, <3>1, <3>2, <1>2, <1>9 DEF Tied, Slack
    <3> QED  BY <3>1, <3>3 DEF HeldTied
  <2> QED  BY <2>1, <2>2
<1>12. \A t \in Token : issued'[t] # NoReq => issued'[t] \in Routes
  BY <1>2 DEF FlowInv
<1> QED  BY <1>1, <1>5, <1>6, <1>8, <1>10, <1>11, <1>12, OneConnection

(* HTTPReqCall: what is found was asked for, and its entry is as new.      *)
LEMMA HTTPReqCallStep ==
  ASSUME UseInv, TypeOK', Kept, NEW c \in Conns, HTTPReqCall(c)
  PROVE  ClientType' /\ FlowInv' /\ TiedInv'
<1> USE DEF UseInv
<1> DEFINE k == route[c].key
           h == held[k]
           b == h.used \/ Finds(c)
<1>1. /\ stage[c] = "call" /\ stage' = [stage EXCEPT ![c] = "called"]
      /\ pc[c] = "idle"
      /\ held' = [held EXCEPT ![k] = [h EXCEPT !.used = b]]
      /\ UNCHANGED <<route, using, lag, limiter, restarts>>
      /\ UNCHANGED <<pc, req, keyCache, issued>>
  <2>1. held' = [held EXCEPT ![k] = [h EXCEPT !.used = b]]
    BY DEF HTTPReqCall
  <2> QED  BY <2>1 DEF HTTPReqCall, GetRuleConf
<1>2. /\ \A d \in Conns \ {c} : ret'[d] = ret[d]
      /\ ret'[c].kind = "conf" => ret'[c].token = using[c].token
  BY DEF HTTPReqCall, GetRuleConf, BindInv, LockInv, TypeOK
<1>3. /\ route[c] \in Routes /\ k \in Keys /\ h \in HeldType /\ h.used \in BOOLEAN
      /\ b \in BOOLEAN
  <2>1. route[c] \in Routes /\ k \in Keys
    BY <1>1, RouteType DEF FlowInv, Flow
  <2>2. h \in HeldType
    BY <2>1 DEF ClientType
  <2>3. h.used \in BOOLEAN
    BY <2>2 DEF HeldType
  <2>4. b \in BOOLEAN
    BY <2>3 DEF Finds, Live
  <2> QED  BY <2>1, <2>2, <2>3, <2>4
<1> HIDE DEF b
<1>4. /\ held'[k].token = h.token /\ held'[k].life = h.life /\ held'[k].epoch = h.epoch
      /\ held'[k].late = h.late /\ held'[k].used = b /\ held'[k] \in HeldType
      /\ \A j \in Keys : j # k => held'[j] = held[j]
  <2>1. held'[k] = [h EXCEPT !.used = b] /\ \A j \in Keys : j # k => held'[j] = held[j]
    BY <1>1, <1>3 DEF ClientType
  <2> HIDE DEF h
  <2>2. /\ held'[k].token = h.token /\ held'[k].life = h.life /\ held'[k].epoch = h.epoch
        /\ held'[k].late = h.late /\ held'[k].used = b /\ held'[k] \in HeldType
    BY <2>1, <1>3 DEF HeldType
  <2> QED  BY <2>1, <2>2
<1>5. ClientType'
  <2>1. /\ held' \in [Keys -> HeldType]
        /\ \A j \in Keys : held'[j].epoch <= restarts
    <3>1. held' = [j \in Keys |-> held'[j]]
      BY <1>1 DEF ClientType
    <3>2. \A j \in Keys : held'[j] \in HeldType /\ held'[j].epoch <= restarts
      BY <1>4 DEF ClientType
    <3> QED  BY <3>1, <3>2
  <2> QED  BY <2>1, <1>1 DEF ClientType, StageSet
<1>6. \A d \in Conns \ {c} : Same(d) /\ req'[d] = req[d]
  BY <1>1, <1>2 DEF Same, ClientType
<1>7. stage'[c] = "called"
  BY <1>1 DEF ClientType
<1>8. Flow(c)' /\ AnswerTied(c)'
  BY <1>1, <1>2, <1>3, <1>7 DEF Flow, Resolved, AnswerTied, Arrived
<1>9. UsingTied(c)'
  <2>1. Window(c)' = Window(c)
    BY <1>1 DEF Window
  <2> QED  BY <2>1, <1>1, <1>7 DEF TiedInv, UsingTied, Tied
<1>10. ASSUME NEW j \in Keys PROVE held'[j] = held[j] \/ HeldTied(j)'
  <2>1. CASE j # k
    BY <2>1, <1>4
  <2>2. CASE j = k
    <3> SUFFICES ASSUME Live(h), h.epoch = restarts PROVE HeldTied(j)'
      BY <2>2, <1>1, <1>4 DEF HeldTied, Live
    <3>1. /\ Tied(k, h.token, Slack + h.life - h.late)
          /\ h.used => tokenCache[h.token].life >= h.life
      BY <1>3 DEF TiedInv, HeldTied
    <3>2. /\ h.token \in Token /\ h.life \in Nat /\ h.life <= ConfExpireTime
          /\ tokenCache[h.token].life \in Nat /\ tokenCache'[h.token].life \in Nat
          /\ tokenCache'[h.token].life >= tokenCache[h.token].life
      BY <1>3, Bounds, Lives DEF TypeOK, Kept, TokensKept
    <3>3. ASSUME Finds(c) PROVE tokenCache'[h.token].life = TTL
      <4>1. h.token = using[c].token /\ Live(tokenCache[h.token])
        BY <3>3 DEF Finds
      <4>2. tokenCache' = [tokenCache EXCEPT ![h.token] = [@ EXCEPT !.life = TTL]]
        BY <4>1 DEF HTTPReqCall, GetRuleConf, Touch
      <4> QED  BY <4>2, <3>2 DEF BindInv, LockInv, TypeOK
    <3>4. held'[k].used => tokenCache'[h.token].life >= h.life
      <4>1. Finds(c) => tokenCache'[h.token].life >= h.life
        BY <3>2, <3>3, Lives
      <4>2. h.used => tokenCache'[h.token].life >= h.life
        BY <3>1, <3>2
      <4> HIDE DEF h, k
      <4> QED  BY <4>1, <4>2, <1>4, Zenon DEF b
    <3>5. Tied(j, held[j].token, Slack + held[j].life - held[j].late)'
      BY <2>2, <3>1, <1>1, <1>4 DEF Tied, Slack
    <3>6. held'[j].used => tokenCache'[held'[j].token].life >= held'[j].life
      <4> HIDE DEF h, k
      <4> QED  BY <2>2, <3>4, <1>4, Zenon
    <3> QED  BY <3>5, <3>6, Zenon DEF HeldTied
  <2> QED  BY <2>1, <2>2
<1>11. \A t \in Token : issued'[t] # NoReq => issued'[t] \in Routes
  BY <1>1 DEF FlowInv
<1> QED  BY <1>1, <1>5, <1>6, <1>8, <1>9, <1>10, <1>11, OneConnection

(* The end of a request leaves nothing of it.                              *)
LEMMA FinishType ==
  ASSUME UseInv, NEW c \in Conns, Finish(c)
  PROVE  /\ stage' \in [Conns -> StageSet] /\ route' \in [Conns -> Routes \cup {NoReq}]
         /\ using' \in [Conns -> UseType] /\ lag' \in [Conns -> Lags]
         /\ stage'[c] = "rest"
<1>1. NoUse \in UseType /\ 0 \in Lags
  BY TokenType, LifeAssumption DEF NoUse, UseType, Lags
<1> QED  BY <1>1 DEF UseInv, Finish, ClientType, StageSet

(* Served: the limiter remembered is that of the token used.               *)
LEMMA ServedStep ==
  ASSUME UseInv, TypeOK', Kept, NEW c \in Conns, Served(c)
  PROVE  ClientType' /\ FlowInv' /\ TiedInv'
<1> USE DEF UseInv
<1> DEFINE k == route[c].key
           n == Window(c)
<1>1. /\ Resolved(c) /\ Finish(c) /\ UNCHANGED <<vars, held, restarts>>
      /\ limiter' = IF using[c].epoch = restarts
                    THEN [limiter EXCEPT ![k] = [token |-> ret[c].token, life |-> n]]
                    ELSE limiter
  BY DEF Served, Resolved, Limiter
<1>2. UNCHANGED <<pc, ret, req, keyCache, issued>>
  BY <1>1 DEF vars, localVars, cacheVars
<1>3. /\ ret[c].token = using[c].token /\ ret[c].token \in Token /\ route[c] \in Routes
      /\ k \in Keys /\ pc[c] = "idle" /\ n \in Int
  BY <1>1, RouteType, Bounds DEF Resolved, FlowInv, Flow
<1> HIDE DEF n
<1>4. limiter' \in [Keys -> [token : Token, life : Int]]
  BY <1>1, <1>3 DEF ClientType
<1>5. ClientType'
  BY <1>1, <1>4, FinishType DEF ClientType
<1>6. \A d \in Conns \ {c} : Same(d) /\ req'[d] = req[d]
  BY <1>1, <1>2 DEF Same, Finish, ClientType
<1>7. Flow(c)' /\ AnswerTied(c)' /\ UsingTied(c)'
  BY <1>1, <1>2, <1>3, FinishType DEF Flow, Resolved, AnswerTied, Arrived, UsingTied
<1>8. ASSUME NEW j \in Keys PROVE limiter'[j] = limiter[j] \/ LimiterTied(j)'
  <2>1. CASE j # k \/ using[c].epoch # restarts
    BY <2>1, <1>1 DEF ClientType
  <2>2. CASE j = k /\ using[c].epoch = restarts
    <3>1. limiter'[j].token = using[c].token /\ limiter'[j].life = n
      BY <2>2, <1>1, <1>3 DEF ClientType
    <3>2. Tied(k, using[c].token, n)
      BY <2>2, <1>1 DEF TiedInv, UsingTied, Resolved, n
    <3> QED  BY <2>2, <3>1, <3>2, <1>2 DEF LimiterTied, Tied
  <2> QED  BY <2>1, <2>2
<1>9. \A t \in Token : issued'[t] # NoReq => issued'[t] \in Routes
  BY <1>2 DEF FlowInv
<1>10. restarts' = restarts /\ \A j \in Keys : held'[j] = held[j]
  BY <1>1
<1> QED  BY <1>5, <1>6, <1>7, <1>8, <1>9, <1>10, OneConnection

(* NotFound and Drop give something up and take nothing new.               *)
LEMMA GiveUpStep ==
  ASSUME UseInv, TypeOK', Kept, NEW c \in Conns, NotFound(c) \/ Drop(c)
  PROVE  ClientType' /\ FlowInv' /\ TiedInv'
<1> USE DEF UseInv
<1>1. UNCHANGED <<vars, limiter, restarts>> /\ stage[c] \notin {"rest", "asked"}
  BY DEF NotFound, Drop
<1>2. UNCHANGED <<pc, ret, req, keyCache, issued>>
  BY <1>1 DEF vars, localVars, cacheVars
<1>3. route[c] \in Routes /\ route[c].key \in Keys /\ pc[c] = "idle"
  BY <1>1, RouteType DEF FlowInv, Flow
<1>4. CASE NotFound(c)
  <2>1. /\ held' = [held EXCEPT ![route[c].key] = NoHeld]
        /\ using' = [using EXCEPT ![c] = NoUse]
        /\ stage' = [stage EXCEPT ![c] = "ask"]
        /\ UNCHANGED <<route, lag>>
    BY <1>4 DEF NotFound
  <2>2. NoHeld \in HeldType /\ NoUse \in UseType
    BY TokenType, Lives, LifeAssumption DEF NoHeld, NoUse, HeldType, UseType, Lags
  <2>3. ClientType'
    <3>1. held' \in [Keys -> HeldType] /\ using' \in [Conns -> UseType]
      BY <2>1, <2>2 DEF ClientType
    <3>2. \A j \in Keys : held'[j].epoch <= restarts
      BY <2>1 DEF ClientType, NoHeld
    <3>3. stage' \in [Conns -> StageSet]
      BY <2>1 DEF ClientType, StageSet
    <3> QED  BY <2>1, <3>1, <3>2, <3>3, <1>1 DEF ClientType
  <2>4. \A d \in Conns \ {c} : Same(d) /\ req'[d] = req[d]
    BY <2>1, <1>2 DEF Same, ClientType
  <2>5. stage'[c] = "ask"
    BY <2>1 DEF ClientType
  <2>6. Flow(c)' /\ AnswerTied(c)' /\ UsingTied(c)'
    BY <2>1, <2>5, <1>2, <1>3 DEF Flow, Resolved, AnswerTied, Arrived, UsingTied
  <2>7. ASSUME NEW j \in Keys PROVE held'[j] = held[j] \/ HeldTied(j)'
    BY <2>1 DEF ClientType, HeldTied, Live, NoHeld
  <2>8. \A t \in Token : issued'[t] # NoReq => issued'[t] \in Routes
    BY <1>2 DEF FlowInv
  <2> QED  BY <2>3, <2>4, <2>6, <2>7, <2>8, <1>1, OneConnection
<1>5. CASE Drop(c)
  <2>1. Finish(c) /\ UNCHANGED held
    BY <1>5 DEF Drop
  <2>2. ClientType'
    BY <2>1, <1>1, FinishType DEF ClientType
  <2>3. \A d \in Conns \ {c} : Same(d) /\ req'[d] = req[d]
    BY <2>1, <1>2 DEF Same, Finish, ClientType
  <2>4. Flow(c)' /\ AnswerTied(c)' /\ UsingTied(c)'
    BY <2>1, <1>2, <1>3, FinishType DEF Flow, Resolved, AnswerTied, Arrived, UsingTied
  <2>5. \A t \in Token : issued'[t] # NoReq => issued'[t] \in Routes
    BY <1>2 DEF FlowInv
  <2>6. \A j \in Keys : held'[j] = held[j]
    BY <2>1
  <2> QED  BY <2>2, <2>3, <2>4, <2>5, <2>6, <1>1, OneConnection
<1> QED  BY <1>4, <1>5

(* Restart: tokens of earlier processes are nobody's concern.              *)
LEMMA RestartStep ==
  ASSUME UseInv, Restart
  PROVE  ClientType' /\ FlowInv' /\ TiedInv'
<1> USE DEF UseInv
<1>1. ClientType'
  <2>1. NoUse \in UseType /\ 0 \in Lags /\ NoLimiter \in [token : Token, life : Int]
    BY TokenType, LifeAssumption DEF NoUse, UseType, Lags, NoLimiter
  <2>2. /\ stage' \in [Conns -> StageSet] /\ route' \in [Conns -> Routes \cup {NoReq}]
        /\ using' \in [Conns -> UseType] /\ lag' \in [Conns -> Lags]
        /\ limiter' \in [Keys -> [token : Token, life : Int]]
    BY <2>1 DEF Restart, StageSet
  <2>3. /\ restarts' \in Nat /\ \A k \in Keys : held'[k].epoch <= restarts'
        /\ held' = held
    <3>1. \A k \in Keys : held[k].epoch \in Nat /\ held[k].epoch <= restarts
      BY Bounds DEF ClientType
    <3> QED  BY <3>1 DEF Restart, ClientType
  <2> QED  BY <2>2, <2>3 DEF ClientType
<1>2. FlowInv'
  BY DEF Restart, FlowInv, Flow, Resolved
<1>3. ASSUME NEW k \in Keys PROVE HeldTied(k)' /\ LimiterTied(k)'
  <2>1. held'[k].epoch # restarts'
    <3>1. held[k].epoch \in Nat /\ held[k].epoch <= restarts /\ restarts \in Nat
      BY Bounds DEF ClientType
    <3> QED  BY <3>1 DEF Restart
  <2>2. ~Live(limiter'[k])
    BY DEF Restart, NoLimiter, Live
  <2> QED  BY <2>1, <2>2 DEF HeldTied, LimiterTied
<1>4. ASSUME NEW c \in Conns PROVE AnswerTied(c)' /\ UsingTied(c)'
  BY DEF Restart, AnswerTied, Arrived, UsingTied
<1> QED  BY <1>1, <1>2, <1>3, <1>4 DEF TiedInv

(* A tick: what was tied for n ticks is tied for n - 1.                    *)
LEMMA TiedAges ==
  ASSUME UseInv, Tick, NEW k \in Keys, NEW t \in Token, NEW n \in Int, Tied(k, t, n)
  PROVE  /\ issued'[t] # NoReq /\ issued'[t].key = k
         /\ n - 1 > 0 => keyCache'[k].token = t /\ keyCache'[k].life >= n - 1
<1>1. /\ keyCache' = [j \in Keys \cup {NoKey} |-> Age(keyCache[j], NoKeyEntry)]
      /\ issued' = issued
  BY DEF Tick
<1>2. keyCache[k] \in [token : Token, life : 0 .. TTL]
  BY DEF UseInv, BindInv, LockInv, TypeOK
<1>3. ASSUME n - 1 > 0 PROVE keyCache'[k].token = t /\ keyCache'[k].life >= n - 1
  <2>1. keyCache[k].token = t /\ keyCache[k].life >= n /\ keyCache[k].life \in Nat
    BY <1>2, <1>3, Lives DEF Tied
  <2>2. keyCache'[k] = [keyCache[k] EXCEPT !.life = keyCache[k].life - 1]
    BY <2>1, <1>1, <1>3 DEF Age
  <2> QED  BY <2>1, <2>2, <1>2
<1> QED  BY <1>1, <1>3 DEF Tied

(* Pass: lives and bounds shrink together.                                 *)
LEMMA PassStep ==
  ASSUME UseInv, Pass
  PROVE  ClientType' /\ FlowInv' /\ TiedInv'
<1> USE DEF UseInv
<1>1. /\ \A c \in Conns : stage[c] = "rest" \/ lag[c] < MaxLag
      /\ lag' = [c \in Conns |-> IF stage[c] = "rest" THEN 0 ELSE lag[c] + 1]
      /\ held' = [k \in Keys |-> Age(held[k], NoHeld)]
      /\ limiter' = [k \in Keys |-> Age(limiter[k], NoLimiter)]
      /\ UNCHANGED <<stage, route, using, restarts>>
      /\ Tick
  BY DEF Pass
<1>2. /\ UNCHANGED <<issued, pc, req, ret>>
      /\ tokenCache' = [t \in Token |-> Age(tokenCache[t], NoTokenEntry)]
  BY <1>1 DEF Tick, localVars
<1>3. /\ held \in [Keys -> HeldType] /\ lag \in [Conns -> Lags]
      /\ limiter \in [Keys -> [token : Token, life : Int]]
      /\ \A k \in Keys : held[k].epoch <= restarts
      /\ restarts \in Nat /\ MaxLag \in Nat
      /\ tokenCache \in [Token -> [conf : ParsedConfs, life : 0 .. TTL]]
  BY LifeAssumption DEF ClientType, BindInv, LockInv, TypeOK
<1>4. ASSUME NEW k \in Keys
      PROVE  /\ held'[k] \in HeldType /\ held'[k].epoch <= restarts
             /\ Live(held'[k]) => /\ Live(held[k]) /\ held'[k].token = held[k].token
                                  /\ held'[k].epoch = held[k].epoch
                                  /\ held'[k].late = held[k].late
                                  /\ held'[k].used = held[k].used
                                  /\ held'[k].life = held[k].life - 1 /\ held[k].life > 1
  <2>1. NoHeld \in HeldType /\ held[k] \in HeldType /\ held[k].epoch <= restarts
    BY <1>3, TokenType, Lives DEF NoHeld, HeldType, Lags
  <2>2. held'[k] = Age(held[k], NoHeld)
    BY <1>1
  <2>3. CASE held[k].life > 1
    <3>1. held'[k] = [held[k] EXCEPT !.life = held[k].life - 1]
      BY <2>2, <2>3 DEF Age
    <3> DEFINE h == held[k]
    <3>2. h \in HeldType /\ h.life > 1 /\ h.epoch <= restarts
      BY <2>1, <2>3
    <3> HIDE DEF h
    <3>3. h.life - 1 \in 0 .. ConfExpireTime
      BY <3>2, Lives DEF HeldType
    <3>4. LET g == [h EXCEPT !.life = h.life - 1]
          IN  /\ g \in HeldType /\ g.epoch = h.epoch /\ g.token = h.token
              /\ g.late = h.late /\ g.used = h.used /\ g.life = h.life - 1
      BY <3>2, <3>3 DEF HeldType
    <3> QED  BY <3>1, <3>2, <3>4 DEF h, Live, HeldType
  <2>4. CASE ~(held[k].life > 1)
    <3>1. held'[k] = NoHeld
      BY <2>2, <2>4 DEF Age
    <3> QED  BY <3>1, <2>1, <1>3 DEF NoHeld, Live
  <2> QED  BY <2>3, <2>4
<1>5. ASSUME NEW k \in Keys
      PROVE  /\ limiter'[k] \in [token : Token, life : Int]
             /\ Live(limiter'[k]) => /\ Live(limiter[k])
                                     /\ limiter'[k].token = limiter[k].token
                                     /\ limiter'[k].life = limiter[k].life - 1
  <2>1. /\ NoLimiter \in [token : Token, life : Int]
        /\ limiter[k] \in [token : Token, life : Int]
    BY <1>3, TokenType DEF NoLimiter
  <2>2. limiter'[k] = IF limiter[k].life > 1
                      THEN [limiter[k] EXCEPT !.life = limiter[k].life - 1]
                      ELSE NoLimiter
    BY <1>1 DEF Age
  <2> QED  BY <2>1, <2>2 DEF Live, NoLimiter
<1>6. ASSUME NEW c \in Conns
      PROVE  /\ lag'[c] \in Lags
             /\ stage[c] # "rest" => lag'[c] = lag[c] + 1
  BY <1>1, <1>3 DEF Lags
<1>7. ClientType'
  <2>1. /\ held' = [k \in Keys |-> held'[k]] /\ limiter' = [k \in Keys |-> limiter'[k]]
        /\ lag' = [c \in Conns |-> lag'[c]]
    BY <1>1
  <2>2. held' \in [Keys -> HeldType]
    BY <2>1, <1>4
  <2>3. limiter' \in [Keys -> [token : Token, life : Int]]
    BY <2>1, <1>5
  <2>4. lag' \in [Conns -> Lags]
    BY <2>1, <1>6
  <2>5. \A k \in Keys : held'[k].epoch <= restarts'
    BY <1>1, <1>4
  <2> QED  BY <2>2, <2>3, <2>4, <2>5, <1>1 DEF ClientType
<1>8. FlowInv'
  BY <1>1, <1>2 DEF FlowInv, Flow, Resolved
<1>9. ASSUME NEW k \in Keys PROVE HeldTied(k)'
  <2> DEFINE t == held[k].token
             n == Slack + held[k].life - held[k].late
  <2> SUFFICES ASSUME Live(held'[k]), held'[k].epoch = restarts
               PROVE  /\ Tied(k, held[k].token, Slack + held[k].life - held[k].late)'
                      /\ held'[k].used => tokenCache'[held'[k].token].life >= held'[k].life
    BY <1>1 DEF HeldTied
  <2>1. /\ Live(held[k]) /\ held'[k].token = t /\ held[k].epoch = restarts
        /\ held'[k].late = held[k].late /\ held'[k].used = held[k].used
        /\ held'[k].life = held[k].life - 1 /\ held[k].life > 1
    BY <1>4
  <2>2. /\ Tied(k, t, n)
        /\ held[k].used => tokenCache[t].life >= held[k].life
        /\ t \in Token /\ n \in Int /\ held[k].life \in Nat /\ held[k].late \in Nat
    BY <2>1, Bounds, Lives DEF TiedInv, HeldTied
  <2>3. /\ issued'[t] # NoReq /\ issued'[t].key = k
        /\ n - 1 > 0 => keyCache'[k].token = t /\ keyCache'[k].life >= n - 1
    <3> HIDE DEF t, n
    <3> QED  BY <1>1, <2>2, TiedAges
  <2>4. Slack + held'[k].life - held'[k].late = n - 1
    BY <2>1, <2>2, Lives
  <2>5. Tied(k, held[k].token, Slack + held[k].life - held[k].late)'
    <3> HIDE DEF t, n
    <3> QED  BY <2>1, <2>3, <2>4 DEF Tied, Slack
  <2>6. ASSUME held[k].used PROVE tokenCache'[t].life >= held[k].life - 1
    <3>1. /\ tokenCache[t] \in [conf : ParsedConfs, life : 0 .. TTL]
          /\ tokenCache[t].life >= held[k].life
      BY <2>2, <2>6, <1>3
    <3>2. tokenCache[t].life \in Nat /\ tokenCache[t].life > 1
      BY <3>1, <2>1, <2>2, Lives
    <3>3. tokenCache'[t] = [tokenCache[t] EXCEPT !.life = tokenCache[t].life - 1]
      BY <3>2, <2>2, <1>2 DEF Age
    <3> QED  BY <3>1, <3>2, <3>3, <2>2
  <2> QED  BY <2>1, <2>5, <2>6
<1>10. ASSUME NEW k \in Keys PROVE LimiterTied(k)'
  <2> DEFINE t == limiter[k].token
             n == limiter[k].life
  <2> SUFFICES ASSUME Live(limiter'[k])
               PROVE  Tied(k, limiter[k].token, limiter[k].life)'
    BY DEF LimiterTied
  <2>1. Live(limiter[k]) /\ limiter'[k].token = t /\ limiter'[k].life = n - 1
    BY <1>5
  <2>2. Tied(k, t, n) /\ t \in Token /\ n \in Int
    BY <2>1, Bounds DEF TiedInv, LimiterTied
  <2> HIDE DEF t, n
  <2> QED  BY <1>1, <2>1, <2>2, TiedAges DEF Tied
<1>11. ASSUME NEW c \in Conns PROVE AnswerTied(c)'
  <2> DEFINE t == ret[c].token
             n == TTL - lag[c]
             k == route[c].key
  <2> SUFFICES ASSUME Arrived(c)
               PROVE  Tied(route[c].key, ret[c].token, TTL - lag[c])'
    BY <1>1, <1>2 DEF AnswerTied, Arrived
  <2>1. Tied(k, t, n) /\ k \in Keys /\ t \in Token /\ n \in Int
    <3>1. t \in Token
      BY DEF Arrived, BindInv, LockInv, TypeOK, Result
    <3> QED  BY <3>1, Bounds, Lives, RouteType DEF Arrived, TiedInv, AnswerTied, FlowInv, Flow
  <2>2. TTL - lag'[c] = n - 1
    BY <1>6, Bounds, Lives DEF Arrived
  <2>3. route'[c].key = k /\ ret'[c].token = t
    BY <1>1, <1>2
  <2> HIDE DEF t, n, k
  <2> QED  BY <1>1, <2>1, <2>2, <2>3, TiedAges DEF Tied
<1>12. ASSUME NEW c \in Conns PROVE UsingTied(c)'
  <2> DEFINE t == using[c].token
             n == Window(c)
             k == route[c].key
  <2> SUFFICES ASSUME stage[c] \in {"call", "called"}, using[c].epoch = restarts
               PROVE  Tied(route[c].key, using[c].token, Window(c))'
    BY <1>1 DEF UsingTied
  <2>1. Tied(k, t, n) /\ k \in Keys /\ t \in Token /\ n \in Int
    BY Bounds, RouteType DEF TiedInv, UsingTied, FlowInv, Flow
  <2>2. Window(c)' = n - 1
    <3>1. lag'[c] = lag[c] + 1 /\ using'[c] = using[c]
      BY <1>1, <1>6
    <3> QED  BY <3>1, Bounds, Lives DEF Window, Slack
  <2>3. route'[c].key = k /\ using'[c].token = t
    BY <1>1
  <2> HIDE DEF t, n, k
  <2> QED  BY <1>1, <2>1, <2>2, <2>3, TiedAges DEF Tied
<1> QED  BY <1>7, <1>8, <1>9, <1>10, <1>11, <1>12 DEF TiedInv

-----------------------------------------------------------------------------
(* UseInv holds initially ...                                              *)
LEMMA UseInitHolds == UseInit => UseInv
<1> SUFFICES ASSUME UseInit PROVE UseInv
  OBVIOUS
<1>1. BindInv
  BY InitStarts, StartBinds DEF UseInit
<1>2. ClientType
  <2>1. /\ NoUse \in UseType /\ 0 \in Lags /\ NoHeld \in HeldType
        /\ NoLimiter \in [token : Token, life : Int]
    BY TokenType, Lives, LifeAssumption
       DEF NoUse, UseType, Lags, NoHeld, HeldType, NoLimiter
  <2>2. /\ stage \in [Conns -> StageSet] /\ route \in [Conns -> Routes \cup {NoReq}]
        /\ using \in [Conns -> UseType] /\ lag \in [Conns -> Lags]
        /\ limiter \in [Keys -> [token : Token, life : Int]]
        /\ held \in [Keys -> HeldType]
    BY <2>1 DEF UseInit, StageSet
  <2>3. restarts \in Nat /\ \A k \in Keys : held[k].epoch <= restarts
    BY DEF UseInit, NoHeld
  <2> QED  BY <2>2, <2>3 DEF ClientType
<1>3. FlowInv
  BY DEF UseInit, Init, Start, newConfCache, FlowInv, Flow, Resolved
<1>4. TiedInv
  BY DEF UseInit, Init, Start, TiedInv, HeldTied, LimiterTied, AnswerTied, Arrived,
     UsingTied, Live, NoHeld, NoLimiter
<1> QED  BY <1>1, <1>2, <1>3, <1>4 DEF UseInv

(* ... and is kept by every step.                                          *)
LEMMA UseInvStep ==
  ASSUME NoWrap, UseInv, [UseNext]_<<vars, clientVars>>
  PROVE  UseInv'
<1>1. BindInv' /\ TypeOK'
  BY BindKept DEF BindInv, LockInv
<1>2. ClientType' /\ FlowInv' /\ TiedInv'
  <2>1. CASE Pass \/ Restart
    BY <2>1, PassStep, RestartStep
  <2>2. CASE RunnerStep
    <3>1. Kept
      BY <2>2, StepKeeps
    <3>2. CASE UNCHANGED <<vars, clientVars>>
      <4>1. /\ UNCHANGED <<held, stage, route, using, lag, limiter, restarts>>
            /\ UNCHANGED <<pc, req, ret, keyCache, tokenCache, issued>>
        BY <3>2 DEF vars, clientVars, localVars, cacheVars
      <4>2. ClientType' /\ FlowInv'
        BY <4>1 DEF UseInv, ClientType, FlowInv, Flow, Resolved
      <4>3. TiedInv'
        <5>1. \A c \in Conns : Same(c)
          BY <4>1 DEF Same
        <5> QED  BY <5>1, <4>1, <3>1, <1>1, TiedKept DEF TiedInv
      <4> QED  BY <4>2, <4>3
    <3> QED  BY <1>1, <3>1, <3>2, <2>1, BeginStep, AskStep, ServeStep, ReceiveStep,
                HTTPReqCallStep, ServedStep, GiveUpStep DEF UseNext
  <2> QED  BY <2>1, <2>2, StepKind
<1> QED  BY <1>1, <1>2 DEF UseInv

(* UseInv holds in every state before the counter wraps.                   *)
LEMMA UseInvariant ==
  ASSUME NoWrap
  PROVE  UseSpec => []UseInv
<1>1. UseInv /\ [UseNext]_<<vars, clientVars>> => UseInv'
  BY UseInvStep
<1> QED  BY <1>1, UseInitHolds, PTL DEF UseSpec

(***************************************************************************)
(* HTTPReqCall serves a route with the route's own configuration: for any  *)
(* number of routes, connections, restarts and dropped requests, and       *)
(* whatever expires during a call, a token of the running process never    *)
(* leads to another route's entries.                                       *)
(***************************************************************************)
THEOREM RouteGetsOwnConf == NoWrap => (UseSpec => []TokenSelectsOwnConf)
<1> SUFFICES ASSUME NoWrap PROVE UseSpec => []TokenSelectsOwnConf
  OBVIOUS
<1>1. ASSUME UseInv PROVE TokenSelectsOwnConf
  <2> SUFFICES ASSUME NEW c \in Conns, Resolved(c), using[c].epoch = restarts
               PROVE  ret[c].conf = Entries(route[c])
    BY DEF TokenSelectsOwnConf
  <2> USE <1>1 DEF UseInv
  <2>1. /\ route[c] \in Routes /\ ret[c].token = using[c].token /\ using[c].token \in Token
    BY Bounds DEF FlowInv, Flow, Resolved
  <2>2. issued[ret[c].token] # NoReq /\ issued[ret[c].token].key = route[c].key
    BY <2>1 DEF TiedInv, UsingTied, Resolved, Tied
  <2>3. issued[ret[c].token] = route[c]
    BY <2>1, <2>2, RoutesAssumption DEF FlowInv
  <2>4. ret[c].conf = Entries(issued[ret[c].token])
    BY DEF BindInv, AnswerIsOwn, Resolved
  <2> QED  BY <2>3, <2>4
<1> QED  BY <1>1, UseInvariant, PTL

(***************************************************************************)
(* Get extends an entry by more than APISIX still holds its token: one     *)
(* HTTPReqCall that finds a token is enough for it to be found as long as  *)
(* APISIX holds it, for every ConfExpireTime and however long calls take.  *)
(***************************************************************************)
THEOREM FoundLasts == NoWrap => (UseSpec => []FoundTokenLasts)
<1> SUFFICES ASSUME NoWrap PROVE UseSpec => []FoundTokenLasts
  OBVIOUS
<1>1. ASSUME UseInv PROVE FoundTokenLasts
  <2> SUFFICES ASSUME NEW k \in Keys, Live(held[k]), held[k].epoch = restarts, held[k].used
               PROVE  Live(tokenCache[held[k].token])
    BY DEF FoundTokenLasts
  <2>1. tokenCache[held[k].token].life >= held[k].life
    BY <1>1 DEF UseInv, TiedInv, HeldTied
  <2>2. held[k].life \in Nat /\ tokenCache[held[k].token].life \in Nat
    BY <1>1, Bounds
  <2> QED  BY <2>1, <2>2 DEF Live
<1> QED  BY <1>1, UseInvariant, PTL

(***************************************************************************)
(* The key of a held token stays cached with it (ConfCache.Set), provided  *)
(* that no HTTP request takes longer than an entry outlives a token: the   *)
(* key is renewed when PrepareConf answers, APISIX counts from the moment  *)
(* it has the answer.                                                      *)
(***************************************************************************)
THEOREM KeyOutlives ==
  NoWrap /\ MaxLag <= TTL - ConfExpireTime => (UseSpec => []KeyOutlivesToken)
<1> SUFFICES ASSUME NoWrap, MaxLag <= TTL - ConfExpireTime
             PROVE  UseSpec => []KeyOutlivesToken
  OBVIOUS
<1>1. ASSUME UseInv PROVE KeyOutlivesToken
  <2> SUFFICES ASSUME NEW k \in Keys, Live(held[k]), held[k].epoch = restarts
               PROVE  Live(keyCache[k]) /\ keyCache[k].token = held[k].token
    BY DEF KeyOutlivesToken
  <2>1. Tied(k, held[k].token, Slack + held[k].life - held[k].late)
    BY <1>1 DEF UseInv, TiedInv, HeldTied
  <2>2. /\ held[k].life \in Nat /\ held[k].late \in Nat /\ held[k].late <= MaxLag
        /\ keyCache[k].life \in Nat
    BY <1>1, Bounds
  <2>3. Slack + held[k].life - held[k].late > 0
    BY <2>2, Lives, LifeAssumption DEF Live, Slack
  <2>4. keyCache[k].token = held[k].token /\ keyCache[k].life > 0
    BY <2>1, <2>2, <2>3, Lives DEF Tied
  <2> QED  BY <2>4 DEF Live
<1> QED  BY <1>1, UseInvariant, PTL

(***************************************************************************)
(* limit-req keeps counting with one limiter: requests of a route that are *)
(* close enough are served with what one ParseConf returned, dropped       *)
(* requests and expired tokens in between included.                        *)
(***************************************************************************)
THEOREM LimiterStays == NoWrap => (UseSpec => []LimiterKept)
<1> SUFFICES ASSUME NoWrap PROVE UseSpec => []LimiterKept
  OBVIOUS
<1>1. ASSUME UseInv PROVE LimiterKept
  <2> SUFFICES ASSUME NEW c \in Conns, Resolved(c), using[c].epoch = restarts,
                      Window(c) > 0, Live(limiter[route[c].key])
               PROVE  ret[c].token = limiter[route[c].key].token
    BY DEF LimiterKept
  <2>1. /\ route[c].key \in Keys /\ ret[c].token = using[c].token
    BY <1>1, RouteType DEF UseInv, FlowInv, Flow, Resolved
  <2>2. keyCache[route[c].key].token = using[c].token
    BY <1>1 DEF UseInv, TiedInv, UsingTied, Resolved, Tied
  <2>3. keyCache[route[c].key].token = limiter[route[c].key].token
    BY <1>1, <2>1 DEF UseInv, TiedInv, LimiterTied, Tied, Live
  <2> QED  BY <2>1, <2>2, <2>3
<1> QED  BY <1>1, UseInvariant, PTL
=============================================================================
