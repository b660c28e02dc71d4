---------------------- MODULE ConfCacheRefinementProofs ----------------------
(***************************************************************************)
(* ConfCache implements ConfStore, for every set of goroutines, keys and   *)
(* requests, as long as the token counter has not wrapped.  Every          *)
(* statement of Set is a step of the abstract cache or none at all:        *)
(* StoreToken is Issue, KeyHit is Reuse, Panic is Fail, a tick is Expire.  *)
(***************************************************************************)
EXTENDS ConfCacheRefinement, ConfCacheProofs

(* Whatever Set still works on can be processed.                           *)
Usable ==
  \A c \in Conns :
    /\ pc[c] \in Missed => req[c].wellFormed
    /\ pc[c] \in Missed \ {"parse"} => ~ParsePanics(req[c])

(* The invariant the steps are mapped under.                               *)
RefInv == BindInv /\ Usable

\* The token of key k in keyCache, or NoToken.
Cached(k) == IF Live(keyCache[k]) THEN keyCache[k].token ELSE NoToken

\* A key has its new token from StoreToken on; it has what keyCache says while
\* nobody is between StoreToken and StoreKey for it.
BoundRight ==
  \A k \in Keys :
    /\ \A c \in Conns : pc[c] = "storeKey" /\ req[c].key = k => boundBar[k] = token[c]
    /\ (\A c \in Conns : pc[c] = "storeKey" => req[c].key # k) => boundBar[k] = Cached(k)

(* The lock leaves at most one goroutine to bind a key.                    *)
LEMMA BoundValue == Exclusion => BoundRight
<1> SUFFICES ASSUME Exclusion, NEW k \in Keys
    PROVE /\ \A c \in Conns : pc[c] = "storeKey" /\ req[c].key = k => boundBar[k] = token[c]
          /\ (\A c \in Conns : pc[c] = "storeKey" => req[c].key # k) => boundBar[k] = Cached(k)
  BY DEF BoundRight
<1>1. ASSUME NEW c \in Conns, pc[c] = "storeKey", req[c].key = k
      PROVE  boundBar[k] = token[c]
  <2>1. Binding(k) = {c}
    BY <1>1 DEF Exclusion, Critical, Binding
  <2> QED  BY <2>1 DEF boundBar
<1>2. ASSUME \A c \in Conns : pc[c] = "storeKey" => req[c].key # k
      PROVE  boundBar[k] = Cached(k)
  <2>1. Binding(k) = {}
    BY <1>2 DEF Binding
  <2> QED  BY <2>1 DEF boundBar, Cached
<1> QED  BY <1>1, <1>2

(* What a step needs to know: types, lock, and keys before and after.      *)
LEMMA Known ==
  ASSUME RefInv, RefInv'
  PROVE  /\ TypeOK /\ Exclusion /\ MissPersists /\ Fresh /\ TokenBinding
         /\ TypeOK' /\ Exclusion' /\ BoundRight /\ BoundRight'
<1>1. /\ TypeOK /\ Exclusion /\ MissPersists /\ Fresh /\ TokenBinding
      /\ TypeOK' /\ Exclusion'
  BY DEF RefInv, BindInv, LockInv
<1>2. Exclusion' => BoundRight'
  BY BoundValue, PTL
<1> QED  BY <1>1, <1>2, BoundValue

\* A step that changes no key, no token of a goroutine about to bind one, and
\* neither starts nor ends such a binding.
KeysStay ==
  /\ \A k \in Keys : Cached(k)' = Cached(k)
  /\ \A d \in Conns : pc'[d] = "storeKey" <=> pc[d] = "storeKey"
  /\ \A d \in Conns : pc[d] = "storeKey" => req'[d] = req[d] /\ token'[d] = token[d]

(* Such a step leaves the abstract keys alone.                             *)
LEMMA BoundStays ==
  ASSUME BoundRight, BoundRight', KeysStay
  PROVE  boundBar' = boundBar
<1>1. ASSUME NEW k \in Keys PROVE boundBar'[k] = boundBar[k]
  <2>1. CASE \E c \in Conns : pc[c] = "storeKey" /\ req[c].key = k
    BY <2>1 DEF BoundRight, KeysStay
  <2>2. CASE \A c \in Conns : pc[c] = "storeKey" => req[c].key # k
    BY <2>2 DEF BoundRight, KeysStay
  <2> QED  BY <2>1, <2>2
<1>2. boundBar = [k \in Keys |-> boundBar[k]] /\ boundBar' = [k \in Keys |-> boundBar'[k]]
  BY DEF boundBar
<1> QED  BY <1>1, <1>2

-----------------------------------------------------------------------------
(* The initial states map to the abstract initial state.                   *)
LEMMA InitMaps == Init => Store!Init
<1> SUFFICES ASSUME Init PROVE Store!Init
  OBVIOUS
<1>1. pendingBar = [c \in Conns |-> NoReq]
  BY DEF Init, Start, pendingBar
<1>2. replyBar = [c \in Conns |-> [kind |-> "none"]]
  BY DEF Init, Start, replyBar
<1>3. liveBar = {}
  BY DEF Init, Start, newConfCache, liveBar, Live, NoTokenEntry
<1>4. boundBar = [k \in Keys |-> NoToken]
  <2>1. \A k \in Keys : Binding(k) = {}
    BY DEF Init, Start, Binding
  <2> QED  BY <2>1 DEF Init, Start, newConfCache, boundBar, Live, NoKeyEntry
<1> QED  BY <1>1, <1>2, <1>3, <1>4 DEF Init, Start, newConfCache, Store!Init

(* Usable is inductive by itself: nothing but Set's own steps moves on.    *)
LEMMA UsableStep ==
  ASSUME TypeOK, Exclusion, Usable, [Next]_vars
  PROVE  Usable'
<1> SUFFICES ASSUME NEW d \in Conns
    PROVE /\ pc'[d] \in Missed => req'[d].wellFormed
          /\ pc'[d] \in Missed \ {"parse"} => ~ParsePanics(req'[d])
  BY DEF Usable
<1> DEFINE Good == /\ pc'[d] \in Missed => req'[d].wellFormed
                   /\ pc'[d] \in Missed \ {"parse"} => ~ParsePanics(req'[d])
<1>0. /\ pc[d] \in Missed => req[d].wellFormed
      /\ pc[d] \in Missed \ {"parse"} => ~ParsePanics(req[d])
  BY DEF Usable
<1>1. ASSUME pc'[d] = pc[d], req'[d] = req[d] PROVE Good
  BY <1>0, <1>1
<1>2. ASSUME pc'[d] \notin Missed PROVE Good
  BY <1>2
<1>3. ASSUME NEW c \in Conns, NEW r \in Requests, PrepareConf(c, r) PROVE Good
  BY <1>1, <1>2, <1>3 DEF PrepareConf, TypeOK, Missed
<1>4. ASSUME NEW c \in Conns, Lock(c) \/ KeyHit(c) \/ Panic(c) \/ StoreKey(c) PROVE Good
  BY <1>1, <1>2, <1>4 DEF Lock, KeyHit, Panic, StoreKey, Return, TypeOK, Missed
<1>5. ASSUME NEW c \in Conns, KeyMiss(c) PROVE Good
  BY <1>1, <1>5 DEF KeyMiss, Advance, TypeOK, Missed
<1>6. ASSUME NEW c \in Conns, ParseConf(c) PROVE Good
  BY <1>0, <1>1, <1>6 DEF ParseConf, Advance, TypeOK, Missed
<1>7. ASSUME NEW c \in Conns, CountToken(c) \/ TakeToken(c) \/ StoreToken(c) PROVE Good
  BY <1>0, <1>1, <1>7 DEF CountToken, TakeToken, StoreToken, Advance, TypeOK, Missed
<1>8. ASSUME UNCHANGED vars \/ Tick \/ \E c \in Conns, t \in Token : GetRuleConf(c, t)
      PROVE  Good
  BY <1>1, <1>8 DEF vars, localVars, Tick, GetRuleConf
<1> HIDE DEF Good
<1>9. Good
  <2>1. ASSUME NEW c \in Conns, Lock(c) \/ SetStep(c) PROVE Good
    BY <2>1, <1>4, <1>5, <1>6, <1>7 DEF SetStep
  <2>2. CASE \E c \in Conns, r \in Requests : PrepareConf(c, r)
    BY <2>2, <1>3
  <2>3. CASE \E c \in Conns : Lock(c) \/ SetStep(c)
    BY <2>1, <2>3
  <2> QED  BY <2>2, <2>3, <1>8 DEF Next
<1> QED  BY <1>9 DEF Good

-----------------------------------------------------------------------------
(* A request arrives: the abstract caller waits.                           *)
LEMMA PrepareIsCall ==
  ASSUME RefInv, RefInv', NEW c \in Conns, NEW r \in Requests, PrepareConf(c, r)
  PROVE  Store!Call(c, r)
<1>1. /\ TypeOK /\ BoundRight /\ BoundRight'
  BY Known
<1>2. /\ pc[c] = "idle" /\ pc' = [pc EXCEPT ![c] = "lock"]
      /\ req' = [req EXCEPT ![c] = r] /\ ret' = [ret EXCEPT ![c] = [kind |-> "none"]]
      /\ UNCHANGED <<tokenCache, keyCache, issued, token>>
  BY DEF PrepareConf, cacheVars
<1>3. /\ pc \in [Conns -> PcSet] /\ req \in [Conns -> Requests \cup {NoReq}]
      /\ DOMAIN ret = Conns
  BY <1>1 DEF TypeOK
<1>4. pendingBar[c] = NoReq /\ pendingBar' = [pendingBar EXCEPT ![c] = r]
  BY <1>2, <1>3 DEF pendingBar
<1>5. replyBar' = [replyBar EXCEPT ![c] = [kind |-> "none"]]
  BY <1>2, <1>3 DEF replyBar
<1>6. liveBar' = liveBar
  BY <1>2 DEF liveBar
<1>7. boundBar' = boundBar
  <2>1. KeysStay
    BY <1>2, <1>3 DEF KeysStay, Cached
  <2> QED  BY <1>1, <2>1, BoundStays
<1> QED  BY <1>2, <1>4, <1>5, <1>6, <1>7 DEF Store!Call

(* The statements of Set a caller sees nothing of.                         *)
LEMMA SilentSteps ==
  ASSUME RefInv, RefInv', NEW c \in Conns,
         Lock(c) \/ KeyMiss(c) \/ ParseConf(c) \/ CountToken(c) \/ TakeToken(c)
  PROVE  UNCHANGED Store!vars
<1>1. /\ TypeOK /\ BoundRight /\ BoundRight'
  BY Known
<1>2. /\ pc[c] \notin {"idle", "storeKey"} /\ pc'[c] \notin {"idle", "storeKey"}
      /\ \A d \in Conns \ {c} : pc'[d] = pc[d] /\ token'[d] = token[d]
      /\ UNCHANGED <<tokenCache, keyCache, issued, req, ret>>
  BY <1>1 DEF Lock, KeyMiss, ParseConf, CountToken, TakeToken, Advance, cacheVars, TypeOK
<1>3. pendingBar' = pendingBar
  BY <1>2 DEF pendingBar
<1>4. replyBar' = replyBar
  BY <1>2 DEF replyBar
<1>5. liveBar' = liveBar
  BY <1>2 DEF liveBar
<1>6. boundBar' = boundBar
  <2>1. KeysStay
    BY <1>2 DEF KeysStay, Cached
  <2> QED  BY <1>1, <2>1, BoundStays
<1> QED  BY <1>2, <1>3, <1>4, <1>5, <1>6 DEF Store!vars

\* Set returns result to a caller that had none before.
Answered(c, result) ==
  /\ pendingBar' = [pendingBar EXCEPT ![c] = NoReq]
  /\ replyBar' = [replyBar EXCEPT ![c] = result]

(* The answer of a Set that stored nothing.                                *)
LEMMA ReturnAnswers ==
  ASSUME TypeOK, Exclusion, NEW c \in Conns, NEW result, Return(c, result),
         pc[c] \in {"lookup", "parse"}
  PROVE  /\ Answered(c, result)
         /\ pendingBar[c] = req[c] /\ req[c] \in Requests /\ req[c] # NoReq
         /\ \A d \in Conns : pc[d] # "storeKey" /\ pc'[d] # "storeKey"
<1>1. /\ pc' = [pc EXCEPT ![c] = "idle"] /\ ret' = [ret EXCEPT ![c] = result]
      /\ token' = [token EXCEPT ![c] = 0] /\ req' = req
  BY DEF Return
<1>2. /\ DOMAIN ret = Conns /\ DOMAIN pc = Conns /\ DOMAIN token = Conns
  BY DEF TypeOK
<1>3. \A d \in Conns : pc[d] # "storeKey" /\ pc'[d] # "storeKey"
  <2>1. lock = {c}
    BY DEF Exclusion, Critical
  <2> QED  BY <2>1, <1>1, <1>2 DEF Exclusion, Critical
<1>4. pendingBar' = [pendingBar EXCEPT ![c] = NoReq]
  BY <1>1, <1>2 DEF pendingBar
<1>5. replyBar' = [replyBar EXCEPT ![c] = result]
  BY <1>1, <1>2, <1>3 DEF replyBar
<1>6. req[c] \in Requests /\ req[c] # NoReq
  BY ConstantsAssumption DEF Exclusion
<1>7. pendingBar[c] = req[c]
  BY DEF pendingBar
<1> QED  BY <1>3, <1>4, <1>5, <1>6, <1>7 DEF Answered

(* A cached key: the abstract cache answers with the token it is bound to. *)
LEMMA KeyHitIsReuse ==
  ASSUME RefInv, RefInv', NEW c \in Conns, KeyHit(c)
  PROVE  Store!Reuse(c)
<1>1. /\ TypeOK /\ Exclusion /\ BoundRight /\ BoundRight'
  BY Known
<1> DEFINE k == req[c].key
           x == keyCache[k].token
<1>2. /\ pc[c] = "lookup" /\ k # NoKey /\ Live(keyCache[k])
      /\ keyCache' = [keyCache EXCEPT ![k] = Touch(@)]
      /\ Return(c, [kind |-> "token", token |-> x])
      /\ UNCHANGED <<tokenCache, issued>>
  BY DEF KeyHit
<1>3. /\ Answered(c, [kind |-> "token", token |-> x])
      /\ pendingBar[c] = req[c] /\ req[c] \in Requests /\ req[c] # NoReq
      /\ \A d \in Conns : pc[d] # "storeKey" /\ pc'[d] # "storeKey"
  BY <1>1, <1>2, ReturnAnswers
<1>4. k \in Keys
  BY <1>2, <1>3, RequestsAssumption
<1>5. boundBar[k] = x /\ boundBar[k] # NoToken
  <2>1. x \in Token
    BY <1>1, <1>4 DEF TypeOK
  <2> QED  BY <2>1, <1>1, <1>2, <1>3, <1>4, NoTokenAssumption DEF BoundRight, Cached
<1>6. boundBar' = boundBar
  <2>1. ASSUME NEW j \in Keys PROVE Cached(j)' = Cached(j)
    BY <1>1, <1>2, <1>4, ConstantsAssumption DEF Cached, Live, Touch, TypeOK
  <2>2. KeysStay
    BY <2>1, <1>3 DEF KeysStay
  <2> QED  BY <2>2, <1>1, BoundStays
<1>7. liveBar' = liveBar
  BY <1>2 DEF liveBar
<1> QED  BY <1>2, <1>3, <1>4, <1>5, <1>6, <1>7 DEF Answered, Store!Reuse, Store!Answer

(* A panic inside Set: the abstract call fails and changes nothing.        *)
LEMMA PanicIsFail ==
  ASSUME RefInv, RefInv', NEW c \in Conns, Panic(c)
  PROVE  Store!Fail(c)
<1>1. /\ TypeOK /\ Exclusion /\ BoundRight /\ BoundRight'
  BY Known
<1>2. /\ pc[c] \in {"lookup", "parse"} /\ Return(c, [kind |-> "panic"])
      /\ UNCHANGED <<tokenCache, keyCache, issued>>
      /\ ~req[c].wellFormed \/ ParsePanics(req[c])
  BY DEF Panic, cacheVars
<1>3. /\ Answered(c, [kind |-> "panic"])
      /\ pendingBar[c] = req[c] /\ req[c] \in Requests /\ req[c] # NoReq
      /\ \A d \in Conns : pc[d] # "storeKey" /\ pc'[d] # "storeKey"
  BY <1>1, <1>2, ReturnAnswers
<1>4. boundBar' = boundBar
  <2>1. KeysStay
    BY <1>2, <1>3 DEF KeysStay, Cached
  <2> QED  BY <2>1, <1>1, BoundStays
<1>5. liveBar' = liveBar
  BY <1>2 DEF liveBar
<1> QED  BY <1>2, <1>3, <1>4, <1>5 DEF Answered, Store!Fail, Store!Answer

-----------------------------------------------------------------------------
(* The token is stored: the abstract cache issues it and binds the key.    *)
LEMMA StoreTokenIsIssue ==
  ASSUME RefInv, RefInv', NEW c \in Conns, StoreToken(c)
  PROVE  token[c] \in Token /\ Store!Issue(c, token[c])
<1>1. /\ TypeOK /\ Exclusion /\ MissPersists /\ Fresh /\ BoundRight /\ BoundRight'
      /\ Usable
  BY Known DEF RefInv
<1> DEFINE x == token[c]
<1>2. /\ pc[c] = "storeToken" /\ pc' = [pc EXCEPT ![c] = "storeKey"]
      /\ tokenCache' = [tokenCache EXCEPT ![x] = [conf |-> entries[c], life |-> TTL]]
      /\ issued' = [issued EXCEPT ![x] = req[c]]
      /\ UNCHANGED <<keyCache, token, req, ret>>
  BY DEF StoreToken, Advance
<1>3. /\ DOMAIN pc = Conns /\ x \in Token /\ DOMAIN tokenCache = Token
  BY <1>1 DEF TypeOK
<1>4. /\ req[c] \in Requests /\ req[c] # NoReq
      /\ req[c].wellFormed /\ ~ParsePanics(req[c])
  BY <1>1, <1>2, ConstantsAssumption DEF Exclusion, Usable, Missed
<1>5. /\ \A d \in Conns : pc[d] # "storeKey"
      /\ \A d \in Conns : pc'[d] = "storeKey" <=> d = c
  <2>1. lock = {c}
    BY <1>1, <1>2 DEF Exclusion, Critical
  <2> QED  BY <2>1, <1>1, <1>2, <1>3 DEF Exclusion, Critical
<1>6. pendingBar[c] = req[c] /\ pendingBar' = [pendingBar EXCEPT ![c] = NoReq]
  BY <1>2, <1>3 DEF pendingBar
<1>7. replyBar' = [replyBar EXCEPT ![c] = [kind |-> "token", token |-> x]]
  BY <1>2, <1>3, <1>5 DEF replyBar
<1>8. issued[x] = NoReq
  BY <1>1, <1>2 DEF Fresh
<1>9. liveBar' = liveBar \cup {x}
  <2>1. \A t \in Token : Live(tokenCache'[t]) <=> (t = x \/ Live(tokenCache[t]))
    BY <1>2, <1>3, ConstantsAssumption DEF Live
  <2> QED  BY <2>1, <1>3 DEF liveBar
<1>10. req[c].key \in Keys => boundBar[req[c].key] = NoToken
  <2> SUFFICES ASSUME req[c].key \in Keys PROVE boundBar[req[c].key] = NoToken
    OBVIOUS
  <2>1. boundBar[req[c].key] = Cached(req[c].key)
    BY <1>1, <1>5 DEF BoundRight
  <2> QED  BY <2>1, <1>1, <1>2 DEF MissPersists, Missed, Cached
<1>11. boundBar' = [k \in Keys |-> IF k = req[c].key THEN x ELSE boundBar[k]]
  <2>1. ASSUME NEW k \in Keys, k = req[c].key PROVE boundBar'[k] = x
    BY <2>1, <1>1, <1>2, <1>5 DEF BoundRight
  <2>2. ASSUME NEW k \in Keys, k # req[c].key PROVE boundBar'[k] = boundBar[k]
    <3>1. boundBar'[k] = Cached(k)' /\ boundBar[k] = Cached(k)
      BY <2>2, <1>1, <1>2, <1>5 DEF BoundRight
    <3> QED  BY <3>1, <1>2 DEF Cached
  <2>3. boundBar' = [k \in Keys |-> boundBar'[k]]
    BY DEF boundBar
  <2> QED  BY <2>1, <2>2, <2>3
<1> QED  BY <1>2, <1>3, <1>4, <1>6, <1>7, <1>8, <1>9, <1>10, <1>11
         DEF Store!Issue, Store!Answer

(* The key is stored and Set returns: the abstract cache did both before.  *)
LEMMA StoreKeyIsSilent ==
  ASSUME RefInv, RefInv', NEW c \in Conns, StoreKey(c)
  PROVE  UNCHANGED Store!vars
<1>1. /\ TypeOK /\ Exclusion /\ BoundRight /\ BoundRight'
  BY Known
<1> DEFINE x == token[c]
<1>2. /\ pc[c] = "storeKey" /\ pc' = [pc EXCEPT ![c] = "idle"]
      /\ keyCache' = [keyCache EXCEPT ![req[c].key] = [token |-> x, life |-> TTL]]
      /\ ret' = [ret EXCEPT ![c] = [kind |-> "token", token |-> x]]
      /\ token' = [token EXCEPT ![c] = 0]
      /\ UNCHANGED <<tokenCache, issued, req>>
  BY DEF StoreKey, Return
<1>3. /\ DOMAIN pc = Conns /\ DOMAIN ret = Conns /\ DOMAIN token = Conns
      /\ DOMAIN keyCache = Keys \cup {NoKey}
  BY <1>1 DEF TypeOK
<1>4. /\ \A d \in Conns : pc[d] = "storeKey" <=> d = c
      /\ \A d \in Conns : pc'[d] # "storeKey"
  <2>1. lock = {c}
    BY <1>1, <1>2 DEF Exclusion, Critical
  <2> QED  BY <2>1, <1>1, <1>2, <1>3 DEF Exclusion, Critical
<1>5. pendingBar' = pendingBar
  BY <1>2, <1>3 DEF pendingBar
<1>6. replyBar' = replyBar
  BY <1>2, <1>3, <1>4 DEF replyBar
<1>7. liveBar' = liveBar
  BY <1>2 DEF liveBar
<1>8. ASSUME NEW k \in Keys PROVE boundBar'[k] = boundBar[k]
  <2>1. boundBar'[k] = Cached(k)'
    BY <1>1, <1>4 DEF BoundRight
  <2>2. CASE k = req[c].key
    <3>1. boundBar[k] = x
      BY <2>2, <1>1, <1>2 DEF BoundRight
    <3>2. Cached(k)' = x
      BY <2>2, <1>2, <1>3, ConstantsAssumption DEF Cached, Live
    <3> QED  BY <2>1, <3>1, <3>2
  <2>3. CASE k # req[c].key
    <3>1. boundBar[k] = Cached(k)
      BY <2>3, <1>1, <1>4 DEF BoundRight
    <3>2. Cached(k)' = Cached(k)
      BY <2>3, <1>2, <1>3 DEF Cached
    <3> QED  BY <2>1, <3>1, <3>2
  <2> QED  BY <2>2, <2>3
<1>9. boundBar' = boundBar
  <2>1. boundBar = [k \in Keys |-> boundBar[k]] /\ boundBar' = [k \in Keys |-> boundBar'[k]]
    BY DEF boundBar
  <2> QED  BY <2>1, <1>8
<1> QED  BY <1>2, <1>5, <1>6, <1>7, <1>9 DEF Store!vars

(* A lookup answers from the live tokens, and its touch goes unseen.       *)
LEMMA GetIsGet ==
  ASSUME RefInv, RefInv', NEW c \in Conns, NEW t \in Token, GetRuleConf(c, t)
  PROVE  Store!Get(c, t)
<1>1. /\ TypeOK /\ TokenBinding /\ BoundRight /\ BoundRight'
  BY Known
<1>2. /\ pc[c] = "idle" /\ UNCHANGED <<keyCache, issued, pc, req, token>>
  BY DEF GetRuleConf
<1>3. /\ DOMAIN ret = Conns
      /\ tokenCache \in [Token -> [conf : ParsedConfs, life : 0 .. TTL]]
  BY <1>1 DEF TypeOK
<1>4. pendingBar[c] = NoReq /\ pendingBar' = pendingBar
  BY <1>2 DEF pendingBar
<1>5. boundBar' = boundBar
  <2>1. KeysStay
    BY <1>2 DEF KeysStay, Cached
  <2> QED  BY <2>1, <1>1, BoundStays
<1>6. liveBar' = liveBar
  <2>1. \A u \in Token : Live(tokenCache'[u]) <=> Live(tokenCache[u])
    BY <1>3, ConstantsAssumption DEF GetRuleConf, Live, Touch
  <2> QED  BY <2>1 DEF liveBar
<1>7. CASE Live(tokenCache[t])
  <2>1. ret' = [ret EXCEPT ![c] = [kind |-> "conf", token |-> t,
                                   conf |-> tokenCache[t].conf]]
    BY <1>7 DEF GetRuleConf
  <2>2. t \in liveBar /\ tokenCache[t].conf = Entries(issued[t])
    BY <1>1, <1>7 DEF liveBar, TokenBinding
  <2>3. replyBar' = [replyBar EXCEPT ![c] = [kind |-> "conf", token |-> t,
                                             conf |-> Entries(issued[t])]]
    BY <2>1, <2>2, <1>2, <1>3 DEF replyBar
  <2> QED  BY <2>2, <2>3, <1>2, <1>4, <1>5, <1>6 DEF Store!Get
<1>8. CASE ~Live(tokenCache[t])
  <2>1. ret' = [ret EXCEPT ![c] = [kind |-> "notfound"]] /\ t \notin liveBar
    BY <1>8 DEF GetRuleConf, liveBar
  <2>2. replyBar' = [replyBar EXCEPT ![c] = [kind |-> "notfound"]]
    BY <2>1, <1>2, <1>3 DEF replyBar
  <2> QED  BY <2>1, <2>2, <1>2, <1>4, <1>5, <1>6 DEF Store!Get
<1> QED  BY <1>7, <1>8

(* Time passes: some tokens and some keys expire, no key changes hands.    *)
LEMMA TickIsExpire ==
  ASSUME RefInv, RefInv', Tick
  PROVE  Store!Expire
<1>1. /\ TypeOK /\ BoundRight /\ BoundRight'
  BY Known
<1>2. /\ tokenCache' = [t \in Token |-> Age(tokenCache[t], NoTokenEntry)]
      /\ keyCache' = [k \in Keys \cup {NoKey} |-> Age(keyCache[k], NoKeyEntry)]
      /\ UNCHANGED <<issued, pc, req, token, ret>>
  BY DEF Tick, localVars
<1>3. pendingBar' = pendingBar /\ replyBar' = replyBar
  BY <1>2 DEF pendingBar, replyBar
<1>4. liveBar' \subseteq liveBar
  <2>1. ASSUME NEW t \in Token, Live(tokenCache'[t]) PROVE Live(tokenCache[t])
    BY <2>1, <1>1, <1>2 DEF Live, Age, NoTokenEntry, TypeOK
  <2> QED  BY <2>1 DEF liveBar
<1>5. ASSUME NEW k \in Keys PROVE boundBar'[k] \in {boundBar[k], NoToken}
  <2>1. CASE \E c \in Conns : pc[c] = "storeKey" /\ req[c].key = k
    BY <2>1, <1>1, <1>2 DEF BoundRight
  <2>2. CASE \A c \in Conns : pc[c] = "storeKey" => req[c].key # k
    <3>1. boundBar'[k] = Cached(k)' /\ boundBar[k] = Cached(k)
      BY <2>2, <1>1, <1>2 DEF BoundRight
    <3>2. Live(keyCache'[k]) => Live(keyCache[k]) /\ keyCache'[k].token = keyCache[k].token
      BY <1>1, <1>2 DEF Live, Age, NoKeyEntry, TypeOK
    <3> QED  BY <3>1, <3>2 DEF Cached
  <2> QED  BY <2>1, <2>2
<1>6. boundBar' = [k \in Keys |-> boundBar'[k]]
  BY DEF boundBar
<1>7. \E K \in SUBSET Keys :
        boundBar' = [k \in Keys |-> IF k \in K THEN NoToken ELSE boundBar[k]]
  <2> DEFINE K == {k \in Keys : boundBar'[k] = NoToken}
  <2>1. boundBar' = [k \in Keys |-> IF k \in K THEN NoToken ELSE boundBar[k]]
    BY <1>5, <1>6
  <2> HIDE DEF K
  <2>2. K \in SUBSET Keys
    BY DEF K
  <2> QED  BY <2>1, <2>2
<1> QED  BY <1>2, <1>3, <1>4, <1>7 DEF Store!Expire

-----------------------------------------------------------------------------
(* Every step of the code is a step of the abstract cache or invisible.    *)
LEMMA StepMaps ==
  ASSUME RefInv, RefInv', [Next]_vars
  PROVE  [Store!Next]_Store!vars
<1>1. ASSUME NEW c \in Conns, NEW r \in Requests, PrepareConf(c, r)
      PROVE  [Store!Next]_Store!vars
  BY <1>1, PrepareIsCall DEF Store!Next
<1>2. ASSUME NEW c \in Conns, Lock(c) \/ SetStep(c)
      PROVE  [Store!Next]_Store!vars
  <2>1. CASE Lock(c) \/ KeyMiss(c) \/ ParseConf(c) \/ CountToken(c) \/ TakeToken(c)
    BY <2>1, SilentSteps
  <2>2. CASE StoreKey(c)
    BY <2>2, StoreKeyIsSilent
  <2>3. CASE KeyHit(c)
    BY <2>3, KeyHitIsReuse DEF Store!Next
  <2>4. CASE Panic(c)
    BY <2>4, PanicIsFail DEF Store!Next
  <2>5. CASE StoreToken(c)
    BY <2>5, StoreTokenIsIssue DEF Store!Next
  <2> QED  BY <1>2, <2>1, <2>2, <2>3, <2>4, <2>5 DEF SetStep
<1>3. ASSUME NEW c \in Conns, NEW t \in Token, GetRuleConf(c, t)
      PROVE  [Store!Next]_Store!vars
  BY <1>3, GetIsGet DEF Store!Next
<1>4. CASE Tick
  BY <1>4, TickIsExpire DEF Store!Next
<1>5. CASE UNCHANGED vars
  <2>1. UNCHANGED <<pc, req, token, ret, issued, tokenCache, keyCache>>
    BY <1>5 DEF vars, cacheVars, localVars
  <2>2. BoundRight /\ BoundRight' /\ KeysStay
    BY <2>1, Known DEF KeysStay, Cached
  <2>3. boundBar' = boundBar
    BY <2>2, BoundStays
  <2> QED  BY <2>1, <2>3 DEF Store!vars, pendingBar, replyBar, liveBar
<1> QED  BY <1>1, <1>2, <1>3, <1>4, <1>5 DEF Next

(***************************************************************************)
(* ConfCache.Set and ConfCache.Get, statement by statement, behave as the  *)
(* atomic cache of ConfStore for every number of goroutines, keys and      *)
(* requests: no interleaving and no expiry between two statements shows.   *)
(* NoWrap is needed: a reused token is not one "never granted before".     *)
(***************************************************************************)
THEOREM CacheRefines == NoWrap => (Spec => ImplementsConfStore)
<1> SUFFICES ASSUME NoWrap PROVE Spec => ImplementsConfStore
  OBVIOUS
<1>1. Spec => []BindInv
  BY BindInvariant
<1>2. Init => Usable
  BY DEF Init, Start, Usable, Missed
<1>3. BindInv /\ Usable /\ [Next]_vars => Usable'
  BY UsableStep DEF BindInv, LockInv
<1>4. BindInv /\ Usable /\ BindInv' /\ Usable' /\ [Next]_vars => [Store!Next]_Store!vars
  BY StepMaps DEF RefInv
<1> QED  BY <1>1, <1>2, <1>3, <1>4, InitMaps, PTL DEF Spec, ImplementsConfStore, Store!Spec
=============================================================================
