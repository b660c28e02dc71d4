------------------------------ MODULE ConfCache ------------------------------
(***************************************************************************)
(* The configuration cache of the runner (internal/plugin/conf.go).        *)
(*                                                                         *)
(* PrepareConf parses the configuration of a route once and answers with a *)
(* token; HTTPReqCall and HTTPRespCall look the parsed configuration up by *)
(* that token.  A second cache maps the idempotency key of a PrepareConf   *)
(* request to the token it was answered with.  ConfCache.Set runs under    *)
(* cc.lock, one statement per action here; ConfCache.Get takes no lock and *)
(* interleaves with every one of those statements, and so does time.       *)
(***************************************************************************)
EXTENDS Integers, Sequences

CONSTANTS
  Conns,        \* connection goroutines: each serves one RPC at a time
  Keys,         \* the non-empty idempotency keys
  NoKey,        \* the empty key sent by APISIX < 2.9
  Requests,     \* PrepareConf requests: [key, conf, wellFormed]
  NoReq,        \* "no request"
  Registered,   \* names in pluginRegistry.opts
  TokenSpace,   \* number of values of a token (2^32 in the code)
  TTL,          \* life of a cache entry, in ticks
  MaxPrepares   \* bound: PrepareConf calls in a behaviour

(***************************************************************************)
(* A token is a uint32.  A request carries a key and a sequence of         *)
(* (plugin name, raw value) entries; of a value only what ParseConf does   *)
(* with it matters.                                                        *)
(***************************************************************************)
Token == 0 .. TokenSpace - 1

ASSUME ConstantsAssumption ==
  /\ TokenSpace \in Nat \ {0}
  /\ TTL \in Nat \ {0}
  /\ MaxPrepares \in Nat
  /\ NoKey \notin Keys
  /\ NoReq \notin Requests

ASSUME RequestsAssumption ==
  \A r \in Requests :
    /\ r = [key |-> r.key, conf |-> r.conf, wellFormed |-> r.wellFormed]
    /\ r.key \in Keys \cup {NoKey}
    /\ r.wellFormed \in BOOLEAN

VARIABLES
  tokenCache,   \* cc.tokenCache: token -> parsed configuration and life left
  keyCache,     \* cc.keyCache: key -> token and life left
  tokenCounter, \* cc.tokenCounter
  lock,         \* {} or the singleton of the goroutine inside Set
  pc,           \* the statement each goroutine executes next
  req,          \* the PrepareConf request a goroutine serves (or served last)
  entries,      \* the local "entries" of Set
  token,        \* the local "token" of Set
  ret,          \* what the last call of a goroutine returned
  issued,       \* history: the request a token was issued for
  calls         \* PrepareConf calls so far

cacheVars == <<tokenCache, keyCache, tokenCounter, issued>>
localVars == <<pc, req, entries, token, ret>>
vars      == <<cacheVars, lock, localVars, calls>>

-----------------------------------------------------------------------------
(***************************************************************************)
(* The entries Set keeps: unknown plugins and values ParseConf rejects are *)
(* skipped.  A registered plugin's ParseConf may panic.                    *)
(***************************************************************************)
findPlugin(name) == name \in Registered

Entries(r) ==
  SelectSeq(r.conf, LAMBDA e : findPlugin(e.name) /\ e.value = "good")

ParsePanics(r) ==
  \E i \in DOMAIN r.conf : findPlugin(r.conf[i].name) /\ r.conf[i].value = "panic"

ParsedConfs == {Entries(r) : r \in Requests} \cup {<<>>}

(***************************************************************************)
(* ttlcache: an entry lives TTL ticks after it was set or hit, since       *)
(* SkipTTLExtensionOnHit(false).  An expired entry is as good as absent.   *)
(***************************************************************************)
NoTokenEntry == [conf |-> <<>>, life |-> 0]
NoKeyEntry   == [token |-> 0, life |-> 0]

Live(entry) == entry.life > 0

\* Mutant: a hit adds a full TTL to what is left.
TouchAdds(entry) == [entry EXCEPT !.life = @ + TTL]

\* Mutant: a hit does not extend the life (SkipTTLExtensionOnHit(true)).
TouchNothing(entry) == entry

Touch(entry) == [entry EXCEPT !.life = TTL]

Age(entry, absent) ==
  IF entry.life > 1 THEN [entry EXCEPT !.life = @ - 1] ELSE absent

-----------------------------------------------------------------------------
PcSet == {"idle", "lock", "lookup", "parse", "count", "take", "storeToken",
          "storeKey"}

Result ==
  [kind : {"none", "panic", "notfound"}]
    \cup [kind : {"token"}, token : Token]
    \cup [kind : {"conf"}, token : Token, conf : ParsedConfs]

\* Two empty caches and a counter at zero; no token was ever issued.
newConfCache ==
  /\ tokenCache = [t \in Token |-> NoTokenEntry]
  /\ keyCache = [k \in Keys \cup {NoKey} |-> NoKeyEntry]
  /\ tokenCounter = 0
  /\ issued = [t \in Token |-> NoReq]

\* A runner process that has just started.
Start ==
  /\ newConfCache
  /\ lock = {}
  /\ pc = [c \in Conns |-> "idle"]
  /\ req = [c \in Conns |-> NoReq]
  /\ entries = [c \in Conns |-> <<>>]
  /\ token = [c \in Conns |-> 0]
  /\ ret = [c \in Conns |-> [kind |-> "none"]]

Init == Start /\ calls = 0

\* Set returns: the deferred Unlock runs, the locals of Set are gone.
Return(c, result) ==
  /\ lock' = {}
  /\ pc' = [pc EXCEPT ![c] = "idle"]
  /\ ret' = [ret EXCEPT ![c] = result]
  /\ entries' = [entries EXCEPT ![c] = <<>>]
  /\ token' = [token EXCEPT ![c] = 0]
  /\ UNCHANGED <<req, calls>>

\* A statement of Set that neither returns nor touches the lock.
Advance(c, from, to) ==
  /\ pc[c] = from
  /\ pc' = [pc EXCEPT ![c] = to]
  /\ UNCHANGED <<lock, req, ret, calls>>

-----------------------------------------------------------------------------
\* A PrepareConf RPC arrives on connection c.
PrepareConf(c, r) ==
  /\ pc[c] = "idle"
  /\ calls < MaxPrepares
  /\ calls' = calls + 1
  /\ pc' = [pc EXCEPT ![c] = "lock"]
  /\ req' = [req EXCEPT ![c] = r]
  /\ ret' = [ret EXCEPT ![c] = [kind |-> "none"]]
  /\ UNCHANGED <<cacheVars, lock, entries, token>>

\* Mutant: Set does not wait for the lock.
LockUnguarded(c) ==
  /\ lock' = {c}
  /\ pc[c] = "lock"
  /\ pc' = [pc EXCEPT ![c] = "lookup"]
  /\ UNCHANGED <<cacheVars, req, entries, token, ret, calls>>

\* cc.lock.Lock()
Lock(c) ==
  /\ pc[c] = "lock"
  /\ lock = {}
  /\ lock' = {c}
  /\ pc' = [pc EXCEPT ![c] = "lookup"]
  /\ UNCHANGED <<cacheVars, req, entries, token, ret, calls>>

\* Mutant: the empty key is looked up like any other.
KeyHitEmptyKey(c) ==
  /\ pc[c] = "lookup"
  /\ req[c].wellFormed
  /\ Live(keyCache[req[c].key])
  /\ keyCache' = [keyCache EXCEPT ![req[c].key] = Touch(@)]
  /\ Return(c, [kind |-> "token", token |-> keyCache[req[c].key].token])
  /\ UNCHANGED <<tokenCache, tokenCounter, issued>>

\* The key is cached: its token is returned and the key entry, not the token
\* entry, gets a new TTL.
KeyHit(c) ==
  /\ pc[c] = "lookup"
  /\ req[c].wellFormed
  /\ req[c].key # NoKey
  /\ Live(keyCache[req[c].key])
  /\ keyCache' = [keyCache EXCEPT ![req[c].key] = Touch(@)]
  /\ Return(c, [kind |-> "token", token |-> keyCache[req[c].key].token])
  /\ UNCHANGED <<tokenCache, tokenCounter, issued>>

\* Mutant: a key that is cached is parsed again, as for APISIX < 2.9.
KeyMissCached(c) ==
  /\ Advance(c, "lookup", "parse")
  /\ req[c].wellFormed
  /\ UNCHANGED <<cacheVars, entries, token>>

\* No key, or ErrNotFound.
KeyMiss(c) ==
  /\ Advance(c, "lookup", "parse")
  /\ req[c].wellFormed
  /\ req[c].key = NoKey \/ ~Live(keyCache[req[c].key])
  /\ UNCHANGED <<cacheVars, entries, token>>

\* The loop over req.Conf.
ParseConf(c) ==
  /\ Advance(c, "parse", "count")
  /\ ~ParsePanics(req[c])
  /\ entries' = [entries EXCEPT ![c] = Entries(req[c])]
  /\ UNCHANGED <<cacheVars, token>>

\* Mutant: the panic leaves the lock held.
PanicKeepsLock(c) ==
  /\ \/ pc[c] = "lookup" /\ ~req[c].wellFormed
     \/ pc[c] = "parse" /\ ParsePanics(req[c])
  /\ pc' = [pc EXCEPT ![c] = "idle"]
  /\ ret' = [ret EXCEPT ![c] = [kind |-> "panic"]]
  /\ UNCHANGED <<cacheVars, lock, req, entries, token, calls>>

\* Reading a malformed request, or ParseConf of a plugin, panics inside Set.
\* The deferred Unlock still runs; handleConn recovers and drops c.
Panic(c) ==
  /\ \/ pc[c] = "lookup" /\ ~req[c].wellFormed
     \/ pc[c] = "parse" /\ ParsePanics(req[c])
  /\ Return(c, [kind |-> "panic"])
  /\ UNCHANGED cacheVars

\* cc.tokenCounter++, on a uint32
CountToken(c) ==
  /\ Advance(c, "count", "take")
  /\ tokenCounter' = (tokenCounter + 1) % TokenSpace
  /\ UNCHANGED <<tokenCache, keyCache, issued, entries, token>>

\* token := cc.tokenCounter
TakeToken(c) ==
  /\ Advance(c, "take", "storeToken")
  /\ token' = [token EXCEPT ![c] = tokenCounter]
  /\ UNCHANGED <<cacheVars, entries>>

\* cc.tokenCache.Set(token, entries)
StoreToken(c) ==
  /\ Advance(c, "storeToken", "storeKey")
  /\ tokenCache' = [tokenCache EXCEPT
                      ![token[c]] = [conf |-> entries[c], life |-> TTL]]
  /\ issued' = [issued EXCEPT ![token[c]] = req[c]]
  /\ UNCHANGED <<keyCache, tokenCounter, entries, token>>

\* cc.keyCache.Set(key, token), for the empty key too, and return
StoreKey(c) ==
  /\ pc[c] = "storeKey"
  /\ keyCache' = [keyCache EXCEPT
                    ![req[c].key] = [token |-> token[c], life |-> TTL]]
  /\ Return(c, [kind |-> "token", token |-> token[c]])
  /\ UNCHANGED <<tokenCache, tokenCounter, issued>>

\* Mutant: only PrepareConf extends lives.
GetRuleConfNoExtend(c, t) ==
  /\ pc[c] = "idle"
  /\ ret' = [ret EXCEPT ![c] =
       IF Live(tokenCache[t])
       THEN [kind |-> "conf", token |-> t, conf |-> tokenCache[t].conf]
       ELSE [kind |-> "notfound"]]
  /\ UNCHANGED <<cacheVars, lock, pc, req, entries, token, calls>>

\* HTTPReqCall and HTTPRespCall look a token up, without cc.lock.
GetRuleConf(c, t) ==
  /\ pc[c] = "idle"
  /\ \/ /\ Live(tokenCache[t])
        /\ tokenCache' = [tokenCache EXCEPT ![t] = Touch(@)]
        /\ ret' = [ret EXCEPT ![c] = [kind |-> "conf", token |-> t,
                                      conf |-> tokenCache[t].conf]]
     \/ /\ ~Live(tokenCache[t])
        /\ ret' = [ret EXCEPT ![c] = [kind |-> "notfound"]]
        /\ UNCHANGED tokenCache
  /\ UNCHANGED <<keyCache, tokenCounter, issued, lock, pc, req, entries,
                 token, calls>>

\* One tick of time passes for both caches.
Tick ==
  /\ tokenCache' = [t \in Token |-> Age(tokenCache[t], NoTokenEntry)]
  /\ keyCache' = [k \in Keys \cup {NoKey} |-> Age(keyCache[k], NoKeyEntry)]
  /\ UNCHANGED <<tokenCounter, issued, lock, localVars, calls>>

-----------------------------------------------------------------------------
SetStep(c) ==
  \/ KeyHit(c) \/ KeyMiss(c) \/ ParseConf(c) \/ Panic(c)
  \/ CountToken(c) \/ TakeToken(c) \/ StoreToken(c) \/ StoreKey(c)

Next ==
  \/ \E c \in Conns, r \in Requests : PrepareConf(c, r)
  \/ \E c \in Conns : Lock(c) \/ SetStep(c)
  \/ \E c \in Conns, t \in Token : GetRuleConf(c, t)
  \/ Tick

(***************************************************************************)
(* A goroutine inside Set never blocks, and sync.Mutex does not starve a   *)
(* waiter.  RPCs need not arrive and time need not pass.                   *)
(***************************************************************************)
Fairness ==
  \A c \in Conns : SF_vars(Lock(c)) /\ WF_vars(SetStep(c))

Spec     == Init /\ [][Next]_vars
FairSpec == Spec /\ Fairness

-----------------------------------------------------------------------------
(* Type correctness of the caches, the lock and the goroutines' locals.    *)
TypeOK ==
  /\ tokenCache \in [Token -> [conf : ParsedConfs, life : 0 .. TTL]]
  /\ keyCache \in [Keys \cup {NoKey} -> [token : Token, life : 0 .. TTL]]
  /\ tokenCounter \in Token
  /\ lock \in SUBSET Conns
  /\ pc \in [Conns -> PcSet]
  /\ req \in [Conns -> Requests \cup {NoReq}]
  /\ entries \in [Conns -> ParsedConfs]
  /\ token \in [Conns -> Token]
  /\ ret \in [Conns -> Result]
  /\ issued \in [Token -> Requests \cup {NoReq}]
  /\ calls \in 0 .. MaxPrepares

(* The token counter has not wrapped: fewer PrepareConf calls than tokens. *)
NoWrap == MaxPrepares < TokenSpace

(***************************************************************************)
(* A live token resolves to the configuration parsed from the very request *)
(* the token was issued for, and a live key to a token that was issued for *)
(* that key: two PrepareConf calls never end up sharing or swapping the    *)
(* entries of the two caches (ConfCache.Set, ConfCache.Get).               *)
(***************************************************************************)
TokenBinding ==
  /\ \A t \in Token :
       Live(tokenCache[t]) =>
         issued[t] # NoReq /\ tokenCache[t].conf = Entries(issued[t])
  /\ \A k \in Keys \cup {NoKey} :
       Live(keyCache[k]) =>
         issued[keyCache[k].token] # NoReq /\ issued[keyCache[k].token].key = k

(***************************************************************************)
(* What a caller gets is its own: PrepareConf answers with a token issued  *)
(* for the caller's key, and for the caller's configuration when it sent   *)
(* no key; GetRuleConf answers with what the token was issued for.         *)
(***************************************************************************)
AnswerIsOwn ==
  \A c \in Conns :
    /\ ret[c].kind = "token" =>
         /\ issued[ret[c].token] # NoReq
         /\ issued[ret[c].token].key = req[c].key
         /\ req[c].key = NoKey => issued[ret[c].token] = req[c]
    /\ ret[c].kind = "conf" =>
         issued[ret[c].token] # NoReq /\ ret[c].conf = Entries(issued[ret[c].token])

(***************************************************************************)
(* PrepareConf is idempotent: while a key is cached its token never        *)
(* changes, so concurrent calls with one key cannot be given two tokens.   *)
(***************************************************************************)
KeyStable ==
  [][\A k \in Keys :
       Live(keyCache[k]) /\ Live(keyCache'[k])
         => keyCache'[k].token = keyCache[k].token]_vars

(***************************************************************************)
(* Every PrepareConf call returns, also when another one panics while it   *)
(* holds cc.lock.                                                          *)
(***************************************************************************)
PrepareReturns == \A c \in Conns : pc[c] = "lock" ~> pc[c] = "idle"

=============================================================================
