--------------------------- MODULE ConfCacheProofs ---------------------------
(***************************************************************************)
(* Proofs about ConfCache for every set of goroutines, keys and requests,  *)
(* every TTL and every token space.  Type correctness and the stability of *)
(* a key hold unconditionally; the binding of a token to one request needs *)
(* NoWrap: the code's uint32 counter restarts after 2^32 tokens.           *)
(***************************************************************************)
EXTENDS ConfCache, FiniteSets, FiniteSetTheorems, TLAPS

\* The statements executed under cc.lock.
Critical == {"lookup", "parse", "count", "take", "storeToken", "storeKey"}

\* Of those, the ones after a key miss.
Missed == {"parse", "count", "take", "storeToken", "storeKey"}

\* The calls that may still increment the counter.
Counting == {c \in Conns : pc[c] \in {"lock", "lookup", "parse", "count"}}

(* cc.lock excludes: a goroutine inside Set is the one that holds it.      *)
Exclusion ==
  \A c \in Conns :
    /\ pc[c] \in Critical => lock = {c}
    /\ pc[c] # "idle" => req[c] \in Requests

(* A key that missed stays absent until its goroutine stores it.           *)
MissPersists ==
  \A c \in Conns :
    pc[c] \in Missed /\ req[c].key \in Keys => ~Live(keyCache[req[c].key])

(* Every increment of the counter is paid for by a call.                   *)
CounterPaid ==
  /\ IsFiniteSet(Counting)
  /\ tokenCounter + Cardinality(Counting) <= calls

(* Tokens above the counter were never issued, and neither was the token a *)
(* goroutine has taken but not stored.                                     *)
Fresh ==
  /\ \A t \in Token : issued[t] # NoReq => t <= tokenCounter
  /\ \A c \in Conns :
       /\ pc[c] \in {"take", "storeToken"} => issued[tokenCounter] = NoReq
       /\ pc[c] = "storeToken" => token[c] = tokenCounter
       /\ pc[c] = "storeKey" => issued[token[c]] = req[c]
       /\ pc[c] \in {"count", "take", "storeToken"} =>
            entries[c] = Entries(req[c])

(* The inductive invariant behind KeyStable.                               *)
LockInv == TypeOK /\ Exclusion /\ MissPersists

(* The inductive invariant behind TokenBinding and AnswerIsOwn.            *)
BindInv == LockInv /\ CounterPaid /\ Fresh /\ TokenBinding /\ AnswerIsOwn

-----------------------------------------------------------------------------
(* What parsing a request yields is a parsed configuration.                *)
LEMMA EntriesType ==
  /\ <<>> \in ParsedConfs
  /\ \A r \in Requests : Entries(r) \in ParsedConfs
BY DEF ParsedConfs

(* The entries of the two caches keep their shape when they age.           *)
LEMMA AgeType ==
  /\ \A e \in [conf : ParsedConfs, life : 0 .. TTL] :
       /\ Age(e, NoTokenEntry) \in [conf : ParsedConfs, life : 0 .. TTL]
       /\ Touch(e) \in [conf : ParsedConfs, life : 0 .. TTL]
       /\ Touch(e).conf = e.conf
       /\ Live(Age(e, NoTokenEntry)) =>
            Live(e) /\ Age(e, NoTokenEntry).conf = e.conf
  /\ \A e \in [token : Token, life : 0 .. TTL] :
       /\ Age(e, NoKeyEntry) \in [token : Token, life : 0 .. TTL]
       /\ Touch(e) \in [token : Token, life : 0 .. TTL]
       /\ Touch(e).token = e.token
       /\ Live(Age(e, NoKeyEntry)) =>
            Live(e) /\ Age(e, NoKeyEntry).token = e.token
<1>1. TTL \in Nat \ {0} /\ 0 \in Token
  BY ConstantsAssumption DEF Token
<1>2. ASSUME NEW e \in [conf : ParsedConfs, life : 0 .. TTL]
      PROVE  /\ Age(e, NoTokenEntry) \in [conf : ParsedConfs, life : 0 .. TTL]
             /\ Touch(e) \in [conf : ParsedConfs, life : 0 .. TTL]
             /\ Touch(e).conf = e.conf
             /\ Live(Age(e, NoTokenEntry)) =>
                  Live(e) /\ Age(e, NoTokenEntry).conf = e.conf
  BY <1>1, EntriesType DEF Age, Touch, Live, NoTokenEntry
<1>3. ASSUME NEW e \in [token : Token, life : 0 .. TTL]
      PROVE  /\ Age(e, NoKeyEntry) \in [token : Token, life : 0 .. TTL]
             /\ Touch(e) \in [token : Token, life : 0 .. TTL]
             /\ Touch(e).token = e.token
             /\ Live(Age(e, NoKeyEntry)) =>
                  Live(e) /\ Age(e, NoKeyEntry).token = e.token
  BY <1>1 DEF Age, Touch, Live, NoKeyEntry
<1> QED
  BY <1>2, <1>3

(* The tokens are the values of a uint32, zero included.                   *)
LEMMA TokenType ==
  /\ 0 \in Token
  /\ \A t \in Token : (t + 1) % TokenSpace \in Token
  /\ TTL \in 0 .. TTL
BY ConstantsAssumption DEF Token

(* What a call may return.                                                 *)
LEMMA ResultType ==
  /\ [kind |-> "notfound"] \in Result
  /\ \A t \in Token : [kind |-> "token", token |-> t] \in Result
  /\ \A t \in Token, e \in ParsedConfs :
       [kind |-> "conf", token |-> t, conf |-> e] \in Result
BY DEF Result

(* A request carries a key or NoKey.                                       *)
LEMMA RequestType ==
  \A r \in Requests : r.key \in Keys \cup {NoKey} /\ r # NoReq
BY ConstantsAssumption, RequestsAssumption

-----------------------------------------------------------------------------
(* A process that has just started, whatever calls came before it.         *)
LEMMA StartLocks == Start /\ calls \in 0 .. MaxPrepares => LockInv
<1> SUFFICES ASSUME Start, calls \in 0 .. MaxPrepares PROVE LockInv
  OBVIOUS
<1>1. TypeOK
  BY EntriesType, TokenType, ConstantsAssumption
  DEF Start, newConfCache, TypeOK, NoTokenEntry, NoKeyEntry, PcSet, Result
<1>2. Exclusion /\ MissPersists
  BY DEF Start, Exclusion, MissPersists, Critical, Missed
<1> QED
  BY <1>1, <1>2 DEF LockInv

(* No call has been made initially.                                        *)
LEMMA InitStarts == Init => Start /\ calls \in 0 .. MaxPrepares
BY ConstantsAssumption DEF Init

(* Each step keeps the types.  The request a goroutine serves is known     *)
(* from Exclusion.                                                         *)
LEMMA TypeStep == TypeOK /\ Exclusion /\ [Next]_vars => TypeOK'
<1> SUFFICES ASSUME TypeOK, Exclusion, [Next]_vars PROVE TypeOK'
  OBVIOUS
<1> USE DEF TypeOK
<1>1. ASSUME NEW c \in Conns, NEW r \in Requests, PrepareConf(c, r)
      PROVE  TypeOK'
  BY <1>1, ConstantsAssumption DEF PrepareConf, cacheVars, PcSet, Result
<1>2. ASSUME NEW c \in Conns, Lock(c) PROVE TypeOK'
  BY <1>2 DEF Lock, cacheVars, PcSet
<1>3. ASSUME NEW c \in Conns, KeyHit(c) PROVE TypeOK'
  <2>1. req[c] \in Requests /\ req[c].key \in Keys \cup {NoKey}
    BY <1>3, RequestType DEF KeyHit, Exclusion
  <2>2. keyCache' \in [Keys \cup {NoKey} -> [token : Token, life : 0 .. TTL]]
    BY <1>3, <2>1, AgeType DEF KeyHit
  <2>3. ret' \in [Conns -> Result]
    BY <1>3, <2>1, ResultType DEF KeyHit, Return
  <2> QED
    BY <1>3, <2>2, <2>3, EntriesType, TokenType DEF KeyHit, Return, PcSet
<1>4. ASSUME NEW c \in Conns, KeyMiss(c) PROVE TypeOK'
  BY <1>4 DEF KeyMiss, Advance, cacheVars, PcSet
<1>5. ASSUME NEW c \in Conns, ParseConf(c) PROVE TypeOK'
  <2>1. Entries(req[c]) \in ParsedConfs
    BY <1>5, EntriesType DEF ParseConf, Advance, Exclusion
  <2> QED
    BY <1>5, <2>1 DEF ParseConf, Advance, cacheVars, PcSet
<1>6. ASSUME NEW c \in Conns, Panic(c) PROVE TypeOK'
  BY <1>6, EntriesType, TokenType DEF Panic, Return, cacheVars, PcSet, Result
<1>7. ASSUME NEW c \in Conns, CountToken(c) PROVE TypeOK'
  BY <1>7, TokenType DEF CountToken, Advance, PcSet
<1>8. ASSUME NEW c \in Conns, TakeToken(c) PROVE TypeOK'
  BY <1>8 DEF TakeToken, Advance, cacheVars, PcSet
<1>9. ASSUME NEW c \in Conns, StoreToken(c) PROVE TypeOK'
  BY <1>9, TokenType DEF StoreToken, Advance, PcSet
<1>10. ASSUME NEW c \in Conns, StoreKey(c) PROVE TypeOK'
  <2>1. ret' \in [Conns -> Result]
    BY <1>10, ResultType DEF StoreKey, Return
  <2>2. keyCache' \in [Keys \cup {NoKey} -> [token : Token, life : 0 .. TTL]]
    BY <1>10, TokenType, RequestType DEF StoreKey, Exclusion
  <2> QED
    BY <1>10, <2>1, <2>2, EntriesType, TokenType DEF StoreKey, Return, PcSet
<1>11. ASSUME NEW c \in Conns, NEW t \in Token, GetRuleConf(c, t)
       PROVE  TypeOK'
  <2>1. tokenCache' \in [Token -> [conf : ParsedConfs, life : 0 .. TTL]]
    BY <1>11, AgeType DEF GetRuleConf
  <2>2. ret' \in [Conns -> Result]
    BY <1>11, ResultType DEF GetRuleConf
  <2> QED
    BY <1>11, <2>1, <2>2 DEF GetRuleConf
<1>12. CASE Tick
  BY <1>12, AgeType DEF Tick, localVars
<1>13. CASE UNCHANGED vars
  BY <1>13 DEF vars, cacheVars, localVars
<1> QED
  BY <1>1, <1>2, <1>3, <1>4, <1>5, <1>6, <1>7, <1>8, <1>9, <1>10, <1>11,
     <1>12, <1>13 DEF Next, SetStep

(* Exclusion: only Lock enters the critical section, and only when nobody  *)
(* is inside; only the holder changes the lock again.                      *)
LEMMA ExclusionStep == TypeOK /\ Exclusion /\ [Next]_vars => Exclusion'
<1> SUFFICES ASSUME TypeOK, Exclusion, [Next]_vars PROVE Exclusion'
  OBVIOUS
<1> USE DEF TypeOK, Exclusion, Critical
<1>1. ASSUME NEW c \in Conns, NEW r \in Requests, PrepareConf(c, r)
      PROVE  Exclusion'
  BY <1>1 DEF PrepareConf
<1>2. ASSUME NEW c \in Conns, Lock(c) PROVE Exclusion'
  BY <1>2 DEF Lock
<1>3. ASSUME NEW c \in Conns, KeyHit(c) PROVE Exclusion'
  BY <1>3 DEF KeyHit, Return
<1>4. ASSUME NEW c \in Conns, KeyMiss(c) PROVE Exclusion'
  BY <1>4 DEF KeyMiss, Advance
<1>5. ASSUME NEW c \in Conns, ParseConf(c) PROVE Exclusion'
  BY <1>5 DEF ParseConf, Advance
<1>6. ASSUME NEW c \in Conns, Panic(c) PROVE Exclusion'
  BY <1>6 DEF Panic, Return
<1>7. ASSUME NEW c \in Conns, CountToken(c) PROVE Exclusion'
  BY <1>7 DEF CountToken, Advance
<1>8. ASSUME NEW c \in Conns, TakeToken(c) PROVE Exclusion'
  BY <1>8 DEF TakeToken, Advance
<1>9. ASSUME NEW c \in Conns, StoreToken(c) PROVE Exclusion'
  BY <1>9 DEF StoreToken, Advance
<1>10. ASSUME NEW c \in Conns, StoreKey(c) PROVE Exclusion'
  BY <1>10 DEF StoreKey, Return
<1>11. ASSUME NEW c \in Conns, NEW t \in Token, GetRuleConf(c, t)
       PROVE  Exclusion'
  BY <1>11 DEF GetRuleConf
<1>12. CASE Tick
  BY <1>12 DEF Tick, localVars
<1>13. CASE UNCHANGED vars
  BY <1>13 DEF vars, cacheVars, localVars
<1> QED
  BY <1>1, <1>2, <1>3, <1>4, <1>5, <1>6, <1>7, <1>8, <1>9, <1>10, <1>11,
     <1>12, <1>13 DEF Next, SetStep

(* MissPersists: keyCache is written under the lock only, so no other      *)
(* goroutine revives a key that missed; time only takes entries away.      *)
LEMMA MissStep == LockInv /\ [Next]_vars => MissPersists'
<1> SUFFICES ASSUME TypeOK, Exclusion, MissPersists, [Next]_vars
             PROVE  MissPersists'
  BY DEF LockInv
<1> USE DEF TypeOK, MissPersists, Missed
<1>1. ASSUME NEW c \in Conns, NEW r \in Requests, PrepareConf(c, r)
      PROVE  MissPersists'
  BY <1>1 DEF PrepareConf, cacheVars
<1>2. ASSUME NEW c \in Conns, Lock(c) PROVE MissPersists'
  BY <1>2 DEF Lock, cacheVars
<1>3. ASSUME NEW c \in Conns, KeyHit(c) PROVE MissPersists'
  BY <1>3 DEF KeyHit, Return, Exclusion, Critical
<1>4. ASSUME NEW c \in Conns, KeyMiss(c) PROVE MissPersists'
  BY <1>4, ConstantsAssumption DEF KeyMiss, Advance, cacheVars
<1>5. ASSUME NEW c \in Conns, ParseConf(c) PROVE MissPersists'
  BY <1>5 DEF ParseConf, Advance, cacheVars
<1>6. ASSUME NEW c \in Conns, Panic(c) PROVE MissPersists'
  BY <1>6 DEF Panic, Return, cacheVars
<1>7. ASSUME NEW c \in Conns, CountToken(c) PROVE MissPersists'
  BY <1>7 DEF CountToken, Advance
<1>8. ASSUME NEW c \in Conns, TakeToken(c) PROVE MissPersists'
  BY <1>8 DEF TakeToken, Advance, cacheVars
<1>9. ASSUME NEW c \in Conns, StoreToken(c) PROVE MissPersists'
  BY <1>9 DEF StoreToken, Advance
<1>10. ASSUME NEW c \in Conns, StoreKey(c) PROVE MissPersists'
  BY <1>10 DEF StoreKey, Return, Exclusion, Critical
<1>11. ASSUME NEW c \in Conns, NEW t \in Token, GetRuleConf(c, t)
       PROVE  MissPersists'
  BY <1>11 DEF GetRuleConf
<1>12. CASE Tick
  <2>1. \A k \in Keys : Live(keyCache'[k]) => Live(keyCache[k])
    BY <1>12, AgeType DEF Tick
  <2> QED
    BY <1>12, <2>1 DEF Tick, localVars
<1>13. CASE UNCHANGED vars
  BY <1>13 DEF vars, cacheVars, localVars
<1> QED
  BY <1>1, <1>2, <1>3, <1>4, <1>5, <1>6, <1>7, <1>8, <1>9, <1>10, <1>11,
     <1>12, <1>13 DEF Next, SetStep

LEMMA LockInvStep == LockInv /\ [Next]_vars => LockInv'
BY TypeStep, ExclusionStep, MissStep DEF LockInv

(* LockInv holds in every state of every behaviour.                        *)
LEMMA LockInvariant == Spec => []LockInv
BY InitStarts, StartLocks, LockInvStep, PTL DEF Spec

(* Type correctness of the caches and of the locals of every goroutine.    *)
THEOREM TypeCorrect == Spec => []TypeOK
<1>1. LockInv => TypeOK
  BY DEF LockInv
<1> QED
  BY <1>1, LockInvariant, PTL

(* ConfCache.Set is idempotent: as long as a key is cached, no step of any *)
(* goroutine gives it another token, whatever the counter does.            *)
THEOREM KeyIsStable == Spec => KeyStable
<1> DEFINE Stable == \A k \in Keys : Live(keyCache[k]) /\ Live(keyCache'[k])
                       => keyCache'[k].token = keyCache[k].token
<1>1. LockInv /\ [Next]_vars => [Stable]_vars
  <2> SUFFICES ASSUME TypeOK, Exclusion, MissPersists, Next PROVE Stable
    BY DEF LockInv
  <2> USE DEF TypeOK
  <2>1. ASSUME keyCache' = keyCache PROVE Stable
    BY <2>1
  <2>2. ASSUME NEW c \in Conns, KeyHit(c) PROVE Stable
    BY <2>2, AgeType DEF KeyHit
  <2>3. ASSUME NEW c \in Conns, StoreKey(c) PROVE Stable
    <3>1. \A k \in Keys : k # req[c].key => keyCache'[k] = keyCache[k]
      BY <2>3 DEF StoreKey
    <3> QED
      BY <2>3, <3>1 DEF StoreKey, MissPersists, Missed
  <2>4. CASE Tick
    BY <2>4, AgeType DEF Tick
  <2> QED
    BY <2>1, <2>2, <2>3, <2>4
    DEF Next, SetStep, PrepareConf, Lock, KeyMiss, ParseConf, Panic,
        CountToken, TakeToken, StoreToken, GetRuleConf, cacheVars
<1> QED
  BY <1>1, LockInvariant, PTL DEF Spec, KeyStable

-----------------------------------------------------------------------------
(* CounterPaid: a call joins Counting when it arrives and leaves it when   *)
(* it returns, panics or increments the counter.                           *)
LEMMA CounterStep ==
  ASSUME NoWrap
  PROVE  LockInv /\ CounterPaid /\ [Next]_vars => CounterPaid'
<1> SUFFICES ASSUME TypeOK, CounterPaid, [Next]_vars PROVE CounterPaid'
  BY DEF LockInv
<1> USE DEF TypeOK
<1> DEFINE n == Cardinality(Counting)
<1>0. /\ IsFiniteSet(Counting) /\ n \in Nat
      /\ tokenCounter \in Nat /\ calls \in Nat /\ calls <= MaxPrepares
      /\ MaxPrepares < TokenSpace
      /\ TokenSpace \in Nat /\ MaxPrepares \in Nat
  BY FS_CardinalityType, ConstantsAssumption DEF CounterPaid, Token, NoWrap
<1>1. ASSUME Counting' = Counting, tokenCounter' = tokenCounter, calls' = calls
      PROVE  CounterPaid'
  BY <1>1 DEF CounterPaid
<1>2. ASSUME NEW c \in Counting, Counting' = Counting \ {c}
      PROVE  IsFiniteSet(Counting') /\ Cardinality(Counting') = n - 1
  BY <1>0, <1>2, FS_RemoveElement
<1>3. ASSUME NEW c \in Counting, Counting' = Counting \ {c},
             tokenCounter' = tokenCounter, calls' = calls
      PROVE  CounterPaid'
  <2>1. IsFiniteSet(Counting') /\ Cardinality(Counting') = n - 1
    BY <1>2, <1>3
  <2> QED
    BY <1>0, <1>3, <2>1 DEF CounterPaid
<1>4. ASSUME NEW c \in Conns, NEW r \in Requests, PrepareConf(c, r)
      PROVE  CounterPaid'
  <2>1. c \notin Counting /\ Counting' = Counting \cup {c}
    BY <1>4 DEF PrepareConf, Counting
  <2>2. IsFiniteSet(Counting') /\ Cardinality(Counting') = n + 1
    BY <1>0, <2>1, FS_AddElement
  <2>3. tokenCounter' = tokenCounter /\ calls' = calls + 1
    BY <1>4 DEF PrepareConf, cacheVars
  <2> QED
    BY <1>0, <2>2, <2>3 DEF CounterPaid
<1>5. ASSUME NEW c \in Conns, Lock(c) PROVE CounterPaid'
  BY <1>1, <1>5 DEF Lock, Counting, cacheVars
<1>6. ASSUME NEW c \in Conns, KeyHit(c) PROVE CounterPaid'
  <2>1. c \in Counting /\ Counting' = Counting \ {c}
    BY <1>6 DEF KeyHit, Return, Counting
  <2> QED
    BY <1>3, <1>6, <2>1 DEF KeyHit, Return
<1>7. ASSUME NEW c \in Conns, KeyMiss(c) \/ ParseConf(c) PROVE CounterPaid'
  BY <1>1, <1>7 DEF KeyMiss, ParseConf, Advance, Counting, cacheVars
<1>8. ASSUME NEW c \in Conns, Panic(c) PROVE CounterPaid'
  <2>1. c \in Counting /\ Counting' = Counting \ {c}
    BY <1>8 DEF Panic, Return, Counting
  <2> QED
    BY <1>3, <1>8, <2>1 DEF Panic, Return, cacheVars
<1>9. ASSUME NEW c \in Conns, CountToken(c) PROVE CounterPaid'
  <2>1. c \in Counting /\ Counting' = Counting \ {c}
    BY <1>9 DEF CountToken, Advance, Counting
  <2>2. n - 1 \in Nat /\ Cardinality(Counting') = n - 1 /\ IsFiniteSet(Counting')
    BY <1>0, <1>2, <2>1, FS_CardinalityType
  <2>3. tokenCounter + 1 < TokenSpace
    BY <1>0, <2>2 DEF CounterPaid
  <2>4. tokenCounter' = tokenCounter + 1 /\ calls' = calls
    BY <1>0, <1>9, <2>3 DEF CountToken, Advance
  <2> QED
    BY <1>0, <2>2, <2>4 DEF CounterPaid
<1>10. ASSUME NEW c \in Conns, TakeToken(c) \/ StoreToken(c) \/ StoreKey(c)
       PROVE  CounterPaid'
  BY <1>1, <1>10
  DEF TakeToken, StoreToken, StoreKey, Advance, Return, Counting, cacheVars
<1>11. ASSUME NEW c \in Conns, NEW t \in Token, GetRuleConf(c, t)
       PROVE  CounterPaid'
  BY <1>1, <1>11 DEF GetRuleConf, Counting
<1>12. CASE Tick
  BY <1>1, <1>12 DEF Tick, Counting, localVars
<1>13. CASE UNCHANGED vars
  BY <1>1, <1>13 DEF vars, cacheVars, localVars, Counting
<1> QED
  BY <1>4, <1>5, <1>6, <1>7, <1>8, <1>9, <1>10, <1>11, <1>12, <1>13
  DEF Next, SetStep

(* The counter does not wrap: the step that increments it adds one.        *)
LEMMA CountTokenAdds ==
  ASSUME NoWrap, LockInv, CounterPaid, NEW c \in Conns, CountToken(c)
  PROVE  tokenCounter' = tokenCounter + 1 /\ tokenCounter \in Nat
<1>1. c \in Counting
  BY DEF CountToken, Advance, Counting
<1>2. Cardinality(Counting) \in Nat /\ Cardinality(Counting) # 0
  BY <1>1, FS_CardinalityType, FS_EmptySet DEF CounterPaid
<1>3. /\ tokenCounter \in Nat /\ calls \in Nat /\ calls <= MaxPrepares
      /\ MaxPrepares < TokenSpace
      /\ TokenSpace \in Nat /\ MaxPrepares \in Nat
  BY ConstantsAssumption DEF LockInv, TypeOK, Token, NoWrap
<1>4. tokenCounter + 1 < TokenSpace
  BY <1>2, <1>3 DEF CounterPaid
<1> QED
  BY <1>3, <1>4 DEF CountToken

(* Fresh: the counter moves only under the lock, past every token issued.  *)
LEMMA FreshStep ==
  ASSUME NoWrap
  PROVE  LockInv /\ CounterPaid /\ Fresh /\ [Next]_vars => Fresh'
<1> SUFFICES ASSUME LockInv, CounterPaid, Fresh, [Next]_vars PROVE Fresh'
  OBVIOUS
<1>0. TypeOK /\ Exclusion /\ \A r \in Requests : r # NoReq
  BY RequestType DEF LockInv
<1> USE DEF TypeOK, Fresh, Token
<1>1. ASSUME NEW c \in Conns, NEW r \in Requests, PrepareConf(c, r)
      PROVE  Fresh'
  BY <1>0, <1>1 DEF PrepareConf, cacheVars
<1>2. ASSUME NEW c \in Conns, Lock(c) PROVE Fresh'
  BY <1>0, <1>2 DEF Lock, cacheVars
<1>3. ASSUME NEW c \in Conns, KeyHit(c) PROVE Fresh'
  BY <1>0, <1>3 DEF KeyHit, Return
<1>4. ASSUME NEW c \in Conns, KeyMiss(c) PROVE Fresh'
  BY <1>0, <1>4 DEF KeyMiss, Advance, cacheVars
<1>5. ASSUME NEW c \in Conns, ParseConf(c) PROVE Fresh'
  BY <1>0, <1>5 DEF ParseConf, Advance, cacheVars
<1>6. ASSUME NEW c \in Conns, Panic(c) PROVE Fresh'
  BY <1>0, <1>6 DEF Panic, Return, cacheVars
<1>7. ASSUME NEW c \in Conns, CountToken(c) PROVE Fresh'
  <2>1. tokenCounter' = tokenCounter + 1 /\ tokenCounter \in Nat
    BY <1>7, CountTokenAdds
  <2>2. \A t \in Token : issued'[t] # NoReq => t <= tokenCounter'
    BY <1>0, <1>7, <2>1 DEF CountToken
  <2>3. issued'[tokenCounter'] = NoReq
    <3>1. tokenCounter' \in Token /\ ~(tokenCounter' <= tokenCounter)
      BY <1>0, <2>1, TypeStep DEF CountToken
    <3> QED
      BY <1>7, <3>1 DEF CountToken
  <2>4. \A d \in Conns : pc[d] \in Critical => d = c
    BY <1>0, <1>7 DEF Exclusion, CountToken, Advance, Critical
  <2> QED
    BY <1>0, <1>7, <2>2, <2>3, <2>4 DEF CountToken, Advance, Critical
<1>8. ASSUME NEW c \in Conns, TakeToken(c) PROVE Fresh'
  BY <1>0, <1>8 DEF TakeToken, Advance, cacheVars
<1>9. ASSUME NEW c \in Conns, StoreToken(c) PROVE Fresh'
  <2>1. \A d \in Conns : pc[d] \in Critical => d = c
    BY <1>0, <1>9 DEF Exclusion, StoreToken, Advance, Critical
  <2>2. \A t \in Token : issued'[t] # NoReq => t <= tokenCounter'
    BY <1>0, <1>9 DEF StoreToken, Advance
  <2> QED
    BY <1>0, <1>9, <2>1, <2>2 DEF StoreToken, Advance, Critical
<1>10. ASSUME NEW c \in Conns, StoreKey(c) PROVE Fresh'
  BY <1>0, <1>10 DEF StoreKey, Return
<1>11. ASSUME NEW c \in Conns, NEW t \in Token, GetRuleConf(c, t)
       PROVE  Fresh'
  BY <1>0, <1>11 DEF GetRuleConf
<1>12. CASE Tick
  BY <1>0, <1>12 DEF Tick, localVars
<1>13. CASE UNCHANGED vars
  BY <1>0, <1>13 DEF vars, cacheVars, localVars
<1> QED
  BY <1>1, <1>2, <1>3, <1>4, <1>5, <1>6, <1>7, <1>8, <1>9, <1>10, <1>11,
     <1>12, <1>13 DEF Next, SetStep

(* A token once issued keeps its request: issued changes at fresh tokens   *)
(* only.                                                                   *)
LEMMA IssuedGrows ==
  LockInv /\ Fresh /\ [Next]_vars =>
    \A t \in Token : issued[t] # NoReq => issued'[t] = issued[t]
<1> SUFFICES ASSUME LockInv, Fresh, [Next]_vars
             PROVE  \A t \in Token : issued[t] # NoReq => issued'[t] = issued[t]
  OBVIOUS
<1>1. ASSUME issued' = issued
      PROVE  \A t \in Token : issued[t] # NoReq => issued'[t] = issued[t]
  BY <1>1
<1>2. ASSUME NEW c \in Conns, StoreToken(c)
      PROVE  \A t \in Token : issued[t] # NoReq => issued'[t] = issued[t]
  BY <1>2 DEF StoreToken, Advance, Fresh, LockInv, TypeOK
<1> QED
  BY <1>1, <1>2
  DEF Next, SetStep, PrepareConf, Lock, KeyHit, KeyMiss, ParseConf, Panic,
      CountToken, TakeToken, StoreKey, GetRuleConf, Tick, cacheVars, vars

(* TokenBinding: StoreToken binds a fresh token, StoreKey a token that is  *)
(* already bound; the rest copies, touches or ages entries.                *)
LEMMA BindingStep ==
  LockInv /\ Fresh /\ TokenBinding /\ [Next]_vars => TokenBinding'
<1> SUFFICES ASSUME LockInv, Fresh, TokenBinding, [Next]_vars
             PROVE  TokenBinding'
  OBVIOUS
<1> DEFINE
     TokenOK(t) == Live(tokenCache[t]) =>
       issued[t] # NoReq /\ tokenCache[t].conf = Entries(issued[t])
     KeyOK(k) == Live(keyCache[k]) =>
       issued[keyCache[k].token] # NoReq /\ issued[keyCache[k].token].key = k
<1>1. /\ TypeOK /\ Exclusion
      /\ \A t \in Token : TokenOK(t)
      /\ \A k \in Keys \cup {NoKey} : KeyOK(k)
      /\ \A t \in Token : issued[t] # NoReq => issued'[t] = issued[t]
  BY IssuedGrows DEF LockInv, TokenBinding
<1>2. ASSUME tokenCache' = tokenCache PROVE \A t \in Token : TokenOK(t)'
  BY <1>1, <1>2
<1>3. ASSUME keyCache' = keyCache PROVE \A k \in Keys \cup {NoKey} : KeyOK(k)'
  BY <1>1, <1>3 DEF TypeOK
<1>4. ASSUME NEW c \in Conns, KeyHit(c)
      PROVE  \A k \in Keys \cup {NoKey} : KeyOK(k)'
  <2>1. \A k \in Keys \cup {NoKey} : /\ keyCache'[k].token = keyCache[k].token
                                     /\ Live(keyCache'[k]) => Live(keyCache[k])
    BY <1>1, <1>4, AgeType DEF KeyHit, TypeOK
  <2> QED
    BY <1>1, <2>1 DEF TypeOK
<1>5. ASSUME NEW c \in Conns, StoreToken(c) PROVE \A t \in Token : TokenOK(t)'
  <2>1. req[c] \in Requests /\ req[c] # NoReq /\ entries[c] = Entries(req[c])
    BY <1>1, <1>5, RequestType DEF StoreToken, Advance, Exclusion, Fresh
  <2>2. ASSUME NEW t \in Token, t = token[c] PROVE TokenOK(t)'
    BY <1>1, <1>5, <2>1, <2>2 DEF StoreToken, TypeOK
  <2>3. ASSUME NEW t \in Token, t # token[c] PROVE TokenOK(t)'
    BY <1>1, <1>5, <2>3 DEF StoreToken, TypeOK
  <2> QED
    BY <2>2, <2>3
<1>6. ASSUME NEW c \in Conns, StoreKey(c)
      PROVE  \A k \in Keys \cup {NoKey} : KeyOK(k)'
  <2>1. req[c] \in Requests /\ req[c] # NoReq /\ issued[token[c]] = req[c]
    BY <1>1, <1>6, RequestType DEF StoreKey, Exclusion, Fresh
  <2>2. ASSUME NEW k \in Keys \cup {NoKey}, k = req[c].key PROVE KeyOK(k)'
    BY <1>1, <1>6, <2>1, <2>2 DEF StoreKey, TypeOK
  <2>3. ASSUME NEW k \in Keys \cup {NoKey}, k # req[c].key PROVE KeyOK(k)'
    BY <1>1, <1>6, <2>3 DEF StoreKey, TypeOK
  <2> QED
    BY <2>2, <2>3
<1>7. ASSUME NEW c \in Conns, NEW t \in Token, GetRuleConf(c, t)
      PROVE  \A u \in Token : TokenOK(u)'
  <2>1. \A u \in Token : /\ tokenCache'[u].conf = tokenCache[u].conf
                         /\ Live(tokenCache'[u]) => Live(tokenCache[u])
    BY <1>1, <1>7, AgeType DEF GetRuleConf, TypeOK
  <2> QED
    BY <1>1, <2>1
<1>8. ASSUME Tick
      PROVE  /\ \A t \in Token : TokenOK(t)'
             /\ \A k \in Keys \cup {NoKey} : KeyOK(k)'
  <2>1. ASSUME NEW t \in Token PROVE TokenOK(t)'
    BY <1>1, <1>8, AgeType DEF Tick, TypeOK
  <2>2. ASSUME NEW k \in Keys \cup {NoKey} PROVE KeyOK(k)'
    BY <1>1, <1>8, AgeType DEF Tick, TypeOK
  <2> QED
    BY <2>1, <2>2
<1>9. (\A t \in Token : TokenOK(t)') /\ (\A k \in Keys \cup {NoKey} : KeyOK(k)')
  <2> HIDE DEF TokenOK, KeyOK
  <2> QED
    BY <1>2, <1>3, <1>4, <1>5, <1>6, <1>7, <1>8
    DEF Next, SetStep, PrepareConf, Lock, KeyHit, KeyMiss, ParseConf, Panic,
        CountToken, TakeToken, StoreToken, StoreKey, GetRuleConf, cacheVars, vars
<1> QED
  BY <1>9 DEF TokenBinding

(* AnswerIsOwn: an answer is made of cache entries that are bound, and     *)
(* stays right because issued tokens keep their request.                   *)
LEMMA AnswerStep ==
  LockInv /\ Fresh /\ TokenBinding /\ AnswerIsOwn /\ [Next]_vars => AnswerIsOwn'
<1> SUFFICES ASSUME LockInv, Fresh, TokenBinding, AnswerIsOwn, [Next]_vars
             PROVE  AnswerIsOwn'
  OBVIOUS
<1> DEFINE
     Own(c) ==
       /\ ret[c].kind = "token" =>
            /\ issued[ret[c].token] # NoReq
            /\ issued[ret[c].token].key = req[c].key
            /\ req[c].key = NoKey => issued[ret[c].token] = req[c]
       /\ ret[c].kind = "conf" =>
            /\ issued[ret[c].token] # NoReq
            /\ ret[c].conf = Entries(issued[ret[c].token])
<1>1. /\ TypeOK /\ Exclusion
      /\ \A d \in Conns : Own(d)
      /\ \A t \in Token : issued[t] # NoReq => issued'[t] = issued[t]
      /\ \A d \in Conns : ret[d].kind \in {"token", "conf"} => ret[d].token \in Token
  BY IssuedGrows DEF LockInv, AnswerIsOwn, TypeOK, Result
<1>2. ASSUME NEW d \in Conns, ret'[d] = ret[d], req'[d] = req[d] PROVE Own(d)'
  BY <1>1, <1>2
<1>3. ASSUME NEW d \in Conns, ret'[d].kind \notin {"token", "conf"} PROVE Own(d)'
  BY <1>3
<1>4. ASSUME NEW c \in Conns, KeyHit(c) PROVE Own(c)'
  <2>1. req[c] \in Requests /\ req[c].key \in Keys \cup {NoKey} /\ req' = req
    BY <1>1, <1>4, RequestType DEF KeyHit, Return, Exclusion
  <2>2. ret'[c] = [kind |-> "token", token |-> keyCache[req[c].key].token]
    BY <1>1, <1>4 DEF KeyHit, Return, TypeOK
  <2>3. /\ issued[keyCache[req[c].key].token] # NoReq
        /\ issued[keyCache[req[c].key].token].key = req[c].key
        /\ req[c].key # NoKey
        /\ issued' = issued
    BY <1>4, <2>1 DEF KeyHit, TokenBinding
  <2> QED
    BY <2>1, <2>2, <2>3
<1>5. ASSUME NEW c \in Conns, StoreKey(c) PROVE Own(c)'
  <2>1. req[c] \in Requests /\ req[c] # NoReq /\ issued[token[c]] = req[c]
    BY <1>1, <1>5, RequestType DEF StoreKey, Exclusion, Fresh
  <2>2. /\ ret'[c] = [kind |-> "token", token |-> token[c]]
        /\ issued' = issued /\ req' = req
    BY <1>1, <1>5 DEF StoreKey, Return, TypeOK
  <2> QED
    BY <2>1, <2>2
<1>6. ASSUME NEW c \in Conns, NEW t \in Token, GetRuleConf(c, t) PROVE Own(c)'
  <2>1. CASE Live(tokenCache[t])
    <3>1. /\ ret'[c] = [kind |-> "conf", token |-> t, conf |-> tokenCache[t].conf]
          /\ issued' = issued
      BY <1>1, <1>6, <2>1 DEF GetRuleConf, TypeOK
    <3> QED
      BY <2>1, <3>1 DEF TokenBinding
  <2>2. CASE ~Live(tokenCache[t])
    BY <1>1, <1>3, <1>6, <2>2 DEF GetRuleConf, TypeOK
  <2> QED
    BY <2>1, <2>2
<1>7. ASSUME NEW c \in Conns, Panic(c) \/ \E r \in Requests : PrepareConf(c, r)
      PROVE  Own(c)'
  BY <1>1, <1>3, <1>7 DEF Panic, PrepareConf, Return, TypeOK
<1>8. ASSUME NEW c \in Conns, NEW d \in Conns, c # d,
             \/ \E r \in Requests : PrepareConf(c, r)
             \/ KeyHit(c) \/ Panic(c) \/ StoreKey(c)
             \/ \E t \in Token : GetRuleConf(c, t)
      PROVE  Own(d)'
  BY <1>1, <1>2, <1>8
  DEF PrepareConf, KeyHit, Panic, StoreKey, GetRuleConf, Return, TypeOK
<1>9. ASSUME ret' = ret, req' = req, NEW d \in Conns PROVE Own(d)'
  BY <1>2, <1>9
<1>10. \A d \in Conns : Own(d)'
  <2> HIDE DEF Own
  <2> QED
    BY <1>4, <1>5, <1>6, <1>7, <1>8, <1>9
    DEF Next, SetStep, Lock, KeyMiss, ParseConf, CountToken, TakeToken,
        StoreToken, Tick, Advance, localVars, vars
<1> QED
  BY <1>10 DEF AnswerIsOwn

-----------------------------------------------------------------------------
(* BindInv holds when a process starts ...                                 *)
LEMMA StartBinds == Start /\ calls \in 0 .. MaxPrepares => BindInv
<1> SUFFICES ASSUME Start, calls \in 0 .. MaxPrepares PROVE BindInv
  OBVIOUS
<1>1. CounterPaid
  <2>1. Counting = {}
    BY DEF Start, Counting
  <2> QED
    BY <2>1, FS_EmptySet, ConstantsAssumption DEF Start, newConfCache, CounterPaid
<1>2. Fresh /\ TokenBinding /\ AnswerIsOwn
  BY DEF Start, newConfCache, Fresh, TokenBinding, AnswerIsOwn, Live,
         NoTokenEntry, NoKeyEntry
<1> QED
  BY <1>1, <1>2, StartLocks DEF BindInv

(* ... is kept by every step ...                                           *)
LEMMA BindStep ==
  ASSUME NoWrap
  PROVE  BindInv /\ [Next]_vars => BindInv'
BY LockInvStep, CounterStep, FreshStep, BindingStep, AnswerStep DEF BindInv

(* ... and so holds in every state.                                        *)
LEMMA BindInvariant ==
  ASSUME NoWrap
  PROVE  Spec => []BindInv
BY InitStarts, StartBinds, BindStep, PTL DEF Spec

(* A live token resolves to the configuration of the request it was issued *)
(* for, and a live key to a token issued for it, in every state reached    *)
(* before the token counter wraps (ConfCache.Set, ConfCache.Get).          *)
THEOREM TokensBound == NoWrap => (Spec => []TokenBinding)
<1> SUFFICES ASSUME NoWrap PROVE Spec => []TokenBinding
  OBVIOUS
<1>1. BindInv => TokenBinding
  BY DEF BindInv
<1> QED
  BY <1>1, BindInvariant, PTL

(* PrepareConf and GetRuleConf answer every caller with its own token and  *)
(* configuration, in every state reached before the counter wraps.         *)
THEOREM AnswersOwn == NoWrap => (Spec => []AnswerIsOwn)
<1> SUFFICES ASSUME NoWrap PROVE Spec => []AnswerIsOwn
  OBVIOUS
<1>1. BindInv => AnswerIsOwn
  BY DEF BindInv
<1> QED
  BY <1>1, BindInvariant, PTL
=============================================================================
