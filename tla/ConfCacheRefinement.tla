------------------------- MODULE ConfCacheRefinement -------------------------
(***************************************************************************)
(* ConfCache implements ConfStore.  A PrepareConf call that issues a token *)
(* takes effect when the token is stored (StoreToken): from then on the    *)
(* abstract caller has its answer and the abstract key is bound, although  *)
(* the code binds the key one statement later, still under the lock.       *)
(***************************************************************************)
EXTENDS ConfCache

CONSTANT NoToken

ASSUME NoTokenAssumption == NoToken \notin Token

pendingBar ==
  [c \in Conns |-> IF pc[c] \in {"idle", "storeKey"} THEN NoReq ELSE req[c]]

replyBar ==
  [c \in Conns |-> IF pc[c] = "storeKey"
                   THEN [kind |-> "token", token |-> token[c]]
                   ELSE ret[c]]

liveBar == {t \in Token : Live(tokenCache[t])}

\* The goroutines about to bind key k.
Binding(k) == {c \in Conns : pc[c] = "storeKey" /\ req[c].key = k}

boundBar ==
  [k \in Keys |->
     IF Binding(k) # {} THEN token[CHOOSE c \in Binding(k) : TRUE]
     ELSE IF Live(keyCache[k]) THEN keyCache[k].token
     ELSE NoToken]

Store == INSTANCE ConfStore WITH
  Parse <- Entries,
  Unusable <- LAMBDA r : ~r.wellFormed \/ ParsePanics(r),
  pending <- pendingBar, reply <- replyBar, grant <- issued,
  live <- liveBar, bound <- boundBar

(***************************************************************************)
(* ConfCache.Set and ConfCache.Get behave as the atomic operations of      *)
(* ConfStore: no interleaving of Set's statements with other calls or with *)
(* the expiry of entries is visible to a caller.                           *)
(***************************************************************************)
ImplementsConfStore == Store!Spec
=============================================================================
