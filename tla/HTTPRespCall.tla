----------------------------- MODULE HTTPRespCall -----------------------------
(***************************************************************************)
(* The response phase: HTTPRespCall runs the plugins of a rule on a        *)
(* Response taken from respPool, which all connections share, sends what   *)
(* they changed and puts the Response back.  A plugin is any sequence of   *)
(* the operations of pkg/http.Response, its headers (Header) included; the *)
(* sample plugin response-rewrite is one of them.  Beside the Response the *)
(* same operations are done on a httptest.ResponseRecorder, the stand-in   *)
(* plugins are tested with: what it records is what the plugins wanted.    *)
(***************************************************************************)
EXTENDS Header, Integers, FiniteSetsExt

CONSTANTS
  Conns,     \* connections, one goroutine each
  Ids,       \* responses under way in APISIX
  Resps,     \* Response objects
  Nil,
  Chain,     \* the rule: TRUE for a plugin findPlugin finds
  MaxRaw,    \* values of one name that APISIX sends, at most
  MaxOps     \* bound: operations of the plugins of the calls under way

\* The header tables APISIX may send.
Tables == [Names -> UNION {[1 .. k -> Values] : k \in 0 .. MaxRaw}]

\* A call of APISIX, and what it or a plugin says of response m: "status", "var"
\* and "body" are what APISIX knows of it; "new" is a body a plugin writes,
\* "empty" one of length zero.
Call == [id : Ids, hdr : Tables]
Info == [from : Ids, val : {"status", "var", "body", "new", "empty"}]
Value(m, v) == [from |-> m, val |-> v]

ASSUME RespAssumption ==
  /\ Chain \in Seq(BOOLEAN)
  /\ MaxRaw \in Nat /\ MaxOps \in Nat
  /\ Nil \notin Conns \cup Resps
  /\ Nil \notin Call /\ Nil \notin Info /\ Nil \notin HeaderRecord

NewResponse ==
  [r |-> Nil, conn |-> Nil, hdr |-> Nil, statusCode |-> 0, body |-> Nil,
   vars |-> Nil, originBody |-> Nil]

VARIABLES
  pc, call,     \* per connection: next step, the response it is called for
  next, ops,    \* index of the next plugin, operations of its plugins so far
  resp,         \* the Response its handler holds
  response,     \* the Response objects
  respPool,
  got,          \* what a plugin was told last, and what is true
  rec,          \* the recorder given the same operations
  wrote,        \* history: did a plugin write, did another one run after it
  reply         \* the reply built

handler == <<call, next, resp>>
history == <<rec, wrote>>
vars == <<pc, handler, ops, response, respPool, got, history, reply>>

NoGot == [told |-> Nil, truth |-> Nil]
NoReply == [kind |-> "none"]
NoRec == [id |-> Nil, HeaderMap |-> NoValues, statusCode |-> 0, Body |-> Nil]

Init ==
  /\ pc = [c \in Conns |-> "idle"]
  /\ call = [c \in Conns |-> Nil]
  /\ next = [c \in Conns |-> 1]
  /\ ops = [c \in Conns |-> 0]
  /\ resp = [c \in Conns |-> Nil]
  /\ response = [o \in Resps |-> NewResponse]
  /\ respPool = {}
  /\ got = [c \in Conns |-> NoGot]
  /\ rec = [c \in Conns |-> NoRec]
  /\ wrote = [c \in Conns |-> "no"]
  /\ reply = [c \in Conns |-> NoReply]

Goto(c, step) == pc' = [pc EXCEPT ![c] = step]

Response(c) == response[resp[c]]

-----------------------------------------------------------------------------
(***************************************************************************)
(* httptest.ResponseRecorder.  A test sets Code, HeaderMap, Vars and       *)
(* OriginBody to what it pretends APISIX knows; HeaderMap is a plain       *)
(* http.Header.                                                            *)
(***************************************************************************)
NewRecorder(m, sent) == [NoRec EXCEPT !.id = m, !.HeaderMap = sent]

RecGet(w, key)     == First(w.HeaderMap[key.name])
RecSet(w, key, v)  == [w EXCEPT !.HeaderMap[key.name] = <<v>>]
RecDel(w, key)     == [w EXCEPT !.HeaderMap[key.name] = <<>>]
RecVar(w)          == Value(w.id, "var")
RecReadBody(w)     == Value(w.id, "body")

RecStatusCode(w) ==
  IF w.statusCode = 0 THEN Value(w.id, "status") ELSE w.statusCode

RecWriteHeader(w, code) ==
  IF w.statusCode # 0 THEN w ELSE [w EXCEPT !.statusCode = code]

RecWrite(w, b) == IF b = "new" THEN [w EXCEPT !.Body = Value(w.id, b)] ELSE w

-----------------------------------------------------------------------------
\* CreateResponse and BindConn, with an object of the pool or a new one.
CreateResponse(c, m) ==
  /\ pc[c] = "idle"
  /\ \A d \in Conns : call[d] # Nil => call[d].id # m
  /\ \E o \in respPool \cup (Resps \ {resp[d] : d \in Conns}), sent \in Tables :
       /\ resp' = [resp EXCEPT ![c] = o]
       /\ respPool' = respPool \ {o}
       /\ call' = [call EXCEPT ![c] = [id |-> m, hdr |-> sent]]
       /\ response' = [response EXCEPT ![o].r = call'[c], ![o].conn = c]
       /\ rec' = [rec EXCEPT ![c] = NewRecorder(m, sent)]
  /\ Goto(c, "conf")
  /\ UNCHANGED <<next, ops, got, wrote, reply>>

\* The bytes of a call cannot be decoded: CreateResponse panics after it took
\* an object out of the pool, which is lost.
CreatePanics(c) ==
  /\ pc[c] = "idle"
  /\ \E o \in respPool :
       /\ respPool' = respPool \ {o}
       /\ response' = [response EXCEPT ![o] = NewResponse]
  /\ UNCHANGED <<pc, handler, ops, got, history, reply>>

\* GetRuleConf: the chain runs, or ErrNotFound is returned; or ConfToken panics
\* on a call whose bytes CreateResponse could still read.
GetRuleConf(c) ==
  /\ pc[c] = "conf"
  /\ \/ Goto(c, "chain") /\ UNCHANGED reply
     \/ \E kind \in {"error", "panic"} :
          /\ Goto(c, "reuse")
          /\ reply' = [reply EXCEPT ![c] = [kind |-> kind]]
  /\ UNCHANGED <<handler, ops, response, respPool, got, history>>

-----------------------------------------------------------------------------
(* responsePhase.filter                                                    *)

\* Mutant: only a status or a body is a change.
HasChangeWritten(o) == o.body # Nil \/ o.statusCode # 0

\* A header that was only looked at is a change, too.
HasChange(o) == o.body # Nil \/ o.hdr # Nil \/ o.statusCode # 0

RunPlugin(c) ==
  /\ pc[c] = "chain" /\ next[c] \in DOMAIN Chain
  /\ next' = [next EXCEPT ![c] = @ + 1]
  /\ IF Chain[next[c]]
       THEN /\ Goto(c, "plugin")
            /\ wrote' = [wrote EXCEPT ![c] = IF @ = "no" THEN @ ELSE "after"]
       ELSE UNCHANGED <<pc, wrote>>
  /\ UNCHANGED <<call, resp, ops, response, respPool, got, rec, reply>>

PluginReturns(c) ==
  /\ pc[c] = "plugin"
  /\ Goto(c, IF HasChange(Response(c)) THEN "build" ELSE "chain")
  /\ got' = [got EXCEPT ![c] = NoGot]
  /\ UNCHANGED <<handler, ops, response, respPool, history, reply>>

\* A plugin panics; the deferred ReuseResponse runs, the connection is closed.
PluginPanics(c) ==
  /\ pc[c] = "plugin"
  /\ Goto(c, "reuse")
  /\ reply' = [reply EXCEPT ![c] = [kind |-> "panic"]]
  /\ got' = [got EXCEPT ![c] = NoGot]
  /\ UNCHANGED <<handler, ops, response, respPool, history>>

ChainEnds(c) ==
  /\ pc[c] = "chain" /\ next[c] \notin DOMAIN Chain
  /\ Goto(c, "build")
  /\ UNCHANGED <<handler, ops, response, respPool, got, history, reply>>

-----------------------------------------------------------------------------
(* What a plugin may do with its Response.                                 *)

\* n operations on the Response, nobody else's business in between.
Operations(c, n) ==
  /\ pc[c] = "plugin"
  /\ MapThenSumSet(LAMBDA d : ops[d], Conns) + n <= MaxOps
  /\ ops' = [ops EXCEPT ![c] = @ + n]
  /\ UNCHANGED <<pc, handler, respPool, reply>>

\* The plugin is told v where the recorder would tell it truth.
Reads(c, o, v, truth) ==
  /\ Operations(c, 1)
  /\ response' = [response EXCEPT ![resp[c]] = o]
  /\ got' = [got EXCEPT ![c] = [told |-> v, truth |-> truth]]
  /\ UNCHANGED history

\* The plugin writes: o is the Response and w the recorder then.
Writes(c, n, o, w) ==
  /\ Operations(c, n)
  /\ response' = [response EXCEPT ![resp[c]] = o]
  /\ rec' = [rec EXCEPT ![c] = w]
  /\ wrote' = [wrote EXCEPT ![c] = IF @ = "no" THEN "yes" ELSE @]
  /\ UNCHANGED got

\* Header() decodes the headers on first use.
WithHeader(o) ==
  [o EXCEPT !.hdr = IF @ = Nil THEN newHeader(o.r.hdr) ELSE @]

WithSet(o, key, v) == [WithHeader(o) EXCEPT !.hdr = Set(@, key, v)]

\* The first WriteHeader wins.
WithStatus(o, code) == [o EXCEPT !.statusCode = IF @ # 0 THEN @ ELSE code]

\* Write appends.  It may be given no bytes: the buffer is there, and empty.
WithBody(o, b) ==
  [o EXCEPT !.body = IF @ # Nil /\ (b = "empty" \/ @.val = "new") THEN @
                     ELSE Value(o.r.id, b)]

\* askExtraInfo: the answer is about the response APISIX handles on the
\* connection.  The frames that carry question and answer are in HandleConn.
AskExtraInfo(conn, v) == Value(call[conn].id, v)

\* Var and ReadBody look into the Response first.  When APISIX does not answer,
\* they return ErrConnClosed and assign nothing.
WithVar(o) ==
  [o EXCEPT !.vars = IF @ # Nil THEN @ ELSE AskExtraInfo(o.conn, "var")]

WithOriginBody(o) ==
  [o EXCEPT !.originBody = IF @ # Nil THEN @ ELSE AskExtraInfo(o.conn, "body")]

HeaderGet(c, key) ==
  LET o == WithHeader(Response(c)) IN
  Reads(c, o, Get(o.hdr, key), RecGet(rec[c], key))

StatusCode(c) ==
  LET o == Response(c) IN
  Reads(c, o,
        IF o.statusCode = 0 THEN Value(o.r.id, "status") ELSE o.statusCode,
        RecStatusCode(rec[c]))

Var(c) ==
  LET o == WithVar(Response(c)) IN Reads(c, o, o.vars, RecVar(rec[c]))

ReadBody(c) ==
  LET o == WithOriginBody(Response(c)) IN
  Reads(c, o, o.originBody, RecReadBody(rec[c]))

HeaderSet(c, key, v) ==
  Writes(c, 1, WithSet(Response(c), key, v), RecSet(rec[c], key, v))

HeaderDel(c, key) ==
  Writes(c, 1, [WithHeader(Response(c)) EXCEPT !.hdr = Del(@, key)],
         RecDel(rec[c], key))

WriteHeader(c, code) ==
  Writes(c, 1, WithStatus(Response(c), code), RecWriteHeader(rec[c], code))

Write(c, b) == Writes(c, 1, WithBody(Response(c), b), RecWrite(rec[c], b))

(***************************************************************************)
(* ResponseRewrite.ResponseFilter: the status is 200 if one is configured, *)
(* a header is set (each configured one like the fixed one), and a body is *)
(* written: the configured one, or what the filters make of the origin     *)
(* body if one of them matches, or none.                                   *)
(***************************************************************************)
RewriteConf ==
  [status : BOOLEAN, filters : {"none"}, body : {Nil, "new"}]
    \cup [status : BOOLEAN, filters : {"match"}, body : {"new", "empty"}]
    \cup [status : BOOLEAN, filters : {"noMatch", "error"}, body : {Nil}]

ResponseRewrite(c, cfg, key, v) ==
  LET o1 == IF cfg.status THEN WithStatus(Response(c), 200) ELSE Response(c)
      w1 == IF cfg.status THEN RecWriteHeader(rec[c], 200) ELSE rec[c]
      o2 == WithSet(o1, key, v)
      o3 == IF cfg.filters \in {"match", "noMatch"} THEN WithOriginBody(o2)
            ELSE o2
      w3 == RecSet(w1, key, v) IN
  IF cfg.body = Nil THEN Writes(c, 2, o3, w3)
  ELSE Writes(c, 2, WithBody(o3, cfg.body), RecWrite(w3, cfg.body))

-----------------------------------------------------------------------------
\* responsePhase.builder and FetchChanges: an empty body is not sent.
FetchChanges(o) ==
  [kind |-> "reply", id |-> o.r.id, statusCode |-> o.statusCode,
   hdr |-> IF o.hdr = Nil THEN <<{}, {}>> ELSE HeaderBuild(o.hdr),
   body |-> IF o.body # Nil /\ o.body.val = "empty" THEN Nil ELSE o.body]

BuildReply(c) ==
  /\ pc[c] = "build"
  /\ reply' = [reply EXCEPT ![c] = FetchChanges(Response(c))]
  /\ Goto(c, "reuse")
  /\ UNCHANGED <<handler, ops, response, respPool, got, history>>

\* Mutant: Reset leaves the status of the last response.
ResetKeepsStatus(o) ==
  [NewResponse EXCEPT !.r = o.r, !.statusCode = o.statusCode]

\* Mutant: Reset leaves the body read for the last response.
ResetKeepsOrigin(o) ==
  [NewResponse EXCEPT !.r = o.r, !.originBody = o.originBody]

\* Reset keeps r.
Reset(o) == [NewResponse EXCEPT !.r = o.r]

\* Mutant: the variable is cleared before the object is put back.
PutCleared(c) == respPool' = respPool \cup {resp'[c]}

Put(c) == respPool' = respPool \cup {resp[c]}

\* The deferred call, and the handler returns: its locals are gone.
ReuseResponse(c) ==
  /\ pc[c] = "reuse"
  /\ response' = [response EXCEPT ![resp[c]] = Reset(@)]
  /\ resp' = [resp EXCEPT ![c] = Nil]
  /\ Put(c)
  /\ call' = [call EXCEPT ![c] = Nil]
  /\ next' = [next EXCEPT ![c] = 1]
  /\ ops' = [ops EXCEPT ![c] = 0]
  /\ rec' = [rec EXCEPT ![c] = NoRec]
  /\ wrote' = [wrote EXCEPT ![c] = "no"]
  /\ reply' = [reply EXCEPT ![c] = NoReply]
  /\ Goto(c, "idle")
  /\ UNCHANGED got

Plugin(c) ==
  \/ \E key \in Key :
       \/ HeaderGet(c, key) \/ HeaderDel(c, key)
       \/ \E v \in Values :
            \/ HeaderSet(c, key, v)
            \/ /\ key.spelling = "canonical"
               /\ \E cfg \in RewriteConf : ResponseRewrite(c, cfg, key, v)
  \/ StatusCode(c) \/ Var(c) \/ ReadBody(c)
  \/ \E code \in {302, 502} : WriteHeader(c, code)
  \/ \E b \in {"new", "empty"} : Write(c, b)

Next ==
  \E c \in Conns :
    \/ \E m \in Ids : CreateResponse(c, m)
    \/ CreatePanics(c) \/ GetRuleConf(c)
    \/ RunPlugin(c) \/ Plugin(c) \/ PluginReturns(c) \/ PluginPanics(c)
    \/ ChainEnds(c) \/ BuildReply(c) \/ ReuseResponse(c)

Spec == Init /\ [][Next]_vars

-----------------------------------------------------------------------------
ResponseRecord ==
  [r : Call \cup {Nil}, conn : Conns \cup {Nil}, hdr : HeaderRecord \cup {Nil},
   statusCode : Nat, body : Info \cup {Nil}, vars : Info \cup {Nil},
   originBody : Info \cup {Nil}]

RecorderRecord ==
  [id : Ids \cup {Nil}, HeaderMap : Table, statusCode : Nat,
   Body : Info \cup {Nil}]

(* Type correctness of the handlers, of the objects and of the pool.       *)
TypeOK ==
  /\ pc \in [Conns -> {"idle", "conf", "chain", "plugin", "build", "reuse"}]
  /\ next \in [Conns -> 1 .. Len(Chain) + 1]
  /\ ops \in [Conns -> Nat]
  /\ call \in [Conns -> Call \cup {Nil}]
  /\ resp \in [Conns -> Resps \cup {Nil}]
  /\ respPool \subseteq Resps
  /\ response \in [Resps -> ResponseRecord]
  /\ rec \in [Conns -> RecorderRecord]
  /\ wrote \in [Conns -> {"no", "yes", "after"}]
  /\ DOMAIN got = Conns /\ DOMAIN reply = Conns

Replied(c) == pc[c] = "reuse" /\ reply[c].kind = "reply"

(***************************************************************************)
(* The reply carries the id of its call, the first status and the body the *)
(* plugins of this call wrote, and nothing of another call that used the   *)
(* same Response (Reset, FetchChanges, responsePhase.builder).             *)
(***************************************************************************)
RespIsIntent ==
  \A c \in Conns :
    Replied(c) =>
      /\ reply[c].id = call[c].id
      /\ reply[c].statusCode = rec[c].statusCode
      /\ reply[c].body = rec[c].Body

\* The headers of the response once APISIX has applied the reply.
Effect(c) == Apply(call[c].hdr, reply[c].hdr)

(***************************************************************************)
(* A header that plugins set ends up with the value set last, whatever was *)
(* deleted before and under whatever spelling; one that was not touched    *)
(* keeps its values; one deleted last is gone or, when it was deleted, set *)
(* and deleted again, is what APISIX had, never a value that was set in    *)
(* between (Set, Del, HeaderBuild).                                        *)
(***************************************************************************)
SetArrives ==
  \A c \in Conns : Replied(c) =>
    \A n \in Names :
      \/ Effect(c)[n] = rec[c].HeaderMap[n]
      \/ rec[c].HeaderMap[n] = <<>> /\ Effect(c)[n] = call[c].hdr[n]

(***************************************************************************)
(* What a plugin is told is what the recorder of its own response would    *)
(* tell it: Get and StatusCode reflect what plugins wrote before, Var and  *)
(* ReadBody are APISIX's answer for this response, also when the Response  *)
(* was used before.  So a test with the recorder sees what APISIX will.    *)
(***************************************************************************)
RespInfoIsOwn == \A c \in Conns : got[c].told = got[c].truth

(***************************************************************************)
(* No plugin runs after one has written to the response (the comment of    *)
(* ResponseFilter in pkg/plugin, and responsePhase.filter).                *)
(***************************************************************************)
RespChainStops == \A c \in Conns : wrote[c] # "after"

(***************************************************************************)
(* The chain is cut short only because a response is generated (the        *)
(* comment in responsePhase.filter): a plugin that reads does not keep the *)
(* plugins after it from running.                                          *)
(***************************************************************************)
ChainCutByWrite ==
  \A c \in Conns :
    Replied(c) /\ wrote[c] = "no" =>
      \A i \in next[c] .. Len(Chain) : ~Chain[i]
=============================================================================
