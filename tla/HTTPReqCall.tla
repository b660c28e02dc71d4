----------------------------- MODULE HTTPReqCall -----------------------------
(***************************************************************************)
(* The request phase: HTTPReqCall runs the plugins of a rule on a Request  *)
(* and a ReqResponse taken from the pools reqPool and reqRespPool that all *)
(* connections share, turns what they did into the reply and puts both     *)
(* objects back.  A plugin is any sequence of the operations the interface *)
(* pkg/http.Request and http.ResponseWriter offer it, the sample plugins   *)
(* among them.                                                             *)
(***************************************************************************)
EXTENDS Integers, Sequences, FiniteSetsExt

CONSTANTS
  Conns,     \* connections, one goroutine each
  Calls,     \* HTTP requests under way in APISIX, by id
  Reqs,      \* Request objects
  Resps,     \* ReqResponse objects
  Nil,
  Chain,     \* the rule: TRUE for a plugin findPlugin finds
  Parts,     \* the parts of a request that plugins touch, out of AllParts
  MaxOps     \* bound: operations of the plugins of the calls under way

AllParts == {"path", "hdr", "args", "respHdr", "body"}

(***************************************************************************)
(* A value knows the call it is from.  "orig" is what APISIX sent, "new"   *)
(* what a plugin wrote, "empty" a body of length zero.                     *)
(***************************************************************************)
Info == [from : Calls, val : {"orig", "new", "empty"}]
Value(m, v) == [from |-> m, val |-> v]

ASSUME CallAssumption ==
  /\ Chain \in Seq(BOOLEAN)
  /\ Parts \subseteq AllParts
  /\ MaxOps \in Nat
  /\ Nil \notin Calls \cup Conns \cup Reqs \cup Resps
  /\ Nil \notin Info

NewRequest ==
  [r |-> Nil, conn |-> Nil, path |-> Nil, hdr |-> Nil, args |-> Nil,
   rawArgs |-> Nil, vars |-> Nil, body |-> Nil, respHdr |-> Nil,
   cancel |-> Nil]

NewReqResponse == [hdr |-> Nil, body |-> Nil, code |-> 0]

VARIABLES
  pc, call,        \* per connection: next step and the call it serves
  next,            \* index of the next plugin in the chain
  ops,             \* operations of its plugins so far
  req, resp,       \* the objects its handler holds
  request,         \* the Request objects
  response,        \* the ReqResponse objects
  reqPool, reqRespPool,
  contexts,        \* the calls whose context is not done
  expired,         \* the calls whose context reached its deadline
  got,             \* the last Var or Body the plugin got
  intent,          \* history: what the plugins wanted
  reply            \* the reply built

handler == <<call, next, req, resp>>
objects == <<request, response>>
pools   == <<reqPool, reqRespPool>>
timers  == <<contexts, expired>>
vars    == <<pc, handler, ops, objects, pools, timers, got, intent, reply>>

NoIntent ==
  [path |-> "orig", hdr |-> "orig", args |-> "orig", respHdr |-> "orig",
   body |-> "orig", code |-> 0, stopped |-> FALSE, after |-> FALSE]

NoReply == [kind |-> "none"]

Init ==
  /\ pc = [c \in Conns |-> "idle"]
  /\ call = [c \in Conns |-> Nil]
  /\ next = [c \in Conns |-> 1]
  /\ ops = [c \in Conns |-> 0]
  /\ req = [c \in Conns |-> Nil]
  /\ resp = [c \in Conns |-> Nil]
  /\ request = [o \in Reqs |-> NewRequest]
  /\ response = [w \in Resps |-> NewReqResponse]
  /\ reqPool = {}
  /\ reqRespPool = {}
  /\ contexts = {}
  /\ expired = {}
  /\ got = [c \in Conns |-> Nil]
  /\ intent = [c \in Conns |-> NoIntent]
  /\ reply = [c \in Conns |-> NoReply]

Goto(c, step) == pc' = [pc EXCEPT ![c] = step]

\* An object of the pool, or one that New makes.
Gettable(pool, all, held) == pool \cup (all \ {held[c] : c \in Conns})

-----------------------------------------------------------------------------
\* CreateRequest and BindConn.  A reused object keeps every field that neither
\* Reset nor these two assign.
CreateRequest(c, m) ==
  /\ pc[c] = "idle"
  /\ \A d \in Conns : call[d] # m
  /\ \E o \in Gettable(reqPool, Reqs, req) :
       /\ req' = [req EXCEPT ![c] = o]
       /\ reqPool' = reqPool \ {o}
       /\ request' = [request EXCEPT
            ![o] = [@ EXCEPT !.r = m, !.cancel = m, !.conn = c]]
  /\ contexts' = contexts \cup {m}
  /\ call' = [call EXCEPT ![c] = m]
  /\ Goto(c, "resp")
  /\ UNCHANGED <<next, resp, ops, response, reqRespPool, expired, got, intent,
                 reply>>

\* The bytes of a call cannot be decoded: CreateRequest panics after it took an
\* object out of the pool, which is lost.
CreatePanics(c) ==
  /\ pc[c] = "idle"
  /\ \E o \in reqPool :
       /\ reqPool' = reqPool \ {o}
       /\ request' = [request EXCEPT ![o] = NewRequest]
  /\ UNCHANGED <<pc, handler, ops, response, reqRespPool, timers, got, intent,
                 reply>>

CreateReqResponse(c) ==
  /\ pc[c] = "resp"
  /\ \E w \in Gettable(reqRespPool, Resps, resp) :
       /\ resp' = [resp EXCEPT ![c] = w]
       /\ reqRespPool' = reqRespPool \ {w}
  /\ Goto(c, "conf")
  /\ UNCHANGED <<call, next, req, ops, objects, reqPool, timers, got, intent,
                 reply>>

\* 56 seconds after CreateRequest the context is done, whatever the plugins do.
Deadline(c) ==
  /\ call[c] \in contexts
  /\ contexts' = contexts \ {call[c]}
  /\ expired' = expired \cup {call[c]}
  /\ UNCHANGED <<pc, handler, ops, objects, pools, got, intent, reply>>

\* GetRuleConf: the chain runs, or ErrNotFound is returned; or ConfToken panics
\* on a call whose bytes CreateRequest could still read.
GetRuleConf(c) ==
  /\ pc[c] = "conf"
  /\ \/ Goto(c, "chain") /\ UNCHANGED reply
     \/ \E kind \in {"error", "panic"} :
          /\ Goto(c, "reuseResp")
          /\ reply' = [reply EXCEPT ![c] = [kind |-> kind]]
  /\ UNCHANGED <<handler, ops, objects, pools, timers, got, intent>>

-----------------------------------------------------------------------------
(* requestPhase.filter                                                     *)

HasChange(w) == w.body # Nil \/ w.code # 0

RunPlugin(c) ==
  /\ pc[c] = "chain" /\ next[c] \in DOMAIN Chain
  /\ next' = [next EXCEPT ![c] = @ + 1]
  /\ IF Chain[next[c]]
       THEN /\ Goto(c, "plugin")
            /\ intent' = [intent EXCEPT ![c].after = @ \/ intent[c].stopped]
       ELSE UNCHANGED <<pc, intent>>
  /\ UNCHANGED <<call, req, resp, ops, objects, pools, timers, got, reply>>

\* Mutant: only a status stops the chain.
PluginReturnsOnCode(c) ==
  /\ pc[c] = "plugin"
  /\ Goto(c, IF response[resp[c]].code # 0 THEN "build" ELSE "chain")
  /\ got' = [got EXCEPT ![c] = Nil]
  /\ UNCHANGED <<handler, ops, objects, pools, timers, intent, reply>>

PluginReturns(c) ==
  /\ pc[c] = "plugin"
  /\ Goto(c, IF HasChange(response[resp[c]]) THEN "build" ELSE "chain")
  /\ got' = [got EXCEPT ![c] = Nil]
  /\ UNCHANGED <<handler, ops, objects, pools, timers, intent, reply>>

\* A plugin panics; the deferred calls run and the connection is closed.
PluginPanics(c) ==
  /\ pc[c] = "plugin"
  /\ Goto(c, "reuseResp")
  /\ reply' = [reply EXCEPT ![c] = [kind |-> "panic"]]
  /\ got' = [got EXCEPT ![c] = Nil]
  /\ UNCHANGED <<handler, ops, objects, pools, timers, intent>>

ChainEnds(c) ==
  /\ pc[c] = "chain" /\ next[c] \notin DOMAIN Chain
  /\ Goto(c, "build")
  /\ UNCHANGED <<handler, ops, objects, pools, timers, got, intent, reply>>

-----------------------------------------------------------------------------
(* What a plugin may do with its Request and ReqResponse.                  *)

Operations(c, n) ==
  /\ pc[c] = "plugin"
  /\ MapThenSumSet(LAMBDA d : ops[d], Conns) + n <= MaxOps
  /\ ops' = [ops EXCEPT ![c] = @ + n]
  /\ UNCHANGED <<pc, handler, pools, timers, reply>>

OnRequest(c, fields) ==
  /\ request' = [request EXCEPT ![req[c]] = fields]
  /\ UNCHANGED response

OnResponse(c, fields) ==
  /\ response' = [response EXCEPT ![resp[c]] = fields]
  /\ UNCHANGED request

Wants(c, part, v) == intent' = [intent EXCEPT ![c][part] = v]

\* SetPath and SetBody replace; SetBody may be given an empty body.
Put(c, part, v) ==
  /\ Operations(c, 1)
  /\ part \in Parts \cap {"path", "body"}
  /\ v = "new" \/ (part = "body" /\ v = "empty")
  /\ OnRequest(c, [request[req[c]] EXCEPT ![part] = Value(call[c], v)])
  /\ Wants(c, part, v)
  /\ UNCHANGED got

\* Header(), Args() and RespHeader() decode the part on first use; Args() also
\* keeps a copy of what it decoded.
Decoded(o, part) ==
  IF o[part] # Nil THEN o
  ELSE IF part = "args"
  THEN [o EXCEPT !.args = Value(o.r, "orig"), !.rawArgs = Value(o.r, "orig")]
  ELSE [o EXCEPT ![part] = Value(o.r, "orig")]

Look(c, part) ==
  /\ Operations(c, 1)
  /\ part \in Parts \cap {"hdr", "args", "respHdr"}
  /\ OnRequest(c, Decoded(request[req[c]], part))
  /\ UNCHANGED <<got, intent>>

Change(c, part) ==
  /\ Operations(c, 1)
  /\ part \in Parts \cap {"hdr", "args", "respHdr"}
  /\ OnRequest(c, [Decoded(request[req[c]], part) EXCEPT ![part].val = "new"])
  /\ Wants(c, part, "new")
  /\ UNCHANGED got

\* askExtraInfo asks over the connection of the object, where APISIX answers for
\* the HTTP request it runs there; the frames it takes are in HandleConn.
AskExtraInfo(conn) == Value(call[conn], "orig")

\* Var looks the variable up in the cache of the request first.  When APISIX
\* does not answer, Var and Body return ErrConnClosed and assign nothing.
Var(c) ==
  LET o == request[req[c]]
      v == IF o.vars # Nil THEN o.vars ELSE AskExtraInfo(o.conn) IN
  /\ Operations(c, 1)
  /\ OnRequest(c, [o EXCEPT !.vars = v])
  /\ got' = [got EXCEPT ![c] = v]
  /\ UNCHANGED intent

\* Body asks for the body unless it has one of positive length.
Body(c) ==
  LET o == request[req[c]]
      v == IF o.body # Nil /\ o.body.val # "empty" THEN o.body
           ELSE AskExtraInfo(o.conn) IN
  /\ Operations(c, 1)
  /\ "body" \in Parts
  /\ OnRequest(c, [o EXCEPT !.body = v])
  /\ got' = [got EXCEPT ![c] = v]
  /\ UNCHANGED intent

\* The first WriteHeader wins.
WriteHeader(c, code) ==
  LET w == response[resp[c]] IN
  /\ Operations(c, 1)
  /\ OnResponse(c, [w EXCEPT !.code = IF @ # 0 THEN @ ELSE code])
  /\ intent' = [intent EXCEPT ![c].stopped = TRUE,
                              ![c].code = IF @ = 0 THEN code ELSE @]
  /\ UNCHANGED got

Write(c) ==
  /\ Operations(c, 1)
  /\ OnResponse(c, [response[resp[c]] EXCEPT !.body = Value(call[c], "new")])
  /\ intent' = [intent EXCEPT ![c].stopped = TRUE]
  /\ UNCHANGED got

\* w.Header() alone does not stop the chain.
ResponseHeader(c) ==
  /\ Operations(c, 1)
  /\ OnResponse(c, [response[resp[c]] EXCEPT !.hdr = Value(call[c], "new")])
  /\ UNCHANGED <<got, intent>>

\* The request filters of the sample plugins, when they do not just return: say
\* with a body, fault-injection on a hit, request-body-rewrite with a body and
\* limit-req beyond the limit.
Say(c) ==
  /\ Operations(c, 2)
  /\ OnResponse(c, [response[resp[c]] EXCEPT !.hdr = Value(call[c], "new"),
                                             !.body = Value(call[c], "new")])
  /\ intent' = [intent EXCEPT ![c].stopped = TRUE]
  /\ UNCHANGED got

FaultInjection(c, code, body) ==
  LET w == response[resp[c]] IN
  /\ Operations(c, 2)
  /\ OnResponse(c, [w EXCEPT !.code = IF @ # 0 THEN @ ELSE code,
                             !.body = IF body THEN Value(call[c], "new") ELSE @])
  /\ intent' = [intent EXCEPT ![c].stopped = TRUE,
                              ![c].code = IF @ = 0 THEN code ELSE @]
  /\ UNCHANGED got

RequestBodyRewrite(c) == Put(c, "body", "new")

LimitReq(c) == WriteHeader(c, 503)

-----------------------------------------------------------------------------
\* requestPhase.builder: ReqResponse.FetchChanges, then Request.FetchChanges.
FetchStop(w) ==
  [kind |-> "stop", code |-> IF w.code = 0 THEN 200 ELSE w.code,
   hdr |-> w.hdr, body |-> w.body]

hasChanges(o) == \E part \in AllParts : o[part] # Nil

\* Header and Args send the difference to what APISIX sent; for how Header does
\* it see the module Header.
FetchRewrite(o) ==
  [kind |-> "rewrite", path |-> o.path, body |-> o.body, respHdr |-> o.respHdr,
   hdr |-> IF o.hdr = Value(o.r, "orig") THEN Nil ELSE o.hdr,
   args |-> IF o.args = o.rawArgs THEN Nil ELSE o.args]

FetchChanges(o, w) ==
  IF HasChange(w) THEN FetchStop(w)
  ELSE IF hasChanges(o) THEN FetchRewrite(o)
  ELSE [kind |-> "pass"]

BuildReply(c) ==
  /\ pc[c] = "build"
  /\ reply' = [reply EXCEPT ![c] =
                 FetchChanges(request[req[c]], response[resp[c]])]
  /\ Goto(c, "reuseResp")
  /\ UNCHANGED <<handler, ops, objects, pools, timers, got, intent>>

\* Mutant: the object is put back after the reference to it is cleared.
ReuseReqResponseCleared(c) ==
  /\ pc[c] = "reuseResp"
  /\ response' = [response EXCEPT ![resp[c]] = NewReqResponse]
  /\ resp' = [resp EXCEPT ![c] = Nil]
  /\ reqRespPool' = reqRespPool \cup {resp'[c]}
  /\ intent' = [intent EXCEPT ![c] = NoIntent]
  /\ reply' = [reply EXCEPT ![c] = NoReply]
  /\ Goto(c, "reuseReq")
  /\ UNCHANGED <<call, next, req, ops, request, reqPool, timers, got>>

\* The deferred calls, last one first: ReuseReqResponse, then ReuseRequest.  The
\* plugins are done and the reply is built: they are no longer followed.
ReuseReqResponse(c) ==
  /\ pc[c] = "reuseResp"
  /\ response' = [response EXCEPT ![resp[c]] = NewReqResponse]
  /\ reqRespPool' = reqRespPool \cup {resp[c]}
  /\ resp' = [resp EXCEPT ![c] = Nil]
  /\ next' = [next EXCEPT ![c] = 1]
  /\ intent' = [intent EXCEPT ![c] = NoIntent]
  /\ reply' = [reply EXCEPT ![c] = NoReply]
  /\ Goto(c, "reuseReq")
  /\ UNCHANGED <<call, req, ops, request, reqPool, timers, got>>

\* Mutant: Reset leaves the variables of the last request.
ResetKeepsVars(o) ==
  [NewRequest EXCEPT !.r = o.r, !.rawArgs = o.rawArgs, !.cancel = o.cancel,
                     !.vars = o.vars]

\* Mutant: Reset leaves the arguments of the last request.
ResetKeepsArgs(o) ==
  [NewRequest EXCEPT !.r = o.r, !.rawArgs = o.rawArgs, !.cancel = o.cancel,
                     !.args = o.args]

\* Reset keeps r, rawArgs and cancel.
Reset(o) ==
  [NewRequest EXCEPT !.r = o.r, !.rawArgs = o.rawArgs, !.cancel = o.cancel]

\* The handler returns: its locals are gone, the reply is with handleConn.
Return(c) ==
  /\ reqPool' = reqPool \cup {req[c]}
  /\ req' = [req EXCEPT ![c] = Nil]
  /\ call' = [call EXCEPT ![c] = Nil]
  /\ expired' = expired \ {call[c]}
  /\ ops' = [ops EXCEPT ![c] = 0]
  /\ Goto(c, "idle")
  /\ UNCHANGED <<next, resp, got, intent, reply, response, reqRespPool>>

\* Mutant: Reset does not cancel the context.
ReuseRequestUncancelled(c) ==
  /\ pc[c] = "reuseReq"
  /\ request' = [request EXCEPT ![req[c]] = Reset(@)]
  /\ UNCHANGED contexts
  /\ Return(c)

ReuseRequest(c) ==
  /\ pc[c] = "reuseReq"
  /\ request' = [request EXCEPT ![req[c]] = Reset(@)]
  /\ contexts' = contexts \ {request[req[c]].cancel}
  /\ Return(c)

-----------------------------------------------------------------------------
Plugin(c) ==
  \/ \E part \in AllParts :
       Look(c, part) \/ Change(c, part) \/ \E v \in {"new", "empty"} : Put(c, part, v)
  \/ Var(c) \/ Body(c)
  \/ \E code \in {403, 503} : WriteHeader(c, code)
  \/ Write(c) \/ ResponseHeader(c)
  \/ Say(c) \/ RequestBodyRewrite(c) \/ LimitReq(c)
  \/ \E body \in BOOLEAN : FaultInjection(c, 403, body)

Next ==
  \E c \in Conns :
    \/ \E m \in Calls : CreateRequest(c, m)
    \/ CreatePanics(c) \/ CreateReqResponse(c) \/ Deadline(c) \/ GetRuleConf(c)
    \/ RunPlugin(c) \/ Plugin(c) \/ PluginReturns(c) \/ PluginPanics(c)
    \/ ChainEnds(c) \/ BuildReply(c) \/ ReuseReqResponse(c) \/ ReuseRequest(c)

Spec == Init /\ [][Next]_vars

-----------------------------------------------------------------------------
PcSet == {"idle", "resp", "conf", "chain", "plugin", "build", "reuseResp",
          "reuseReq"}

RequestRecord ==
  [r : Calls \cup {Nil}, conn : Conns \cup {Nil}, path : Info \cup {Nil},
   hdr : Info \cup {Nil}, args : Info \cup {Nil}, rawArgs : Info \cup {Nil},
   vars : Info \cup {Nil}, body : Info \cup {Nil}, respHdr : Info \cup {Nil},
   cancel : Calls \cup {Nil}]

ReqResponseRecord == [hdr : Info \cup {Nil}, body : Info \cup {Nil}, code : Nat]

Wanted == {"orig", "new", "empty"}

IntentRecord ==
  [path : Wanted, hdr : Wanted, args : Wanted, respHdr : Wanted, body : Wanted,
   code : Nat, stopped : BOOLEAN, after : BOOLEAN]

(* Type correctness of the handlers, the objects and the two pools.        *)
TypeOK ==
  /\ pc \in [Conns -> PcSet]
  /\ call \in [Conns -> Calls \cup {Nil}]
  /\ next \in [Conns -> 1 .. Len(Chain) + 1]
  /\ ops \in [Conns -> Nat]
  /\ req \in [Conns -> Reqs \cup {Nil}]
  /\ resp \in [Conns -> Resps \cup {Nil}]
  /\ reqPool \subseteq Reqs
  /\ reqRespPool \subseteq Resps
  /\ request \in [Reqs -> RequestRecord]
  /\ response \in [Resps -> ReqResponseRecord]
  /\ contexts \subseteq Calls
  /\ expired \subseteq Calls
  /\ got \in [Conns -> Info \cup {Nil}]
  /\ intent \in [Conns -> IntentRecord]
  /\ DOMAIN reply = Conns

Built(c) == pc[c] = "reuseResp"

\* What APISIX makes of a part of the request when it has read the reply.
Effect(c, part) ==
  IF reply[c].kind = "rewrite" /\ reply[c][part] # Nil THEN reply[c][part]
  ELSE Value(call[c], "orig")

(***************************************************************************)
(* The reply is what the plugins of this call did: a response ends the     *)
(* request with the first status written, otherwise every part of the      *)
(* request ends up as the plugins left it, and nothing in the reply is     *)
(* from another call that used the same pooled objects (Reset, the two     *)
(* FetchChanges, requestPhase.builder).  For the body see BodyIsIntent.    *)
(***************************************************************************)
ReplyIsIntent ==
  \A c \in Conns :
    /\ Built(c) /\ reply[c].kind \in {"rewrite", "pass"} =>
         /\ ~intent[c].stopped
         /\ Effect(c, "body").from = call[c]
         /\ \A part \in AllParts \ {"body"} :
              Effect(c, part) = Value(call[c], intent[c][part])
    /\ Built(c) /\ reply[c].kind = "stop" =>
         /\ intent[c].stopped
         /\ reply[c].code = IF intent[c].code = 0 THEN 200 ELSE intent[c].code
         /\ reply[c].hdr # Nil => reply[c].hdr.from = call[c]
         /\ reply[c].body # Nil => reply[c].body.from = call[c]

(***************************************************************************)
(* The body APISIX ends up with is the one the plugins set last (the       *)
(* comment of SetBody in pkg/http: it rewrites the original request body). *)
(***************************************************************************)
BodyIsIntent ==
  \A c \in Conns :
    Built(c) /\ reply[c].kind \in {"rewrite", "pass"} =>
      Effect(c, "body") = Value(call[c], intent[c].body)

(***************************************************************************)
(* Var and Body give a plugin what belongs to its own call, from the cache *)
(* of the Request or from APISIX, also when the Request was used before.   *)
(***************************************************************************)
InfoIsOwn == \A c \in Conns : got[c] # Nil => got[c].from = call[c]

(***************************************************************************)
(* No plugin runs after one has written the response (requestPhase.filter, *)
(* and the comment of RequestFilter in pkg/plugin).                        *)
(***************************************************************************)
ChainStops == \A c \in Conns : ~intent[c].after

(***************************************************************************)
(* The context of a call is live exactly while its handler runs and its    *)
(* own deadline has not passed: a plugin never sees it cancelled by the    *)
(* reuse of another Request, and an error or a panic leaves none behind    *)
(* (CreateRequest, Reset).                                                 *)
(***************************************************************************)
ContextScoped == contexts = ({call[c] : c \in Conns} \ {Nil}) \ expired
=============================================================================
