-------------------------- MODULE HTTPReqCallProofs --------------------------
(***************************************************************************)
(* Proofs about HTTPReqCall for any number of connections, requests and    *)
(* pooled objects, and any rule.                                           *)
(***************************************************************************)
EXTENDS HTTPReqCall, TLAPS

\* The steps at which a handler has a ReqResponse.
Responding == {"conf", "chain", "plugin", "build", "reuseResp"}

(* A handler has a Request from CreateRequest to ReuseRequest, and inside  *)
(* of that a ReqResponse.  No two have the same one, the pools have none   *)
(* that is held, and no two connections serve the same call.               *)
HoldInv ==
  /\ \A c \in Conns :
       /\ IF pc[c] = "idle" THEN req[c] = Nil /\ call[c] = Nil
          ELSE req[c] \in Reqs \ reqPool /\ call[c] \in Calls
       /\ IF pc[c] \in Responding THEN resp[c] \in Resps \ reqRespPool
          ELSE resp[c] = Nil /\ intent[c] = NoIntent
       /\ pc[c] # "plugin" => got[c] = Nil
  /\ \A c, d \in Conns :
       c # d => /\ req[c] = req[d] => req[c] = Nil
                /\ resp[c] = resp[d] => resp[c] = Nil
                /\ call[c] = call[d] => call[c] = Nil

(* What nobody holds is as its Reset leaves it.                            *)
FreeInv ==
  /\ \A o \in Reqs :
       (\A c \in Conns : req[c] # o) => request[o] = Reset(request[o])
  /\ \A w \in Resps :
       (\A c \in Conns : resp[c] # w) => response[w] = NewReqResponse

(* The Request o of connection c is about the call m.                      *)
Owns(o, m, c) ==
  /\ o.r = m /\ o.cancel = m /\ o.conn = c
  /\ o.vars \in {Nil, Value(m, "orig")}
  /\ o.body \in {Nil} \cup {Value(m, v) : v \in Wanted}

(* The parts of it are what the plugins want them to be; rawArgs, which    *)
(* Reset keeps, is of this call once the arguments are decoded.            *)
Follows(o, m, want) ==
  /\ \A part \in AllParts \ {"body"} :
       \/ o[part] = Nil /\ want[part] = "orig"
       \/ o[part] = Value(m, want[part])
  /\ o.args # Nil => o.rawArgs = Value(m, "orig")

(* The ReqResponse w says what the plugins want to answer the call m with. *)
Answers(w, m, want) ==
  /\ w.code = want.code
  /\ \A v \in {w.hdr, w.body} \ {Nil} : v.from = m
  /\ want.stopped <=> HasChange(w)

AgreeInv ==
  \A c \in Conns :
    /\ pc[c] # "idle" => Owns(request[req[c]], call[c], c)
    /\ pc[c] \in Responding \cup {"resp"} =>
         Follows(request[req[c]], call[c], intent[c])
    /\ pc[c] \in Responding => Answers(response[resp[c]], call[c], intent[c])

(* A plugin that writes the response is the last one.                      *)
ChainInv ==
  \A c \in Conns :
    /\ ~intent[c].after
    /\ pc[c] \in {"conf", "chain"} => ~intent[c].stopped

(* A reply that is built is what the objects still say.                    *)
ReplyInv ==
  \A c \in Conns :
    Built(c) => \/ reply[c].kind \in {"error", "panic"}
                \/ reply[c] = FetchChanges(request[req[c]], response[resp[c]])

(* Only calls under way have a context.                                    *)
ContextInv == ContextScoped /\ expired \subseteq {call[c] : c \in Conns} \ {Nil}

IInv ==
  /\ TypeOK /\ HoldInv /\ FreeInv /\ AgreeInv /\ ChainInv /\ ReplyInv /\ InfoIsOwn
  /\ ContextInv
-----------------------------------------------------------------------------
LEMMA ValueFacts ==
  ASSUME NEW m \in Calls, NEW v \in Wanted
  PROVE  /\ Value(m, v) \in Info /\ Value(m, v) # Nil
         /\ Value(m, v).from = m /\ Value(m, v).val = v
BY CallAssumption DEF Value, Info, Wanted

(* What a handler in a plugin has.                                         *)
LEMMA InPlugin ==
  ASSUME IInv, NEW c \in Conns, pc[c] = "plugin"
  PROVE  /\ req[c] \in Reqs /\ req[c] # Nil /\ resp[c] \in Resps /\ resp[c] # Nil
         /\ call[c] \in Calls
         /\ request[req[c]] \in RequestRecord
         /\ response[resp[c]] \in ReqResponseRecord
         /\ intent[c] \in IntentRecord /\ ~intent[c].after
         /\ Owns(request[req[c]], call[c], c)
         /\ Follows(request[req[c]], call[c], intent[c])
         /\ Answers(response[resp[c]], call[c], intent[c])
BY CallAssumption DEF IInv, TypeOK, HoldInv, AgreeInv, ChainInv, Responding

(* An operation of a plugin changes its own objects, which nobody else     *)
(* has; they are still what the plugins want.                              *)
LEMMA PluginStep ==
  ASSUME IInv, NEW c \in Conns, pc[c] = "plugin",
         NEW o \in RequestRecord, NEW w \in ReqResponseRecord,
         NEW want \in IntentRecord, NEW g \in Info \cup {Nil},
         Owns(o, call[c], c), Follows(o, call[c], want), Answers(w, call[c], want),
         ~want.after, g # Nil => g.from = call[c],
         UNCHANGED <<pc, handler, pools, timers, reply>>,
         ops' \in [Conns -> Nat],
         request' = [request EXCEPT ![req[c]] = o],
         response' = [response EXCEPT ![resp[c]] = w],
         intent' = [intent EXCEPT ![c] = want],
         got' = [got EXCEPT ![c] = g]
  PROVE  IInv'
<1> USE DEF IInv, handler, pools, timers
<1>0. /\ req[c] \in Reqs /\ req[c] # Nil /\ resp[c] \in Resps /\ resp[c] # Nil
      /\ call[c] \in Calls
  BY InPlugin
<1>1. TypeOK'
  BY <1>0 DEF TypeOK
<1>2. HoldInv'
  BY DEF HoldInv, TypeOK, Responding
<1>3. FreeInv'
  BY <1>0 DEF FreeInv, TypeOK
<1>4. /\ \A d \in Conns : pc[d] # "idle" =>
           request'[req[d]] = IF d = c THEN o ELSE request[req[d]]
      /\ \A d \in Conns : pc[d] \in Responding =>
           response'[resp[d]] = IF d = c THEN w ELSE response[resp[d]]
  BY <1>0, CallAssumption DEF HoldInv, TypeOK
<1>5. AgreeInv'
  <2> SUFFICES ASSUME NEW d \in Conns
               PROVE  /\ pc[d] # "idle" => Owns(request'[req[d]], call[d], d)
                      /\ pc[d] \in Responding \cup {"resp"} =>
                           Follows(request'[req[d]], call[d], intent'[d])
                      /\ pc[d] \in Responding =>
                           Answers(response'[resp[d]], call[d], intent'[d])
    BY DEF AgreeInv, Owns, Follows, Answers, HasChange
  <2>1. CASE d = c
    BY <1>4, <2>1 DEF TypeOK
  <2>2. CASE d # c
    <3>1. intent'[d] = intent[d]
      BY <2>2 DEF TypeOK
    <3> QED
      BY <1>4, <2>2, <3>1 DEF AgreeInv, Responding
  <2> QED
    BY <2>1, <2>2
<1>6. ChainInv'
  BY DEF ChainInv, TypeOK
<1>7. ReplyInv'
  BY <1>4 DEF ReplyInv, Built, Responding
<1>8. InfoIsOwn'
  BY DEF InfoIsOwn, TypeOK
<1>9. ContextInv'
  BY DEF ContextInv, ContextScoped
<1> QED
  BY <1>1, <1>2, <1>3, <1>5, <1>6, <1>7, <1>8, <1>9

LEMMA RequestStep ==
  ASSUME IInv, NEW c \in Conns, NEW n \in Nat, Operations(c, n),
         NEW o, OnRequest(c, o), NEW want, NEW g,
         o \in RequestRecord, want \in IntentRecord, g \in Info \cup {Nil},
         Owns(o, call[c], c), Follows(o, call[c], want),
         want.code = intent[c].code, want.stopped = intent[c].stopped,
         want.after = intent[c].after, g # Nil => g.from = call[c],
         intent' = [intent EXCEPT ![c] = want], got' = [got EXCEPT ![c] = g]
  PROVE  IInv'
<1>1. pc[c] = "plugin" /\ UNCHANGED <<pc, handler, pools, timers, reply>>
  BY DEF Operations
<1>2. ops' \in [Conns -> Nat]
  BY DEF Operations, IInv, TypeOK
<1>3. /\ request' = [request EXCEPT ![req[c]] = o]
      /\ response' = [response EXCEPT ![resp[c]] = response[resp[c]]]
  BY DEF OnRequest, IInv, TypeOK
<1>4. Answers(response[resp[c]], call[c], want) /\ ~want.after
  BY <1>1, InPlugin DEF Answers
<1>5. response[resp[c]] \in ReqResponseRecord
  BY <1>1, InPlugin
<1> QED
  BY <1>1, <1>2, <1>3, <1>4, <1>5, PluginStep

LEMMA ResponseStep ==
  ASSUME IInv, NEW c \in Conns, NEW n \in Nat, Operations(c, n),
         NEW w, OnResponse(c, w), NEW want,
         w \in ReqResponseRecord, want \in IntentRecord,
         Answers(w, call[c], want), Follows(request[req[c]], call[c], want),
         ~want.after,
         intent' = [intent EXCEPT ![c] = want], got' = got
  PROVE  IInv'
<1>1. pc[c] = "plugin" /\ UNCHANGED <<pc, handler, pools, timers, reply>>
  BY DEF Operations
<1>2. ops' \in [Conns -> Nat]
  BY DEF Operations, IInv, TypeOK
<1>3. /\ response' = [response EXCEPT ![resp[c]] = w]
      /\ request' = [request EXCEPT ![req[c]] = request[req[c]]]
      /\ got' = [got EXCEPT ![c] = got[c]]
  BY DEF OnResponse, IInv, TypeOK
<1>4. Owns(request[req[c]], call[c], c)
  BY <1>1, InPlugin
<1>5. /\ request[req[c]] \in RequestRecord /\ got[c] \in Info \cup {Nil}
      /\ got[c] # Nil => got[c].from = call[c]
  BY <1>1, InPlugin DEF IInv, TypeOK, InfoIsOwn
<1> QED
  BY <1>1, <1>2, <1>3, <1>4, <1>5, PluginStep

-----------------------------------------------------------------------------
(* The operations of a plugin on its Request.                              *)

LEMMA PutStep ==
  ASSUME IInv, NEW c \in Conns, NEW part \in AllParts, NEW v \in {"new", "empty"},
         Put(c, part, v)
  PROVE  IInv'
<1> DEFINE o == request[req[c]]
           m == call[c]
           x == [o EXCEPT ![part] = Value(m, v)]
           want == [intent[c] EXCEPT ![part] = v]
<1>1. /\ Operations(c, 1) /\ OnRequest(c, x) /\ part \in {"path", "body"}
      /\ intent' = [intent EXCEPT ![c][part] = v] /\ got' = got
  BY DEF Put, Wants
<1>2. pc[c] = "plugin"
  BY <1>1 DEF Operations
<1>3. /\ o \in RequestRecord /\ m \in Calls /\ intent[c] \in IntentRecord
      /\ Owns(o, m, c) /\ Follows(o, m, intent[c])
  BY <1>2, InPlugin
<1>4. Value(m, v) \in Info /\ Value(m, v) # Nil /\ v \in Wanted
  BY <1>3, ValueFacts DEF Wanted
<1>5. intent' = [intent EXCEPT ![c] = want] /\ got' = [got EXCEPT ![c] = got[c]]
  BY <1>1 DEF IInv, TypeOK
<1>6. got[c] \in Info \cup {Nil} /\ (got[c] # Nil => got[c].from = m)
  BY DEF IInv, TypeOK, InfoIsOwn
<1>7. want \in IntentRecord /\ want.code = intent[c].code
      /\ want.stopped = intent[c].stopped /\ want.after = intent[c].after
  BY <1>1, <1>3, <1>4 DEF IntentRecord
<1>8. x \in RequestRecord
  BY <1>1, <1>3, <1>4 DEF RequestRecord
<1>9. Owns(x, m, c)
  BY <1>1, <1>3, <1>4 DEF Owns, RequestRecord
<1>10. Follows(x, m, want)
  <2>1. CASE part = "path"
    BY <1>3, <1>4, <2>1 DEF Follows, AllParts, RequestRecord, IntentRecord
  <2>2. CASE part = "body"
    BY <1>3, <1>4, <2>2 DEF Follows, AllParts, RequestRecord, IntentRecord
  <2> QED
    BY <1>1, <2>1, <2>2
<1>11. Operations(c, 1) /\ OnRequest(c, x)
  BY <1>1
<1> HIDE DEF x, want
<1> QED
  BY <1>5, <1>6, <1>7, <1>8, <1>9, <1>10, <1>11, RequestStep

(* Decoding a part does not change what the plugins want it to be.         *)
LEMMA DecodedFacts ==
  ASSUME NEW o \in RequestRecord, NEW c \in Conns, NEW m \in Calls,
         NEW want \in IntentRecord, Owns(o, m, c), Follows(o, m, want),
         NEW part \in {"hdr", "args", "respHdr"}
  PROVE  /\ Decoded(o, part) \in RequestRecord
         /\ Owns(Decoded(o, part), m, c)
         /\ Follows(Decoded(o, part), m, want)
         /\ Decoded(o, part)[part] = Value(m, want[part])
         /\ part = "args" => Decoded(o, part).rawArgs = Value(m, "orig")
<1>1. /\ Value(m, "orig") \in Info /\ Value(m, "orig") # Nil /\ o.r = m
  BY ValueFacts DEF Owns, Wanted
<1>2. CASE o[part] # Nil
  <2>1. Decoded(o, part) = o
    BY <1>2 DEF Decoded
  <2> QED
    BY <1>2, <2>1 DEF Follows, AllParts
<1>3. CASE o[part] = Nil /\ part = "args"
  <2>1. Decoded(o, part) = [o EXCEPT !.args = Value(m, "orig"),
                                     !.rawArgs = Value(m, "orig")]
    BY <1>1, <1>3 DEF Decoded
  <2>2. want.args = "orig"
    BY <1>1, <1>3, ValueFacts DEF Follows, AllParts, IntentRecord, Wanted
  <2>3. Decoded(o, part) \in RequestRecord /\ Owns(Decoded(o, part), m, c)
    BY <1>1, <2>1 DEF RequestRecord, Owns
  <2>4. Follows(Decoded(o, part), m, want)
    BY <2>1, <2>2 DEF RequestRecord, Follows, AllParts
  <2> QED
    BY <1>3, <2>1, <2>2, <2>3, <2>4 DEF RequestRecord
<1>4. CASE o[part] = Nil /\ part \in {"hdr", "respHdr"}
  <2>1. Decoded(o, part) = [o EXCEPT ![part] = Value(m, "orig")]
    BY <1>1, <1>4 DEF Decoded
  <2>2. want[part] = "orig"
    <3>1. want[part] \in Wanted
      BY DEF IntentRecord
    <3> QED
      BY <1>4, <3>1, ValueFacts DEF Follows, AllParts
  <2>3. Decoded(o, part) \in RequestRecord /\ Owns(Decoded(o, part), m, c)
    BY <1>1, <1>4, <2>1 DEF RequestRecord, Owns
  <2>4. Follows(Decoded(o, part), m, want)
    BY <1>4, <2>1, <2>2 DEF RequestRecord, Follows, AllParts
  <2> QED
    BY <1>4, <2>1, <2>2, <2>3, <2>4 DEF RequestRecord
<1> QED
  BY <1>2, <1>3, <1>4

LEMMA LookStep ==
  ASSUME IInv, NEW c \in Conns, NEW part \in AllParts, Look(c, part)
  PROVE  IInv'
<1> DEFINE x == Decoded(request[req[c]], part)
<1>1. /\ Operations(c, 1) /\ OnRequest(c, x) /\ part \in {"hdr", "args", "respHdr"}
      /\ intent' = intent /\ got' = got
  BY DEF Look
<1>2. pc[c] = "plugin"
  BY <1>1 DEF Operations
<1>3. /\ intent' = [intent EXCEPT ![c] = intent[c]]
      /\ got' = [got EXCEPT ![c] = got[c]]
      /\ got[c] \in Info \cup {Nil} /\ (got[c] # Nil => got[c].from = call[c])
  BY <1>1 DEF IInv, TypeOK, InfoIsOwn
<1>4. x \in RequestRecord /\ Owns(x, call[c], c) /\ Follows(x, call[c], intent[c])
  BY <1>1, <1>2, InPlugin, DecodedFacts
<1>5. intent[c] \in IntentRecord
  BY <1>2, InPlugin
<1> HIDE DEF x
<1> QED
  BY <1>1, <1>3, <1>4, <1>5, RequestStep

LEMMA ChangeStep ==
  ASSUME IInv, NEW c \in Conns, NEW part \in AllParts, Change(c, part)
  PROVE  IInv'
<1> DEFINE d == Decoded(request[req[c]], part)
           m == call[c]
           x == [d EXCEPT ![part].val = "new"]
           want == [intent[c] EXCEPT ![part] = "new"]
<1>1. /\ Operations(c, 1) /\ OnRequest(c, x) /\ part \in {"hdr", "args", "respHdr"}
      /\ intent' = [intent EXCEPT ![c][part] = "new"] /\ got' = got
  BY DEF Change, Wants
<1>2. pc[c] = "plugin"
  BY <1>1 DEF Operations
<1>3. m \in Calls /\ intent[c] \in IntentRecord
  BY <1>2, InPlugin
<1>4. /\ d \in RequestRecord /\ Owns(d, m, c) /\ Follows(d, m, intent[c])
      /\ d[part] = Value(m, intent[c][part])
      /\ part = "args" => d.rawArgs = Value(m, "orig")
  BY <1>1, <1>2, InPlugin, DecodedFacts
<1> HIDE DEF d
<1>5. Value(m, "new") \in Info /\ Value(m, "new") # Nil
  BY <1>3, ValueFacts DEF Wanted
<1>6. x = [d EXCEPT ![part] = Value(m, "new")]
  <2>1. [d[part] EXCEPT !.val = "new"] = Value(m, "new")
    BY <1>4 DEF Value
  <2>2. x = [d EXCEPT ![part] = [d[part] EXCEPT !.val = "new"]]
    OBVIOUS
  <2> QED
    BY <2>1, <2>2
<1>11. Operations(c, 1) /\ OnRequest(c, x)
  BY <1>1
<1> HIDE DEF x
<1>7. x \in RequestRecord /\ Owns(x, m, c)
  BY <1>1, <1>4, <1>5, <1>6 DEF Owns, RequestRecord
<1>8. Follows(x, m, want)
  <2>1. \A p \in AllParts \ {"body"} :
          x[p] = (IF p = part THEN Value(m, "new") ELSE d[p])
            /\ want[p] = (IF p = part THEN "new" ELSE intent[c][p])
    BY <1>1, <1>3, <1>4, <1>6 DEF RequestRecord, IntentRecord, AllParts
  <2>2. x.rawArgs = d.rawArgs /\ (part # "args" => x.args = d.args)
    BY <1>1, <1>4, <1>6 DEF RequestRecord
  <2> QED
    BY <1>4, <2>1, <2>2 DEF Follows
<1>9. /\ want \in IntentRecord /\ want.code = intent[c].code
      /\ want.stopped = intent[c].stopped /\ want.after = intent[c].after
  BY <1>1, <1>3 DEF IntentRecord, Wanted
<1>10. /\ intent' = [intent EXCEPT ![c] = want]
       /\ got' = [got EXCEPT ![c] = got[c]]
       /\ got[c] \in Info \cup {Nil} /\ (got[c] # Nil => got[c].from = call[c])
  BY <1>1 DEF IInv, TypeOK, InfoIsOwn
<1> HIDE DEF want
<1> QED
  BY <1>7, <1>8, <1>9, <1>10, <1>11, RequestStep

(* Var and Body: the cache or APISIX, both about this call.                *)
LEMMA AskStep == ASSUME IInv, NEW c \in Conns, Var(c) \/ Body(c) PROVE IInv'
<1> DEFINE o == request[req[c]]
           m == call[c]
<1>1. PICK n \in {"vars", "body"}, v \in {o.vars, o.body, AskExtraInfo(o.conn)} :
        /\ v # Nil /\ v \in {o[n], AskExtraInfo(o.conn)}
        /\ Operations(c, 1) /\ OnRequest(c, [o EXCEPT ![n] = v])
        /\ got' = [got EXCEPT ![c] = v] /\ intent' = intent
  <2>1. pc[c] = "plugin"
    BY DEF Var, Body, Operations
  <2>2. m \in Calls /\ Owns(o, m, c)
    BY <2>1, InPlugin
  <2>3. AskExtraInfo(o.conn) # Nil
    BY <2>2, ValueFacts DEF AskExtraInfo, Owns, Wanted
  <2>4. CASE Var(c)
    BY <2>3, <2>4 DEF Var
  <2>5. CASE Body(c)
    BY <2>3, <2>5 DEF Body
  <2> QED
    BY <2>4, <2>5
<1>2. pc[c] = "plugin"
  BY <1>1 DEF Operations
<1>3. /\ o \in RequestRecord /\ m \in Calls /\ intent[c] \in IntentRecord
      /\ Owns(o, m, c) /\ Follows(o, m, intent[c])
  BY <1>2, InPlugin
<1>4. /\ AskExtraInfo(o.conn) = Value(m, "orig")
      /\ v \in {Value(m, u) : u \in Wanted}
      /\ n = "vars" => v = Value(m, "orig")
  BY <1>1, <1>3 DEF Owns, AskExtraInfo, Wanted
<1>5. v \in Info /\ v.from = m
  BY <1>3, <1>4, ValueFacts
<1> DEFINE x == [o EXCEPT ![n] = v]
<1>6. x \in RequestRecord /\ Owns(x, m, c)
  BY <1>3, <1>4, <1>5 DEF Owns, RequestRecord
<1>7. Follows(x, m, intent[c])
  BY <1>3 DEF Follows, RequestRecord, AllParts
<1>8. intent' = [intent EXCEPT ![c] = intent[c]]
  BY <1>1 DEF IInv, TypeOK
<1> HIDE DEF x
<1> QED
  BY <1>1, <1>3, <1>5, <1>6, <1>7, <1>8, RequestStep DEF x

-----------------------------------------------------------------------------
(* The operations of a plugin on its ReqResponse: the first status wins,   *)
(* and a status or a body stops the chain.                                 *)
Written(w, r, code, m) ==
  /\ w \in ReqResponseRecord
  /\ w.hdr \in {r.hdr, Value(m, "new")}
  /\ w.body \in {r.body, Value(m, "new")}
  /\ w.code = IF r.code # 0 THEN r.code ELSE code
  /\ code # 0 \/ w.body = Value(m, "new")

Stops(want, i, code) ==
  want = [i EXCEPT !.stopped = TRUE, !.code = IF i.code = 0 THEN code ELSE i.code]

LEMMA WriteStep ==
  ASSUME IInv, NEW c \in Conns, NEW n \in Nat, Operations(c, n), NEW code \in Nat,
         NEW w, NEW want, OnResponse(c, w), got' = got,
         intent' = [intent EXCEPT ![c] = want],
         Written(w, response[resp[c]], code, call[c]), Stops(want, intent[c], code)
  PROVE  IInv'
<1> DEFINE r == response[resp[c]]
           m == call[c]
           i == intent[c]
           k == IF i.code = 0 THEN code ELSE i.code
<1>1. pc[c] = "plugin"
  BY DEF Operations
<1>2. /\ r \in ReqResponseRecord /\ m \in Calls /\ Answers(r, m, i)
      /\ i \in IntentRecord /\ ~i.after /\ Follows(request[req[c]], m, i)
  BY <1>1, InPlugin
<1>3. Value(m, "new") # Nil /\ Value(m, "new").from = m
  BY <1>2, ValueFacts DEF Wanted
<1>4. want = [i EXCEPT !.stopped = TRUE, !.code = k] /\ k \in Nat
  BY <1>2 DEF Stops, IntentRecord
<1> HIDE DEF k
<1>5. want \in IntentRecord
  BY <1>2, <1>4 DEF IntentRecord
<1>6. want.stopped = TRUE /\ want.code = k /\ want.after = i.after
  BY <1>2, <1>4 DEF IntentRecord
<1>7. \A part \in AllParts : want[part] = i[part]
  BY <1>2, <1>4 DEF IntentRecord, AllParts
<1>8. Answers(w, m, want)
  <2>1. HasChange(w)
    BY <1>2, <1>3 DEF Written, HasChange, ReqResponseRecord
  <2>2. w.code = want.code
    BY <1>2, <1>6 DEF Written, Answers, k
  <2>3. \A v \in {w.hdr, w.body} \ {Nil} : v.from = m
    BY <1>2, <1>3 DEF Written, Answers
  <2> QED
    BY <1>6, <2>1, <2>2, <2>3 DEF Answers
<1>9. Follows(request[req[c]], m, want)
  BY <1>2, <1>7 DEF Follows
<1>10. ~want.after /\ w \in ReqResponseRecord
  BY <1>2, <1>6 DEF Written
<1> QED
  BY <1>5, <1>8, <1>9, <1>10, ResponseStep

LEMMA ResponseHeaderStep == ASSUME IInv, NEW c \in Conns, ResponseHeader(c) PROVE IInv'
<1> DEFINE r == response[resp[c]]
           w == [r EXCEPT !.hdr = Value(call[c], "new")]
<1>1. Operations(c, 1) /\ OnResponse(c, w) /\ intent' = intent /\ got' = got
  BY DEF ResponseHeader
<1>2. pc[c] = "plugin"
  BY <1>1 DEF Operations
<1>3. /\ r \in ReqResponseRecord /\ call[c] \in Calls /\ intent[c] \in IntentRecord
      /\ Answers(r, call[c], intent[c]) /\ ~intent[c].after
      /\ Follows(request[req[c]], call[c], intent[c])
  BY <1>2, InPlugin
<1>4. Value(call[c], "new") \in Info /\ Value(call[c], "new").from = call[c]
  BY <1>3, ValueFacts DEF Wanted
<1>5. w \in ReqResponseRecord /\ Answers(w, call[c], intent[c])
  BY <1>3, <1>4 DEF ReqResponseRecord, Answers, HasChange
<1>6. intent' = [intent EXCEPT ![c] = intent[c]]
  BY <1>1 DEF IInv, TypeOK
<1> HIDE DEF w
<1> QED
  BY <1>1, <1>3, <1>5, <1>6, ResponseStep

(* Each write of a plugin is one of those.                                 *)
LEMMA OperationStep == ASSUME IInv, NEW c \in Conns, Plugin(c) PROVE IInv'
<1> DEFINE r == response[resp[c]]
           new == Value(call[c], "new")
           i == intent[c]
<1>1. ASSUME NEW code \in Nat \ {0}, WriteHeader(c, code) PROVE IInv'
  <2> DEFINE w == [r EXCEPT !.code = IF @ # 0 THEN @ ELSE code]
             want == [i EXCEPT !.stopped = TRUE,
                               !.code = IF i.code = 0 THEN code ELSE i.code]
  <2>1. Operations(c, 1) /\ OnResponse(c, w) /\ got' = got
    BY <1>1 DEF WriteHeader
  <2>2. r \in ReqResponseRecord /\ i \in IntentRecord /\ new \in Info
    BY <2>1, InPlugin, ValueFacts DEF Operations, Wanted
  <2>3. intent' = [intent EXCEPT ![c] = want]
    BY <1>1, <2>2 DEF WriteHeader, IInv, TypeOK, IntentRecord
  <2>4. Written(w, r, code, call[c])
    BY <2>2 DEF Written, ReqResponseRecord
  <2>5. Stops(want, i, code)
    BY DEF Stops
  <2> HIDE DEF w, want
  <2> QED
    BY <2>1, <2>3, <2>4, <2>5, WriteStep
<1>2. ASSUME Write(c) PROVE IInv'
  <2> DEFINE w == [r EXCEPT !.body = new]
             want == [i EXCEPT !.stopped = TRUE,
                               !.code = IF i.code = 0 THEN 0 ELSE i.code]
  <2>1. Operations(c, 1) /\ OnResponse(c, w) /\ got' = got
    BY <1>2 DEF Write
  <2>2. r \in ReqResponseRecord /\ i \in IntentRecord /\ new \in Info
    BY <2>1, InPlugin, ValueFacts DEF Operations, Wanted
  <2>3. intent' = [intent EXCEPT ![c] = want]
    BY <1>2, <2>2 DEF Write, IInv, TypeOK, IntentRecord
  <2>4. Written(w, r, 0, call[c])
    BY <2>2 DEF Written, ReqResponseRecord
  <2>5. Stops(want, i, 0)
    BY DEF Stops
  <2> HIDE DEF w, want
  <2> QED
    BY <2>1, <2>3, <2>4, <2>5, WriteStep
<1>3. ASSUME Say(c) PROVE IInv'
  <2> DEFINE w == [r EXCEPT !.hdr = new, !.body = new]
             want == [i EXCEPT !.stopped = TRUE,
                               !.code = IF i.code = 0 THEN 0 ELSE i.code]
  <2>1. Operations(c, 2) /\ OnResponse(c, w) /\ got' = got
    BY <1>3 DEF Say
  <2>2. r \in ReqResponseRecord /\ i \in IntentRecord /\ new \in Info
    BY <2>1, InPlugin, ValueFacts DEF Operations, Wanted
  <2>3. intent' = [intent EXCEPT ![c] = want]
    BY <1>3, <2>2 DEF Say, IInv, TypeOK, IntentRecord
  <2>4. Written(w, r, 0, call[c])
    BY <2>2 DEF Written, ReqResponseRecord
  <2>5. Stops(want, i, 0)
    BY DEF Stops
  <2> HIDE DEF w, want
  <2> QED
    BY <2>1, <2>3, <2>4, <2>5, WriteStep
<1>4. ASSUME NEW body \in BOOLEAN, FaultInjection(c, 403, body) PROVE IInv'
  <2> DEFINE k == IF r.code # 0 THEN r.code ELSE 403
             b == IF body THEN new ELSE r.body
             w == [r EXCEPT !.code = k, !.body = b]
             want == [i EXCEPT !.stopped = TRUE,
                               !.code = IF i.code = 0 THEN 403 ELSE i.code]
  <2>1. Operations(c, 2) /\ OnResponse(c, w) /\ got' = got
    BY <1>4 DEF FaultInjection
  <2>2. r \in ReqResponseRecord /\ i \in IntentRecord /\ new \in Info
    BY <2>1, InPlugin, ValueFacts DEF Operations, Wanted
  <2>3. intent' = [intent EXCEPT ![c] = want]
    BY <1>4, <2>2 DEF FaultInjection, IInv, TypeOK, IntentRecord
  <2>4. Written(w, r, 403, call[c])
    <3>1. k \in Nat /\ b \in Info \cup {Nil} /\ b \in {r.body, new}
      BY <2>2 DEF ReqResponseRecord
    <3> HIDE DEF k, b
    <3>2. /\ w \in ReqResponseRecord
          /\ w.hdr = r.hdr /\ w.body = b /\ w.code = k
      BY <2>2, <3>1 DEF ReqResponseRecord
    <3> QED
      BY <3>1, <3>2 DEF Written, k
  <2>5. Stops(want, i, 403) /\ 403 \in Nat
    BY DEF Stops
  <2> HIDE DEF w, want
  <2> QED
    BY <2>1, <2>3, <2>4, <2>5, WriteStep
<1>5. RequestBodyRewrite(c) => IInv'
  BY PutStep DEF RequestBodyRewrite, AllParts
<1>6. LimitReq(c) => IInv'
  BY <1>1 DEF LimitReq
<1> QED
  BY <1>1, <1>2, <1>3, <1>4, <1>5, <1>6, LookStep, ChangeStep, PutStep, AskStep,
     ResponseHeaderStep DEF Plugin

-----------------------------------------------------------------------------
LEMMA IInvInit == Init => IInv
<1> SUFFICES ASSUME Init PROVE IInv
  OBVIOUS
<1> USE DEF Init
<1>1. /\ NewRequest \in RequestRecord /\ NewReqResponse \in ReqResponseRecord
      /\ NoIntent \in IntentRecord
  BY DEF NewRequest, NewReqResponse, NoIntent, RequestRecord, ReqResponseRecord,
         IntentRecord, Wanted
<1>2. TypeOK
  <2>1. Len(Chain) \in Nat
    BY CallAssumption
  <2> QED
    BY <1>1, <2>1 DEF TypeOK, PcSet
<1>3. HoldInv
  BY DEF HoldInv, Responding
<1>4. FreeInv
  BY DEF FreeInv, Reset, NewRequest
<1>5. AgreeInv /\ ReplyInv
  BY DEF AgreeInv, ReplyInv, Built, Responding
<1>6. ChainInv /\ InfoIsOwn
  BY DEF ChainInv, InfoIsOwn, NoIntent
<1>7. ContextInv
  BY DEF ContextInv, ContextScoped
<1> QED
  BY <1>2, <1>3, <1>4, <1>5, <1>6, <1>7 DEF IInv

(* A handler takes a Request nobody holds; the fields that Reset keeps are *)
(* assigned anew, or not read before they are.                             *)
LEMMA CreateStep ==
  ASSUME IInv, NEW c \in Conns, NEW m \in Calls, CreateRequest(c, m) PROVE IInv'
<1> USE DEF IInv
<1>1. PICK o \in Gettable(reqPool, Reqs, req) :
        /\ req' = [req EXCEPT ![c] = o]
        /\ reqPool' = reqPool \ {o}
        /\ request' = [request EXCEPT
             ![o] = [@ EXCEPT !.r = m, !.cancel = m, !.conn = c]]
  BY DEF CreateRequest
<1>2. /\ pc[c] = "idle" /\ pc' = [pc EXCEPT ![c] = "resp"]
      /\ call' = [call EXCEPT ![c] = m] /\ \A d \in Conns : call[d] # m
      /\ contexts' = contexts \cup {m}
      /\ UNCHANGED <<next, resp, ops, response, reqRespPool, expired, got, intent,
                     reply>>
  BY DEF CreateRequest, Goto
<1> DEFINE x == [request[o] EXCEPT !.r = m, !.cancel = m, !.conn = c]
<1>3. o \in Reqs /\ o # Nil /\ \A d \in Conns : req[d] # o
  BY CallAssumption DEF HoldInv, TypeOK, Gettable
<1>4. request' = [request EXCEPT ![o] = x]
  BY <1>1, <1>3 DEF TypeOK
<1>5. x \in RequestRecord
  <2>1. request[o] \in RequestRecord
    BY <1>3 DEF TypeOK
  <2> QED
    BY <2>1 DEF RequestRecord
<1>6. Owns(x, m, c) /\ Follows(x, m, NoIntent)
  <2>1. request[o] = Reset(request[o])
    BY <1>3 DEF FreeInv
  <2>2. /\ request[o].path = Nil /\ request[o].hdr = Nil /\ request[o].args = Nil
        /\ request[o].respHdr = Nil /\ request[o].body = Nil
        /\ request[o].vars = Nil
    BY <2>1 DEF Reset, NewRequest
  <2>3. request[o] \in RequestRecord
    BY <1>3 DEF TypeOK
  <2>4. Owns(x, m, c)
    BY <2>2, <2>3 DEF Owns, RequestRecord
  <2>5. Follows(x, m, NoIntent)
    <3>1. /\ x.path = Nil /\ x.hdr = Nil /\ x.args = Nil /\ x.respHdr = Nil
          /\ x \in RequestRecord
      BY <1>5, <2>2, <2>3 DEF RequestRecord
    <3>2. \A part \in AllParts \ {"body"} : x[part] = Nil
      BY <3>1 DEF AllParts, RequestRecord
    <3>3. \A part \in AllParts \ {"body"} : NoIntent[part] = "orig"
      BY DEF AllParts, NoIntent
    <3> QED
      BY <3>1, <3>2, <3>3 DEF Follows
  <2> QED
    BY <2>4, <2>5
<1> HIDE DEF x
<1>7. TypeOK'
  <2>1. request' \in [Reqs -> RequestRecord]
    BY <1>3, <1>4, <1>5 DEF TypeOK
  <2>2. /\ pc' \in [Conns -> PcSet] /\ call' \in [Conns -> Calls \cup {Nil}]
        /\ req' \in [Conns -> Reqs \cup {Nil}] /\ reqPool' \subseteq Reqs
    BY <1>1, <1>2, <1>3 DEF TypeOK, PcSet
  <2> QED
    BY <1>2, <2>1, <2>2 DEF TypeOK
<1>8. HoldInv'
  BY <1>1, <1>2, <1>3, CallAssumption DEF HoldInv, TypeOK, Responding
<1>9. FreeInv'
  <2>1. ASSUME NEW y \in Reqs, \A d \in Conns : req'[d] # y
        PROVE  request'[y] = Reset(request'[y])
    <3>1. y # o /\ \A d \in Conns : req[d] # y
      BY <1>1, <1>2, <2>1, CallAssumption DEF HoldInv, TypeOK
    <3> QED
      BY <1>3, <1>4, <3>1 DEF FreeInv, TypeOK
  <2> QED
    BY <1>2, <2>1 DEF FreeInv, Reset, NewReqResponse
<1>10. /\ request'[req'[c]] = x
       /\ \A d \in Conns \ {c} :
            pc[d] # "idle" => request'[req'[d]] = request[req[d]]
  BY <1>1, <1>3, <1>4 DEF HoldInv, TypeOK
<1>11. AgreeInv'
  <2> SUFFICES ASSUME NEW d \in Conns
               PROVE  /\ pc'[d] # "idle" => Owns(request'[req'[d]], call'[d], d)
                      /\ pc'[d] \in Responding \cup {"resp"} =>
                           Follows(request'[req'[d]], call'[d], intent'[d])
                      /\ pc'[d] \in Responding =>
                           Answers(response'[resp'[d]], call'[d], intent'[d])
    BY DEF AgreeInv, Owns, Follows, Answers, HasChange
  <2>1. CASE d = c
    <3>1. pc'[c] = "resp" /\ call'[c] = m /\ intent'[c] = NoIntent
      BY <1>2 DEF HoldInv, TypeOK, Responding
    <3> QED
      BY <1>6, <1>10, <2>1, <3>1 DEF Responding
  <2>2. CASE d # c
    <3>1. pc'[d] = pc[d] /\ call'[d] = call[d]
      BY <1>2, <2>2 DEF TypeOK
    <3> QED
      BY <1>2, <1>10, <2>2, <3>1 DEF AgreeInv, Responding
  <2> QED
    BY <2>1, <2>2
<1>12. ChainInv'
  BY <1>2 DEF ChainInv, TypeOK
<1>13. ReplyInv'
  <2> SUFFICES ASSUME NEW d \in Conns, pc'[d] = "reuseResp"
               PROVE  \/ reply'[d].kind \in {"error", "panic"}
                      \/ reply'[d] = FetchChanges(request'[req'[d]], response'[resp'[d]])
    BY DEF ReplyInv, Built, FetchChanges, HasChange, FetchStop, hasChanges,
           FetchRewrite
  <2>1. d # c /\ pc[d] = "reuseResp"
    BY <1>2 DEF TypeOK
  <2> QED
    BY <1>2, <1>10, <2>1 DEF ReplyInv, Built
<1>14. InfoIsOwn'
  BY <1>2 DEF InfoIsOwn, HoldInv, TypeOK
<1>15. ContextInv'
  <2>1. {call'[d] : d \in Conns} \ {Nil} = ({call[d] : d \in Conns} \ {Nil}) \cup {m}
    BY <1>2, CallAssumption DEF HoldInv, TypeOK
  <2>2. m \notin expired
    BY <1>2 DEF ContextInv
  <2> QED
    BY <1>2, <2>1, <2>2 DEF ContextInv, ContextScoped
<1> QED
  BY <1>7, <1>8, <1>9, <1>11, <1>12, <1>13, <1>14, <1>15

(* A Request lost in a panic of CreateRequest: a new one takes its place.  *)
LEMMA CreatePanicsStep == ASSUME IInv, NEW c \in Conns, CreatePanics(c) PROVE IInv'
<1> USE DEF IInv
<1>1. PICK o \in reqPool : /\ reqPool' = reqPool \ {o}
                           /\ request' = [request EXCEPT ![o] = NewRequest]
  BY DEF CreatePanics
<1>2. UNCHANGED <<pc, handler, ops, response, reqRespPool, timers, got, intent, reply>>
  BY DEF CreatePanics
<1> USE <1>2 DEF handler, timers
<1>3. NewRequest \in RequestRecord /\ NewRequest = Reset(NewRequest)
  BY DEF NewRequest, Reset, RequestRecord
<1>4. o \in Reqs
  BY DEF TypeOK
<1>5. TypeOK'
  BY <1>1, <1>3, <1>4 DEF TypeOK
<1>6. HoldInv'
  BY <1>1 DEF HoldInv
<1>7. FreeInv'
  BY <1>1, <1>3 DEF FreeInv, TypeOK
<1>8. \A d \in Conns : pc[d] # "idle" => request'[req[d]] = request[req[d]]
  BY <1>1, <1>4 DEF HoldInv, TypeOK
<1>9. AgreeInv'
  BY <1>8 DEF AgreeInv, Responding
<1>10. ReplyInv'
  BY <1>8 DEF ReplyInv, Built
<1>11. ChainInv' /\ InfoIsOwn' /\ ContextInv'
  BY DEF ChainInv, InfoIsOwn, ContextInv, ContextScoped
<1> QED
  BY <1>5, <1>6, <1>7, <1>9, <1>10, <1>11

(* A ReqResponse nobody holds is empty.                                    *)
LEMMA CreateReqResponseStep ==
  ASSUME IInv, NEW c \in Conns, CreateReqResponse(c) PROVE IInv'
<1> USE DEF IInv
<1>1. PICK w \in Gettable(reqRespPool, Resps, resp) :
        resp' = [resp EXCEPT ![c] = w] /\ reqRespPool' = reqRespPool \ {w}
  BY DEF CreateReqResponse
<1>2. /\ pc[c] = "resp" /\ pc' = [pc EXCEPT ![c] = "conf"]
      /\ UNCHANGED <<call, next, req, ops, request, response, reqPool, contexts,
                     expired, got, intent, reply>>
  BY DEF CreateReqResponse, Goto, objects, timers
<1>3. w \in Resps /\ w # Nil /\ \A d \in Conns : resp[d] # w
  BY CallAssumption DEF HoldInv, TypeOK, Gettable
<1>4. response[w] = NewReqResponse /\ intent[c] = NoIntent
  BY <1>2, <1>3 DEF FreeInv, HoldInv, Responding
<1>5. TypeOK'
  BY <1>1, <1>2, <1>3 DEF TypeOK, PcSet
<1>6. HoldInv'
  BY <1>1, <1>2, <1>3 DEF HoldInv, TypeOK, Responding
<1>7. FreeInv'
  <2>1. ASSUME NEW y \in Resps, \A d \in Conns : resp'[d] # y
        PROVE  \A d \in Conns : resp[d] # y
    <3>1. resp[c] = Nil /\ Nil \notin Resps
      BY <1>2, CallAssumption DEF HoldInv, Responding
    <3>2. \A d \in Conns \ {c} : resp'[d] = resp[d]
      BY <1>1 DEF TypeOK
    <3> QED
      BY <2>1, <3>1, <3>2
  <2> QED
    BY <1>2, <2>1 DEF FreeInv
<1>8. Answers(NewReqResponse, call[c], NoIntent)
  BY DEF Answers, NewReqResponse, NoIntent, HasChange
<1>9. AgreeInv'
  <2> SUFFICES ASSUME NEW d \in Conns
               PROVE  /\ pc'[d] # "idle" => Owns(request[req[d]], call[d], d)
                      /\ pc'[d] \in Responding \cup {"resp"} =>
                           Follows(request[req[d]], call[d], intent[d])
                      /\ pc'[d] \in Responding =>
                           Answers(response[resp'[d]], call[d], intent[d])
    BY <1>2 DEF AgreeInv
  <2>1. CASE d = c
    BY <1>1, <1>2, <1>4, <1>8, <2>1 DEF AgreeInv, TypeOK, Responding
  <2>2. CASE d # c
    BY <1>1, <1>2, <2>2 DEF AgreeInv, TypeOK
  <2> QED
    BY <2>1, <2>2
<1>10. ChainInv'
  BY <1>2, <1>4 DEF ChainInv, TypeOK, NoIntent
<1>11. ReplyInv'
  BY <1>1, <1>2 DEF ReplyInv, Built, TypeOK
<1>12. InfoIsOwn' /\ ContextInv'
  BY <1>2 DEF InfoIsOwn, ContextInv, ContextScoped
<1> QED
  BY <1>5, <1>6, <1>7, <1>9, <1>10, <1>11, <1>12

(* The timer of a context fires.                                           *)
LEMMA DeadlineStep == ASSUME IInv, NEW c \in Conns, Deadline(c) PROVE IInv'
<1> USE DEF IInv, Deadline, handler, objects, pools
<1>1. ContextInv'
  BY CallAssumption DEF ContextInv, ContextScoped, TypeOK
<1>2. TypeOK' /\ HoldInv' /\ FreeInv'
  BY DEF TypeOK, HoldInv, FreeInv
<1>3. AgreeInv' /\ ChainInv' /\ ReplyInv' /\ InfoIsOwn'
  BY DEF AgreeInv, ChainInv, ReplyInv, Built, InfoIsOwn
<1> QED
  BY <1>1, <1>2, <1>3

(* The steps of HTTPReqCall around the plugins touch no object.            *)
LEMMA HandlerStep ==
  ASSUME IInv, NEW c \in Conns,
         \/ GetRuleConf(c) \/ RunPlugin(c) \/ PluginReturns(c)
         \/ PluginPanics(c) \/ ChainEnds(c) \/ BuildReply(c)
  PROVE  IInv'
<1> USE DEF IInv
<1>1. UNCHANGED <<call, req, resp, ops, request, response, reqPool, reqRespPool,
                  contexts, expired>>
  BY DEF GetRuleConf, RunPlugin, PluginReturns, PluginPanics, ChainEnds, BuildReply,
         handler, objects, pools, timers
<1>2. /\ pc[c] \in Responding
      /\ \E step \in {"chain", "plugin", "build", "reuseResp"} :
           pc' = [pc EXCEPT ![c] = step]
  BY DEF GetRuleConf, RunPlugin, PluginReturns, PluginPanics, ChainEnds, BuildReply,
         Goto, TypeOK, Responding
<1>3. next' \in [Conns -> 1 .. Len(Chain) + 1]
  <2>1. CASE RunPlugin(c)
    <3>1. next[c] \in 1 .. Len(Chain) /\ Len(Chain) \in Nat
      BY <2>1, CallAssumption DEF RunPlugin
    <3> QED
      BY <2>1, <3>1 DEF RunPlugin, TypeOK
  <2>2. CASE ~RunPlugin(c)
    BY <2>2 DEF GetRuleConf, PluginReturns, PluginPanics, ChainEnds, BuildReply,
                handler, TypeOK
  <2> QED
    BY <2>1, <2>2
<1>4. intent' = intent
  <2>1. CASE RunPlugin(c)
    <3>1. ~intent[c].after /\ ~intent[c].stopped /\ intent[c] \in IntentRecord
      BY <2>1 DEF RunPlugin, ChainInv, TypeOK
    <3>2. intent[c].after = FALSE /\ (intent[c].after \/ intent[c].stopped) = FALSE
      BY <3>1 DEF IntentRecord
    <3>3. \/ intent' = intent
          \/ intent' = [intent EXCEPT ![c].after = intent[c].after \/ intent[c].stopped]
      BY <2>1 DEF RunPlugin, TypeOK
    <3>4. [intent EXCEPT ![c].after = FALSE] = intent
      BY <3>2 DEF TypeOK, IntentRecord
    <3> QED
      BY <3>2, <3>3, <3>4
  <2>2. CASE ~RunPlugin(c)
    BY <2>2 DEF GetRuleConf, PluginReturns, PluginPanics, ChainEnds, BuildReply
  <2> QED
    BY <2>1, <2>2
<1>5. /\ got' = got \/ got' = [got EXCEPT ![c] = Nil]
      /\ pc'[c] # "plugin" => got'[c] = Nil
  BY DEF GetRuleConf, RunPlugin, PluginReturns, PluginPanics, ChainEnds, BuildReply,
         Goto, TypeOK, HoldInv
<1>6. TypeOK'
  <2>1. pc' \in [Conns -> PcSet]
    BY <1>2 DEF TypeOK, PcSet
  <2>2. DOMAIN reply' = Conns
    BY DEF GetRuleConf, RunPlugin, PluginReturns, PluginPanics, ChainEnds,
           BuildReply, TypeOK
  <2>3. got' \in [Conns -> Info \cup {Nil}]
    BY <1>5 DEF TypeOK
  <2> QED
    BY <1>1, <1>3, <1>4, <2>1, <2>2, <2>3 DEF TypeOK
<1>7. HoldInv'
  <2>1. \A d \in Conns : /\ pc'[d] = "idle" <=> pc[d] = "idle"
                         /\ pc'[d] \in Responding <=> pc[d] \in Responding
    BY <1>2 DEF TypeOK, Responding
  <2>2. \A d \in Conns : pc'[d] # "plugin" => got'[d] = Nil
    BY <1>2, <1>5 DEF HoldInv, TypeOK
  <2> QED
    BY <1>1, <1>4, <2>1, <2>2 DEF HoldInv
<1>8. FreeInv'
  BY <1>1 DEF FreeInv
<1>9. AgreeInv'
  BY <1>1, <1>2, <1>4 DEF AgreeInv, TypeOK, Responding
<1>10. ChainInv'
  <2>1. pc'[c] = "chain" => ~intent[c].stopped
    <3>1. CASE PluginReturns(c)
      <4>1. pc'[c] = "chain" => ~HasChange(response[resp[c]])
        BY <3>1 DEF PluginReturns, Goto, TypeOK
      <4>2. intent[c].stopped <=> HasChange(response[resp[c]])
        BY <3>1, InPlugin DEF PluginReturns, Answers
      <4> QED
        BY <4>1, <4>2
    <3>2. CASE ~PluginReturns(c)
      BY <3>2 DEF GetRuleConf, RunPlugin, PluginPanics, ChainEnds, BuildReply, Goto,
                  ChainInv, TypeOK
    <3> QED
      BY <3>1, <3>2
  <2> QED
    BY <1>2, <1>4, <2>1 DEF ChainInv, TypeOK
<1>11. ReplyInv'
  <2>1. pc'[c] = "reuseResp" =>
          \/ reply'[c].kind \in {"error", "panic"}
          \/ reply'[c] = FetchChanges(request[req[c]], response[resp[c]])
    BY DEF GetRuleConf, RunPlugin, PluginReturns, PluginPanics, ChainEnds,
           BuildReply, Goto, TypeOK
  <2>2. \A d \in Conns \ {c} : pc'[d] = pc[d] /\ reply'[d] = reply[d]
    BY <1>2 DEF GetRuleConf, RunPlugin, PluginReturns, PluginPanics, ChainEnds,
           BuildReply, TypeOK
  <2> QED
    BY <1>1, <2>1, <2>2 DEF ReplyInv, Built
<1>12. InfoIsOwn'
  BY <1>1, <1>5 DEF InfoIsOwn, TypeOK
<1>13. ContextInv'
  BY <1>1 DEF ContextInv, ContextScoped
<1> QED
  BY <1>6, <1>7, <1>8, <1>9, <1>10, <1>11, <1>12, <1>13

(* The deferred ReuseReqResponse.                                          *)
LEMMA ReuseReqResponseStep ==
  ASSUME IInv, NEW c \in Conns, ReuseReqResponse(c) PROVE IInv'
<1> USE DEF IInv
<1>1. /\ pc[c] = "reuseResp" /\ pc' = [pc EXCEPT ![c] = "reuseReq"]
      /\ response' = [response EXCEPT ![resp[c]] = NewReqResponse]
      /\ reqRespPool' = reqRespPool \cup {resp[c]}
      /\ resp' = [resp EXCEPT ![c] = Nil]
      /\ next' = [next EXCEPT ![c] = 1]
      /\ intent' = [intent EXCEPT ![c] = NoIntent]
      /\ reply' = [reply EXCEPT ![c] = NoReply]
      /\ UNCHANGED <<call, req, ops, request, reqPool, contexts, expired, got>>
  BY DEF ReuseReqResponse, Goto, timers
<1>2. resp[c] \in Resps /\ resp[c] # Nil
  BY <1>1, CallAssumption DEF HoldInv, Responding
<1>3. TypeOK'
  <2>1. NewReqResponse \in ReqResponseRecord /\ NoIntent \in IntentRecord
    BY DEF NewReqResponse, ReqResponseRecord, NoIntent, IntentRecord, Wanted
  <2>2. 1 \in 1 .. Len(Chain) + 1
    BY CallAssumption
  <2>3. /\ response' \in [Resps -> ReqResponseRecord]
        /\ intent' \in [Conns -> IntentRecord]
        /\ next' \in [Conns -> 1 .. Len(Chain) + 1]
    BY <1>1, <1>2, <2>1, <2>2 DEF TypeOK
  <2> QED
    BY <1>1, <1>2, <2>3 DEF TypeOK, PcSet
<1>4. HoldInv'
  BY <1>1, <1>2 DEF HoldInv, TypeOK, Responding
<1>5. FreeInv'
  BY <1>1, <1>2 DEF FreeInv, HoldInv, TypeOK
<1>6. \A d \in Conns \ {c} :
        /\ pc'[d] = pc[d] /\ intent'[d] = intent[d] /\ reply'[d] = reply[d]
        /\ pc[d] \in Responding => response'[resp'[d]] = response[resp[d]]
  BY <1>1, <1>2 DEF HoldInv, TypeOK
<1>7. AgreeInv'
  <2> SUFFICES ASSUME NEW d \in Conns
               PROVE  /\ pc'[d] # "idle" => Owns(request[req[d]], call[d], d)
                      /\ pc'[d] \in Responding \cup {"resp"} =>
                           Follows(request[req[d]], call[d], intent'[d])
                      /\ pc'[d] \in Responding =>
                           Answers(response'[resp'[d]], call[d], intent'[d])
    BY <1>1 DEF AgreeInv, Answers, HasChange
  <2>1. CASE d = c
    BY <1>1, <2>1 DEF AgreeInv, TypeOK, Responding
  <2>2. CASE d # c
    BY <1>6, <2>2 DEF AgreeInv
  <2> QED
    BY <2>1, <2>2
<1>8. ChainInv'
  <2>1. ~NoIntent.after /\ ~NoIntent.stopped
    BY DEF NoIntent
  <2> QED
    BY <1>1, <2>1 DEF ChainInv, TypeOK
<1>9. ReplyInv'
  <2> SUFFICES ASSUME NEW d \in Conns, pc'[d] = "reuseResp"
               PROVE  \/ reply'[d].kind \in {"error", "panic"}
                      \/ reply'[d] = FetchChanges(request'[req'[d]], response'[resp'[d]])
    BY DEF ReplyInv, Built, FetchChanges, HasChange, FetchStop, hasChanges,
           FetchRewrite
  <2>1. d # c
    BY <1>1 DEF TypeOK
  <2> QED
    BY <1>1, <1>6, <2>1 DEF ReplyInv, Built, Responding
<1>10. InfoIsOwn' /\ ContextInv'
  BY <1>1 DEF InfoIsOwn, ContextInv, ContextScoped
<1> QED
  BY <1>3, <1>4, <1>5, <1>7, <1>8, <1>9, <1>10

(* The deferred ReuseRequest: the context is that of the call, since       *)
(* cancel is.                                                              *)
LEMMA ReuseRequestStep ==
  ASSUME IInv, NEW c \in Conns, ReuseRequest(c) PROVE IInv'
<1> USE DEF IInv
<1> DEFINE o == req[c]
           x == Reset(request[o])
<1>1. /\ pc[c] = "reuseReq" /\ pc' = [pc EXCEPT ![c] = "idle"]
      /\ request' = [request EXCEPT ![o] = x]
      /\ contexts' = contexts \ {request[o].cancel}
      /\ reqPool' = reqPool \cup {o}
      /\ req' = [req EXCEPT ![c] = Nil]
      /\ call' = [call EXCEPT ![c] = Nil]
      /\ expired' = expired \ {call[c]}
      /\ ops' = [ops EXCEPT ![c] = 0]
      /\ UNCHANGED <<next, resp, got, intent, reply, response, reqRespPool>>
  BY DEF ReuseRequest, Return, Goto
<1>2. /\ o \in Reqs /\ o # Nil /\ call[c] \in Calls /\ call[c] # Nil
      /\ request[o].cancel = call[c]
  BY <1>1, CallAssumption DEF HoldInv, AgreeInv, Owns
<1>3. x \in RequestRecord /\ x = Reset(x)
  <2>1. request[o] \in RequestRecord
    BY <1>2 DEF TypeOK
  <2> QED
    BY <2>1 DEF Reset, NewRequest, RequestRecord
<1> HIDE DEF x
<1>4. TypeOK'
  <2>1. request' \in [Reqs -> RequestRecord]
    BY <1>1, <1>2, <1>3 DEF TypeOK
  <2> QED
    BY <1>1, <1>2, <2>1 DEF TypeOK, PcSet
<1>5. HoldInv'
  BY <1>1, <1>2 DEF HoldInv, TypeOK, Responding
<1>6. FreeInv'
  <2>1. ASSUME NEW y \in Reqs, \A d \in Conns : req'[d] # y
        PROVE  request'[y] = Reset(request'[y])
    <3>1. CASE y = o
      BY <1>1, <1>2, <1>3, <3>1 DEF TypeOK
    <3>2. CASE y # o
      <4>1. \A d \in Conns : req[d] # y
        BY <1>1, <2>1, <3>2 DEF TypeOK
      <4> QED
        BY <1>1, <3>2, <4>1 DEF FreeInv, TypeOK
    <3> QED
      BY <3>1, <3>2
  <2> QED
    BY <1>1, <2>1 DEF FreeInv, Reset, NewReqResponse
<1>7. \A d \in Conns \ {c} :
        /\ pc'[d] = pc[d] /\ call'[d] = call[d]
        /\ pc[d] # "idle" => request'[req'[d]] = request[req[d]]
  BY <1>1, <1>2 DEF HoldInv, TypeOK
<1>8. AgreeInv'
  <2> SUFFICES ASSUME NEW d \in Conns
               PROVE  /\ pc'[d] # "idle" => Owns(request'[req'[d]], call'[d], d)
                      /\ pc'[d] \in Responding \cup {"resp"} =>
                           Follows(request'[req'[d]], call'[d], intent[d])
                      /\ pc'[d] \in Responding =>
                           Answers(response[resp[d]], call'[d], intent[d])
    BY <1>1 DEF AgreeInv, Owns, Follows, Answers
  <2>1. CASE d = c
    BY <1>1, <2>1 DEF TypeOK, Responding
  <2>2. CASE d # c
    BY <1>7, <2>2 DEF AgreeInv, Responding
  <2> QED
    BY <2>1, <2>2
<1>9. ChainInv'
  BY <1>1 DEF ChainInv, TypeOK
<1>10. ReplyInv'
  <2> SUFFICES ASSUME NEW d \in Conns, pc'[d] = "reuseResp"
               PROVE  \/ reply'[d].kind \in {"error", "panic"}
                      \/ reply'[d] = FetchChanges(request'[req'[d]], response'[resp'[d]])
    BY DEF ReplyInv, Built, FetchChanges, HasChange, FetchStop, hasChanges,
           FetchRewrite
  <2>1. d # c
    BY <1>1 DEF TypeOK
  <2> QED
    BY <1>1, <1>7, <2>1 DEF ReplyInv, Built
<1>11. InfoIsOwn'
  BY <1>1 DEF InfoIsOwn, HoldInv, TypeOK
<1>12. ContextInv'
  <2>1. {call'[d] : d \in Conns} \ {Nil} =
          ({call[d] : d \in Conns} \ {Nil}) \ {call[c]}
    BY <1>1, <1>2, <1>7 DEF HoldInv, TypeOK
  <2> QED
    BY <1>1, <1>2, <2>1 DEF ContextInv, ContextScoped
<1> QED
  BY <1>4, <1>5, <1>6, <1>8, <1>9, <1>10, <1>11, <1>12

LEMMA IInvAlways == Spec => []IInv
<1>1. IInv /\ [Next]_vars => IInv'
  <2> SUFFICES ASSUME IInv, [Next]_vars PROVE IInv'
    OBVIOUS
  <2>1. CASE UNCHANGED vars
    <3> USE <2>1 DEF vars, handler, objects, pools, timers, IInv
    <3>1. TypeOK' /\ HoldInv' /\ FreeInv'
      BY DEF TypeOK, HoldInv, FreeInv
    <3>2. AgreeInv' /\ ChainInv' /\ ReplyInv' /\ InfoIsOwn' /\ ContextInv'
      BY DEF AgreeInv, ChainInv, ReplyInv, Built, InfoIsOwn, ContextInv,
             ContextScoped
    <3> QED
      BY <3>1, <3>2
  <2> QED
    BY <2>1, CreateStep, CreatePanicsStep, CreateReqResponseStep, DeadlineStep,
       HandlerStep, OperationStep, ReuseReqResponseStep, ReuseRequestStep
    DEF Next
<1> QED
  BY <1>1, IInvInit, PTL DEF Spec

-----------------------------------------------------------------------------
(* Handlers, objects and pools keep their types, whatever the plugins do.  *)
THEOREM TypeCorrect == Spec => []TypeOK
<1>1. IInv => TypeOK
  BY DEF IInv
<1> QED
  BY <1>1, IInvAlways, PTL

(* Var and Body never give a plugin what belongs to another call, though   *)
(* the Request was another call's before.                                  *)
THEOREM ToldIsOwn == Spec => []InfoIsOwn
<1>1. IInv => InfoIsOwn
  BY DEF IInv
<1> QED
  BY <1>1, IInvAlways, PTL

(* A status or a body that a plugin writes ends the chain.                 *)
THEOREM WriteEndsChain == Spec => []ChainStops
<1>1. IInv => ChainStops
  BY DEF IInv, ChainInv, ChainStops
<1> QED
  BY <1>1, IInvAlways, PTL

(* A context lives exactly as long as the call it was made for, up to its  *)
(* deadline: the cancel that Reset keeps is never called for another call. *)
THEOREM ContextLife == Spec => []ContextScoped
<1>1. IInv => ContextScoped
  BY DEF IInv, ContextInv
<1> QED
  BY <1>1, IInvAlways, PTL

(* What the two FetchChanges make of the objects of a call is what its     *)
(* plugins wanted.                                                         *)
LEMMA FetchIsIntent ==
  ASSUME NEW o \in RequestRecord, NEW w \in ReqResponseRecord, NEW c \in Conns,
         NEW m \in Calls, NEW want \in IntentRecord,
         Owns(o, m, c), Follows(o, m, want), Answers(w, m, want),
         ~HasChange(w), NEW r, r = FetchChanges(o, w)
  PROVE  \A part \in AllParts :
           LET e == IF r.kind = "rewrite" /\ r[part] # Nil THEN r[part]
                    ELSE Value(m, "orig") IN
           IF part = "body" THEN e.from = m ELSE e = Value(m, want[part])
<1> DEFINE E(part) == IF r.kind = "rewrite" /\ r[part] # Nil THEN r[part]
                      ELSE Value(m, "orig")
<1>1. \A v \in Wanted : Value(m, v) # Nil /\ Value(m, v).from = m
                          /\ Value(m, v).val = v
  BY ValueFacts
<1>2. "orig" \in Wanted /\ \A part \in AllParts : want[part] \in Wanted
  BY DEF Wanted, AllParts, IntentRecord
<1>3. CASE ~hasChanges(o)
  <2>1. r.kind = "pass"
    BY <1>3 DEF FetchChanges
  <2>2. \A part \in AllParts \ {"body"} : want[part] = "orig"
    BY <1>1, <1>2, <1>3 DEF hasChanges, Follows
  <2> QED
    BY <1>1, <1>2, <2>1, <2>2
<1>4. CASE hasChanges(o)
  <2>1. r = FetchRewrite(o)
    BY <1>4 DEF FetchChanges
  <2>2. /\ r.kind = "rewrite" /\ r.path = o.path /\ r.body = o.body
        /\ r.respHdr = o.respHdr
        /\ r.hdr = IF o.hdr = Value(m, "orig") THEN Nil ELSE o.hdr
        /\ r.args = IF o.args = o.rawArgs THEN Nil ELSE o.args
    BY <2>1 DEF FetchRewrite, Owns
  <2>3. \A part \in AllParts : r[part] = CASE part = "path" -> r.path
                                         [] part = "hdr" -> r.hdr
                                         [] part = "args" -> r.args
                                         [] part = "respHdr" -> r.respHdr
                                         [] part = "body" -> r.body
    BY <2>1 DEF FetchRewrite, AllParts
  <2>4. /\ (o.path = Nil /\ want.path = "orig") \/ o.path = Value(m, want.path)
        /\ (o.hdr = Nil /\ want.hdr = "orig") \/ o.hdr = Value(m, want.hdr)
        /\ (o.args = Nil /\ want.args = "orig") \/ o.args = Value(m, want.args)
        /\ (o.respHdr = Nil /\ want.respHdr = "orig")
             \/ o.respHdr = Value(m, want.respHdr)
    BY DEF Follows, AllParts, RequestRecord, IntentRecord
  <2>5. E("path") = Value(m, want.path) /\ E("respHdr") = Value(m, want.respHdr)
    BY <1>1, <1>2, <2>2, <2>3, <2>4 DEF AllParts
  <2>6. E("hdr") = Value(m, want.hdr)
    BY <1>1, <1>2, <2>2, <2>3, <2>4 DEF AllParts
  <2>7. E("args") = Value(m, want.args)
    <3>1. CASE o.args = Nil
      BY <1>1, <1>2, <2>2, <2>3, <2>4, <3>1 DEF AllParts
    <3>2. CASE o.args # Nil
      <4>1. o.args = Value(m, want.args) /\ o.rawArgs = Value(m, "orig")
        BY <2>4, <3>2 DEF Follows
      <4> QED
        BY <1>1, <1>2, <2>2, <2>3, <4>1 DEF AllParts
    <3> QED
      BY <3>1, <3>2
  <2>8. E("body").from = m
    BY <1>1, <1>2, <2>2, <2>3 DEF AllParts, Owns
  <2>9. \A part \in AllParts :
          IF part = "body" THEN E(part).from = m ELSE E(part) = Value(m, want[part])
    <3> HIDE DEF E
    <3> QED
      BY <2>5, <2>6, <2>7, <2>8 DEF AllParts, IntentRecord
  <2> QED
    BY <2>9
<1> QED
  BY <1>3, <1>4

(* The reply of every call is what its own plugins did, for any number of  *)
(* connections that share the two pools.                                   *)
THEOREM FetchedIsIntent == Spec => []ReplyIsIntent
<1>1. ASSUME IInv, NEW c \in Conns, Built(c)
      PROVE  /\ reply[c].kind \in {"rewrite", "pass"} =>
                  /\ ~intent[c].stopped
                  /\ Effect(c, "body").from = call[c]
                  /\ \A part \in AllParts \ {"body"} :
                       Effect(c, part) = Value(call[c], intent[c][part])
             /\ reply[c].kind = "stop" =>
                  /\ intent[c].stopped
                  /\ reply[c].code = IF intent[c].code = 0 THEN 200
                                     ELSE intent[c].code
                  /\ reply[c].hdr # Nil => reply[c].hdr.from = call[c]
                  /\ reply[c].body # Nil => reply[c].body.from = call[c]
  <2> DEFINE o == request[req[c]]
             w == response[resp[c]]
             m == call[c]
  <2>1. /\ o \in RequestRecord /\ w \in ReqResponseRecord /\ m \in Calls
        /\ intent[c] \in IntentRecord
        /\ Owns(o, m, c) /\ Follows(o, m, intent[c]) /\ Answers(w, m, intent[c])
    BY <1>1 DEF IInv, TypeOK, HoldInv, AgreeInv, Built, Responding
  <2>2. \/ reply[c].kind \in {"error", "panic"}
        \/ reply[c] = FetchChanges(o, w)
    BY <1>1 DEF IInv, ReplyInv
  <2> HIDE DEF o, w
  <2>3. CASE reply[c].kind \in {"error", "panic"}
    BY <2>3
  <2>4. CASE reply[c] = FetchChanges(o, w) /\ HasChange(w)
    <3>1. reply[c] = FetchStop(w)
      BY <2>4 DEF FetchChanges
    <3>2. /\ reply[c].kind = "stop" /\ reply[c].hdr = w.hdr /\ reply[c].body = w.body
          /\ reply[c].code = IF w.code = 0 THEN 200 ELSE w.code
      BY <3>1 DEF FetchStop
    <3> QED
      BY <2>1, <2>4, <3>2 DEF Answers
  <2>5. CASE reply[c] = FetchChanges(o, w) /\ ~HasChange(w)
    <3>1. reply[c].kind # "stop"
      BY <2>5 DEF FetchChanges, FetchRewrite
    <3>2. ~intent[c].stopped
      BY <2>1, <2>5 DEF Answers
    <3>3. \A part \in AllParts :
            IF part = "body" THEN Effect(c, part).from = m
            ELSE Effect(c, part) = Value(m, intent[c][part])
      BY <2>1, <2>5, FetchIsIntent DEF Effect
    <3> QED
      BY <3>1, <3>2, <3>3 DEF AllParts
  <2> QED
    BY <2>2, <2>3, <2>4, <2>5
<1>2. IInv => ReplyIsIntent
  BY <1>1 DEF ReplyIsIntent
<1> QED
  BY <1>2, IInvAlways, PTL
=============================================================================
