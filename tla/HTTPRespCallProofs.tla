------------------------- MODULE HTTPRespCallProofs -------------------------
(***************************************************************************)
(* Proofs about HTTPRespCall for any number of connections, responses and  *)
(* Response objects, any rule and any headers.                             *)
(***************************************************************************)
EXTENDS HTTPRespCall, TLAPS

(* A connection has a Response exactly while its handler runs; no two      *)
(* handlers have the same one, and the pool has none that is held.         *)
HoldInv ==
  /\ \A c \in Conns :
       IF pc[c] = "idle" THEN resp[c] = Nil /\ call[c] = Nil /\ wrote[c] = "no"
       ELSE resp[c] \in Resps \ respPool /\ call[c] \in Call
  /\ \A c, d \in Conns : resp[c] = resp[d] /\ resp[c] # Nil => c = d

(* A Response nobody holds, in the pool or not, is as Reset leaves it.     *)
FreeInv ==
  \A o \in Resps :
    (\A c \in Conns : resp[c] # o) => response[o] = Reset(response[o])

(* The Response o of connection c and the recorder w are about the call m  *)
(* and have seen the same writes; the caches hold answers about m.         *)
Agrees(o, w, m, c) ==
  /\ o.r = m /\ o.conn = c /\ w.id = m.id
  /\ o.statusCode = w.statusCode
  /\ o.body \in {Nil, Value(m.id, "new"), Value(m.id, "empty")}
  /\ w.Body = IF o.body = Value(m.id, "new") THEN o.body ELSE Nil
  /\ o.vars \in {Nil, Value(m.id, "var")}
  /\ o.originBody \in {Nil, Value(m.id, "body")}

AgreeInv ==
  \A c \in Conns :
    pc[c] # "idle" => Agrees(Response(c), rec[c], call[c], c)

(* A plugin that wrote is the last one: its Response has a change.         *)
WroteInv ==
  \A c \in Conns :
    /\ wrote[c] # "after"
    /\ pc[c] \in {"conf", "chain"} => wrote[c] = "no"
    /\ pc[c] = "plugin" /\ wrote[c] = "yes" => HasChange(Response(c))

(* A reply waiting to be sent is what the Response still says.             *)
ReplyInv == \A c \in Conns : Replied(c) => reply[c] = FetchChanges(Response(c))

IInv == TypeOK /\ HoldInv /\ FreeInv /\ AgreeInv /\ WroteInv /\ ReplyInv

(* A name a plugin set has the wanted values in hdr; of any other the raw  *)
(* values are the wanted ones.  What is left of the raw values is as       *)
(* APISIX sent it, and a deleted name has none.                            *)
Tracks(h, sent, want) ==
  \A n \in Names :
    /\ want[n] = IF h.hdr[n] = <<>> THEN h.rawHdr[n] ELSE h.hdr[n]
    /\ h.hdr[n] = <<>> \/ \E v \in Values : h.hdr[n] = <<v>>
    /\ h.rawHdr[n] \in {<<>>, sent[n]}
    /\ (\E key \in h.deleteField : key.name = n) => h.rawHdr[n] = <<>>

HeaderAgrees(o, w, m) ==
  IF o.hdr = Nil THEN w.HeaderMap = m.hdr ELSE Tracks(o.hdr, m.hdr, w.HeaderMap)

HeaderInv ==
  \A c \in Conns :
    pc[c] # "idle" => HeaderAgrees(Response(c), rec[c], call[c])
-----------------------------------------------------------------------------
(* What the operators on a Response and on the recorder return.            *)
LEMMA TableFacts ==
  /\ Tables \subseteq Table
  /\ NoValues \in Table
  /\ \A t \in Table, n \in Names, v \in Values : <<v>> \in Seq(Values)
<1>1. ASSUME NEW k \in 0 .. MaxRaw, NEW s \in [1 .. k -> Values]
      PROVE  s \in Seq(Values)
  BY <1>1, RespAssumption
<1> QED
  BY <1>1 DEF Tables, Table, NoValues

LEMMA WithStatusFacts ==
  ASSUME NEW o \in ResponseRecord, NEW w \in RecorderRecord, NEW m \in Call,
         NEW c \in Conns, Agrees(o, w, m, c), NEW code \in Nat \ {0}
  PROVE  /\ WithStatus(o, code) \in ResponseRecord
         /\ RecWriteHeader(w, code) \in RecorderRecord
         /\ Agrees(WithStatus(o, code), RecWriteHeader(w, code), m, c)
         /\ HasChange(WithStatus(o, code))
         /\ WithStatus(o, code).hdr = o.hdr
         /\ RecWriteHeader(w, code).HeaderMap = w.HeaderMap
BY DEF ResponseRecord, RecorderRecord, WithStatus, RecWriteHeader, Agrees,
       HasChange

LEMMA WithBodyFacts ==
  ASSUME NEW o \in ResponseRecord, NEW w \in RecorderRecord, NEW m \in Call,
         NEW c \in Conns, Agrees(o, w, m, c), NEW b \in {"new", "empty"}
  PROVE  /\ WithBody(o, b) \in ResponseRecord
         /\ RecWrite(w, b) \in RecorderRecord
         /\ Agrees(WithBody(o, b), RecWrite(w, b), m, c)
         /\ HasChange(WithBody(o, b))
         /\ WithBody(o, b).hdr = o.hdr
         /\ RecWrite(w, b).HeaderMap = w.HeaderMap
<1>1. /\ Value(m.id, "new") \in Info /\ Value(m.id, "empty") \in Info
      /\ Value(m.id, "new") # Nil /\ Value(m.id, "empty") # Nil
      /\ Value(m.id, "new").val = "new" /\ Value(m.id, "empty").val = "empty"
  BY RespAssumption DEF Value, Info, Call
<1>2. Value(m.id, "new") # Value(m.id, "empty")
  BY <1>1
<1> QED
  BY <1>1, <1>2 DEF ResponseRecord, RecorderRecord, WithBody, RecWrite, Agrees,
       HasChange

LEMMA WithOriginBodyFacts ==
  ASSUME NEW o \in ResponseRecord, NEW w \in RecorderRecord, NEW c \in Conns,
         call[c] \in Call, Agrees(o, w, call[c], c)
  PROVE  /\ WithOriginBody(o) \in ResponseRecord
         /\ Agrees(WithOriginBody(o), w, call[c], c)
         /\ WithOriginBody(o).originBody = RecReadBody(w)
         /\ HasChange(o) => HasChange(WithOriginBody(o))
         /\ WithOriginBody(o).hdr = o.hdr
<1>1. Value(call[c].id, "body") \in Info /\ Value(call[c].id, "body") # Nil
  BY RespAssumption DEF Value, Info, Call
<1> QED
  BY <1>1 DEF ResponseRecord, WithOriginBody, AskExtraInfo, RecReadBody, Agrees,
       HasChange

LEMMA WithVarFacts ==
  ASSUME NEW o \in ResponseRecord, NEW w \in RecorderRecord, NEW c \in Conns,
         call[c] \in Call, Agrees(o, w, call[c], c)
  PROVE  /\ WithVar(o) \in ResponseRecord
         /\ Agrees(WithVar(o), w, call[c], c)
         /\ WithVar(o).vars = RecVar(w)
         /\ HasChange(o) => HasChange(WithVar(o))
         /\ WithVar(o).hdr = o.hdr
<1>1. Value(call[c].id, "var") \in Info /\ Value(call[c].id, "var") # Nil
  BY RespAssumption DEF Value, Info, Call
<1> QED
  BY <1>1 DEF ResponseRecord, WithVar, AskExtraInfo, RecVar, Agrees, HasChange

LEMMA WithHeaderFacts ==
  ASSUME NEW o \in ResponseRecord, NEW w \in RecorderRecord, NEW m \in Call,
         NEW c \in Conns, Agrees(o, w, m, c)
  PROVE  /\ WithHeader(o) \in ResponseRecord
         /\ WithHeader(o).hdr = IF o.hdr = Nil THEN newHeader(m.hdr) ELSE o.hdr
         /\ WithHeader(o).hdr \in HeaderRecord
         /\ Agrees(WithHeader(o), w, m, c)
         /\ HasChange(WithHeader(o))
<1>1. newHeader(m.hdr) \in HeaderRecord
  BY TableFacts DEF newHeader, HeaderRecord, Call
<1> QED
  BY <1>1, RespAssumption DEF ResponseRecord, WithHeader, Agrees, HasChange

LEMMA SetDelFacts ==
  ASSUME NEW h \in HeaderRecord, NEW key \in Key
  PROVE  /\ \A v \in Values : Set(h, key, v) \in HeaderRecord
         /\ Del(h, key) \in HeaderRecord
<1>1. <<>> \in Seq(Values)
  OBVIOUS
<1>2. key.name \in Names
  BY DEF Key
<1>3. ASSUME NEW v \in Values PROVE Set(h, key, v) \in HeaderRecord
  <2>1. <<v>> \in Seq(Values)
    OBVIOUS
  <2> QED
    BY <2>1, <1>2 DEF Set, HeaderRecord, Table
<1>4. Del(h, key) \in HeaderRecord
  BY <1>1, <1>2 DEF Del, HeaderRecord, Table
<1> QED
  BY <1>3, <1>4

LEMMA RecSetDelFacts ==
  ASSUME NEW w \in RecorderRecord, NEW key \in Key,
         NEW r \in {RecDel(w, key)} \cup {RecSet(w, key, v) : v \in Values}
  PROVE  /\ r \in RecorderRecord
         /\ r.id = w.id /\ r.statusCode = w.statusCode /\ r.Body = w.Body
<1>1. PICK vs \in {<<>>} \cup {<<v>> : v \in Values} :
        r = [w EXCEPT !.HeaderMap = [w.HeaderMap EXCEPT ![key.name] = vs]]
  BY DEF RecSet, RecDel
<1>2. vs \in Seq(Values) /\ key.name \in Names
  <2>1. ASSUME NEW v \in Values PROVE <<v>> \in Seq(Values)
    OBVIOUS
  <2>2. <<>> \in Seq(Values)
    OBVIOUS
  <2>3. CASE vs = <<>>
    BY <2>2, <2>3 DEF Key
  <2>4. CASE \E v \in Values : vs = <<v>>
    BY <2>1, <2>4, Zenon DEF Key
  <2> QED
    BY <2>3, <2>4
<1>3. [w.HeaderMap EXCEPT ![key.name] = vs] \in Table
  BY <1>2 DEF RecorderRecord, Table
<1> QED
  BY <1>1, <1>3 DEF RecorderRecord

LEMMA WithSetDelFacts ==
  ASSUME NEW o \in ResponseRecord, NEW w \in RecorderRecord, NEW m \in Call,
         NEW c \in Conns, Agrees(o, w, m, c), NEW key \in Key,
         NEW h \in {Del(WithHeader(o).hdr, key)}
                     \cup {Set(WithHeader(o).hdr, key, v) : v \in Values},
         NEW r \in {RecDel(w, key)} \cup {RecSet(w, key, v) : v \in Values}
  PROVE  /\ [WithHeader(o) EXCEPT !.hdr = h] \in ResponseRecord
         /\ r \in RecorderRecord
         /\ Agrees([WithHeader(o) EXCEPT !.hdr = h], r, m, c)
         /\ HasChange([WithHeader(o) EXCEPT !.hdr = h])
<1>1. /\ WithHeader(o) \in ResponseRecord
      /\ WithHeader(o).hdr \in HeaderRecord
      /\ Agrees(WithHeader(o), w, m, c)
  BY WithHeaderFacts
<1>2. h \in HeaderRecord
  BY <1>1, SetDelFacts
<1>3. /\ r \in RecorderRecord
      /\ r.id = w.id /\ r.statusCode = w.statusCode /\ r.Body = w.Body
  BY RecSetDelFacts
<1> QED
  BY <1>1, <1>2, <1>3, RespAssumption DEF ResponseRecord, Agrees, HasChange

LEMMA WithSetFacts ==
  ASSUME NEW o \in ResponseRecord, NEW w \in RecorderRecord, NEW m \in Call,
         NEW c \in Conns, Agrees(o, w, m, c), NEW key \in Key, NEW v \in Values
  PROVE  /\ WithSet(o, key, v) \in ResponseRecord
         /\ RecSet(w, key, v) \in RecorderRecord
         /\ Agrees(WithSet(o, key, v), RecSet(w, key, v), m, c)
         /\ HasChange(WithSet(o, key, v))
<1> DEFINE h == Set(WithHeader(o).hdr, key, v)
           r == RecSet(w, key, v)
<1>1. WithSet(o, key, v) = [WithHeader(o) EXCEPT !.hdr = h]
  BY DEF WithSet
<1>2. /\ h \in {Del(WithHeader(o).hdr, key)}
              \cup {Set(WithHeader(o).hdr, key, u) : u \in Values}
      /\ r \in {RecDel(w, key)} \cup {RecSet(w, key, u) : u \in Values}
  OBVIOUS
<1> HIDE DEF h, r
<1> QED
  BY <1>1, <1>2, WithSetDelFacts DEF r

-----------------------------------------------------------------------------
(* An operation of a plugin changes its own Response and recorder, which   *)
(* nobody else has; they still agree.                                      *)
LEMMA PluginStep ==
  ASSUME IInv, NEW c \in Conns, pc[c] = "plugin",
         NEW o \in ResponseRecord, NEW w \in RecorderRecord,
         Agrees(o, w, call[c], c),
         UNCHANGED <<pc, handler, respPool, reply>>,
         ops' \in [Conns -> Nat], DOMAIN got' = Conns,
         response' = [response EXCEPT ![resp[c]] = o],
         rec' = [rec EXCEPT ![c] = w],
         wrote' = wrote \/ wrote' = [wrote EXCEPT ![c] = "yes"],
         wrote'[c] = "yes" => HasChange(o)
  PROVE  IInv'
<1> USE DEF IInv, handler
<1>0. resp[c] \in Resps /\ call[c] \in Call /\ resp[c] # Nil
  BY RespAssumption DEF HoldInv
<1>1. TypeOK'
  BY <1>0 DEF TypeOK
<1>2. HoldInv'
  BY DEF HoldInv, TypeOK
<1>3. \A d \in Conns : pc[d] # "idle" =>
         Response(d)' = IF d = c THEN o ELSE Response(d)
  BY <1>0 DEF HoldInv, TypeOK, Response
<1>4. FreeInv'
  BY <1>0 DEF FreeInv, TypeOK
<1>5. AgreeInv'
  BY <1>3 DEF AgreeInv, TypeOK
<1>6. WroteInv'
  BY <1>3 DEF WroteInv, TypeOK
<1>7. ReplyInv'
  BY <1>3 DEF ReplyInv, Replied
<1> QED
  BY <1>1, <1>2, <1>4, <1>5, <1>6, <1>7

(* What a read leaves: the Response may have cached an answer.             *)
LEMMA ReadsStep ==
  ASSUME IInv, NEW c \in Conns, NEW o, NEW v, NEW truth, Reads(c, o, v, truth),
         o \in ResponseRecord, Agrees(o, rec[c], call[c], c),
         HasChange(Response(c)) => HasChange(o)
  PROVE  IInv'
<1>1. pc[c] = "plugin" /\ rec[c] \in RecorderRecord
  BY DEF Reads, Operations, IInv, TypeOK
<1>2. UNCHANGED <<pc, handler, respPool, reply, history>>
  BY DEF Reads, Operations
<1>3. ops' \in [Conns -> Nat]
  BY DEF Reads, Operations, IInv, TypeOK
<1>4. DOMAIN got' = Conns /\ response' = [response EXCEPT ![resp[c]] = o]
  BY DEF Reads, IInv, TypeOK
<1>5. rec' = [rec EXCEPT ![c] = rec[c]] /\ wrote' = wrote
  BY <1>2 DEF history, IInv, TypeOK
<1>6. wrote'[c] = "yes" => HasChange(o)
  BY <1>1, <1>5 DEF IInv, WroteInv
<1> QED
  BY <1>1, <1>2, <1>3, <1>4, <1>5, <1>6, PluginStep

(* A write is a change that ends the chain.                                *)
LEMMA WritesStep ==
  ASSUME IInv, NEW c \in Conns, NEW n \in Nat, NEW o, NEW w, Writes(c, n, o, w),
         o \in ResponseRecord, w \in RecorderRecord, Agrees(o, w, call[c], c),
         HasChange(o)
  PROVE  IInv'
<1>1. pc[c] = "plugin" /\ UNCHANGED <<pc, handler, respPool, reply>>
  BY DEF Writes, Operations
<1>2. ops' \in [Conns -> Nat]
  BY DEF Writes, Operations, IInv, TypeOK
<1>3. /\ DOMAIN got' = Conns
      /\ response' = [response EXCEPT ![resp[c]] = o]
      /\ rec' = [rec EXCEPT ![c] = w]
  BY DEF Writes, IInv, TypeOK
<1>4. wrote' = wrote \/ wrote' = [wrote EXCEPT ![c] = "yes"]
  BY DEF Writes, IInv, TypeOK
<1> QED
  BY <1>1, <1>2, <1>3, <1>4, PluginStep

(* What a handler in a plugin has.                                         *)
LEMMA InPlugin ==
  ASSUME IInv, NEW c \in Conns, pc[c] = "plugin"
  PROVE  /\ Response(c) \in ResponseRecord /\ rec[c] \in RecorderRecord
         /\ call[c] \in Call
         /\ Agrees(Response(c), rec[c], call[c], c)
BY DEF IInv, TypeOK, HoldInv, AgreeInv, Response

(* response-rewrite is a sequence of such operations.                      *)
LEMMA RewriteStep ==
  ASSUME IInv, NEW c \in Conns, NEW cfg \in RewriteConf, NEW key \in Key,
         NEW v \in Values, ResponseRewrite(c, cfg, key, v)
  PROVE  IInv'
<1> DEFINE m == call[c]
           o1 == IF cfg.status THEN WithStatus(Response(c), 200) ELSE Response(c)
           w1 == IF cfg.status THEN RecWriteHeader(rec[c], 200) ELSE rec[c]
           o2 == WithSet(o1, key, v)
           w3 == RecSet(w1, key, v)
           o3 == IF cfg.filters \in {"match", "noMatch"} THEN WithOriginBody(o2)
                 ELSE o2
           Good(o, w) == /\ o \in ResponseRecord /\ w \in RecorderRecord
                         /\ Agrees(o, w, m, c)
<1>1. pc[c] = "plugin"
  BY DEF ResponseRewrite, Writes, Operations
<1>2. m \in Call /\ Good(Response(c), rec[c])
  BY <1>1, InPlugin
<1>3. Good(o1, w1)
  BY <1>2, WithStatusFacts
<1>4. Good(o2, w3) /\ HasChange(o2)
  <2> HIDE DEF o1, w1
  <2> QED
    BY <1>2, <1>3, WithSetFacts
<1>5. Good(o3, w3) /\ HasChange(o3)
  <2> HIDE DEF o2, w3
  <2> QED
    BY <1>2, <1>4, WithOriginBodyFacts
<1>6. CASE cfg.body = Nil
  <2>1. Writes(c, 2, o3, w3)
    BY <1>6 DEF ResponseRewrite
  <2> HIDE DEF o3, w3
  <2> QED
    BY <1>5, <2>1, WritesStep
<1>7. CASE cfg.body # Nil
  <2>1. cfg.body \in {"new", "empty"}
    BY <1>7 DEF RewriteConf
  <2>2. Writes(c, 2, WithBody(o3, cfg.body), RecWrite(w3, cfg.body))
    BY <1>7 DEF ResponseRewrite
  <2> HIDE DEF o3, w3
  <2>3. /\ Good(WithBody(o3, cfg.body), RecWrite(w3, cfg.body))
        /\ HasChange(WithBody(o3, cfg.body))
    BY <1>2, <1>5, <2>1, WithBodyFacts
  <2> QED
    BY <2>2, <2>3, WritesStep
<1> QED
  BY <1>6, <1>7

LEMMA PluginRuns == ASSUME NEW c \in Conns, Plugin(c) PROVE pc[c] = "plugin"
<1>1. ASSUME NEW r, NEW v, NEW truth, Reads(c, r, v, truth)
      PROVE  pc[c] = "plugin"
  BY <1>1 DEF Reads, Operations
<1>2. ASSUME NEW n, NEW r, NEW x, Writes(c, n, r, x) PROVE pc[c] = "plugin"
  BY <1>2 DEF Writes, Operations
<1>3. ASSUME NEW key \in Key, HeaderGet(c, key) \/ HeaderDel(c, key)
      PROVE  pc[c] = "plugin"
  BY <1>1, <1>2, <1>3 DEF HeaderGet, HeaderDel
<1>4. ASSUME NEW key \in Key, NEW v \in Values, NEW cfg \in RewriteConf,
             HeaderSet(c, key, v) \/ ResponseRewrite(c, cfg, key, v)
      PROVE  pc[c] = "plugin"
  BY <1>2, <1>4 DEF HeaderSet, ResponseRewrite
<1>5. ASSUME StatusCode(c) \/ Var(c) \/ ReadBody(c)
      PROVE  pc[c] = "plugin"
  BY <1>1, <1>5 DEF StatusCode, Var, ReadBody
<1>6. ASSUME NEW x, WriteHeader(c, x) \/ Write(c, x) PROVE pc[c] = "plugin"
  BY <1>2, <1>6 DEF WriteHeader, Write
<1>7. [status |-> TRUE, filters |-> "none", body |-> Nil] \in RewriteConf
  BY DEF RewriteConf
<1> QED
  BY <1>3, <1>4, <1>5, <1>6, <1>7 DEF Plugin

(* The operations of pkg/http.Response, one by one.                        *)
LEMMA OperationStep == ASSUME IInv, NEW c \in Conns, Plugin(c) PROVE IInv'
<1> DEFINE o == Response(c)
           w == rec[c]
<1>0. pc[c] = "plugin"
  BY PluginRuns
<1>1. /\ o \in ResponseRecord /\ w \in RecorderRecord /\ call[c] \in Call
      /\ Agrees(o, w, call[c], c)
  BY <1>0, InPlugin
<1> HIDE DEF o, w
<1>2. ASSUME NEW key \in Key, HeaderGet(c, key) PROVE IInv'
  <2>1. Reads(c, WithHeader(o), Get(WithHeader(o).hdr, key), RecGet(w, key))
    BY <1>2 DEF HeaderGet, o, w
  <2>2. /\ WithHeader(o) \in ResponseRecord /\ HasChange(WithHeader(o))
        /\ Agrees(WithHeader(o), w, call[c], c)
    BY <1>1, WithHeaderFacts
  <2> QED
    BY <2>1, <2>2, ReadsStep DEF w
<1>3. ASSUME NEW key \in Key, HeaderDel(c, key) PROVE IInv'
  <2> DEFINE h == Del(WithHeader(o).hdr, key)
  <2>1. Writes(c, 1, [WithHeader(o) EXCEPT !.hdr = h], RecDel(w, key))
    BY <1>3 DEF HeaderDel, o, w
  <2>2. /\ [WithHeader(o) EXCEPT !.hdr = h] \in ResponseRecord
        /\ RecDel(w, key) \in RecorderRecord
        /\ Agrees([WithHeader(o) EXCEPT !.hdr = h], RecDel(w, key), call[c], c)
        /\ HasChange([WithHeader(o) EXCEPT !.hdr = h])
    BY <1>1, WithSetDelFacts
  <2> QED
    BY <2>1, <2>2, WritesStep
<1>4. ASSUME NEW key \in Key, NEW v \in Values, HeaderSet(c, key, v) PROVE IInv'
  <2>1. Writes(c, 1, WithSet(o, key, v), RecSet(w, key, v))
    BY <1>4 DEF HeaderSet, o, w
  <2>2. /\ WithSet(o, key, v) \in ResponseRecord
        /\ RecSet(w, key, v) \in RecorderRecord
        /\ Agrees(WithSet(o, key, v), RecSet(w, key, v), call[c], c)
        /\ HasChange(WithSet(o, key, v))
    BY <1>1, WithSetFacts
  <2> QED
    BY <2>1, <2>2, WritesStep
<1>5. ASSUME StatusCode(c) PROVE IInv'
  BY <1>1, <1>5, ReadsStep DEF StatusCode, o, w
<1>6. ASSUME Var(c) PROVE IInv'
  BY <1>1, <1>6, ReadsStep, WithVarFacts DEF Var, o, w
<1>7. ASSUME ReadBody(c) PROVE IInv'
  BY <1>1, <1>7, ReadsStep, WithOriginBodyFacts DEF ReadBody, o, w
<1>8. ASSUME NEW code \in {302, 502}, WriteHeader(c, code) PROVE IInv'
  BY <1>1, <1>8, WritesStep, WithStatusFacts DEF WriteHeader, o, w
<1>9. ASSUME NEW b \in {"new", "empty"}, Write(c, b) PROVE IInv'
  BY <1>1, <1>9, WritesStep, WithBodyFacts DEF Write, o, w
<1> QED
  BY <1>2, <1>3, <1>4, <1>5, <1>6, <1>7, <1>8, <1>9, RewriteStep DEF Plugin

-----------------------------------------------------------------------------
LEMMA IInvInit == Init => IInv
<1> SUFFICES ASSUME Init PROVE IInv
  OBVIOUS
<1> USE DEF Init
<1>1. NewResponse \in ResponseRecord /\ NoRec \in RecorderRecord
  BY TableFacts DEF NewResponse, NoRec, ResponseRecord, RecorderRecord
<1>2. TypeOK
  <2>1. Len(Chain) \in Nat
    BY RespAssumption
  <2> QED
    BY <1>1, <2>1 DEF TypeOK
<1>3. HoldInv
  BY DEF HoldInv
<1>4. FreeInv
  BY DEF FreeInv, Reset, NewResponse
<1>5. AgreeInv /\ WroteInv /\ ReplyInv
  BY DEF AgreeInv, WroteInv, ReplyInv, Replied
<1> QED
  BY <1>2, <1>3, <1>4, <1>5 DEF IInv

(* A handler takes an object nobody holds, as Reset or new left it.        *)
LEMMA CreateStep ==
  ASSUME IInv, NEW c \in Conns, NEW m \in Ids, CreateResponse(c, m)
  PROVE  IInv'
<1> USE DEF IInv
<1>1. PICK o \in respPool \cup (Resps \ {resp[d] : d \in Conns}), sent \in Tables :
        /\ resp' = [resp EXCEPT ![c] = o]
        /\ respPool' = respPool \ {o}
        /\ call' = [call EXCEPT ![c] = [id |-> m, hdr |-> sent]]
        /\ response' = [response EXCEPT ![o].r = call'[c], ![o].conn = c]
        /\ rec' = [rec EXCEPT ![c] = NewRecorder(m, sent)]
  BY DEF CreateResponse
<1>2. /\ pc[c] = "idle" /\ pc' = [pc EXCEPT ![c] = "conf"]
      /\ UNCHANGED <<next, ops, got, wrote, reply>>
  BY DEF CreateResponse, Goto
<1> DEFINE k == [id |-> m, hdr |-> sent]
           r == [response[o] EXCEPT !.r = k, !.conn = c]
<1>3. o \in Resps /\ o # Nil /\ \A d \in Conns : resp[d] # o
  BY RespAssumption DEF HoldInv, TypeOK
<1>4. k \in Call /\ call' = [call EXCEPT ![c] = k] /\ call'[c] = k
  BY <1>1 DEF Call, TypeOK
<1>5. response' = [response EXCEPT ![o] = r]
  BY <1>1, <1>3, <1>4 DEF TypeOK
<1>6. r \in ResponseRecord /\ NewRecorder(m, sent) \in RecorderRecord
  <2>1. response[o] \in ResponseRecord
    BY <1>3 DEF TypeOK
  <2>2. r \in ResponseRecord
    BY <1>4, <2>1 DEF ResponseRecord
  <2>3. sent \in Table
    BY TableFacts
  <2>4. NewRecorder(m, sent) \in RecorderRecord
    BY <2>3 DEF NewRecorder, NoRec, RecorderRecord
  <2> QED
    BY <2>2, <2>4
<1>7. Agrees(r, NewRecorder(m, sent), k, c)
  <2>1. response[o] = Reset(response[o])
    BY <1>3 DEF FreeInv
  <2>2. /\ response[o].statusCode = 0 /\ response[o].body = Nil
        /\ response[o].vars = Nil /\ response[o].originBody = Nil
    BY <2>1 DEF Reset, NewResponse
  <2>3. r.r = k /\ r.conn = c
    BY <1>3 DEF TypeOK, ResponseRecord
  <2>4. Nil # Value(m, "new")
    BY RespAssumption DEF Value, Info
  <2> QED
    BY <2>2, <2>3, <2>4 DEF Agrees, NewRecorder, NoRec
<1> HIDE DEF k, r
<1>8. TypeOK'
  <2>1. call' \in [Conns -> Call \cup {Nil}]
    BY <1>4 DEF TypeOK
  <2>2. response' \in [Resps -> ResponseRecord]
    BY <1>3, <1>5, <1>6 DEF TypeOK
  <2>3. rec' \in [Conns -> RecorderRecord]
    BY <1>1, <1>6 DEF TypeOK
  <2> QED
    BY <1>1, <1>2, <1>3, <2>1, <2>2, <2>3 DEF TypeOK
<1>9. HoldInv'
  BY <1>1, <1>2, <1>3, <1>4 DEF HoldInv, TypeOK
<1>10. FreeInv'
  <2> SUFFICES ASSUME NEW x \in Resps, \A d \in Conns : resp'[d] # x
               PROVE  response'[x] = Reset(response'[x])
    BY DEF FreeInv, Reset
  <2>1. x # o /\ \A d \in Conns : resp[d] # x
    BY <1>1, <1>2, RespAssumption DEF HoldInv, TypeOK
  <2> QED
    BY <1>3, <1>5, <2>1 DEF FreeInv, TypeOK
<1>11. /\ Response(c)' = r
       /\ \A d \in Conns \ {c} : Response(d)' = Response(d) \/ pc[d] = "idle"
  BY <1>1, <1>3, <1>5 DEF HoldInv, TypeOK, Response
<1>12. AgreeInv'
  BY <1>1, <1>2, <1>4, <1>7, <1>11 DEF AgreeInv, TypeOK
<1>13. WroteInv'
  BY <1>2, <1>11 DEF WroteInv, HoldInv, TypeOK
<1>14. ReplyInv'
  BY <1>2, <1>11 DEF ReplyInv, Replied, TypeOK
<1> QED
  BY <1>8, <1>9, <1>10, <1>12, <1>13, <1>14

(* An object lost in a panic of CreateResponse: a new one takes its place. *)
LEMMA CreatePanicsStep == ASSUME IInv, NEW c \in Conns, CreatePanics(c) PROVE IInv'
<1> USE DEF IInv
<1>1. PICK o \in respPool : /\ respPool' = respPool \ {o}
                            /\ response' = [response EXCEPT ![o] = NewResponse]
  BY DEF CreatePanics
<1>2. UNCHANGED <<pc, handler, ops, got, history, reply>>
  BY DEF CreatePanics
<1> USE <1>2 DEF handler, history
<1>3. NewResponse \in ResponseRecord /\ NewResponse = Reset(NewResponse)
  BY DEF NewResponse, Reset, ResponseRecord
<1>4. o \in Resps
  BY DEF TypeOK
<1>5. TypeOK'
  BY <1>1, <1>3, <1>4 DEF TypeOK
<1>6. HoldInv'
  BY <1>1 DEF HoldInv
<1>7. FreeInv'
  BY <1>1, <1>3 DEF FreeInv, TypeOK
<1>8. \A d \in Conns : pc[d] # "idle" => Response(d)' = Response(d)
  BY <1>1, <1>4 DEF HoldInv, TypeOK, Response
<1>9. AgreeInv' /\ WroteInv' /\ ReplyInv'
  BY <1>8 DEF AgreeInv, WroteInv, ReplyInv, Replied
<1> QED
  BY <1>5, <1>6, <1>7, <1>9

(* The deferred ReuseResponse: the object is reset and nobody's.           *)
LEMMA ReuseStep == ASSUME IInv, NEW c \in Conns, ReuseResponse(c) PROVE IInv'
<1> USE DEF IInv
<1>1. /\ pc[c] = "reuse" /\ pc' = [pc EXCEPT ![c] = "idle"]
      /\ response' = [response EXCEPT ![resp[c]] = Reset(response[resp[c]])]
      /\ resp' = [resp EXCEPT ![c] = Nil]
      /\ respPool' = respPool \cup {resp[c]}
      /\ call' = [call EXCEPT ![c] = Nil]
      /\ next' = [next EXCEPT ![c] = 1]
      /\ ops' = [ops EXCEPT ![c] = 0]
      /\ rec' = [rec EXCEPT ![c] = NoRec]
      /\ wrote' = [wrote EXCEPT ![c] = "no"]
      /\ reply' = [reply EXCEPT ![c] = NoReply]
      /\ got' = got
  BY DEF ReuseResponse, Goto, Put
<1>2. resp[c] \in Resps /\ resp[c] # Nil
  BY <1>1, RespAssumption DEF HoldInv
<1> DEFINE o == resp[c]
           r == Reset(response[o])
<1>3. r \in ResponseRecord /\ r = Reset(r)
  <2>1. response[o] \in ResponseRecord
    BY <1>2 DEF TypeOK
  <2> QED
    BY <2>1 DEF Reset, NewResponse, ResponseRecord
<1>4. NoRec \in RecorderRecord
  BY TableFacts DEF NoRec, RecorderRecord
<1> HIDE DEF r
<1>5. response' = [response EXCEPT ![o] = r]
  BY <1>1 DEF r
<1>6. TypeOK'
  <2>1. 1 \in 1 .. Len(Chain) + 1
    BY RespAssumption
  <2> QED
    BY <1>1, <1>2, <1>3, <1>4, <1>5, <2>1 DEF TypeOK
<1>7. HoldInv'
  BY <1>1, <1>2 DEF HoldInv, TypeOK
<1>8. FreeInv'
  BY <1>1, <1>2, <1>3, <1>5 DEF FreeInv, HoldInv, TypeOK
<1>9. \A d \in Conns \ {c} : pc[d] # "idle" => Response(d)' = Response(d)
  BY <1>1, <1>2, <1>5 DEF HoldInv, TypeOK, Response
<1>10. AgreeInv'
  BY <1>1, <1>9 DEF AgreeInv, TypeOK
<1>11. WroteInv'
  <2> SUFFICES ASSUME NEW d \in Conns
               PROVE  /\ wrote'[d] # "after"
                      /\ pc'[d] \in {"conf", "chain"} => wrote'[d] = "no"
                      /\ pc'[d] = "plugin" /\ wrote'[d] = "yes" =>
                           HasChange(Response(d)')
    BY DEF WroteInv, HasChange
  <2>1. CASE d = c
    BY <1>1, <2>1 DEF TypeOK
  <2>2. CASE d # c
    BY <1>1, <1>9, <2>2 DEF WroteInv, TypeOK
  <2> QED
    BY <2>1, <2>2
<1>12. ReplyInv'
  BY <1>1, <1>9 DEF ReplyInv, Replied, TypeOK
<1> QED
  BY <1>6, <1>7, <1>8, <1>10, <1>11, <1>12

(* The steps of HTTPRespCall around the plugins touch no object.           *)
LEMMA HandlerStep ==
  ASSUME IInv, NEW c \in Conns,
         \/ GetRuleConf(c) \/ RunPlugin(c) \/ PluginReturns(c)
         \/ PluginPanics(c) \/ ChainEnds(c) \/ BuildReply(c)
  PROVE  IInv'
<1> USE DEF IInv
<1>1. /\ UNCHANGED <<call, resp, ops, response, respPool, rec>>
      /\ DOMAIN got' = Conns /\ DOMAIN reply' = Conns
  BY DEF GetRuleConf, RunPlugin, PluginReturns, PluginPanics, ChainEnds, BuildReply,
         handler, history, TypeOK
<1>2. /\ pc[c] # "idle"
      /\ \E step \in {"chain", "plugin", "build", "reuse"} :
           pc' = [pc EXCEPT ![c] = step]
  BY DEF GetRuleConf, RunPlugin, PluginReturns, PluginPanics, ChainEnds, BuildReply,
         Goto, TypeOK
<1>3. \A d \in Conns : Response(d)' = Response(d)
  BY <1>1 DEF Response
<1>4. next' \in [Conns -> 1 .. Len(Chain) + 1]
  <2>1. CASE RunPlugin(c)
    <3>1. next[c] \in 1 .. Len(Chain) /\ Len(Chain) \in Nat
      BY <2>1, RespAssumption DEF RunPlugin
    <3> QED
      BY <2>1, <3>1 DEF RunPlugin, TypeOK
  <2>2. CASE ~RunPlugin(c)
    BY <2>2 DEF GetRuleConf, PluginReturns, PluginPanics, ChainEnds, BuildReply,
                handler, TypeOK
  <2> QED
    BY <2>1, <2>2
<1>5. wrote' = wrote
  <2>1. CASE RunPlugin(c)
    BY <2>1 DEF RunPlugin, WroteInv, TypeOK
  <2>2. CASE ~RunPlugin(c)
    BY <2>2 DEF GetRuleConf, PluginReturns, PluginPanics, ChainEnds, BuildReply,
                history
  <2> QED
    BY <2>1, <2>2
<1>6. TypeOK'
  <2>1. pc' \in [Conns -> {"idle", "conf", "chain", "plugin", "build", "reuse"}]
    BY <1>2 DEF TypeOK
  <2> QED
    BY <1>1, <1>4, <1>5, <2>1 DEF TypeOK
<1>7. HoldInv'
  BY <1>1, <1>2, <1>5 DEF HoldInv, TypeOK
<1>8. FreeInv'
  BY <1>1 DEF FreeInv
<1>9. AgreeInv'
  BY <1>1, <1>2, <1>3 DEF AgreeInv, TypeOK
<1>10. WroteInv'
  <2>1. pc'[c] = "chain" => wrote[c] = "no"
    BY DEF GetRuleConf, RunPlugin, PluginReturns, PluginPanics, ChainEnds,
           BuildReply, Goto, WroteInv, TypeOK
  <2>2. pc'[c] = "plugin" => wrote[c] = "no"
    BY DEF GetRuleConf, RunPlugin, PluginReturns, PluginPanics, ChainEnds,
           BuildReply, Goto, WroteInv, TypeOK
  <2> QED
    BY <1>2, <1>3, <1>5, <2>1, <2>2 DEF WroteInv, TypeOK
<1>11. ReplyInv'
  <2>1. pc'[c] = "reuse" =>
          \/ reply'[c].kind \in {"error", "panic"}
          \/ reply'[c] = FetchChanges(Response(c))
    BY DEF GetRuleConf, RunPlugin, PluginReturns, PluginPanics, ChainEnds,
           BuildReply, Goto, TypeOK
  <2>2. \A d \in Conns \ {c} : pc'[d] = pc[d] /\ reply'[d] = reply[d]
    BY <1>2 DEF GetRuleConf, RunPlugin, PluginReturns, PluginPanics, ChainEnds,
           BuildReply, TypeOK
  <2> QED
    BY <1>3, <2>1, <2>2 DEF ReplyInv, Replied
<1> QED
  BY <1>6, <1>7, <1>8, <1>9, <1>10, <1>11

LEMMA IInvStep == IInv /\ [Next]_vars => IInv'
<1> SUFFICES ASSUME IInv, [Next]_vars PROVE IInv'
  OBVIOUS
<1>1. CASE UNCHANGED vars
  BY <1>1
  DEF vars, handler, history, IInv, TypeOK, HoldInv, FreeInv, AgreeInv, WroteInv,
      ReplyInv, Replied, Response
<1> QED
  BY <1>1, CreateStep, CreatePanicsStep, HandlerStep, OperationStep, ReuseStep
  DEF Next

LEMMA IInvAlways == Spec => []IInv
BY IInvInit, IInvStep, PTL DEF Spec

(* Handlers, objects and pool keep their types, whatever the plugins do.   *)
THEOREM TypeCorrect == Spec => []TypeOK
<1>1. IInv => TypeOK
  BY DEF IInv
<1> QED
  BY <1>1, IInvAlways, PTL

(* The reply of every call has its id and the status and body its own      *)
(* plugins wrote: Reset and the pool leak nothing between connections.     *)
THEOREM ReplyIsIntent == Spec => []RespIsIntent
<1>1. ASSUME IInv, NEW c \in Conns, Replied(c)
      PROVE  /\ reply[c].id = call[c].id
             /\ reply[c].statusCode = rec[c].statusCode
             /\ reply[c].body = rec[c].Body
  <2>1. /\ reply[c] = FetchChanges(Response(c)) /\ call[c] \in Call
        /\ Agrees(Response(c), rec[c], call[c], c)
    BY <1>1 DEF IInv, HoldInv, ReplyInv, AgreeInv, Replied
  <2> DEFINE o == Response(c)
             m == call[c]
  <2>2. /\ Value(m.id, "new") # Nil /\ Value(m.id, "new").val = "new"
        /\ Value(m.id, "empty") # Nil /\ Value(m.id, "empty").val = "empty"
    BY <2>1, RespAssumption DEF Value, Info, Call
  <2>3. /\ reply[c].id = o.r.id /\ reply[c].statusCode = o.statusCode
        /\ reply[c].body = IF o.body # Nil /\ o.body.val = "empty" THEN Nil
                           ELSE o.body
    BY <2>1 DEF FetchChanges
  <2> QED
    BY <2>1, <2>2, <2>3 DEF Agrees
<1>2. IInv => RespIsIntent
  BY <1>1 DEF RespIsIntent
<1> QED
  BY <1>2, IInvAlways, PTL

(* Whatever a plugin writes, HasChange sees it and the chain ends.         *)
THEOREM ChainStops == Spec => []RespChainStops
<1>1. IInv => RespChainStops
  BY DEF IInv, WroteInv, RespChainStops
<1> QED
  BY <1>1, IInvAlways, PTL

-----------------------------------------------------------------------------
(* The headers.  An empty value is not told from none by Get and Del, so   *)
(* that the results below are about values that are not empty.             *)

LEMMA TracksNew ==
  ASSUME NEW t \in Table PROVE Tracks(newHeader(t), t, t)
BY DEF Tracks, newHeader, NoValues

LEMMA TracksSet ==
  ASSUME NEW h \in HeaderRecord, NEW sent \in Table, NEW want \in Table,
         Tracks(h, sent, want), NEW key \in Key, NEW v \in Values
  PROVE  Tracks(Set(h, key, v), sent, [want EXCEPT ![key.name] = <<v>>])
<1> SUFFICES ASSUME NEW n \in Names
             PROVE  LET g == Set(h, key, v)
                        x == [want EXCEPT ![key.name] = <<v>>] IN
                    /\ x[n] = IF g.hdr[n] = <<>> THEN g.rawHdr[n] ELSE g.hdr[n]
                    /\ g.hdr[n] = <<>> \/ \E u \in Values : g.hdr[n] = <<u>>
                    /\ g.rawHdr[n] \in {<<>>, sent[n]}
                    /\ (\E k \in g.deleteField : k.name = n) => g.rawHdr[n] = <<>>
  BY DEF Tracks
<1>1. /\ Set(h, key, v).hdr = [h.hdr EXCEPT ![key.name] = <<v>>]
      /\ Set(h, key, v).rawHdr = h.rawHdr
      /\ Set(h, key, v).deleteField = h.deleteField \ {key}
  BY DEF Set, HeaderRecord
<1>2. <<v>> # <<>> /\ key.name \in Names
  BY DEF Key
<1>3. CASE n = key.name
  BY <1>1, <1>2, <1>3 DEF Tracks, HeaderRecord, Table
<1>4. CASE n # key.name
  BY <1>1, <1>2, <1>4 DEF Tracks, HeaderRecord, Table
<1> QED
  BY <1>3, <1>4

LEMMA TracksDel ==
  ASSUME Empty \notin Values,
         NEW h \in HeaderRecord, NEW sent \in Table, NEW want \in Table,
         Tracks(h, sent, want), NEW key \in Key
  PROVE  Tracks(Del(h, key), sent, [want EXCEPT ![key.name] = <<>>])
<1> SUFFICES ASSUME NEW n \in Names
             PROVE  LET g == Del(h, key)
                        x == [want EXCEPT ![key.name] = <<>>] IN
                    /\ x[n] = IF g.hdr[n] = <<>> THEN g.rawHdr[n] ELSE g.hdr[n]
                    /\ g.hdr[n] = <<>> \/ \E u \in Values : g.hdr[n] = <<u>>
                    /\ g.rawHdr[n] \in {<<>>, sent[n]}
                    /\ (\E k \in g.deleteField : k.name = n) => g.rawHdr[n] = <<>>
  BY DEF Tracks
<1>1. key.name \in Names
  BY DEF Key
<1>2. First(h.rawHdr[key.name]) # Empty <=> h.rawHdr[key.name] # <<>>
  <2>1. h.rawHdr[key.name] \in Seq(Values)
    BY <1>1 DEF HeaderRecord, Table
  <2>2. h.rawHdr[key.name] # <<>> => h.rawHdr[key.name][1] \in Values
    BY <2>1
  <2> QED
    BY <2>2 DEF First
<1>3. /\ Del(h, key).hdr = [h.hdr EXCEPT ![key.name] = <<>>]
      /\ Del(h, key).rawHdr = [h.rawHdr EXCEPT ![key.name] = <<>>]
      /\ Del(h, key).deleteField \subseteq h.deleteField \cup {key}
  BY <1>1, <1>2 DEF Del, HeaderRecord, Table
<1>4. CASE n = key.name
  BY <1>1, <1>3, <1>4 DEF Tracks, HeaderRecord, Table
<1>5. CASE n # key.name
  BY <1>1, <1>3, <1>5 DEF Tracks, HeaderRecord, Table
<1> QED
  BY <1>4, <1>5

(* What Get returns is the first of the wanted values.                     *)
LEMMA TracksGet ==
  ASSUME Empty \notin Values,
         NEW h \in HeaderRecord, NEW sent \in Table, NEW want \in Table,
         Tracks(h, sent, want), NEW key \in Key
  PROVE  Get(h, key) = First(want[key.name])
<1>1. key.name \in Names
  BY DEF Key
<1>2. CASE h.hdr[key.name] = <<>>
  BY <1>1, <1>2 DEF Tracks, Get, First
<1>3. CASE h.hdr[key.name] # <<>>
  <2>1. PICK v \in Values : h.hdr[key.name] = <<v>>
    BY <1>1, <1>3 DEF Tracks
  <2>2. First(h.hdr[key.name]) = v /\ v # Empty
    BY <2>1 DEF First
  <2> QED
    BY <1>1, <1>3, <2>2 DEF Tracks, Get
<1> QED
  BY <1>2, <1>3

LEMMA HeaderAgreesWith ==
  ASSUME Empty \notin Values,
         NEW o \in ResponseRecord, NEW w \in RecorderRecord, NEW m \in Call,
         NEW c \in Conns, Agrees(o, w, m, c), HeaderAgrees(o, w, m), NEW key \in Key
  PROVE  /\ HeaderAgrees(WithHeader(o), w, m)
         /\ Get(WithHeader(o).hdr, key) = RecGet(w, key)
         /\ \A v \in Values :
              HeaderAgrees(WithSet(o, key, v), RecSet(w, key, v), m)
         /\ HeaderAgrees([WithHeader(o) EXCEPT !.hdr = Del(@, key)],
                         RecDel(w, key), m)
<1> DEFINE h == WithHeader(o).hdr
<1>1. h \in HeaderRecord /\ h # Nil /\ WithHeader(o) \in ResponseRecord
  BY WithHeaderFacts, RespAssumption
<1>2. m.hdr \in Table /\ w.HeaderMap \in Table
  BY TableFacts DEF Call, RecorderRecord
<1>3. Tracks(h, m.hdr, w.HeaderMap)
  <2>1. CASE o.hdr = Nil
    <3>1. h = newHeader(m.hdr) /\ w.HeaderMap = m.hdr
      BY <2>1, WithHeaderFacts DEF HeaderAgrees
    <3> QED
      BY <1>2, <3>1, TracksNew
  <2>2. CASE o.hdr # Nil
    BY <2>2, WithHeaderFacts DEF HeaderAgrees
  <2> QED
    BY <2>1, <2>2
<1>4. Get(h, key) = RecGet(w, key)
  BY <1>1, <1>2, <1>3, TracksGet DEF RecGet
<1>5. HeaderAgrees(WithHeader(o), w, m)
  BY <1>1, <1>3 DEF HeaderAgrees
<1>6. ASSUME NEW v \in Values
      PROVE  HeaderAgrees(WithSet(o, key, v), RecSet(w, key, v), m)
  <2>1. WithSet(o, key, v).hdr = Set(h, key, v)
    BY <1>1 DEF WithSet, ResponseRecord
  <2>2. RecSet(w, key, v).HeaderMap = [w.HeaderMap EXCEPT ![key.name] = <<v>>]
    BY DEF RecSet, RecorderRecord
  <2>3. Tracks(Set(h, key, v), m.hdr, [w.HeaderMap EXCEPT ![key.name] = <<v>>])
    BY <1>1, <1>2, <1>3, TracksSet
  <2>4. Set(h, key, v) # Nil
    BY <1>1, SetDelFacts, RespAssumption
  <2> QED
    BY <2>1, <2>2, <2>3, <2>4 DEF HeaderAgrees
<1>7. HeaderAgrees([WithHeader(o) EXCEPT !.hdr = Del(@, key)], RecDel(w, key), m)
  <2>1. [WithHeader(o) EXCEPT !.hdr = Del(@, key)].hdr = Del(h, key)
    BY <1>1 DEF ResponseRecord
  <2>2. RecDel(w, key).HeaderMap = [w.HeaderMap EXCEPT ![key.name] = <<>>]
    BY DEF RecDel, RecorderRecord
  <2>3. Tracks(Del(h, key), m.hdr, [w.HeaderMap EXCEPT ![key.name] = <<>>])
    BY <1>1, <1>2, <1>3, TracksDel
  <2>4. Del(h, key) # Nil
    BY <1>1, SetDelFacts, RespAssumption
  <2> QED
    BY <2>1, <2>2, <2>3, <2>4 DEF HeaderAgrees
<1> QED
  BY <1>4, <1>5, <1>6, <1>7

HInv == HeaderInv /\ RespInfoIsOwn

LEMMA HeaderReads ==
  ASSUME IInv, HInv, NEW c \in Conns, NEW o, NEW v, NEW truth,
         Reads(c, o, v, truth), HeaderAgrees(o, rec[c], call[c]), v = truth
  PROVE  HInv'
<1>1. /\ pc[c] = "plugin" /\ UNCHANGED <<pc, handler, respPool, reply>>
      /\ response' = [response EXCEPT ![resp[c]] = o] /\ UNCHANGED history
      /\ got' = [got EXCEPT ![c] = [told |-> v, truth |-> truth]]
  BY DEF Reads, Operations
<1>2. resp[c] \in Resps /\ resp[c] # Nil
  BY <1>1, RespAssumption DEF IInv, HoldInv
<1>3. \A d \in Conns : pc[d] # "idle" =>
         Response(d)' = IF d = c THEN o ELSE Response(d)
  BY <1>1, <1>2 DEF IInv, HoldInv, TypeOK, Response, handler
<1>4. HeaderInv'
  BY <1>1, <1>3 DEF HInv, HeaderInv, handler, history
<1>5. RespInfoIsOwn'
  BY <1>1 DEF HInv, RespInfoIsOwn, IInv, TypeOK
<1> QED
  BY <1>4, <1>5 DEF HInv

LEMMA HeaderWrites ==
  ASSUME IInv, HInv, NEW c \in Conns, NEW n, NEW o, NEW w,
         Writes(c, n, o, w), HeaderAgrees(o, w, call[c])
  PROVE  HInv'
<1>1. /\ pc[c] = "plugin" /\ UNCHANGED <<pc, handler, respPool, reply>>
      /\ response' = [response EXCEPT ![resp[c]] = o]
      /\ rec' = [rec EXCEPT ![c] = w] /\ got' = got
  BY DEF Writes, Operations
<1>2. resp[c] \in Resps /\ resp[c] # Nil
  BY <1>1, RespAssumption DEF IInv, HoldInv
<1>3. \A d \in Conns : pc[d] # "idle" =>
         Response(d)' = IF d = c THEN o ELSE Response(d)
  BY <1>1, <1>2 DEF IInv, HoldInv, TypeOK, Response, handler
<1>4. HeaderInv'
  BY <1>1, <1>3 DEF HInv, HeaderInv, handler, IInv, TypeOK
<1>5. RespInfoIsOwn'
  BY <1>1 DEF HInv, RespInfoIsOwn
<1> QED
  BY <1>4, <1>5 DEF HInv

LEMMA HeaderRewrite ==
  ASSUME Empty \notin Values, IInv, HInv, NEW c \in Conns, NEW cfg \in RewriteConf,
         NEW key \in Key, NEW v \in Values, ResponseRewrite(c, cfg, key, v)
  PROVE  HInv'
<1> DEFINE m == call[c]
           o1 == IF cfg.status THEN WithStatus(Response(c), 200) ELSE Response(c)
           w1 == IF cfg.status THEN RecWriteHeader(rec[c], 200) ELSE rec[c]
           o2 == WithSet(o1, key, v)
           w3 == RecSet(w1, key, v)
           o3 == IF cfg.filters \in {"match", "noMatch"} THEN WithOriginBody(o2)
                 ELSE o2
           Good(o, w) == /\ o \in ResponseRecord /\ w \in RecorderRecord
                         /\ Agrees(o, w, m, c) /\ HeaderAgrees(o, w, m)
<1>1. pc[c] = "plugin"
  BY DEF ResponseRewrite, Writes, Operations
<1>2. m \in Call /\ Good(Response(c), rec[c])
  BY <1>1, InPlugin DEF HInv, HeaderInv
<1>3. Good(o1, w1)
  BY <1>2, WithStatusFacts DEF HeaderAgrees
<1>4. Good(o2, w3)
  <2> HIDE DEF o1, w1
  <2> QED
    BY <1>2, <1>3, WithSetFacts, HeaderAgreesWith
<1>5. Good(o3, w3)
  <2> HIDE DEF o2, w3
  <2> QED
    BY <1>2, <1>4, WithOriginBodyFacts DEF HeaderAgrees
<1>6. CASE cfg.body = Nil
  <2>1. Writes(c, 2, o3, w3)
    BY <1>6 DEF ResponseRewrite
  <2> HIDE DEF o3, w3
  <2> QED
    BY <1>5, <2>1, HeaderWrites
<1>7. CASE cfg.body # Nil
  <2>1. cfg.body \in {"new", "empty"}
    BY <1>7 DEF RewriteConf
  <2>2. Writes(c, 2, WithBody(o3, cfg.body), RecWrite(w3, cfg.body))
    BY <1>7 DEF ResponseRewrite
  <2> HIDE DEF o3, w3
  <2>3. HeaderAgrees(WithBody(o3, cfg.body), RecWrite(w3, cfg.body), m)
    BY <1>2, <1>5, <2>1, WithBodyFacts DEF HeaderAgrees
  <2> QED
    BY <2>2, <2>3, HeaderWrites
<1> QED
  BY <1>6, <1>7

LEMMA HeaderOperation ==
  ASSUME Empty \notin Values, IInv, HInv, NEW c \in Conns, Plugin(c)
  PROVE  HInv'
<1> DEFINE o == Response(c)
           w == rec[c]
<1>1. /\ o \in ResponseRecord /\ w \in RecorderRecord /\ call[c] \in Call
      /\ Agrees(o, w, call[c], c)
  BY PluginRuns, InPlugin
<1>2. HeaderAgrees(o, w, call[c])
  BY PluginRuns DEF HInv, HeaderInv
<1> HIDE DEF o, w
<1>3. ASSUME NEW key \in Key, HeaderGet(c, key) PROVE HInv'
  <2>1. Reads(c, WithHeader(o), Get(WithHeader(o).hdr, key), RecGet(w, key))
    BY <1>3 DEF HeaderGet, o, w
  <2>2. /\ HeaderAgrees(WithHeader(o), w, call[c])
        /\ Get(WithHeader(o).hdr, key) = RecGet(w, key)
    BY <1>1, <1>2, HeaderAgreesWith
  <2> QED
    BY <2>1, <2>2, HeaderReads DEF w
<1>4. ASSUME NEW key \in Key, HeaderDel(c, key) PROVE HInv'
  <2>1. Writes(c, 1, [WithHeader(o) EXCEPT !.hdr = Del(@, key)], RecDel(w, key))
    BY <1>4 DEF HeaderDel, o, w
  <2>2. HeaderAgrees([WithHeader(o) EXCEPT !.hdr = Del(@, key)], RecDel(w, key),
                     call[c])
    BY <1>1, <1>2, HeaderAgreesWith
  <2> QED
    BY <2>1, <2>2, HeaderWrites
<1>5. ASSUME NEW key \in Key, NEW v \in Values, HeaderSet(c, key, v) PROVE HInv'
  <2>1. Writes(c, 1, WithSet(o, key, v), RecSet(w, key, v))
    BY <1>5 DEF HeaderSet, o, w
  <2>2. HeaderAgrees(WithSet(o, key, v), RecSet(w, key, v), call[c])
    BY <1>1, <1>2, HeaderAgreesWith
  <2> QED
    BY <2>1, <2>2, HeaderWrites
<1>6. ASSUME StatusCode(c) PROVE HInv'
  <2> DEFINE v == IF o.statusCode = 0 THEN Value(o.r.id, "status") ELSE o.statusCode
  <2>1. Reads(c, o, v, RecStatusCode(w))
    BY <1>6 DEF StatusCode, o, w
  <2>2. v = RecStatusCode(w)
    BY <1>1 DEF RecStatusCode, Agrees
  <2> QED
    BY <1>2, <2>1, <2>2, HeaderReads DEF w
<1>7. ASSUME Var(c) PROVE HInv'
  <2>1. Reads(c, WithVar(o), WithVar(o).vars, RecVar(w))
    BY <1>7 DEF Var, o, w
  <2>2. HeaderAgrees(WithVar(o), w, call[c]) /\ WithVar(o).vars = RecVar(w)
    BY <1>1, <1>2, WithVarFacts DEF HeaderAgrees
  <2> QED
    BY <2>1, <2>2, HeaderReads DEF w
<1>8. ASSUME ReadBody(c) PROVE HInv'
  <2>1. Reads(c, WithOriginBody(o), WithOriginBody(o).originBody, RecReadBody(w))
    BY <1>8 DEF ReadBody, o, w
  <2>2. /\ HeaderAgrees(WithOriginBody(o), w, call[c])
        /\ WithOriginBody(o).originBody = RecReadBody(w)
    BY <1>1, <1>2, WithOriginBodyFacts DEF HeaderAgrees
  <2> QED
    BY <2>1, <2>2, HeaderReads DEF w
<1>9. ASSUME NEW code \in {302, 502}, WriteHeader(c, code) PROVE HInv'
  <2>1. Writes(c, 1, WithStatus(o, code), RecWriteHeader(w, code))
    BY <1>9 DEF WriteHeader, o, w
  <2>2. HeaderAgrees(WithStatus(o, code), RecWriteHeader(w, code), call[c])
    BY <1>1, <1>2, WithStatusFacts DEF HeaderAgrees
  <2> QED
    BY <2>1, <2>2, HeaderWrites
<1>10. ASSUME NEW b \in {"new", "empty"}, Write(c, b) PROVE HInv'
  <2>1. Writes(c, 1, WithBody(o, b), RecWrite(w, b))
    BY <1>10 DEF Write, o, w
  <2>2. HeaderAgrees(WithBody(o, b), RecWrite(w, b), call[c])
    BY <1>1, <1>2, WithBodyFacts DEF HeaderAgrees
  <2> QED
    BY <2>1, <2>2, HeaderWrites
<1> QED
  BY <1>3, <1>4, <1>5, <1>6, <1>7, <1>8, <1>9, <1>10, HeaderRewrite DEF Plugin

LEMMA HeaderStep ==
  ASSUME Empty \notin Values, IInv, HInv, [Next]_vars PROVE HInv'
<1> USE DEF HInv
<1>1. ASSUME NEW c \in Conns, NEW m \in Ids, CreateResponse(c, m) PROVE HInv'
  <2>1. PICK o \in respPool \cup (Resps \ {resp[d] : d \in Conns}), sent \in Tables :
          /\ resp' = [resp EXCEPT ![c] = o]
          /\ call' = [call EXCEPT ![c] = [id |-> m, hdr |-> sent]]
          /\ response' = [response EXCEPT ![o].r = call'[c], ![o].conn = c]
          /\ rec' = [rec EXCEPT ![c] = NewRecorder(m, sent)]
    BY <1>1 DEF CreateResponse
  <2>2. pc[c] = "idle" /\ pc' = [pc EXCEPT ![c] = "conf"] /\ got' = got
    BY <1>1 DEF CreateResponse, Goto
  <2>3. o \in Resps /\ o # Nil /\ \A d \in Conns : resp[d] # o
    BY RespAssumption DEF IInv, HoldInv, TypeOK
  <2>4. response[o].hdr = Nil
    <3>1. response[o] = Reset(response[o])
      BY <2>3 DEF IInv, FreeInv
    <3> QED
      BY <3>1 DEF Reset, NewResponse
  <2>5. /\ Response(c)'.hdr = Nil
        /\ \A d \in Conns \ {c} : Response(d)' = Response(d) \/ pc[d] = "idle"
    BY <2>1, <2>3, <2>4 DEF IInv, HoldInv, TypeOK, Response, ResponseRecord
  <2>6. rec'[c].HeaderMap = sent /\ call'[c].hdr = sent
    BY <2>1 DEF IInv, TypeOK, NewRecorder, NoRec
  <2>7. ASSUME NEW d \in Conns, pc'[d] # "idle"
        PROVE  HeaderAgrees(Response(d)', rec'[d], call'[d])
    <3>1. CASE d = c
      BY <2>5, <2>6, <3>1 DEF HeaderAgrees
    <3>2. CASE d # c
      <4>1. pc[d] # "idle" /\ rec'[d] = rec[d] /\ call'[d] = call[d]
        BY <2>1, <2>2, <2>7, <3>2 DEF IInv, TypeOK
      <4> QED
        BY <2>5, <3>2, <4>1 DEF HeaderInv
    <3> QED
      BY <3>1, <3>2
  <2> QED
    BY <2>2, <2>7 DEF HeaderInv, RespInfoIsOwn, HeaderAgrees, Tracks
<1>2. ASSUME NEW c \in Conns, CreatePanics(c) PROVE HInv'
  <2>1. PICK o \in respPool : response' = [response EXCEPT ![o] = NewResponse]
    BY <1>2 DEF CreatePanics
  <2>2. UNCHANGED <<pc, handler, got, history>>
    BY <1>2 DEF CreatePanics
  <2>3. \A d \in Conns : pc[d] # "idle" => Response(d)' = Response(d)
    BY <2>1, <2>2 DEF IInv, HoldInv, TypeOK, Response, handler
  <2> QED
    BY <2>2, <2>3 DEF HeaderInv, RespInfoIsOwn, handler, history
<1>3. ASSUME NEW c \in Conns,
             \/ GetRuleConf(c) \/ RunPlugin(c) \/ PluginReturns(c)
             \/ PluginPanics(c) \/ ChainEnds(c) \/ BuildReply(c)
      PROVE  HInv'
  <2>1. /\ pc[c] # "idle" /\ UNCHANGED <<call, resp, response, rec>>
        /\ \A d \in Conns : pc[d] = "idle" => pc'[d] = "idle"
        /\ got' = got \/ got' = [got EXCEPT ![c] = NoGot]
    BY <1>3
    DEF GetRuleConf, RunPlugin, PluginReturns, PluginPanics, ChainEnds, BuildReply,
        Goto, handler, history, IInv, TypeOK
  <2>2. RespInfoIsOwn'
    <3>1. NoGot.told = NoGot.truth
      BY DEF NoGot
    <3>2. \A d \in Conns : got'[d] \in {got[d], NoGot}
      BY <2>1 DEF IInv, TypeOK
    <3> QED
      BY <3>1, <3>2 DEF RespInfoIsOwn
  <2> QED
    BY <2>1, <2>2 DEF HeaderInv, Response
<1>4. ASSUME NEW c \in Conns, ReuseResponse(c) PROVE HInv'
  <2>1. /\ pc[c] = "reuse" /\ pc' = [pc EXCEPT ![c] = "idle"] /\ got' = got
        /\ response' = [response EXCEPT ![resp[c]] = Reset(@)]
        /\ resp' = [resp EXCEPT ![c] = Nil]
        /\ call' = [call EXCEPT ![c] = Nil]
        /\ rec' = [rec EXCEPT ![c] = NoRec]
    BY <1>4 DEF ReuseResponse, Goto
  <2>2. resp[c] \in Resps /\ resp[c] # Nil
    BY <2>1, RespAssumption DEF IInv, HoldInv
  <2>3. \A d \in Conns \ {c} : pc[d] # "idle" => Response(d)' = Response(d)
    BY <2>1, <2>2 DEF IInv, HoldInv, TypeOK, Response
  <2> QED
    BY <2>1, <2>3 DEF HeaderInv, RespInfoIsOwn, IInv, TypeOK
<1>5. CASE UNCHANGED vars
  BY <1>5 DEF vars, handler, history, HeaderInv, RespInfoIsOwn, Response
<1> QED
  BY <1>1, <1>2, <1>3, <1>4, <1>5, HeaderOperation DEF Next

LEMMA HInvAlways == ASSUME Empty \notin Values PROVE Spec => [](IInv /\ HInv)
<1>1. Init => HInv
  BY DEF Init, HInv, HeaderInv, RespInfoIsOwn, NoGot
<1>2. IInv /\ HInv /\ [Next]_vars => HInv'
  BY HeaderStep
<1> QED
  BY <1>1, <1>2, IInvInit, IInvStep, PTL DEF Spec

(* With no empty header value about, what a plugin is told is what the     *)
(* recorder of its own response would say.  (Set to the empty value, a     *)
(* header would be told with its raw value.)                               *)
THEOREM ToldIsOwn == ASSUME Empty \notin Values PROVE Spec => []RespInfoIsOwn
<1>1. HInv => RespInfoIsOwn
  BY DEF HInv
<1> QED
  BY <1>1, HInvAlways, PTL

(* APISIX's side of HeaderBuild: the set entries override the deleted ones. *)
LEMMA ApplyBuilt ==
  ASSUME NEW h \in HeaderRecord, NEW t \in Table, NEW n \in Names
  PROVE  Apply(t, HeaderBuild(h))[n] =
           IF h.hdr[n] # <<>> /\ (h.rawHdr[n] = <<>> \/ h.rawHdr[n][1] # h.hdr[n][1])
             THEN <<h.hdr[n][1]>>
           ELSE IF \E key \in h.deleteField : key.name = n THEN <<>>
           ELSE t[n]
<1> DEFINE dels == {[name |-> key.name, values |-> <<>>] : key \in h.deleteField}
           Sent(x) == h.hdr[x] # <<>>
                        /\ (h.rawHdr[x] = <<>> \/ h.rawHdr[x][1] # h.hdr[x][1])
           sets == {[name |-> x, values |-> <<h.hdr[x][1]>>] :
                      x \in {y \in Names : Sent(y)}}
           t1 == ApplyGroup(t, dels)
<1>1. HeaderBuild(h) = <<dels, sets>>
  BY DEF HeaderBuild
<1>2. Apply(t, HeaderBuild(h)) = ApplyGroup(t1, sets)
  BY <1>1 DEF Apply
<1>3. t1[n] = IF \E key \in h.deleteField : key.name = n THEN <<>> ELSE t[n]
  <2>1. (\E e \in dels : e.name = n) <=> \E key \in h.deleteField : key.name = n
    <3>1. ASSUME NEW key \in h.deleteField, key.name = n
          PROVE  \E e \in dels : e.name = n
      <4>1. [name |-> key.name, values |-> <<>>] \in dels
        OBVIOUS
      <4> QED
        BY <3>1, <4>1
    <3>2. ASSUME NEW e \in dels, e.name = n
          PROVE  \E key \in h.deleteField : key.name = n
      BY <3>2
    <3> QED
      BY <3>1, <3>2
  <2>2. \A e \in dels : e.values = <<>>
    OBVIOUS
  <2> QED
    BY <2>1, <2>2 DEF ApplyGroup
<1>4. ApplyGroup(t1, sets)[n] = IF Sent(n) THEN <<h.hdr[n][1]>> ELSE t1[n]
  <2> HIDE DEF t1, Sent
  <2>1. (\E e \in sets : e.name = n) <=> Sent(n)
    <3>1. ASSUME Sent(n) PROVE \E e \in sets : e.name = n
      <4>1. [name |-> n, values |-> <<h.hdr[n][1]>>] \in sets
        BY <3>1
      <4> QED
        BY <4>1
    <3>2. ASSUME NEW e \in sets, e.name = n PROVE Sent(n)
      BY <3>2
    <3> QED
      BY <3>1, <3>2
  <2>2. \A e \in sets : e.name = n => e.values = <<h.hdr[n][1]>>
    OBVIOUS
  <2> HIDE DEF sets
  <2> QED
    BY <2>1, <2>2 DEF ApplyGroup
<1> QED
  BY <1>2, <1>3, <1>4

(* A single-valued header that plugins set arrives; one they left alone    *)
(* keeps its value; one they deleted has no value set in between.  (With   *)
(* several values of a name, setting the first of them sends nothing.)     *)
THEOREM HeaderArrives ==
  ASSUME Empty \notin Values, MaxRaw <= 1 PROVE Spec => []SetArrives
<1>1. ASSUME IInv, HInv, NEW c \in Conns, Replied(c), NEW n \in Names
      PROVE  \/ Effect(c)[n] = rec[c].HeaderMap[n]
             \/ rec[c].HeaderMap[n] = <<>> /\ Effect(c)[n] = call[c].hdr[n]
  <2> DEFINE o == Response(c)
             h == o.hdr
             sent == call[c].hdr
             want == rec[c].HeaderMap
  <2>1. /\ reply[c] = FetchChanges(o) /\ HeaderAgrees(o, rec[c], call[c])
        /\ o \in ResponseRecord /\ call[c] \in Call
    BY <1>1 DEF IInv, HInv, TypeOK, HoldInv, ReplyInv, HeaderInv, Replied, Response
  <2>2. sent \in Table /\ sent \in Tables
    BY <2>1, TableFacts DEF Call
  <2>3. CASE h = Nil
    <3>1. reply[c].hdr = <<{}, {}>> /\ want = sent
      BY <2>1, <2>3 DEF FetchChanges, HeaderAgrees
    <3>2. Apply(sent, <<{}, {}>>)[n] = sent[n]
      BY DEF Apply, ApplyGroup
    <3> QED
      BY <3>1, <3>2 DEF Effect
  <2>4. CASE h # Nil
    <3>1. /\ reply[c].hdr = HeaderBuild(h) /\ h \in HeaderRecord
          /\ Tracks(h, sent, want)
      BY <2>1, <2>4 DEF FetchChanges, HeaderAgrees, ResponseRecord
    <3>2. Effect(c)[n] = Apply(sent, HeaderBuild(h))[n]
      BY <3>1 DEF Effect
    <3> HIDE DEF h, sent, want, o
    <3>3. /\ want[n] = IF h.hdr[n] = <<>> THEN h.rawHdr[n] ELSE h.hdr[n]
          /\ h.hdr[n] = <<>> \/ \E v \in Values : h.hdr[n] = <<v>>
          /\ h.rawHdr[n] \in {<<>>, sent[n]}
          /\ (\E key \in h.deleteField : key.name = n) => h.rawHdr[n] = <<>>
      BY <3>1 DEF Tracks
    <3>4. sent[n] # <<>> => sent[n] = <<sent[n][1]>>
      <4>1. PICK k \in 0 .. MaxRaw : sent[n] \in [1 .. k -> Values]
        BY <2>2 DEF Tables
      <4>2. k = 0 \/ k = 1
        BY RespAssumption
      <4> QED
        BY <4>1, <4>2
    <3>5. h.hdr[n] # <<>> => h.hdr[n] = <<h.hdr[n][1]>>
      BY <3>3
    <3>6. Effect(c)[n] =
            IF h.hdr[n] # <<>> /\ (h.rawHdr[n] = <<>> \/ h.rawHdr[n][1] # h.hdr[n][1])
              THEN <<h.hdr[n][1]>>
            ELSE IF \E key \in h.deleteField : key.name = n THEN <<>>
            ELSE sent[n]
      BY <2>2, <3>1, <3>2, ApplyBuilt
    <3>7. \/ Effect(c)[n] = want[n]
          \/ want[n] = <<>> /\ Effect(c)[n] = sent[n]
      BY <3>3, <3>4, <3>5, <3>6
    <3> QED
      BY <3>7 DEF want, sent
  <2> QED
    BY <2>3, <2>4
<1>2. IInv /\ HInv => SetArrives
  BY <1>1 DEF SetArrives
<1> QED
  BY <1>2, HInvAlways, PTL
=============================================================================
