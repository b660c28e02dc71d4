------------------------------ MODULE HandleConn ------------------------------
(***************************************************************************)
(* The RPC loop of a connection: handleConn, dispatchRPC and the builders  *)
(* all connections share through util.builderPool.                         *)
(*                                                                         *)
(* Every accepted connection has a goroutine that reads a frame, runs the  *)
(* handler of its type, writes the reply and returns the reply's builder   *)
(* to the pool.  While it filters, a plugin may ask APISIX for more        *)
(* (askExtraInfo): question and answer travel on the same connection as    *)
(* the call they belong to.  APISIX (external) has one call under way on a *)
(* connection, answers questions, and may hang up at any moment.           *)
(***************************************************************************)
EXTENDS Integers, Sequences

CONSTANTS
  Conns,       \* connections, one goroutine each
  Builders,    \* builders in memory
  NoBuilder,
  Calls,       \* the calls APISIX makes on a connection: [ty, data]
  NoCall,
  Sizes,       \* sizes of the replies to HTTPReqCall and HTTPRespCall
  LenSpace,    \* values the 3 length bytes of a header can take (2^24)
  MaxAsks      \* bound: questions the plugins of one call ask

\* The RPC types with a handler (typeHandlerMap).
Handled == {"prepare", "req", "resp"}

\* What becomes of a call's bytes: "good" ones are served, "bad" ones (an empty
\* body included) make the handler panic, "unknown" ones carry a dead token.
Data == {"good", "bad", "unknown"}

\* The frames APISIX calls with, of any type and with any data.
CallRecord == [ty : Handled \cup {"other"}, data : Data]

ASSUME ConnAssumption ==
  /\ Calls \in [Conns -> SUBSET CallRecord]
  /\ \A c \in Conns : NoCall \notin Calls[c]
  /\ NoBuilder \notin Builders
  /\ LenSpace \in Nat \ {0}
  /\ Sizes \subseteq Nat
  /\ MaxAsks \in Nat

\* 2<<24 - 1
MaxDataSize == 2 * LenSpace - 1

VARIABLES
  in,        \* frames on their way to the runner
  out,       \* frames on their way to APISIX
  peer,      \* TRUE while APISIX keeps its end open
  want,      \* the call APISIX waits for, or NoCall
  pc,        \* where the goroutine is
  call,      \* the call it serves
  asks,      \* questions asked for that call
  bd,        \* the builder it holds
  header,    \* type and length it is about to write
  content,   \* what a builder encodes
  pool       \* builderPool

vars == <<in, out, peer, want, pc, call, asks, bd, header, content, pool>>

Blank == [ty |-> "none", conn |-> NoBuilder, call |-> NoCall, size |-> 0,
          question |-> 0]
NoHeader == [ty |-> "none", len |-> 0]

\* The message built on connection c for a call.  Questions are numbered to
\* tell their answers apart; the bytes carry no number.
Message(c, ty, size) ==
  [ty |-> ty, conn |-> c, call |-> call[c], size |-> size,
   question |-> IF ty = "extra" THEN asks[c] + 1 ELSE 0]

Init ==
  /\ in = [c \in Conns |-> <<>>]
  /\ out = [c \in Conns |-> <<>>]
  /\ peer = [c \in Conns |-> TRUE]
  /\ want = [c \in Conns |-> NoCall]
  /\ pc = [c \in Conns |-> "read"]
  /\ call = [c \in Conns |-> NoCall]
  /\ asks = [c \in Conns |-> 0]
  /\ bd = [c \in Conns |-> NoBuilder]
  /\ header = [c \in Conns |-> NoHeader]
  /\ content = [b \in Builders |-> Blank]
  /\ pool = {}

Held == {bd[c] : c \in Conns}

-----------------------------------------------------------------------------
(* APISIX (external).                                                      *)

Send(c, m) ==
  /\ peer[c] /\ want[c] = NoCall /\ pc[c] # "closed"
  /\ want' = [want EXCEPT ![c] = m]
  /\ in' = [in EXCEPT ![c] = Append(@, [ty |-> m.ty, data |-> m.data, question |-> 0])]
  /\ UNCHANGED <<out, peer, pc, call, asks, bd, header, content, pool>>

\* The answer to a call.
TakeReply(c) ==
  /\ peer[c] /\ out[c] # <<>> /\ Head(out[c]).ty # "extra"
  /\ out' = [out EXCEPT ![c] = Tail(@)]
  /\ want' = [want EXCEPT ![c] = NoCall]
  /\ UNCHANGED <<in, peer, pc, call, asks, bd, header, content, pool>>

\* A question, answered with a body the runner can or cannot decode.
AnswerExtra(c) ==
  /\ peer[c] /\ out[c] # <<>> /\ Head(out[c]).ty = "extra"
  /\ out' = [out EXCEPT ![c] = Tail(@)]
  /\ \E d \in {"good", "bad"} :
       in' = [in EXCEPT ![c] = Append(@, [ty |-> "extra", data |-> d,
                                          question |-> Head(out[c]).msg.question])]
  /\ UNCHANGED <<peer, want, pc, call, asks, bd, header, content, pool>>

\* APISIX hangs up, perhaps in the middle of a frame.
HangUp(c) ==
  /\ peer[c]
  /\ peer' = [peer EXCEPT ![c] = FALSE]
  /\ want' = [want EXCEPT ![c] = NoCall]
  /\ out' = [out EXCEPT ![c] = <<>>]
  /\ \/ UNCHANGED in
     \/ in' = [in EXCEPT ![c] = Append(@, [ty |-> "other", data |-> "truncated",
                                             question |-> 0])]
  /\ UNCHANGED <<pc, call, asks, bd, header, content, pool>>

-----------------------------------------------------------------------------
\* l.Accept: a new connection and a new goroutine.
Accept(c) ==
  /\ pc[c] = "closed"
  /\ pc' = [pc EXCEPT ![c] = "read"]
  /\ peer' = [peer EXCEPT ![c] = TRUE]
  /\ in' = [in EXCEPT ![c] = <<>>]
  /\ out' = [out EXCEPT ![c] = <<>>]
  /\ want' = [want EXCEPT ![c] = NoCall]
  /\ UNCHANGED <<call, asks, bd, header, content, pool>>

\* A builder that is dropped without PutBuilder: the collector takes it, and
\* the one that New makes in its place is blank.
Collected(b) == [x \in Builders |-> IF x = b THEN Blank ELSE content[x]]

\* Mutant: the builder is put back on every way out, held or not.
ClosePuts(c) ==
  /\ pc' = [pc EXCEPT ![c] = "closed"]
  /\ bd' = [bd EXCEPT ![c] = NoBuilder]
  /\ pool' = pool \cup {bd[c]}
  /\ call' = [call EXCEPT ![c] = NoCall]
  /\ asks' = [asks EXCEPT ![c] = 0]
  /\ header' = [header EXCEPT ![c] = NoHeader]
  /\ content' = Collected(bd[c])
  /\ UNCHANGED <<in, out, peer, want>>

\* handleConn leaves its loop or panics: the deferred c.Close runs.  A builder
\* still held is not returned to the pool.
Close(c) ==
  /\ pc' = [pc EXCEPT ![c] = "closed"]
  /\ bd' = [bd EXCEPT ![c] = NoBuilder]
  /\ call' = [call EXCEPT ![c] = NoCall]
  /\ asks' = [asks EXCEPT ![c] = 0]
  /\ header' = [header EXCEPT ![c] = NoHeader]
  /\ content' = Collected(bd[c])
  /\ UNCHANGED <<in, out, peer, want, pool>>

\* Get one from the pool, or New: a builder nobody holds.
GetBuilder(c, b) ==
  /\ b \in pool \cup (Builders \ Held)
  /\ bd' = [bd EXCEPT ![c] = b]
  /\ pool' = pool \ {b}

\* Mutant: a builder that was put back is still held.
PutBuilderKeeps(c) ==
  /\ pool' = pool \cup {bd[c]}
  /\ content' = [content EXCEPT ![bd[c]] = Blank]
  /\ UNCHANGED bd

PutBuilder(c) ==
  /\ pool' = pool \cup {bd[c]}
  /\ content' = [content EXCEPT ![bd[c]] = Blank]
  /\ bd' = [bd EXCEPT ![c] = NoBuilder]

\* A builder with message m, and on to the next statement.
Build(c, m, next) ==
  /\ \E b \in Builders :
       /\ GetBuilder(c, b)
       /\ content' = [content EXCEPT ![b] = m]
  /\ pc' = [pc EXCEPT ![c] = next]
  /\ UNCHANGED <<in, out, peer, want, call, asks>>

(***************************************************************************)
(* ReadBytes and ReadErr: io.EOF or a truncated header or body end the     *)
(* loop; otherwise the frame is dispatched.                                *)
(***************************************************************************)
Gone(c) == in[c] = <<>> /\ ~peer[c]
Truncated(c) == in[c] # <<>> /\ Head(in[c]).data = "truncated"

ReadErr(c) == pc[c] = "read" /\ (Gone(c) \/ Truncated(c)) /\ Close(c)

ReadFrame(c) ==
  /\ pc[c] = "read" /\ in[c] # <<>> /\ ~Truncated(c)
  /\ in' = [in EXCEPT ![c] = Tail(@)]
  /\ call' = [call EXCEPT ![c] = [ty |-> Head(in[c]).ty, data |-> Head(in[c]).data]]
  /\ asks' = [asks EXCEPT ![c] = 0]
  /\ pc' = [pc EXCEPT ![c] = "dispatch"]
  /\ UNCHANGED <<out, peer, want, bd, header, content, pool>>

\* The type of the reply goes into the header, apart from the reply itself.
ReplyType(c, ty) == header' = [header EXCEPT ![c].ty = ty]

Report(c, code) ==
  /\ Build(c, Message(c, code, 1), "header")
  /\ ReplyType(c, "error")

\* Mutant: a frame of unknown type is skipped without a reply.
UnknownTypeSkips(c) ==
  /\ pc[c] = "dispatch" /\ call[c].ty \notin Handled
  /\ pc' = [pc EXCEPT ![c] = "read"]
  /\ call' = [call EXCEPT ![c] = NoCall]
  /\ UNCHANGED <<in, out, peer, want, asks, bd, header, content, pool>>

UnknownType(c) ==
  /\ pc[c] = "dispatch" /\ call[c].ty \notin Handled
  /\ Report(c, "BAD_REQUEST")

\* The reply to PrepareConf is a token.
PrepareConf(c) ==
  /\ pc[c] = "dispatch" /\ call[c].ty = "prepare" /\ call[c].data # "bad"
  /\ Build(c, Message(c, "prepare", 1), "check")
  /\ UNCHANGED header

\* HTTPReqCall and HTTPRespCall: the token first.
TokenNotFound(c) ==
  /\ pc[c] = "dispatch" /\ call[c].ty \in {"req", "resp"} /\ call[c].data = "unknown"
  /\ Report(c, "CONF_TOKEN_NOT_FOUND")

TokenFound(c) ==
  /\ pc[c] = "dispatch" /\ call[c].ty \in {"req", "resp"} /\ call[c].data = "good"
  /\ pc' = [pc EXCEPT ![c] = "filter"]
  /\ UNCHANGED <<in, out, peer, want, call, asks, bd, header, content, pool>>

\* The handler cannot decode its input, or a plugin panics.
Panic(c) ==
  /\ \/ pc[c] = "dispatch" /\ call[c].ty \in Handled /\ call[c].data = "bad"
     \/ pc[c] = "filter"
  /\ Close(c)

-----------------------------------------------------------------------------
(* askExtraInfo, called by Var, Body and ReadBody.                         *)

Question(c) ==
  /\ pc[c] = "filter" /\ asks[c] < MaxAsks
  /\ Build(c, Message(c, "extra", 1), "ask")
  /\ UNCHANGED header

\* The question is over: Var and ReadBody return its builder to the pool,
\* Request.Body drops it.
AskEnds(c) ==
  \/ PutBuilder(c)
  \/ /\ call[c].ty = "req"
     /\ bd' = [bd EXCEPT ![c] = NoBuilder]
     /\ content' = Collected(bd[c])
     /\ UNCHANGED pool

\* Both writes of the question; ErrConnClosed goes to the plugin.
WriteQuestion(c) ==
  /\ pc[c] = "ask"
  /\ asks' = [asks EXCEPT ![c] = @ + 1]
  /\ \/ /\ peer[c]
        /\ out' = [out EXCEPT ![c] =
             Append(@, [ty |-> "extra", len |-> 1, msg |-> content[bd[c]]])]
        /\ pc' = [pc EXCEPT ![c] = "answer"]
        /\ UNCHANGED <<bd, content, pool>>
     \/ /\ ~peer[c]
        /\ pc' = [pc EXCEPT ![c] = "filter"]
        /\ AskEnds(c)
        /\ UNCHANGED out
  /\ UNCHANGED <<in, peer, want, call, header>>

\* The next frame is taken for the answer, whatever its type.
ReadAnswer(c) ==
  /\ pc[c] = "answer" /\ in[c] # <<>> /\ Head(in[c]).data = "good"
  /\ in' = [in EXCEPT ![c] = Tail(@)]
  /\ pc' = [pc EXCEPT ![c] = "filter"]
  /\ AskEnds(c)
  /\ UNCHANGED <<out, peer, want, call, asks, header>>

\* An answer that cannot be decoded panics past the plugin.
BadAnswer(c) ==
  /\ pc[c] = "answer" /\ in[c] # <<>> /\ Head(in[c]).data = "bad"
  /\ Close(c)

\* Mutant: the wait for an answer is given up while APISIX is still there.
NoAnswerTimeout(c) ==
  /\ pc[c] = "answer"
  /\ pc' = [pc EXCEPT ![c] = "filter"]
  /\ AskEnds(c)
  /\ UNCHANGED <<in, out, peer, want, call, asks, header>>

\* Mutant: only a truncated answer ends the wait.
NoAnswerTruncated(c) ==
  /\ pc[c] = "answer" /\ Truncated(c)
  /\ pc' = [pc EXCEPT ![c] = "filter"]
  /\ AskEnds(c)
  /\ UNCHANGED <<in, out, peer, want, call, asks, header>>

NoAnswer(c) ==
  /\ pc[c] = "answer" /\ (Gone(c) \/ Truncated(c))
  /\ pc' = [pc EXCEPT ![c] = "filter"]
  /\ AskEnds(c)
  /\ UNCHANGED <<in, out, peer, want, call, asks, header>>

\* All plugins ran: the reply is built.
BuildReply(c) ==
  /\ pc[c] = "filter"
  /\ \E s \in Sizes : Build(c, Message(c, call[c].ty, s), "check")
  /\ UNCHANGED header

-----------------------------------------------------------------------------
\* checkIfDataTooLarge
FitsCheck(c) ==
  /\ pc[c] = "check"
  /\ content[bd[c]].size < MaxDataSize
  /\ ReplyType(c, call[c].ty)
  /\ pc' = [pc EXCEPT ![c] = "header"]
  /\ UNCHANGED <<in, out, peer, want, call, asks, bd, content, pool>>

TooLarge(c) ==
  /\ pc[c] = "check"
  /\ content[bd[c]].size >= MaxDataSize
  /\ PutBuilder(c)
  /\ pc' = [pc EXCEPT ![c] = "report"]
  /\ UNCHANGED <<in, out, peer, want, call, asks, header>>

ReportTooLarge(c) ==
  /\ pc[c] = "report"
  /\ Report(c, "SERVICE_UNAVAILABLE")

\* Mutant: the builder is returned before its bytes are written.
SetHeaderPuts(c) ==
  /\ pc[c] = "header"
  /\ header' = [header EXCEPT ![c].len = content[bd[c]].size % LenSpace]
  /\ pool' = pool \cup {bd[c]}
  /\ pc' = [pc EXCEPT ![c] = "write"]
  /\ UNCHANGED <<in, out, peer, want, call, asks, bd, content>>

\* PutUint32(header, size), then the type over its first byte.
SetHeader(c) ==
  /\ pc[c] = "header"
  /\ header' = [header EXCEPT ![c].len = content[bd[c]].size % LenSpace]
  /\ pc' = [pc EXCEPT ![c] = "write"]
  /\ UNCHANGED <<in, out, peer, want, call, asks, bd, content, pool>>

\* Header and body; a write fails once APISIX has hung up.
WriteReply(c) ==
  /\ pc[c] = "write" /\ peer[c]
  /\ out' = [out EXCEPT ![c] =
       Append(@, [ty |-> header[c].ty, len |-> header[c].len, msg |-> content[bd[c]]])]
  /\ pc' = [pc EXCEPT ![c] = "put"]
  /\ UNCHANGED <<in, peer, want, call, asks, bd, header, content, pool>>

WriteErr(c) == pc[c] = "write" /\ ~peer[c] /\ Close(c)

\* util.PutBuilder(bd), and the next turn of the loop.
EndTurn(c) ==
  /\ pc[c] = "put"
  /\ PutBuilder(c)
  /\ pc' = [pc EXCEPT ![c] = "read"]
  /\ call' = [call EXCEPT ![c] = NoCall]
  /\ asks' = [asks EXCEPT ![c] = 0]
  /\ header' = [header EXCEPT ![c] = NoHeader]
  /\ UNCHANGED <<in, out, peer, want>>

-----------------------------------------------------------------------------
Runner(c) ==
  \/ ReadErr(c) \/ ReadFrame(c) \/ UnknownType(c) \/ PrepareConf(c)
  \/ TokenNotFound(c) \/ TokenFound(c) \/ Panic(c)
  \/ Question(c) \/ WriteQuestion(c) \/ ReadAnswer(c) \/ BadAnswer(c)
  \/ NoAnswer(c) \/ BuildReply(c)
  \/ FitsCheck(c) \/ TooLarge(c) \/ ReportTooLarge(c)
  \/ SetHeader(c) \/ WriteReply(c) \/ WriteErr(c) \/ EndTurn(c)

Apisix(c) ==
  \/ \E m \in Calls[c] : Send(c, m)
  \/ TakeReply(c) \/ AnswerExtra(c) \/ HangUp(c)

Next == \E c \in Conns : Runner(c) \/ Apisix(c) \/ Accept(c)

Spec == Init /\ [][Next]_vars

(***************************************************************************)
(* Goroutines run and plugins end their filters; APISIX reads what is sent *)
(* to it and answers questions.  It need not send calls nor hang up.       *)
(***************************************************************************)
FairSpec ==
  /\ Spec
  /\ \A c \in Conns : WF_vars(Runner(c)) /\ WF_vars(TakeReply(c) \/ AnswerExtra(c))

-----------------------------------------------------------------------------
PcSet == {"read", "dispatch", "filter", "ask", "answer", "check", "report",
          "header", "write", "put", "closed"}

\* The types a header can carry, and what a builder encodes.
FrameType == Handled \cup {"other", "extra", "error"}
MessageType == FrameType \cup
  {"none", "BAD_REQUEST", "CONF_TOKEN_NOT_FOUND", "SERVICE_UNAVAILABLE"}

HeaderRecord == [ty : FrameType \cup {"none"}, len : Nat]
MessageRecord ==
  [ty : MessageType, conn : Conns \cup {NoBuilder}, call : CallRecord \cup {NoCall},
   size : Nat, question : Nat]

\* Frames to the runner and to APISIX.
InFrame == [ty : FrameType, data : Data \cup {"truncated"}, question : Nat]
OutFrame == [ty : FrameType \cup {"none"}, len : Nat, msg : MessageRecord]

(* Type correctness of the connections, the goroutines and the builders.   *)
TypeOK ==
  /\ in \in [Conns -> Seq(InFrame)]
  /\ out \in [Conns -> Seq(OutFrame)]
  /\ peer \in [Conns -> BOOLEAN]
  /\ want \in [Conns -> CallRecord \cup {NoCall}]
  /\ call \in [Conns -> CallRecord \cup {NoCall}]
  /\ \A c \in Conns : {want[c], call[c]} \subseteq Calls[c] \cup {NoCall}
  /\ pc \in [Conns -> PcSet]
  /\ asks \in [Conns -> 0 .. MaxAsks]
  /\ bd \in [Conns -> Builders \cup {NoBuilder}]
  /\ header \in [Conns -> HeaderRecord]
  /\ content \in [Builders -> MessageRecord]
  /\ pool \subseteq Builders

(***************************************************************************)
(* A builder is in the hands of one goroutine or in the pool, never in two *)
(* places (GetBuilder, PutBuilder): nobody rewrites the bytes another      *)
(* connection is about to send.                                            *)
(***************************************************************************)
BuilderExclusive ==
  \A c \in Conns :
    bd[c] # NoBuilder =>
      /\ bd[c] \notin pool
      /\ \A d \in Conns \ {c} : bd[d] # bd[c]

\* The error codes a call may be answered with.
Code(m) == IF m.ty \notin Handled THEN "BAD_REQUEST"
           ELSE IF m.data = "unknown" /\ m.ty # "prepare" THEN "CONF_TOKEN_NOT_FOUND"
           ELSE "SERVICE_UNAVAILABLE"

(***************************************************************************)
(* What APISIX reads on a connection belongs to the call it has under way  *)
(* there: one frame at a time, built for this call and no other            *)
(* connection's, with the type in the header that the bytes have           *)
(* (handleConn, dispatchRPC, askExtraInfo, ReportError).                   *)
(***************************************************************************)
ReplyIsForCall ==
  \A c \in Conns :
    /\ Len(out[c]) <= 1
    /\ \A i \in DOMAIN out[c] :
         LET f == out[c][i] IN
         /\ want[c] # NoCall
         /\ f.msg.conn = c /\ f.msg.call = want[c]
         /\ \/ f.ty = "extra" /\ f.msg.ty = "extra" /\ want[c].ty \in {"req", "resp"}
            \/ f.ty = "error" /\ f.msg.ty = Code(want[c])
            \/ f.ty = want[c].ty /\ f.msg.ty = want[c].ty

(***************************************************************************)
(* What askExtraInfo reads is the answer to the question it has just       *)
(* written, not a call and not a late answer to an earlier question,       *)
(* although it looks neither at the type nor at anything that identifies   *)
(* the question.                                                           *)
(***************************************************************************)
AnswerIsAnswer ==
  \A c \in Conns :
    pc[c] = "answer" /\ in[c] # <<>> /\ ~Truncated(c) =>
      Head(in[c]).ty = "extra" /\ Head(in[c]).question = asks[c]

(***************************************************************************)
(* Every call is answered or its connection closed, panics and unanswered  *)
(* questions included: no goroutine waits for APISIX while APISIX waits    *)
(* for it.                                                                 *)
(***************************************************************************)
CallAnswered ==
  \A c \in Conns : want[c] # NoCall ~> (want[c] = NoCall \/ pc[c] = "closed")

(***************************************************************************)
(* After APISIX hangs up the goroutine ends and closes its side: io.EOF,   *)
(* ErrConnClosed and write errors all lead out of the loop.                *)
(***************************************************************************)
HandlerEnds == \A c \in Conns : ~peer[c] ~> pc[c] = "closed"

(***************************************************************************)
(* The length in a header is the length of the data that follows it: the   *)
(* comment in handleConn says three bytes store the length, and            *)
(* checkIfDataTooLarge is there so that they can.                          *)
(***************************************************************************)
LengthDeclared ==
  \A c \in Conns : \A i \in DOMAIN out[c] : out[c][i].len = out[c][i].msg.size
=============================================================================
