--------------------------- MODULE HandleConnProofs ---------------------------
(***************************************************************************)
(* Proofs about HandleConn for every set of connections, calls, builders   *)
(* and reply sizes.  The connections meet only in the builder pool; what   *)
(* travels on one connection is a conversation of one frame at a time,     *)
(* stated as an invariant of each connection by itself (ConnInv).          *)
(***************************************************************************)
EXTENDS HandleConn, SequenceTheorems, TLAPS

\* The statements between GetBuilder and PutBuilder.
Holding == {"ask", "answer", "check", "header", "write", "put"}

\* The statements between a frame read and its reply written.
Working == {"dispatch", "filter", "ask", "answer", "check", "report", "header", "write"}

(* Who holds a builder, and that nobody else does.                         *)
HoldInv ==
  /\ \A c \in Conns : bd[c] # NoBuilder <=> pc[c] \in Holding
  /\ BuilderExclusive

\* A frame with call m, and the one that a hang-up cuts short.
CallFrame(m) == [ty |-> m.ty, data |-> m.data, question |-> 0]
TruncatedFrame == [ty |-> "other", data |-> "truncated", question |-> 0]

(* What the goroutine knows of the call it serves.                         *)
ServeInv(c) ==
  /\ pc[c] \in Working \cup {"put"} => call[c] \in Calls[c]
  /\ pc[c] \in {"filter", "ask", "answer"} =>
       call[c].ty \in {"req", "resp"} /\ call[c].data = "good"
  /\ pc[c] = "ask" => asks[c] < MaxAsks
  /\ pc[c] \in {"check", "report"} =>
       call[c].ty \in Handled /\ Code(call[c]) = "SERVICE_UNAVAILABLE"

(* A type in the header that message type mt goes with, in reply to m.     *)
Replies(ht, mt, m) ==
  \/ ht = "error" /\ mt = Code(m)
  \/ ht = m.ty /\ mt = m.ty

(* The builder in hand encodes a message for the call being served.        *)
BuildInv(c) ==
  /\ pc[c] \in Holding =>
       content[bd[c]].conn = c /\ content[bd[c]].call = call[c]
  /\ pc[c] = "ask" =>
       content[bd[c]].ty = "extra" /\ content[bd[c]].question = asks[c] + 1
  /\ pc[c] = "check" => content[bd[c]].ty = call[c].ty
  /\ pc[c] \in {"header", "write"} =>
       Replies(header[c].ty, content[bd[c]].ty, call[c])

(* APISIX waits for the call being served, and writes nothing else before  *)
(* it has the reply.                                                       *)
WantInv(c) ==
  /\ ~peer[c] \/ pc[c] = "closed" => out[c] = <<>>
  /\ ~peer[c] => want[c] = NoCall
  /\ peer[c] /\ pc[c] \in Working => want[c] = call[c]
  /\ peer[c] /\ pc[c] # "closed" /\ want[c] = NoCall => in[c] = <<>> /\ out[c] = <<>>

\* Frame f is a call to be read next, or the answer to the last question.
Pending(c, f) ==
  \/ /\ pc[c] \in {"read", "put"}
     /\ \E m \in Calls[c] : f = CallFrame(m) /\ (peer[c] => want[c] = m)
  \/ /\ pc[c] = "answer"
     /\ f.ty = "extra" /\ f.data \in {"good", "bad"} /\ f.question = asks[c]

(* What is on its way to the runner.                                       *)
InInv(c) ==
  pc[c] # "closed" =>
    \/ in[c] = <<>>
    \/ ~peer[c] /\ in[c] = <<TruncatedFrame>>
    \/ /\ Pending(c, Head(in[c])) /\ out[c] = <<>>
       /\ \/ in[c] = <<Head(in[c])>>
          \/ ~peer[c] /\ in[c] = <<Head(in[c]), TruncatedFrame>>

\* Frame f is the last question, or the reply to the call under way.
Sent(c, f) ==
  /\ want[c] \in Calls[c] /\ f.msg.conn = c /\ f.msg.call = want[c]
  /\ \/ /\ pc[c] = "answer"
        /\ f.ty = "extra" /\ f.msg.ty = "extra" /\ f.msg.question = asks[c]
     \/ pc[c] \in {"read", "put"} /\ Replies(f.ty, f.msg.ty, want[c])

(* What is on its way to APISIX.                                           *)
OutInv(c) ==
  \/ out[c] = <<>>
  \/ peer[c] /\ in[c] = <<>> /\ out[c] = <<Head(out[c])>> /\ Sent(c, Head(out[c]))

(* The conversation on connection c.                                       *)
ConnInv(c) == ServeInv(c) /\ BuildInv(c) /\ WantInv(c) /\ InInv(c) /\ OutInv(c)

(* The inductive invariant.                                                *)
IInv == TypeOK /\ HoldInv /\ \A c \in Conns : ConnInv(c)

-----------------------------------------------------------------------------
\* Goroutines other than c's keep what they have, their builders' bytes too.
Others(c) ==
  \A d \in Conns \ {c} :
    /\ in'[d] = in[d] /\ out'[d] = out[d] /\ peer'[d] = peer[d] /\ want'[d] = want[d]
    /\ pc'[d] = pc[d] /\ call'[d] = call[d] /\ asks'[d] = asks[d] /\ bd'[d] = bd[d]
    /\ header'[d] = header[d]
    /\ bd[d] \in Builders => content'[bd[d]] = content[bd[d]]

(* Sequences of one and two frames.                                        *)
LEMMA ShortSeqs ==
  ASSUME NEW f, NEW g
  PROVE  /\ Head(<<f>>) = f /\ Tail(<<f>>) = <<>> /\ <<f>> # <<>>
         /\ Head(<<f, g>>) = f /\ Tail(<<f, g>>) = <<g>> /\ <<f, g>> # <<>>
         /\ Append(<<>>, f) = <<f>> /\ Append(<<f>>, g) = <<f, g>>
<1>1. Head(<<f>>) = f /\ <<f>> # <<>> /\ Head(<<f, g>>) = f /\ <<f, g>> # <<>>
  OBVIOUS
<1>2. Tail(<<f>>) = <<>>
  OBVIOUS
<1>3. Tail(<<f, g>>) = <<g>>
  OBVIOUS
<1>4. Append(<<>>, f) = <<f>>
  OBVIOUS
<1>5. Append(<<f>>, g) = <<f, g>>
  <2> DEFINE S == {f, g}
             s == Append(<<f>>, g)
  <2>1. <<f>> \in Seq(S) /\ <<f, g>> \in Seq(S) /\ g \in S
    OBVIOUS
  <2>2. s \in Seq(S) /\ Len(s) = 2 /\ s[1] = f /\ s[2] = g
    BY <2>1, AppendProperties
  <2> HIDE DEF s
  <2>3. Len(s) = Len(<<f, g>>) /\ \A i \in 1 .. Len(s) : s[i] = <<f, g>>[i]
    BY <2>2
  <2> QED  BY <2>1, <2>2, <2>3, SeqEqual DEF s
<1> QED  BY <1>1, <1>2, <1>3, <1>4, <1>5

(* A step that leaves another connection alone keeps its conversation.     *)
LEMMA OthersKeep ==
  ASSUME IInv, NEW c \in Conns, Others(c), NEW d \in Conns \ {c}
  PROVE  ConnInv(d)'
<1>1. ConnInv(d) /\ (pc[d] \in Holding => bd[d] \in Builders)
  BY DEF IInv, HoldInv, TypeOK
<1>2. /\ in'[d] = in[d] /\ out'[d] = out[d] /\ peer'[d] = peer[d] /\ want'[d] = want[d]
      /\ pc'[d] = pc[d] /\ call'[d] = call[d] /\ asks'[d] = asks[d] /\ bd'[d] = bd[d]
      /\ header'[d] = header[d]
      /\ pc[d] \in Holding => content'[bd[d]] = content[bd[d]]
  BY <1>1 DEF Others
<1>3. ServeInv(d)' /\ WantInv(d)'
  BY <1>1, <1>2 DEF ConnInv, ServeInv, WantInv
<1>4. BuildInv(d)'
  BY <1>1, <1>2 DEF ConnInv, BuildInv, Holding
<1>5. InInv(d)' /\ OutInv(d)'
  BY <1>1, <1>2 DEF ConnInv, InInv, OutInv, Pending, Sent
<1> QED  BY <1>3, <1>4, <1>5 DEF ConnInv

(* A step of connection c is checked on c alone.                           *)
LEMMA Assemble ==
  ASSUME IInv, NEW c \in Conns, Others(c), TypeOK', HoldInv', ConnInv(c)'
  PROVE  IInv'
<1>1. \A d \in Conns \ {c} : ConnInv(d)'
  BY OthersKeep
<1> QED  BY <1>1 DEF IInv

(* A step without GetBuilder or PutBuilder.                                *)
LEMMA NoBuilderMoves ==
  ASSUME IInv, UNCHANGED <<bd, pool>>,
         \A d \in Conns : pc'[d] \in Holding <=> pc[d] \in Holding
  PROVE  HoldInv'
BY DEF IInv, HoldInv, BuilderExclusive

(* A builder is given up: by PutBuilder, or dropped.                       *)
LEMMA Releases ==
  ASSUME IInv, NEW c \in Conns, NEW next \in PcSet \ Holding,
         pc' = [pc EXCEPT ![c] = next],
         bd' = [bd EXCEPT ![c] = NoBuilder],
         \/ pc[c] \in Holding /\ PutBuilder(c)
         \/ content' = Collected(bd[c]) /\ pool' = pool
  PROVE  /\ HoldInv'
         /\ content' \in [Builders -> MessageRecord] /\ pool' \subseteq Builders
         /\ bd' \in [Conns -> Builders \cup {NoBuilder}]
         /\ \A d \in Conns \ {c} : bd[d] \in Builders => content'[bd[d]] = content[bd[d]]
<1>1. /\ Blank \in MessageRecord
      /\ content \in [Builders -> MessageRecord] /\ pool \subseteq Builders
      /\ bd \in [Conns -> Builders \cup {NoBuilder}] /\ pc \in [Conns -> PcSet]
      /\ NoBuilder \notin Builders
  BY ConnAssumption DEF IInv, TypeOK, Blank, MessageRecord, MessageType
<1>2. /\ pc[c] \in Holding => bd[c] \in Builders
      /\ \A d \in Conns : bd[d] # NoBuilder <=> pc[d] \in Holding
      /\ \A d \in Conns \ {c} : bd[d] # NoBuilder => bd[d] # bd[c] /\ bd[d] \notin pool
      /\ \A d, e \in Conns : bd[d] # NoBuilder /\ d # e => bd[d] # bd[e]
  BY <1>1 DEF IInv, HoldInv, BuilderExclusive
<1>3. /\ pool' \subseteq pool \cup {bd[c]} /\ pool' \subseteq Builders
      /\ content' = [b \in Builders |-> IF b = bd[c] THEN Blank ELSE content[b]]
  BY <1>1, <1>2 DEF PutBuilder, Collected
<1>4. content' \in [Builders -> MessageRecord]
  BY <1>1, <1>3
<1>5. \A d \in Conns \ {c} : bd[d] \in Builders => content'[bd[d]] = content[bd[d]]
  BY <1>1, <1>2, <1>3
<1>6. /\ bd'[c] = NoBuilder /\ pc'[c] \notin Holding
      /\ \A d \in Conns \ {c} : bd'[d] = bd[d] /\ pc'[d] = pc[d]
      /\ bd' \in [Conns -> Builders \cup {NoBuilder}]
  BY <1>1
<1>7. \A d \in Conns : bd'[d] # NoBuilder <=> pc'[d] \in Holding
  BY <1>2, <1>6
<1>8. BuilderExclusive'
  <2> SUFFICES ASSUME NEW d \in Conns, bd'[d] # NoBuilder
               PROVE  bd'[d] \notin pool' /\ \A e \in Conns \ {d} : bd'[e] # bd'[d]
    BY DEF BuilderExclusive
  <2>1. d # c /\ bd'[d] = bd[d]
    BY <1>6
  <2>2. bd'[d] \notin pool'
    BY <2>1, <1>2, <1>3
  <2>3. \A e \in Conns \ {d} : bd'[e] # bd'[d]
    BY <2>1, <1>2, <1>6
  <2> QED  BY <2>2, <2>3
<1> QED  BY <1>3, <1>4, <1>5, <1>6, <1>7, <1>8 DEF HoldInv

(* A builder is taken, and a message built with it.                        *)
LEMMA Builds ==
  ASSUME IInv, NEW c \in Conns, NEW m \in MessageRecord, NEW next \in Holding,
         Build(c, m, next), pc[c] \notin Holding
  PROVE  /\ HoldInv'
         /\ content' \in [Builders -> MessageRecord] /\ pool' \subseteq Builders
         /\ bd' \in [Conns -> Builders \cup {NoBuilder}]
         /\ pc' \in [Conns -> PcSet]
         /\ bd'[c] \in Builders /\ content'[bd'[c]] = m /\ pc'[c] = next
         /\ \A d \in Conns \ {c} :
              /\ bd'[d] = bd[d] /\ pc'[d] = pc[d]
              /\ bd[d] \in Builders => content'[bd[d]] = content[bd[d]]
<1>1. /\ content \in [Builders -> MessageRecord] /\ pool \subseteq Builders
      /\ bd \in [Conns -> Builders \cup {NoBuilder}] /\ pc \in [Conns -> PcSet]
      /\ NoBuilder \notin Builders /\ next \in PcSet
  BY ConnAssumption DEF IInv, TypeOK, Holding, PcSet
<1>2. /\ \A d \in Conns : bd[d] # NoBuilder <=> pc[d] \in Holding
      /\ \A d \in Conns : bd[d] # NoBuilder => bd[d] \notin pool
      /\ \A d, e \in Conns : bd[d] # NoBuilder /\ d # e => bd[d] # bd[e]
  BY DEF IInv, HoldInv, BuilderExclusive
<1>3. PICK b \in Builders : /\ b \in pool \cup (Builders \ Held)
                            /\ bd' = [bd EXCEPT ![c] = b] /\ pool' = pool \ {b}
                            /\ content' = [content EXCEPT ![b] = m]
  BY DEF Build, GetBuilder
<1>4. /\ bd'[c] = b /\ pc'[c] = next
      /\ \A d \in Conns \ {c} : bd'[d] = bd[d] /\ pc'[d] = pc[d]
      /\ bd' \in [Conns -> Builders \cup {NoBuilder}] /\ pc' \in [Conns -> PcSet]
      /\ content' \in [Builders -> MessageRecord] /\ pool' \subseteq Builders
      /\ content'[b] = m
  BY <1>1, <1>3 DEF Build
<1>5. \A d \in Conns : bd[d] # b
  BY <1>1, <1>2, <1>3 DEF Held
<1>6. \A d \in Conns \ {c} : bd[d] \in Builders => content'[bd[d]] = content[bd[d]]
  BY <1>1, <1>3, <1>5
<1>7. \A d \in Conns : bd'[d] # NoBuilder <=> pc'[d] \in Holding
  BY <1>1, <1>2, <1>4
<1>8. BuilderExclusive'
  <2> SUFFICES ASSUME NEW d \in Conns, bd'[d] # NoBuilder
               PROVE  bd'[d] \notin pool' /\ \A e \in Conns \ {d} : bd'[e] # bd'[d]
    BY DEF BuilderExclusive
  <2>1. bd'[d] \notin pool'
    BY <1>2, <1>3, <1>4
  <2>2. \A e \in Conns \ {d} : bd'[e] # bd'[d]
    BY <1>2, <1>4, <1>5
  <2> QED  BY <2>1, <2>2
<1> QED  BY <1>4, <1>6, <1>7, <1>8 DEF HoldInv

(* Every frame of a call is a frame, and a call is what the frame says.    *)
LEMMA CallFrames ==
  ASSUME NEW c \in Conns, NEW m \in Calls[c]
  PROVE  /\ m \in CallRecord /\ CallFrame(m) \in InFrame /\ m # NoCall
         /\ m = [ty |-> CallFrame(m).ty, data |-> CallFrame(m).data]
         /\ CallFrame(m).data # "truncated"
<1>1. m \in CallRecord /\ m # NoCall
  BY ConnAssumption
<1>2. m.ty \in Handled \cup {"other"} /\ m.data \in Data /\ m = [ty |-> m.ty, data |-> m.data]
  BY <1>1 DEF CallRecord
<1> QED  BY <1>1, <1>2 DEF CallFrame, InFrame, FrameType, Data

-----------------------------------------------------------------------------
(* The invariant holds initially.                                          *)
LEMMA InitHolds == Init => IInv
<1> SUFFICES ASSUME Init PROVE IInv
  OBVIOUS
<1>1. Blank \in MessageRecord /\ NoHeader \in HeaderRecord
  BY DEF Blank, NoHeader, MessageRecord, MessageType, HeaderRecord
<1>2. TypeOK
  <2>1. in \in [Conns -> Seq(InFrame)] /\ out \in [Conns -> Seq(OutFrame)]
    BY DEF Init
  <2>2. content \in [Builders -> MessageRecord] /\ header \in [Conns -> HeaderRecord]
    BY <1>1 DEF Init
  <2> QED  BY <2>1, <2>2, ConnAssumption DEF Init, TypeOK, PcSet
<1>3. HoldInv
  BY DEF Init, HoldInv, Holding, BuilderExclusive
<1>4. ASSUME NEW c \in Conns PROVE ConnInv(c)
  BY DEF Init, ConnInv, ServeInv, BuildInv, WantInv, InInv, OutInv, Holding, Working
<1> QED  BY <1>2, <1>3, <1>4 DEF IInv

(* APISIX calls: nothing else is on the connection.                        *)
LEMMA SendStep ==
  ASSUME IInv, NEW c \in Conns, NEW m \in Calls[c], Send(c, m)
  PROVE  IInv'
<1> USE DEF IInv
<1> DEFINE f == CallFrame(m)
<1>1. /\ m \in CallRecord /\ f \in InFrame /\ m # NoCall
  BY CallFrames
<1>2. ConnInv(c) /\ in[c] = <<>> /\ out[c] = <<>> /\ pc[c] \in PcSet
  BY DEF Send, ConnInv, WantInv, TypeOK
<1>3. pc[c] \notin Working /\ pc[c] # "closed"
  BY <1>2, CallFrames DEF Send, ConnInv, WantInv, ServeInv
<1>4. pc[c] \in {"read", "put"}
  BY <1>2, <1>3 DEF PcSet, Working
<1>5. /\ in' = [in EXCEPT ![c] = Append(@, f)] /\ Append(in[c], f) = <<f>>
      /\ Append(in[c], f) \in Seq(InFrame)
  BY <1>1, <1>2, ShortSeqs DEF Send, CallFrame
<1> HIDE DEF f
<1>6. TypeOK'
  <2>1. in' \in [Conns -> Seq(InFrame)]
    BY <1>5 DEF TypeOK
  <2>2. /\ want' \in [Conns -> CallRecord \cup {NoCall}]
        /\ \A d \in Conns : {want'[d], call'[d]} \subseteq Calls[d] \cup {NoCall}
    BY <1>1 DEF TypeOK, Send
  <2> QED  BY <2>1, <2>2 DEF TypeOK, Send
<1>7. HoldInv'
  BY NoBuilderMoves DEF Send
<1>8. Others(c)
  BY <1>5 DEF Others, Send, TypeOK
<1>9. /\ in'[c] = <<f>> /\ want'[c] = m /\ out'[c] = <<>> /\ peer'[c]
      /\ UNCHANGED <<pc, call, asks, bd, header, content>>
  BY <1>2, <1>5 DEF Send, TypeOK
<1>10. ConnInv(c)'
  <2>1. ServeInv(c)' /\ BuildInv(c)'
    BY <1>2, <1>9 DEF ConnInv, ServeInv, BuildInv
  <2>2. WantInv(c)'
    BY <1>1, <1>3, <1>9 DEF WantInv
  <2>3. Pending(c, f)'
    BY <1>4, <1>9 DEF Pending, f
  <2>4. InInv(c)' /\ OutInv(c)'
    BY <2>3, <1>9, ShortSeqs DEF InInv, OutInv
  <2> QED  BY <2>1, <2>2, <2>4 DEF ConnInv
<1> QED  BY <1>6, <1>7, <1>8, <1>10, Assemble

(* APISIX reads the reply to its call.                                     *)
LEMMA TakeReplyStep ==
  ASSUME IInv, NEW c \in Conns, TakeReply(c)
  PROVE  IInv'
<1> USE DEF IInv
<1> DEFINE g == Head(out[c])
<1>1. /\ ConnInv(c) /\ peer[c] /\ in[c] = <<>> /\ out[c] = <<g>> /\ Sent(c, g)
      /\ g.ty # "extra"
  BY DEF TakeReply, ConnInv, OutInv
<1>2. Tail(out[c]) = <<>> /\ Tail(out[c]) \in Seq(OutFrame)
  <2> HIDE DEF g
  <2> QED  BY <1>1, ShortSeqs
<1>3. pc[c] \in {"read", "put"}
  BY <1>1 DEF Sent
<1>4. /\ out' = [out EXCEPT ![c] = Tail(out[c])] /\ want' = [want EXCEPT ![c] = NoCall]
      /\ UNCHANGED <<in, peer, pc, call, asks, bd, header, content, pool>>
  BY DEF TakeReply
<1>5. TypeOK'
  <2>1. out' \in [Conns -> Seq(OutFrame)] /\ want' \in [Conns -> CallRecord \cup {NoCall}]
    BY <1>2, <1>4 DEF TypeOK
  <2>2. \A d \in Conns : {want'[d], call'[d]} \subseteq Calls[d] \cup {NoCall}
    BY <1>4 DEF TypeOK
  <2> QED  BY <2>1, <2>2, <1>4 DEF TypeOK
<1>6. HoldInv' /\ Others(c)
  BY <1>4, NoBuilderMoves DEF Others, TypeOK
<1>7. out'[c] = <<>> /\ want'[c] = NoCall
  BY <1>2, <1>4 DEF TypeOK
<1>8. ConnInv(c)'
  <2>1. ServeInv(c)' /\ BuildInv(c)'
    BY <1>1, <1>4 DEF ConnInv, ServeInv, BuildInv
  <2>2. WantInv(c)' /\ InInv(c)' /\ OutInv(c)'
    BY <1>1, <1>3, <1>4, <1>7 DEF WantInv, InInv, OutInv, Working
  <2> QED  BY <2>1, <2>2 DEF ConnInv
<1> QED  BY <1>5, <1>6, <1>8, Assemble

(* APISIX answers the question in flight.                                  *)
LEMMA AnswerExtraStep ==
  ASSUME IInv, NEW c \in Conns, AnswerExtra(c)
  PROVE  IInv'
<1> USE DEF IInv
<1> DEFINE g == Head(out[c])
<1>1. /\ ConnInv(c) /\ peer[c] /\ in[c] = <<>> /\ out[c] = <<g>> /\ Sent(c, g)
      /\ g.ty = "extra" /\ out[c] \in Seq(OutFrame)
  BY DEF AnswerExtra, ConnInv, OutInv, TypeOK
<1>2. Tail(out[c]) = <<>> /\ Tail(out[c]) \in Seq(OutFrame) /\ g \in OutFrame
  <2>1. g \in OutFrame
    BY <1>1, ShortSeqs, HeadTailProperties
  <2> HIDE DEF g
  <2> QED  BY <2>1, <1>1, ShortSeqs
<1>3. pc[c] = "answer" /\ g.msg.question = asks[c] /\ want[c] \in Calls[c]
  <2>1. want[c].ty # "extra"
    BY <1>1, CallFrames DEF Sent, CallRecord, Handled
  <2> QED  BY <2>1, <1>1 DEF Sent, Replies
<1>4. PICK x \in {"good", "bad"} :
        in' = [in EXCEPT ![c] = Append(@, [ty |-> "extra", data |-> x,
                                            question |-> g.msg.question])]
  BY DEF AnswerExtra
<1>0. PICK f : f = [ty |-> "extra", data |-> x, question |-> g.msg.question]
  OBVIOUS
<1>5. f \in InFrame /\ f.ty = "extra" /\ f.data \in {"good", "bad"} /\ f.question = asks[c]
  <2>1. asks[c] \in Nat
    BY ConnAssumption DEF TypeOK
  <2> HIDE DEF g
  <2> QED  BY <1>0, <1>3, <2>1 DEF InFrame, FrameType, Data
<1>6. /\ out' = [out EXCEPT ![c] = Tail(out[c])] /\ in' = [in EXCEPT ![c] = Append(in[c], f)]
      /\ UNCHANGED <<want, peer, pc, call, asks, bd, header, content, pool>>
  BY <1>0, <1>4 DEF AnswerExtra
<1> HIDE DEF g
<1>7. Append(in[c], f) = <<f>> /\ Append(in[c], f) \in Seq(InFrame)
  BY <1>1, <1>5, ShortSeqs
<1>8. TypeOK'
  <2>1. out' \in [Conns -> Seq(OutFrame)]
    BY <1>2, <1>6 DEF TypeOK
  <2>2. in' \in [Conns -> Seq(InFrame)]
    BY <1>6, <1>7 DEF TypeOK
  <2> QED  BY <2>1, <2>2, <1>6 DEF TypeOK
<1>9. HoldInv' /\ Others(c)
  BY <1>6, NoBuilderMoves DEF Others, TypeOK
<1>10. out'[c] = <<>> /\ in'[c] = <<f>> /\ want[c] # NoCall
  BY <1>2, <1>3, <1>6, <1>7, CallFrames DEF TypeOK
<1>11. ConnInv(c)'
  <2>1. ServeInv(c)' /\ BuildInv(c)'
    BY <1>1, <1>6 DEF ConnInv, ServeInv, BuildInv
  <2>2. WantInv(c)'
    BY <1>1, <1>3, <1>6, <1>10 DEF WantInv, ConnInv
  <2>3. Pending(c, f)'
    BY <1>3, <1>5, <1>6 DEF Pending
  <2>4. InInv(c)' /\ OutInv(c)'
    BY <2>3, <1>10, ShortSeqs DEF InInv, OutInv
  <2> QED  BY <2>1, <2>2, <2>4 DEF ConnInv
<1> QED  BY <1>8, <1>9, <1>11, Assemble

(* APISIX hangs up, with or without a last truncated frame.                *)
LEMMA HangUpStep ==
  ASSUME IInv, NEW c \in Conns, HangUp(c)
  PROVE  IInv'
<1> USE DEF IInv
<1>1. /\ out' = [out EXCEPT ![c] = <<>>] /\ want' = [want EXCEPT ![c] = NoCall]
      /\ peer' = [peer EXCEPT ![c] = FALSE]
      /\ \/ in' = in
         \/ in' = [in EXCEPT ![c] = Append(in[c], TruncatedFrame)]
      /\ UNCHANGED <<pc, call, asks, bd, header, content, pool>>
  BY DEF HangUp, TruncatedFrame
<1>2. ConnInv(c) /\ in[c] \in Seq(InFrame) /\ TruncatedFrame \in InFrame /\ peer[c]
  BY DEF TypeOK, TruncatedFrame, InFrame, FrameType, HangUp
<1>3. Append(in[c], TruncatedFrame) \in Seq(InFrame)
  BY <1>2
<1>4. TypeOK'
  <2>1. in' \in [Conns -> Seq(InFrame)]
    BY <1>1, <1>3 DEF TypeOK
  <2>2. out' \in [Conns -> Seq(OutFrame)]
    BY <1>1 DEF TypeOK
  <2>3. /\ want' \in [Conns -> CallRecord \cup {NoCall}]
        /\ peer' \in [Conns -> BOOLEAN]
        /\ \A d \in Conns : {want'[d], call'[d]} \subseteq Calls[d] \cup {NoCall}
    BY <1>1 DEF TypeOK
  <2> QED  BY <2>1, <2>2, <2>3, <1>1 DEF TypeOK
<1>5. HoldInv'
  BY <1>1, NoBuilderMoves
<1>6. Others(c)
  BY <1>1 DEF Others, TypeOK
<1>7. /\ out'[c] = <<>> /\ want'[c] = NoCall /\ ~peer'[c]
      /\ in'[c] = in[c] \/ in'[c] = Append(in[c], TruncatedFrame)
  BY <1>1 DEF TypeOK
<1>8. ConnInv(c)'
  <2>1. ServeInv(c)' /\ BuildInv(c)'
    BY <1>1, <1>2 DEF ConnInv, ServeInv, BuildInv
  <2>2. WantInv(c)' /\ OutInv(c)'
    BY <1>7 DEF WantInv, OutInv
  <2>3. InInv(c)'
    <3> SUFFICES ASSUME pc[c] # "closed" PROVE InInv(c)'
      BY <1>1 DEF InInv
    <3>1. CASE in[c] = <<>>
      BY <3>1, <1>7, ShortSeqs DEF InInv
    <3>2. CASE Pending(c, Head(in[c])) /\ in[c] = <<Head(in[c])>>
      <4>0. PICK f : f = Head(in[c])
        OBVIOUS
      <4>1. Pending(c, f)'
        BY <4>0, <3>2, <1>1, <1>7 DEF Pending
      <4>2. in'[c] = <<f>> \/ in'[c] = <<f, TruncatedFrame>>
        BY <4>0, <3>2, <1>7, ShortSeqs
      <4>3. Head(in'[c]) = f
        BY <4>2, ShortSeqs
      <4> QED  BY <4>1, <4>2, <4>3, <1>7 DEF InInv
    <3> QED  BY <3>1, <3>2, <1>2 DEF ConnInv, InInv
  <2> QED  BY <2>1, <2>2, <2>3 DEF ConnInv
<1> QED  BY <1>4, <1>5, <1>6, <1>8, Assemble

(* A new connection takes the place of a closed one.                       *)
LEMMA AcceptStep ==
  ASSUME IInv, NEW c \in Conns, Accept(c)
  PROVE  IInv'
<1> USE DEF IInv
<1>1. /\ out' = [out EXCEPT ![c] = <<>>] /\ want' = [want EXCEPT ![c] = NoCall]
      /\ peer' = [peer EXCEPT ![c] = TRUE] /\ in' = [in EXCEPT ![c] = <<>>]
      /\ pc' = [pc EXCEPT ![c] = "read"]
      /\ UNCHANGED <<call, asks, bd, header, content, pool>>
  BY DEF Accept
<1>2. TypeOK'
  <2>1. in' \in [Conns -> Seq(InFrame)]
    BY <1>1 DEF TypeOK
  <2>2. out' \in [Conns -> Seq(OutFrame)]
    BY <1>1 DEF TypeOK
  <2>3. /\ want' \in [Conns -> CallRecord \cup {NoCall}]
        /\ peer' \in [Conns -> BOOLEAN] /\ pc' \in [Conns -> PcSet]
        /\ \A d \in Conns : {want'[d], call'[d]} \subseteq Calls[d] \cup {NoCall}
    BY <1>1 DEF TypeOK, PcSet
  <2> QED  BY <2>1, <2>2, <2>3, <1>1 DEF TypeOK
<1>3. HoldInv'
  BY <1>1, NoBuilderMoves DEF Accept, Holding, TypeOK
<1>4. Others(c)
  BY <1>1 DEF Others, TypeOK
<1>5. /\ out'[c] = <<>> /\ in'[c] = <<>> /\ want'[c] = NoCall /\ pc'[c] = "read"
      /\ peer'[c]
  BY <1>1 DEF TypeOK
<1>6. ConnInv(c)'
  BY <1>5 DEF ConnInv, ServeInv, BuildInv, WantInv, InInv, OutInv, Working, Holding
<1> QED  BY <1>2, <1>3, <1>4, <1>6, Assemble

-----------------------------------------------------------------------------
(* While a goroutine works on a call, nothing but the end of a broken      *)
(* connection is on the wire, except around a question.                    *)
LEMMA Quiet ==
  ASSUME NEW c \in Conns, ConnInv(c), pc[c] \in Working \ {"answer"}
  PROVE  /\ out[c] = <<>>
         /\ in[c] = <<>> \/ (~peer[c] /\ in[c] = <<TruncatedFrame>>)
BY DEF ConnInv, InInv, OutInv, Pending, Sent, Working

(* The end of a goroutine that APISIX gets nothing more from.              *)
LEMMA CloseStep ==
  ASSUME IInv, NEW c \in Conns, Close(c), out[c] = <<>>
  PROVE  IInv'
<1> USE DEF IInv
<1>1. "closed" \in PcSet \ Holding /\ NoHeader \in HeaderRecord
  BY DEF PcSet, Holding, NoHeader, HeaderRecord
<1>2. /\ HoldInv'
      /\ content' \in [Builders -> MessageRecord] /\ pool' \subseteq Builders
      /\ bd' \in [Conns -> Builders \cup {NoBuilder}]
      /\ \A d \in Conns \ {c} : bd[d] \in Builders => content'[bd[d]] = content[bd[d]]
  BY <1>1, Releases DEF Close
<1>3. TypeOK'
  <2>1. /\ pc' \in [Conns -> PcSet] /\ asks' \in [Conns -> 0 .. MaxAsks]
        /\ call' \in [Conns -> CallRecord \cup {NoCall}]
        /\ header' \in [Conns -> HeaderRecord]
    BY <1>1, ConnAssumption DEF TypeOK, Close
  <2>2. \A d \in Conns : {want'[d], call'[d]} \subseteq Calls[d] \cup {NoCall}
    BY DEF TypeOK, Close
  <2> QED  BY <2>1, <2>2, <1>2 DEF TypeOK, Close
<1>4. Others(c)
  BY <1>2 DEF Others, Close, TypeOK
<1>5. pc'[c] = "closed" /\ UNCHANGED <<in, out, peer, want>> /\ WantInv(c)
  BY DEF Close, TypeOK, ConnInv
<1>6. ConnInv(c)'
  BY <1>5 DEF ConnInv, ServeInv, BuildInv, WantInv, InInv, OutInv, Working, Holding
<1> QED  BY <1>2, <1>3, <1>4, <1>6, Assemble

(* A message is built for the call being served: a question, a reply, or   *)
(* the report of an error.                                                 *)
LEMMA BuildStep ==
  ASSUME IInv, NEW c \in Conns, NEW ty \in MessageType, NEW size \in Nat,
         NEW next \in {"ask", "check", "header"},
         pc[c] \in {"dispatch", "filter", "report"},
         Build(c, Message(c, ty, size), next),
         header' \in [Conns -> HeaderRecord],
         \A d \in Conns \ {c} : header'[d] = header[d],
         next = "ask" => ty = "extra" /\ pc[c] = "filter" /\ asks[c] < MaxAsks,
         next = "check" => /\ ty = call[c].ty /\ call[c].ty \in Handled
                           /\ Code(call[c]) = "SERVICE_UNAVAILABLE",
         next = "header" => Replies(header'[c].ty, ty, call[c])
  PROVE  IInv'
<1> USE DEF IInv
<1>1. /\ next \in Holding /\ next \in Working \ {"answer"} /\ pc[c] \notin Holding
      /\ pc[c] \in Working \ {"answer"}
  BY DEF Holding, Working
<1>2. PICK m \in MessageRecord :
        /\ m = Message(c, ty, size) /\ m.ty = ty /\ m.conn = c /\ m.call = call[c]
        /\ ty = "extra" => m.question = asks[c] + 1
  <2>1. call[c] \in CallRecord \cup {NoCall} /\ asks[c] \in Nat
    BY ConnAssumption DEF TypeOK
  <2> DEFINE q == IF ty = "extra" THEN asks[c] + 1 ELSE 0
  <2>2. q \in Nat /\ (ty = "extra" => q = asks[c] + 1)
    BY <2>1
  <2> HIDE DEF q
  <2>3. Message(c, ty, size) = [ty |-> ty, conn |-> c, call |-> call[c], size |-> size,
                                question |-> q]
    BY DEF Message, q
  <2> QED  BY <2>1, <2>2, <2>3 DEF MessageRecord
<1>3. /\ HoldInv'
      /\ content' \in [Builders -> MessageRecord] /\ pool' \subseteq Builders
      /\ bd' \in [Conns -> Builders \cup {NoBuilder}]
      /\ pc' \in [Conns -> PcSet]
      /\ bd'[c] \in Builders /\ content'[bd'[c]] = m /\ pc'[c] = next
      /\ \A d \in Conns \ {c} :
           /\ bd'[d] = bd[d] /\ pc'[d] = pc[d]
           /\ bd[d] \in Builders => content'[bd[d]] = content[bd[d]]
  <2>1. Build(c, m, next)
    BY <1>2
  <2> QED  BY <2>1, <1>1, Builds
<1>4. UNCHANGED <<in, out, peer, want, call, asks>>
  BY DEF Build
<1>5. TypeOK'
  BY <1>3, <1>4 DEF TypeOK
<1>6. Others(c)
  BY <1>3, <1>4 DEF Others
<1>7. ConnInv(c)'
  <2>1. /\ ConnInv(c) /\ out[c] = <<>>
        /\ in[c] = <<>> \/ (~peer[c] /\ in[c] = <<TruncatedFrame>>)
    BY <1>1, Quiet
  <2>2. ServeInv(c)'
    <3>1. call'[c] \in Calls[c]
      BY <2>1, <1>1, <1>4 DEF ConnInv, ServeInv
    <3>2. /\ next = "ask" => /\ call'[c].ty \in {"req", "resp"} /\ call'[c].data = "good"
                             /\ asks'[c] < MaxAsks
      BY <2>1, <1>4 DEF ConnInv, ServeInv
    <3>3. next = "check" => /\ call'[c].ty \in Handled
                            /\ Code(call'[c]) = "SERVICE_UNAVAILABLE"
      BY <1>4
    <3> QED  BY <3>1, <3>2, <3>3, <1>3 DEF ServeInv
  <2>3. BuildInv(c)'
    BY <1>2, <1>3, <1>4 DEF BuildInv
  <2>4. WantInv(c)'
    BY <2>1, <1>1, <1>3, <1>4 DEF ConnInv, WantInv
  <2>5. InInv(c)' /\ OutInv(c)'
    BY <2>1, <1>4 DEF InInv, OutInv
  <2> QED  BY <2>2, <2>3, <2>4, <2>5 DEF ConnInv
<1> QED  BY <1>3, <1>5, <1>6, <1>7, Assemble

(* dispatchRPC reports an error: its type and its code fit the call.       *)
LEMMA ReportStep ==
  ASSUME IInv, NEW c \in Conns, NEW code \in MessageType,
         pc[c] \in {"dispatch", "filter", "report"},
         code = Code(call[c]), Report(c, code)
  PROVE  IInv'
<1>1. /\ Build(c, Message(c, code, 1), "header")
      /\ header' = [header EXCEPT ![c].ty = "error"]
  BY DEF Report, ReplyType
<1>2. header \in [Conns -> HeaderRecord]
  BY DEF IInv, TypeOK
<1>3. header' \in [Conns -> HeaderRecord] /\ header'[c].ty = "error"
  BY <1>1, <1>2 DEF HeaderRecord, FrameType
<1>4. \A d \in Conns \ {c} : header'[d] = header[d]
  BY <1>1, <1>2
<1>5. Replies(header'[c].ty, code, call[c])
  BY <1>3 DEF Replies
<1> QED  BY <1>1, <1>3, <1>4, <1>5, BuildStep

-----------------------------------------------------------------------------
(* What is left to read behind the first frame.                            *)
LEMMA TailOfIn ==
  ASSUME NEW c \in Conns,
         \/ in[c] = <<Head(in[c])>>
         \/ ~peer[c] /\ in[c] = <<Head(in[c]), TruncatedFrame>>
  PROVE  Tail(in[c]) = <<>> \/ (~peer[c] /\ Tail(in[c]) = <<TruncatedFrame>>)
<1>1. PICK f, s : f = Head(in[c]) /\ s = in[c]
  OBVIOUS
<1>2. CASE s = <<f>>
  <2>1. Tail(s) = <<>>
    BY <1>2, ShortSeqs
  <2> QED  BY <1>1, <2>1
<1>3. CASE ~peer[c] /\ s = <<f, TruncatedFrame>>
  <2>1. Tail(s) = <<TruncatedFrame>>
    BY <1>3, ShortSeqs
  <2> QED  BY <1>1, <1>3, <2>1
<1> QED  BY <1>1, <1>2, <1>3

(* The ways out of the loop.                                               *)
LEMMA EndSteps ==
  ASSUME IInv, NEW c \in Conns,
         ReadErr(c) \/ Panic(c) \/ BadAnswer(c) \/ WriteErr(c)
  PROVE  IInv'
<1>1. ConnInv(c)
  BY DEF IInv
<1>2. CASE ReadErr(c)
  <2>1. out[c] = <<>>
    BY <1>1, <1>2 DEF ReadErr, Gone, Truncated, ConnInv, WantInv, OutInv
  <2> QED  BY <1>2, <2>1, CloseStep DEF ReadErr
<1>3. CASE Panic(c)
  <2>1. out[c] = <<>>
    BY <1>1, <1>3, Quiet DEF Panic, Working
  <2> QED  BY <1>3, <2>1, CloseStep DEF Panic
<1>4. CASE BadAnswer(c)
  <2>1. out[c] = <<>>
    BY <1>1, <1>4 DEF BadAnswer, ConnInv, OutInv
  <2> QED  BY <1>4, <2>1, CloseStep DEF BadAnswer
<1>5. CASE WriteErr(c)
  <2>1. out[c] = <<>>
    BY <1>1, <1>5, Quiet DEF WriteErr, Working
  <2> QED  BY <1>5, <2>1, CloseStep DEF WriteErr
<1> QED  BY <1>2, <1>3, <1>4, <1>5

(* The frame read is the call APISIX waits for.                            *)
LEMMA ReadFrameStep ==
  ASSUME IInv, NEW c \in Conns, ReadFrame(c)
  PROVE  IInv'
<1> USE DEF IInv
<1>1. ConnInv(c) /\ pc[c] = "read" /\ in[c] # <<>> /\ ~Truncated(c)
  BY DEF ReadFrame
<1>2. /\ in[c] # <<TruncatedFrame>> /\ out[c] = <<>> /\ Pending(c, Head(in[c]))
      /\ \/ in[c] = <<Head(in[c])>>
         \/ ~peer[c] /\ in[c] = <<Head(in[c]), TruncatedFrame>>
  <2>1. in[c] # <<TruncatedFrame>>
    BY <1>1, ShortSeqs DEF Truncated, TruncatedFrame
  <2> QED  BY <1>1, <2>1 DEF ConnInv, InInv
<1>3. PICK m \in Calls[c] : Head(in[c]) = CallFrame(m) /\ (peer[c] => want[c] = m)
  BY <1>1, <1>2 DEF Pending
<1>4. /\ in' = [in EXCEPT ![c] = Tail(in[c])] /\ call' = [call EXCEPT ![c] = m]
      /\ asks' = [asks EXCEPT ![c] = 0] /\ pc' = [pc EXCEPT ![c] = "dispatch"]
      /\ UNCHANGED <<out, peer, want, bd, header, content, pool>>
  BY <1>3, CallFrames DEF ReadFrame
<1>5. Tail(in[c]) = <<>> \/ (~peer[c] /\ Tail(in[c]) = <<TruncatedFrame>>)
  BY <1>2, TailOfIn
<1>6. Tail(in[c]) \in Seq(InFrame)
  BY <1>1, HeadTailProperties DEF TypeOK
<1>7. TypeOK'
  <2>1. in' \in [Conns -> Seq(InFrame)]
    BY <1>4, <1>6 DEF TypeOK
  <2>2. /\ call' \in [Conns -> CallRecord \cup {NoCall}]
        /\ asks' \in [Conns -> 0 .. MaxAsks] /\ pc' \in [Conns -> PcSet]
        /\ \A d \in Conns : {want'[d], call'[d]} \subseteq Calls[d] \cup {NoCall}
    BY <1>4, CallFrames, ConnAssumption DEF TypeOK, PcSet
  <2> QED  BY <2>1, <2>2, <1>4 DEF TypeOK
<1>8. HoldInv'
  BY <1>1, <1>4, NoBuilderMoves DEF Holding, TypeOK
<1>9. Others(c)
  BY <1>4 DEF Others, TypeOK
<1>10. in'[c] = Tail(in[c]) /\ call'[c] = m /\ pc'[c] = "dispatch"
  BY <1>4 DEF TypeOK
<1>11. ConnInv(c)'
  <2>1. ServeInv(c)' /\ BuildInv(c)'
    BY <1>10 DEF ServeInv, BuildInv, Holding
  <2>2. WantInv(c)'
    BY <1>1, <1>2, <1>3, <1>4, <1>10, CallFrames DEF ConnInv, WantInv
  <2>3. InInv(c)' /\ OutInv(c)'
    BY <1>2, <1>4, <1>5, <1>10 DEF InInv, OutInv
  <2> QED  BY <2>1, <2>2, <2>3 DEF ConnInv
<1> QED  BY <1>7, <1>8, <1>9, <1>11, Assemble

(* dispatchRPC, the handlers and checkIfDataTooLarge build a reply, an     *)
(* error or a question.                                                    *)
LEMMA BuildSteps ==
  ASSUME IInv, NEW c \in Conns,
         \/ UnknownType(c) \/ PrepareConf(c) \/ TokenNotFound(c)
         \/ Question(c) \/ BuildReply(c) \/ ReportTooLarge(c)
  PROVE  IInv'
<1>1. ConnInv(c) /\ header \in [Conns -> HeaderRecord]
  BY DEF IInv, TypeOK
<1>2. /\ {"prepare", "req", "resp", "extra"} \subseteq MessageType
      /\ {"BAD_REQUEST", "CONF_TOKEN_NOT_FOUND", "SERVICE_UNAVAILABLE"} \subseteq MessageType
  BY DEF MessageType, FrameType, Handled
<1>3. CASE UnknownType(c)
  <2>1. Code(call[c]) = "BAD_REQUEST"
    BY <1>3 DEF UnknownType, Code
  <2> QED  BY <2>1, <1>2, <1>3, ReportStep DEF UnknownType
<1>4. CASE PrepareConf(c)
  <2>1. call[c].ty \in Handled /\ Code(call[c]) = "SERVICE_UNAVAILABLE"
    BY <1>4 DEF PrepareConf, Code, Handled
  <2> QED  BY <2>1, <1>1, <1>2, <1>4, BuildStep DEF PrepareConf
<1>5. CASE TokenNotFound(c)
  <2>1. Code(call[c]) = "CONF_TOKEN_NOT_FOUND"
    BY <1>5 DEF TokenNotFound, Code, Handled
  <2> QED  BY <2>1, <1>2, <1>5, ReportStep DEF TokenNotFound
<1>6. CASE Question(c)
  BY <1>1, <1>2, <1>6, BuildStep DEF Question
<1>7. CASE BuildReply(c)
  <2>1. PICK s \in Sizes : Build(c, Message(c, call[c].ty, s), "check")
    BY <1>7 DEF BuildReply
  <2>2. s \in Nat
    BY ConnAssumption
  <2>3. call[c].ty \in {"req", "resp"} /\ call[c].data = "good" /\ pc[c] = "filter"
    BY <1>1, <1>7 DEF BuildReply, ConnInv, ServeInv
  <2>4. call[c].ty \in Handled /\ Code(call[c]) = "SERVICE_UNAVAILABLE"
    BY <2>3 DEF Code, Handled
  <2>5. call[c].ty \in MessageType
    BY <2>3, <1>2
  <2> QED  BY <2>1, <2>2, <2>3, <2>4, <2>5, <1>1, <1>7, BuildStep DEF BuildReply
<1>8. CASE ReportTooLarge(c)
  <2>1. Code(call[c]) = "SERVICE_UNAVAILABLE"
    BY <1>1, <1>8 DEF ReportTooLarge, ConnInv, ServeInv
  <2> QED  BY <2>1, <1>2, <1>8, ReportStep DEF ReportTooLarge
<1> QED  BY <1>3, <1>4, <1>5, <1>6, <1>7, <1>8

-----------------------------------------------------------------------------
(* A token that is found: the filters run.                                 *)
LEMMA TokenFoundStep ==
  ASSUME IInv, NEW c \in Conns, TokenFound(c)
  PROVE  IInv'
<1> USE DEF IInv
<1>1. /\ ConnInv(c) /\ pc[c] = "dispatch" /\ call[c].ty \in {"req", "resp"}
      /\ call[c].data = "good" /\ pc' = [pc EXCEPT ![c] = "filter"]
      /\ UNCHANGED <<in, out, peer, want, call, asks, bd, header, content, pool>>
  BY DEF TokenFound
<1>2. TypeOK' /\ pc'[c] = "filter"
  BY <1>1 DEF TypeOK, PcSet
<1>3. HoldInv'
  BY <1>1, NoBuilderMoves DEF Holding, TypeOK
<1>4. Others(c)
  BY <1>1 DEF Others, TypeOK
<1>5. /\ out[c] = <<>>
      /\ in[c] = <<>> \/ (~peer[c] /\ in[c] = <<TruncatedFrame>>)
  BY <1>1, Quiet DEF Working
<1>6. ConnInv(c)'
  <2>1. ServeInv(c)' /\ BuildInv(c)'
    BY <1>1, <1>2 DEF ConnInv, ServeInv, BuildInv, Holding, Working
  <2>2. WantInv(c)'
    BY <1>1, <1>2 DEF ConnInv, WantInv, Working
  <2>3. InInv(c)' /\ OutInv(c)'
    BY <1>1, <1>5 DEF InInv, OutInv
  <2> QED  BY <2>1, <2>2, <2>3 DEF ConnInv
<1> QED  BY <1>2, <1>3, <1>4, <1>6, Assemble

(* A question ends, answered or not, and its filter goes on.               *)
LEMMA AskEndsStep ==
  ASSUME IInv, NEW c \in Conns, AskEnds(c), pc[c] \in {"ask", "answer"}, out[c] = <<>>,
         pc' = [pc EXCEPT ![c] = "filter"],
         UNCHANGED <<out, peer, want, call, header>>,
         in' \in [Conns -> Seq(InFrame)], asks' \in [Conns -> 0 .. MaxAsks],
         \A d \in Conns \ {c} : in'[d] = in[d] /\ asks'[d] = asks[d],
         in'[c] = <<>> \/ (~peer[c] /\ in'[c] = <<TruncatedFrame>>),
         peer[c] => want[c] = call[c]
  PROVE  IInv'
<1> USE DEF IInv
<1>1. "filter" \in PcSet \ Holding /\ pc[c] \in Holding
  BY DEF PcSet, Holding
<1>2. /\ HoldInv'
      /\ content' \in [Builders -> MessageRecord] /\ pool' \subseteq Builders
      /\ bd' \in [Conns -> Builders \cup {NoBuilder}]
      /\ \A d \in Conns \ {c} : bd[d] \in Builders => content'[bd[d]] = content[bd[d]]
  <2>1. bd' = [bd EXCEPT ![c] = NoBuilder]
    BY DEF AskEnds, PutBuilder
  <2>2. PutBuilder(c) \/ (content' = Collected(bd[c]) /\ pool' = pool)
    BY DEF AskEnds
  <2> QED  BY <2>1, <2>2, <1>1, Releases
<1>3. bd' = [bd EXCEPT ![c] = NoBuilder]
  BY DEF AskEnds, PutBuilder
<1>4. TypeOK'
  BY <1>1, <1>2 DEF TypeOK
<1>5. Others(c)
  BY <1>2, <1>3 DEF Others, TypeOK
<1>6. pc'[c] = "filter" /\ ConnInv(c)
  BY DEF TypeOK
<1>7. ConnInv(c)'
  <2>1. ServeInv(c)' /\ BuildInv(c)'
    BY <1>6 DEF ConnInv, ServeInv, BuildInv, Holding, Working
  <2>2. WantInv(c)'
    BY <1>6 DEF ConnInv, WantInv, Working
  <2>3. InInv(c)' /\ OutInv(c)'
    BY DEF InInv, OutInv
  <2> QED  BY <2>1, <2>2, <2>3 DEF ConnInv
<1> QED  BY <1>2, <1>4, <1>5, <1>7, Assemble

(* The question is written, or APISIX is gone.                             *)
LEMMA WriteQuestionStep ==
  ASSUME IInv, NEW c \in Conns, WriteQuestion(c)
  PROVE  IInv'
<1> USE DEF IInv
<1>1. /\ ConnInv(c) /\ pc[c] = "ask" /\ asks[c] \in 0 .. MaxAsks /\ asks[c] < MaxAsks
      /\ asks' = [asks EXCEPT ![c] = asks[c] + 1]
      /\ UNCHANGED <<in, peer, want, call, header>>
      /\ bd[c] \in Builders
  BY DEF WriteQuestion, TypeOK, ConnInv, ServeInv, HoldInv, Holding
<1>2. /\ asks' \in [Conns -> 0 .. MaxAsks] /\ asks'[c] = asks[c] + 1
      /\ \A d \in Conns \ {c} : asks'[d] = asks[d]
  <2>1. asks[c] + 1 \in 0 .. MaxAsks
    BY <1>1, ConnAssumption
  <2> QED  BY <2>1, <1>1 DEF TypeOK
<1>3. /\ out[c] = <<>>
      /\ in[c] = <<>> \/ (~peer[c] /\ in[c] = <<TruncatedFrame>>)
  BY <1>1, Quiet DEF Working
<1>4. CASE ~peer[c]
  <2>1. /\ pc' = [pc EXCEPT ![c] = "filter"] /\ AskEnds(c) /\ UNCHANGED out
    BY <1>4 DEF WriteQuestion
  <2>2. in' \in [Conns -> Seq(InFrame)] /\ in' = in
    BY <1>1 DEF TypeOK
  <2> QED  BY <2>1, <2>2, <1>1, <1>2, <1>3, <1>4, AskEndsStep
<1>5. CASE peer[c]
  <2>1. PICK g : g = [ty |-> "extra", len |-> 1, msg |-> content[bd[c]]]
    OBVIOUS
  <2>2. /\ out' = [out EXCEPT ![c] = Append(out[c], g)]
        /\ pc' = [pc EXCEPT ![c] = "answer"] /\ UNCHANGED <<bd, content, pool>>
    BY <1>5, <2>1 DEF WriteQuestion
  <2>3. /\ content[bd[c]] \in MessageRecord /\ want[c] = call[c]
        /\ call[c] \in Calls[c] /\ call[c] # NoCall
    BY <1>1, <1>5, CallFrames DEF TypeOK, ConnInv, WantInv, ServeInv, Working
  <2>4. g \in OutFrame
    BY <2>1, <2>3 DEF OutFrame, FrameType
  <2>5. Append(out[c], g) = <<g>> /\ Append(out[c], g) \in Seq(OutFrame) /\ Head(<<g>>) = g
    BY <2>4, <1>3, ShortSeqs
  <2>6. TypeOK'
    <3>1. out' \in [Conns -> Seq(OutFrame)]
      BY <2>2, <2>5 DEF TypeOK
    <3> QED  BY <3>1, <2>2, <1>1, <1>2 DEF TypeOK, PcSet
  <2>7. HoldInv'
    BY <1>1, <2>2, NoBuilderMoves DEF Holding, TypeOK
  <2>8. Others(c)
    BY <1>1, <2>2, <1>2 DEF Others, TypeOK
  <2>9. out'[c] = <<g>> /\ pc'[c] = "answer"
    BY <2>2, <2>5 DEF TypeOK
  <2>10. ConnInv(c)'
    <3>1. ServeInv(c)' /\ BuildInv(c)'
      BY <1>1, <2>2, <2>9 DEF ConnInv, ServeInv, BuildInv, Holding, Working
    <3>2. WantInv(c)'
      BY <1>1, <1>5, <2>3, <2>9 DEF WantInv
    <3>3. Sent(c, g)'
      BY <1>1, <1>2, <2>1, <2>3, <2>9 DEF Sent, ConnInv, BuildInv, Holding
    <3>4. InInv(c)' /\ OutInv(c)'
      BY <3>3, <1>1, <1>3, <1>5, <2>5, <2>9 DEF InInv, OutInv
    <3> QED  BY <3>1, <3>2, <3>4 DEF ConnInv
  <2> QED  BY <2>6, <2>7, <2>8, <2>10, Assemble
<1> QED  BY <1>4, <1>5

(* The answer is read, or none will come.                                  *)
LEMMA AnswerSteps ==
  ASSUME IInv, NEW c \in Conns, ReadAnswer(c) \/ NoAnswer(c)
  PROVE  IInv'
<1> USE DEF IInv
<1>1. /\ ConnInv(c) /\ pc[c] = "answer" /\ AskEnds(c)
      /\ pc' = [pc EXCEPT ![c] = "filter"]
      /\ UNCHANGED <<out, peer, want, call, asks, header>>
      /\ peer[c] => want[c] = call[c]
  BY DEF ReadAnswer, NoAnswer, ConnInv, WantInv, Working
<1>2. /\ in \in [Conns -> Seq(InFrame)] /\ asks \in [Conns -> 0 .. MaxAsks]
  BY DEF TypeOK
<1>3. CASE ReadAnswer(c)
  <2>1. /\ in[c] # <<>> /\ Head(in[c]).data = "good"
        /\ in' = [in EXCEPT ![c] = Tail(in[c])]
    BY <1>3 DEF ReadAnswer
  <2>2. in[c] # <<TruncatedFrame>>
    BY <2>1, ShortSeqs DEF TruncatedFrame
  <2>3. /\ out[c] = <<>>
        /\ \/ in[c] = <<Head(in[c])>>
           \/ ~peer[c] /\ in[c] = <<Head(in[c]), TruncatedFrame>>
    BY <1>1, <2>1, <2>2 DEF ConnInv, InInv
  <2>4. Tail(in[c]) = <<>> \/ (~peer[c] /\ Tail(in[c]) = <<TruncatedFrame>>)
    BY <2>3, TailOfIn
  <2>5. Tail(in[c]) \in Seq(InFrame)
    BY <1>2, <2>1, HeadTailProperties
  <2>6. /\ in' \in [Conns -> Seq(InFrame)] /\ in'[c] = Tail(in[c])
        /\ \A d \in Conns \ {c} : in'[d] = in[d]
    BY <1>2, <2>1, <2>5
  <2> QED  BY <1>1, <1>2, <2>3, <2>4, <2>6, AskEndsStep
<1>4. CASE NoAnswer(c)
  <2>1. in' = in /\ (Gone(c) \/ Truncated(c))
    BY <1>4 DEF NoAnswer
  <2>2. /\ out[c] = <<>>
        /\ in[c] = <<>> \/ (~peer[c] /\ in[c] = <<TruncatedFrame>>)
    <3>1. CASE Gone(c)
      BY <3>1, <1>1 DEF Gone, ConnInv, WantInv
    <3>2. CASE Truncated(c)
      <4>1. in[c] # <<>> /\ Head(in[c]).data = "truncated"
        BY <3>2 DEF Truncated
      <4>2. ~Pending(c, Head(in[c]))
        BY <4>1, <1>1 DEF Pending
      <4> QED  BY <4>1, <4>2, <1>1 DEF ConnInv, InInv, OutInv
    <3> QED  BY <2>1, <3>1, <3>2
  <2> QED  BY <1>1, <1>2, <2>1, <2>2, AskEndsStep
<1> QED  BY <1>3, <1>4

-----------------------------------------------------------------------------
(* checkIfDataTooLarge lets the reply through and names its type.          *)
LEMMA FitsCheckStep ==
  ASSUME IInv, NEW c \in Conns, FitsCheck(c)
  PROVE  IInv'
<1> USE DEF IInv
<1>1. /\ ConnInv(c) /\ pc[c] = "check" /\ pc' = [pc EXCEPT ![c] = "header"]
      /\ header' = [header EXCEPT ![c].ty = call[c].ty]
      /\ UNCHANGED <<in, out, peer, want, call, asks, bd, content, pool>>
  BY DEF FitsCheck, ReplyType
<1>2. call[c] \in Calls[c] /\ call[c].ty \in FrameType
  <2>1. call[c] \in Calls[c] /\ call[c].ty \in Handled
    BY <1>1 DEF ConnInv, ServeInv, Working
  <2> QED  BY <2>1 DEF FrameType
<1>3. TypeOK' /\ pc'[c] = "header" /\ header'[c].ty = call[c].ty
  <2>1. header' \in [Conns -> HeaderRecord] /\ header'[c].ty = call[c].ty
    BY <1>1, <1>2 DEF TypeOK, HeaderRecord
  <2> QED  BY <2>1, <1>1 DEF TypeOK, PcSet
<1>4. HoldInv'
  BY <1>1, NoBuilderMoves DEF Holding, TypeOK
<1>5. Others(c)
  BY <1>1 DEF Others, TypeOK
<1>6. /\ out[c] = <<>>
      /\ in[c] = <<>> \/ (~peer[c] /\ in[c] = <<TruncatedFrame>>)
  BY <1>1, Quiet DEF Working
<1>7. ConnInv(c)'
  <2>1. ServeInv(c)'
    BY <1>1, <1>2, <1>3 DEF ServeInv
  <2>2. BuildInv(c)'
    BY <1>1, <1>3 DEF ConnInv, BuildInv, Holding, Replies
  <2>3. WantInv(c)'
    BY <1>1, <1>3 DEF ConnInv, WantInv, Working
  <2>4. InInv(c)' /\ OutInv(c)'
    BY <1>1, <1>6 DEF InInv, OutInv
  <2> QED  BY <2>1, <2>2, <2>3, <2>4 DEF ConnInv
<1> QED  BY <1>3, <1>4, <1>5, <1>7, Assemble

(* checkIfDataTooLarge gives the reply up, and its builder.                *)
LEMMA TooLargeStep ==
  ASSUME IInv, NEW c \in Conns, TooLarge(c)
  PROVE  IInv'
<1> USE DEF IInv
<1>1. /\ ConnInv(c) /\ pc[c] = "check" /\ pc' = [pc EXCEPT ![c] = "report"]
      /\ PutBuilder(c) /\ bd' = [bd EXCEPT ![c] = NoBuilder]
      /\ UNCHANGED <<in, out, peer, want, call, asks, header>>
  BY DEF TooLarge, PutBuilder
<1>2. "report" \in PcSet \ Holding /\ pc[c] \in Holding
  BY <1>1 DEF PcSet, Holding
<1>3. /\ HoldInv'
      /\ content' \in [Builders -> MessageRecord] /\ pool' \subseteq Builders
      /\ bd' \in [Conns -> Builders \cup {NoBuilder}]
      /\ \A d \in Conns \ {c} : bd[d] \in Builders => content'[bd[d]] = content[bd[d]]
  BY <1>1, <1>2, Releases
<1>4. TypeOK' /\ pc'[c] = "report"
  BY <1>1, <1>2, <1>3 DEF TypeOK
<1>5. Others(c)
  BY <1>1, <1>3 DEF Others, TypeOK
<1>6. /\ out[c] = <<>>
      /\ in[c] = <<>> \/ (~peer[c] /\ in[c] = <<TruncatedFrame>>)
  BY <1>1, Quiet DEF Working
<1>7. ConnInv(c)'
  <2>1. ServeInv(c)' /\ BuildInv(c)'
    BY <1>1, <1>4 DEF ConnInv, ServeInv, BuildInv, Holding, Working
  <2>2. WantInv(c)'
    BY <1>1, <1>4 DEF ConnInv, WantInv, Working
  <2>3. InInv(c)' /\ OutInv(c)'
    BY <1>1, <1>6 DEF InInv, OutInv
  <2> QED  BY <2>1, <2>2, <2>3 DEF ConnInv
<1> QED  BY <1>3, <1>4, <1>5, <1>7, Assemble

(* The length goes into the header.                                        *)
LEMMA SetHeaderStep ==
  ASSUME IInv, NEW c \in Conns, SetHeader(c)
  PROVE  IInv'
<1> USE DEF IInv
<1>1. /\ ConnInv(c) /\ pc[c] = "header" /\ pc' = [pc EXCEPT ![c] = "write"]
      /\ header' = [header EXCEPT ![c].len = content[bd[c]].size % LenSpace]
      /\ UNCHANGED <<in, out, peer, want, call, asks, bd, content, pool>>
  BY DEF SetHeader
<1>2. content[bd[c]].size % LenSpace \in Nat
  <2>1. bd[c] \in Builders
    BY <1>1 DEF HoldInv, Holding, TypeOK
  <2>2. content[bd[c]].size \in Nat
    BY <2>1 DEF TypeOK, MessageRecord
  <2> QED  BY <2>2, ConnAssumption
<1>3. TypeOK' /\ pc'[c] = "write" /\ header'[c].ty = header[c].ty
  <2>1. header' \in [Conns -> HeaderRecord] /\ header'[c].ty = header[c].ty
    <3> DEFINE n == content[bd[c]].size % LenSpace
    <3> HIDE DEF n
    <3>1. header' = [header EXCEPT ![c].len = n] /\ n \in Nat
      BY <1>1, <1>2 DEF n
    <3> QED  BY <3>1 DEF TypeOK, HeaderRecord
  <2> QED  BY <2>1, <1>1 DEF TypeOK, PcSet
<1>4. HoldInv'
  BY <1>1, NoBuilderMoves DEF Holding, TypeOK
<1>5. Others(c)
  BY <1>1 DEF Others, TypeOK
<1>6. /\ out[c] = <<>>
      /\ in[c] = <<>> \/ (~peer[c] /\ in[c] = <<TruncatedFrame>>)
  BY <1>1, Quiet DEF Working
<1>7. ConnInv(c)'
  <2>1. ServeInv(c)'
    BY <1>1, <1>3 DEF ConnInv, ServeInv, Working
  <2>2. BuildInv(c)'
    BY <1>1, <1>3 DEF ConnInv, BuildInv, Holding
  <2>3. WantInv(c)'
    BY <1>1, <1>3 DEF ConnInv, WantInv, Working
  <2>4. InInv(c)' /\ OutInv(c)'
    BY <1>1, <1>6 DEF InInv, OutInv
  <2> QED  BY <2>1, <2>2, <2>3, <2>4 DEF ConnInv
<1> QED  BY <1>3, <1>4, <1>5, <1>7, Assemble

(* The reply is written, for the call APISIX waits for.                    *)
LEMMA WriteReplyStep ==
  ASSUME IInv, NEW c \in Conns, WriteReply(c)
  PROVE  IInv'
<1> USE DEF IInv
<1>1. PICK g : g = [ty |-> header[c].ty, len |-> header[c].len, msg |-> content[bd[c]]]
  OBVIOUS
<1>2. /\ ConnInv(c) /\ pc[c] = "write" /\ peer[c] /\ pc' = [pc EXCEPT ![c] = "put"]
      /\ out' = [out EXCEPT ![c] = Append(out[c], g)]
      /\ UNCHANGED <<in, peer, want, call, asks, bd, header, content, pool>>
  BY <1>1 DEF WriteReply
<1>3. /\ out[c] = <<>> /\ in[c] = <<>> /\ want[c] = call[c] /\ call[c] \in Calls[c]
      /\ call[c] # NoCall
  BY <1>2, Quiet, CallFrames DEF ConnInv, WantInv, ServeInv, Working
<1>4. g \in OutFrame
  <2>1. bd[c] \in Builders
    BY <1>2 DEF HoldInv, Holding, TypeOK
  <2>2. content[bd[c]] \in MessageRecord /\ header[c] \in HeaderRecord
    BY <2>1 DEF TypeOK
  <2> QED  BY <2>2, <1>1 DEF OutFrame, HeaderRecord
<1>5. Append(out[c], g) = <<g>> /\ Append(out[c], g) \in Seq(OutFrame) /\ Head(<<g>>) = g
  BY <1>3, <1>4, ShortSeqs
<1>6. TypeOK' /\ out'[c] = <<g>> /\ pc'[c] = "put"
  <2>1. out' \in [Conns -> Seq(OutFrame)] /\ out'[c] = <<g>>
    BY <1>2, <1>5 DEF TypeOK
  <2> QED  BY <2>1, <1>2 DEF TypeOK, PcSet
<1>7. HoldInv'
  BY <1>2, NoBuilderMoves DEF Holding, TypeOK
<1>8. Others(c)
  BY <1>2 DEF Others, TypeOK
<1>9. ConnInv(c)'
  <2>1. ServeInv(c)' /\ BuildInv(c)'
    BY <1>2, <1>6 DEF ConnInv, ServeInv, BuildInv, Holding, Working
  <2>2. WantInv(c)'
    BY <1>2, <1>3, <1>6 DEF WantInv, Working
  <2>3. /\ content[bd[c]].conn = c /\ content[bd[c]].call = call[c]
        /\ Replies(header[c].ty, content[bd[c]].ty, call[c])
    BY <1>2 DEF ConnInv, BuildInv, Holding
  <2>4. /\ g.msg.conn = c /\ g.msg.call = want[c] /\ Replies(g.ty, g.msg.ty, want[c])
    BY <2>3, <1>1, <1>3
  <2>5. Sent(c, g)'
    BY <2>4, <1>2, <1>3, <1>6 DEF Sent
  <2>6. InInv(c)' /\ OutInv(c)'
    BY <2>5, <1>2, <1>3, <1>5, <1>6 DEF InInv, OutInv
  <2> QED  BY <2>1, <2>2, <2>6 DEF ConnInv
<1> QED  BY <1>6, <1>7, <1>8, <1>9, Assemble

(* The turn ends while APISIX may have read the reply and called again.    *)
LEMMA EndTurnStep ==
  ASSUME IInv, NEW c \in Conns, EndTurn(c)
  PROVE  IInv'
<1> USE DEF IInv
<1>1. /\ ConnInv(c) /\ pc[c] = "put" /\ pc' = [pc EXCEPT ![c] = "read"]
      /\ PutBuilder(c) /\ bd' = [bd EXCEPT ![c] = NoBuilder]
      /\ call' = [call EXCEPT ![c] = NoCall] /\ asks' = [asks EXCEPT ![c] = 0]
      /\ header' = [header EXCEPT ![c] = NoHeader]
      /\ UNCHANGED <<in, out, peer, want>>
  BY DEF EndTurn, PutBuilder
<1>2. /\ "read" \in PcSet \ Holding /\ pc[c] \in Holding /\ NoHeader \in HeaderRecord
  BY <1>1 DEF PcSet, Holding, NoHeader, HeaderRecord
<1>3. /\ HoldInv'
      /\ content' \in [Builders -> MessageRecord] /\ pool' \subseteq Builders
      /\ bd' \in [Conns -> Builders \cup {NoBuilder}]
      /\ \A d \in Conns \ {c} : bd[d] \in Builders => content'[bd[d]] = content[bd[d]]
  BY <1>1, <1>2, Releases
<1>4. TypeOK' /\ pc'[c] = "read"
  <2>1. /\ call' \in [Conns -> CallRecord \cup {NoCall}]
        /\ asks' \in [Conns -> 0 .. MaxAsks] /\ header' \in [Conns -> HeaderRecord]
        /\ \A d \in Conns : {want'[d], call'[d]} \subseteq Calls[d] \cup {NoCall}
    BY <1>1, <1>2, ConnAssumption DEF TypeOK
  <2> QED  BY <2>1, <1>1, <1>2, <1>3 DEF TypeOK
<1>5. Others(c)
  BY <1>1, <1>3 DEF Others, TypeOK
<1>6. ConnInv(c)'
  <2>1. ServeInv(c)' /\ BuildInv(c)'
    BY <1>4 DEF ServeInv, BuildInv, Holding, Working
  <2>2. WantInv(c)'
    BY <1>1, <1>4 DEF ConnInv, WantInv, Working
  <2>3. InInv(c)'
    BY <1>1, <1>4 DEF ConnInv, InInv, Pending
  <2>4. OutInv(c)'
    BY <1>1, <1>4 DEF ConnInv, OutInv, Sent
  <2> QED  BY <2>1, <2>2, <2>3, <2>4 DEF ConnInv
<1> QED  BY <1>3, <1>4, <1>5, <1>6, Assemble

-----------------------------------------------------------------------------
(* The invariant holds in every state of every behaviour.                  *)
LEMMA Inductive == Spec => []IInv
<1>1. ASSUME IInv, [Next]_vars PROVE IInv'
  <2>1. CASE UNCHANGED vars
    BY <2>1, <1>1 DEF vars, IInv, TypeOK, HoldInv, BuilderExclusive, ConnInv, ServeInv,
       BuildInv, WantInv, InInv, OutInv, Pending, Sent
  <2>2. ASSUME NEW c \in Conns, Runner(c) \/ Apisix(c) \/ Accept(c) PROVE IInv'
    <3>1. CASE Runner(c)
      BY <1>1, <3>1, EndSteps, ReadFrameStep, BuildSteps, TokenFoundStep,
         WriteQuestionStep, AnswerSteps, FitsCheckStep, TooLargeStep, SetHeaderStep,
         WriteReplyStep, EndTurnStep DEF Runner
    <3>2. CASE Apisix(c)
      BY <1>1, <3>2, SendStep, TakeReplyStep, AnswerExtraStep, HangUpStep DEF Apisix
    <3>3. CASE Accept(c)
      BY <1>1, <3>3, AcceptStep
    <3> QED  BY <2>2, <3>1, <3>2, <3>3
  <2> QED  BY <1>1, <2>1, <2>2 DEF Next
<1> QED  BY <1>1, InitHolds, PTL DEF Spec

(***************************************************************************)
(* Frames, messages, headers and builders keep their types whatever the    *)
(* connections, the calls on them and the sizes of the replies.            *)
(***************************************************************************)
THEOREM TypeCorrect == Spec => []TypeOK
<1>1. IInv => TypeOK
  BY DEF IInv
<1> QED  BY <1>1, Inductive, PTL

(***************************************************************************)
(* GetBuilder and PutBuilder never let a builder into two hands: however   *)
(* many goroutines share builderPool, none writes into bytes another one   *)
(* is about to send, panics and broken connections included.               *)
(***************************************************************************)
THEOREM BuildersExclusive == Spec => []BuilderExclusive
<1>1. IInv => BuilderExclusive
  BY DEF IInv, HoldInv
<1> QED  BY <1>1, Inductive, PTL

(***************************************************************************)
(* Whatever handleConn, dispatchRPC, ReportError and askExtraInfo write on *)
(* a connection is for the call APISIX has under way on it, alone on the   *)
(* wire, and its header names the type of its bytes.                       *)
(***************************************************************************)
THEOREM RepliesMatch == Spec => []ReplyIsForCall
<1>1. ASSUME IInv PROVE ReplyIsForCall
  <2> SUFFICES ASSUME NEW c \in Conns
      PROVE /\ Len(out[c]) <= 1
            /\ \A i \in DOMAIN out[c] :
                 /\ want[c] # NoCall
                 /\ out[c][i].msg.conn = c /\ out[c][i].msg.call = want[c]
                 /\ \/ /\ out[c][i].ty = "extra" /\ out[c][i].msg.ty = "extra"
                       /\ want[c].ty \in {"req", "resp"}
                    \/ out[c][i].ty = "error" /\ out[c][i].msg.ty = Code(want[c])
                    \/ out[c][i].ty = want[c].ty /\ out[c][i].msg.ty = want[c].ty
    BY DEF ReplyIsForCall
  <2>1. CASE out[c] = <<>>
    BY <2>1
  <2>2. CASE out[c] # <<>>
    <3>1. PICK g : g = Head(out[c])
      OBVIOUS
    <3>2. /\ out[c] = <<g>> /\ Sent(c, g) /\ peer[c] /\ ConnInv(c)
      BY <1>1, <2>2, <3>1 DEF IInv, ConnInv, OutInv
    <3>3. want[c] \in Calls[c] /\ want[c] # NoCall
      BY <3>2, CallFrames DEF Sent
    <3>4. pc[c] = "answer" => want[c].ty \in {"req", "resp"}
      BY <3>2 DEF ConnInv, WantInv, ServeInv, Working
    <3>5. Len(out[c]) = 1 /\ \A i \in DOMAIN out[c] : out[c][i] = g
      BY <3>2
    <3> QED  BY <3>2, <3>3, <3>4, <3>5 DEF Sent, Replies
  <2> QED  BY <2>1, <2>2
<1> QED  BY <1>1, Inductive, PTL

(***************************************************************************)
(* The frame askExtraInfo reads is the answer to the question it has just  *)
(* written, for any number of questions and wherever APISIX hangs up,      *)
(* although the code checks neither type nor question.                     *)
(***************************************************************************)
THEOREM AnswersMatch == Spec => []AnswerIsAnswer
<1>1. ASSUME IInv PROVE AnswerIsAnswer
  <2> SUFFICES ASSUME NEW c \in Conns, pc[c] = "answer", in[c] # <<>>, ~Truncated(c)
               PROVE  Head(in[c]).ty = "extra" /\ Head(in[c]).question = asks[c]
    BY DEF AnswerIsAnswer
  <2>1. in[c] # <<TruncatedFrame>>
    BY ShortSeqs DEF Truncated, TruncatedFrame
  <2>2. Pending(c, Head(in[c]))
    BY <1>1, <2>1 DEF IInv, ConnInv, InInv
  <2> QED  BY <2>2 DEF Pending
<1> QED  BY <1>1, Inductive, PTL
=============================================================================
