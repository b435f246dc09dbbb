------------------------- MODULE PipelineClientProofs -------------------------
(***************************************************************************)
(* Theorems about the pipelining client, for any callers, any size of the  *)
(* channels and any number of requests and connections: a request gets the *)
(* reply made for it, and it is never lost and never finished twice,       *)
(* whatever times out, breaks or closes.                                   *)
(***************************************************************************)
EXTENDS PipelineClient, TLAPS, SequenceTheorems, FiniteSetTheorems

LEMMA Numbers ==
  /\ None = 0 /\ Broken = -1 /\ Failed = -2 /\ Refused = -3 /\ Garbled = -4 /\ Panic = -5
  /\ 1 \in Conns /\ Conns \subseteq Nat
  /\ Request \subseteq Nat /\ {None, Garbled, Panic} \cap Request = {}
  BY ClientAssumption DEF None, Broken, Failed, Refused, Garbled, Panic, Conns, Request

(* What a reader may come upon.                                            *)
Item == Request \cup {Garbled, Panic}

LEMMA SeqFacts ==
  ASSUME NEW X, NEW s \in Seq(X)
  PROVE  /\ s # <<>> => Head(s) \in X /\ Tail(s) \in Seq(X) /\ Len(Tail(s)) = Len(s) - 1
         /\ \A r \in X : Append(s, r) \in Seq(X) /\ Len(Append(s, r)) = Len(s) + 1
         /\ <<>> \in Seq(X) /\ Len(s) \in Nat /\ Len(<<>>) = 0
  OBVIOUS

(* A step is one of these.                                                 *)
LEMMA Steps ==
  ASSUME [Next]_vars
  PROVE  \/ \E c \in Caller : Begin(c) \/ Submit(c) \/ Refuse(c) \/ Timeout(c) \/ Return(c)
         \/ Take \/ WriterEnds \/ WriteOk \/ WriteFails \/ Redial \/ DialFails \/ GiveUp
         \/ Enqueue \/ EnqueuePanics
         \/ \E g \in Conns : ReadReply(g) \/ ParserPanics(g) \/ ReadError(g) \/ FinishRequest(g)
                             \/ FinishNil(g) \/ Serve(g) \/ Break(g)
         \/ Close \/ HangUp \/ CloseWaiting
         \/ UNCHANGED vars
  BY DEF Next, Call, HandleWrite, HandleRead, Closing

-----------------------------------------------------------------------------
(* Every step keeps the types, part by part.                               *)
LEMMA CallersStep ==
  ASSUME TypeOK, [Next]_vars
  PROVE  CallersOK'
  <1> USE ClientAssumption DEF CallersOK
  <1>0. CallersOK
    BY DEF TypeOK
  <1>1. ASSUME NEW c \in Caller, Begin(c) PROVE CallersOK'
    BY <1>0, <1>1 DEF Begin
  <1>2. ASSUME NEW c \in Caller, Submit(c) PROVE CallersOK'
    BY <1>0, <1>2 DEF Submit
  <1>3. ASSUME NEW c \in Caller, Refuse(c) \/ Timeout(c) \/ Return(c) PROVE CallersOK'
    BY <1>0, <1>3 DEF Refuse, Timeout, Return
  <1>4. CASE UNCHANGED callers
    BY <1>0, <1>4 DEF callers
  <1> QED
    BY <1>1, <1>2, <1>3, <1>4, Steps DEF vars, callers, Take, WriterEnds, WriteOk,
      WriteFails, Redial, DialFails, GiveUp, Enqueue, EnqueuePanics, ReadReply, ParserPanics,
      ReadError, FinishRequest, FinishNil, Serve, Break, Close, HangUp, CloseWaiting

LEMMA ChannelsStep ==
  ASSUME TypeOK, [Next]_vars
  PROVE  ChannelsOK'
  <1> USE ClientAssumption DEF ChannelsOK
  <1>0. ChannelsOK /\ CallersOK /\ WriterOK
    BY DEF TypeOK
  <1>1. ASSUME NEW c \in Caller, Submit(c) PROVE ChannelsOK'
    <2>1. mine[c] \in Request
      BY <1>0, <1>1 DEF CallersOK, Submit, Request
    <2> QED
      BY <1>0, <1>1, <2>1, SeqFacts DEF Submit
  <1>2. CASE Take
    BY <1>0, <1>2, SeqFacts DEF Take
  <1>3. CASE Enqueue
    <2>1. cur \in Request
      BY <1>0, <1>3 DEF WriterOK, Enqueue, Request
    <2> QED
      BY <1>0, <1>3, <2>1, SeqFacts DEF Enqueue
  <1>4. ASSUME NEW g \in Conns, FinishRequest(g) PROVE ChannelsOK'
    BY <1>0, <1>4, SeqFacts DEF FinishRequest
  <1>5. CASE UNCHANGED queues
    BY <1>0, <1>5 DEF queues
  <1> QED
    BY <1>1, <1>2, <1>3, <1>4, <1>5, Steps DEF vars, queues, Begin, Refuse, Timeout,
      Return, WriterEnds, WriteOk, WriteFails, Redial, DialFails, GiveUp,
      EnqueuePanics, ReadReply, ParserPanics, ReadError, FinishNil, Serve, Break, Close, HangUp,
      CloseWaiting

LEMMA WriterStep ==
  ASSUME TypeOK, [Next]_vars
  PROVE  WriterOK'
  <1> USE ClientAssumption DEF WriterOK
  <1>0. WriterOK /\ ChannelsOK
    BY DEF TypeOK
  <1>1. CASE Take
    <2>1. cur' \in Request
      BY <1>0, <1>1, SeqFacts DEF Take, ChannelsOK
    <2> QED
      BY <1>0, <1>1, <2>1 DEF Take, Request
  <1>2. CASE WriterEnds \/ WriteOk \/ WriteFails
    BY <1>0, <1>2 DEF WriterEnds, WriteOk, WriteFails
  <1>3. CASE Redial \/ DialFails
    BY <1>0, <1>3 DEF Redial, DialFails
  <1>4. CASE GiveUp \/ Enqueue
    BY <1>0, <1>4 DEF GiveUp, Enqueue
  <1>5. CASE UNCHANGED writer
    BY <1>0, <1>5 DEF writer
  <1> QED
    BY <1>1, <1>2, <1>3, <1>4, <1>5, Steps DEF vars, writer, Begin, Submit, Refuse,
      Timeout, Return, EnqueuePanics, ReadReply, ParserPanics, ReadError, FinishRequest, FinishNil,
      Serve, Break, Close, HangUp, CloseWaiting

(* What the other end gives, whatever it was sent and however it stands.   *)
LEMMA AnswersAre ==
  ASSUME NEW r \in Request, NEW state, NEW a \in Answers(r, state)
  PROVE  /\ a.gives \in Seq(Item) /\ a.leaves \in {"clear", "begun", "deaf"}
         /\ \/ a.gives = <<r>> /\ a.leaves = "clear" /\ state = "clear"
            \/ a.gives = <<r, Garbled>> /\ a.leaves = "clear" /\ state = "clear"
            \/ a.gives # <<>> /\ a.gives[1] = Garbled
            \/ a.gives = <<>> /\ a.leaves # "clear"
  <1>0. /\ <<>> \in Seq(Item) /\ <<r>> \in Seq(Item) /\ <<r, Garbled>> \in Seq(Item)
        /\ <<Garbled>> \in Seq(Item) /\ <<Garbled, Garbled>> \in Seq(Item)
        /\ <<Garbled, Panic>> \in Seq(Item)
        /\ \A g \in {<<Garbled>>, <<Garbled, Garbled>>, <<Garbled, Panic>>} : g # <<>> /\ g[1] = Garbled
    <2>1. r \in Item /\ Garbled \in Item /\ Panic \in Item
      BY DEF Item
    <2> QED
      BY <2>1
  <1>1. CASE a = Plain(r) /\ state = "clear"
    BY <1>0, <1>1 DEF Plain
  <1>2. CASE a \in CutShort
    <2>1. a.gives \in {<<>>} /\ a.leaves \in {"begun", "deaf"}
      BY <1>2 DEF CutShort
    <2> QED
      BY <1>0, <2>1
  <1>3. CASE a \in Misread(r) \ CutShort /\ state = "clear"
    <2>1. a.gives \in {<<Garbled>>, <<r, Garbled>>} /\ a.leaves \in {"clear"}
      BY <1>3 DEF Misread
    <2> QED
      BY <1>0, <1>3, <2>1
  <1>4. CASE a \in Spoilt
    <2>1. CASE a.gives \in {<<Garbled>>, <<Garbled, Garbled>>, <<Garbled, Panic>>} /\ a.leaves \in {"clear"}
      BY <1>0, <2>1
    <2>2. CASE a.gives \in {<<>>, <<Garbled>>} /\ a.leaves \in {"begun"}
      BY <1>0, <2>2
    <2> QED
      BY <1>4, <2>1, <2>2 DEF Spoilt
  <1> QED
    BY <1>1, <1>2, <1>3, <1>4 DEF Answers, Misread

LEMMA NetStep ==
  ASSUME TypeOK, [Next]_vars
  PROVE  NetOK'
  <1> USE ClientAssumption DEF NetOK
  <1>0. NetOK /\ WriterOK
    BY DEF TypeOK
  <1>1. CASE WriteOk
    <2>1. cur \in Request
      BY <1>0, <1>1 DEF WriterOK, WriteOk, Request
    <2> QED
      BY <1>0, <1>1, <2>1, SeqFacts DEF WriteOk
  <1>2. CASE Redial
    <2>1. conn' \in Conns /\ link' = [link EXCEPT ![conn] = "shut", ![conn + 1] = "up"]
      BY <1>0, <1>2 DEF Redial, Conns
    <2> QED
      BY <1>0, <1>2, <2>1 DEF Redial
  <1>3. CASE DialFails \/ HangUp
    BY <1>0, <1>3 DEF DialFails, HangUp
  <1>4. ASSUME NEW g \in Conns, ReadReply(g) \/ ReadError(g) \/ Break(g) PROVE NetOK'
    <2>1. CASE ReadReply(g)
      <3>1. replies' = [replies EXCEPT ![g] = Tail(@)] /\ Tail(replies[g]) \in Seq(Item)
        BY <1>0, <2>1, SeqFacts DEF ReadReply, Item
      <3> QED
        BY <1>0, <2>1, <3>1 DEF ReadReply, Item
    <2>2. CASE ReadError(g)
      BY <1>0, <2>2 DEF ReadError
    <2>3. CASE Break(g)
      BY <1>0, <2>3 DEF Break
    <2> QED
      BY <1>4, <2>1, <2>2, <2>3
  <1>5. ASSUME NEW g \in Conns, Serve(g) PROVE NetOK'
    <2>1. sent[g] \in Seq(Request) /\ sent[g] # <<>> /\ replies[g] \in Seq(Item)
      BY <1>0, <1>5 DEF Serve, Item
    <2>2. Head(sent[g]) \in Request /\ Tail(sent[g]) \in Seq(Request)
      BY <2>1, SeqFacts
    <2>3. PICK a \in Answers(Head(sent[g]), peer[g]) :
             /\ replies' = [replies EXCEPT ![g] = @ \o a.gives]
             /\ peer' = [peer EXCEPT ![g] = a.leaves]
      BY <1>5 DEF Serve
    <2>4. a.gives \in Seq(Item) /\ a.leaves \in {"clear", "begun", "deaf"}
      BY <2>2, AnswersAre
    <2>5. replies[g] \o a.gives \in Seq(Item)
      BY <2>1, <2>4, ConcatProperties
    <2>6. sent' = [sent EXCEPT ![g] = Tail(@)] /\ UNCHANGED <<conn, link>>
      BY <1>5 DEF Serve
    <2>7. replies' \in [Conns -> Seq(Item)] /\ peer' \in [Conns -> {"clear", "begun", "deaf"}]
      BY <1>0, <2>3, <2>4, <2>5 DEF Item
    <2> QED
      BY <1>0, <2>2, <2>6, <2>7 DEF Item
  <1>6. CASE UNCHANGED <<conn, net>>
    BY <1>0, <1>6 DEF net
  <1> QED
    BY <1>1, <1>2, <1>3, <1>4, <1>5, <1>6, Steps DEF vars, net, Begin, Submit, Refuse,
      Timeout, Return, Take, WriterEnds, WriteFails, GiveUp, Enqueue, EnqueuePanics,
      ParserPanics, FinishRequest, FinishNil, Close, CloseWaiting

LEMMA ReadersStep ==
  ASSUME TypeOK, [Next]_vars
  PROVE  ReadersOK'
  <1> USE ClientAssumption, Numbers DEF ReadersOK
  <1>0. ReadersOK /\ NetOK /\ WriterOK
    BY DEF TypeOK
  <1>1. ASSUME NEW g \in Conns, ReadReply(g) PROVE ReadersOK'
    <2>1. Head(replies[g]) \in Request \cup {Garbled}
      BY <1>0, <1>1, SeqFacts DEF ReadReply, NetOK, Item
    <2> QED
      BY <1>0, <1>1, <2>1 DEF ReadReply
  <1>6. ASSUME NEW g \in Conns, ParserPanics(g) PROVE ReadersOK'
    BY <1>0, <1>6 DEF ParserPanics
  <1>2. ASSUME NEW g \in Conns, ReadError(g) PROVE ReadersOK'
    BY <1>0, <1>2 DEF ReadError
  <1>3. ASSUME NEW g \in Conns, FinishRequest(g) \/ FinishNil(g) PROVE ReadersOK'
    BY SMTT(30), <1>0, <1>3 DEF FinishRequest, FinishNil, AfterMatch
  <1>4. CASE Redial
    <2>1. conn \in Nat /\ conn' = conn + 1 /\ rpc' = [rpc EXCEPT ![conn + 1] = "read"] /\ held' = held
      BY <1>0, <1>4 DEF Redial, NetOK
    <2>2. conn + 1 \in Conns
      BY <1>0, <1>4 DEF Redial, NetOK, Conns
    <2>3. held[conn + 1] = None
      BY <1>0, <2>1, <2>2
    <2> QED
      BY <1>0, <2>1, <2>2, <2>3
  <1>5. CASE UNCHANGED <<conn, readers>>
    BY <1>0, <1>5 DEF readers
  <1> QED
    BY <1>1, <1>2, <1>3, <1>4, <1>5, <1>6, Steps DEF vars, readers, Begin, Submit, Refuse,
      Timeout, Return, Take, WriterEnds, WriteOk, WriteFails, DialFails, GiveUp,
      Enqueue, EnqueuePanics, Serve, Break, Close, HangUp, CloseWaiting

LEMMA TypeStep ==
  ASSUME TypeOK, [Next]_vars
  PROVE  TypeOK'
  <1>0. TypeOK
    OBVIOUS
  <1>1. result' \in [Request -> -4..MaxReq]
    <2> USE ClientAssumption, Numbers
    <2>0. result \in [Request -> -4..MaxReq]
      BY DEF TypeOK
    <2>1. CASE GiveUp
      <3>1. result' = [result EXCEPT ![cur] = Failed] /\ Failed \in -4..MaxReq
        BY <2>1 DEF GiveUp
      <3> QED
        BY <2>0, <3>1
    <2>2. ASSUME NEW c \in Caller, Refuse(c) PROVE result' \in [Request -> -4..MaxReq]
      <3>1. result' = [result EXCEPT ![mine[c]] = Refused] /\ Refused \in -4..MaxReq
        BY <2>2 DEF Refuse
      <3> QED
        BY <2>0, <3>1
    <2>3. ASSUME NEW g \in Conns, FinishRequest(g) PROVE result' \in [Request -> -4..MaxReq]
      <3>1. held[g] \in -4..MaxReq
        BY DEF TypeOK, ReadersOK, Request
      <3> QED
        BY <2>0, <2>3, <3>1 DEF FinishRequest
    <2>4. CASE UNCHANGED result
      BY <2>0, <2>4
    <2> QED
      BY <2>1, <2>2, <2>3, <2>4, Steps DEF vars, Begin, Submit, Timeout, Return, Take,
        WriterEnds, WriteOk, WriteFails, Redial, DialFails, Enqueue, EnqueuePanics,
        ReadReply, ParserPanics, ReadError, FinishNil, Serve, Break, Close, HangUp, CloseWaiting
  <1>2. phase' \in {"open", "draining", "hungup", "closed"} /\ process' \in {"running", "crashed"}
    <2>0. phase \in {"open", "draining", "hungup", "closed"} /\ process \in {"running", "crashed"}
      BY DEF TypeOK
    <2> QED
      BY <2>0, Steps DEF vars, Begin, Submit, Refuse, Timeout, Return, Take,
        WriterEnds, WriteOk, WriteFails, Redial, DialFails, GiveUp, Enqueue,
        EnqueuePanics, ReadReply, ParserPanics, ReadError, FinishRequest, FinishNil, Serve, Break,
        Close, HangUp, CloseWaiting
  <1> QED
    BY <1>0, <1>1, <1>2, CallersStep, ChannelsStep, WriterStep, NetStep, ReadersStep DEF TypeOK

LEMMA TypeInit == Init => TypeOK
  <1> SUFFICES ASSUME Init PROVE TypeOK
    OBVIOUS
  <1> USE ClientAssumption, Numbers DEF Init
  <1>1. CallersOK /\ WriterOK
    BY DEF CallersOK, WriterOK
  <1>2. ChannelsOK
    BY DEF ChannelsOK
  <1>3. NetOK
    BY DEF NetOK
  <1>4. ReadersOK
    BY DEF ReadersOK
  <1> QED
    BY <1>1, <1>2, <1>3, <1>4 DEF TypeOK

(* Every variable of the client keeps its type.                            *)
THEOREM ClientTyping == Spec => []TypeOK
  BY TypeInit, TypeStep, PTL DEF Spec

-----------------------------------------------------------------------------
Elems(s) == {s[i] : i \in 1..Len(s)}
Distinct(s) == \A i, j \in 1..Len(s) : s[i] = s[j] => i = j

(* The requests that callers are about to submit.                          *)
Submitting == {c \in Caller : pc[c] = "submit"}
Offered == {mine[c] : c \in Submitting}

(* The places are apart, each holds a request once, and the requests in    *)
(* them are those made and not finished.                                   *)
Apart ==
  /\ Distinct(pendingReqs) /\ Distinct(waitingReqs)
  /\ Elems(pendingReqs) \cap Elems(waitingReqs) = {}
  /\ cur \notin Elems(pendingReqs) \cup Elems(waitingReqs) \cup Offered
  /\ Offered \cap (Elems(pendingReqs) \cup Elems(waitingReqs)) = {}
  /\ \A c, d \in Submitting : mine[c] = mine[d] => c = d
Unfinished ==
  /\ Elems(pendingReqs) \cup Elems(waitingReqs) \cup Offered \subseteq 1..made
  /\ cur \in 0..made
  /\ \A r \in Request : result[r] = None <=>
       r > made \/ r \in Elems(pendingReqs) \cup Elems(waitingReqs) \cup Offered \cup {cur}
PlaceInv == Apart /\ Unfinished

-----------------------------------------------------------------------------
(* An empty queue holds nothing.                                           *)
LEMMA ElemsEmpty == Elems(<<>>) = {} /\ Distinct(<<>>)
  BY DEF Elems, Distinct

(* A queue that takes in a new request holds that one more, still once.    *)
LEMMA ElemsAppend ==
  ASSUME NEW s \in Seq(Request), NEW r \in Request
  PROVE  /\ Elems(Append(s, r)) = Elems(s) \cup {r}
         /\ Distinct(s) /\ r \notin Elems(s) => Distinct(Append(s, r))
  <1> DEFINE t == Append(s, r)
  <1>1. Len(t) = Len(s) + 1 /\ t[Len(s) + 1] = r /\ \A i \in 1..Len(s) : t[i] = s[i]
    OBVIOUS
  <1>2. Len(s) \in Nat
    OBVIOUS
  <1> HIDE DEF t
  <1>3. Elems(t) = Elems(s) \cup {r}
    BY <1>1, <1>2 DEF Elems
  <1>4. Distinct(s) /\ r \notin Elems(s) => Distinct(t)
    BY <1>1, <1>2 DEF Elems, Distinct
  <1> QED
    BY <1>3, <1>4 DEF t

(* A queue that gives its head away holds it no longer.                    *)
LEMMA ElemsTail ==
  ASSUME NEW s \in Seq(Request), s # <<>>, Distinct(s)
  PROVE  /\ Elems(s) = {Head(s)} \cup Elems(Tail(s)) /\ Head(s) \notin Elems(Tail(s))
         /\ Distinct(Tail(s)) /\ Head(s) \in Request
  <1> DEFINE t == Tail(s) h == Head(s)
  <1>1. Len(t) = Len(s) - 1 /\ \A i \in 1..Len(t) : t[i] = s[i + 1]
    OBVIOUS
  <1>2. Len(s) \in Nat \ {0} /\ h = s[1] /\ h \in Request
    OBVIOUS
  <1> HIDE DEF t, h
  <1>3. ASSUME NEW r PROVE r \in Elems(s) <=> r = h \/ r \in Elems(t)
    <2>1. ASSUME NEW i \in 1..Len(s), i # 1 PROVE i - 1 \in 1..Len(t) /\ t[i - 1] = s[i]
      BY <1>1, <1>2, <2>1
    <2>2. ASSUME NEW i \in 1..Len(t) PROVE i + 1 \in 1..Len(s) /\ s[i + 1] = t[i]
      BY <1>1, <1>2
    <2>3. 1 \in 1..Len(s)
      BY <1>2
    <2> QED
      <3>1. r = h => r \in Elems(s)
        BY <1>2, <2>3 DEF Elems
      <3>2. r \in Elems(t) => r \in Elems(s)
        BY <2>2 DEF Elems
      <3>3. ASSUME r \in Elems(s), r # h PROVE r \in Elems(t)
        <4>1. PICK i \in 1..Len(s) : s[i] = r
          BY <3>3 DEF Elems
        <4>2. i # 1
          BY <1>2, <3>3, <4>1
        <4> QED
          BY <2>1, <4>1, <4>2 DEF Elems
      <3> QED
        BY <3>1, <3>2, <3>3
  <1>4. h \notin Elems(t) /\ Distinct(t)
    BY SMTT(30), <1>1, <1>2 DEF Elems, Distinct
  <1> QED
    BY <1>2, <1>3, <1>4 DEF t, h

-----------------------------------------------------------------------------
(* Nothing is under way at first.                                          *)
LEMMA PlaceInit == Init => PlaceInv
  <1> SUFFICES ASSUME Init PROVE PlaceInv
    OBVIOUS
  <1>1. /\ pendingReqs = <<>> /\ waitingReqs = <<>> /\ cur = 0 /\ made = 0
        /\ pc = [c \in Caller |-> "idle"] /\ result = [r \in Request |-> None]
    BY DEF Init
  <1>2. Submitting = {} /\ Offered = {}
    BY <1>1 DEF Submitting, Offered
  <1>3. \A r \in Request : r > 0
    BY ClientAssumption DEF Request
  <1> QED
    BY <1>1, <1>2, <1>3, ElemsEmpty DEF PlaceInv, Apart, Unfinished

(* Every step moves a request from one place to one other, or finishes it. *)
LEMMA PlaceStep == TypeOK /\ PlaceInv /\ [Next]_vars => PlaceInv'
  <1> SUFFICES ASSUME TypeOK, PlaceInv, [Next]_vars PROVE PlaceInv'
    OBVIOUS
  <1> USE ClientAssumption
  <1> DEFINE P == Elems(pendingReqs) W == Elems(waitingReqs)
  <1>t. /\ pc \in [Caller -> {"idle", "submit", "wait"}] /\ mine \in [Caller -> 0..MaxReq]
        /\ made \in 0..MaxReq /\ \A c \in Caller : pc[c] # "idle" => mine[c] # 0
        /\ pendingReqs \in Seq(Request) /\ waitingReqs \in Seq(Request)
        /\ cur \in 0..MaxReq /\ (cur = 0 <=> wpc \in {"take", "ended"})
        /\ result \in [Request -> -4..MaxReq]
        /\ \A g \in Conns : rpc[g] = "match" <=> held[g] # None
    BY DEF TypeOK, CallersOK, ChannelsOK, WriterOK, ReadersOK
  <1>n. None = 0 /\ Failed = -2 /\ Refused = -3
    BY Numbers
  <1>i. /\ Distinct(pendingReqs) /\ Distinct(waitingReqs) /\ P \cap W = {}
        /\ cur \notin P \cup W \cup Offered /\ Offered \cap (P \cup W) = {}
        /\ \A c, d \in Submitting : mine[c] = mine[d] => c = d
        /\ P \cup W \cup Offered \subseteq 1..made /\ cur \in 0..made
        /\ \A r \in Request : result[r] = None <=> r > made \/ r \in P \cup W \cup Offered \cup {cur}
    BY DEF PlaceInv, Apart, Unfinished
  <1> HIDE DEF P, W
  <1>1. ASSUME NEW c \in Caller, Begin(c) PROVE PlaceInv'
    <2>1. /\ pc[c] = "idle" /\ made < MaxReq /\ made' = made + 1
          /\ mine' = [mine EXCEPT ![c] = made + 1] /\ pc' = [pc EXCEPT ![c] = "submit"]
          /\ UNCHANGED <<result, queues, writer>>
      BY <1>1 DEF Begin
    <2>2. Submitting' = Submitting \cup {c} /\ c \notin Submitting
      BY <1>t, <2>1 DEF Submitting
    <2>3. \A d \in Submitting : mine'[d] = mine[d] /\ mine'[c] = made + 1
      BY <1>t, <2>1, <2>2 DEF Submitting
    <2>4. Offered' = Offered \cup {made + 1}
      BY <1>t, <2>1, <2>2, <2>3 DEF Offered
    <2>5. made + 1 \notin P \cup W \cup Offered \cup {cur} /\ 1..made' = 1..made \cup {made + 1}
      BY <1>t, <1>i, <2>1
    <2>6. P' = P /\ W' = W /\ cur' = cur
      BY <2>1 DEF queues, writer, P, W
    <2>7. \A a, b \in Submitting' : mine'[a] = mine'[b] => a = b
      <3>1. \A a \in Submitting : mine[a] \in Offered
        BY DEF Offered
      <3> QED BY <1>i, <2>2, <2>3, <2>5, <3>1, <1>t, <2>1
    <2>8. \A r \in Request : r > made <=> r > made' \/ r = made + 1
      BY <1>t, <2>1 DEF Request
    <2>9. \A r \in Request : result'[r] = None <=> r > made' \/ r \in P' \cup W' \cup Offered' \cup {cur'}
      BY <1>i, <2>1, <2>4, <2>6, <2>8
    <2>10. Apart'
      BY <1>i, <2>1, <2>4, <2>5, <2>6, <2>7 DEF Apart, queues, P, W
    <2>11. cur' \in 0..made'
      BY <1>t, <1>i, <2>1, <2>6
    <2>12. P' \cup W' \cup Offered' \subseteq 1..made'
      BY <1>i, <2>4, <2>5, <2>6
    <2> QED
      BY <2>9, <2>10, <2>11, <2>12 DEF PlaceInv, Unfinished, P, W
  <1>2. ASSUME NEW c \in Caller, pc[c] = "submit", pc' \in [Caller -> {"idle", "submit", "wait"}],
               pc'[c] # "submit",
               \A d \in Caller \ {c} : pc'[d] = pc[d] /\ mine'[d] = mine[d]
        PROVE  /\ Offered' = Offered \ {mine[c]} /\ mine[c] \in Offered /\ mine[c] \in Request
               /\ \A a, b \in Submitting' : mine'[a] = mine'[b] => a = b
    <2>1. Submitting' = Submitting \ {c} /\ c \in Submitting
      BY <1>t, <1>2 DEF Submitting
    <2>2. \A d \in Submitting' : d \in Caller /\ mine'[d] = mine[d] /\ mine[d] # mine[c]
      BY <1>i, <1>2, <2>1 DEF Submitting
    <2>3. Offered' = Offered \ {mine[c]} /\ mine[c] \in Offered
      BY <1>i, <2>1, <2>2 DEF Offered
    <2>4. mine[c] \in Request
      BY <1>t, <1>2 DEF Request
    <2> QED
      BY <1>i, <2>1, <2>2, <2>3, <2>4
  <1>3. ASSUME NEW c \in Caller, Submit(c) PROVE PlaceInv'
    <2>1. /\ pc[c] = "submit" /\ pc' = [pc EXCEPT ![c] = "wait"] /\ mine' = mine
          /\ pendingReqs' = Append(pendingReqs, mine[c]) /\ waitingReqs' = waitingReqs
          /\ made' = made /\ result' = result /\ cur' = cur
      BY <1>3 DEF Submit, writer
    <2>2. /\ Offered' = Offered \ {mine[c]} /\ mine[c] \in Offered /\ mine[c] \in Request
          /\ \A a, b \in Submitting' : mine'[a] = mine'[b] => a = b
      BY <1>t, <1>2, <2>1
    <2>3. P' = P \cup {mine[c]} /\ W' = W /\ Distinct(pendingReqs')
      BY <1>t, <1>i, <2>1, <2>2, ElemsAppend DEF P, W
    <2> QED
      BY <1>i, <2>1, <2>2, <2>3 DEF PlaceInv, Apart, Unfinished, P, W
  <1>4. ASSUME NEW c \in Caller, Refuse(c) PROVE PlaceInv'
    <2>1. /\ pc[c] = "submit" /\ pc' = [pc EXCEPT ![c] = "idle"] /\ mine' = [mine EXCEPT ![c] = 0]
          /\ pendingReqs' = pendingReqs /\ waitingReqs' = waitingReqs
          /\ made' = made /\ result' = [result EXCEPT ![mine[c]] = Refused] /\ cur' = cur
      BY <1>4 DEF Refuse, writer, queues
    <2>2. /\ Offered' = Offered \ {mine[c]} /\ mine[c] \in Offered /\ mine[c] \in Request
          /\ \A a, b \in Submitting' : mine'[a] = mine'[b] => a = b
      BY <1>t, <1>2, <2>1
    <2>3. P' = P /\ W' = W
      BY <2>1 DEF P, W
    <2>4. mine[c] \in 1..made /\ mine[c] \notin P \cup W \cup {cur}
      BY <1>i, <2>2
    <2>5. \A r \in Request : result'[r] = IF r = mine[c] THEN Refused ELSE result[r]
      BY <1>t, <2>1
    <2>6. \A r \in Request : result'[r] = None <=> r > made' \/ r \in P' \cup W' \cup Offered' \cup {cur'}
      <3>1. ~(mine[c] > made)
        BY <1>t, <2>4
      <3> QED BY <1>i, <1>n, <2>1, <2>2, <2>3, <2>4, <2>5, <3>1
    <2> QED
      BY <1>i, <2>1, <2>2, <2>3, <2>6 DEF PlaceInv, Apart, Unfinished, P, W
  <1>5. ASSUME NEW c \in Caller, Timeout(c) \/ Return(c) PROVE PlaceInv'
    <2>1. /\ pc[c] = "wait" /\ pc' = [pc EXCEPT ![c] = "idle"] /\ mine' = [mine EXCEPT ![c] = 0]
          /\ pendingReqs' = pendingReqs /\ waitingReqs' = waitingReqs
          /\ made' = made /\ result' = result /\ cur' = cur
      BY <1>5 DEF Timeout, Return, writer, queues
    <2>2. Submitting' = Submitting /\ \A d \in Submitting : mine'[d] = mine[d]
      BY <1>t, <2>1 DEF Submitting
    <2>3. Offered' = Offered
      BY <2>2 DEF Offered
    <2> QED
      BY <1>i, <2>1, <2>2, <2>3 DEF PlaceInv, Apart, Unfinished, P, W
  <1>o. UNCHANGED callers => Submitting' = Submitting /\ Offered' = Offered /\ made' = made /\ mine' = mine
    BY DEF callers, Submitting, Offered
  <1>6. CASE Take
    <2>1. /\ wpc = "take" /\ pendingReqs # <<>> /\ cur' = Head(pendingReqs)
          /\ pendingReqs' = Tail(pendingReqs) /\ waitingReqs' = waitingReqs /\ result' = result
          /\ UNCHANGED callers
      BY <1>6 DEF Take
    <2>2. cur = 0 /\ \A r \in Request : r # cur
      BY <1>t, <2>1 DEF Request
    <2>3. P = {cur'} \cup P' /\ cur' \notin P' /\ Distinct(pendingReqs') /\ cur' \in Request /\ W' = W
      BY <1>t, <1>i, <2>1, ElemsTail DEF P, W
    <2>4. cur' \in 0..made'
      BY <1>t, <1>i, <1>o, <2>1, <2>3
    <2> QED
      BY <1>i, <1>o, <2>1, <2>2, <2>3, <2>4 DEF PlaceInv, Apart, Unfinished, P, W
  <1>7. CASE GiveUp
    <2>1. /\ wpc = "dial" /\ cur' = 0 /\ result' = [result EXCEPT ![cur] = Failed]
          /\ UNCHANGED callers /\ UNCHANGED queues
      BY <1>7 DEF GiveUp
    <2>2. cur \in Request /\ cur \in 1..made
      BY <1>t, <1>i, <2>1 DEF Request
    <2>3. 0 \notin P \cup W \cup Offered /\ 0 \notin Request /\ 0 \in 0..made
      BY <1>t, <1>i DEF Request
    <2>4. P' = P /\ W' = W /\ pendingReqs' = pendingReqs /\ waitingReqs' = waitingReqs
      BY <2>1 DEF queues, P, W
    <2>5. \A r \in Request : result'[r] = IF r = cur THEN Failed ELSE result[r]
      BY <1>t, <2>1
    <2>6. \A r \in Request : result'[r] = None <=> r > made' \/ r \in P' \cup W' \cup Offered' \cup {cur'}
      <3>1. ~(cur > made)
        BY <1>t, <2>2
      <3> QED BY <1>i, <1>n, <1>o, <2>1, <2>2, <2>3, <2>4, <2>5, <3>1
    <2> QED
      BY <1>i, <1>o, <2>1, <2>3, <2>4, <2>6 DEF PlaceInv, Apart, Unfinished, P, W
  <1>8. CASE Enqueue
    <2>1. /\ wpc = "enqueue" /\ waitingReqs' = Append(waitingReqs, cur) /\ cur' = 0
          /\ pendingReqs' = pendingReqs /\ result' = result /\ UNCHANGED callers
      BY <1>8 DEF Enqueue
    <2>2. cur \in Request /\ cur \in 1..made
      BY <1>t, <1>i, <2>1 DEF Request
    <2>3. 0 \notin P \cup W \cup Offered \cup {cur} /\ 0 \notin Request /\ 0 \in 0..made
      BY <1>t, <1>i, <2>2 DEF Request
    <2>4. P' = P /\ W' = W \cup {cur} /\ Distinct(waitingReqs')
      BY <1>t, <1>i, <2>1, <2>2, ElemsAppend DEF P, W
    <2> QED
      BY <1>i, <1>o, <2>1, <2>2, <2>3, <2>4 DEF PlaceInv, Apart, Unfinished, P, W
  <1>9. ASSUME NEW g \in Conns, FinishRequest(g) PROVE PlaceInv'
    <2> DEFINE h == Head(waitingReqs)
    <2>1. /\ rpc[g] = "match" /\ waitingReqs # <<>> /\ result' = [result EXCEPT ![h] = held[g]]
          /\ waitingReqs' = Tail(waitingReqs) /\ pendingReqs' = pendingReqs /\ cur' = cur
          /\ UNCHANGED callers
      BY <1>9 DEF FinishRequest, writer
    <2>2. W = {h} \cup W' /\ h \notin W' /\ Distinct(waitingReqs') /\ h \in Request /\ P' = P
      BY <1>t, <1>i, <2>1, ElemsTail DEF P, W
    <2>3. h \in 1..made /\ h \notin P \cup Offered \cup {cur} /\ held[g] # None
      BY <1>t, <1>i, <2>1, <2>2
    <2> HIDE DEF h
    <2>4. \A r \in Request : result'[r] = IF r = h THEN held[g] ELSE result[r]
      BY <1>t, <2>1
    <2>5. \A r \in Request : result'[r] = None <=> r > made' \/ r \in P' \cup W' \cup Offered' \cup {cur'}
      <3>1. ~(h > made)
        BY <1>t, <2>3
      <3> QED BY <1>i, <1>o, <2>1, <2>2, <2>3, <2>4, <3>1
    <2> QED
      BY <1>i, <1>o, <2>1, <2>2, <2>3, <2>5 DEF PlaceInv, Apart, Unfinished, P, W
  <1>10. CASE UNCHANGED <<callers, result, queues, cur>>
    BY <1>10, <1>o DEF queues, PlaceInv, Apart, Unfinished
  <1>11. UNCHANGED writer => UNCHANGED cur
    BY DEF writer
  <1>12. CASE UNCHANGED vars
    BY <1>10, <1>12 DEF vars, callers, queues
  <1> QED
    BY <1>1, <1>3, <1>4, <1>5, <1>6, <1>7, <1>8, <1>9, <1>10, <1>11, <1>12, Steps
       DEF WriterEnds, WriteOk, WriteFails, Redial, DialFails, EnqueuePanics, ReadReply, ParserPanics,
           ReadError, FinishNil, Serve, Break, Close, HangUp, CloseWaiting

-----------------------------------------------------------------------------
(* A set of at most one element, counted.                                  *)
LEMMA OneOrNone ==
  ASSUME NEW S, \A x, y \in S : x = y
  PROVE  Cardinality(S) = IF S = {} THEN 0 ELSE 1
  <1>1. CASE S = {}
    BY <1>1, FS_EmptySet
  <1>2. CASE S # {}
    <2>1. PICK x \in S : TRUE
      BY <1>2
    <2>2. S = {x}
      BY <2>1
    <2> QED BY <1>2, <2>2, FS_Singleton
  <1> QED BY <1>1, <1>2

(* Places that are apart add up to one.                                    *)
LEMMA PlaceSays == TypeOK /\ PlaceInv => InOnePlace
  <1> SUFFICES ASSUME TypeOK, PlaceInv, NEW r \in 1..made
               PROVE  Cardinality({i \in 1..Len(pendingReqs \o waitingReqs) : (pendingReqs \o waitingReqs)[i] = r})
                      + (IF cur = r THEN 1 ELSE 0)
                      + Cardinality({c \in Caller : pc[c] = "submit" /\ mine[c] = r})
                      = IF result[r] = None THEN 1 ELSE 0
    BY DEF InOnePlace
  <1> DEFINE q == pendingReqs \o waitingReqs
             I == {i \in 1..Len(q) : q[i] = r}
             C == {c \in Caller : pc[c] = "submit" /\ mine[c] = r}
             P == Elems(pendingReqs) W == Elems(waitingReqs)
  <1>t. /\ pendingReqs \in Seq(Request) /\ waitingReqs \in Seq(Request) /\ r \in Request
        /\ Len(pendingReqs) \in Nat /\ Len(waitingReqs) \in Nat /\ made \in Nat
    BY ClientAssumption DEF TypeOK, ChannelsOK, CallersOK, Request
  <1>1. /\ Len(q) = Len(pendingReqs) + Len(waitingReqs)
        /\ \A i \in 1..Len(q) : q[i] = IF i <= Len(pendingReqs) THEN pendingReqs[i]
                                         ELSE waitingReqs[i - Len(pendingReqs)]
    BY <1>t
  <1> HIDE DEF q
  <1>2. \A i \in 1..Len(q) : /\ i <= Len(pendingReqs) => i \in 1..Len(pendingReqs) /\ q[i] \in P
                             /\ i > Len(pendingReqs) => i - Len(pendingReqs) \in 1..Len(waitingReqs) /\ q[i] \in W
    BY <1>t, <1>1 DEF Elems
  <1>3. I # {} <=> r \in P \cup W
    <2>1. ASSUME r \in P PROVE I # {}
      <3>1. PICK i \in 1..Len(pendingReqs) : pendingReqs[i] = r
        BY <2>1 DEF Elems
      <3>2. i \in 1..Len(q) /\ q[i] = r
        BY <1>t, <1>1, <3>1
      <3> QED BY <3>2
    <2>2. ASSUME r \in W PROVE I # {}
      <3>1. PICK j \in 1..Len(waitingReqs) : waitingReqs[j] = r
        BY <2>2 DEF Elems
      <3> DEFINE i == Len(pendingReqs) + j
      <3>2. i \in 1..Len(q) /\ ~(i <= Len(pendingReqs)) /\ i - Len(pendingReqs) = j
        BY <1>t, <1>1
      <3>3. q[i] = r
        BY <1>1, <3>1, <3>2
      <3> QED BY <3>2, <3>3
    <2>3. ASSUME I # {} PROVE r \in P \cup W
      BY <1>t, <1>1, <1>2, <2>3
    <2> QED BY <2>1, <2>2, <2>3
  <1>4. ASSUME NEW i \in I, NEW j \in I PROVE i = j
    <2>1. CASE i <= Len(pendingReqs) /\ j <= Len(pendingReqs)
      BY <1>1, <1>2, <2>1 DEF PlaceInv, Apart, Distinct
    <2>2. CASE i > Len(pendingReqs) /\ j > Len(pendingReqs)
      <3>1. i - Len(pendingReqs) = j - Len(pendingReqs)
        BY SMTT(30), <1>t, <1>1, <1>2, <2>2 DEF PlaceInv, Apart, Distinct
      <3> QED BY <1>t, <1>1, <3>1
    <2>3. CASE (i <= Len(pendingReqs)) # (j <= Len(pendingReqs))
      <3>1. r \in P /\ r \in W
        BY <1>t, <1>1, <1>2, <2>3
      <3> QED BY <3>1 DEF PlaceInv, Apart
    <2> QED BY <1>t, <1>1, <2>1, <2>2, <2>3
  <1>5. C # {} <=> r \in Offered
    BY DEF Offered, Submitting
  <1>6. \A c, d \in C : c = d
    BY DEF Submitting, PlaceInv, Apart
  <1>7. /\ Cardinality(I) = IF r \in P \cup W THEN 1 ELSE 0
        /\ Cardinality(C) = IF r \in Offered THEN 1 ELSE 0
    <2> HIDE DEF I, C
    <2> QED BY <1>3, <1>4, <1>5, <1>6, OneOrNone
  <1>8. /\ result[r] = None <=> r \in P \cup W \cup Offered \cup {cur}
        /\ r \in P \cup W => r \notin Offered /\ cur # r
        /\ r \in Offered => cur # r
    <2>1. ~(r > made)
      BY <1>t
    <2> QED BY <1>t, <2>1 DEF PlaceInv, Apart, Unfinished
  <1> HIDE DEF I, C, P, W
  <1>9. Cardinality(I) + (IF cur = r THEN 1 ELSE 0) + Cardinality(C) = IF result[r] = None THEN 1 ELSE 0
    BY <1>7, <1>8
  <1> QED
    BY <1>9 DEF I, C, q

(* A request that a caller made is finished once, or is in exactly one     *)
(* place: Send's request is never lost between the channels of client.go.  *)
THEOREM ClientInOnePlace == Spec => []InOnePlace
  BY ClientTyping, PlaceInit, PlaceStep, PlaceSays, PTL DEF Spec

-----------------------------------------------------------------------------
(* Where there is no trouble after a step, there was none before it, and   *)
(* the step is not one of those that end a connection.                     *)
LEMMA Undisturbed ==
  ASSUME TypeOK, [Next]_vars, ~Disturbed'
  PROVE  /\ ~Disturbed /\ ~Redial /\ ~DialFails /\ ~HangUp /\ link' = link
         /\ \A g \in Conns : ~Break(g)
  <1>0. NetOK /\ NetOK'
    BY TypeStep DEF TypeOK
  <1>1. ~Redial
    <2> SUFFICES ASSUME Redial PROVE FALSE
      OBVIOUS
    <2>1. link' = [link EXCEPT ![conn] = "shut", ![conn + 1] = "up"] /\ conn \in Conns /\ conn \in Nat
      BY <1>0, Numbers DEF Redial, NetOK
    <2>2. link'[conn] = "shut"
      BY <1>0, <2>1 DEF NetOK
    <2> QED
      BY <2>1, <2>2 DEF Disturbed
  <1>2. ~DialFails /\ ~HangUp
    BY <1>0 DEF DialFails, HangUp, NetOK, Disturbed
  <1>3. \A g \in Conns : ~Break(g)
    BY <1>0 DEF Break, NetOK, Disturbed
  <1>4. link' = link
    BY <1>1, <1>2, <1>3, Steps DEF vars, net, Begin, Submit, Refuse, Timeout, Return,
      Take, WriterEnds, WriteOk, WriteFails, GiveUp, Enqueue, EnqueuePanics, ReadReply, ParserPanics,
      ReadError, FinishRequest, FinishNil, Serve, Close, CloseWaiting
  <1> QED
    BY <1>1, <1>2, <1>3, <1>4 DEF Disturbed

LEMMA SingleStep ==
  ASSUME TypeOK, Single, [Next]_vars
  PROVE  Single'
  <1> SUFFICES ASSUME ~Disturbed'
               PROVE  /\ conn' = 1 /\ link'[1] = "up" /\ held'[1] # Broken
                      /\ wpc' # "dial" /\ phase' \in {"open", "draining"}
                      /\ \A g \in Conns \ {1} : link'[g] = "none" /\ rpc'[g] = "none"
    BY DEF Single
  <1>0. /\ conn = 1 /\ link[1] = "up" /\ held[1] # Broken
        /\ wpc # "dial" /\ phase \in {"open", "draining"}
        /\ \A g \in Conns \ {1} : link[g] = "none" /\ rpc[g] = "none"
    BY Undisturbed DEF Single
  <1>1. /\ ~Redial /\ ~DialFails /\ ~HangUp /\ ~CloseWaiting /\ ~WriteFails /\ ~GiveUp
        /\ link' = link /\ \A g \in Conns : ~Break(g)
    BY <1>0, Undisturbed DEF WriteFails, CloseWaiting, GiveUp
  <1>2. conn' = conn
    BY <1>1, Steps DEF vars, Begin, Submit, Refuse, Timeout, Return,
      Take, WriterEnds, WriteOk, Enqueue, EnqueuePanics, ReadReply, ParserPanics,
      ReadError, FinishRequest, FinishNil, Serve, Close
  <1>3. wpc' # "dial" /\ phase' \in {"open", "draining"}
    BY <1>0, <1>1, Steps DEF vars, writer, Begin, Submit, Refuse, Timeout, Return,
      Take, WriterEnds, WriteOk, Enqueue, EnqueuePanics, ReadReply, ParserPanics,
      ReadError, FinishRequest, FinishNil, Serve, Close
  <1>4. held'[1] # Broken /\ \A g \in Conns \ {1} : rpc'[g] = "none"
    <2> USE Numbers
    <2>0. NetOK /\ ReadersOK
      BY DEF TypeOK
    <2>1. ASSUME NEW g \in Conns, ReadReply(g)
          PROVE  held'[1] # Broken /\ \A h \in Conns \ {1} : rpc'[h] = "none"
      <3>1. g = 1
        BY <1>0, <2>1 DEF ReadReply
      <3>2. Head(replies[1]) \in Request \cup {Garbled}
        BY <2>0, <2>1, <3>1, SeqFacts DEF ReadReply, NetOK, Item
      <3> QED
        BY <1>0, <2>0, <2>1, <3>1, <3>2 DEF ReadReply, ReadersOK, Request
    <2>5. ASSUME NEW g \in Conns, ParserPanics(g)
          PROVE  held'[1] # Broken /\ \A h \in Conns \ {1} : rpc'[h] = "none"
      BY <1>0, <2>0, <2>5 DEF ParserPanics, ReadersOK
    <2>2. ASSUME NEW g \in Conns, FinishRequest(g) \/ FinishNil(g)
          PROVE  held'[1] # Broken /\ \A h \in Conns \ {1} : rpc'[h] = "none"
      BY <1>0, <2>0, <2>2 DEF FinishRequest, FinishNil, ReadersOK
    <2>3. \A g \in Conns : ~ReadError(g)
      BY <1>0 DEF ReadError
    <2>4. CASE UNCHANGED readers
      BY <1>0, <2>4 DEF readers
    <2> QED
      BY <1>1, <2>1, <2>2, <2>3, <2>4, <2>5, Steps DEF vars, readers, Begin, Submit, Refuse,
        Timeout, Return, Take, WriterEnds, WriteOk, Enqueue, EnqueuePanics,
        Serve, Close
  <1> QED
    BY <1>0, <1>1, <1>2, <1>3, <1>4

-----------------------------------------------------------------------------
(* What stays in line when the sequences grow, when something spoilt comes *)
(* in, and when the first of each goes.                                    *)
LEMMA InLineGrows ==
  ASSUME NEW s \in Seq(Item), NEW t \in Seq(Request), NEW r \in Request, InLine(s, t)
  PROVE  InLine(Append(s, r), Append(t, r))
  <1> DEFINE x == Append(s, r)  y == Append(t, r)
  <1>1. /\ Len(s) \in Nat /\ Len(t) \in Nat /\ Len(x) = Len(s) + 1 /\ Len(y) = Len(t) + 1
        /\ x[Len(s) + 1] = r /\ y[Len(t) + 1] = r
        /\ \A i \in 1..Len(s) : x[i] = s[i]
        /\ \A i \in 1..Len(t) : y[i] = t[i]
    BY DEF Item
  <1> HIDE DEF x, y
  <1>2. ASSUME NEW i \in 0..Len(s) PROVE Sound(x, i) <=> Sound(s, i)
    <2>1. \A j \in 1..i : j \in 1..Len(s) /\ x[j] = s[j]
      BY <1>1
    <2> QED
      BY <2>1 DEF Sound
  <1>3. ASSUME Sound(x, Len(x)) PROVE Len(s) = Len(t)
    <2>0. \A i \in 1..Len(s) : i \in 1..Len(x)
      BY <1>1
    <2>1. Sound(x, Len(s))
      BY <1>3, <2>0 DEF Sound
    <2> QED
      BY <1>1, <1>2, <2>1 DEF InLine
  <1>4. ASSUME NEW i \in 1..Len(x), Sound(x, i) PROVE i <= Len(y) /\ x[i] = y[i]
    <2>1. CASE i <= Len(s)
      BY <1>1, <1>2, <1>4, <2>1 DEF InLine
    <2>2. CASE i = Len(s) + 1
      BY <1>1, <1>3, <1>4, <2>2
    <2> QED
      BY <1>1, <2>1, <2>2
  <1> QED
    BY <1>1, <1>3, <1>4 DEF InLine, x, y

LEMMA InLineSpoils ==
  ASSUME NEW s \in Seq(Item), NEW x \in Seq(Item), NEW t \in Seq(Request), InLine(s, t),
         NEW n \in 0..Len(s), n < Len(x), \A i \in 1..n : x[i] = s[i], x[n + 1] \notin Request
  PROVE  InLine(x, t)
  <1>1. Len(s) \in Nat /\ Len(x) \in Nat
    OBVIOUS
  <1>2. ASSUME NEW i \in 1..Len(x), Sound(x, i) PROVE i <= n
    <2> SUFFICES ASSUME n < i PROVE FALSE
      BY <1>1
    <2>1. n + 1 \in 1..i
      BY <1>1
    <2> QED
      BY <1>2, <2>1 DEF Sound
  <1>3. ASSUME NEW i \in 1..Len(x), Sound(x, i) PROVE i <= Len(t) /\ x[i] = t[i]
    <2>0. i <= n /\ i \in 1..Len(s)
      BY <1>1, <1>2, <1>3
    <2>1. \A j \in 1..i : j \in 1..n /\ x[j] \in Request
      BY <1>3, <2>0 DEF Sound
    <2>2. Sound(s, i)
      BY <2>1 DEF Sound
    <2>3. s[i] = x[i]
      BY <2>0
    <2> QED
      BY <2>0, <2>2, <2>3 DEF InLine
  <1>4. ~Sound(x, Len(x))
    BY <1>1, <1>2
  <1> QED
    BY <1>3, <1>4 DEF InLine

Starts(C, r, T) ==
  /\ T \in Seq(Item) /\ Len(C) = Len(T) + 1 /\ C[1] = r
  /\ \A i \in 1..Len(T) : C[i + 1] = T[i]

LEMMA InLineAdvances ==
  ASSUME NEW C, NEW D, NEW r \in Request, NEW q, NEW T, NEW U,
         InLine(C, D), Starts(C, r, T), Starts(D, q, U)
  PROVE  r = q /\ InLine(T, U)
  <1>1. /\ Len(T) \in Nat /\ Len(U) \in Nat /\ Len(C) = Len(T) + 1 /\ Len(D) = Len(U) + 1
        /\ C[1] = r /\ D[1] = q
        /\ \A i \in 1..Len(T) : C[i + 1] = T[i]
        /\ \A i \in 1..Len(U) : D[i + 1] = U[i]
    BY LenProperties DEF Starts
  <1>2. ASSUME NEW i \in 0..Len(T), Sound(T, i) PROVE Sound(C, i + 1)
    <2>1. ASSUME NEW j \in 1..i + 1 PROVE C[j] \in Request
      <3>1. CASE j = 1
        BY <1>1, <3>1
      <3>2. CASE j - 1 \in 1..i
        <4>1. T[j - 1] \in Request
          BY <1>2, <3>2 DEF Sound
        <4>2. j - 1 \in 1..Len(T) /\ (j - 1) + 1 = j
          BY <1>1, <3>2
        <4> QED
          BY <1>1, <4>1, <4>2
      <3> QED
        BY <3>1, <3>2
    <2> QED
      BY <2>1 DEF Sound
  <1>3. r = q
    <2>1. Sound(C, 1) /\ 1 \in 1..Len(C)
      BY <1>1 DEF Sound
    <2> QED
      BY <1>1, <2>1 DEF InLine
  <1>4. ASSUME NEW i \in 1..Len(T), Sound(T, i) PROVE i <= Len(U) /\ T[i] = U[i]
    <2>1. i + 1 \in 1..Len(C) /\ Sound(C, i + 1)
      BY <1>1, <1>2, <1>4
    <2>2. i + 1 <= Len(D) /\ C[i + 1] = D[i + 1]
      BY <2>1 DEF InLine
    <2>3. i \in 1..Len(U)
      BY <1>1, <2>2
    <2> QED
      BY <1>1, <2>2, <2>3
  <1>5. ASSUME Sound(T, Len(T)) PROVE Len(T) = Len(U)
    <2>1. Sound(C, Len(C))
      BY <1>1, <1>2, <1>5
    <2> QED
      BY <1>1, <2>1 DEF InLine
  <1> QED
    BY <1>3, <1>4, <1>5 DEF InLine

-----------------------------------------------------------------------------
(* Moving an element from the front of one sequence to the end of the one  *)
(* before it leaves their concatenation alone.                             *)
LEMMA FrontElement ==
  ASSUME NEW X, NEW s \in Seq(X), s # <<>>
  PROVE  s = <<Head(s)>> \o Tail(s)
  OBVIOUS

LEMMA AppendElement ==
  ASSUME NEW X, NEW s \in Seq(X), NEW r \in X
  PROVE  Append(s, r) = s \o <<r>> /\ <<r>> \in Seq(X)
  OBVIOUS

LEMMA AppendLast ==
  ASSUME NEW X, NEW P \in Seq(X), NEW S \in Seq(X), NEW r \in X
  PROVE  P \o Append(S, r) = Append(P \o S, r)
  <1>1. <<r>> \in Seq(X) /\ P \o S \in Seq(X)
    BY AppendElement, ConcatProperties
  <1>2. Append(S, r) = S \o <<r>> /\ Append(P \o S, r) = (P \o S) \o <<r>>
    BY <1>1, AppendElement
  <1> QED
    BY <1>1, <1>2, ConcatAssociative

LEMMA ThreeQueues ==
  ASSUME NEW H \in Seq(Item), NEW R \in Seq(Item), NEW S \in Seq(Item)
  PROVE  (H \o R) \o S = H \o (R \o S)
  BY SMT, ConcatAssociative

LEMMA Joined ==
  ASSUME NEW H \in Seq(Item), NEW R \in Seq(Item)
  PROVE  H \o R \in Seq(Item)
  BY ConcatProperties

(* What comes after P, if its first is spoilt, is read so.                 *)
SpoiltAfter(x, P) ==
  /\ x \in Seq(Item) /\ Len(P) < Len(x) /\ x[Len(P) + 1] \notin Request
  /\ \A i \in 1..Len(P) : x[i] = P[i]

LEMMA MarkAfter ==
  ASSUME NEW P \in Seq(Item), NEW g \in Seq(Item), NEW M \in Seq(Item), NEW T \in Seq(Item),
         (g # <<>> /\ g[1] = Garbled) \/ (g = <<>> /\ M = <<Garbled>>),
         NEW x, x = ((P \o g) \o M) \o T
  PROVE  SpoiltAfter(x, P)
  <1> DEFINE N == g \o M
  <1>1. N \in Seq(Item) /\ Len(N) >= 1 /\ N[1] = Garbled
    <2>0. N \in Seq(Item) /\ Len(g) \in Nat /\ Len(M) \in Nat
      OBVIOUS
    <2>1. CASE g # <<>> /\ g[1] = Garbled
      <3>1. Len(g) >= 1 /\ Len(N) = Len(g) + Len(M) /\ \A i \in 1..Len(g) : N[i] = g[i]
        BY <2>1
      <3> QED
        BY <2>0, <2>1, <3>1
    <2>2. CASE g = <<>> /\ M = <<Garbled>>
      <3>1. N = M
        BY <2>2
      <3> QED
        BY <2>0, <2>2, <3>1
    <2> QED
      BY <2>1, <2>2
  <1>0. P \in Seq(Item) /\ g \in Seq(Item) /\ M \in Seq(Item)
    OBVIOUS
  <1>2. (P \o g) \o M = P \o N
    BY ONLY ZenonT(30), <1>0, ThreeQueues
  <1> HIDE DEF N
  <1> DEFINE Q == P \o N
  <1>3. /\ Q \in Seq(Item) /\ Len(Q) = Len(P) + Len(N)
        /\ \A i \in 1..Len(P) : Q[i] = P[i]
        /\ Q[Len(P) + 1] = Garbled
    <2>1. /\ Q \in Seq(Item) /\ Len(Q) = Len(P) + Len(N) /\ Len(P) \in Nat /\ Len(N) \in Nat
          /\ \A i \in 1..Len(P) + Len(N) : Q[i] = IF i <= Len(P) THEN P[i] ELSE N[i - Len(P)]
      BY <1>1, ConcatProperties, LenProperties
    <2>2. \A i \in 1..Len(P) : Q[i] = P[i]
      BY <2>1
    <2>3. Len(P) + 1 \in 1..Len(P) + Len(N) /\ ~(Len(P) + 1 <= Len(P)) /\ (Len(P) + 1) - Len(P) = 1
      BY <1>1, <2>1
    <2>4. Q[Len(P) + 1] = N[1]
      BY <2>1, <2>3
    <2> QED
      BY <1>1, <2>1, <2>2, <2>4
  <1> HIDE DEF Q
  <1>4. Q \o T \in Seq(Item) /\ Len(Q \o T) = Len(Q) + Len(T) /\ \A i \in 1..Len(Q) : (Q \o T)[i] = Q[i]
    <2>1. Q \in Seq(Item)
      BY <1>3
    <2>2. /\ Q \o T \in Seq(Item) /\ Len(Q \o T) = Len(Q) + Len(T) /\ Len(Q) \in Nat /\ Len(T) \in Nat
          /\ \A i \in 1..Len(Q) + Len(T) : (Q \o T)[i] = IF i <= Len(Q) THEN Q[i] ELSE T[i - Len(Q)]
      BY <2>1, ConcatProperties, LenProperties
    <2> QED
      BY <2>2
  <1>5. x = Q \o T
    BY <1>2 DEF Q
  <1>6. Len(P) \in Nat /\ Len(N) \in Nat /\ Len(T) \in Nat /\ Garbled \notin Request
    BY <1>1, Numbers
  <1>7. x \in Seq(Item) /\ Len(P) < Len(x) /\ x[Len(P) + 1] \notin Request
    BY <1>1, <1>3, <1>4, <1>5, <1>6
  <1>8. \A i \in 1..Len(P) : x[i] = P[i]
    BY <1>1, <1>3, <1>4, <1>5, <1>6
  <1> QED
    BY <1>7, <1>8 DEF SpoiltAfter

LEMMA StartsOne ==
  ASSUME NEW H \in Seq(Item), NEW T \in Seq(Item), Len(H) = 1
  PROVE  Starts(H \o T, H[1], T)
  <1>1. /\ Len(H \o T) = 1 + Len(T) /\ Len(T) \in Nat
        /\ \A i \in 1..1 + Len(T) : (H \o T)[i] = IF i <= 1 THEN H[i] ELSE T[i - 1]
    <2>1. Len(H) \in Nat /\ Len(T) \in Nat /\ Len(H) = 1
      BY LenProperties
    <2>2. /\ Len(H \o T) = Len(H) + Len(T)
          /\ \A i \in 1..Len(H) + Len(T) : (H \o T)[i] = IF i <= Len(H) THEN H[i] ELSE T[i - Len(H)]
      BY ConcatProperties
    <2> QED
      BY ONLY <2>1, <2>2
  <1>2. (H \o T)[1] = H[1] /\ \A i \in 1..Len(T) : (H \o T)[i + 1] = T[i]
    BY <1>1
  <1> QED
    BY <1>1, <1>2 DEF Starts

LEMMA HeldFinish ==
  ASSUME NEW H \in Seq(Item), NEW R \in Seq(Item), NEW M \in Seq(Item), NEW S \in Seq(Item), Len(H) = 1
  PROVE  Starts(H \o R \o M \o S, H[1], R \o M \o S)
  <1> DEFINE Q == R \o M
  <1>0. H \in Seq(Item) /\ R \in Seq(Item) /\ M \in Seq(Item)
    OBVIOUS
  <1>1. (H \o R) \o M = H \o Q
    BY ONLY ZenonT(30), <1>0, ThreeQueues
  <1>4. Q \in Seq(Item)
    BY Joined
  <1> HIDE DEF Q
  <1>2. (H \o Q) \o S = H \o (Q \o S)
    <2>1. H \in Seq(Item) /\ Q \in Seq(Item) /\ S \in Seq(Item)
      BY <1>4
    <2> QED
      BY ONLY ZenonT(30), <2>1, ThreeQueues
  <1>5. Q \o S \in Seq(Item)
    BY Zenon, <1>4, Joined
  <1>3. Starts(H \o (Q \o S), H[1], Q \o S)
    BY Zenon, <1>5, StartsOne
  <1> QED
    BY <1>1, <1>2, <1>3 DEF Q

LEMMA DueFinish ==
  ASSUME NEW W \in Seq(Item), NEW X \in Seq(Item), W # <<>>
  PROVE  Starts(W \o X, Head(W), Tail(W) \o X)
  <1>0. X \in Seq(Item)
    OBVIOUS
  <1>1. /\ <<Head(W)>> \in Seq(Item) /\ Tail(W) \in Seq(Item) /\ <<>> \in Seq(Item)
        /\ W = <<Head(W)>> \o Tail(W)
    BY SeqFacts, AppendElement, FrontElement
  <1>2. (<<Head(W)>> \o Tail(W)) \o X = <<Head(W)>> \o (Tail(W) \o X)
    BY ONLY ZenonT(30), <1>1, <1>0, ThreeQueues
  <1>4. Tail(W) \o X \in Seq(Item)
    BY Zenon, <1>1, Joined
  <1>3. Starts(<<Head(W)>> \o (Tail(W) \o X), <<Head(W)>>[1], Tail(W) \o X)
    BY <1>1, <1>4, StartsOne
  <1> QED
    BY <1>1, <1>2, <1>3

(* A request that got something spoilt keeps it: results are final.        *)
LEMMA SpoiledStays ==
  ASSUME TypeOK, PlaceInv, [Next]_vars, Spoiled
  PROVE  Spoiled'
  <1>1. PICK r \in Request : result[r] = Garbled
    BY DEF Spoiled
  <1>2. /\ result[r] # None /\ result \in [Request -> -4..MaxReq]
        /\ r # cur /\ r \notin Elems(waitingReqs) /\ r \notin Offered
    BY <1>1, Numbers DEF TypeOK, PlaceInv, Unfinished
  <1>3. ASSUME NEW c \in Caller, Refuse(c) PROVE result'[r] = result[r]
    <2>1. c \in Submitting /\ mine[c] \in Offered
      BY <1>3 DEF Refuse, Submitting, Offered
    <2> QED
      BY <1>2, <1>3, <2>1 DEF Refuse
  <1>4. ASSUME NEW g \in Conns, FinishRequest(g) PROVE result'[r] = result[r]
    <2>1. waitingReqs \in Seq(Request) /\ waitingReqs # <<>> /\ Distinct(waitingReqs)
      BY <1>4 DEF FinishRequest, TypeOK, ChannelsOK, PlaceInv, Apart
    <2>2. Elems(waitingReqs) = {Head(waitingReqs)} \cup Elems(Tail(waitingReqs))
      BY ONLY <2>1, ElemsTail
    <2>3. Head(waitingReqs) # r
      BY <1>2, <2>2
    <2>4. result' = [result EXCEPT ![Head(waitingReqs)] = held[g]]
      BY <1>4 DEF FinishRequest
    <2> QED
      BY <1>2, <2>3, <2>4
  <1>5. ASSUME GiveUp PROVE result'[r] = result[r]
    <2>1. result' = [result EXCEPT ![cur] = Failed]
      BY <1>5 DEF GiveUp
    <2> QED
      BY <1>2, <2>1
  <1>7. CASE UNCHANGED result
    BY <1>1, <1>7 DEF Spoiled
  <1>8. CASE result'[r] = result[r]
    BY <1>1, <1>8 DEF Spoiled
  <1> QED
    BY <1>3, <1>4, <1>5, <1>7, <1>8, Steps DEF vars, Begin, Submit, Timeout, Return, Take,
      WriterEnds, WriteOk, WriteFails, Redial, DialFails, Enqueue, EnqueuePanics,
      ReadReply, ParserPanics, ReadError, FinishNil, Serve, Break, Close, HangUp, CloseWaiting

(* The heart of the matter: replies on their way and requests that wait    *)
(* stay in line, and so the reply a reader holds, unless it is spoilt, is  *)
(* the first one's.                                                        *)
OfHeld == IF held[1] = None THEN <<>> ELSE <<held[1]>>
Unended == IF peer[1] = "clear" THEN <<>> ELSE <<Garbled>>

LEMMA AlignedStep ==
  ASSUME TypeOK, PlaceInv, Single, Aligned, PairedUntilBroken, [Next]_vars
  PROVE  Aligned' /\ PairedUntilBroken'
  <1> SUFFICES ASSUME ~Disturbed', ~Spoiled'
               PROVE  InLine(Coming, Due)' /\ \A r \in Request : result'[r] \in {None, Refused, r}
    BY DEF Aligned, PairedUntilBroken
  <1> DEFINE R == replies[1]  S == sent[1]  W == waitingReqs  M == Unended
             X == IF wpc = "enqueue" THEN <<cur>> ELSE <<>>
  <1>0. /\ conn = 1 /\ link[1] = "up" /\ held[1] # Broken
        /\ wpc # "dial" /\ phase \in {"open", "draining"}
        /\ \A g \in Conns \ {1} : link[g] = "none" /\ rpc[g] = "none"
    BY Undisturbed DEF Single
  <1>1. /\ ~Redial /\ ~DialFails /\ ~HangUp /\ ~WriteFails /\ ~GiveUp /\ ~EnqueuePanics
        /\ \A g \in Conns : ~Break(g) /\ ~ReadError(g) /\ ~FinishNil(g)
    BY <1>0, Undisturbed DEF WriteFails, GiveUp, EnqueuePanics, ReadError, FinishNil
  <1>2. InLine(Coming, Due) /\ \A r \in Request : result[r] \in {None, Refused, r}
    BY Undisturbed, SpoiledStays DEF Aligned, PairedUntilBroken
  <1>i. Request \subseteq Item /\ Garbled \in Item /\ Panic \in Item
    BY DEF Item
  <1>3. /\ R \in Seq(Item) /\ S \in Seq(Request) /\ W \in Seq(Request)
        /\ replies \in [Conns -> Seq(Item)] /\ sent \in [Conns -> Seq(Request)]
        /\ S \in Seq(Item) /\ W \in Seq(Item) /\ M \in Seq(Item) /\ peer \in [Conns -> {"clear", "begun", "deaf"}]
    <2>1. /\ replies \in [Conns -> Seq(Item)] /\ sent \in [Conns -> Seq(Request)]
          /\ peer \in [Conns -> {"clear", "begun", "deaf"}] /\ waitingReqs \in Seq(Request)
      BY DEF TypeOK, NetOK, ChannelsOK, Item
    <2>2. R \in Seq(Item) /\ S \in Seq(Request)
      BY <2>1, Numbers
    <2>3. \A s \in Seq(Request) : s \in Seq(Item)
      BY <1>i
    <2>4. M \in Seq(Item)
      BY <1>i DEF Unended
    <2> QED
      BY <2>1, <2>2, <2>3, <2>4
  <1>4. rpc[1] = "match" <=> held[1] # None
    BY Numbers DEF TypeOK, ReadersOK
  <1>5. held \in [Conns -> Request \cup {None, Broken, Garbled}]
    BY DEF TypeOK, ReadersOK
  <1>6. held[1] # None => held[1] \in Request \cup {Garbled} /\ held[1] \in Item
    BY <1>0, <1>5, <1>i, Numbers
  <1>7. OfHeld \in Seq(Item) /\ Coming = OfHeld \o R \o M \o S
    BY <1>6, SeqFacts, AppendElement, <1>3 DEF OfHeld, Unended, Coming
  <1>8. wpc = "enqueue" => cur \in Request
    BY DEF TypeOK, WriterOK, Request
  <1>x. X \in Seq(Request) /\ X \in Seq(Item) /\ Due = W \o X
    BY <1>8, <1>i DEF Due
  <1>c. /\ OfHeld \o R \in Seq(Item) /\ OfHeld \o R \o M \in Seq(Item)
        /\ Coming \in Seq(Item) /\ Due \in Seq(Request)
    <2>1. OfHeld \o R \in Seq(Item)
      BY Zenon, <1>3, <1>7, Joined
    <2>2. OfHeld \o R \o M \in Seq(Item)
      BY Zenon, <1>3, <2>1, Joined
    <2>3. Coming \in Seq(Item)
      BY Zenon, <1>3, <1>7, <2>2, Joined
    <2> QED
      BY <1>3, <1>x, <2>1, <2>2, <2>3, ConcatProperties
  <1>9. CASE WriteOk
    <2>1. cur \in Request /\ cur \in Item
      BY <1>9, <1>i DEF WriteOk, TypeOK, WriterOK, Request
    <2>2. sent' = [sent EXCEPT ![1] = Append(@, cur)] /\ wpc = "write" /\ wpc' = "enqueue"
      BY <1>0, <1>9 DEF WriteOk
    <2>3. UNCHANGED <<cur, held, replies, peer, waitingReqs, result>>
      BY <1>9 DEF WriteOk, readers, queues
    <2>4. sent'[1] = Append(S, cur)
      BY <1>3, <2>2, Numbers
    <2>5. Coming' = OfHeld \o R \o M \o Append(S, cur)
      BY <2>3, <2>4 DEF Coming, OfHeld, Unended
    <2>6. Due = W /\ Due' = Append(W, cur)
      <3>1. Due = W \o <<>> /\ Due' = W \o <<cur>>
        BY <2>2, <2>3 DEF Due
      <3> QED
        BY <1>3, <2>1, <3>1, AppendElement, ConcatEmptySeq
    <2>7. Coming' = Append(Coming, cur)
      <3> DEFINE P == OfHeld \o R \o M
      <3>1. P \in Seq(Item) /\ Coming = P \o S /\ Coming' = P \o Append(S, cur)
        BY <1>7, <1>c, <2>5
      <3> HIDE DEF P
      <3> QED
        <4>0. P \in Seq(Item) /\ S \in Seq(Item) /\ cur \in Item
          BY <1>3, <2>1, <3>1
        <4>1. P \o Append(S, cur) = Append(P \o S, cur)
          BY ONLY <4>0, AppendLast
        <4> QED
          BY <3>1, <4>1
    <2>8. InLine(Append(Coming, cur), Append(W, cur))
      BY <1>2, <1>3, <1>c, <2>1, <2>6, InLineGrows
    <2> QED
      BY <1>2, <2>3, <2>6, <2>7, <2>8
  <1>10. CASE Enqueue
    <2>1. wpc = "enqueue" /\ waitingReqs' = Append(W, cur) /\ wpc' = "take"
      BY <1>10 DEF Enqueue
    <2>2. UNCHANGED <<held, replies, peer, sent, result>>
      BY <1>10 DEF Enqueue, readers, net
    <2>3. Coming' = Coming
      BY <2>2 DEF Coming
    <2>4. Due = W \o <<cur>> /\ Due' = Append(W, cur) \o <<>>
      BY <2>1 DEF Due
    <2>5. Append(W, cur) \in Seq(Request) /\ Append(W, cur) = W \o <<cur>>
      BY <1>3, <1>8, <2>1, SeqFacts, AppendElement
    <2>6. Due' = Due
      BY <2>4, <2>5, ConcatEmptySeq
    <2> QED
      BY <1>2, <2>2, <2>3, <2>6
  <1>11. ASSUME NEW g \in Conns, ReadReply(g)
         PROVE  InLine(Coming, Due)' /\ UNCHANGED result
    <2>1. g = 1
      BY <1>0, <1>11 DEF ReadReply
    <2>2. rpc[1] = "read" /\ R # <<>> /\ held'[1] = Head(R) /\ replies'[1] = Tail(R) /\ Head(R) # Panic
      BY <1>3, <1>5, <1>11, <2>1, Numbers DEF ReadReply
    <2>3. UNCHANGED <<sent, peer, waitingReqs, wpc, cur, result>>
      BY <1>11 DEF ReadReply, writer, queues
    <2>4. held[1] = None /\ held'[1] # None
      <3>1. Head(R) \in Item
        BY <1>3, <2>2, SeqFacts
      <3> QED
        BY <1>4, <2>2, <3>1, Numbers DEF Item
    <2>5. Coming' = (<<Head(R)>> \o Tail(R)) \o M \o S /\ Coming = (<<>> \o R) \o M \o S
      BY <2>2, <2>3, <2>4 DEF Coming, Unended
    <2>6. Due' = Due
      BY <2>3 DEF Due
    <2>7. <<Head(R)>> \o Tail(R) = R /\ <<>> \o R = R
      BY <1>3, <2>2, FrontElement, ConcatEmptySeq
    <2>8. Coming' = Coming
      BY <2>5, <2>7
    <2> QED
      BY <1>2, <2>3, <2>6, <2>8
  <1>12. ASSUME NEW g \in Conns, Serve(g)
         PROVE  InLine(Coming, Due)' /\ UNCHANGED result
    <2>1. g = 1
      BY <1>0, <1>12 DEF Serve
    <2>2. PICK a \in Answers(Head(S), peer[1]) :
             /\ replies' = [replies EXCEPT ![1] = @ \o a.gives]
             /\ peer' = [peer EXCEPT ![1] = a.leaves]
      BY <1>12, <2>1 DEF Serve
    <2> DEFINE h == Head(S)  T == Tail(S)  P == OfHeld \o R  N == IF a.leaves = "clear" THEN <<>> ELSE <<Garbled>>
    <2>3. S # <<>> /\ sent'[1] = T /\ replies'[1] = R \o a.gives /\ peer'[1] = a.leaves
      BY <1>3, <1>12, <2>1, <2>2, Numbers DEF Serve
    <2>4. UNCHANGED <<held, waitingReqs, wpc, cur, result>>
      BY <1>12 DEF Serve, writer, queues, readers
    <2>5. h \in Request /\ h \in Item /\ T \in Seq(Request) /\ T \in Seq(Item) /\ S = <<h>> \o T /\ <<h>> \in Seq(Item)
      BY <1>3, <1>i, <2>3, SeqFacts, FrontElement, AppendElement
    <2>6. /\ a.gives \in Seq(Item)
          /\ \/ a.gives = <<h>> /\ a.leaves = "clear" /\ peer[1] = "clear"
             \/ a.gives = <<h, Garbled>> /\ a.leaves = "clear" /\ peer[1] = "clear"
             \/ a.gives # <<>> /\ a.gives[1] = Garbled
             \/ a.gives = <<>> /\ a.leaves # "clear"
      BY <2>5, AnswersAre
    <2>7. Coming' = OfHeld \o (R \o a.gives) \o N \o T /\ Due' = Due
      BY <2>3, <2>4 DEF Coming, OfHeld, Unended, Due
    <2>8. P \in Seq(Item) /\ N \in Seq(Item) /\ Len(P) \in Nat
      BY <1>c, <1>i
    <2>9. Coming' = P \o a.gives \o N \o T /\ Coming = P \o M \o S
      <3>1. (OfHeld \o R) \o a.gives = OfHeld \o (R \o a.gives)
        BY ONLY ZenonT(30), <1>3, <1>7, <2>6, ThreeQueues
      <3> QED
        BY <1>7, <2>7, <3>1
    <2> HIDE DEF h, T, P
    <2>10. ASSUME NEW m \in 0..Len(Coming), m < Len(Coming'), Coming' \in Seq(Item),
                  \A i \in 1..m : Coming'[i] = Coming[i], Coming'[m + 1] \notin Request
           PROVE  InLine(Coming, Due)'
      <3>1. InLine(Coming', Due)
        BY <1>2, <1>c, <2>10, InLineSpoils
      <3> QED
        BY <2>7, <3>1
    <2>11. CASE a.gives = <<h>> /\ a.leaves = "clear" /\ peer[1] = "clear"
      <3>1. M = <<>> /\ N = <<>>
        BY <2>11 DEF Unended
      <3>2. P \o <<>> = P /\ (P \o <<h>>) \o <<>> = P \o <<h>>
        BY <2>5, <2>8, ConcatProperties, ConcatEmptySeq
      <3>3. Coming' = (P \o <<h>>) \o T /\ Coming = P \o (<<h>> \o T)
        BY <2>5, <2>9, <2>11, <3>1, <3>2
      <3>4. Coming' = Coming
        <4>1. (P \o <<h>>) \o T = P \o (<<h>> \o T)
          BY ONLY ZenonT(30), <2>5, <2>8, ThreeQueues
        <4> QED
          BY <3>3, <4>1
      <3> QED
        BY <1>2, <2>4, <2>7, <3>4
    <2>12. CASE a.gives = <<h, Garbled>> /\ a.leaves = "clear" /\ peer[1] = "clear"
      <3> DEFINE Q == P \o <<h>>  b == <<Garbled>>
      <3>1. M = <<>> /\ N = <<>>
        BY <2>12 DEF Unended
      <3>2. P \o <<>> = P /\ Q \in Seq(Item) /\ b \in Seq(Item) /\ Len(Q) \in Nat
        BY <1>i, <2>5, <2>8, ConcatProperties, ConcatEmptySeq
      <3>3. a.gives = <<h>> \o b
        BY <2>12
      <3>4. P \o a.gives = Q \o b
        <4>1. (P \o <<h>>) \o b = P \o (<<h>> \o b)
          BY ONLY ZenonT(30), <2>5, <2>8, <3>2, ThreeQueues
        <4> QED
          BY <3>3, <4>1
      <3>5. Coming = Q \o T
        <4>1. Coming = P \o (<<h>> \o T)
          BY <2>5, <2>9, <3>1, <3>2
        <4>2. (P \o <<h>>) \o T = P \o (<<h>> \o T)
          BY ONLY ZenonT(30), <2>5, <2>8, ThreeQueues
        <4> QED
          BY <4>1, <4>2
      <3>6. Coming' = ((Q \o b) \o N) \o T
        BY <2>9, <3>4
      <3>b. b # <<>> /\ b[1] = Garbled
        OBVIOUS
      <3> HIDE DEF Q, b, N
      <3>7. SpoiltAfter(Coming', Q)
        BY Zenon, <2>5, <2>8, <3>2, <3>6, <3>b, MarkAfter
      <3>8. Len(Q) \in 0..Len(Coming) /\ \A i \in 1..Len(Q) : Coming[i] = Q[i]
        BY <2>5, <3>2, <3>5
      <3> QED
        BY <2>4, <2>10, <3>7, <3>8 DEF SpoiltAfter
    <2>13. CASE \/ a.gives # <<>> /\ a.gives[1] = Garbled
                \/ a.gives = <<>> /\ a.leaves # "clear"
      <3>1. (a.gives # <<>> /\ a.gives[1] = Garbled) \/ (a.gives = <<>> /\ N = <<Garbled>>)
        BY <2>13
      <3> HIDE DEF N
      <3>2. SpoiltAfter(Coming', P)
        BY Zenon, <2>5, <2>6, <2>8, <2>9, <3>1, MarkAfter
      <3>3. Len(P) \in 0..Len(Coming) /\ \A i \in 1..Len(P) : Coming[i] = P[i]
        <4> DEFINE L == M \o S
        <4>1. Coming = P \o L /\ L \in Seq(Item)
          <5>1. L \in Seq(Item)
            BY Zenon, <1>3, Joined
          <5>2. (P \o M) \o S = P \o (M \o S)
            <6>1. M \in Seq(Item) /\ S \in Seq(Item) /\ P \in Seq(Item)
              BY <1>3, <2>8
            <6> QED
              BY ONLY ZenonT(30), <6>1, ThreeQueues
          <5> QED
            BY <2>9, <5>1, <5>2
        <4> HIDE DEF L
        <4> QED
          BY <2>8, <4>1
      <3> QED
        BY <2>4, <2>10, <3>2, <3>3 DEF SpoiltAfter
    <2> QED
      BY <2>4, <2>6, <2>11, <2>12, <2>13
  <1>13. ASSUME NEW g \in Conns, FinishRequest(g)
         PROVE  InLine(Coming, Due)' /\ \A r \in Request : result'[r] \in {None, Refused, r}
    <2>1. g = 1
      BY <1>0, <1>13 DEF FinishRequest
    <2>2. /\ rpc[1] = "match" /\ W # <<>> /\ waitingReqs' = Tail(W)
          /\ result' = [result EXCEPT ![Head(W)] = held[1]]
      BY <1>13, <2>1 DEF FinishRequest
    <2>3. held'[1] = None
      BY <1>5, <1>13, <2>1, Numbers DEF FinishRequest
    <2>4. UNCHANGED <<replies, peer, sent, wpc, cur>>
      BY <1>13 DEF FinishRequest, writer, net
    <2>5. result \in [Request -> -4..MaxReq] /\ Head(W) \in Request
      BY <1>3, <2>2, SeqFacts DEF TypeOK
    <2>6. held[1] \in Request
      <3>1. held[1] \in Request \cup {Garbled}
        BY <1>4, <1>6, <2>2
      <3>2. held[1] # Garbled
        BY <2>2, <2>5 DEF Spoiled
      <3> QED
        BY <3>1, <3>2
    <2>7. Due' = Tail(W) \o X
      BY <2>2, <2>4 DEF Due
    <2>8. Coming' = R \o M \o S
      BY <1>3, <2>3, <2>4, ConcatEmptySeq DEF Coming, Unended
    <2>9. OfHeld[1] = held[1] /\ Len(OfHeld) = 1
      BY <1>4, <2>2 DEF OfHeld
    <2> HIDE DEF X, M
    <2>10. held[1] = Head(W) /\ InLine(Coming', Due')
      <3>1. Starts(OfHeld \o R \o M \o S, OfHeld[1], R \o M \o S)
        BY <1>3, <1>7, <2>9, HeldFinish
      <3>2. Starts(W \o X, Head(W), Tail(W) \o X)
        BY <1>3, <1>x, <2>2, DueFinish
      <3>3. Starts(Coming, held[1], Coming') /\ Starts(Due, Head(W), Due')
        BY <1>7, <1>x, <2>7, <2>8, <2>9, <3>1, <3>2
      <3> QED
        BY <1>2, <2>6, <3>3, InLineAdvances
    <2> QED
      BY <1>2, <2>2, <2>5, <2>10
  <1>14. ASSUME NEW c \in Caller, Refuse(c)
         PROVE  InLine(Coming, Due)' /\ \A r \in Request : result'[r] \in {None, Refused, r}
    <2>1. result' = [result EXCEPT ![mine[c]] = Refused]
      BY <1>14 DEF Refuse
    <2>2. result \in [Request -> -4..MaxReq]
      BY DEF TypeOK
    <2>3. Coming' = Coming /\ Due' = Due
      BY <1>14 DEF Refuse, Coming, Due, net, readers, writer, queues
    <2> QED
      BY <1>2, <2>1, <2>2, <2>3
  <1>15. ASSUME UNCHANGED <<held, replies, peer, sent, waitingReqs>>, wpc # "enqueue", wpc' # "enqueue"
         PROVE  InLine(Coming, Due)'
    <2>1. Coming' = Coming /\ Due' = Due
      BY <1>15 DEF Coming, Due
    <2> QED
      BY <1>2, <2>1
  <1>16. ASSUME UNCHANGED <<held, replies, peer, sent, waitingReqs, wpc, cur>>
         PROVE  InLine(Coming, Due)'
    <2>1. Coming' = Coming /\ Due' = Due
      BY <1>16 DEF Coming, Due
    <2> QED
      BY <1>2, <2>1
  <1>17. CASE Take \/ WriterEnds
    <2>1. UNCHANGED <<held, replies, peer, sent, waitingReqs, result>> /\ wpc = "take" /\ wpc' # "enqueue"
      BY <1>17 DEF Take, WriterEnds, net, readers, queues
    <2> QED
      BY <1>2, <1>15, <2>1
  <1>18. ASSUME \/ \E c \in Caller : Begin(c) \/ Submit(c) \/ Timeout(c) \/ Return(c)
                \/ \E g \in Conns : ParserPanics(g)
                \/ Close \/ CloseWaiting \/ UNCHANGED vars
         PROVE  InLine(Coming, Due)' /\ UNCHANGED result
    <2>1. UNCHANGED <<held, replies, peer, sent, waitingReqs, wpc, cur, result>>
      BY <1>18 DEF vars, net, readers, writer, queues, Begin, Submit, Timeout, Return,
        ParserPanics, Close, CloseWaiting
    <2> QED
      BY <1>16, <2>1
  <1> QED
    BY <1>1, <1>2, <1>9, <1>10, <1>11, <1>12, <1>13, <1>14, <1>17, <1>18, Steps

-----------------------------------------------------------------------------
(* The inductive invariant.                                                *)
LEMMA ClientInit == Init => ClientInv
  <1> SUFFICES ASSUME Init PROVE ClientInv
    OBVIOUS
  <1> USE ClientAssumption, Numbers DEF Init
  <1>1. TypeOK
    BY TypeInit
  <1>2. Single
    BY DEF Single
  <1>3. Aligned
    <2>1. Coming = <<>> \o <<>> \o <<>> \o <<>> /\ Due = <<>> \o <<>>
      BY DEF Coming, Due
    <2>2. Coming = <<>> /\ Due = <<>>
      BY <2>1
    <2> QED
      BY <2>2 DEF Aligned, InLine, Sound
  <1>4. PairedUntilBroken
    BY DEF PairedUntilBroken
  <1> QED
    BY <1>1, <1>2, <1>3, <1>4 DEF ClientInv

LEMMA ClientStep == ClientInv /\ PlaceInv /\ [Next]_vars => ClientInv'
  BY TypeStep, SingleStep, AlignedStep DEF ClientInv

(* The inductive invariant ClientInv holds: types, one connection, and     *)
(* what is on its way in line with the requests that wait for it, as far   *)
(* as nothing in it is spoilt (resp/client/client.go, doRequest,           *)
(* handleRead and finishRequest).                                          *)
THEOREM ClientInvariance == Spec => []ClientInv
  BY ClientInit, ClientStep, ClientTyping, PlaceInit, PlaceStep, PTL DEF Spec

(* Until a connection ends, or a request has been finished with something  *)
(* spoilt, every finished request has its own reply, whatever requests     *)
(* timed out in the meantime, and whichever replies may be misread.        *)
THEOREM ClientPaired == Spec => []PairedUntilBroken
  <1>1. ClientInv => PairedUntilBroken
    BY DEF ClientInv
  <1> QED
    BY <1>1, ClientInvariance, PTL
=============================================================================
