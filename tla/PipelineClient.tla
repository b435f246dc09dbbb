---------------------------- MODULE PipelineClient ----------------------------
(***************************************************************************)
(* The pipelining client of resp/client/client.go, through which a node of *)
(* a cluster talks to another.  Send and the heartbeat put requests into   *)
(* pendingReqs and wait, three seconds at most.  One goroutine writes them *)
(* to the connection and moves them to waitingReqs; one goroutine per      *)
(* connection reads replies and gives each to the first request of         *)
(* waitingReqs.  When a write fails the writer closes the connection,      *)
(* dials again, starts a reader for the new connection and writes again.   *)
(*                                                                         *)
(* A request is its number; so is the reply the peer makes to it.  What a  *)
(* reader makes of the end of its connection is the reply Broken.  Bytes   *)
(* that the parser takes for anything else than the reply to one request,  *)
(* as it was sent, come to a reader as the reply Garbled, an error of the  *)
(* protocol or the data of nobody's reply, or make its parser panic.       *)
(***************************************************************************)
EXTENDS Integers, Sequences, FiniteSets

CONSTANTS
  User,       \* goroutines that call Send
  Heart,      \* the heartbeat's goroutine
  ChanSize,   \* chanSize
  Awkward,    \* the requests which, or whose replies, a parser may misread
  MaxReq,     \* bound: requests made
  MaxConn     \* bound: connections established

ASSUME ClientAssumption ==
  /\ Heart \notin User
  /\ ChanSize \in Nat \ {0} /\ MaxReq \in Nat /\ MaxConn \in Nat \ {0}

VARIABLES
  pc,         \* pc[c]: where a caller is, "idle", "submit" or "wait"
  mine,       \* mine[c]: its request
  made,       \* requests made so far
  result,     \* result[r]: None until request.waiting is done, then what for
  pendingReqs, waitingReqs,  \* the two channels
  phase,      \* how far Close is: "open", "draining", "hungup", "closed"
  wpc,        \* where the writer is: "take", "write", "dial", "enqueue", "ended"
  cur,        \* the request it holds, 0 if none
  tries,      \* the i of doRequest
  conn,       \* client.conn: connections are numbered
  link,       \* link[g]: "none", "up", "down" (the peer's end is gone), "shut"
  sent,       \* sent[g]: requests written and not yet answered
  peer,       \* peer[g]: "clear", "begun" (what it has read or written is not
              \* complete), "deaf" (it reads no requests any more)
  replies,    \* replies[g]: what the parser will make of the bytes not yet read
  rpc,        \* where the reader of g is: "none", "read", "match", "ended", or
              \* "stuck": its parser is gone and the channel between them open
  held,       \* held[g]: the reply it holds
  process     \* "running", or "crashed": ended by a panic

callers == <<pc, mine, made>>
queues  == <<pendingReqs, waitingReqs>>
writer  == <<wpc, cur, tries>>
net     == <<link, sent, peer, replies>>
readers == <<rpc, held>>
vars == <<pc, mine, made, result, pendingReqs, waitingReqs, phase, wpc, cur, tries,
          conn, link, sent, peer, replies, rpc, held, process>>

Caller == User \cup {Heart}
Request == 1..MaxReq
Conns == 1..MaxConn
None == 0
Broken == -1
Failed == -2
Refused == -3
Garbled == -4
Panic == -5

Init ==
  /\ pc = [c \in Caller |-> "idle"] /\ mine = [c \in Caller |-> 0] /\ made = 0
  /\ result = [r \in Request |-> None]
  /\ pendingReqs = <<>> /\ waitingReqs = <<>> /\ phase = "open"
  /\ wpc = "take" /\ cur = 0 /\ tries = 0
  /\ conn = 1
  /\ link = [g \in Conns |-> IF g = 1 THEN "up" ELSE "none"]
  /\ sent = [g \in Conns |-> <<>>] /\ replies = [g \in Conns |-> <<>>]
  /\ peer = [g \in Conns |-> "clear"]
  /\ rpc = [g \in Conns |-> IF g = 1 THEN "read" ELSE "none"]
  /\ held = [g \in Conns |-> None]
  /\ process = "running"

-----------------------------------------------------------------------------
(* Send and doHeartbeat.  working is the number of callers not idle.       *)
Begin(c) ==
  /\ process = "running" /\ pc[c] = "idle" /\ made < MaxReq
  /\ made' = made + 1
  /\ mine' = [mine EXCEPT ![c] = made']
  /\ pc' = [pc EXCEPT ![c] = "submit"]
  /\ UNCHANGED <<result, queues, phase, writer, conn, net, readers, process>>

Submit(c) ==
  /\ process = "running" /\ pc[c] = "submit" /\ phase = "open"
  /\ Len(pendingReqs) < ChanSize
  /\ pendingReqs' = Append(pendingReqs, mine[c])
  /\ pc' = [pc EXCEPT ![c] = "wait"]
  /\ UNCHANGED <<mine, made, result, waitingReqs, phase, writer, conn, net, readers, process>>

(* A slip: working.Done not deferred.                                      *)
RefuseNoDone(c) ==
  /\ process = "running" /\ pc[c] = "submit" /\ phase # "open" /\ result[mine[c]] = None
  /\ result' = [result EXCEPT ![mine[c]] = Refused]
  /\ process' = IF c = Heart THEN "crashed" ELSE process
  /\ UNCHANGED <<callers, queues, phase, writer, conn, net, readers>>

(* Sending on the closed channel panics.  ClusterDatabase.Exec recovers in *)
(* the goroutine of a Send; nobody does in the heartbeat's.                *)
Refuse(c) ==
  /\ process = "running" /\ pc[c] = "submit" /\ phase # "open"
  /\ result' = [result EXCEPT ![mine[c]] = Refused]
  /\ pc' = [pc EXCEPT ![c] = "idle"] /\ mine' = [mine EXCEPT ![c] = 0]
  /\ process' = IF c = Heart THEN "crashed" ELSE process
  /\ UNCHANGED <<made, queues, phase, writer, conn, net, readers>>

(* A slip: a request that times out is taken back from waitingReqs.        *)
TimeoutTakesBack(c) ==
  /\ process = "running" /\ pc[c] = "wait" /\ result[mine[c]] = None
  /\ pc' = [pc EXCEPT ![c] = "idle"] /\ mine' = [mine EXCEPT ![c] = 0]
  /\ waitingReqs' = SelectSeq(waitingReqs, LAMBDA r : r # mine[c])
  /\ UNCHANGED <<made, result, pendingReqs, phase, writer, conn, net, readers, process>>

(* maxWait has passed.  The request stays wherever it is.                  *)
Timeout(c) ==
  /\ process = "running" /\ pc[c] = "wait" /\ result[mine[c]] = None
  /\ pc' = [pc EXCEPT ![c] = "idle"] /\ mine' = [mine EXCEPT ![c] = 0]
  /\ UNCHANGED <<made, result, queues, phase, writer, conn, net, readers, process>>

Return(c) ==
  /\ process = "running" /\ pc[c] = "wait" /\ result[mine[c]] # None
  /\ pc' = [pc EXCEPT ![c] = "idle"] /\ mine' = [mine EXCEPT ![c] = 0]
  /\ UNCHANGED <<made, result, queues, phase, writer, conn, net, readers, process>>

-----------------------------------------------------------------------------
(* handleWrite and doRequest.                                              *)
Take ==
  /\ process = "running" /\ wpc = "take" /\ pendingReqs # <<>>
  /\ cur' = Head(pendingReqs) /\ pendingReqs' = Tail(pendingReqs)
  /\ wpc' = "write"
  /\ UNCHANGED <<callers, result, waitingReqs, phase, tries, conn, net, readers, process>>

WriterEnds ==
  /\ process = "running" /\ wpc = "take" /\ pendingReqs = <<>> /\ phase # "open"
  /\ wpc' = "ended"
  /\ UNCHANGED <<callers, result, queues, phase, cur, tries, conn, net, readers, process>>

(* A write to a connection whose other end is gone may still succeed: the  *)
(* bytes go nowhere.                                                       *)
WriteOk ==
  /\ process = "running" /\ wpc = "write" /\ link[conn] # "shut"
  /\ sent' = IF link[conn] = "up" THEN [sent EXCEPT ![conn] = Append(@, cur)] ELSE sent
  /\ wpc' = "enqueue"
  /\ UNCHANGED <<callers, result, queues, phase, cur, tries, conn, link, peer, replies, readers, process>>

WriteFails ==
  /\ process = "running" /\ wpc = "write" /\ link[conn] # "up"
  /\ wpc' = "dial"
  /\ UNCHANGED <<callers, result, queues, phase, cur, tries, conn, net, readers, process>>

(* handleConnectionError: the old connection is closed, and another one    *)
(* dialled, with a reader of its own, even when Close has run.             *)
Redial ==
  /\ process = "running" /\ wpc = "dial" /\ tries < 3 /\ conn < MaxConn
  /\ conn' = conn + 1
  /\ link' = [link EXCEPT ![conn] = "shut", ![conn'] = "up"]
  /\ rpc' = [rpc EXCEPT ![conn'] = "read"]
  /\ wpc' = "write" /\ tries' = tries + 1
  /\ UNCHANGED <<callers, result, queues, phase, cur, sent, peer, replies, held, process>>

(* A slip: one attempt too many.                                          *)
DialFailsLate ==
  /\ process = "running" /\ wpc = "dial" /\ tries <= 3
  /\ link' = [link EXCEPT ![conn] = "shut"]
  /\ tries' = tries + 1
  /\ UNCHANGED <<callers, result, queues, phase, wpc, cur, conn, sent, peer, replies, readers, process>>

DialFails ==
  /\ process = "running" /\ wpc = "dial" /\ tries < 3
  /\ link' = [link EXCEPT ![conn] = "shut"]
  /\ tries' = tries + 1
  /\ UNCHANGED <<callers, result, queues, phase, wpc, cur, conn, sent, peer, replies, readers, process>>

(* A slip: no else, the request is finished and queued.                    *)
GiveUpAndQueue ==
  /\ process = "running" /\ wpc = "dial" /\ tries = 3 /\ Len(waitingReqs) < ChanSize
  /\ result' = [result EXCEPT ![cur] = Failed]
  /\ waitingReqs' = Append(waitingReqs, cur)
  /\ wpc' = "take" /\ cur' = 0 /\ tries' = 0
  /\ UNCHANGED <<callers, pendingReqs, phase, conn, net, readers, process>>

GiveUp ==
  /\ process = "running" /\ wpc = "dial" /\ tries = 3
  /\ result' = [result EXCEPT ![cur] = Failed]
  /\ wpc' = "take" /\ cur' = 0 /\ tries' = 0
  /\ UNCHANGED <<callers, queues, phase, conn, net, readers, process>>

(* waitingReqs <- req blocks while the channel is full; it panics when the *)
(* channel is closed, and nobody recovers.                                 *)
Enqueue ==
  /\ process = "running" /\ wpc = "enqueue" /\ phase # "closed"
  /\ Len(waitingReqs) < ChanSize
  /\ waitingReqs' = Append(waitingReqs, cur)
  /\ wpc' = "take" /\ cur' = 0 /\ tries' = 0
  /\ UNCHANGED <<callers, result, pendingReqs, phase, conn, net, readers, process>>

EnqueuePanics ==
  /\ process = "running" /\ wpc = "enqueue" /\ phase = "closed"
  /\ process' = "crashed"
  /\ UNCHANGED <<callers, result, queues, phase, writer, conn, net, readers>>

-----------------------------------------------------------------------------
(* handleRead of connection g: the parser hands over a reply, or an error  *)
(* of the protocol, which is made the reply to a request like any other;   *)
(* it panics, recovers and leaves its channel open; or it hands over once  *)
(* the error that the connection has ended, and what was unread is gone.   *)
ReadReply(g) ==
  /\ process = "running" /\ rpc[g] = "read" /\ replies[g] # <<>>
  /\ Head(replies[g]) # Panic
  /\ held' = [held EXCEPT ![g] = Head(replies[g])]
  /\ replies' = [replies EXCEPT ![g] = Tail(@)]
  /\ rpc' = [rpc EXCEPT ![g] = "match"]
  /\ UNCHANGED <<callers, result, queues, phase, writer, conn, link, sent, peer, process>>

ParserPanics(g) ==
  /\ process = "running" /\ rpc[g] = "read" /\ replies[g] # <<>>
  /\ Head(replies[g]) = Panic
  /\ rpc' = [rpc EXCEPT ![g] = "stuck"]
  /\ UNCHANGED <<callers, result, queues, phase, writer, conn, net, held, process>>

ReadError(g) ==
  /\ process = "running" /\ rpc[g] = "read" /\ link[g] # "up"
  /\ held' = [held EXCEPT ![g] = Broken]
  /\ replies' = [replies EXCEPT ![g] = <<>>]
  /\ rpc' = [rpc EXCEPT ![g] = "match"]
  /\ UNCHANGED <<callers, result, queues, phase, writer, conn, link, sent, peer, process>>

(* A slip: handleRead returns after one reply.                             *)
FinishOnce(g) ==
  /\ process = "running" /\ rpc[g] = "match" /\ waitingReqs # <<>>
  /\ result' = [result EXCEPT ![Head(waitingReqs)] = held[g]]
  /\ waitingReqs' = Tail(waitingReqs)
  /\ held' = [held EXCEPT ![g] = None]
  /\ rpc' = [rpc EXCEPT ![g] = "ended"]
  /\ UNCHANGED <<callers, pendingReqs, phase, writer, conn, net, process>>

(* A slip: an error of the protocol ends the reader, too.                  *)
AfterMatchStops(g) == IF held[g] \in {Broken, Garbled} THEN "ended" ELSE "read"

AfterMatch(g) == IF held[g] = Broken THEN "ended" ELSE "read"

(* finishRequest blocks until there is a request, whichever connection it  *)
(* was written to.                                                         *)
FinishRequest(g) ==
  /\ process = "running" /\ rpc[g] = "match" /\ waitingReqs # <<>>
  /\ result' = [result EXCEPT ![Head(waitingReqs)] = held[g]]
  /\ waitingReqs' = Tail(waitingReqs)
  /\ held' = [held EXCEPT ![g] = None]
  /\ rpc' = [rpc EXCEPT ![g] = AfterMatch(g)]
  /\ UNCHANGED <<callers, pendingReqs, phase, writer, conn, net, process>>

FinishNil(g) ==
  /\ process = "running" /\ rpc[g] = "match" /\ waitingReqs = <<>> /\ phase = "closed"
  /\ held' = [held EXCEPT ![g] = None]
  /\ rpc' = [rpc EXCEPT ![g] = AfterMatch(g)]
  /\ UNCHANGED <<callers, result, queues, phase, writer, conn, net, process>>

-----------------------------------------------------------------------------
(* The other end, a Mudis server too: what it writes for request r, in     *)
(* terms of what the parser of the reader will make of it, and how it goes *)
(* on.  Data that begins with $ is read as a header, and so is an argument *)
(* on its way there: an error of the protocol, or, if a number follows,    *)
(* bytes of what comes next are taken for it.  An empty value is written   *)
(* as $-1 with no CRLF, so that the next reply is read as part of it.  A   *)
(* request whose last argument is empty is answered, and so is the empty   *)
(* line of that argument; an empty argument before the last makes the      *)
(* parser there panic.                                                     *)
Plain(r)  == [gives |-> <<r>>, leaves |-> "clear"]
CutShort  == [gives : {<<>>}, leaves : {"begun", "deaf"}]
Misread(r) == [gives : {<<Garbled>>, <<r, Garbled>>}, leaves : {"clear"}] \cup CutShort

(* The reply that follows an unfinished one disappears in it or becomes    *)
(* one error, or several payloads, two standing for more, that answer      *)
(* nobody; a line that is LF only, among its data, makes the parser panic. *)
Spoilt ==
  [gives : {<<Garbled>>, <<Garbled, Garbled>>, <<Garbled, Panic>>}, leaves : {"clear"}]
    \cup [gives : {<<>>, <<Garbled>>}, leaves : {"begun"}]

Answers(r, state) ==
  IF state = "clear"
  THEN {Plain(r)} \cup (IF r \in Awkward THEN Misread(r) ELSE {})
  ELSE Spoilt \cup (IF r \in Awkward THEN CutShort ELSE {})

Serve(g) ==
  /\ process = "running" /\ link[g] = "up" /\ sent[g] # <<>> /\ peer[g] # "deaf"
  /\ \E a \in Answers(Head(sent[g]), peer[g]) :
       /\ replies' = [replies EXCEPT ![g] = @ \o a.gives]
       /\ peer' = [peer EXCEPT ![g] = a.leaves]
  /\ sent' = [sent EXCEPT ![g] = Tail(@)]
  /\ UNCHANGED <<callers, result, queues, phase, writer, conn, link, readers, process>>

Break(g) ==
  /\ process = "running" /\ link[g] = "up"
  /\ link' = [link EXCEPT ![g] = "down"]
  /\ sent' = [sent EXCEPT ![g] = <<>>]
  /\ UNCHANGED <<callers, result, queues, phase, writer, conn, peer, replies, readers, process>>

(* Close: pendingReqs is closed; when no caller is left the connection,    *)
(* and then waitingReqs.                                                   *)
Close ==
  /\ process = "running" /\ phase = "open"
  /\ phase' = "draining"
  /\ UNCHANGED <<callers, result, queues, writer, conn, net, readers, process>>

HangUp ==
  /\ process = "running" /\ phase = "draining" /\ \A c \in Caller : pc[c] = "idle"
  /\ phase' = "hungup"
  /\ link' = [link EXCEPT ![conn] = "shut"]
  /\ UNCHANGED <<callers, result, queues, writer, conn, sent, peer, replies, readers, process>>

CloseWaiting ==
  /\ process = "running" /\ phase = "hungup"
  /\ phase' = "closed"
  /\ UNCHANGED <<callers, result, queues, writer, conn, net, readers, process>>

Call(c) == Submit(c) \/ Refuse(c) \/ Timeout(c) \/ Return(c)
HandleWrite == Take \/ WriterEnds \/ WriteOk \/ WriteFails \/ Redial \/ DialFails
               \/ GiveUp \/ Enqueue \/ EnqueuePanics
HandleRead(g) == ReadReply(g) \/ ParserPanics(g) \/ ReadError(g) \/ FinishRequest(g) \/ FinishNil(g)
Closing == HangUp \/ CloseWaiting

Next ==
  \/ \E c \in Caller : Begin(c) \/ Call(c)
  \/ HandleWrite
  \/ \E g \in Conns : HandleRead(g) \/ Serve(g) \/ Break(g)
  \/ Close \/ Closing

Spec == Init /\ [][Next]_vars

(* As long as a goroutine can go on, or the other end can with what it is  *)
(* sent, some step of theirs happens.  Each takes finitely many steps in   *)
(* all, as requests and connections are bounded: this is as much as to be  *)
(* fair to each of them.                                                   *)
Going ==
  \/ \E c \in Caller : Call(c)
  \/ HandleWrite
  \/ \E g \in Conns : HandleRead(g) \/ Serve(g)
  \/ Closing

FairSpec == Spec /\ WF_vars(Going)

-----------------------------------------------------------------------------
(* The variables keep their types; the channels keep to their size; who is *)
(* at work holds a request or a reply.                                     *)
CallersOK ==
  /\ pc \in [Caller -> {"idle", "submit", "wait"}]
  /\ mine \in [Caller -> 0..MaxReq] /\ made \in 0..MaxReq
  /\ \A c \in Caller : pc[c] # "idle" => mine[c] # 0

ChannelsOK ==
  /\ pendingReqs \in Seq(Request) /\ Len(pendingReqs) <= ChanSize
  /\ waitingReqs \in Seq(Request) /\ Len(waitingReqs) <= ChanSize

WriterOK ==
  /\ wpc \in {"take", "write", "dial", "enqueue", "ended"}
  /\ cur \in 0..MaxReq /\ tries \in 0..3
  /\ cur = 0 <=> wpc \in {"take", "ended"}

NetOK ==
  /\ conn \in Conns
  /\ link \in [Conns -> {"none", "up", "down", "shut"}]
  /\ sent \in [Conns -> Seq(Request)] /\ peer \in [Conns -> {"clear", "begun", "deaf"}]
  /\ replies \in [Conns -> Seq(Request \cup {Garbled, Panic})]

ReadersOK ==
  /\ rpc \in [Conns -> {"none", "read", "match", "ended", "stuck"}]
  /\ held \in [Conns -> Request \cup {None, Broken, Garbled}]
  /\ \A g \in Conns : /\ rpc[g] = "match" <=> held[g] # None
                      /\ g > conn => rpc[g] = "none"

TypeOK ==
  /\ CallersOK /\ ChannelsOK /\ WriterOK /\ NetOK /\ ReadersOK
  /\ result \in [Request -> -4..MaxReq]
  /\ phase \in {"open", "draining", "hungup", "closed"}
  /\ process \in {"running", "crashed"}

Disturbed == \E g \in Conns : link[g] \in {"down", "shut"}

(* What is to come to the readers: the reply that the reader holds, those  *)
(* unread, one spoilt if the peer has left one unfinished or is deaf, and  *)
(* those it has yet to make.  As far as nothing in it is spoilt they are   *)
(* the replies to the requests in waitingReqs and to the one about to      *)
(* enter it, in that order.                                                *)
Coming ==
  (IF held[1] = None THEN <<>> ELSE <<held[1]>>) \o replies[1]
    \o (IF peer[1] = "clear" THEN <<>> ELSE <<Garbled>>) \o sent[1]
Due    == waitingReqs \o (IF wpc = "enqueue" THEN <<cur>> ELSE <<>>)
Sound(s, n) == \A i \in 1..n : s[i] \in Request
InLine(s, t) ==
  /\ \A i \in 1..Len(s) : Sound(s, i) => i <= Len(t) /\ s[i] = t[i]
  /\ Sound(s, Len(s)) => Len(s) = Len(t)

(* The first spoilt reply is in any case somebody's: a request has been    *)
(* given it by the time another one gets what is not its own.              *)
Spoiled == \E r \in Request : result[r] = Garbled
Aligned == ~Disturbed /\ ~Spoiled => InLine(Coming, Due)

(* What is true of the one connection as long as it lives.                 *)
Single ==
  ~Disturbed =>
    /\ conn = 1 /\ link[1] = "up" /\ held[1] # Broken
    /\ wpc # "dial" /\ phase \in {"open", "draining"}
    /\ \A g \in Conns \ {1} : link[g] = "none" /\ rpc[g] = "none"

(* As long as no connection has ended, a request that is finished has its  *)
(* own reply, whatever requests timed out before it: the order of          *)
(* waitingReqs stays that of the replies (doRequest, finishRequest).  Only *)
(* once a request has been finished with something spoilt (handleRead's    *)
(* error, or data that answers nobody) may others get each other's.        *)
PairedUntilBroken ==
  ~Disturbed /\ ~Spoiled => \A r \in Request : result[r] \in {None, Refused, r}

(* What reply.go says would have it hold without that condition: a bulk    *)
(* reply is binary-safe (18), CRLF is what separates lines (12).  It does  *)
(* not: the one written for an empty value ends with neither (10, 33).     *)
OwnReply == ~Disturbed => \A r \in Request : result[r] \in {None, Refused, Garbled, r}

ClientInv == TypeOK /\ Single /\ Aligned /\ PairedUntilBroken

(* A request that a caller made is finished, or is in exactly one place:   *)
(* with its caller, in one of the channels, or with the writer.  None is   *)
(* lost and none will be finished twice (WaitGroup.Done would panic), over *)
(* timeouts, reconnections, failed writes and Close.                       *)
InOnePlace ==
  LET queued == pendingReqs \o waitingReqs
  IN \A r \in 1..made :
       Cardinality({i \in 1..Len(queued) : queued[i] = r})
       + (IF cur = r THEN 1 ELSE 0)
       + Cardinality({c \in Caller : pc[c] = "submit" /\ mine[c] = r})
       = IF result[r] = None THEN 1 ELSE 0

(* As long as no connection ends, every request is finished at last: no    *)
(* full channel stops writer, reader and callers for good, and again and   *)
(* again none is left of the MaxReq made.  Replies may be spoilt, one by   *)
(* one or with more behind them, but not cut short: one that waits for the *)
(* next to complete it, a peer that reads no more, or a reader whose       *)
(* parser has panicked leaves requests unanswered for ever.                *)
Answered ==
  [](~Disturbed /\ \A g \in Conns : peer[g] = "clear") =>
    []<>(\A r \in 1..made : result[r] # None \/ process = "crashed")

(* Close gets to its end: it waits for callers, whose waits are bounded,   *)
(* and those blocked on pendingReqs are refused.                           *)
CloseEnds == (phase = "draining") ~> (phase = "closed" \/ process = "crashed")
=============================================================================
