-------------------------------- MODULE Server --------------------------------
(***************************************************************************)
(* The server of tcp/server.go with the handler of resp/handler/handler.go *)
(* and the connections of resp/connection/conn.go.  One goroutine accepts; *)
(* each connection has one that parses what its client sends (Parser) and, *)
(* over an unbuffered channel, one that executes and answers it; on a      *)
(* signal one more closes the listener and the connections, each after     *)
(* waiting ten seconds at most for the reply being written.                *)
(*                                                                         *)
(* A request is the bytes it is sent as, the payload it means, and whether *)
(* the parser is able to read it (legible).  Executing one is the time a   *)
(* handler spends in "reply"; neither database does anything when a client *)
(* leaves or the handler closes.                                           *)
(***************************************************************************)
EXTENDS Parser, FiniteSets

CONSTANTS
  Conn,       \* connections
  Loads       \* what the clients may send: functions from Conn to sequences
              \* of requests; a connection of none is never made

ASSUME ServerAssumption == \A l \in Loads, c \in Conn :
  /\ l[c] \in Seq(ToSet(l[c]))
  /\ \A i \in DOMAIN l[c] : LET request == l[c][i] IN
       /\ request.bytes \in Seq(STRING)
       /\ request.legible => Legible(request.bytes, request.means)

VARIABLES
  load,       \* the member of Loads that the clients send; never changes
  client,     \* client[c]: "absent", "open", "deaf" (reads nothing), "ended",
              \* "reset"
  in,         \* in[c]: the bytes not yet parsed, sent or still to be sent
  cut,        \* cut[c]: bytes that the client has ended without sending
  buffered,   \* buffered[c]: the parser has read, so bufio may hold the rest
  rs,         \* rs[c]: the readState
  ppc,        \* where the parser is: "none", "parse", "send", "ended" or
              \* "panicked"
  payload,    \* payload[c]: what it is sending
  hpc,        \* where Handle is: "none", "check", "store", "range", "reply",
              \* "write", "leave", "done"
  cur,        \* cur[c]: the payload it answers
  handled,    \* handled[c]: the payloads it has received
  activeConn, closing,
  closed,     \* closed[c]: this end of the connection is closed
  waitingReply,  \* waitingReply[c]: its counter
  waiter,     \* waiter[c]: the goroutine of WaitWithTimeout, "none", "asleep",
              \* or "woken"
  late,       \* late[c]: the write began when Close had stopped waiting for c
  spc,        \* where the signal's goroutine is: "idle", "shut" (the listener
              \* is closed), "range", "wait", "asleep", "quiet" (nothing is
              \* being written), "impatient" (ten seconds are over), "done"
  at, seen,   \* the connection it is at; those Range has given it
  base,       \* those stored when it began: it gets them unless deleted
  listener,   \* "open" or "closed"
  accepting,  \* ListenAndServe is still in its loop
  process     \* "running", "ended", or "crashed": ended by a panic

input == <<client, in, cut>>
reader == <<buffered, rs, ppc, payload>>
handle == <<hpc, cur, handled>>
writing == <<waitingReply, waiter, late>>
closer == <<spc, at, seen, base, closing>>
main == <<listener, accepting>>
vars == <<load, client, in, cut, buffered, rs, ppc, payload, hpc, cur, handled, activeConn,
          closing, closed, waitingReply, waiter, late, spc, at, seen, base, listener,
          accepting, process>>

Bytes(requests) == FlattenSeq([i \in DOMAIN requests |-> requests[i].bytes])
IoErrors == {"eof", "reset", "closed"}
EndsHandle == {"eof", "closed"}
Answered == {"multibulk", "error", "reset"}
Serving == {"check", "store", "range", "reply", "write", "leave"}
NoConn == "none"

Init ==
  /\ load \in Loads
  /\ client = [c \in Conn |-> "absent"]
  /\ in = [c \in Conn |-> Bytes(load[c])] /\ cut = [c \in Conn |-> 0]
  /\ buffered = [c \in Conn |-> FALSE] /\ rs = [c \in Conn |-> FreshState]
  /\ ppc = [c \in Conn |-> "none"] /\ payload = [c \in Conn |-> Nothing]
  /\ hpc = [c \in Conn |-> "none"] /\ cur = [c \in Conn |-> Nothing]
  /\ handled = [c \in Conn |-> <<>>]
  /\ activeConn = {} /\ closing = FALSE /\ closed = [c \in Conn |-> FALSE]
  /\ waitingReply = [c \in Conn |-> 0] /\ waiter = [c \in Conn |-> "none"]
  /\ late = [c \in Conn |-> FALSE]
  /\ spc = "idle" /\ at = NoConn /\ seen = {} /\ base = {}
  /\ listener = "open" /\ accepting = TRUE /\ process = "running"

-----------------------------------------------------------------------------
(* The clients.                                                            *)
ClientEnds(c) ==
  /\ client[c] \in {"open", "deaf"}
  /\ client' = [client EXCEPT ![c] = "ended"]
  /\ \E n \in 0..Len(in[c]) :
       in' = [in EXCEPT ![c] = SubSeq(@, 1, Len(@) - n)] /\ cut' = [cut EXCEPT ![c] = n]
  /\ UNCHANGED <<reader, handle, activeConn, closed, writing, closer, main, process>>

ClientResets(c) ==
  /\ client[c] \in {"open", "deaf"}
  /\ client' = [client EXCEPT ![c] = "reset"]
  /\ UNCHANGED <<in, cut, reader, handle, activeConn, closed, writing, closer, main, process>>

(* It reads no more and the buffers are full: a write has to wait.         *)
ClientStalls(c) ==
  /\ client[c] = "open"
  /\ client' = [client EXCEPT ![c] = "deaf"]
  /\ UNCHANGED <<in, cut, reader, handle, activeConn, closed, writing, closer, main, process>>

-----------------------------------------------------------------------------
(* parse0.  A read of a closed or reset connection may still be served     *)
(* from what bufio has read before.  A read that fails ends the parser and *)
(* what it has not parsed.                                                 *)
ParseLine(c) ==
  LET n == LineLength(rs[c], in[c])
      turn == Parse0(rs[c], SubSeq(in[c], 1, n))
  IN
  /\ ppc[c] = "parse" /\ n > 0 /\ (closed[c] => buffered[c])
  /\ in' = [in EXCEPT ![c] = SubSeq(@, n + 1, Len(@))]
  /\ buffered' = [buffered EXCEPT ![c] = TRUE]
  /\ rs' = [rs EXCEPT ![c] = turn.rs]
  /\ payload' = [payload EXCEPT ![c] = IF turn.sent = Panic THEN Nothing ELSE turn.sent]
  /\ ppc' = [ppc EXCEPT ![c] = CASE turn.sent = Nothing -> "parse"
                                 [] turn.sent = Panic -> "panicked"
                                 [] OTHER -> "send"]
  /\ UNCHANGED <<client, cut, handle, activeConn, closed, writing, closer, main, process>>

ReadFails(c) ==
  /\ ppc[c] = "parse"
  /\ \E err \in IoErrors :
       /\ err = "eof" => client[c] = "ended" /\ LineLength(rs[c], in[c]) = 0
       /\ err = "reset" => client[c] = "reset"
       /\ err = "closed" => closed[c]
       /\ payload' = [payload EXCEPT ![c] = Payload(err, <<>>)]
  /\ ppc' = [ppc EXCEPT ![c] = "send"]
  /\ in' = [in EXCEPT ![c] = <<>>] /\ rs' = [rs EXCEPT ![c] = FreshState]
  /\ UNCHANGED <<client, cut, buffered, handle, activeConn, closed, writing, closer, main, process>>

-----------------------------------------------------------------------------
(* ListenAndServe and Handle.                                              *)
Accept(c) ==
  /\ accepting /\ listener = "open" /\ client[c] = "absent" /\ load[c] # <<>>
  /\ client' = [client EXCEPT ![c] = "open"] /\ hpc' = [hpc EXCEPT ![c] = "check"]
  /\ UNCHANGED <<in, cut, reader, cur, handled, activeConn, closed, writing, closer, main, process>>

(* A slip: a connection refused is not closed.                             *)
CheckNotClosing(c) ==
  /\ hpc[c] = "check"
  /\ hpc' = [hpc EXCEPT ![c] = "store"]
  /\ UNCHANGED <<input, reader, cur, handled, activeConn, closed, writing, closer, main, process>>

(* Handle looks at closing and goes on whatever it sees.                   *)
Check(c) ==
  /\ hpc[c] = "check"
  /\ closed' = IF closing THEN [closed EXCEPT ![c] = TRUE] ELSE closed
  /\ hpc' = [hpc EXCEPT ![c] = "store"]
  /\ UNCHANGED <<input, reader, cur, handled, activeConn, writing, closer, main, process>>

Store(c) ==
  /\ hpc[c] = "store"
  /\ activeConn' = activeConn \cup {c}
  /\ ppc' = [ppc EXCEPT ![c] = "parse"] /\ hpc' = [hpc EXCEPT ![c] = "range"]
  /\ UNCHANGED <<input, buffered, rs, payload, cur, handled, closed, writing, closer, main, process>>

(* Handle and the parser meet at the channel, which the parser closes once *)
(* it has sent the error that ended its reading.                           *)
Receive(c) ==
  /\ hpc[c] = "range" /\ ppc[c] = "send"
  /\ cur' = [cur EXCEPT ![c] = IF payload[c].kind \in Answered THEN payload[c] ELSE Nothing]
  /\ handled' = [handled EXCEPT ![c] = Append(@, payload[c])]
  /\ hpc' = [hpc EXCEPT ![c] = CASE payload[c].kind \in EndsHandle -> "leave"
                                 [] payload[c].kind \in Answered -> "reply"
                                 [] OTHER -> "range"]
  /\ ppc' = [ppc EXCEPT ![c] = IF payload[c].kind \in IoErrors THEN "ended" ELSE "parse"]
  /\ payload' = [payload EXCEPT ![c] = Nothing]
  /\ UNCHANGED <<input, buffered, rs, activeConn, closed, writing, closer, main, process>>

(* Connection.Write, up to and from conn.Write.                            *)
BeginWrite(c) ==
  /\ hpc[c] = "reply"
  /\ waitingReply' = [waitingReply EXCEPT ![c] = @ + 1]
  /\ late' = [late EXCEPT ![c] = spc = "quiet" /\ at = c]
  /\ hpc' = [hpc EXCEPT ![c] = "write"]
  /\ UNCHANGED <<input, reader, cur, handled, activeConn, closed, waiter, closer, main, process>>

(* A slip: Done is forgotten.                                              *)
WriteEndsUndone(c) ==
  /\ cur' = [cur EXCEPT ![c] = Nothing] /\ late' = [late EXCEPT ![c] = FALSE]
  /\ UNCHANGED <<input, reader, handled, activeConn, closed, waitingReply, waiter, closer, main, process>>

WriteEnds(c) ==
  /\ waitingReply' = [waitingReply EXCEPT ![c] = @ - 1]
  /\ waiter' = IF waiter[c] = "asleep" THEN [waiter EXCEPT ![c] = "woken"] ELSE waiter
  /\ cur' = [cur EXCEPT ![c] = Nothing] /\ late' = [late EXCEPT ![c] = FALSE]
  /\ UNCHANGED <<input, reader, handled, activeConn, closed, closer, main, process>>

WriteOk(c) ==
  /\ hpc[c] = "write" /\ ~closed[c] /\ client[c] \in {"open", "ended"}
  /\ hpc' = [hpc EXCEPT ![c] = "range"]
  /\ WriteEnds(c)

(* A slip: the error of a write is ignored after an error, too.            *)
WriteFailsIgnored(c) ==
  /\ hpc[c] = "write" /\ (closed[c] \/ client[c] \in {"ended", "reset"})
  /\ hpc' = [hpc EXCEPT ![c] = "range"]
  /\ WriteEnds(c)

(* Only the reply to an error of the reading is looked after.              *)
WriteFails(c) ==
  /\ hpc[c] = "write" /\ (closed[c] \/ client[c] \in {"ended", "reset"})
  /\ hpc' = [hpc EXCEPT ![c] = IF cur[c].kind = "multibulk" THEN "range" ELSE "leave"]
  /\ WriteEnds(c)

(* closeClient, where no reply is left to wait for.  The loop of Handle    *)
(* has no other end: its channel is closed behind an error that ends it,   *)
(* since after "reset" a write fails.                                      *)
CloseClient(c) ==
  /\ hpc[c] = "leave"
  /\ closed' = [closed EXCEPT ![c] = TRUE] /\ activeConn' = activeConn \ {c}
  /\ hpc' = [hpc EXCEPT ![c] = "done"]
  /\ UNCHANGED <<input, reader, cur, handled, writing, closer, main, process>>

(* Accept returns an error once the listener is closed, and may before.    *)
AcceptFails ==
  /\ accepting /\ accepting' = FALSE
  /\ UNCHANGED <<input, reader, handle, activeConn, closed, writing, closer, listener, process>>

(* waitDone.Wait and the deferred closing.                                 *)
ServeEnds ==
  /\ ~accepting /\ \A c \in Conn : hpc[c] \in {"none", "done"}
  /\ listener' = "closed" /\ closing' = TRUE
  /\ closed' = [c \in Conn |-> closed[c] \/ c \in activeConn]
  /\ process' = "ended"
  /\ UNCHANGED <<input, reader, handle, activeConn, writing, spc, at, seen, base, accepting>>

-----------------------------------------------------------------------------
(* The signal, RespHandler.Close and Connection.Close.                     *)
Signal ==
  /\ spc = "idle"
  /\ spc' = "shut" /\ listener' = "closed"
  /\ UNCHANGED <<input, reader, handle, activeConn, closed, writing, at, seen, base, closing, accepting, process>>

CloseHandler ==
  /\ spc = "shut"
  /\ closing' = TRUE /\ base' = activeConn /\ spc' = "range"
  /\ UNCHANGED <<input, reader, handle, activeConn, closed, writing, at, seen, main, process>>

(* Range: a connection deleted or stored meanwhile may be given or not.    *)
Visit(c) ==
  /\ spc = "range" /\ c \in (base \cup activeConn) \ seen
  /\ spc' = "wait" /\ at' = c /\ seen' = seen \cup {c}
  /\ UNCHANGED <<input, reader, handle, activeConn, closed, writing, base, closing, main, process>>

(* A slip: the function given to Range returns false.                      *)
RangeEndsAtOnce ==
  /\ spc = "range" /\ (base = {} \/ seen # {})
  /\ spc' = "done" /\ seen' = {}
  /\ UNCHANGED <<input, reader, handle, activeConn, closed, writing, at, base, closing, main, process>>

RangeEnds ==
  /\ spc = "range" /\ base \cap activeConn \subseteq seen
  /\ spc' = "done" /\ seen' = {}
  /\ UNCHANGED <<input, reader, handle, activeConn, closed, writing, at, base, closing, main, process>>

(* A slip: the reply being written is not waited for.                      *)
WaitNever ==
  /\ spc = "wait" /\ spc' = "quiet"
  /\ UNCHANGED <<input, reader, handle, activeConn, closed, writing, at, seen, base, closing, main, process>>

(* WaitWithTimeout.                                                        *)
Wait ==
  /\ spc = "wait"
  /\ spc' = IF waitingReply[at] = 0 THEN "quiet" ELSE "asleep"
  /\ waiter' = IF waitingReply[at] = 0 THEN waiter ELSE [waiter EXCEPT ![at] = "asleep"]
  /\ UNCHANGED <<input, reader, handle, activeConn, closed, waitingReply, late, at, seen, base, closing, main, process>>

(* A WaitGroup that counts again before the goroutine it has woken runs    *)
(* panics, in a goroutine that does not recover.                           *)
Wakes(c) ==
  /\ waiter[c] = "woken"
  /\ waiter' = [waiter EXCEPT ![c] = "none"]
  /\ IF waitingReply[c] > 0
     THEN process' = "crashed" /\ UNCHANGED spc
     ELSE spc' = (IF spc = "asleep" /\ at = c THEN "quiet" ELSE spc) /\ UNCHANGED process
  /\ UNCHANGED <<input, reader, handle, activeConn, closed, waitingReply, late, at, seen, base, closing, main>>

TimeOut ==
  /\ spc = "asleep" /\ spc' = "impatient"
  /\ UNCHANGED <<input, reader, handle, activeConn, closed, writing, at, seen, base, closing, main, process>>

CloseConn ==
  /\ spc \in {"quiet", "impatient"}
  /\ closed' = [closed EXCEPT ![at] = TRUE] /\ spc' = "range" /\ at' = NoConn
  /\ UNCHANGED <<input, reader, handle, activeConn, writing, seen, base, closing, main, process>>

-----------------------------------------------------------------------------
Running == process = "running" /\ UNCHANGED load
Client(c) == Running /\ (ClientEnds(c) \/ ClientResets(c) \/ ClientStalls(c))
ParseStream(c) == Running /\ (ParseLine(c) \/ ReadFails(c))
Handle(c) ==
  /\ Running
  /\ \/ Check(c) \/ Store(c) \/ Receive(c) \/ BeginWrite(c) \/ WriteOk(c) \/ WriteFails(c)
     \/ CloseClient(c)
Woken(c) == Running /\ Wakes(c)
Serve == Running /\ ((\E c \in Conn : Accept(c)) \/ AcceptFails \/ ServeEnds)
Close ==
  /\ Running
  /\ \/ CloseHandler \/ (\E c \in Conn : Visit(c)) \/ RangeEnds \/ Wait \/ TimeOut \/ CloseConn

Next ==
  \/ \E c \in Conn : Client(c) \/ ParseStream(c) \/ Handle(c) \/ Woken(c)
  \/ Serve \/ (Running /\ Signal) \/ Close

Spec == Init /\ [][Next]_vars

(* The goroutines of the server are scheduled, the timer runs, and Accept  *)
(* returns from a closed listener.  A client need not do anything.  Each   *)
(* goroutine and each client takes finitely many steps in all, so that to  *)
(* go on while any is able to comes to the same as fairness to each.       *)
Going ==
  \/ Close \/ (Serve /\ (listener = "closed" \/ ~accepting))
  \/ \E c \in Conn : Handle(c) \/ ParseStream(c) \/ Woken(c)

Fairness == WF_vars(Going)

FairSpec == Spec /\ Fairness

-----------------------------------------------------------------------------
Kinds == {"nothing", "multibulk", "error", "emptymultibulk", "nullbulk", "bulk",
          "status", "err", "int"} \cup IoErrors

(* What each variable holds, and that a counter never exceeds the one write    *)
(* that mu lets through.                                                   *)
TypeOK ==
  /\ client \in [Conn -> {"absent", "open", "deaf", "ended", "reset"}]
  /\ cut \in [Conn -> Nat] /\ buffered \in [Conn -> BOOLEAN]
  /\ ppc \in [Conn -> {"none", "parse", "send", "ended", "panicked"}]
  /\ hpc \in [Conn -> Serving \cup {"none", "done"}]
  /\ \A c \in Conn : payload[c].kind \in Kinds /\ cur[c].kind \in Kinds
  /\ \A c \in Conn : Len(in[c]) + cut[c] <= Len(Bytes(load[c]))
  /\ activeConn \subseteq Conn /\ closing \in BOOLEAN /\ closed \in [Conn -> BOOLEAN]
  /\ waitingReply \in [Conn -> 0..1] /\ late \in [Conn -> BOOLEAN]
  /\ waiter \in [Conn -> {"none", "asleep", "woken"}]
  /\ spc \in {"idle", "shut", "range", "wait", "asleep", "quiet", "impatient", "done"}
  /\ at \in Conn \cup {NoConn} /\ seen \subseteq Conn /\ base \subseteq Conn
  /\ listener \in {"open", "closed"} /\ accepting \in BOOLEAN
  /\ process \in {"running", "ended", "crashed"}

(* The requests of a connection in front of the first that the parser      *)
(* cannot read, and those that have come in whole.                         *)
Readable(c) == CHOOSE n \in 0..Len(load[c]) :
  /\ \A i \in 1..n : load[c][i].legible
  /\ n < Len(load[c]) => ~load[c][n + 1].legible
Whole(c) == {n \in 1..Len(load[c]) :
  Len(Bytes(SubSeq(load[c], 1, n))) + cut[c] <= Len(Bytes(load[c]))}
IoError(p) == p.kind \in IoErrors

(* Wherever the bytes of one request end and wherever the connection       *)
(* breaks, what Handle receives is what the client has sent, request by    *)
(* request, an error of the protocol spoiling nothing behind it; and the   *)
(* end of the input is seen only behind every request that came in whole.  *)
(* Up to the first request that the parser cannot read: one with an empty  *)
(* argument, or with one that begins with $ (readBody).                    *)
AsSent == \A c \in Conn : LET h == handled[c] IN
  /\ \A i \in (DOMAIN h) \cap (1..Readable(c)) :
       h[i] = load[c][i].means \/ (IoError(h[i]) /\ i = Len(h))
  /\ \A i \in DOMAIN h : (h[i].kind = "eof" /\ i <= Readable(c)) => Whole(c) \subseteq 1..(i - 1)

(* "Binary-safe", as readLine has it: a command is received as it was      *)
(* sent, whatever the bytes of its arguments.                              *)
BinarySafe == \A c \in Conn : \A i \in (DOMAIN handled[c]) \cap (DOMAIN load[c]) :
  load[c][i].means.kind = "multibulk" =>
    handled[c][i] = load[c][i].means \/ IoError(handled[c][i])

(* Close cuts a reply off only when ten seconds are over, or when the      *)
(* writing began as Close was already past its waiting (Connection.Close   *)
(* waits and closes in two steps).                                         *)
CloseWaits == [][\A c \in Conn :
  (hpc[c] = "write" /\ ~closed[c] /\ closed'[c]) => spc = "impatient" \/ late[c]]_vars

(* A connection that Handle begins to serve while the handler closes is    *)
(* stored and parsed but nothing that it sends is ever executed.           *)
Refused == \A c \in Conn : [](hpc[c] = "check" /\ closing => [](handled[c] = <<>> \/ IoError(handled[c][1])))

(* "Refusing new client", as the field closing has it: once it is set, no  *)
(* command is executed for a connection that was not stored before.        *)
RefusesClients == \A c \in Conn :
  closing /\ process = "running" /\ hpc[c] \in {"reply", "write"} /\ cur[c].kind = "multibulk"
    => c \in base

(* The parser has panicked: it is gone, its channel is open and Handle     *)
(* waits at it for ever.                                                   *)
Abandoned(c) == ppc[c] = "panicked"

(* Handle was past its look at closing, and not yet at Store, when Close   *)
(* ran: the connection stays as long as its client wants it.               *)
Overlooked(c) == spc = "done" /\ c \notin base /\ hpc[c] \in Serving /\ ~closed[c]

(* A client that has gone leaves nothing behind: Handle closes and deletes *)
(* its connection, also when the client has gone in the middle of a        *)
(* request or of a reply; unless its parser panicked.                      *)
Reaped == \A c \in Conn :
  (client[c] \in {"ended", "reset"}) ~>
    ((closed[c] /\ hpc[c] = "done") \/ Abandoned(c) \/ process # "running")

(* After a signal the server ends, whatever the clients do or leave        *)
(* undone, unless one connection is overlooked by Close for ever or has    *)
(* been abandoned by its parser.                                           *)
ShutdownEnds ==
  <>(spc # "idle") => (<>(process # "running") \/ <>[](\E c \in Conn : Abandoned(c) \/ Overlooked(c)))

(* "Blocks until it receives a signal to stop" (ListenAndServeWithSignal), *)
(* without the exceptions: a client that has sent an empty line keeps the  *)
(* server from ending.                                                     *)
EndsOnSignal == <>(spc # "idle") => <>(process # "running")
=============================================================================
