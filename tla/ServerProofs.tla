----------------------------- MODULE ServerProofs -----------------------------
(***************************************************************************)
(* Theorems about Server, for any number of connections and whatever the   *)
(* clients send: what Close waits for, that a connection refused is not    *)
(* served, the types, and that Handle receives what its client has sent.   *)
(* The first two do not depend on what a line is parsed to; for the others *)
(* the operators of Parser are opened, and what the recursive ones give is *)
(* found by induction on positions.                                        *)
(***************************************************************************)
EXTENDS Server, SequenceTheorems, WellFoundedInduction, TLAPS

Visiting == {"wait", "asleep", "quiet", "impatient"}

Typed ==
  /\ hpc \in [Conn -> Serving \cup {"none", "done"}]
  /\ ppc \in [Conn -> {"none", "parse", "send", "ended", "panicked"}]
  /\ closed \in [Conn -> BOOLEAN] /\ buffered \in [Conn -> BOOLEAN]
  /\ waitingReply \in [Conn -> Nat] /\ late \in [Conn -> BOOLEAN]
  /\ DOMAIN client = Conn /\ DOMAIN handled = Conn /\ DOMAIN payload = Conn
  /\ activeConn \subseteq Conn /\ base \subseteq Conn
  /\ spc \in Visiting => at \in Conn

(* The counter is 1 while the reply is written and 0 otherwise.            *)
Counted == \A c \in Conn : waitingReply[c] = IF hpc[c] = "write" THEN 1 ELSE 0

(* When Close has seen the counter at 0, what is written was begun since.  *)
QuietOrLate == spc = "quiet" => (hpc[at] = "write" => late[at])

(* There is no parser, and nothing parsed, before Store.                   *)
NotYetParsed == \A c \in Conn : hpc[c] \in {"none", "check", "store"} =>
  ppc[c] = "none" /\ handled[c] = <<>> /\ ~buffered[c]

(* Handle begins with the connection.                                      *)
NotYetMade == \A c \in Conn : client[c] = "absent" => hpc[c] = "none"

IInv == Typed /\ Counted /\ QuietOrLate /\ NotYetParsed /\ NotYetMade

(* A connection that was closed before its parser first read, or is about  *)
(* to be.                                                                  *)
Unserved(c) ==
  /\ ~buffered[c] /\ (closed[c] \/ (hpc[c] = "check" /\ closing))
  /\ \/ ppc[c] \in {"none", "parse"} /\ handled[c] = <<>>
     \/ ppc[c] = "send" /\ handled[c] = <<>> /\ IoError(payload[c])
     \/ ppc[c] = "ended" /\ IoError(handled[c][1])

-----------------------------------------------------------------------------
LEMMA InitInv == Init => IInv
BY DEF Init, IInv, Typed, Counted, QuietOrLate, NotYetParsed, NotYetMade, Serving, Visiting

(* One step, whichever it is, as the disjunction the proofs split on.      *)
LEMMA Steps ==
  ASSUME Next
  PROVE \/ \E c \in Conn : \/ ClientEnds(c) \/ ClientResets(c) \/ ClientStalls(c)
                           \/ ParseLine(c) \/ ReadFails(c) \/ Accept(c) \/ Check(c) \/ Store(c)
                           \/ Receive(c) \/ BeginWrite(c) \/ WriteOk(c) \/ WriteFails(c)
                           \/ CloseClient(c) \/ Wakes(c) \/ Visit(c)
        \/ AcceptFails \/ ServeEnds \/ Signal \/ CloseHandler \/ RangeEnds \/ Wait
        \/ TimeOut \/ CloseConn
BY DEF Next, Client, ParseStream, Handle, Woken, Serve, Close, Running

LEMMA NextInv ==
  ASSUME IInv, [Next]_vars
  PROVE IInv'
<1> USE DEF IInv, Typed, Counted, QuietOrLate, NotYetParsed, NotYetMade, Serving, Visiting
<1> USE DEF input, reader, handle, writing, closer, main
<1>1. CASE UNCHANGED vars
  BY <1>1 DEF vars
<1>2. ASSUME NEW c \in Conn, ClientEnds(c) \/ ClientResets(c) \/ ClientStalls(c)
      PROVE IInv'
  BY <1>2 DEF ClientEnds, ClientResets, ClientStalls
<1>3. ASSUME NEW c \in Conn, ParseLine(c)
      PROVE IInv'
  <2> DEFINE sent == Parse0(rs[c], SubSeq(in[c], 1, LineLength(rs[c], in[c]))).sent
             x == IF sent = Panic THEN Nothing ELSE sent
             y == CASE sent = Nothing -> "parse" [] sent = Panic -> "panicked" [] OTHER -> "send"
  <2>1. /\ ppc[c] = "parse"
        /\ buffered' = [buffered EXCEPT ![c] = TRUE]
        /\ payload' = [payload EXCEPT ![c] = x]
        /\ ppc' = [ppc EXCEPT ![c] = y]
        /\ UNCHANGED <<client, hpc, handled, closed, waitingReply, late, activeConn, base, spc, at, closing>>
    BY <1>3 DEF ParseLine
  <2>2. y \in {"parse", "panicked", "send"}
    OBVIOUS
  <2> HIDE DEF x, y
  <2> QED BY <2>1, <2>2
<1>4. ASSUME NEW c \in Conn, ReadFails(c)
      PROVE IInv'
  <2>1. /\ ppc[c] = "parse" /\ ppc' = [ppc EXCEPT ![c] = "send"]
        /\ \E x : payload' = [payload EXCEPT ![c] = x]
        /\ UNCHANGED <<client, hpc, handled, buffered, closed, waitingReply, late, activeConn, base, spc, at, closing>>
    BY <1>4 DEF ReadFails
  <2> QED BY <2>1
<1>5. ASSUME NEW c \in Conn, Accept(c) \/ Check(c) \/ Store(c) \/ CloseClient(c)
      PROVE IInv'
  <2>1. CASE Accept(c)
    BY <1>5, <2>1 DEF Accept
  <2>2. CASE Check(c)
    BY <1>5, <2>2 DEF Check
  <2>3. CASE Store(c)
    BY <1>5, <2>3 DEF Store
  <2>4. CASE CloseClient(c)
    BY <1>5, <2>4 DEF CloseClient
  <2> QED BY <1>5, <2>1, <2>2, <2>3, <2>4
<1>6. ASSUME NEW c \in Conn, Receive(c)
      PROVE IInv'
  <2> DEFINE x == Append(handled[c], payload[c])
             y == CASE payload[c].kind \in EndsHandle -> "leave"
                    [] payload[c].kind \in Answered -> "reply" [] OTHER -> "range"
             z == IF payload[c].kind \in IoErrors THEN "ended" ELSE "parse"
  <2>1. /\ hpc[c] = "range"
        /\ payload' = [payload EXCEPT ![c] = Nothing]
        /\ handled' = [handled EXCEPT ![c] = x]
        /\ hpc' = [hpc EXCEPT ![c] = y]
        /\ ppc' = [ppc EXCEPT ![c] = z]
        /\ UNCHANGED <<client, buffered, closed, waitingReply, late, activeConn, base, spc, at, closing>>
    BY <1>6 DEF Receive
  <2>2. y \in {"leave", "reply", "range"} /\ z \in {"ended", "parse"}
    OBVIOUS
  <2> HIDE DEF x, y, z
  <2> QED BY <2>1, <2>2
<1>7. ASSUME NEW c \in Conn, BeginWrite(c)
      PROVE IInv'
  <2> USE <1>7 DEF BeginWrite
  <2>1. Typed'
    OBVIOUS
  <2>2. Counted'
    OBVIOUS
  <2>3. QuietOrLate'
    OBVIOUS
  <2>4. NotYetParsed' /\ NotYetMade'
    OBVIOUS
  <2> QED BY <2>1, <2>2, <2>3, <2>4
<1>8. ASSUME NEW c \in Conn, WriteOk(c) \/ WriteFails(c)
      PROVE IInv'
  <2>1. /\ hpc[c] = "write" /\ hpc' \in {[hpc EXCEPT ![c] = "range"], [hpc EXCEPT ![c] = "leave"]}
        /\ waitingReply' = [waitingReply EXCEPT ![c] = @ - 1]
        /\ late' = [late EXCEPT ![c] = FALSE]
        /\ UNCHANGED <<client, ppc, payload, handled, buffered, closed, activeConn, base, spc, at, closing>>
    BY <1>8 DEF WriteOk, WriteFails, WriteEnds
  <2>2. waitingReply[c] = 1
    BY <2>1
  <2>3. Typed'
    BY <2>1, <2>2
  <2>4. Counted'
    BY <2>1, <2>2
  <2>5. QuietOrLate'
    BY <2>1
  <2>6. NotYetParsed' /\ NotYetMade'
    BY <2>1
  <2> QED BY <2>3, <2>4, <2>5, <2>6
<1>9. ASSUME NEW c \in Conn, Wakes(c) \/ Visit(c)
      PROVE IInv'
  BY <1>9 DEF Wakes, Visit
<1>10. CASE AcceptFails \/ ServeEnds \/ Signal \/ CloseHandler \/ RangeEnds
  <2>1. CASE ServeEnds
    BY <2>1 DEF ServeEnds
  <2>2. CASE CloseHandler
    BY <2>2 DEF CloseHandler
  <2>3. CASE AcceptFails \/ Signal \/ RangeEnds
    BY <2>3 DEF AcceptFails, Signal, RangeEnds
  <2> QED BY <1>10, <2>1, <2>2, <2>3
<1>11. CASE Wait \/ TimeOut \/ CloseConn
  <2>1. CASE Wait
    BY <2>1 DEF Wait
  <2>2. CASE TimeOut
    BY <2>2 DEF TimeOut
  <2>3. CASE CloseConn
    BY <2>3 DEF CloseConn
  <2> QED BY <1>11, <2>1, <2>2, <2>3
<1> QED
  BY <1>1, <1>2, <1>3, <1>4, <1>5, <1>6, <1>7, <1>8, <1>9, <1>10, <1>11, Steps

(* The counter and the parser's start, in every state.                     *)
THEOREM InvHolds == Spec => []IInv
BY InitInv, NextInv, PTL DEF Spec

-----------------------------------------------------------------------------
(* Close cuts off only a reply whose ten seconds are over, or that was     *)
(* begun behind its back (Connection.Close).                               *)
THEOREM NoReplyCutEarly == Spec => CloseWaits
<1>1. ASSUME IInv, [Next]_vars, NEW c \in Conn, hpc[c] = "write", ~closed[c], closed'[c]
      PROVE spc = "impatient" \/ late[c]
  <2> USE <1>1 DEF IInv, Typed, QuietOrLate, input, reader, handle, writing, closer, main
  <2>1. CASE CloseConn
    BY <2>1 DEF CloseConn, Visiting
  <2>2. CASE ServeEnds
    BY <2>2 DEF ServeEnds
  <2>3. ASSUME NEW d \in Conn, Check(d) \/ CloseClient(d)
        PROVE FALSE
    BY <2>3 DEF Check, CloseClient
  <2>4. ASSUME UNCHANGED closed
        PROVE FALSE
    BY <2>4
  <2>5. CASE UNCHANGED vars
    BY <2>5, <2>4 DEF vars
  <2>6. ASSUME NEW d \in Conn,
               \/ ClientEnds(d) \/ ClientResets(d) \/ ClientStalls(d) \/ ParseLine(d) \/ ReadFails(d)
               \/ Accept(d) \/ Store(d) \/ Receive(d) \/ BeginWrite(d) \/ WriteOk(d)
               \/ WriteFails(d) \/ Wakes(d) \/ Visit(d)
        PROVE FALSE
    <3>1. UNCHANGED closed
      BY <2>6 DEF ClientEnds, ClientResets, ClientStalls, ParseLine, ReadFails, Accept, Store,
                  Receive, BeginWrite, WriteOk, WriteFails, WriteEnds, Wakes, Visit
    <3> QED BY <3>1, <2>4
  <2>7. CASE AcceptFails \/ Signal \/ CloseHandler \/ RangeEnds \/ Wait \/ TimeOut
    BY <2>7, <2>4 DEF AcceptFails, Signal, CloseHandler, RangeEnds, Wait, TimeOut
  <2> QED
    BY <2>1, <2>2, <2>3, <2>5, <2>6, <2>7, Steps
<1>2. IInv /\ [Next]_vars =>
        [\A c \in Conn : (hpc[c] = "write" /\ ~closed[c] /\ closed'[c]) => spc = "impatient" \/ late[c]]_vars
  BY <1>1
<1> QED
  BY <1>2, InvHolds, PTL DEF Spec, CloseWaits
-----------------------------------------------------------------------------
(* Once the connection is closed, or bound to be, before its parser reads, *)
(* the parser has nothing to send but an error of its reading.             *)
LEMMA UnservedStays ==
  ASSUME IInv, [Next]_vars, NEW c \in Conn, Unserved(c)
  PROVE Unserved(c)'
<1> USE DEF IInv, Typed, NotYetParsed, NotYetMade, Unserved
<1> USE DEF input, reader, handle, writing, closer, main
<1>1. CASE UNCHANGED vars
  BY <1>1 DEF vars
<1>2. ASSUME NEW d \in Conn, ClientEnds(d) \/ ClientResets(d) \/ ClientStalls(d)
      PROVE Unserved(c)'
  BY <1>2 DEF ClientEnds, ClientResets, ClientStalls
<1>3. ASSUME NEW d \in Conn, ParseLine(d)
      PROVE Unserved(c)'
  <2>1. CASE d = c
    <3>1. closed[c]
      BY <1>3, <2>1 DEF ParseLine
    <3> QED BY <1>3, <2>1, <3>1 DEF ParseLine
  <2>2. CASE d # c
    <3>1. /\ buffered'[c] = buffered[c] /\ ppc'[c] = ppc[c] /\ payload'[c] = payload[c]
          /\ UNCHANGED <<hpc, handled, closed, closing>>
      BY <1>3, <2>2 DEF ParseLine
    <3> QED BY <3>1
  <2> QED BY <2>1, <2>2
<1>4. ASSUME NEW d \in Conn, ReadFails(d)
      PROVE Unserved(c)'
  <2>1. PICK err \in IoErrors : payload' = [payload EXCEPT ![d] = Payload(err, <<>>)]
    BY <1>4 DEF ReadFails
  <2>2. /\ ppc[d] = "parse" /\ ppc' = [ppc EXCEPT ![d] = "send"]
        /\ UNCHANGED <<hpc, handled, buffered, closed, closing>>
    BY <1>4 DEF ReadFails
  <2>3. IoError(Payload(err, <<>>))
    BY DEF IoError, Payload
  <2> HIDE DEF IoError
  <2> QED BY <2>1, <2>2, <2>3
<1>5. ASSUME NEW d \in Conn, Receive(d)
      PROVE Unserved(c)'
  <2>1. CASE d = c
    <3>1. /\ ppc[c] = "send" /\ hpc[c] = "range"
          /\ handled' = [handled EXCEPT ![c] = Append(@, payload[c])]
          /\ ppc' = [ppc EXCEPT ![c] = IF payload[c].kind \in IoErrors THEN "ended" ELSE "parse"]
          /\ UNCHANGED <<buffered, closed, closing>>
      BY <1>5, <2>1 DEF Receive
    <3>2. handled[c] = <<>> /\ IoError(payload[c])
      BY <3>1
    <3>3. handled'[c][1] = payload[c] /\ ppc'[c] = "ended"
      BY <3>1, <3>2 DEF IoError
    <3> QED BY <3>1, <3>2, <3>3
  <2>2. CASE d # c
    <3>1. /\ hpc'[c] = hpc[c] /\ ppc'[c] = ppc[c] /\ payload'[c] = payload[c]
          /\ handled'[c] = handled[c] /\ UNCHANGED <<buffered, closed, closing>>
      BY <1>5, <2>2 DEF Receive
    <3> QED BY <3>1
  <2> QED BY <2>1, <2>2
<1>6. ASSUME NEW d \in Conn, Accept(d) \/ Check(d)
      PROVE Unserved(c)'
  <2>1. CASE Accept(d)
    BY <1>6, <2>1 DEF Accept
  <2>2. CASE Check(d)
    BY <1>6, <2>2 DEF Check
  <2> QED BY <1>6, <2>1, <2>2
<1>7. ASSUME NEW d \in Conn, Store(d) \/ CloseClient(d)
      PROVE Unserved(c)'
  <2>1. CASE Store(d)
    BY <1>7, <2>1 DEF Store
  <2>2. CASE CloseClient(d)
    BY <1>7, <2>2 DEF CloseClient
  <2> QED BY <1>7, <2>1, <2>2
<1>8. ASSUME NEW d \in Conn, BeginWrite(d) \/ WriteOk(d) \/ WriteFails(d)
      PROVE Unserved(c)'
  <2>1. /\ hpc[d] # "check" /\ (d # c => hpc'[c] = hpc[c])
        /\ UNCHANGED <<ppc, payload, handled, buffered, closed, closing>>
    BY <1>8 DEF BeginWrite, WriteOk, WriteFails, WriteEnds
  <2> QED BY <2>1
<1>9. ASSUME NEW d \in Conn, Wakes(d) \/ Visit(d)
      PROVE Unserved(c)'
  BY <1>9 DEF Wakes, Visit
<1>10. CASE AcceptFails \/ ServeEnds \/ Signal \/ CloseHandler \/ RangeEnds
  <2>1. /\ UNCHANGED <<hpc, ppc, payload, handled, buffered>>
        /\ (closing => closing') /\ (closed[c] => closed'[c])
    BY <1>10 DEF AcceptFails, ServeEnds, Signal, CloseHandler, RangeEnds
  <2> QED BY <2>1
<1>11. CASE Wait \/ TimeOut \/ CloseConn
  <2>1. /\ UNCHANGED <<hpc, ppc, payload, handled, buffered, closing>>
        /\ (closed[c] => closed'[c])
    BY <1>11 DEF Wait, TimeOut, CloseConn
  <2> QED BY <2>1
<1> QED
  BY <1>1, <1>2, <1>3, <1>4, <1>5, <1>6, <1>7, <1>8, <1>9, <1>10, <1>11, Steps

(* Nothing is executed for a connection that Handle takes on while the     *)
(* handler closes, though Handle stores and parses it.                     *)
THEOREM RefusedForGood == Spec => Refused
<1> SUFFICES ASSUME NEW c \in Conn
             PROVE Spec => [](hpc[c] = "check" /\ closing =>
                                [](handled[c] = <<>> \/ IoError(handled[c][1])))
  BY DEF Refused
<1>1. IInv /\ hpc[c] = "check" /\ closing => Unserved(c)
  BY DEF IInv, NotYetParsed, Unserved
<1>2. IInv /\ [Next]_vars /\ Unserved(c) => Unserved(c)'
  BY UnservedStays
<1>3. Unserved(c) => (handled[c] = <<>> \/ IoError(handled[c][1]))
  BY DEF Unserved
<1> QED
  BY <1>1, <1>2, <1>3, InvHolds, PTL DEF Spec

-----------------------------------------------------------------------------
(* Induction from lo to hi over the set of the numbers it holds for.       *)
LEMMA UpTo ==
  ASSUME NEW lo \in Int, NEW hi \in Int, NEW G,
         lo \in G, \A n \in lo..(hi - 1) : n \in G => n + 1 \in G
  PROVE  \A n \in lo..hi : n \in G
<1> DEFINE Bad == {k \in Nat : lo + k <= hi /\ lo + k \notin G}
<1>1. Bad = {}
  <2>1. SUFFICES ASSUME Bad # {} PROVE FALSE
    OBVIOUS
  <2>2. PICK k \in Bad : \A j \in Nat : <<j, k>> \in OpToRel(<, Nat) => ~(j \in Bad)
    BY <2>1, NatLessThanWellFounded, WFMin
  <2>3. \A j \in Nat : j < k => j \notin Bad
    BY <2>2 DEF OpToRel
  <2>4. k \in Nat /\ lo + k <= hi /\ lo + k \notin G
    OBVIOUS
  <2>5. k # 0
    BY <2>4
  <2>6. k - 1 \in Nat /\ k - 1 < k /\ lo + (k - 1) \in lo..(hi - 1) /\ lo + (k - 1) + 1 = lo + k
    BY <2>4, <2>5
  <2>7. lo + (k - 1) \in G
    BY <2>3, <2>6
  <2> QED BY <2>4, <2>6, <2>7
<1>2. ASSUME NEW n \in lo..hi, n \notin G PROVE FALSE
  <2>1. n - lo \in Bad
    BY <1>2
  <2> QED BY <1>1, <2>1
<1> QED BY <1>2

(* A function defined by recursion from lo to hi exists, whatever its step *)
(* makes of a position and of the value before it, as long as it stays in  *)
(* a set.                                                                  *)
Recursive(f, lo, hi, S, start, step) ==
  f \in [lo..hi -> S] /\ f[lo] = start /\ \A i \in (lo + 1)..hi : f[i] = step[i][f[i - 1]]

LEMMA Recursion ==
  ASSUME NEW lo \in Int, NEW hi \in Int, lo <= hi, NEW S, NEW start \in S,
         NEW step, \A i \in (lo + 1)..hi : \A x \in S : step[i][x] \in S
  PROVE  \E f : Recursive(f, lo, hi, S, start, step)
<1> DEFINE G == {n \in lo..hi : \E f : Recursive(f, lo, n, S, start, step)}
<1>1. lo \in G
  <2>1. Recursive([i \in lo..lo |-> start], lo, lo, S, start, step)
    BY DEF Recursive
  <2>2. lo \in lo..hi
    OBVIOUS
  <2> QED BY <2>1, <2>2
<1>2. ASSUME NEW n \in lo..(hi - 1), n \in G
      PROVE n + 1 \in G
  <2>1. PICK f : Recursive(f, lo, n, S, start, step)
    BY <1>2
  <2> DEFINE g == [i \in lo..(n + 1) |-> IF i = n + 1 THEN step[n + 1][f[n]] ELSE f[i]]
  <2>2. f[n] \in S /\ n + 1 \in (lo + 1)..hi
    BY <2>1 DEF Recursive
  <2>3. step[n + 1][f[n]] \in S
    BY <2>2
  <2>4. g \in [lo..(n + 1) -> S]
    BY <2>1, <2>3 DEF Recursive
  <2>5. \A i \in lo..n : g[i] = f[i]
    OBVIOUS
  <2>6. g[n + 1] = step[n + 1][g[n]]
    BY <2>5
  <2>7. ASSUME NEW i \in (lo + 1)..(n + 1)
        PROVE g[i] = step[i][g[i - 1]]
    <3>1. CASE i = n + 1
      BY <2>6, <3>1
    <3>2. CASE i \in (lo + 1)..n
      <4>1. g[i] = f[i] /\ g[i - 1] = f[i - 1]
        BY <3>2, <2>5
      <4> HIDE DEF g
      <4> QED BY <4>1, <3>2, <2>1 DEF Recursive
    <3> QED BY <3>1, <3>2
  <2>8. g[lo] = start
    BY <2>1, <2>5 DEF Recursive
  <2> HIDE DEF g
  <2>9. Recursive(g, lo, n + 1, S, start, step)
    BY <2>4, <2>7, <2>8 DEF Recursive
  <2> QED BY <2>9
<1> HIDE DEF G
<1>3. \A n \in lo..hi : n \in G
  BY <1>1, <1>2, UpTo
<1>4. hi \in G
  BY <1>3
<1> QED BY <1>4 DEF G

(* What a function gives is in the set when its steps do not leave it.     *)
LEMMA RecursionStays ==
  ASSUME NEW lo \in Int, NEW hi \in Int, NEW S, NEW f,
         f[lo] \in S, \A i \in (lo + 1)..hi : f[i - 1] \in S => f[i] \in S
  PROVE  \A i \in lo..hi : f[i] \in S
<1> DEFINE G == {n \in lo..hi : f[n] \in S}
<1>1. SUFFICES ASSUME lo <= hi PROVE \A i \in lo..hi : i \in G
  OBVIOUS
<1>2. lo \in G
  BY <1>1
<1>3. ASSUME NEW n \in lo..(hi - 1), n \in G
      PROVE n + 1 \in G
  <2>1. n + 1 \in (lo + 1)..hi /\ (n + 1) - 1 = n
    OBVIOUS
  <2> QED BY <1>3, <2>1
<1> HIDE DEF G
<1> QED BY <1>2, <1>3, UpTo

-----------------------------------------------------------------------------
(* What the recursive definitions of Parser and SequencesExt compute.      *)
Counts(value, s) ==
  /\ value[0] = 0 /\ \A n \in 1..Len(s) : value[n] = 10 * value[n - 1] + ValueOf(s[n])
  /\ \A n \in 0..Len(s) : value[n] \in Nat
  /\ UintOf(s) = value[Len(s)]

LEMMA UintSteps ==
  ASSUME NEW T, NEW s \in Seq(T), IsUint(s)
  PROVE  \E value : Counts(value, s)
<1> DEFINE value[n \in 0..Len(s)] == IF n = 0 THEN 0 ELSE 10 * value[n - 1] + ValueOf(s[n])
           Solves(g) == g = [n \in 0..Len(s) |-> IF n = 0 THEN 0 ELSE 10 * g[n - 1] + ValueOf(s[n])]
<1>1. UintOf(s) = value[Len(s)]
  BY DEF UintOf
<1>2. value = CHOOSE g : Solves(g)
  BY DEF value
<1>3. ASSUME NEW n \in 1..Len(s)
      PROVE ValueOf(s[n]) \in Nat
  <2>1. s[n] \in ToSet(Digits)
    BY DEF IsUint
  <2>2. PICK i \in DOMAIN Digits : Digits[i] = s[n]
    BY <2>1 DEF ToSet
  <2>3. DOMAIN Digits = 1..10
    BY DEF Digits
  <2> DEFINE place == CHOOSE j \in DOMAIN Digits : Digits[j] = s[n]
  <2>4. place \in DOMAIN Digits
    BY <2>2
  <2>5. ValueOf(s[n]) = place - 1
    BY DEF ValueOf
  <2> HIDE DEF place
  <2> QED BY <2>3, <2>4, <2>5
<1>l. Len(s) \in Nat /\ Len(s) \in Int /\ 0 \in Int /\ 0 <= Len(s) /\ 0 \in Nat
  OBVIOUS
<1>4. \E g : Solves(g)
  <2> DEFINE step == [n \in (0 + 1)..Len(s) |-> [x \in Nat |-> 10 * x + ValueOf(s[n])]]
  <2>1. \A n \in (0 + 1)..Len(s) : \A x \in Nat : step[n][x] \in Nat
    BY <1>3
  <2>2. \A n \in (0 + 1)..Len(s) : \A x \in Nat : step[n][x] = 10 * x + ValueOf(s[n])
    OBVIOUS
  <2> HIDE DEF step, Solves, value
  <2>r. PICK g : Recursive(g, 0, Len(s), Nat, 0, step)
    BY <1>l, <2>1, Recursion
  <2>3. g \in [0..Len(s) -> Nat] /\ g[0] = 0 /\ \A n \in (0 + 1)..Len(s) : g[n] = step[n][g[n - 1]]
    BY <2>r DEF Recursive
  <2>4. ASSUME NEW n \in 0..Len(s)
        PROVE g[n] = IF n = 0 THEN 0 ELSE 10 * g[n - 1] + ValueOf(s[n])
    <3>1. CASE n = 0
      BY <2>3, <3>1
    <3>2. CASE n \in (0 + 1)..Len(s)
      <4>1. n - 1 \in 0..Len(s) /\ n # 0
        BY <1>l, <3>2
      <4>2. g[n - 1] \in Nat
        BY <2>3, <4>1
      <4> HIDE DEF Solves, value
      <4> QED BY <2>2, <2>3, <3>2, <4>1, <4>2
    <3> QED BY <1>l, <3>1, <3>2
  <2>5. g = [n \in 0..Len(s) |-> g[n]]
    BY <2>3
  <2>6. g = [n \in 0..Len(s) |-> IF n = 0 THEN 0 ELSE 10 * g[n - 1] + ValueOf(s[n])]
    BY <2>4, <2>5
  <2> QED BY <2>6 DEF Solves
<1>5. Solves(value)
  <2> HIDE DEF Solves, value
  <2> QED BY <1>2, <1>4
<1> HIDE DEF value
<1>6. value[0] = 0 /\ \A n \in 1..Len(s) : value[n] = 10 * value[n - 1] + ValueOf(s[n])
  <2>1. \A n \in 0..Len(s) : value[n] = IF n = 0 THEN 0 ELSE 10 * value[n - 1] + ValueOf(s[n])
    BY <1>5
  <2> QED BY <2>1
<1>7. \A n \in 1..Len(s) : value[n - 1] \in Nat => value[n] \in Nat
  BY <1>3, <1>6
<1>8. \A n \in 0..Len(s) : value[n] \in Nat
  <2>1. \A n \in (0 + 1)..Len(s) : value[n - 1] \in Nat => value[n] \in Nat
    BY <1>7
  <2>2. value[0] \in Nat
    BY <1>6
  <2> HIDE DEF Solves
  <2> QED BY <1>l, <2>1, <2>2, RecursionStays
<1> QED BY <1>1, <1>6, <1>8 DEF Counts

LEMMA UintIs ==
  ASSUME NEW T, NEW s \in Seq(T), IsUint(s)
  PROVE  UintOf(s) \in Nat
<1>1. PICK value : Counts(value, s)
  BY UintSteps
<1> QED BY <1>1 DEF Counts

LEMMA IntIs ==
  ASSUME NEW T, NEW s \in Seq(T), IsInt(s)
  PROVE  IntOf(s) \in Int
<1>1. CASE IsUint(s)
  BY <1>1, UintIs DEF IntOf
<1>2. CASE ~IsUint(s)
  <2>1. s # <<>> /\ IsUint(Tail(s))
    BY <1>2 DEF IsInt
  <2>2. Tail(s) \in Seq(T)
    BY <2>1
  <2>3. UintOf(Tail(s)) \in Nat
    BY <2>1, <2>2, UintIs
  <2> QED BY <1>2, <2>3 DEF IntOf
<1> QED BY <1>1, <1>2

Lays(flatten, seqs, T) ==
  /\ \A i \in 1..Len(seqs) : flatten[i] \in Seq(T)
  /\ \A i \in 1..Len(seqs) : flatten[i] = IF i = 1 THEN seqs[i] ELSE flatten[i - 1] \o seqs[i]
  /\ FlattenSeq(seqs) = flatten[Len(seqs)]

LEMMA FlattenSteps ==
  ASSUME NEW T, NEW seqs \in Seq(Seq(T)), Len(seqs) # 0
  PROVE  \E flatten : Lays(flatten, seqs, T)
<1> DEFINE flatten[i \in 1..Len(seqs)] == IF i = 1 THEN seqs[i] ELSE flatten[i - 1] \o seqs[i]
           Solves(g) == g = [i \in 1..Len(seqs) |-> IF i = 1 THEN seqs[i] ELSE g[i - 1] \o seqs[i]]
<1>1. FlattenSeq(seqs) = flatten[Len(seqs)]
  BY DEF FlattenSeq
<1>2. flatten = CHOOSE g : Solves(g)
  BY DEF flatten
<1>3. \A i \in 1..Len(seqs) : seqs[i] \in Seq(T)
  OBVIOUS
<1>l. Len(seqs) \in Nat /\ Len(seqs) \in Int /\ 1 \in Int /\ 1 <= Len(seqs)
  OBVIOUS
<1>m. seqs[1] \in Seq(T)
  BY <1>3, <1>l
<1>4. \E g : Solves(g)
  <2> DEFINE step == [i \in (1 + 1)..Len(seqs) |-> [x \in Seq(T) |-> x \o seqs[i]]]
  <2>1. \A i \in (1 + 1)..Len(seqs) : \A x \in Seq(T) : step[i][x] \in Seq(T)
    BY <1>3
  <2>2. \A i \in (1 + 1)..Len(seqs) : \A x \in Seq(T) : step[i][x] = x \o seqs[i]
    OBVIOUS
  <2> HIDE DEF step, Solves, flatten
  <2>r. PICK g : Recursive(g, 1, Len(seqs), Seq(T), seqs[1], step)
    BY <1>l, <1>m, <2>1, Recursion
  <2>3. /\ g \in [1..Len(seqs) -> Seq(T)] /\ g[1] = seqs[1]
        /\ \A i \in (1 + 1)..Len(seqs) : g[i] = step[i][g[i - 1]]
    BY <2>r DEF Recursive
  <2>4. ASSUME NEW i \in 1..Len(seqs)
        PROVE g[i] = IF i = 1 THEN seqs[i] ELSE g[i - 1] \o seqs[i]
    <3>1. CASE i = 1
      BY <2>3, <3>1
    <3>2. CASE i \in (1 + 1)..Len(seqs)
      <4>1. i - 1 \in 1..Len(seqs) /\ i # 1
        BY <1>l, <3>2
      <4>2. g[i - 1] \in Seq(T)
        BY <2>3, <4>1
      <4> HIDE DEF Solves, flatten
      <4> QED BY <2>2, <2>3, <3>2, <4>1, <4>2
    <3> QED BY <1>l, <3>1, <3>2
  <2>5. g = [i \in 1..Len(seqs) |-> g[i]]
    BY <2>3
  <2>6. g = [i \in 1..Len(seqs) |-> IF i = 1 THEN seqs[i] ELSE g[i - 1] \o seqs[i]]
    BY <2>4, <2>5
  <2> QED BY <2>6 DEF Solves
<1>5. Solves(flatten)
  <2> HIDE DEF Solves, flatten
  <2> QED BY <1>2, <1>4
<1> HIDE DEF flatten
<1>6. \A i \in 1..Len(seqs) : flatten[i] = IF i = 1 THEN seqs[i] ELSE flatten[i - 1] \o seqs[i]
  BY <1>5
<1> HIDE DEF Solves
<1>7. flatten[1] \in Seq(T)
  BY <1>3, <1>6
<1>8. ASSUME NEW i \in (1 + 1)..Len(seqs), flatten[i - 1] \in Seq(T)
      PROVE flatten[i] \in Seq(T)
  <2>1. i \in 1..Len(seqs) /\ i # 1
    BY <1>l
  <2>2. flatten[i] = flatten[i - 1] \o seqs[i] /\ seqs[i] \in Seq(T)
    BY <1>3, <1>6, <2>1
  <2>3. flatten[i - 1] \o seqs[i] \in Seq(T)
    BY <1>8, <2>2
  <2> QED BY <2>2, <2>3
<1>9. \A i \in 1..Len(seqs) : flatten[i] \in Seq(T)
  BY <1>7, <1>8, <1>l, RecursionStays
<1> QED BY <1>1, <1>6, <1>9 DEF Lays

LEMMA FlattenIs ==
  ASSUME NEW T, NEW seqs \in Seq(Seq(T))
  PROVE  FlattenSeq(seqs) \in Seq(T)
<1>1. CASE Len(seqs) = 0
  BY <1>1 DEF FlattenSeq
<1>2. CASE Len(seqs) # 0
  <2>1. PICK flatten : Lays(flatten, seqs, T)
    BY <1>2, FlattenSteps
  <2> QED BY <1>2, <2>1 DEF Lays
<1> QED BY <1>1, <1>2

-----------------------------------------------------------------------------
(* A turn of the parser leaves a readState whose announced length is not   *)
(* negative; what it sends is of one of the kinds that are no failure of   *)
(* reading, and leaves it where it began.                                  *)
StateOK(r) == DOMAIN r = {"multi", "count", "type", "args", "bulkLen"} /\ r.bulkLen \in Nat
TurnOK(turn) ==
  /\ StateOK(turn.rs)
  /\ turn.sent \in {Nothing, Panic} \/ (turn.rs = FreshState /\ turn.sent.kind \in Kinds \ IoErrors)

LEMMA SendsOK ==
  ASSUME NEW kind \in Kinds \ IoErrors, NEW data
  PROVE  TurnOK(Sends(Payload(kind, data)))
BY DEF TurnOK, StateOK, Sends, Turn, FreshState, Payload

LEMMA Sent ==
  /\ \A data : TurnOK(Sends(Payload("emptymultibulk", data))) /\ TurnOK(Sends(Payload("nullbulk", data)))
               /\ TurnOK(Sends(Payload("status", data))) /\ TurnOK(Sends(Payload("err", data)))
               /\ TurnOK(Sends(Payload("int", data))) /\ TurnOK(Sends(Payload("bulk", data)))
               /\ TurnOK(Sends(Command(data)))
  /\ TurnOK(Sends(ProtocolError))
BY SendsOK DEF Kinds, IoErrors, Command, ProtocolError

LEMMA ExpectOK ==
  ASSUME NEW type, NEW count, NEW n \in Nat
  PROVE  TurnOK(Expect(type, count, n))
BY DEF TurnOK, StateOK, Expect, Turn

LEMMA MultiBulkHeaderOK ==
  ASSUME NEW digits
  PROVE  TurnOK(MultiBulkHeader(digits))
<1> HIDE DEF TurnOK
<1> QED BY Sent, ExpectOK DEF MultiBulkHeader

LEMMA BulkHeaderOK ==
  ASSUME NEW T, NEW digits \in Seq(T)
  PROVE  TurnOK(BulkHeader(digits))
<1>1. CASE ~IsInt(digits) \/ (IntOf(digits) <= 0 /\ IntOf(digits) # -1)
  BY <1>1, Sent DEF BulkHeader
<1>2. CASE IsInt(digits) /\ ~(IntOf(digits) <= 0 /\ IntOf(digits) # -1) /\ IntOf(digits) = -1
  BY <1>2, Sent DEF BulkHeader
<1>3. CASE IsInt(digits) /\ ~(IntOf(digits) <= 0 /\ IntOf(digits) # -1) /\ IntOf(digits) # -1
  <2>1. IntOf(digits) \in Nat
    BY <1>3, IntIs
  <2>2. BulkHeader(digits) = Expect("$", 1, IntOf(digits))
    BY <1>3 DEF BulkHeader
  <2> QED BY <2>1, <2>2, ExpectOK
<1> QED BY <1>1, <1>2, <1>3

LEMMA FirstLineOK ==
  ASSUME NEW T, NEW text \in Seq(T)
  PROVE  TurnOK(FirstLine(text))
<1>1. ASSUME text # <<>>
      PROVE Tail(text) \in Seq(T)
  BY <1>1
<1>2. CASE text # <<>> /\ text[1] = "*"
  BY <1>2, MultiBulkHeaderOK DEF FirstLine
<1>3. CASE text # <<>> /\ text[1] = "$"
  BY <1>1, <1>3, BulkHeaderOK DEF FirstLine
<1>4. CASE ~(text # <<>> /\ text[1] = "*") /\ ~(text # <<>> /\ text[1] = "$")
  <2>1. FirstLine(text) = SingleLine(text)
    BY <1>4 DEF FirstLine
  <2>2. CASE text # <<>> /\ text[1] = "+"
    BY <2>1, <2>2, Sent DEF SingleLine
  <2>3. CASE text # <<>> /\ text[1] = "-"
    BY <2>1, <2>3, Sent DEF SingleLine
  <2>4. CASE text # <<>> /\ text[1] = ":"
    <3>1. FirstLine(text) = Sends(IF IsInt(Tail(text)) THEN Payload("int", <<IntOf(Tail(text))>>) ELSE ProtocolError)
      BY <2>1, <2>4 DEF SingleLine
    <3> QED BY <3>1, Sent
  <2>5. CASE ~(text # <<>> /\ text[1] = "+") /\ ~(text # <<>> /\ text[1] = "-") /\ ~(text # <<>> /\ text[1] = ":")
    BY <2>1, <2>5, Sent DEF SingleLine
  <2> QED BY <2>2, <2>3, <2>4, <2>5
<1> QED BY <1>2, <1>3, <1>4

LEMMA ReadBodyOK ==
  ASSUME NEW r, StateOK(r), NEW T, NEW text \in Seq(T)
  PROVE  TurnOK(ReadBody(r, text))
<1>a. \A arg : StateOK(Argument(r, arg))
  BY DEF StateOK, Argument
<1>t. \A q : StateOK(q) => TurnOK(Turn(q, Nothing)) /\ TurnOK(Turn(q, Panic))
  BY DEF TurnOK, Turn
<1>1. CASE text = <<>>
  BY <1>1, <1>t DEF ReadBody
<1>2. CASE text # <<>> /\ text[1] = "$" /\ ~IsInt(Tail(text))
  BY <1>2, Sent DEF ReadBody
<1>3. CASE text # <<>> /\ text[1] = "$" /\ IsInt(Tail(text))
  <2>1. Tail(text) \in Seq(T)
    BY <1>3
  <2>2. IntOf(Tail(text)) \in Int
    BY <1>3, <2>1, IntIs
  <2>3. ReadBody(r, text) =
          Turn(IF IntOf(Tail(text)) <= 0 THEN Argument(r, <<>>) ELSE [r EXCEPT !.bulkLen = IntOf(Tail(text))], Nothing)
    BY <1>3 DEF ReadBody
  <2>4. CASE IntOf(Tail(text)) <= 0
    BY <1>a, <1>t, <2>3, <2>4
  <2>5. CASE ~(IntOf(Tail(text)) <= 0)
    <3>1. StateOK([r EXCEPT !.bulkLen = IntOf(Tail(text))])
      BY <2>2, <2>5 DEF StateOK
    <3> QED BY <1>t, <2>3, <2>5, <3>1
  <2> QED BY <2>4, <2>5
<1>4. CASE text # <<>> /\ text[1] # "$"
  BY <1>4, <1>a, <1>t DEF ReadBody
<1> QED BY <1>1, <1>2, <1>3, <1>4

LEMMA Parse0OK ==
  ASSUME NEW r, StateOK(r), NEW T, NEW msg \in Seq(T)
  PROVE  TurnOK(Parse0(r, msg))
<1>1. Text(msg) \in Seq(T)
  BY SubSeqProperties DEF Text
<1>2. CASE r.bulkLen = 0 /\ msg = <<LF>>
  BY <1>2 DEF Parse0, TurnOK, Turn
<1>3. CASE ~(r.bulkLen = 0 /\ msg = <<LF>>) /\ ~EndsWell(msg)
  BY <1>3, Sent DEF Parse0
<1>4. CASE ~(r.bulkLen = 0 /\ msg = <<LF>>) /\ EndsWell(msg) /\ ~r.multi
  BY <1>1, <1>4, FirstLineOK DEF Parse0
<1>5. CASE ~(r.bulkLen = 0 /\ msg = <<LF>>) /\ EndsWell(msg) /\ r.multi
  <2>1. Parse0(r, msg) = Body(r, Text(msg))
    BY <1>5 DEF Parse0
  <2> DEFINE turn == ReadBody([r EXCEPT !.bulkLen = 0], Text(msg))
  <2>2. StateOK([r EXCEPT !.bulkLen = 0])
    BY DEF StateOK
  <2>3. TurnOK(turn)
    BY <1>1, <2>2, ReadBodyOK
  <2>4. CASE turn.sent = Nothing /\ Finished(turn.rs)
    <3>1. Body(r, Text(msg)) = Sends(IF r.type = "*" THEN Command(turn.rs.args) ELSE Payload("bulk", turn.rs.args[1]))
      BY <2>4 DEF Body
    <3> HIDE DEF turn
    <3> QED BY <2>1, <3>1, Sent
  <2>5. CASE ~(turn.sent = Nothing /\ Finished(turn.rs))
    <3>1. Body(r, Text(msg)) = turn
      BY <2>5 DEF Body
    <3> QED BY <2>1, <2>3, <3>1
  <2> QED BY <2>4, <2>5
<1> QED BY <1>2, <1>3, <1>4, <1>5

(* A line without an announced length ends at the first LF.                *)
LEMMA LineHas ==
  ASSUME NEW r, r.bulkLen = 0, NEW T, NEW s \in Seq(T), NEW m, m = LineLength(r, s), m # 0
  PROVE  m \in 1..Len(s) /\ s[m] = LF /\ \A i \in 1..(m - 1) : s[i] # LF
<1> DEFINE ends == {i \in DOMAIN s : s[i] = LF}
           least == CHOOSE i \in ends : \A j \in ends : i <= j
<1>1. m = least /\ ends # {}
  BY DEF LineLength
<1>2. ends \subseteq Nat /\ ends \subseteq 1..Len(s) /\ Len(s) \in Nat
  OBVIOUS
<1>3. \A i \in 1..Len(s) : s[i] = LF => i \in ends
  OBVIOUS
<1>4. \A i \in ends : s[i] = LF
  OBVIOUS
<1> HIDE DEF ends
<1>5. PICK i \in ends : \A j \in Nat : <<j, i>> \in OpToRel(<, Nat) => ~(j \in ends)
  BY <1>1, <1>2, NatLessThanWellFounded, WFMin
<1>6. \A j \in Nat : j < i => j \notin ends
  BY <1>2, <1>5 DEF OpToRel
<1>7. \A j \in ends : i <= j
  BY <1>2, <1>6
<1>8. least \in ends /\ \A j \in ends : least <= j
  BY <1>7
<1> HIDE DEF least
<1>9. ASSUME NEW k \in 1..(m - 1), s[k] = LF PROVE FALSE
  <2>1. m \in 1..Len(s) /\ k \in 1..Len(s) /\ k < m
    BY <1>1, <1>2, <1>8
  <2> QED BY <1>1, <1>3, <1>8, <1>9, <2>1
<1> QED BY <1>1, <1>2, <1>4, <1>8, <1>9

LEMMA LineFirst ==
  ASSUME NEW r, r.bulkLen = 0, NEW T, NEW s \in Seq(T),
         NEW m \in 1..Len(s), s[m] = LF, \A i \in 1..(m - 1) : s[i] # LF
  PROVE  LineLength(r, s) = m
<1> DEFINE ends == {i \in DOMAIN s : s[i] = LF}
           least == CHOOSE i \in ends : \A j \in ends : i <= j
<1>1. m \in ends /\ \A j \in ends : m <= j
  OBVIOUS
<1>2. LineLength(r, s) = least
  BY <1>1 DEF LineLength
<1>3. ends \subseteq Int
  OBVIOUS
<1> HIDE DEF ends
<1>4. least \in ends /\ \A j \in ends : least <= j
  BY <1>1
<1> HIDE DEF least
<1> QED BY <1>1, <1>2, <1>3, <1>4

(* The line that is taken is no longer than what has come in.              *)
LEMMA LineLengthOK ==
  ASSUME NEW r, StateOK(r), NEW T, NEW s \in Seq(T)
  PROVE  LineLength(r, s) \in 0..Len(s)
<1>1. CASE r.bulkLen # 0
  BY <1>1 DEF LineLength, StateOK
<1>2. CASE r.bulkLen = 0
  <2>1. CASE LineLength(r, s) = 0
    BY <2>1
  <2>2. CASE LineLength(r, s) # 0
    BY <1>2, <2>2, LineHas
  <2> QED BY <2>1, <2>2
<1> QED BY <1>1, <1>2

(* A line that has come in is the same whatever comes behind it.           *)
LEMMA LinePrefix ==
  ASSUME NEW r, StateOK(r), NEW T, NEW s \in Seq(T), NEW w \in Seq(T),
         Len(s) <= Len(w), \A i \in 1..Len(s) : s[i] = w[i], LineLength(r, s) # 0
  PROVE  LineLength(r, w) = LineLength(r, s)
<1>1. CASE r.bulkLen # 0
  <2>1. r.bulkLen \in Nat /\ Len(s) \in Nat /\ Len(w) \in Nat
    BY DEF StateOK
  <2>2. ~(Len(s) < r.bulkLen + 2)
    BY <1>1 DEF LineLength
  <2> QED BY <1>1, <2>1, <2>2 DEF LineLength
<1>2. CASE r.bulkLen = 0
  <2> DEFINE m == LineLength(r, s)
  <2>1. m \in 1..Len(s) /\ s[m] = LF /\ \A i \in 1..(m - 1) : s[i] # LF
    BY <1>2, LineHas
  <2> HIDE DEF m
  <2>2. m \in 1..Len(w) /\ w[m] = LF /\ \A i \in 1..(m - 1) : w[i] # LF
    BY <2>1
  <2>3. LineLength(r, w) = m
    BY <1>2, <2>2, LineFirst
  <2> QED BY <2>3 DEF m
<1> QED BY <1>1, <1>2

-----------------------------------------------------------------------------
(* What a client still has to send and has withheld is within what it was  *)
(* to send; it withholds nothing before it ends.                           *)
InputOK ==
  /\ load \in Loads /\ in \in [Conn -> Seq(STRING)] /\ cut \in [Conn -> Nat]
  /\ client \in [Conn -> {"absent", "open", "deaf", "ended", "reset"}]
  /\ \A c \in Conn : Len(in[c]) + cut[c] <= Len(Bytes(load[c]))
  /\ \A c \in Conn : client[c] \in {"absent", "open", "deaf"} => cut[c] = 0

PayloadsOK ==
  /\ DOMAIN rs = Conn /\ DOMAIN payload = Conn /\ DOMAIN cur = Conn
  /\ \A c \in Conn : StateOK(rs[c]) /\ payload[c].kind \in Kinds /\ cur[c].kind \in Kinds

CloserOK ==
  /\ closing \in BOOLEAN /\ waiter \in [Conn -> {"none", "asleep", "woken"}]
  /\ spc \in {"idle", "shut", "range", "wait", "asleep", "quiet", "impatient", "done"}
  /\ at \in Conn \cup {NoConn} /\ seen \subseteq Conn
  /\ listener \in {"open", "closed"} /\ accepting \in BOOLEAN
  /\ process \in {"running", "ended", "crashed"}

LEMMA BytesOK == \A l \in Loads, c \in Conn : Bytes(l[c]) \in Seq(STRING)
<1> SUFFICES ASSUME NEW l \in Loads, NEW c \in Conn PROVE Bytes(l[c]) \in Seq(STRING)
  OBVIOUS
<1> DEFINE n == Len(l[c])
           parts == [i \in DOMAIN l[c] |-> l[c][i].bytes]
<1>1. n \in Nat /\ DOMAIN l[c] = 1..n /\ \A i \in 1..n : l[c][i].bytes \in Seq(STRING)
  <2>1. l[c] \in Seq(ToSet(l[c])) /\ \A i \in DOMAIN l[c] : l[c][i].bytes \in Seq(STRING)
    BY ServerAssumption
  <2>2. n \in Nat /\ DOMAIN l[c] = 1..n
    BY <2>1
  <2> QED BY <2>1, <2>2
<1>2. parts \in [1..n -> Seq(STRING)]
  BY <1>1
<1>3. parts \in Seq(Seq(STRING))
  <2> HIDE DEF parts, n
  <2> QED BY <1>1, <1>2
<1> QED BY <1>3, FlattenIs DEF Bytes

LEMMA InitTyped == Init => InputOK /\ PayloadsOK /\ CloserOK
<1> SUFFICES ASSUME Init PROVE InputOK /\ PayloadsOK /\ CloserOK
  OBVIOUS
<1>1. InputOK
  <2>1. \A c \in Conn : Bytes(load[c]) \in Seq(STRING)
    BY BytesOK DEF Init
  <2>2. load \in Loads /\ in = [c \in Conn |-> Bytes(load[c])] /\ cut = [c \in Conn |-> 0]
        /\ client = [c \in Conn |-> "absent"]
    BY DEF Init
  <2>3. \A c \in Conn : Len(in[c]) + cut[c] <= Len(Bytes(load[c]))
    BY <2>1, <2>2
  <2>4. in \in [Conn -> Seq(STRING)]
    BY <2>1, <2>2
  <2> QED BY <2>2, <2>3, <2>4 DEF InputOK
<1>2. PayloadsOK
  BY DEF Init, PayloadsOK, StateOK, FreshState, Nothing, Payload, Kinds
<1>3. CloserOK
  BY DEF Init, CloserOK
<1> QED BY <1>1, <1>2, <1>3

(* What a client is to send is settled at the start.                       *)
LEMMA LoadStays ==
  ASSUME [Next]_vars
  PROVE  load' = load
BY DEF Next, vars, Client, ParseStream, Handle, Woken, Serve, Close, Running

LEMMA InputStep ==
  ASSUME InputOK, PayloadsOK, [Next]_vars
  PROVE  InputOK'
<1> USE DEF input, reader, handle, writing, closer, main
<1>l. load' = load
  BY LoadStays
<1>b. \A c \in Conn : Len(Bytes(load[c])) \in Nat
  BY BytesOK DEF InputOK
<1>1. ASSUME UNCHANGED input PROVE InputOK'
  BY <1>1, <1>l DEF InputOK
<1>2. CASE UNCHANGED vars
  BY <1>1, <1>2 DEF vars
<1>3. ASSUME NEW c \in Conn, ClientEnds(c)
      PROVE InputOK'
  <2>1. PICK n \in 0..Len(in[c]) :
          in' = [in EXCEPT ![c] = SubSeq(in[c], 1, Len(in[c]) - n)] /\ cut' = [cut EXCEPT ![c] = n]
    BY <1>3 DEF ClientEnds
  <2>2. client' = [client EXCEPT ![c] = "ended"] /\ cut[c] = 0
    BY <1>3 DEF ClientEnds, InputOK
  <2>3. in[c] \in Seq(STRING) /\ Len(in[c]) \in Nat
    BY DEF InputOK
  <2>4. /\ SubSeq(in[c], 1, Len(in[c]) - n) \in Seq(STRING)
        /\ Len(SubSeq(in[c], 1, Len(in[c]) - n)) = Len(in[c]) - n
    BY <2>3, SubSeqProperties
  <2> DEFINE rest == SubSeq(in[c], 1, Len(in[c]) - n)
  <2>5. rest \in Seq(STRING) /\ Len(rest) = Len(in[c]) - n /\ in' = [in EXCEPT ![c] = rest]
    BY <2>1, <2>4
  <2> HIDE DEF rest
  <2>6. Len(rest) + n <= Len(Bytes(load[c]))
    BY <2>2, <2>3, <2>5 DEF InputOK
  <2>7. in' \in [Conn -> Seq(STRING)] /\ cut' \in [Conn -> Nat]
        /\ client' \in [Conn -> {"absent", "open", "deaf", "ended", "reset"}]
    BY <2>1, <2>2, <2>5 DEF InputOK
  <2>8. \A d \in Conn : Len(in'[d]) + cut'[d] <= Len(Bytes(load[d]))
    BY <2>1, <2>5, <2>6 DEF InputOK
  <2>9. \A d \in Conn : client'[d] \in {"absent", "open", "deaf"} => cut'[d] = 0
    BY <2>1, <2>2 DEF InputOK
  <2> QED BY <1>l, <2>7, <2>8, <2>9 DEF InputOK
<1>4. ASSUME NEW c \in Conn, ClientResets(c) \/ ClientStalls(c) \/ Accept(c)
      PROVE InputOK'
  <2>1. UNCHANGED <<in, cut>> /\ client[c] \in {"absent", "open", "deaf"}
        /\ \E x \in {"reset", "deaf", "open"} : client' = [client EXCEPT ![c] = x]
    BY <1>4 DEF ClientResets, ClientStalls, Accept
  <2> QED BY <1>l, <2>1 DEF InputOK
<1>5. ASSUME NEW c \in Conn, ParseLine(c)
      PROVE InputOK'
  <2> DEFINE n == LineLength(rs[c], in[c])
             rest == SubSeq(in[c], n + 1, Len(in[c]))
  <2>1. in' = [in EXCEPT ![c] = rest] /\ UNCHANGED <<client, cut>>
    BY <1>5 DEF ParseLine
  <2>2. in[c] \in Seq(STRING) /\ StateOK(rs[c])
    BY DEF InputOK, PayloadsOK
  <2>3. n \in 0..Len(in[c])
    BY <2>2, LineLengthOK
  <2> HIDE DEF n
  <2>4. rest \in Seq(STRING) /\ Len(rest) <= Len(in[c]) /\ Len(rest) \in Nat
    BY <2>2, <2>3, SubSeqProperties
  <2> HIDE DEF rest
  <2>5. \A d \in Conn : Len(in'[d]) + cut'[d] <= Len(Bytes(load[d]))
    BY <1>b, <2>1, <2>2, <2>4 DEF InputOK
  <2> QED BY <1>l, <2>1, <2>4, <2>5 DEF InputOK
<1>6. ASSUME NEW c \in Conn, ReadFails(c)
      PROVE InputOK'
  <2>1. in' = [in EXCEPT ![c] = <<>>] /\ UNCHANGED <<client, cut>>
    BY <1>6 DEF ReadFails
  <2>2. <<>> \in Seq(STRING) /\ Len(<<>>) = 0
    OBVIOUS
  <2>3. \A d \in Conn : Len(in'[d]) + cut'[d] <= Len(Bytes(load[d]))
    BY <1>b, <2>1, <2>2 DEF InputOK
  <2> QED BY <1>l, <2>1, <2>2, <2>3 DEF InputOK
<1>7. ASSUME NEW c \in Conn, \/ Check(c) \/ Store(c) \/ Receive(c) \/ BeginWrite(c) \/ WriteOk(c)
                             \/ WriteFails(c) \/ CloseClient(c) \/ Wakes(c) \/ Visit(c)
      PROVE InputOK'
  <2>1. UNCHANGED input
    BY <1>7 DEF Check, Store, Receive, BeginWrite, WriteOk, WriteFails, WriteEnds, CloseClient, Wakes, Visit
  <2> QED BY <1>1, <2>1
<1>8. CASE AcceptFails \/ ServeEnds \/ Signal \/ CloseHandler \/ RangeEnds \/ Wait \/ TimeOut \/ CloseConn
  <2>1. UNCHANGED input
    BY <1>8 DEF AcceptFails, ServeEnds, Signal, CloseHandler, RangeEnds, Wait, TimeOut, CloseConn
  <2> QED BY <1>1, <2>1
<1> QED BY <1>2, <1>3, <1>4, <1>5, <1>6, <1>7, <1>8, Steps

LEMMA PayloadsStep ==
  ASSUME InputOK, PayloadsOK, [Next]_vars
  PROVE  PayloadsOK'
<1> USE DEF input, reader, handle, writing, closer, main
<1>1. ASSUME UNCHANGED <<rs, payload, cur>> PROVE PayloadsOK'
  BY <1>1 DEF PayloadsOK
<1>n. Nothing.kind \in Kinds /\ StateOK(FreshState)
  BY DEF Nothing, Payload, Kinds, StateOK, FreshState
<1>2. CASE UNCHANGED vars
  BY <1>1, <1>2 DEF vars
<1>3. ASSUME NEW c \in Conn, ParseLine(c)
      PROVE PayloadsOK'
  <2> DEFINE msg == SubSeq(in[c], 1, LineLength(rs[c], in[c]))
             turn == Parse0(rs[c], msg)
             x == IF turn.sent = Panic THEN Nothing ELSE turn.sent
  <2>1. rs' = [rs EXCEPT ![c] = turn.rs] /\ payload' = [payload EXCEPT ![c] = x] /\ UNCHANGED cur
    BY <1>3 DEF ParseLine
  <2>2. in[c] \in Seq(STRING) /\ StateOK(rs[c])
    BY DEF InputOK, PayloadsOK
  <2>3. LineLength(rs[c], in[c]) \in 0..Len(in[c])
    BY <2>2, LineLengthOK
  <2>4. msg \in Seq(STRING)
    BY <2>2, <2>3, SubSeqProperties
  <2>5. TurnOK(turn)
    BY <2>2, <2>4, Parse0OK
  <2> HIDE DEF turn
  <2>6. StateOK(turn.rs) /\ x.kind \in Kinds
    BY <1>n, <2>5 DEF TurnOK
  <2> HIDE DEF x
  <2> QED BY <2>1, <2>6 DEF PayloadsOK
<1>4. ASSUME NEW c \in Conn, ReadFails(c)
      PROVE PayloadsOK'
  <2>1. PICK err \in IoErrors : payload' = [payload EXCEPT ![c] = Payload(err, <<>>)]
    BY <1>4 DEF ReadFails
  <2>2. rs' = [rs EXCEPT ![c] = FreshState] /\ UNCHANGED cur
    BY <1>4 DEF ReadFails
  <2>3. Payload(err, <<>>).kind \in Kinds
    BY DEF Payload, Kinds
  <2> QED BY <1>n, <2>1, <2>2, <2>3 DEF PayloadsOK
<1>5. ASSUME NEW c \in Conn, Receive(c)
      PROVE PayloadsOK'
  <2>1. /\ \E x \in {payload[c], Nothing} : cur' = [cur EXCEPT ![c] = x]
        /\ payload' = [payload EXCEPT ![c] = Nothing] /\ UNCHANGED rs
    BY <1>5 DEF Receive
  <2> QED BY <1>n, <2>1 DEF PayloadsOK
<1>6. ASSUME NEW c \in Conn, WriteOk(c) \/ WriteFails(c)
      PROVE PayloadsOK'
  <2>1. cur' = [cur EXCEPT ![c] = Nothing] /\ UNCHANGED <<rs, payload>>
    BY <1>6 DEF WriteOk, WriteFails, WriteEnds
  <2> QED BY <1>n, <2>1 DEF PayloadsOK
<1>7. ASSUME NEW c \in Conn, \/ ClientEnds(c) \/ ClientResets(c) \/ ClientStalls(c) \/ Accept(c)
                             \/ Check(c) \/ Store(c) \/ BeginWrite(c) \/ CloseClient(c) \/ Wakes(c) \/ Visit(c)
      PROVE PayloadsOK'
  <2>1. UNCHANGED <<rs, payload, cur>>
    BY <1>7 DEF ClientEnds, ClientResets, ClientStalls, Accept, Check, Store, BeginWrite, CloseClient, Wakes, Visit
  <2> QED BY <1>1, <2>1
<1>8. CASE AcceptFails \/ ServeEnds \/ Signal \/ CloseHandler \/ RangeEnds \/ Wait \/ TimeOut \/ CloseConn
  <2>1. UNCHANGED <<rs, payload, cur>>
    BY <1>8 DEF AcceptFails, ServeEnds, Signal, CloseHandler, RangeEnds, Wait, TimeOut, CloseConn
  <2> QED BY <1>1, <2>1
<1> QED BY <1>2, <1>3, <1>4, <1>5, <1>6, <1>7, <1>8, Steps

LEMMA CloserStep ==
  ASSUME IInv, CloserOK, [Next]_vars
  PROVE  CloserOK'
<1> USE DEF input, reader, handle, writing, closer, main
<1>1. ASSUME UNCHANGED <<closer, main, waiter, process>> PROVE CloserOK'
  BY <1>1 DEF CloserOK
<1>2. CASE UNCHANGED vars
  BY <1>1, <1>2 DEF vars
<1>3. ASSUME NEW c \in Conn, \/ ClientEnds(c) \/ ClientResets(c) \/ ClientStalls(c) \/ ParseLine(c)
                             \/ ReadFails(c) \/ Accept(c) \/ Check(c) \/ Store(c) \/ Receive(c)
                             \/ BeginWrite(c) \/ CloseClient(c)
      PROVE CloserOK'
  <2>1. UNCHANGED <<closer, main, waiter, process>>
    BY <1>3 DEF ClientEnds, ClientResets, ClientStalls, ParseLine, ReadFails, Accept, Check, Store,
                Receive, BeginWrite, CloseClient
  <2> QED BY <1>1, <2>1
<1>4. ASSUME NEW c \in Conn, WriteOk(c) \/ WriteFails(c)
      PROVE CloserOK'
  BY <1>4 DEF WriteOk, WriteFails, WriteEnds, CloserOK
<1>5. ASSUME NEW c \in Conn, Wakes(c)
      PROVE CloserOK'
  BY <1>5 DEF Wakes, CloserOK
<1>6. ASSUME NEW c \in Conn, Visit(c)
      PROVE CloserOK'
  BY <1>6 DEF Visit, CloserOK
<1>7. CASE AcceptFails \/ ServeEnds \/ Signal \/ CloseHandler \/ RangeEnds
  BY <1>7 DEF AcceptFails, ServeEnds, Signal, CloseHandler, RangeEnds, CloserOK
<1>8. CASE Wait \/ TimeOut \/ CloseConn
  BY <1>8 DEF Wait, TimeOut, CloseConn, CloserOK, IInv, Typed, Visiting
<1> QED BY <1>2, <1>3, <1>4, <1>5, <1>6, <1>7, <1>8, Steps

(* Every variable keeps its type, the counter of a connection is 0 or 1;   *)
(* what the parser sends is one of the payloads that Handle tells apart;   *)
(* and no byte is parsed that was not sent (Handle, parse0, Connection).   *)
THEOREM ServerTyping == Spec => []TypeOK
<1>1. Init => InputOK /\ PayloadsOK /\ CloserOK
  BY InitTyped
<1>2. IInv /\ InputOK /\ PayloadsOK /\ CloserOK /\ [Next]_vars => InputOK' /\ PayloadsOK' /\ CloserOK'
  BY InputStep, PayloadsStep, CloserStep
<1>3. IInv /\ InputOK /\ PayloadsOK /\ CloserOK => TypeOK
  <2> SUFFICES ASSUME IInv, InputOK, PayloadsOK, CloserOK PROVE TypeOK
    OBVIOUS
  <2>1. waitingReply \in [Conn -> 0..1]
    <3>1. \A c \in Conn : waitingReply[c] \in 0..1
      BY DEF IInv, Counted
    <3> QED BY <3>1 DEF IInv, Typed
  <2> QED BY <2>1 DEF TypeOK, IInv, Typed, InputOK, PayloadsOK, CloserOK
<1> QED BY <1>1, <1>2, <1>3, InvHolds, PTL DEF Spec

-----------------------------------------------------------------------------
(* Sequences laid one behind the other: where each ends, and what is there.*)
Joined(T, a, b, c) ==
  /\ Len(c) = Len(a) + Len(b) /\ Len(a) \in Nat /\ Len(b) \in Nat /\ c \in Seq(T)
  /\ \A i \in 1..Len(a) : c[i] = a[i]
  /\ \A i \in 1..Len(b) : c[Len(a) + i] = b[i]
LEMMA Concat ==
  ASSUME NEW T, NEW a \in Seq(T), NEW b \in Seq(T)
  PROVE  Joined(T, a, b, a \o b)
BY DEF Joined

LEMMA FlattenFront ==
  ASSUME NEW T, NEW seqs \in Seq(Seq(T)), NEW n \in 1..Len(seqs)
  PROVE  FlattenSeq(SubSeq(seqs, 1, n)) = FlattenSeq(SubSeq(seqs, 1, n - 1)) \o seqs[n]
<1> DEFINE p == SubSeq(seqs, 1, n)
           q == SubSeq(seqs, 1, n - 1)
<1>0. n \in Nat /\ n - 1 \in Nat /\ \A i \in 1..Len(seqs) : seqs[i] \in Seq(T)
  OBVIOUS
<1>1. p \in Seq(Seq(T)) /\ Len(p) = n /\ \A i \in 1..n : p[i] = seqs[i]
  BY <1>0, SubSeqProperties
<1>2. q \in Seq(Seq(T)) /\ Len(q) = n - 1 /\ \A i \in 1..(n - 1) : q[i] = seqs[i]
  BY <1>0, SubSeqProperties
<1> DEFINE N == Len(seqs)
<1> HIDE DEF p, q
<1>3. PICK g : Lays(g, p, T)
  BY <1>0, <1>1, FlattenSteps
<1>4. CASE n = 1
  <2>1. FlattenSeq(p) = seqs[1]
    BY <1>0, <1>1, <1>3, <1>4 DEF Lays
  <2>2. FlattenSeq(q) = <<>>
    BY <1>2, <1>4 DEF FlattenSeq
  <2>3. <<>> \o seqs[1] = seqs[1]
    BY <1>0, <1>4
  <2> QED BY <1>4, <2>1, <2>2, <2>3 DEF p, q
<1>5. CASE n # 1
  <2>1. PICK f : Lays(f, q, T)
    BY <1>0, <1>2, <1>5, FlattenSteps
  <2> DEFINE G == {i \in 1..(n - 1) : g[i] = f[i]}
  <2>2. 1 \in G
    <3>1. 1 \in 1..n /\ 1 \in 1..(n - 1)
      BY <1>0, <1>5
    <3>2. g[1] = p[1] /\ f[1] = q[1]
      BY <1>1, <1>2, <1>3, <2>1, <3>1 DEF Lays
    <3>3. p[1] = seqs[1] /\ q[1] = seqs[1]
      BY <1>1, <1>2, <3>1
    <3> QED BY <3>1, <3>2, <3>3
  <2>3. ASSUME NEW i \in 1..((n - 1) - 1), i \in G
        PROVE i + 1 \in G
    <3>1. i + 1 \in 1..(n - 1) /\ i + 1 \in 1..n /\ i + 1 # 1 /\ (i + 1) - 1 = i
      BY <1>0
    <3>2. g[i + 1] = g[i] \o p[i + 1] /\ f[i + 1] = f[i] \o q[i + 1]
      BY <1>1, <1>2, <1>3, <2>1, <3>1 DEF Lays
    <3> QED BY <1>1, <1>2, <2>3, <3>1, <3>2
  <2> HIDE DEF G
  <2>4. \A i \in 1..(n - 1) : i \in G
    <3>1. 1 \in Int /\ n - 1 \in Int
      BY <1>0
    <3> QED BY <2>2, <2>3, <3>1, UpTo
  <2>5. g[n - 1] = f[n - 1]
    BY <1>0, <1>5, <2>4 DEF G
  <2>6. FlattenSeq(p) = g[n] /\ FlattenSeq(q) = f[n - 1]
    BY <1>1, <1>2, <1>3, <2>1 DEF Lays
  <2>7. g[n] = g[n - 1] \o p[n] /\ p[n] = seqs[n]
    <3>1. n \in 1..n
      BY <1>0
    <3> QED BY <1>1, <1>3, <1>5, <3>1 DEF Lays
  <2>8. FlattenSeq(p) = FlattenSeq(q) \o seqs[n]
    BY <2>5, <2>6, <2>7
  <2> QED BY <2>8 DEF p, q
<1> QED BY <1>4, <1>5

Offset(seqs, n) == Len(FlattenSeq(SubSeq(seqs, 1, n)))
LaidOut(whole, seqs) ==
  /\ Offset(seqs, 0) = 0 /\ Offset(seqs, Len(seqs)) = Len(whole)
  /\ \A n \in 0..Len(seqs) : Offset(seqs, n) \in Nat
  /\ \A n, m \in 0..Len(seqs) : n <= m => Offset(seqs, n) <= Offset(seqs, m)
  /\ \A n \in 1..Len(seqs) :
       /\ Offset(seqs, n) = Offset(seqs, n - 1) + Len(seqs[n])
       /\ \A i \in 1..Len(seqs[n]) : whole[Offset(seqs, n - 1) + i] = seqs[n][i]

LEMMA Stretches ==
  ASSUME NEW T, NEW seqs \in Seq(Seq(T))
  PROVE  LaidOut(FlattenSeq(seqs), seqs)
<1> DEFINE N == Len(seqs)
           F(n) == FlattenSeq(SubSeq(seqs, 1, n))
           whole == FlattenSeq(seqs)
<1>0. N \in Nat /\ 0 \in 0..N /\ N \in 0..N /\ \A i \in 1..N : seqs[i] \in Seq(T)
  OBVIOUS
<1>1. \A n : Offset(seqs, n) = Len(F(n))
  BY DEF Offset
<1>2. ASSUME NEW n \in 0..N
      PROVE F(n) \in Seq(T)
  <2>1. n \in Nat /\ \A i \in 1..n : seqs[i] \in Seq(T)
    BY <1>0
  <2>2. SubSeq(seqs, 1, n) \in Seq(Seq(T))
    BY <1>0, <2>1, SubSeqProperties
  <2> QED BY <2>2, FlattenIs
<1>3. ASSUME NEW n \in 1..N
      PROVE F(n) = F(n - 1) \o seqs[n]
  BY FlattenFront
<1>4. F(N) = whole
  <2>1. SubSeq(seqs, 1, N) = seqs
    OBVIOUS
  <2> QED BY <2>1
<1>5. Len(F(0)) = 0
  <2>1. SubSeq(seqs, 1, 0) = <<>>
    OBVIOUS
  <2>2. FlattenSeq(<<>>) = <<>> /\ Len(<<>>) = 0
    BY DEF FlattenSeq
  <2> QED BY <2>1, <2>2
<1> HIDE DEF F, N, whole
<1>6. ASSUME NEW n \in 1..N
      PROVE /\ Len(F(n)) = Len(F(n - 1)) + Len(seqs[n]) /\ Len(F(n - 1)) \in Nat /\ Len(seqs[n]) \in Nat
            /\ \A i \in 1..Len(F(n - 1)) : F(n)[i] = F(n - 1)[i]
            /\ \A i \in 1..Len(seqs[n]) : F(n)[Len(F(n - 1)) + i] = seqs[n][i]
  <2>1. n - 1 \in 0..N
    BY <1>0
  <2>2. F(n - 1) \in Seq(T) /\ seqs[n] \in Seq(T) /\ F(n) = F(n - 1) \o seqs[n]
    BY <1>0, <1>2, <1>3, <2>1
  <2> DEFINE a == F(n - 1)
             b == seqs[n]
             c == F(n)
  <2>3. a \in Seq(T) /\ b \in Seq(T) /\ c = a \o b
    BY <2>2
  <2> HIDE DEF a, b, c
  <2>5. Joined(T, a, b, c)
    BY <2>3, Concat
  <2>4. /\ Len(c) = Len(a) + Len(b) /\ Len(a) \in Nat /\ Len(b) \in Nat
        /\ \A i \in 1..Len(a) : c[i] = a[i]
        /\ \A i \in 1..Len(b) : c[Len(a) + i] = b[i]
    BY <2>5 DEF Joined
  <2> QED BY <2>4 DEF a, b, c
<1>7. ASSUME NEW n \in 0..N, NEW m \in 0..N, n <= m
      PROVE Len(F(n)) <= Len(F(m)) /\ \A i \in 1..Len(F(n)) : F(m)[i] = F(n)[i]
  <2> DEFINE Holds(k) == Len(F(n)) <= Len(F(k)) /\ \A i \in 1..Len(F(n)) : F(k)[i] = F(n)[i]
             G == {k \in n..N : Holds(k)}
  <2>0. Len(F(n)) \in Nat /\ n \in Int /\ N \in Int /\ n \in n..N /\ m \in n..N
    BY <1>0, <1>2, <1>7
  <2>1. Holds(n)
    BY <2>0
  <2>2. ASSUME NEW k \in n..(N - 1), Holds(k)
        PROVE k + 1 \in n..N /\ Holds(k + 1)
    <3>1. k + 1 \in 1..N /\ (k + 1) - 1 = k /\ k + 1 \in n..N
      BY <1>0, <2>0
    <3>2. Len(F(k + 1)) = Len(F(k)) + Len(seqs[k + 1]) /\ Len(F(k)) \in Nat /\ Len(seqs[k + 1]) \in Nat
          /\ \A i \in 1..Len(F(k)) : F(k + 1)[i] = F(k)[i]
      <4> DEFINE j == k + 1
      <4>1. j \in 1..N /\ j - 1 = k
        BY <3>1
      <4> HIDE DEF j
      <4>2. Len(F(j)) = Len(F(k)) + Len(seqs[j]) /\ Len(F(k)) \in Nat /\ Len(seqs[j]) \in Nat
            /\ \A i \in 1..Len(F(k)) : F(j)[i] = F(k)[i]
        BY <1>6, <4>1
      <4> QED BY <4>2 DEF j
    <3>3. Len(F(n)) <= Len(F(k)) /\ \A i \in 1..Len(F(n)) : F(k)[i] = F(n)[i]
      BY <2>2
    <3>4. Len(F(n)) <= Len(F(k + 1))
      BY <2>0, <3>2, <3>3
    <3>5. ASSUME NEW i \in 1..Len(F(n))
          PROVE F(k + 1)[i] = F(n)[i]
      <4>1. i \in 1..Len(F(k))
        BY <2>0, <3>2, <3>3
      <4> QED BY <3>2, <3>3, <4>1
    <3> QED BY <3>1, <3>4, <3>5
  <2> HIDE DEF Holds
  <2>3. n \in G /\ \A k \in n..(N - 1) : k \in G => k + 1 \in G
    BY <2>0, <2>1, <2>2
  <2> HIDE DEF G
  <2>4. \A k \in n..N : k \in G
    BY <2>0, <2>3, UpTo
  <2>5. Holds(m)
    BY <2>0, <2>4 DEF G
  <2> QED BY <2>5 DEF Holds
<1>8. ASSUME NEW n \in 1..N, NEW i \in 1..Len(seqs[n])
      PROVE whole[Len(F(n - 1)) + i] = seqs[n][i]
  <2>1. /\ Len(F(n)) = Len(F(n - 1)) + Len(seqs[n]) /\ Len(F(n - 1)) \in Nat /\ Len(seqs[n]) \in Nat
        /\ F(n)[Len(F(n - 1)) + i] = seqs[n][i]
    BY <1>6
  <2>2. Len(F(n - 1)) + i \in 1..Len(F(n))
    BY <2>1
  <2>3. n \in 0..N /\ N \in 0..N /\ n <= N
    BY <1>0
  <2>4. \A j \in 1..Len(F(n)) : F(N)[j] = F(n)[j]
    BY <1>7, <2>3
  <2> QED BY <1>4, <2>1, <2>2, <2>4
<1> DEFINE O(n) == Offset(seqs, n)
<1>9. O(0) = 0 /\ O(N) = Len(whole)
  BY <1>1, <1>4, <1>5
<1>10. \A n \in 0..N : O(n) \in Nat
  BY <1>1, <1>2
<1>11. \A n, m \in 0..N : n <= m => O(n) <= O(m)
  BY <1>1, <1>7
<1>12. ASSUME NEW n \in 1..N
       PROVE O(n) = O(n - 1) + Len(seqs[n]) /\ \A i \in 1..Len(seqs[n]) : whole[O(n - 1) + i] = seqs[n][i]
  <2>1. O(n) = Len(F(n)) /\ O(n - 1) = Len(F(n - 1))
    BY <1>1
  <2>2. Len(F(n)) = Len(F(n - 1)) + Len(seqs[n]) /\ \A i \in 1..Len(seqs[n]) : whole[Len(F(n - 1)) + i] = seqs[n][i]
    BY <1>6, <1>8
  <2> HIDE DEF O
  <2> QED BY <2>1, <2>2
<1> QED BY <1>9, <1>10, <1>11, <1>12 DEF LaidOut, N, whole

-----------------------------------------------------------------------------
(* What the parser reads: P holds the places, with the readState there,    *)
(* where its lines begin in the bytes of one request.  From each a line is *)
(* there that leads to another, or is the last and sends what is meant.    *)
Goes(P, t, r, bytes, means) ==
  LET n == LineLength(r, SubSeq(bytes, t + 1, Len(bytes)))
      turn == Parse0(r, SubSeq(bytes, t + 1, t + n))
  IN  /\ t \in Nat /\ StateOK(r) /\ n > 0
      /\ \/ turn.sent = Nothing /\ <<t + n, turn.rs>> \in P
         \/ turn.sent = means /\ t + n = Len(bytes)
Reading(P, bytes, means) ==
  <<0, FreshState>> \in P /\ \A p \in P : Goes(P, p[1], p[2], bytes, means)
IsRead(bytes, means) == \E P : Reading(P, bytes, means)

(* The strings, with those that the parser looks for by name.              *)
Byte == STRING \cup {CR, LF, "$", "*"} \cup ToSet(Digits)
LEMMA BytesAre ==
  /\ STRING \subseteq Byte /\ CR \in Byte /\ LF \in Byte /\ "$" \in Byte /\ "*" \in Byte
  /\ \A i \in DOMAIN Digits : Digits[i] \in Byte
BY DEF Byte, ToSet

LEMMA StringsAre ==
  /\ \A s \in Seq(STRING) : s \in Seq(Byte)
  /\ \A s \in Seq(Seq(STRING)) : s \in Seq(Seq(Byte))
<1>1. ASSUME NEW A, NEW B, A \subseteq B, NEW s \in Seq(A)
      PROVE s \in Seq(B)
  <2>1. s = [i \in 1..Len(s) |-> s[i]] /\ Len(s) \in Nat /\ \A i \in 1..Len(s) : s[i] \in B
    BY <1>1
  <2>2. s \in [1..Len(s) -> B]
    BY <2>1
  <2> QED BY <2>1, <2>2
<1>2. Seq(STRING) \subseteq Seq(Byte)
  BY <1>1, BytesAre
<1>3. Seq(Seq(STRING)) \subseteq Seq(Seq(Byte))
  BY <1>1, <1>2
<1> QED BY <1>2, <1>3

LEMMA Window ==
  ASSUME NEW b \in Seq(Byte), NEW t \in Nat, NEW u \in Nat, t <= u, u <= Len(b)
  PROVE  /\ SubSeq(b, t + 1, u) \in Seq(Byte) /\ Len(SubSeq(b, t + 1, u)) = u - t
         /\ \A i \in 1..(u - t) : SubSeq(b, t + 1, u)[i] = b[t + i]
<1>1. \A i \in (t + 1)..u : b[i] \in Byte
  OBVIOUS
<1>2. /\ SubSeq(b, t + 1, u) \in Seq(Byte)
      /\ Len(SubSeq(b, t + 1, u)) = IF t + 1 <= u THEN u - (t + 1) + 1 ELSE 0
      /\ \A i \in 1..(u - (t + 1) + 1) : SubSeq(b, t + 1, u)[i] = b[(t + 1) + i - 1]
  BY <1>1, SubSeqProperties
<1> QED BY <1>2

LEMMA GoesOn ==
  ASSUME NEW P, NEW t \in Nat, NEW r, StateOK(r), NEW bytes, NEW means, NEW n, n > 0,
         LineLength(r, SubSeq(bytes, t + 1, Len(bytes))) = n,
         NEW q, Parse0(r, SubSeq(bytes, t + 1, t + n)) = Turn(q, Nothing), <<t + n, q>> \in P
  PROVE  Goes(P, t, r, bytes, means)
<1> DEFINE turn == Parse0(r, SubSeq(bytes, t + 1, t + n))
<1>1. turn.sent = Nothing /\ turn.rs = q
  BY DEF Turn
<1> HIDE DEF turn
<1>2. turn.sent = Nothing /\ <<t + n, turn.rs>> \in P
  BY <1>1
<1> QED BY <1>2 DEF Goes, turn

LEMMA GoesLast ==
  ASSUME NEW P, NEW t \in Nat, NEW r, StateOK(r), NEW bytes, NEW means, NEW n, n > 0,
         LineLength(r, SubSeq(bytes, t + 1, Len(bytes))) = n,
         Parse0(r, SubSeq(bytes, t + 1, t + n)).sent = means, t + n = Len(bytes)
  PROVE  Goes(P, t, r, bytes, means)
BY DEF Goes

LEMMA FreshOK == StateOK(FreshState) /\ FreshState.bulkLen = 0
BY DEF StateOK, FreshState

LEMMA ReadInOneTurn ==
  ASSUME NEW bytes \in Seq(Byte), NEW means, LastLine(FreshState, bytes, means)
  PROVE  IsRead(bytes, means)
<1> DEFINE P == {<<0, FreshState>>}
           N == Len(bytes)
<1>1. bytes # <<>> /\ LineLength(FreshState, bytes) = N /\ Parse0(FreshState, bytes).sent = means
  BY DEF LastLine
<1>2. N \in Nat /\ N > 0 /\ SubSeq(bytes, 1, N) = bytes
  BY <1>1
<1> HIDE DEF N
<1>3. SubSeq(bytes, 0 + 1, N) = bytes /\ SubSeq(bytes, 0 + 1, 0 + N) = bytes /\ 0 + N = N
  BY <1>2
<1>4. Goes(P, 0, FreshState, bytes, means)
  <2> HIDE DEF P
  <2> QED BY <1>1, <1>2, <1>3, FreshOK DEF Goes, N
<1>5. \A p \in P : p[1] = 0 /\ p[2] = FreshState
  OBVIOUS
<1>6. <<0, FreshState>> \in P
  OBVIOUS
<1> HIDE DEF P
<1>7. Reading(P, bytes, means)
  BY <1>4, <1>5, <1>6 DEF Reading
<1> QED BY <1>7 DEF IsRead

LEMMA ReadInTwoTurns ==
  ASSUME NEW bytes \in Seq(Byte), NEW means, HeaderAndLine(bytes, means)
  PROVE  IsRead(bytes, means)
<1> DEFINE n == LineLength(FreshState, bytes)
           turn == Parse0(FreshState, SubSeq(bytes, 1, n))
           N == Len(bytes)
           rest == SubSeq(bytes, n + 1, N)
           P == {<<0, FreshState>>, <<n, turn.rs>>}
<1>1. n > 0 /\ turn.sent = Nothing /\ rest # <<>> /\ LineLength(turn.rs, rest) = Len(rest)
      /\ Parse0(turn.rs, rest).sent = means
  BY DEF HeaderAndLine, LastLine
<1>2. n \in 0..N /\ N \in Nat /\ SubSeq(bytes, 1, N) = bytes
  BY FreshOK, LineLengthOK
<1>3. SubSeq(bytes, 1, n) \in Seq(Byte)
  BY <1>2, SubSeqProperties
<1>4. TurnOK(turn)
  BY <1>3, FreshOK, Parse0OK
<1>5. rest \in Seq(Byte) /\ Len(rest) = N - n
  <2> HIDE DEF n, N
  <2>1. n \in Nat /\ n <= N /\ N \in Nat /\ N <= Len(bytes)
    BY <1>2 DEF N
  <2>2. SubSeq(bytes, n + 1, N) \in Seq(Byte) /\ Len(SubSeq(bytes, n + 1, N)) = N - n
    BY <2>1, Window
  <2> QED BY <2>2
<1> HIDE DEF n, turn, rest, N
<1>6. Goes(P, 0, FreshState, bytes, means)
  <2>1. SubSeq(bytes, 0 + 1, N) = bytes /\ 0 + n = n /\ SubSeq(bytes, 0 + 1, 0 + n) = SubSeq(bytes, 1, n)
    BY <1>2
  <2>2. LineLength(FreshState, SubSeq(bytes, 0 + 1, Len(bytes))) = n
    BY <2>1 DEF n, N
  <2>3. Parse0(FreshState, SubSeq(bytes, 0 + 1, 0 + n)) = turn
    BY <2>1 DEF turn
  <2>4. <<0 + n, turn.rs>> \in P
    BY <2>1
  <2> HIDE DEF P
  <2> QED BY <1>1, <2>2, <2>3, <2>4, FreshOK DEF Goes
<1>7. Goes(P, n, turn.rs, bytes, means)
  <2>0. LineLength(turn.rs, rest) = N - n /\ rest = SubSeq(bytes, n + 1, N)
    BY <1>1, <1>5 DEF rest
  <2>1. LineLength(turn.rs, SubSeq(bytes, n + 1, Len(bytes))) = N - n /\ n + (N - n) = N /\ N = Len(bytes)
    <3>1. N = Len(bytes)
      BY DEF N
    <3>2. n + (N - n) = N
      BY <1>2
    <3> QED BY <2>0, <3>1, <3>2
  <2>2. N - n > 0
    BY <1>1, <1>2, <1>5
  <2>3. SubSeq(bytes, n + 1, n + (N - n)) = rest
    BY <2>1 DEF rest
  <2>4. n \in Nat /\ StateOK(turn.rs)
    BY <1>2, <1>4 DEF TurnOK
  <2> HIDE DEF P
  <2> QED BY <1>1, <2>1, <2>2, <2>3, <2>4 DEF Goes
<1>8. \A p \in P : (p[1] = 0 /\ p[2] = FreshState) \/ (p[1] = n /\ p[2] = turn.rs)
  OBVIOUS
<1>9. <<0, FreshState>> \in P
  OBVIOUS
<1> HIDE DEF P
<1>10. Reading(P, bytes, means)
  BY <1>6, <1>7, <1>8, <1>9 DEF Reading
<1> QED BY <1>10 DEF IsRead

-----------------------------------------------------------------------------
(* One digit.                                                              *)
LEMMA DigitsAre ==
  /\ DOMAIN Digits = 1..10
  /\ \A i \in 1..10 : Digits[i] \in Byte /\ Digits[i] \notin {CR, LF, "$", "*", "+", "-"}
  /\ \A i, j \in 1..10 : Digits[i] = Digits[j] => i = j
<1>1. DOMAIN Digits = 1..10
  BY DEF Digits
<1>2. /\ Digits[1] = "0" /\ Digits[2] = "1" /\ Digits[3] = "2" /\ Digits[4] = "3" /\ Digits[5] = "4"
      /\ Digits[6] = "5" /\ Digits[7] = "6" /\ Digits[8] = "7" /\ Digits[9] = "8" /\ Digits[10] = "9"
  BY DEF Digits
<1>3. \A i \in 1..10 : i \in {1, 2, 3, 4, 5, 6, 7, 8, 9, 10}
  OBVIOUS
<1>4. \A i \in 1..10 : Digits[i] \in Byte
  BY <1>1, BytesAre
<1> HIDE DEF Digits
<1>5. \A i \in 1..10 : Digits[i] \notin {CR, LF, "$", "*", "+", "-"}
  BY <1>2, <1>3 DEF CR, LF
<1>6. ASSUME NEW i \in 1..10, NEW j \in 1..10, Digits[i] = Digits[j]
      PROVE i = j
  BY <1>2, <1>3, <1>6
<1> QED BY <1>1, <1>4, <1>5, <1>6

LEMMA DigitIs ==
  ASSUME NEW n \in 0..9
  PROVE  /\ DigitOf(n) \in Byte /\ DigitOf(n) \notin {CR, LF, "$", "*", "+", "-"}
         /\ IsUint(<<DigitOf(n)>>) /\ UintOf(<<DigitOf(n)>>) = n
         /\ IsInt(<<DigitOf(n)>>) /\ IntOf(<<DigitOf(n)>>) = n
<1> DEFINE d == DigitOf(n)
           s == <<d>>
<1>1. n + 1 \in 1..10 /\ d = Digits[n + 1]
  BY DEF DigitOf
<1>2. d \in Byte /\ d \notin {CR, LF, "$", "*", "+", "-"}
  BY <1>1, DigitsAre
<1>3. ValueOf(d) = n
  <2> DEFINE place == CHOOSE i \in DOMAIN Digits : Digits[i] = d
  <2>1. place \in DOMAIN Digits /\ Digits[place] = d
    BY <1>1, DigitsAre
  <2>2. ValueOf(d) = place - 1
    BY DEF ValueOf
  <2> HIDE DEF place, d
  <2>3. place = n + 1
    BY <1>1, <2>1, DigitsAre
  <2> QED BY <1>1, <2>2, <2>3
<1>4. d \in ToSet(Digits)
  BY <1>1, DigitsAre DEF ToSet
<1> HIDE DEF d
<1>5. s \in Seq(Byte) /\ Len(s) = 1 /\ s[1] = d /\ s # <<>> /\ DOMAIN s = {1}
  BY <1>2
<1> HIDE DEF s
<1>6. IsUint(s)
  BY <1>4, <1>5 DEF IsUint
<1>7. PICK value : Counts(value, s)
  BY <1>5, <1>6, UintSteps
<1>8. UintOf(s) = n
  <2>1. value[0] = 0 /\ value[1] = 10 * value[1 - 1] + ValueOf(s[1]) /\ UintOf(s) = value[1]
    BY <1>5, <1>7 DEF Counts
  <2>2. 1 - 1 = 0 /\ 10 * 0 = 0
    OBVIOUS
  <2> QED BY <1>3, <1>5, <2>1, <2>2
<1>9. IsInt(s) /\ IntOf(s) = n
  BY <1>6, <1>8 DEF IsInt, IntOf
<1> QED BY <1>2, <1>6, <1>8, <1>9 DEF s, d

(* The readState in a command of the given arguments at the i-th of them,  *)
(* with its length announced or, while that is 0, not yet.                 *)
InCommand(args, i, len) ==
  [multi |-> TRUE, count |-> Len(args), type |-> "*", args |-> SubSeq(args, 1, i - 1), bulkLen |-> len]

(* A readState by its parts, and what an assignment to some makes of it.   *)
StateIs(r, m, c, t, a, b) == r = [multi |-> m, count |-> c, type |-> t, args |-> a, bulkLen |-> b]
LEMMA LengthSet ==
  ASSUME NEW m, NEW c, NEW t, NEW a, NEW b, NEW d, NEW r, NEW q, StateIs(r, m, c, t, a, b), StateIs(q, m, c, t, a, d)
  PROVE  [r EXCEPT !.bulkLen = d] = q
BY DEF StateIs

LEMMA ArgsSet ==
  ASSUME NEW m, NEW c, NEW t, NEW a, NEW b, NEW d, NEW r, NEW q, NEW x,
         StateIs(r, m, c, t, a, b), StateIs(q, m, c, t, Append(a, x), d), d = 0
  PROVE  Argument(r, x) = q
<1> DEFINE S == {"multi", "count", "type", "args", "bulkLen"}
           e == Append(a, x)
           p == [r EXCEPT !.args = Append(@, x), !.bulkLen = 0]
<1>0. p = Argument(r, x)
  BY DEF Argument
<1>1. DOMAIN q = S
  BY DEF StateIs
<1>2. DOMAIN r = S /\ DOMAIN p = S
  BY DEF StateIs
<1>3. q = [j \in S |-> q[j]]
  BY <1>1 DEF StateIs
<1>4. p = [j \in S |-> p[j]]
  BY <1>2
<1>5. ASSUME NEW j \in S PROVE p[j] = q[j]
  <2>1. j = "multi" \/ j = "count" \/ j = "type" \/ j = "args" \/ j = "bulkLen"
    OBVIOUS
  <2>2. q["multi"] = m /\ q["count"] = c /\ q["type"] = t /\ q["args"] = e /\ q["bulkLen"] = d
    BY DEF StateIs
  <2>3. r["multi"] = m /\ r["count"] = c /\ r["type"] = t /\ r["args"] = a /\ r["bulkLen"] = b
    BY DEF StateIs
  <2>4. p["multi"] = m /\ p["count"] = c /\ p["type"] = t /\ p["args"] = e /\ p["bulkLen"] = d
    BY <1>2, <2>3
  <2> HIDE DEF p
  <2> QED BY <2>1, <2>2, <2>4
<1> HIDE DEF p, S
<1> QED BY <1>0, <1>3, <1>4, <1>5

HeaderLine(mark, n) == <<mark, DigitOf(n), CR, LF>>
LEMMA HeaderLineIs ==
  ASSUME NEW mark \in Byte, NEW n \in 0..9
  PROVE  /\ HeaderLine(mark, n) \in Seq(Byte) /\ Len(HeaderLine(mark, n)) = 4
         /\ EndsWell(HeaderLine(mark, n)) /\ HeaderLine(mark, n) # <<LF>>
         /\ Text(HeaderLine(mark, n)) = <<mark, DigitOf(n)>>
         /\ Tail(<<mark, DigitOf(n)>>) = <<DigitOf(n)>>
<1> DEFINE d == DigitOf(n)
           s == <<mark, d, CR, LF>>
<1>1. d \in Byte /\ CR \in Byte /\ LF \in Byte
  BY DigitIs, BytesAre
<1> HIDE DEF d
<1>2. s \in Seq(Byte) /\ Len(s) = 4 /\ s[1] = mark /\ s[2] = d /\ s[3] = CR /\ s[4] = LF
  BY <1>1
<1>3. s # <<LF>>
  <2>1. Len(<<LF>>) = 1
    OBVIOUS
  <2> QED BY <1>2, <2>1
<1>4. SubSeq(s, 3, 4) = <<CR, LF>> /\ SubSeq(s, 1, 2) = <<mark, d>>
  <2> HIDE DEF s
  <2>1. \A i \in 1..2 : i \in {1, 2}
    OBVIOUS
  <2>2. /\ SubSeq(s, 3, 4) \in Seq(Byte) /\ Len(SubSeq(s, 3, 4)) = 2
        /\ SubSeq(s, 3, 4)[1] = CR /\ SubSeq(s, 3, 4)[2] = LF
    <3>1. \A i \in 3..4 : s[i] \in Byte
      <4>1. s \in Seq(Byte) /\ \A i \in 3..4 : i \in 1..Len(s)
        BY <1>2
      <4> QED BY <4>1
    <3>2. /\ SubSeq(s, 3, 4) \in Seq(Byte) /\ Len(SubSeq(s, 3, 4)) = 2
          /\ \A i \in 1..2 : SubSeq(s, 3, 4)[i] = s[3 + i - 1]
      BY <1>2, <3>1, SubSeqProperties
    <3>3. 1 \in 1..2 /\ 2 \in 1..2 /\ 3 + 1 - 1 = 3 /\ 3 + 2 - 1 = 4
      OBVIOUS
    <3> QED BY <1>2, <3>2, <3>3
  <2>3. /\ SubSeq(s, 1, 2) \in Seq(Byte) /\ Len(SubSeq(s, 1, 2)) = 2
        /\ SubSeq(s, 1, 2)[1] = mark /\ SubSeq(s, 1, 2)[2] = d
    BY <1>2
  <2> DEFINE e == <<CR, LF>>
             f == <<mark, d>>
  <2>4. e \in Seq(Byte) /\ Len(e) = 2 /\ e[1] = CR /\ e[2] = LF
    BY <1>1
  <2>5. f \in Seq(Byte) /\ Len(f) = 2 /\ f[1] = mark /\ f[2] = d
    BY <1>1
  <2> HIDE DEF e, f
  <2>6. SubSeq(s, 3, 4) = e
    BY <2>1, <2>2, <2>4, SeqEqual
  <2>7. SubSeq(s, 1, 2) = f
    BY <2>1, <2>3, <2>5, SeqEqual
  <2> QED BY <2>6, <2>7 DEF e, f
<1>5. Tail(<<mark, d>>) = <<d>>
  OBVIOUS
<1>6. EndsWell(s) /\ Text(s) = <<mark, d>>
  <2>1. Len(s) - 1 = 3 /\ Len(s) - 2 = 2 /\ Len(s) = 4
    BY <1>2
  <2> HIDE DEF s
  <2> QED BY <1>4, <2>1 DEF EndsWell, Text, Crlf
<1> QED BY <1>2, <1>3, <1>5, <1>6 DEF HeaderLine, s, d

LEMMA TurnOfHeader ==
  ASSUME NEW args \in Seq(Seq(Byte)), Len(args) \in 1..9
  PROVE  Parse0(FreshState, HeaderLine("*", Len(args))) = Turn(InCommand(args, 1, 0), Nothing)
<1> DEFINE K == Len(args)
           msg == HeaderLine("*", K)
           d == DigitOf(K)
           t == <<"*", d>>
<1>1. EndsWell(msg) /\ msg # <<LF>> /\ Text(msg) = t /\ Tail(t) = <<d>>
  <2>1. "*" \in Byte /\ K \in 0..9
    BY BytesAre
  <2> QED BY <2>1, HeaderLineIs
<1>2. IsUint(<<d>>) /\ UintOf(<<d>>) = K
  <2>1. K \in 0..9
    OBVIOUS
  <2> HIDE DEF K
  <2> QED BY <2>1, DigitIs
<1>3. t # <<>> /\ t[1] = "*"
  OBVIOUS
<1> HIDE DEF msg, d, t
<1>4. Parse0(FreshState, msg) = FirstLine(t)
  BY <1>1 DEF Parse0, FreshState
<1>5. FirstLine(t) = MultiBulkHeader(<<d>>)
  BY <1>1, <1>3 DEF FirstLine
<1>6. MultiBulkHeader(<<d>>) = Expect("*", K, 0)
  BY <1>2 DEF MultiBulkHeader
<1>7. SubSeq(args, 1, 1 - 1) = <<>>
  OBVIOUS
<1> QED BY <1>4, <1>5, <1>6, <1>7 DEF Expect, InCommand, msg

LEMMA TurnOfLength ==
  ASSUME NEW args \in Seq(Seq(Byte)), Len(args) \in 1..9, NEW i \in 1..Len(args), NEW n \in 1..9
  PROVE  Parse0(InCommand(args, i, 0), HeaderLine("$", n)) = Turn(InCommand(args, i, n), Nothing)
<1> DEFINE r == InCommand(args, i, 0)
           msg == HeaderLine("$", n)
           d == DigitOf(n)
           t == <<"$", d>>
           g == <<d>>
           so == SubSeq(args, 1, i - 1)
<1>1. EndsWell(msg) /\ msg # <<LF>> /\ Text(msg) = t /\ Tail(t) = g
  <2>1. "$" \in Byte /\ n \in 0..9
    BY BytesAre
  <2> QED BY <2>1, HeaderLineIs
<1>2. IsInt(g) /\ IntOf(g) = n
  <2>1. n \in 0..9
    OBVIOUS
  <2> QED BY <2>1, DigitIs
<1>3. t # <<>> /\ t[1] = "$"
  OBVIOUS
<1>4. Len(so) = i - 1
  BY SubSeqProperties
<1> HIDE DEF msg, d, t, g, so
<1>5. r = [multi |-> TRUE, count |-> Len(args), type |-> "*", args |-> so, bulkLen |-> 0]
  BY DEF InCommand, so
<1> DEFINE u == InCommand(args, i, n)
<1>6. r.multi /\ [r EXCEPT !.bulkLen = 0] = r /\ [r EXCEPT !.bulkLen = n] = u
  <2>1. StateIs(r, TRUE, Len(args), "*", so, 0) /\ StateIs(u, TRUE, Len(args), "*", so, n)
    BY DEF StateIs, InCommand, so
  <2> HIDE DEF r, u
  <2>2. r.multi
    BY <1>5
  <2>3. [r EXCEPT !.bulkLen = 0] = r
    BY <2>1, LengthSet
  <2>4. [r EXCEPT !.bulkLen = n] = u
    BY <2>1, LengthSet
  <2> QED BY <2>2, <2>3, <2>4
<1>7. Parse0(r, msg) = Body(r, t)
  BY <1>1, <1>6 DEF Parse0
<1> HIDE DEF r
<1>9. ~Finished(u)
  BY <1>4 DEF Finished, InCommand, so
<1> HIDE DEF u
<1>8. ReadBody(r, t) = Turn(u, Nothing)
  <2> DEFINE e == IntOf(Tail(t))
  <2>1. e = n /\ IsInt(Tail(t)) /\ ~(e <= 0)
    <3>1. Tail(t) = g
      BY <1>1
    <3>2. ~(n <= 0)
      OBVIOUS
    <3>3. e = IntOf(g)
      BY <3>1
    <3> HIDE DEF e
    <3> QED BY <1>2, <3>1, <3>2, <3>3
  <2> HIDE DEF e
  <2>2. [r EXCEPT !.bulkLen = e] = u
    BY <1>6, <2>1
  <2>3. ReadBody(r, t) = Turn(IF e <= 0 THEN Argument(r, <<>>) ELSE [r EXCEPT !.bulkLen = e], Nothing)
    BY <1>3, <2>1 DEF ReadBody, e
  <2> QED BY <2>1, <2>2, <2>3
<1>10. Body(r, t) = Turn(u, Nothing)
  BY <1>6, <1>8, <1>9 DEF Body, Turn
<1> QED BY <1>7, <1>10 DEF r, msg, u

(* The line of an argument: the arguments so far grow by it, and it is the *)
(* last or the next one's header follows.                                  *)
LEMMA TurnOfArgument ==
  ASSUME NEW args, Plain(args), NEW i \in 1..Len(args)
  PROVE  LET turn == Parse0(InCommand(args, i, Len(args[i])), args[i] \o Crlf) IN
         IF i = Len(args) THEN turn.sent = Command(args)
         ELSE turn = Turn(InCommand(args, i + 1, 0), Nothing)
<1> DEFINE K == Len(args)
           a == args[i]
           n == Len(args[i])
           r == InCommand(args, i, n)
           msg == a \o Crlf
           so == SubSeq(args, 1, i - 1)
           more == SubSeq(args, 1, i)
           q == [multi |-> TRUE, count |-> K, type |-> "*", args |-> so, bulkLen |-> 0]
           z == [multi |-> TRUE, count |-> K, type |-> "*", args |-> more, bulkLen |-> 0]
<1>1. args \in Seq(Seq(Byte)) /\ a \in Seq(Byte) /\ n \in 1..9 /\ K \in 1..9 /\ a[1] # "$" /\ n = Len(a)
  BY StringsAre DEF Plain
<1>2. a # <<>>
  BY <1>1
<1>3. Crlf \in Seq(Byte) /\ Len(Crlf) = 2 /\ Crlf[1] = CR /\ Crlf[2] = LF
  BY BytesAre DEF Crlf
<1>4. msg \in Seq(Byte) /\ Len(msg) = n + 2 /\ msg[n + 1] = CR /\ msg[n + 2] = LF
      /\ \A j \in 1..n : msg[j] = a[j]
  <2> HIDE DEF a, n
  <2>1. msg = a \o Crlf
    OBVIOUS
  <2> HIDE DEF msg
  <2>2. Len(msg) = Len(a) + Len(Crlf) /\ msg \in Seq(Byte) /\ (\A j \in 1..Len(a) : msg[j] = a[j])
        /\ \A j \in 1..Len(Crlf) : msg[Len(a) + j] = Crlf[j]
    <3>1. a \in Seq(Byte) /\ Crlf \in Seq(Byte)
      BY <1>1, <1>3
    <3>2. Joined(Byte, a, Crlf, msg)
      BY <2>1, <3>1, Concat
    <3> QED BY <3>2 DEF Joined
  <2>3. 1 \in 1..2 /\ 2 \in 1..2
    OBVIOUS
  <2> QED BY <1>1, <1>3, <2>2, <2>3
<1>5. so \in Seq(Seq(Byte)) /\ more \in Seq(Seq(Byte)) /\ Len(so) = i - 1 /\ Len(more) = i /\ Append(so, a) = more
  <2>1. so \in Seq(Seq(Byte)) /\ Len(so) = i - 1 /\ \A j \in 1..(i - 1) : so[j] = args[j]
    BY <1>1, SubSeqProperties
  <2>2. more \in Seq(Seq(Byte)) /\ Len(more) = i /\ \A j \in 1..i : more[j] = args[j]
    BY <1>1, SubSeqProperties
  <2> HIDE DEF so, more
  <2>3. Append(so, a) \in Seq(Seq(Byte)) /\ Len(Append(so, a)) = i
    BY <1>1, <2>1
  <2>4. ASSUME NEW j \in 1..i
        PROVE Append(so, a)[j] = more[j]
    <3>1. CASE j = i
      <4>1. Append(so, a)[Len(so) + 1] = a /\ Len(so) + 1 = i
        BY <1>1, <2>1
      <4> QED BY <2>2, <3>1, <4>1
    <3>2. CASE j # i
      <4>1. j \in 1..(i - 1)
        BY <3>2
      <4>2. Append(so, a)[j] = so[j]
        BY <1>1, <2>1, <4>1
      <4> QED BY <2>1, <2>2, <4>1, <4>2
    <3> QED BY <3>1, <3>2
  <2>5. Append(so, a) = more
    BY <2>2, <2>3, <2>4, SeqEqual
  <2> QED BY <2>1, <2>2, <2>5
<1> HIDE DEF msg, so, more
<1>6. SubSeq(msg, n + 1, n + 2) = Crlf
  <2>1. n + 1 \in Int /\ n + 2 \in Int /\ \A j \in (n + 1)..(n + 2) : msg[j] \in Byte
    BY <1>1, <1>4
  <2>2. SubSeq(msg, n + 1, n + 2) \in Seq(Byte) /\ Len(SubSeq(msg, n + 1, n + 2)) = 2
        /\ \A j \in 1..2 : SubSeq(msg, n + 1, n + 2)[j] = msg[n + j]
    BY <1>1, <1>4, <2>1, SubSeqProperties
  <2>3. \A j \in 1..2 : SubSeq(msg, n + 1, n + 2)[j] = Crlf[j]
    BY <1>3, <1>4, <2>2
  <2> QED BY <1>3, <2>2, <2>3, SeqEqual
<1>7. SubSeq(msg, 1, n) = a
  <2>1. 1 \in Int /\ n \in Int /\ \A j \in 1..n : msg[j] \in Byte
    BY <1>1, <1>4
  <2>2. SubSeq(msg, 1, n) \in Seq(Byte) /\ Len(SubSeq(msg, 1, n)) = n
        /\ \A j \in 1..n : SubSeq(msg, 1, n)[j] = msg[j]
    BY <1>1, <1>4, <2>1, SubSeqProperties
  <2>3. \A j \in 1..n : SubSeq(msg, 1, n)[j] = a[j]
    BY <1>4, <2>2
  <2> QED BY <1>1, <2>2, <2>3, SeqEqual
<1>8. EndsWell(msg) /\ Text(msg) = a
  <2>1. Len(msg) - 1 = n + 1 /\ Len(msg) - 2 = n /\ Len(msg) = n + 2
    BY <1>1, <1>4
  <2> HIDE DEF n
  <2> QED BY <1>6, <1>7, <2>1 DEF EndsWell, Text
<1> HIDE DEF a, n, K
<1>9. r.bulkLen = n /\ r.multi /\ r.type = "*" /\ [r EXCEPT !.bulkLen = 0] = q
  <2>1. r.bulkLen = n /\ r.multi /\ r.type = "*"
    BY DEF InCommand
  <2>2. StateIs(r, TRUE, K, "*", so, n) /\ StateIs(q, TRUE, K, "*", so, 0)
    BY DEF StateIs, InCommand, so, K
  <2> HIDE DEF r, q
  <2>3. [r EXCEPT !.bulkLen = 0] = q
    BY <2>2, LengthSet
  <2> QED BY <2>1, <2>3
<1> HIDE DEF r
<1>10. Parse0(r, msg) = Body(r, a)
  BY <1>1, <1>8, <1>9 DEF Parse0
<1>11. Argument(q, a) = z
  <2>1. StateIs(q, TRUE, K, "*", so, 0) /\ StateIs(z, TRUE, K, "*", Append(so, a), 0)
    BY <1>5 DEF StateIs
  <2> HIDE DEF q, z
  <2> QED BY <2>1, ArgsSet
<1>12. ReadBody(q, a) = Turn(z, Nothing)
  <2> HIDE DEF q, z
  <2> QED BY <1>1, <1>2, <1>11 DEF ReadBody
<1>13. Finished(z) <=> i = K
  BY <1>1, <1>5 DEF Finished
<1>14. CASE i = K
  <2>1. more = args
    BY <1>1, <1>14 DEF more, K
  <2>2. Body(r, a).sent = Command(z.args)
    <3> HIDE DEF q, z
    <3> QED BY <1>9, <1>12, <1>13, <1>14 DEF Body, Turn, Sends
  <2>3. Command(z.args) = Command(args)
    BY <2>1
  <2> QED BY <1>10, <1>14, <2>2, <2>3 DEF r, msg, a, n, K
<1>15. CASE i # K
  <2>1. Body(r, a) = Turn(z, Nothing)
    <3> HIDE DEF q, z
    <3> QED BY <1>9, <1>12, <1>13, <1>15 DEF Body, Turn
  <2>2. (i + 1) - 1 = i
    OBVIOUS
  <2>3. z = InCommand(args, i + 1, 0)
    BY <2>2 DEF InCommand, more, K
  <2> QED BY <1>10, <1>15, <2>1, <2>3 DEF r, msg, a, n, K
<1> QED BY <1>14, <1>15

(* The places where the parser begins a line in a command that ToBytes has *)
(* written: in front, and at each argument its length and its bytes.       *)
Bulks(args) == [i \in DOMAIN args |-> Bulk(args[i])]
Starts(args, i) == 4 + Offset(Bulks(args), i - 1)
Places(args) ==
  {<<0, FreshState>>}
  \cup {<<Starts(args, i), InCommand(args, i, 0)>> : i \in 1..Len(args)}
  \cup {<<Starts(args, i) + 4, InCommand(args, i, Len(args[i]))>> : i \in 1..Len(args)}

LEMMA CrlfIs == Crlf \in Seq(Byte) /\ Len(Crlf) = 2 /\ Crlf[1] = CR /\ Crlf[2] = LF
BY BytesAre DEF Crlf

LEMMA HeaderIs ==
  ASSUME NEW mark \in Byte, NEW n \in 0..9
  PROVE  <<mark, DigitOf(n)>> \o Crlf = HeaderLine(mark, n)
<1> DEFINE d == DigitOf(n)
           s == <<mark, d>>
           u == s \o Crlf
           h == HeaderLine(mark, n)
<1>1. d \in Byte
  BY DigitIs
<1>2. h \in Seq(Byte) /\ Len(h) = 4
  BY HeaderLineIs
<1>3. h[1] = mark /\ h[2] = d /\ h[3] = CR /\ h[4] = LF
  BY DEF HeaderLine
<1> HIDE DEF d
<1>4. s \in Seq(Byte) /\ Len(s) = 2 /\ s[1] = mark /\ s[2] = d
  BY <1>1
<1>5. Crlf \in Seq(Byte) /\ Len(Crlf) = 2 /\ Crlf[1] = CR /\ Crlf[2] = LF
  BY CrlfIs
<1> HIDE DEF s, h
<1>6. u = s \o Crlf
  OBVIOUS
<1> HIDE DEF u
<1>7. /\ u \in Seq(Byte) /\ Len(u) = Len(s) + Len(Crlf) /\ \A j \in 1..Len(s) : u[j] = s[j]
      /\ \A j \in 1..Len(Crlf) : u[Len(s) + j] = Crlf[j]
  <2>1. s \in Seq(Byte) /\ Crlf \in Seq(Byte)
    BY <1>4, <1>5
  <2>2. Joined(Byte, s, Crlf, u)
    BY <1>6, <2>1, Concat
  <2> QED BY <2>2 DEF Joined
<1>8. u[1] = mark /\ u[2] = d /\ u[3] = CR /\ u[4] = LF /\ Len(u) = 4
  <2>1. 1 \in 1..2 /\ 2 \in 1..2 /\ 2 + 1 = 3 /\ 2 + 2 = 4
    OBVIOUS
  <2> QED BY <1>4, <1>5, <1>7, <2>1
<1>9. \A j \in 1..4 : u[j] = h[j]
  <2>1. \A j \in 1..4 : j = 1 \/ j = 2 \/ j = 3 \/ j = 4
    OBVIOUS
  <2> QED BY <1>3, <1>8, <2>1
<1>10. u = h
  BY <1>2, <1>7, <1>8, <1>9, SeqEqual
<1> QED BY <1>10 DEF u, s, d, h

LEMMA BulkIs ==
  ASSUME NEW arg \in Seq(Byte), Len(arg) \in 1..9
  PROVE  /\ Bulk(arg) \in Seq(Byte) /\ Len(Bulk(arg)) = Len(arg) + 6
         /\ \A j \in 1..4 : Bulk(arg)[j] = HeaderLine("$", Len(arg))[j]
         /\ \A j \in 1..(Len(arg) + 2) : Bulk(arg)[4 + j] = (arg \o Crlf)[j]
<1> DEFINE n == Len(arg)
           h == HeaderLine("$", n)
           v == h \o arg
           w == v \o Crlf
           x == arg \o Crlf
<1>1. n \in 1..9 /\ n \in 0..9 /\ "$" \in Byte
  BY BytesAre
<1>2. Bulk(arg) = w
  BY <1>1, HeaderIs DEF Bulk
<1>3. h \in Seq(Byte) /\ Len(h) = 4
  BY <1>1, HeaderLineIs
<1>4. Crlf \in Seq(Byte) /\ Len(Crlf) = 2
  BY CrlfIs
<1>5. v = h \o arg /\ w = v \o Crlf /\ x = arg \o Crlf
  OBVIOUS
<1> HIDE DEF h, v, w, x
<1>6. /\ v \in Seq(Byte) /\ Len(v) = 4 + n /\ (\A j \in 1..4 : v[j] = h[j])
      /\ \A j \in 1..n : v[4 + j] = arg[j]
  <2>1. Joined(Byte, h, arg, v)
    BY <1>3, <1>5, Concat
  <2> QED BY <1>3, <2>1 DEF Joined
<1>7. x \in Seq(Byte) /\ Len(x) = n + 2 /\ (\A j \in 1..n : x[j] = arg[j]) /\ \A j \in 1..2 : x[n + j] = Crlf[j]
  <2>1. Joined(Byte, arg, Crlf, x)
    BY <1>4, <1>5, Concat
  <2> QED BY <1>4, <2>1 DEF Joined
<1>8. /\ w \in Seq(Byte) /\ Len(w) = 4 + n + 2 /\ (\A j \in 1..(4 + n) : w[j] = v[j])
      /\ \A j \in 1..2 : w[4 + n + j] = Crlf[j]
  <2>1. v \in Seq(Byte) /\ Len(v) = 4 + n
    BY <1>6
  <2>2. Joined(Byte, v, Crlf, w)
    BY <1>4, <1>5, <2>1, Concat
  <2> QED BY <1>4, <2>1, <2>2 DEF Joined
<1> HIDE DEF n
<1>9. \A j \in 1..4 : w[j] = h[j]
  <2>1. \A j \in 1..4 : j \in 1..(4 + n)
    BY <1>1
  <2> QED BY <1>6, <1>8, <2>1
<1>10. ASSUME NEW j \in 1..(n + 2)
       PROVE w[4 + j] = x[j]
  <2>1. CASE j <= n
    <3>1. j \in 1..n /\ 4 + j \in 1..(4 + n)
      BY <1>1, <2>1
    <3> QED BY <1>6, <1>7, <1>8, <3>1
  <2>2. CASE n < j
    <3> DEFINE i == j - n
    <3>1. i \in 1..2 /\ n + i = j /\ 4 + n + i = 4 + j
      BY <1>1, <2>2
    <3> HIDE DEF i
    <3>2. w[4 + n + i] = Crlf[i] /\ x[n + i] = Crlf[i]
      BY <1>7, <1>8, <3>1
    <3> QED BY <3>1, <3>2
  <2> QED BY <1>1, <2>1, <2>2
<1>11. Len(w) = n + 6
  BY <1>1, <1>8
<1> QED BY <1>2, <1>8, <1>9, <1>10, <1>11 DEF h, n, x

(* Where everything is in the bytes of a command.                          *)
Shaped(args, b) ==
  /\ b \in Seq(Byte)
  /\ \A j \in 1..4 : j <= Len(b) /\ b[j] = HeaderLine("*", Len(args))[j]
  /\ Starts(args, 1) = 4
  /\ \A i \in 1..Len(args) :
       /\ Starts(args, i) \in Nat /\ Starts(args, i) + 4 + (Len(args[i]) + 2) <= Len(b)
       /\ IF i = Len(args) THEN Starts(args, i) + 4 + (Len(args[i]) + 2) = Len(b)
          ELSE Starts(args, i + 1) = Starts(args, i) + 4 + (Len(args[i]) + 2)
       /\ \A j \in 1..4 : b[Starts(args, i) + j] = HeaderLine("$", Len(args[i]))[j]
       /\ \A j \in 1..(Len(args[i]) + 2) : b[Starts(args, i) + 4 + j] = (args[i] \o Crlf)[j]

LEMMA PlainIs ==
  ASSUME NEW args, Plain(args)
  PROVE  /\ args \in Seq(Seq(Byte)) /\ Len(args) \in 1..9 /\ DOMAIN args = 1..Len(args)
         /\ \A i \in 1..Len(args) : args[i] \in Seq(Byte) /\ Len(args[i]) \in 1..9
<1>1. args \in Seq(Seq(STRING)) /\ Len(args) \in 1..9 /\ \A i \in DOMAIN args : Len(args[i]) \in 1..9
  BY DEF Plain
<1>2. args \in Seq(Seq(Byte))
  BY <1>1, StringsAre
<1>3. DOMAIN args = 1..Len(args) /\ \A i \in 1..Len(args) : args[i] \in Seq(Byte)
  BY <1>2
<1> QED BY <1>1, <1>2, <1>3

LEMMA ToBytesIs ==
  ASSUME NEW args, Plain(args)
  PROVE  Shaped(args, ToBytes(args))
<1> DEFINE K == Len(args)
           B == Bulks(args)
           F == FlattenSeq(B)
           h == HeaderLine("*", K)
           b == h \o F
<1>1. args \in Seq(Seq(Byte)) /\ K \in 1..9 /\ DOMAIN args = 1..K
      /\ \A i \in 1..K : args[i] \in Seq(Byte) /\ Len(args[i]) \in 1..9
  BY PlainIs
<1>1a. K \in 0..9
  <2>1. Len(args) \in 1..9
    BY PlainIs
  <2> QED BY <2>1
<1>2. ToBytes(args) = b
  <2>1. "*" \in Byte /\ K \in 0..9
    BY <1>1a, BytesAre
  <2>2. <<"*", DigitOf(K)>> \o Crlf = h
    BY <2>1, HeaderIs
  <2> QED BY <2>2 DEF ToBytes, Bulks
<1>3. \A i \in 1..K :
        /\ B[i] \in Seq(Byte) /\ Len(B[i]) = Len(args[i]) + 6
        /\ \A j \in 1..4 : B[i][j] = HeaderLine("$", Len(args[i]))[j]
        /\ \A j \in 1..(Len(args[i]) + 2) : B[i][4 + j] = (args[i] \o Crlf)[j]
  <2> SUFFICES ASSUME NEW i \in 1..K
               PROVE /\ B[i] \in Seq(Byte) /\ Len(B[i]) = Len(args[i]) + 6
                     /\ \A j \in 1..4 : B[i][j] = HeaderLine("$", Len(args[i]))[j]
                     /\ \A j \in 1..(Len(args[i]) + 2) : B[i][4 + j] = (args[i] \o Crlf)[j]
    OBVIOUS
  <2>1. B[i] = Bulk(args[i])
    BY <1>1 DEF Bulks
  <2> DEFINE arg == args[i]
             bulk == B[i]
  <2>2. arg \in Seq(Byte) /\ Len(arg) \in 1..9
    BY <1>1
  <2>3. bulk = Bulk(arg)
    BY <2>1
  <2> HIDE DEF B, arg, bulk
  <2>4. /\ bulk \in Seq(Byte) /\ Len(bulk) = Len(arg) + 6
        /\ \A j \in 1..4 : bulk[j] = HeaderLine("$", Len(arg))[j]
        /\ \A j \in 1..(Len(arg) + 2) : bulk[4 + j] = (arg \o Crlf)[j]
    BY <2>2, <2>3, BulkIs
  <2> QED BY <2>4 DEF arg, bulk
<1>4. B \in Seq(Seq(Byte)) /\ Len(B) = K
  <2>1. B = [i \in 1..K |-> B[i]]
    BY <1>1 DEF Bulks
  <2> HIDE DEF B
  <2>2. B \in [1..K -> Seq(Byte)]
    BY <1>3, <2>1
  <2> HIDE DEF K
  <2> QED BY <1>1, <2>2
<1>5. F \in Seq(Byte) /\ LaidOut(F, B)
  <2> HIDE DEF B
  <2> QED BY <1>4, FlattenIs, Stretches
<1>6. h \in Seq(Byte) /\ Len(h) = 4
  <2>1. "*" \in Byte /\ K \in 0..9
    BY <1>1a, BytesAre
  <2> QED BY <2>1, HeaderLineIs
<1>7. b = h \o F
  OBVIOUS
<1> HIDE DEF h, F, B, b
<1>9. b \in Seq(Byte) /\ Len(b) = 4 + Len(F) /\ Len(F) \in Nat
      /\ (\A j \in 1..4 : b[j] = h[j]) /\ \A j \in 1..Len(F) : b[4 + j] = F[j]
  <2>1. Joined(Byte, h, F, b)
    BY <1>5, <1>6, <1>7, Concat
  <2> QED BY <1>6, <2>1 DEF Joined
<1>10. \A j \in 1..4 : j <= Len(b) /\ b[j] = h[j]
  BY <1>9
<1>11. Starts(args, 1) = 4
  <2>1. 1 - 1 = 0 /\ Offset(B, 0) = 0
    BY <1>5 DEF LaidOut
  <2> QED BY <2>1 DEF Starts, B
<1>12. ASSUME NEW i \in 1..K
       PROVE /\ Starts(args, i) \in Nat /\ Starts(args, i) + 4 + (Len(args[i]) + 2) <= Len(b)
             /\ IF i = K THEN Starts(args, i) + 4 + (Len(args[i]) + 2) = Len(b)
                ELSE Starts(args, i + 1) = Starts(args, i) + 4 + (Len(args[i]) + 2)
             /\ \A j \in 1..4 : b[Starts(args, i) + j] = HeaderLine("$", Len(args[i]))[j]
             /\ \A j \in 1..(Len(args[i]) + 2) : b[Starts(args, i) + 4 + j] = (args[i] \o Crlf)[j]
  <2> DEFINE o == Offset(B, i - 1)
             m == Offset(B, i)
             n == Len(args[i])
             l == Len(F)
  <2>1. Starts(args, i) = 4 + o /\ Starts(args, i + 1) = 4 + m
    <3>1. (i + 1) - 1 = i
      BY <1>1
    <3> QED BY <3>1 DEF Starts, B
  <2>2. n \in 1..9 /\ Len(B[i]) = n + 6
    BY <1>1, <1>3
  <2>3. /\ o \in Nat /\ m \in Nat /\ m = o + (n + 6) /\ m <= l /\ (i = K => m = l)
        /\ \A j \in 1..(n + 6) : F[o + j] = B[i][j]
    <3>1. i - 1 \in 0..Len(B) /\ i \in 0..Len(B) /\ Len(B) \in 0..Len(B) /\ i <= Len(B) /\ i \in 1..Len(B)
      BY <1>1, <1>4
    <3> QED BY <1>4, <1>5, <2>2, <3>1 DEF LaidOut
  <2> HIDE DEF o, m, n
  <2>4. ASSUME NEW j \in 1..(n + 6)
        PROVE b[4 + o + j] = B[i][j]
    <3>1. l \in Nat /\ \A q \in 1..l : b[4 + q] = F[q]
      BY <1>9
    <3> HIDE DEF l
    <3>2. o + j \in 1..l /\ 4 + (o + j) = 4 + o + j
      BY <2>2, <2>3, <3>1
    <3> QED BY <2>3, <3>1, <3>2
  <2>5. \A j \in 1..4 : b[4 + o + j] = HeaderLine("$", n)[j]
    <3>1. \A j \in 1..4 : j \in 1..(n + 6)
      BY <2>2
    <3> QED BY <1>3, <2>4, <3>1 DEF n
  <2>6. ASSUME NEW j \in 1..(n + 2)
        PROVE b[4 + o + 4 + j] = (args[i] \o Crlf)[j]
    <3>1. 4 + j \in 1..(n + 6) /\ 4 + o + (4 + j) = 4 + o + 4 + j
      BY <2>2, <2>3
    <3>2. B[i][4 + j] = (args[i] \o Crlf)[j]
      BY <1>3 DEF n
    <3> QED BY <2>4, <3>1, <3>2
  <2>7. Len(b) = 4 + l /\ l \in Nat
    BY <1>9
  <2> HIDE DEF l
  <2>8. 4 + o \in Nat /\ 4 + o + 4 + (n + 2) <= Len(b)
        /\ (i = K => 4 + o + 4 + (n + 2) = Len(b)) /\ 4 + m = 4 + o + 4 + (n + 2)
    BY <2>2, <2>3, <2>7
  <2> QED BY <2>1, <2>5, <2>6, <2>8 DEF n
<1> QED BY <1>2, <1>9, <1>10, <1>11, <1>12 DEF Shaped, h

(* A header line that stands somewhere in the bytes is the next line.      *)
LEMMA HeaderNext ==
  ASSUME NEW b \in Seq(Byte), NEW t \in Nat, t + 4 <= Len(b), NEW mark \in Byte \ {LF}, NEW n \in 0..9,
         \A j \in 1..4 : b[t + j] = HeaderLine(mark, n)[j], NEW r, r.bulkLen = 0
  PROVE  /\ LineLength(r, SubSeq(b, t + 1, Len(b))) = 4
         /\ SubSeq(b, t + 1, t + 4) = HeaderLine(mark, n)
<1> DEFINE h == HeaderLine(mark, n)
           w == SubSeq(b, t + 1, Len(b))
           v == SubSeq(b, t + 1, t + 4)
<1>1. h[1] = mark /\ h[2] = DigitOf(n) /\ h[3] = CR /\ h[4] = LF /\ CR # LF /\ DigitOf(n) # LF
  BY DigitIs DEF HeaderLine, CR, LF
<1>2. h \in Seq(Byte) /\ Len(h) = 4
  BY HeaderLineIs
<1>3. Len(b) \in Nat /\ t <= Len(b) /\ t + 4 \in Nat /\ t <= t + 4 /\ (t + 4) - t = 4
  OBVIOUS
<1>4. w \in Seq(Byte) /\ Len(w) = Len(b) - t /\ \A j \in 1..(Len(b) - t) : w[j] = b[t + j]
  BY <1>3, Window
<1>5. v \in Seq(Byte) /\ Len(v) = 4 /\ \A j \in 1..4 : v[j] = b[t + j]
  BY <1>3, Window
<1> HIDE DEF h, w, v
<1>6. v = h
  <2>1. \A j \in 1..4 : v[j] = h[j]
    BY <1>5 DEF h
  <2> QED BY <1>2, <1>5, <2>1, SeqEqual
<1>7. LineLength(r, w) = 4
  <2>1. \A j \in 1..4 : j \in 1..(Len(b) - t) /\ j \in 1..Len(w)
    BY <1>3, <1>4
  <2>2. \A j \in 1..4 : w[j] = h[j]
    BY <1>4, <2>1 DEF h
  <2>3. w[1] # LF /\ w[2] # LF /\ w[3] # LF /\ w[4] = LF /\ 4 \in 1..Len(w)
    BY <1>1, <2>1, <2>2
  <2>4. \A j \in 1..(4 - 1) : j \in {1, 2, 3}
    OBVIOUS
  <2>5. \A j \in 1..(4 - 1) : w[j] # LF
    <3> SUFFICES ASSUME NEW j \in 1..(4 - 1) PROVE w[j] # LF
      OBVIOUS
    <3>1. j = 1 \/ j = 2 \/ j = 3
      BY <2>4
    <3> QED BY <2>3, <3>1
  <2> QED BY SMTT(30), <1>4, <2>3, <2>5, LineFirst
<1> QED BY <1>6, <1>7 DEF h, w, v

LEMMA InCommandOK ==
  ASSUME NEW args, NEW i, NEW n \in Nat
  PROVE  StateOK(InCommand(args, i, n)) /\ InCommand(args, i, n).bulkLen = n
BY DEF StateOK, InCommand

LEMMA CommandGoes ==
  ASSUME NEW args, Plain(args), NEW b, Shaped(args, b), NEW i \in 1..Len(args)
  PROVE  /\ Goes(Places(args), Starts(args, i), InCommand(args, i, 0), b, Command(args))
         /\ Goes(Places(args), Starts(args, i) + 4, InCommand(args, i, Len(args[i])), b, Command(args))
<1> DEFINE K == Len(args)
           n == Len(args[i])
           t == Starts(args, i)
           P == Places(args)
           x == args[i] \o Crlf
<1>1. args \in Seq(Seq(Byte)) /\ K \in 1..9 /\ args[i] \in Seq(Byte) /\ n \in 1..9 /\ i \in 1..K
  BY PlainIs
<1>2. /\ b \in Seq(Byte) /\ t \in Nat /\ t + 4 + (n + 2) <= Len(b) /\ Len(b) \in Nat
      /\ IF i = K THEN t + 4 + (n + 2) = Len(b) ELSE Starts(args, i + 1) = t + 4 + (n + 2)
      /\ \A j \in 1..4 : b[t + j] = HeaderLine("$", n)[j]
      /\ \A j \in 1..(n + 2) : b[t + 4 + j] = x[j]
  <2>1. b \in Seq(Byte) /\ Len(b) \in Nat
    BY DEF Shaped
  <2> QED BY <2>1 DEF Shaped
<1>3. <<t + 4, InCommand(args, i, n)>> \in P
  BY DEF Places
<1>4. i # K => <<Starts(args, i + 1), InCommand(args, i + 1, 0)>> \in P
  <2>1. i # K => i + 1 \in 1..K
    BY <1>1
  <2> QED BY <2>1 DEF Places
<1>5. x \in Seq(Byte) /\ Len(x) = n + 2
  <2>1. x = args[i] \o Crlf /\ args[i] \in Seq(Byte) /\ n = Len(args[i])
    BY <1>1
  <2> HIDE DEF x, n
  <2>2. Joined(Byte, args[i], Crlf, x)
    BY <2>1, CrlfIs, Concat
  <2> QED BY <2>1, <2>2, CrlfIs DEF Joined
<1>6. Parse0(InCommand(args, i, 0), HeaderLine("$", n)) = Turn(InCommand(args, i, n), Nothing)
  BY <1>1, TurnOfLength
<1>7. IF i = K THEN Parse0(InCommand(args, i, n), x).sent = Command(args)
      ELSE Parse0(InCommand(args, i, n), x) = Turn(InCommand(args, i + 1, 0), Nothing)
  BY TurnOfArgument
<1> HIDE DEF n, K, t, P, x
<1>8. Goes(P, t, InCommand(args, i, 0), b, Command(args))
  <2> DEFINE r == InCommand(args, i, 0)
             q == InCommand(args, i, n)
  <2>1. StateOK(r) /\ r.bulkLen = 0
    BY InCommandOK
  <2>2. "$" \in Byte \ {LF} /\ n \in 0..9 /\ t + 4 <= Len(b)
    <3>1. "$" \in Byte \ {LF}
      BY BytesAre DEF LF
    <3>2. n \in 1..9
      BY <1>1
    <3>3. t \in Nat /\ t + 4 + (n + 2) <= Len(b) /\ Len(b) \in Nat
      BY <1>2
    <3> QED BY <3>1, <3>2, <3>3
  <2> HIDE DEF r, q
  <2>3. LineLength(r, SubSeq(b, t + 1, Len(b))) = 4 /\ SubSeq(b, t + 1, t + 4) = HeaderLine("$", n)
    <3>1. b \in Seq(Byte) /\ t \in Nat /\ \A j \in 1..4 : b[t + j] = HeaderLine("$", n)[j]
      BY <1>2
    <3> DEFINE mark == "$"
    <3> HIDE DEF mark
    <3>2. mark \in Byte \ {LF} /\ n \in 0..9 /\ t + 4 <= Len(b) /\ \A j \in 1..4 : b[t + j] = HeaderLine(mark, n)[j]
      BY <2>2, <3>1 DEF mark
    <3>3. LineLength(r, SubSeq(b, t + 1, Len(b))) = 4 /\ SubSeq(b, t + 1, t + 4) = HeaderLine(mark, n)
      BY <2>1, <3>1, <3>2, HeaderNext
    <3> QED BY <3>3 DEF mark
  <2>4. Parse0(r, HeaderLine("$", n)) = Turn(q, Nothing) /\ <<t + 4, q>> \in P
    BY <1>3, <1>6 DEF r, q
  <2>5. Goes(P, t, r, b, Command(args))
    <3>1. t \in Nat /\ 4 > 0
      BY <1>2
    <3> QED BY <2>1, <2>3, <2>4, <3>1, GoesOn
  <2> QED BY <2>5 DEF r
<1>9. Goes(P, t + 4, InCommand(args, i, n), b, Command(args))
  <2> DEFINE r == InCommand(args, i, n)
             u == t + 4
             w == SubSeq(b, u + 1, Len(b))
             v == SubSeq(b, u + 1, u + (n + 2))
  <2>1. StateOK(r) /\ r.bulkLen = n
    BY <1>1, InCommandOK
  <2> HIDE DEF r
  <2>2. u \in Nat /\ u + (n + 2) \in Nat /\ u <= u + (n + 2) /\ u + (n + 2) <= Len(b) /\ (u + (n + 2)) - u = n + 2 /\ u <= Len(b)
    <3> DEFINE l == Len(b)
    <3>1. n \in 1..9
      BY <1>1
    <3>2. t \in Nat /\ t + 4 + (n + 2) <= l /\ l \in Nat
      BY <1>2
    <3> HIDE DEF l
    <3>3. /\ u \in Nat /\ u + (n + 2) \in Nat /\ u <= u + (n + 2) /\ u + (n + 2) <= l
          /\ (u + (n + 2)) - u = n + 2 /\ u <= l
      BY <3>1, <3>2
    <3> QED BY <3>3 DEF l
  <2>3. w \in Seq(Byte) /\ Len(w) = Len(b) - u
    <3> HIDE DEF u
    <3>1. b \in Seq(Byte) /\ u \in Nat /\ Len(b) \in Nat /\ u <= Len(b) /\ Len(b) <= Len(b)
      BY <1>2, <2>2
    <3> QED BY <3>1, Window
  <2>4. v \in Seq(Byte) /\ Len(v) = n + 2 /\ \A j \in 1..(n + 2) : v[j] = b[u + j]
    <3> DEFINE y == u + (n + 2)
    <3>1. b \in Seq(Byte) /\ u \in Nat /\ y \in Nat /\ u <= y /\ y <= Len(b) /\ y - u = n + 2
      BY <1>2, <2>2
    <3> HIDE DEF u, y
    <3>2. /\ SubSeq(b, u + 1, y) \in Seq(Byte) /\ Len(SubSeq(b, u + 1, y)) = y - u
          /\ \A j \in 1..(y - u) : SubSeq(b, u + 1, y)[j] = b[u + j]
      BY <3>1, Window
    <3> QED BY <3>1, <3>2 DEF y
  <2>5. v = x
    <3>1. \A j \in 1..(n + 2) : v[j] = x[j]
      BY <1>2, <2>4
    <3> HIDE DEF v
    <3> QED BY <1>5, <2>4, <3>1, SeqEqual
  <2>6. LineLength(r, w) = n + 2
    <3> HIDE DEF w, u
    <3>1. n \in 1..9 /\ r.bulkLen = n /\ n # 0
      BY <1>1, <2>1
    <3>2. n + 2 <= Len(w)
      BY <2>2, <2>3
    <3> QED BY <3>1, <3>2 DEF LineLength
  <2>7. IF i = K THEN Parse0(r, x).sent = Command(args) /\ u + (n + 2) = Len(b)
        ELSE Parse0(r, x) = Turn(InCommand(args, i + 1, 0), Nothing) /\ <<u + (n + 2), InCommand(args, i + 1, 0)>> \in P
    BY <1>2, <1>4, <1>7 DEF r
  <2>8. n + 2 > 0
    BY <1>1
  <2> DEFINE q == InCommand(args, i + 1, 0)
             sent == Command(args)
  <2>9. Goes(P, u, r, b, sent)
    <3>1. SubSeq(b, u + 1, Len(b)) = w /\ SubSeq(b, u + 1, u + (n + 2)) = x
      BY <2>5
    <3> HIDE DEF u, v, w, q, sent
    <3>2. CASE i = K
      <4>1. Parse0(r, x).sent = sent /\ u + (n + 2) = Len(b)
        BY <2>7, <3>2 DEF sent
      <4> DEFINE y == n + 2
      <4>2. u \in Nat /\ y > 0 /\ LineLength(r, w) = y /\ u + y = Len(b) /\ SubSeq(b, u + 1, u + y) = x
        BY <2>2, <2>6, <2>8, <3>1, <4>1
      <4> HIDE DEF y
      <4> QED BY <2>1, <3>1, <4>1, <4>2, GoesLast
    <3>3. CASE i # K
      <4>1. Parse0(r, x) = Turn(q, Nothing) /\ <<u + (n + 2), q>> \in P
        BY <2>7, <3>3 DEF q
      <4> DEFINE y == n + 2
      <4>2. u \in Nat /\ y > 0 /\ LineLength(r, w) = y /\ <<u + y, q>> \in P /\ SubSeq(b, u + 1, u + y) = x
        BY <2>2, <2>6, <2>8, <3>1, <4>1
      <4> HIDE DEF y
      <4> QED BY <2>1, <3>1, <4>1, <4>2, GoesOn
    <3> QED BY <3>2, <3>3
  <2> QED BY <2>9 DEF r
<1> QED BY <1>8, <1>9 DEF P, t, n

(* What MultiBulkReply.ToBytes writes, for any arguments that neither are  *)
(* empty nor begin with $, parse0 reads as the same arguments, line by     *)
(* line, and nothing before the last byte.                                 *)
THEOREM CommandsAreReadBack == \A args : Plain(args) => IsRead(ToBytes(args), Command(args))
<1> SUFFICES ASSUME NEW args, Plain(args) PROVE IsRead(ToBytes(args), Command(args))
  OBVIOUS
<1> DEFINE b == ToBytes(args)
           P == Places(args)
           K == Len(args)
<1>1. Shaped(args, b)
  BY ToBytesIs
<1>2. args \in Seq(Seq(Byte)) /\ K \in 1..9
  BY PlainIs
<1> HIDE DEF b
<1>3. Goes(P, 0, FreshState, b, Command(args))
  <2>1. b \in Seq(Byte) /\ 0 + 4 <= Len(b) /\ 0 \in Nat
    BY <1>1 DEF Shaped
  <2>2. "*" \in Byte \ {LF} /\ K \in 0..9
    <3>1. "*" \in Byte \ {LF}
      BY BytesAre DEF LF
    <3>2. Len(args) \in 1..9
      BY PlainIs
    <3>3. K \in 0..9
      BY <3>2
    <3> QED BY <3>1, <3>3
  <2>3. \A j \in 1..4 : b[0 + j] = HeaderLine("*", K)[j]
    BY <1>1 DEF Shaped
  <2> HIDE DEF K
  <2>4. LineLength(FreshState, SubSeq(b, 0 + 1, Len(b))) = 4 /\ SubSeq(b, 0 + 1, 0 + 4) = HeaderLine("*", K)
    <3> DEFINE mark == "*"
    <3> HIDE DEF mark
    <3>1. mark \in Byte \ {LF} /\ \A j \in 1..4 : b[0 + j] = HeaderLine(mark, K)[j]
      BY <2>2, <2>3 DEF mark
    <3> DEFINE t == 0
    <3>2. t \in Nat /\ t + 4 <= Len(b) /\ \A j \in 1..4 : b[t + j] = HeaderLine(mark, K)[j]
      BY <2>1, <3>1
    <3> DEFINE r == FreshState
    <3>r. r.bulkLen = 0
      BY FreshOK
    <3>b. b \in Seq(Byte) /\ mark \in Byte \ {LF} /\ K \in 0..9
      BY <2>1, <2>2, <3>1
    <3> HIDE DEF t, r
    <3>h. LineLength(r, SubSeq(b, t + 1, Len(b))) = 4 /\ SubSeq(b, t + 1, t + 4) = HeaderLine(mark, K)
      BY <3>2, <3>b, <3>r, HeaderNext
    <3>3. LineLength(FreshState, SubSeq(b, t + 1, Len(b))) = 4 /\ SubSeq(b, t + 1, t + 4) = HeaderLine(mark, K)
      BY <3>h DEF r
    <3>4. t = 0 /\ mark = "*"
      BY DEF mark, t
    <3> HIDE DEF b, P
    <3> QED BY <3>3, <3>4
  <2> DEFINE q == InCommand(args, 1, 0)
  <2>5. Parse0(FreshState, HeaderLine("*", K)) = Turn(q, Nothing)
    <3>1. args \in Seq(Seq(Byte)) /\ Len(args) \in 1..9
      BY PlainIs
    <3> DEFINE msg == HeaderLine("*", Len(args))
               turn == Turn(InCommand(args, 1, 0), Nothing)
    <3>2. Parse0(FreshState, msg) = turn
      BY <3>1, TurnOfHeader
    <3>3. msg = HeaderLine("*", K) /\ turn = Turn(q, Nothing)
      BY DEF K
    <3> HIDE DEF msg, turn, q
    <3> QED BY <3>2, <3>3
  <2>6. <<0 + 4, q>> \in P
    <3> DEFINE l == Len(args)
    <3>1. l \in 1..9
      BY DEF Plain
    <3> HIDE DEF l
    <3>l. 1 \in 1..l
      BY <3>1
    <3>2. 1 \in 1..Len(args)
      BY <3>l DEF l
    <3>3. Starts(args, 1) = 4
      BY <1>1 DEF Shaped
    <3> QED BY <3>2, <3>3 DEF Places
  <2> HIDE DEF q, P
  <2>7. 0 \in Nat /\ 4 > 0
    OBVIOUS
  <2> QED BY <2>4, <2>5, <2>6, <2>7, FreshOK, GoesOn
<1>4. <<0, FreshState>> \in P
  BY DEF Places
<1>5. ASSUME NEW p \in P
      PROVE Goes(P, p[1], p[2], b, Command(args))
  <2>1. CASE p = <<0, FreshState>>
    <3> HIDE DEF P
    <3> QED BY <1>3, <2>1
  <2>2. ASSUME NEW i \in 1..K, p = <<Starts(args, i), InCommand(args, i, 0)>>
        PROVE Goes(P, p[1], p[2], b, Command(args))
    BY <1>1, <2>2, CommandGoes
  <2>3. ASSUME NEW i \in 1..K, p = <<Starts(args, i) + 4, InCommand(args, i, Len(args[i]))>>
        PROVE Goes(P, p[1], p[2], b, Command(args))
    BY <1>1, <2>3, CommandGoes
  <2> QED BY <2>1, <2>2, <2>3 DEF Places
<1> HIDE DEF P
<1>6. Reading(P, b, Command(args))
  BY <1>4, <1>5 DEF Reading
<1> QED BY <1>6 DEF IsRead, b

LEMMA LegibleIsRead ==
  ASSUME NEW bytes \in Seq(Byte), NEW means, Legible(bytes, means)
  PROVE  IsRead(bytes, means)
<1>1. CASE Written(bytes, means)
  BY <1>1, CommandsAreReadBack DEF Written
<1>2. CASE LastLine(FreshState, bytes, means)
  BY <1>2, ReadInOneTurn
<1>3. CASE HeaderAndLine(bytes, means)
  BY <1>3, ReadInTwoTurns
<1> QED BY <1>1, <1>2, <1>3 DEF Legible

-----------------------------------------------------------------------------
(* A connection by itself: the requests L, the bytes s in flight and x     *)
(* withheld, the readState r, the parser's place pp and payload y, and     *)
(* what Handle has received, h.                                            *)
PartsOf(L) == [i \in DOMAIN L |-> L[i].bytes]
ReadableOf(L) == CHOOSE n \in 0..Len(L) :
  /\ \A i \in 1..n : L[i].legible
  /\ n < Len(L) => ~L[n + 1].legible
WholeOf(L, x) == {n \in 1..Len(L) : Len(Bytes(SubSeq(L, 1, n))) + x <= Len(Bytes(L))}

LoadOK(L) ==
  /\ L \in Seq(ToSet(L))
  /\ \A i \in 1..Len(L) :
       /\ L[i].bytes \in Seq(Byte)
       /\ L[i].legible => IsRead(L[i].bytes, L[i].means) /\ L[i].means \notin {Nothing, Panic}

LEMMA LoadsOK == \A l \in Loads, c \in Conn : LoadOK(l[c])
<1> SUFFICES ASSUME NEW l \in Loads, NEW c \in Conn PROVE LoadOK(l[c])
  OBVIOUS
<1> DEFINE L == l[c]
<1>1. /\ L \in Seq(ToSet(L))
      /\ \A i \in DOMAIN L : L[i].bytes \in Seq(Byte) /\ (L[i].legible => Legible(L[i].bytes, L[i].means))
  <2>1. /\ L \in Seq(ToSet(L))
        /\ \A i \in DOMAIN L : L[i].bytes \in Seq(STRING) /\ (L[i].legible => Legible(L[i].bytes, L[i].means))
    BY ServerAssumption
  <2> HIDE DEF L
  <2> QED BY <2>1, StringsAre
<1> HIDE DEF L
<1>2. DOMAIN L = 1..Len(L)
  BY <1>1
<1>3. ASSUME NEW i \in 1..Len(L)
      PROVE /\ L[i].bytes \in Seq(Byte)
            /\ L[i].legible => IsRead(L[i].bytes, L[i].means) /\ L[i].means \notin {Nothing, Panic}
  <2>1. L[i].bytes \in Seq(Byte) /\ (L[i].legible => Legible(L[i].bytes, L[i].means))
    BY <1>1, <1>2
  <2>2. Legible(L[i].bytes, L[i].means) => L[i].means \notin {Nothing, Panic}
    BY DEF Legible
  <2> QED BY <2>1, <2>2, LegibleIsRead
<1> QED BY <1>1, <1>3 DEF LoadOK, L

LEMMA PartsAre ==
  ASSUME NEW L, LoadOK(L)
  PROVE  /\ PartsOf(L) \in Seq(Seq(Byte)) /\ Len(PartsOf(L)) = Len(L) /\ Len(L) \in Nat
         /\ \A i \in 1..Len(L) : PartsOf(L)[i] = L[i].bytes
         /\ Bytes(L) = FlattenSeq(PartsOf(L)) /\ Bytes(L) \in Seq(Byte)
         /\ LaidOut(Bytes(L), PartsOf(L))
         /\ \A n \in 1..Len(L) : Len(Bytes(SubSeq(L, 1, n))) = Offset(PartsOf(L), n)
<1> DEFINE p == PartsOf(L)
           N == Len(L)
<1>1. L \in Seq(ToSet(L)) /\ N \in Nat /\ DOMAIN L = 1..N
  BY DEF LoadOK
<1>2. \A i \in 1..N : p[i] = L[i].bytes /\ p[i] \in Seq(Byte)
  BY <1>1 DEF PartsOf, LoadOK
<1>3. p = [i \in 1..N |-> p[i]]
  BY <1>1 DEF PartsOf
<1> HIDE DEF p
<1>4. p \in [1..N -> Seq(Byte)]
  BY <1>2, <1>3
<1> HIDE DEF N
<1>5. p \in Seq(Seq(Byte)) /\ Len(p) = N
  BY <1>1, <1>4
<1>6. Bytes(L) = FlattenSeq(p)
  BY DEF Bytes, p, PartsOf
<1>7. FlattenSeq(p) \in Seq(Byte) /\ LaidOut(FlattenSeq(p), p)
  BY <1>5, FlattenIs, Stretches
<1>8. ASSUME NEW n \in 1..N
      PROVE Bytes(SubSeq(L, 1, n)) = FlattenSeq(SubSeq(p, 1, n))
  <2> DEFINE q == SubSeq(L, 1, n)
             u == [i \in DOMAIN q |-> q[i].bytes]
             v == SubSeq(p, 1, n)
  <2>1. q \in Seq(ToSet(L)) /\ Len(q) = n /\ \A i \in 1..n : q[i] = L[i]
    <3>1. \A i \in 1..n : L[i] \in ToSet(L)
      BY <1>1 DEF N
    <3> HIDE DEF N
    <3> QED BY <1>1, <3>1, SubSeqProperties
  <2>2. v \in Seq(Seq(Byte)) /\ Len(v) = n /\ \A i \in 1..n : v[i] = p[i]
    <3>1. \A i \in 1..n : p[i] \in Seq(Byte)
      BY <1>1, <1>2
    <3> QED BY <1>1, <3>1, SubSeqProperties
  <2>3. Bytes(q) = FlattenSeq(u)
    BY DEF Bytes
  <2> HIDE DEF q, v
  <2>4. DOMAIN q = 1..n
    BY <2>1
  <2>5. \A i \in 1..n : u[i] = v[i] /\ u[i] \in Seq(Byte)
    BY <1>1, <1>2, <2>1, <2>2, <2>4
  <2>6. u \in [1..n -> Seq(Byte)]
    BY <2>4, <2>5
  <2> HIDE DEF u
  <2>7. u \in Seq(Seq(Byte)) /\ Len(u) = n
    BY <1>1, <2>6
  <2>8. u = v
    BY <2>2, <2>5, <2>7, SeqEqual
  <2> QED BY <2>3, <2>8 DEF q, v
<1>9. \A n \in 1..N : Len(Bytes(SubSeq(L, 1, n))) = Offset(p, n)
  BY <1>8 DEF Offset
<1> QED BY <1>1, <1>2, <1>5, <1>6, <1>7, <1>9 DEF p, N

LEMMA ReadableIs ==
  ASSUME NEW L, LoadOK(L)
  PROVE  ReadableOf(L) \in 0..Len(L) /\ \A i \in 1..ReadableOf(L) : L[i].legible
<1> DEFINE N == Len(L)
           Fits(n) == /\ \A i \in 1..n : L[i].legible
                      /\ n < N => ~L[n + 1].legible
           Bad == {i \in 1..N : ~L[i].legible}
<1>1. N \in Nat
  BY PartsAre
<1>2. \E n \in 0..N : Fits(n)
  <2>1. CASE Bad = {}
    <3>1. N \in 0..N /\ ~(N < N) /\ \A i \in 1..N : L[i].legible
      BY <1>1, <2>1
    <3> QED BY <3>1
  <2>2. CASE Bad # {}
    <3>1. Bad \subseteq Nat /\ Bad \subseteq 1..N /\ \A i \in Bad : ~L[i].legible
      OBVIOUS
    <3>2. \A i \in 1..N : i \notin Bad => L[i].legible
      OBVIOUS
    <3> HIDE DEF Bad, N
    <3>3. PICK b \in Bad : \A j \in Nat : <<j, b>> \in OpToRel(<, Nat) => ~(j \in Bad)
      BY <2>2, <3>1, NatLessThanWellFounded, WFMin
    <3>4. \A j \in Nat : j < b => j \notin Bad
      BY <3>1, <3>3 DEF OpToRel
    <3>5. b - 1 \in 0..N /\ (b - 1) + 1 = b /\ \A i \in 1..(b - 1) : i \in 1..N /\ i \in Nat /\ i < b
      BY <1>1, <3>1
    <3>6. \A i \in 1..(b - 1) : L[i].legible
      BY <3>2, <3>4, <3>5
    <3>7. ~L[(b - 1) + 1].legible
      BY <3>1, <3>5
    <3> QED BY <3>5, <3>6, <3>7
  <2> QED BY <2>1, <2>2
<1> DEFINE R == CHOOSE n \in 0..N : Fits(n)
<1>3. R = ReadableOf(L)
  BY DEF ReadableOf
<1> HIDE DEF Fits
<1>4. R \in 0..N /\ Fits(R)
  BY <1>2
<1> HIDE DEF R
<1> QED BY <1>3, <1>4 DEF Fits

-----------------------------------------------------------------------------
Reaches(L, k, t, r) == \E P :
  Reading(P, L[k + 1].bytes, L[k + 1].means) /\ <<t - Offset(PartsOf(L), k), r>> \in P
Taken(L, s, x) == Len(Bytes(L)) - x - Len(s)
GivenBy(pp, y, h) == IF pp = "send" THEN Append(h, y) ELSE h
GivenOK(L, x, g) ==
  /\ \A i \in 1..Len(g) : i <= ReadableOf(L) => g[i] = L[i].means \/ (IoError(g[i]) /\ i = Len(g))
  /\ \A i \in 1..Len(g) : g[i].kind = "eof" /\ i <= ReadableOf(L) => WholeOf(L, x) \subseteq 1..(i - 1)

(* The bytes that were taken are those of the requests answered so far and *)
(* of the one being read, in which the parser is at one of the places its  *)
(* lines begin.                                                            *)
Sound(L, s, x, r, pp, y, h) ==
  /\ \E S : h \in Seq(S)
  /\ pp \in {"none", "parse", "send"} => \A i \in 1..Len(h) : ~IoError(h[i])
  /\ \A i \in 1..Len(s) : s[i] = Bytes(L)[Taken(L, s, x) + i]
  /\ GivenOK(L, x, GivenBy(pp, y, h))
  /\ pp \in {"none", "parse", "send"} /\ (pp = "send" => ~IoError(y)) /\ Len(GivenBy(pp, y, h)) < ReadableOf(L)
       => Reaches(L, Len(GivenBy(pp, y, h)), Taken(L, s, x), r)
PartsOK(L, s, x, r) ==
  /\ LoadOK(L) /\ s \in Seq(Byte) /\ x \in Nat /\ StateOK(r) /\ Len(s) + x <= Len(Bytes(L))

LEMMA NextReached ==
  ASSUME NEW L, LoadOK(L), NEW k \in Nat, k < ReadableOf(L)
  PROVE  Reaches(L, k, Offset(PartsOf(L), k), FreshState)
<1> DEFINE R == ReadableOf(L)
           o == Offset(PartsOf(L), k)
<1>1. R \in 0..Len(L) /\ Len(L) \in Nat /\ k + 1 \in 1..R /\ k + 1 \in 1..Len(L) /\ L[k + 1].legible
  BY ReadableIs, PartsAre
<1>2. IsRead(L[k + 1].bytes, L[k + 1].means)
  BY <1>1 DEF LoadOK
<1>3. PICK P : Reading(P, L[k + 1].bytes, L[k + 1].means)
  BY <1>2 DEF IsRead
<1>4. o - o = 0
  <2>1. k \in 0..Len(PartsOf(L)) /\ LaidOut(Bytes(L), PartsOf(L))
    BY <1>1, PartsAre
  <2>2. o \in Nat
    BY <2>1 DEF LaidOut
  <2> QED BY <2>2
<1>5. <<0, FreshState>> \in P
  BY <1>3 DEF Reading
<1> QED BY <1>3, <1>4, <1>5 DEF Reaches

LEMMA LineAgrees ==
  ASSUME NEW r, StateOK(r), NEW s \in Seq(Byte), NEW w \in Seq(Byte),
         \A i \in 1..Len(s) : i <= Len(w) => s[i] = w[i], LineLength(r, w) # 0
  PROVE  /\ LineLength(r, s) # 0 => LineLength(r, s) = LineLength(r, w)
         /\ LineLength(r, s) = 0 => Len(s) < Len(w)
<1>0. Len(s) \in Nat /\ Len(w) \in Nat
  OBVIOUS
<1>1. CASE Len(w) <= Len(s)
  <2>1. \A i \in 1..Len(w) : w[i] = s[i]
    BY <1>0, <1>1
  <2> QED BY <1>1, <2>1, LinePrefix
<1>2. CASE Len(s) < Len(w)
  <2>1. \A i \in 1..Len(s) : s[i] = w[i]
    BY <1>0, <1>2
  <2>2. Len(s) <= Len(w)
    BY <1>0, <1>2
  <2> QED BY <1>2, <2>1, <2>2, LinePrefix
<1> QED BY <1>0, <1>1, <1>2

(* The parser is t bytes into request k + 1, and what its next line does.  *)
AtLine(L, s, x, r, k, P, t) ==
  /\ PartsOK(L, s, x, r) /\ k \in Nat /\ k < Len(L)
  /\ \A i \in 1..Len(s) : s[i] = Bytes(L)[Taken(L, s, x) + i]
  /\ Reading(P, L[k + 1].bytes, L[k + 1].means)
  /\ t = Taken(L, s, x) - Offset(PartsOf(L), k) /\ <<t, r>> \in P
GoesAlong(L, s, x, r, k, P, t) ==
  LET b == L[k + 1].bytes n == LineLength(r, s) turn == Parse0(r, SubSeq(s, 1, n)) IN
  /\ Taken(L, s, x) = Offset(PartsOf(L), k) + t
  /\ n # 0 => \/ turn.sent = Nothing /\ <<t + n, turn.rs>> \in P
              \/ turn.sent = L[k + 1].means /\ t + n = Len(b)
  /\ n = 0 => Len(s) < Len(b) - t

(* Whatever part of the bytes has come in, the next line of the request is *)
(* in it or has to be waited for; and then the request is not all there.   *)
LEMMA LineOfRequest ==
  ASSUME NEW L, NEW s, NEW x, NEW r, NEW k, NEW P, NEW t, AtLine(L, s, x, r, k, P, t)
  PROVE  GoesAlong(L, s, x, r, k, P, t)
<1> DEFINE b == L[k + 1].bytes
           N == Len(b)
           w == SubSeq(b, t + 1, N)
           n == LineLength(r, s)
           m == LineLength(r, w)
           B == Bytes(L)
           o == Offset(PartsOf(L), k)
           u == SubSeq(b, t + 1, t + m)
           v == SubSeq(s, 1, n)
           means == L[k + 1].means
<1>1. s \in Seq(Byte) /\ x \in Nat /\ StateOK(r) /\ LoadOK(L)
  BY DEF AtLine, PartsOK
<1>0. /\ k \in Nat /\ k < Len(L) /\ Reading(P, b, means) /\ <<t, r>> \in P
      /\ t = Taken(L, s, x) - o /\ \A i \in 1..Len(s) : s[i] = B[Taken(L, s, x) + i]
  BY DEF AtLine
<1>2. /\ B \in Seq(Byte) /\ o \in Nat /\ k + 1 \in 1..Len(L) /\ b \in Seq(Byte)
      /\ \A i \in 1..N : B[o + i] = b[i]
  <2>1. /\ Len(L) \in Nat /\ Len(PartsOf(L)) = Len(L) /\ LaidOut(B, PartsOf(L)) /\ B \in Seq(Byte)
        /\ \A i \in 1..Len(L) : PartsOf(L)[i] = L[i].bytes
    BY <1>1, PartsAre
  <2>2. k + 1 \in 1..Len(L) /\ k \in 0..Len(L) /\ (k + 1) - 1 = k
    BY <1>0, <2>1
  <2>3. b \in Seq(Byte)
    BY <1>1, <2>2 DEF LoadOK
  <2>4. PartsOf(L)[k + 1] = b
    BY <2>1, <2>2
  <2>5. \A i \in 1..N : B[o + i] = b[i]
    BY <2>1, <2>2, <2>4 DEF LaidOut
  <2>6. o \in Nat
    BY <2>1, <2>2 DEF LaidOut
  <2> QED BY <2>1, <2>2, <2>3, <2>5, <2>6
<1>3. Goes(P, t, r, b, means)
  <2>1. \A p \in P : Goes(P, p[1], p[2], b, means)
    BY <1>0 DEF Reading
  <2>2. <<t, r>>[1] = t /\ <<t, r>>[2] = r
    OBVIOUS
  <2> QED BY <1>0, <2>1, <2>2
<1> HIDE DEF b, B, o, means
<1>4. /\ t \in Nat /\ m > 0
      /\ \/ Parse0(r, u).sent = Nothing /\ <<t + m, Parse0(r, u).rs>> \in P
         \/ Parse0(r, u).sent = means /\ t + m = N
  BY <1>3 DEF Goes
<1>5. N \in Nat /\ t <= N
  <2>1. CASE N < t
    <3>1. w = <<>>
      <4>1. N < t + 1 /\ t + 1 \in Int /\ N \in Int
        BY <1>2, <1>4, <2>1
      <4> HIDE DEF N
      <4> QED BY <4>1, SubSeqEmpty
    <3>2. <<>> \in Seq(Byte) /\ Len(<<>>) = 0
      OBVIOUS
    <3>3. LineLength(r, <<>>) \in 0..Len(<<>>)
      BY <1>1, <3>2, LineLengthOK
    <3>4. m = LineLength(r, <<>>)
      BY <3>1
    <3> HIDE DEF m
    <3>5. m = 0
      BY <3>2, <3>3, <3>4
    <3> QED BY <1>4, <3>5
  <2>2. N \in Nat
    BY <1>2
  <2> HIDE DEF N, m
  <2> QED BY <1>4, <2>1, <2>2
<1>6. w \in Seq(Byte) /\ Len(w) = N - t /\ \A i \in 1..(N - t) : w[i] = b[t + i]
  <2>1. N <= Len(b)
    BY <1>5
  <2> HIDE DEF N
  <2> QED BY <1>2, <1>4, <1>5, <2>1, Window
<1>7. Taken(L, s, x) = o + t
  <2>1. Taken(L, s, x) \in Int
    BY <1>1, <1>2 DEF Taken, B
  <2> QED BY <1>0, <1>2, <1>4, <2>1
<1>8. \A i \in 1..Len(s) : i <= Len(w) => s[i] = w[i]
  <2> SUFFICES ASSUME NEW i \in 1..Len(s), i <= Len(w) PROVE s[i] = w[i]
    OBVIOUS
  <2> HIDE DEF w, N
  <2>1. i \in 1..(N - t) /\ t + i \in 1..N /\ o + t + i = o + (t + i)
    <3>1. i \in Nat /\ i <= Len(w) /\ i >= 1 /\ Len(w) = N - t
      BY <1>1, <1>6
    <3>2. o \in Nat /\ t \in Nat /\ N \in Nat /\ t <= N
      BY <1>2, <1>4, <1>5
    <3> QED BY <3>1, <3>2
  <2>2. s[i] = B[o + t + i]
    BY <1>0, <1>7
  <2> QED BY <1>2, <1>6, <2>1, <2>2
<1> HIDE DEF w, N
<1>9. (n # 0 => n = m) /\ (n = 0 => Len(s) < N - t)
  <2>1. m # 0
    BY <1>4
  <2> QED BY <1>1, <1>6, <1>8, <2>1, LineAgrees
<1>10. ASSUME n # 0
       PROVE v = u
  <2>1. n = m /\ n \in 0..Len(s) /\ m \in 0..Len(w)
    BY <1>1, <1>6, <1>9, <1>10, LineLengthOK
  <2> HIDE DEF n, m
  <2>2. n \in Nat /\ n <= Len(s) /\ n <= N - t /\ t + n <= N /\ t <= t + n /\ t + n \in Nat /\ (t + n) - t = n /\ N = Len(b)
        /\ 0 \in Nat /\ 0 <= n /\ n - 0 = n
    BY <1>4, <1>5, <1>6, <2>1 DEF N
  <2>3. u \in Seq(Byte) /\ Len(u) = n /\ \A i \in 1..n : u[i] = b[t + i]
    <3> DEFINE e == t + n
    <3>1. u = SubSeq(b, t + 1, e)
      BY <2>1
    <3>2. b \in Seq(Byte) /\ t \in Nat
      BY <1>2, <1>4
    <3>3. e \in Nat /\ t <= e /\ e <= N /\ e - t = n
      BY <2>2
    <3>4. N = Len(b)
      BY DEF N
    <3> HIDE DEF e, u
    <3>5. /\ SubSeq(b, t + 1, e) \in Seq(Byte) /\ Len(SubSeq(b, t + 1, e)) = e - t
          /\ \A i \in 1..(e - t) : SubSeq(b, t + 1, e)[i] = b[t + i]
      BY <3>2, <3>3, <3>4, Window
    <3> QED BY <3>1, <3>3, <3>5
  <2>4. v \in Seq(Byte) /\ Len(v) = n /\ \A i \in 1..n : v[i] = s[i]
    <3>1. \A i \in 1..n : s[i] \in Byte
      BY <1>1, <2>2
    <3> QED BY <2>2, <3>1, SubSeqProperties
  <2>5. \A i \in 1..n : v[i] = u[i]
    <3> SUFFICES ASSUME NEW i \in 1..n PROVE v[i] = u[i]
      OBVIOUS
    <3>1. i \in 1..Len(s) /\ i <= Len(w) /\ i \in 1..(N - t)
      BY <1>1, <1>6, <2>2
    <3> QED BY <1>6, <1>8, <2>3, <2>4, <3>1
  <2> QED BY <2>3, <2>4, <2>5, SeqEqual
<1> HIDE DEF n, m, v, u
<1> QED BY <1>4, <1>7, <1>9, <1>10 DEF GoesAlong, n, v, N, o, b, means

-----------------------------------------------------------------------------
(* What a step of the connection makes of it.                              *)
LEMMA AppendGiven ==
  ASSUME NEW L, NEW x, NEW S, NEW h \in Seq(S), NEW p, GivenOK(L, x, h), \A i \in 1..Len(h) : ~IoError(h[i]),
         NEW R \in Nat, R = ReadableOf(L),
         Len(h) < R => p = L[Len(h) + 1].means \/ IoError(p),
         Len(h) < R /\ p.kind = "eof" => WholeOf(L, x) \subseteq 1..Len(h)
  PROVE  GivenOK(L, x, Append(h, p))
<1> DEFINE g == Append(h, p)
           N == Len(h)
           W == WholeOf(L, x)
<1>1. N \in Nat /\ Len(g) = N + 1 /\ (\A i \in 1..N : g[i] = h[i]) /\ g[N + 1] = p
  OBVIOUS
<1>2. /\ \A i \in 1..N : i <= R => h[i] = L[i].means \/ (IoError(h[i]) /\ i = N)
      /\ \A i \in 1..N : h[i].kind = "eof" /\ i <= R => W \subseteq 1..(i - 1)
  BY DEF GivenOK
<1>3. Len(h) < R => (p = L[N + 1].means \/ IoError(p)) /\ (p.kind = "eof" => W \subseteq 1..N)
  OBVIOUS
<1> HIDE DEF g, W
<1>4. ASSUME NEW i \in 1..(N + 1), i <= R
      PROVE /\ g[i] = L[i].means \/ (IoError(g[i]) /\ i = N + 1)
            /\ g[i].kind = "eof" => W \subseteq 1..(i - 1)
  <2>1. CASE i = N + 1
    <3>1. N < R /\ (N + 1) - 1 = N
      BY <1>1, <1>4, <2>1
    <3> QED BY <1>1, <1>3, <2>1, <3>1
  <2>2. CASE i \in 1..N
    <3>1. g[i] = h[i] /\ ~IoError(h[i])
      BY <1>1, <2>2
    <3> QED BY <1>2, <1>4, <2>2, <3>1
  <2> QED BY <1>1, <2>1, <2>2
<1> HIDE DEF N
<1>5. GivenOK(L, x, g)
  BY <1>1, <1>4 DEF GivenOK, W
<1> QED BY <1>5 DEF g

LEMMA SoundInit ==
  ASSUME NEW L, LoadOK(L), NEW y
  PROVE  Sound(L, Bytes(L), 0, FreshState, "none", y, <<>>)
<1> DEFINE B == Bytes(L)
           h == <<>>
<1>1. B \in Seq(Byte) /\ Len(B) \in Nat /\ Len(B) - 0 - Len(B) = 0 /\ \A i \in 1..Len(B) : 0 + i = i
  BY PartsAre
<1>2. Taken(L, B, 0) = 0
  BY <1>1 DEF Taken
<1>3. h \in Seq({}) /\ Len(h) = 0 /\ 1..Len(h) = {}
  OBVIOUS
<1>4. GivenBy("none", y, h) = h
  BY DEF GivenBy
<1> HIDE DEF h, B
<1>5. GivenOK(L, 0, h)
  BY <1>3 DEF GivenOK
<1>6. 0 < ReadableOf(L) => Reaches(L, 0, 0, FreshState)
  <2>1. Offset(PartsOf(L), 0) = 0
    BY PartsAre DEF LaidOut
  <2> QED BY <2>1, NextReached
<1>7. Sound(L, B, 0, FreshState, "none", y, h)
  <2>1. \E S : h \in Seq(S)
    BY <1>3
  <2>2. \A i \in 1..Len(B) : B[i] = Bytes(L)[Taken(L, B, 0) + i]
    BY <1>1, <1>2 DEF B
  <2>3. \A i \in 1..Len(h) : ~IoError(h[i])
    BY <1>3
  <2> QED BY <1>2, <1>3, <1>4, <1>5, <1>6, <2>1, <2>2, <2>3 DEF Sound
<1> QED BY <1>7 DEF B, h

(* The client ends without sending the last n bytes.                       *)
LEMMA SoundEnds ==
  ASSUME NEW L, NEW s, NEW r, PartsOK(L, s, 0, r), NEW pp, NEW y, NEW h, Sound(L, s, 0, r, pp, y, h),
         NEW n \in 0..Len(s)
  PROVE  Sound(L, SubSeq(s, 1, Len(s) - n), n, r, pp, y, h)
<1> DEFINE B == Bytes(L)
           v == SubSeq(s, 1, Len(s) - n)
           g == GivenBy(pp, y, h)
<1>1. B \in Seq(Byte) /\ Len(B) \in Nat /\ s \in Seq(Byte) /\ Len(s) \in Nat /\ n \in Nat
  BY PartsAre DEF PartsOK
<1>2. v \in Seq(Byte) /\ Len(v) = Len(s) - n /\ \A i \in 1..Len(v) : v[i] = s[i]
  <2> DEFINE m == Len(s) - n
  <2>1. m \in 0..Len(s)
    BY <1>1
  <2> HIDE DEF m
  <2>2. \A i \in 1..m : s[i] \in Byte
    BY <1>1, <2>1
  <2> QED BY <1>1, <2>1, <2>2, SubSeqProperties DEF m
<1>3. Taken(L, v, n) = Taken(L, s, 0)
  <2> HIDE DEF v
  <2>1. Len(B) - n - Len(v) = Len(B) - 0 - Len(s)
    <3> HIDE DEF B
    <3> QED BY <1>1, <1>2
  <2> QED BY <2>1 DEF Taken
<1>4. WholeOf(L, n) \subseteq WholeOf(L, 0)
  <2> SUFFICES ASSUME NEW m \in 1..Len(L), Len(Bytes(SubSeq(L, 1, m))) + n <= Len(B)
               PROVE Len(Bytes(SubSeq(L, 1, m))) + 0 <= Len(B)
    BY DEF WholeOf
  <2>1. Len(Bytes(SubSeq(L, 1, m))) \in Nat
    <3>1. /\ Len(Bytes(SubSeq(L, 1, m))) = Offset(PartsOf(L), m) /\ Len(PartsOf(L)) = Len(L)
          /\ LaidOut(B, PartsOf(L)) /\ Len(L) \in Nat
      BY PartsAre DEF PartsOK
    <3>2. m \in 0..Len(PartsOf(L))
      BY <3>1
    <3> QED BY <3>1, <3>2 DEF LaidOut
  <2> QED BY <1>1, <2>1
<1> HIDE DEF v, g
<1>5. GivenOK(L, n, g)
  <2>1. GivenOK(L, 0, g)
    BY DEF Sound, g
  <2> QED BY <1>4, <2>1 DEF GivenOK
<1>6. \A i \in 1..Len(v) : v[i] = B[Taken(L, v, n) + i]
  <2>1. \A i \in 1..Len(v) : i \in 1..Len(s)
    BY <1>1, <1>2
  <2> QED BY <1>2, <1>3, <2>1 DEF Sound
<1>7. Sound(L, v, n, r, pp, y, h)
  BY <1>3, <1>5, <1>6 DEF Sound, g
<1> QED BY <1>7 DEF v

LEMMA ReachedBy ==
  ASSUME NEW L, NEW k, NEW P, Reading(P, L[k + 1].bytes, L[k + 1].means),
         NEW t, NEW u, NEW r, u = t - Offset(PartsOf(L), k), <<u, r>> \in P
  PROVE  Reaches(L, k, t, r)
BY DEF Reaches

(* A line is parsed.                                                       *)
LEMMA SoundParses ==
  ASSUME NEW L, NEW s, NEW x, NEW r, PartsOK(L, s, x, r), NEW y, NEW h, Sound(L, s, x, r, "parse", y, h),
         NEW n, n = LineLength(r, s), n > 0, NEW turn, turn = Parse0(r, SubSeq(s, 1, n)),
         NEW pp, pp = CASE turn.sent = Nothing -> "parse" [] turn.sent = Panic -> "panicked" [] OTHER -> "send",
         NEW z, z = IF turn.sent = Panic THEN Nothing ELSE turn.sent
  PROVE  Sound(L, SubSeq(s, n + 1, Len(s)), x, turn.rs, pp, z, h)
<1> DEFINE B == Bytes(L)
           k == Len(h)
           R == ReadableOf(L)
           v == SubSeq(s, n + 1, Len(s))
           T == Taken(L, s, x)
           p == PartsOf(L)
           g == GivenBy(pp, z, h)
           means == L[k + 1].means
<1>1. LoadOK(L) /\ s \in Seq(Byte) /\ x \in Nat /\ StateOK(r) /\ B \in Seq(Byte) /\ Len(B) \in Nat /\ Len(s) \in Nat
  BY PartsAre DEF PartsOK
<1>2. n \in 1..Len(s) /\ SubSeq(s, 1, n) \in Seq(Byte)
  <2>1. n \in 0..Len(s)
    BY <1>1, LineLengthOK
  <2>2. n \in Nat /\ \A i \in 1..n : s[i] \in Byte
    BY <1>1, <2>1
  <2> QED BY <1>1, <2>1, <2>2, SubSeqProperties
<1>3. TurnOK(turn)
  BY <1>1, <1>2, Parse0OK
<1>4. v \in Seq(Byte) /\ Len(v) = Len(s) - n /\ \A i \in 1..(Len(s) - n) : v[i] = s[n + i]
  <2>1. n \in Nat /\ n <= Len(s) /\ Len(s) <= Len(s)
    BY <1>1, <1>2
  <2> QED BY ONLY <1>1, <2>1, Window
<1>5. T \in Int /\ Taken(L, v, x) = T + n
  BY <1>1, <1>2, <1>4 DEF Taken
<1>6. /\ \E S : h \in Seq(S)
      /\ \A i \in 1..Len(h) : ~IoError(h[i])
      /\ \A i \in 1..Len(s) : s[i] = B[T + i]
      /\ GivenOK(L, x, h)
      /\ k < R => Reaches(L, k, T, r)
  <2>1. GivenBy("parse", y, h) = h
    BY DEF GivenBy
  <2> QED BY <2>1 DEF Sound
<1>7. PICK S : h \in Seq(S)
  BY <1>6
<1>8. k \in Nat /\ R \in Nat /\ R <= Len(L) /\ Len(L) \in Nat
  <2>1. R \in 0..Len(L) /\ Len(L) \in Nat
    BY <1>1, ReadableIs, PartsAre
  <2> QED BY <1>7, <2>1
<1> HIDE DEF T, v, k, R, g
<1>9. \A i \in 1..Len(v) : v[i] = B[Taken(L, v, x) + i]
  <2> SUFFICES ASSUME NEW i \in 1..Len(v) PROVE v[i] = B[Taken(L, v, x) + i]
    OBVIOUS
  <2>1. i \in 1..(Len(s) - n) /\ n + i \in 1..Len(s) /\ T + (n + i) = T + n + i
    BY <1>1, <1>2, <1>4, <1>5
  <2> QED BY <1>4, <1>5, <1>6, <2>1
<1>10. \/ turn.sent = Nothing /\ pp = "parse"
       \/ turn.sent = Panic /\ pp = "panicked"
       \/ turn.sent \notin {Nothing, Panic} /\ pp = "send" /\ z = turn.sent
  <2>1. Nothing # Panic
    BY DEF Nothing, Panic, Payload
  <2>2. CASE turn.sent = Nothing
    BY <2>1, <2>2
  <2>3. CASE turn.sent = Panic
    BY <2>1, <2>3
  <2>4. CASE turn.sent \notin {Nothing, Panic}
    BY <2>4
  <2> QED BY <2>2, <2>3, <2>4
<1>11. ASSUME k < R
       PROVE /\ turn.sent = Nothing => Reaches(L, k, T + n, turn.rs)
             /\ turn.sent # Nothing => turn.sent = means /\ T + n = Offset(p, k + 1)
  <2>1. PICK P : Reading(P, L[k + 1].bytes, means) /\ <<T - Offset(p, k), r>> \in P
    BY <1>6, <1>11 DEF Reaches
  <2> DEFINE t == T - Offset(p, k)
             b == L[k + 1].bytes
  <2>2. k < Len(L) /\ k + 1 \in 1..Len(L) /\ k \in 0..Len(L) /\ k + 1 \in 0..Len(L) /\ (k + 1) - 1 = k
    BY <1>8, <1>11
  <2>3. /\ T = Offset(p, k) + t
        /\ \/ turn.sent = Nothing /\ <<t + n, turn.rs>> \in P
           \/ turn.sent = means /\ t + n = Len(b)
    <3>1. n # 0
      BY <1>2
    <3>2. AtLine(L, s, x, r, k, P, t)
      BY <1>6, <1>8, <2>1, <2>2 DEF AtLine, T
    <3> HIDE DEF t
    <3>3. GoesAlong(L, s, x, r, k, P, t)
      BY <3>2, LineOfRequest
    <3> QED BY <3>1, <3>3 DEF GoesAlong, T
  <2>4. Offset(p, k) \in Nat /\ Offset(p, k + 1) = Offset(p, k) + Len(b)
    <3>1. Len(p) = Len(L) /\ LaidOut(B, p) /\ \A i \in 1..Len(L) : p[i] = L[i].bytes
      BY <1>1, PartsAre
    <3> HIDE DEF p
    <3> QED BY <2>2, <3>1 DEF LaidOut
  <2>5. means \notin {Nothing, Panic} /\ b \in Seq(Byte)
    <3>1. k + 1 \in 1..R
      BY <1>8, <1>11
    <3>2. L[k + 1].legible
      BY <1>1, <3>1, ReadableIs DEF R
    <3> QED BY <1>1, <2>2, <3>2 DEF LoadOK
  <2>6. T + n - Offset(p, k) = t + n /\ (t + n = Len(b) => T + n = Offset(p, k) + Len(b))
    <3> HIDE DEF p
    <3> QED BY <1>2, <1>5, <2>4
  <2>7. CASE turn.sent = Nothing
    <3>1. <<t + n, turn.rs>> \in P
      BY <2>3, <2>5, <2>7
    <3>2. Reaches(L, k, T + n, turn.rs)
      <4>1. Reading(P, L[k + 1].bytes, L[k + 1].means)
        BY <2>1
      <4> DEFINE e == T + n
                 u == t + n
                 q == turn.rs
      <4>2. <<u, q>> \in P
        BY <3>1
      <4>3. u = e - Offset(PartsOf(L), k)
        <5> DEFINE o == Offset(PartsOf(L), k)
        <5>1. T \in Int /\ n \in Int /\ t = T - o
          BY <1>2, <1>5
        <5>2. o \in Int
          BY <2>4
        <5> HIDE DEF t, o
        <5>3. u = e - o
          BY <5>1, <5>2
        <5> HIDE DEF u, e
        <5> QED BY <5>3 DEF o
      <4> HIDE DEF p, means, e, u, q
      <4>4. Reaches(L, k, e, q)
        BY <4>1, <4>2, <4>3, ReachedBy
      <4> QED BY <4>4 DEF e, q
    <3> QED BY <2>7, <3>2
  <2>8. CASE turn.sent # Nothing
    BY <2>3, <2>4, <2>6, <2>8
  <2> QED BY <2>7, <2>8
<1>12. CASE pp # "send"
  <2>1. g = h
    BY <1>12 DEF g, GivenBy
  <2>2. pp = "parse" /\ Len(g) < R => Reaches(L, Len(g), Taken(L, v, x), turn.rs)
    BY <1>5, <1>10, <1>11, <2>1 DEF k
  <2>3. pp \in {"parse", "panicked"}
    BY <1>10, <1>12
  <2> QED BY <1>6, <1>9, <2>1, <2>2, <2>3 DEF Sound, g, R, v
<1>13. CASE pp = "send"
  <2>1. g = Append(h, z) /\ Len(g) = k + 1
    BY <1>7, <1>13 DEF g, GivenBy, k
  <2>2. turn.sent \notin {Nothing, Panic} /\ z = turn.sent
    BY <1>10, <1>13
  <2>3. turn.rs = FreshState /\ z.kind \in Kinds \ IoErrors
    BY <1>3, <2>2 DEF TurnOK
  <2>4. GivenOK(L, x, g)
    <3>1. k < R => z = L[Len(h) + 1].means
      BY <1>11, <2>2 DEF k
    <3>2. z.kind # "eof"
      BY <2>3 DEF IoErrors
    <3> QED BY <1>6, <1>7, <1>8, <2>1, <3>1, <3>2, AppendGiven DEF R, k
  <2>5. Len(g) < R => Reaches(L, Len(g), Taken(L, v, x), turn.rs)
    <3> SUFFICES ASSUME k + 1 < R PROVE Reaches(L, k + 1, T + n, FreshState)
      BY <1>5, <2>1, <2>3
    <3>1. k < R /\ k + 1 \in Nat
      BY <1>8
    <3>2. T + n = Offset(p, k + 1)
      BY <1>11, <2>2, <3>1
    <3>3. Reaches(L, k + 1, Offset(p, k + 1), FreshState)
      BY <1>1, <3>1, NextReached DEF R
    <3> QED BY <3>2, <3>3
  <2> QED BY <1>6, <1>9, <1>13, <2>4, <2>5 DEF Sound, g, R, v
<1> QED BY <1>12, <1>13

(* The reading fails.  It is the end of the input only if the rest of the  *)
(* request is not there.                                                   *)
LEMMA SoundFails ==
  ASSUME NEW L, NEW s, NEW x, NEW r, PartsOK(L, s, x, r), NEW y, NEW h, Sound(L, s, x, r, "parse", y, h),
         NEW z, IoError(z), z.kind = "eof" => LineLength(r, s) = 0
  PROVE  Sound(L, <<>>, x, FreshState, "send", z, h)
<1> DEFINE B == Bytes(L)
           k == Len(h)
           R == ReadableOf(L)
           T == Taken(L, s, x)
           p == PartsOf(L)
           g == GivenBy("send", z, h)
           v == <<>>
<1>1. LoadOK(L) /\ s \in Seq(Byte) /\ x \in Nat /\ B \in Seq(Byte) /\ Len(B) \in Nat /\ Len(s) \in Nat
      /\ Len(s) + x <= Len(B)
  BY PartsAre DEF PartsOK
<1>2. /\ \E S : h \in Seq(S)
      /\ \A i \in 1..Len(h) : ~IoError(h[i])
      /\ \A i \in 1..Len(s) : s[i] = B[T + i]
      /\ GivenOK(L, x, h)
      /\ k < R => Reaches(L, k, T, r)
  <2>1. GivenBy("parse", y, h) = h
    BY DEF GivenBy
  <2> QED BY <2>1 DEF Sound
<1>3. PICK S : h \in Seq(S)
  BY <1>2
<1>4. k \in Nat /\ R \in Nat /\ R <= Len(L) /\ Len(L) \in Nat
  <2>1. R \in 0..Len(L) /\ Len(L) \in Nat
    BY <1>1, ReadableIs, PartsAre
  <2> QED BY <1>3, <2>1
<1>5. g = Append(h, z) /\ 1..Len(v) = {}
  BY DEF GivenBy
<1> HIDE DEF T, k, R, g, v
<1>6. ASSUME k < R, z.kind = "eof"
      PROVE WholeOf(L, x) \subseteq 1..k
  <2>1. PICK P : Reading(P, L[k + 1].bytes, L[k + 1].means) /\ <<T - Offset(p, k), r>> \in P
    BY <1>2, <1>6 DEF Reaches
  <2> DEFINE t == T - Offset(p, k)
             b == L[k + 1].bytes
  <2>2. k < Len(L) /\ k + 1 \in 1..Len(L) /\ k \in 0..Len(L) /\ k + 1 \in 0..Len(L) /\ (k + 1) - 1 = k
    BY <1>4, <1>6
  <2>3. T = Offset(p, k) + t /\ Len(s) < Len(b) - t
    <3>1. LineLength(r, s) = 0
      BY <1>6
    <3>2. AtLine(L, s, x, r, k, P, t)
      BY <1>2, <1>4, <2>1, <2>2 DEF AtLine, T
    <3> HIDE DEF t
    <3>3. GoesAlong(L, s, x, r, k, P, t)
      BY <3>2, LineOfRequest
    <3> QED BY <3>1, <3>3 DEF GoesAlong, T
  <2>4. /\ Len(p) = Len(L) /\ LaidOut(B, p) /\ \A i \in 1..Len(L) : p[i] = L[i].bytes
        /\ \A m \in 1..Len(L) : Len(Bytes(SubSeq(L, 1, m))) = Offset(p, m)
    BY <1>1, PartsAre
  <2> HIDE DEF p
  <2>5. Offset(p, k) \in Nat /\ Offset(p, k + 1) = Offset(p, k) + Len(b) /\ Offset(p, k + 1) \in Nat
    BY <2>2, <2>4 DEF LaidOut
  <2>6. Len(B) - x < Offset(p, k + 1)
    <3>1. T = Len(B) - x - Len(s)
      BY DEF T, Taken
    <3>2. t \in Int
      BY <1>1, <2>5, <3>1
    <3>3. Len(b) \in Int
      <4>1. b \in Seq(Byte)
        BY <1>1, <2>2 DEF LoadOK
      <4> QED BY <4>1
    <3> DEFINE e == Offset(p, k + 1)
               o == Offset(p, k)
               m == Len(b)
               l == Len(s)
               N == Len(B)
    <3>4. T = o + t /\ l < m - t /\ o \in Nat /\ e = o + m /\ x \in Nat /\ l \in Nat /\ N \in Nat
      BY <1>1, <2>3, <2>5
    <3> HIDE DEF t, b, B, e, o, m, l, N
    <3>5. T = N - x - l /\ t \in Int /\ m \in Int
      BY <3>1, <3>2, <3>3 DEF l, m, N
    <3>6. N - x < e
      BY <3>4, <3>5
    <3> QED BY <3>6 DEF e, N
  <2>7. ASSUME NEW m \in 1..Len(L), Offset(p, m) + x <= Len(B)
        PROVE m \in 1..k
    <3>1. CASE m <= k
      BY <1>4, <3>1
    <3>2. CASE k + 1 <= m
      <4>1. m \in 0..Len(p) /\ k + 1 \in 0..Len(p)
        BY <1>4, <2>2, <2>4
      <4>2. Offset(p, m) \in Nat /\ Offset(p, k + 1) <= Offset(p, m)
        BY <2>4, <3>2, <4>1 DEF LaidOut
      <4> QED BY <1>1, <2>5, <2>6, <2>7, <4>2
    <3> QED BY <1>4, <3>1, <3>2
  <2> QED BY <2>4, <2>7 DEF WholeOf
<1>7. GivenOK(L, x, g)
  <2>1. Len(h) < R => z = L[Len(h) + 1].means \/ IoError(z)
    OBVIOUS
  <2>2. Len(h) < R /\ z.kind = "eof" => WholeOf(L, x) \subseteq 1..Len(h)
    BY <1>6 DEF k
  <2> QED BY <1>2, <1>3, <1>4, <1>5, <2>1, <2>2, AppendGiven DEF R
<1>8. Sound(L, v, x, FreshState, "send", z, h)
  BY <1>2, <1>5, <1>7 DEF Sound, g
<1> QED BY <1>8 DEF v

(* The parser begins, and what it sends is received.                       *)
LEMMA SoundStores ==
  ASSUME NEW L, NEW s, NEW x, NEW r, NEW y, NEW h, NEW pp \in {"none"}, Sound(L, s, x, r, pp, y, h)
  PROVE  Sound(L, s, x, r, "parse", y, h)
<1>1. GivenBy(pp, y, h) = h /\ GivenBy("parse", y, h) = h
  BY DEF GivenBy
<1> QED BY <1>1 DEF Sound

LEMMA SoundReceives ==
  ASSUME NEW L, NEW s, NEW x, NEW r, NEW y, NEW h, Sound(L, s, x, r, "send", y, h), NEW z,
         NEW pp, pp = IF IoError(y) THEN "ended" ELSE "parse"
  PROVE  Sound(L, s, x, r, pp, z, Append(h, y))
<1> DEFINE g == Append(h, y)
<1>1. PICK S : h \in Seq(S)
  BY DEF Sound
<1>2. GivenBy("send", y, h) = g /\ GivenBy(pp, z, g) = g
  BY DEF GivenBy
<1>3. g \in Seq(S \cup {y}) /\ Len(g) = Len(h) + 1 /\ (\A i \in 1..Len(h) : g[i] = h[i]) /\ g[Len(h) + 1] = y
  <2>1. h \in Seq(S \cup {y}) /\ y \in S \cup {y}
    BY <1>1
  <2> QED BY <2>1
<1>4. pp \in {"none", "parse", "send"} => \A i \in 1..Len(g) : ~IoError(g[i])
  <2> SUFFICES ASSUME ~IoError(y), NEW i \in 1..Len(g) PROVE ~IoError(g[i])
    OBVIOUS
  <2>1. \A j \in 1..Len(h) : ~IoError(h[j])
    BY DEF Sound
  <2>2. i \in 1..Len(h) \/ i = Len(h) + 1
    BY <1>1, <1>3
  <2> QED BY <1>3, <2>1, <2>2
<1> HIDE DEF g
<1>5. Sound(L, s, x, r, pp, z, g)
  <2>1. GivenOK(L, x, g)
    BY <1>2 DEF Sound
  <2>2. pp = "parse" /\ Len(g) < ReadableOf(L) => Reaches(L, Len(g), Taken(L, s, x), r)
    BY <1>2 DEF Sound
  <2>3. pp # "send" /\ pp # "none"
    OBVIOUS
  <2>4. \A i \in 1..Len(s) : s[i] = Bytes(L)[Taken(L, s, x) + i]
    BY DEF Sound
  <2> QED BY <1>2, <1>3, <1>4, <2>1, <2>2, <2>3, <2>4 DEF Sound
<1> QED BY <1>5 DEF g

-----------------------------------------------------------------------------
SoundAt(c) == Sound(load[c], in[c], cut[c], rs[c], ppc[c], payload[c], handled[c])
AllSound == \A c \in Conn : SoundAt(c)

LEMMA ConnectionOK ==
  ASSUME InputOK, PayloadsOK, NEW c \in Conn
  PROVE  PartsOK(load[c], in[c], cut[c], rs[c])
<1>1. load \in Loads /\ in[c] \in Seq(STRING) /\ cut[c] \in Nat /\ Len(in[c]) + cut[c] <= Len(Bytes(load[c]))
  BY DEF InputOK
<1>2. LoadOK(load[c])
  BY <1>1, LoadsOK
<1>3. in[c] \in Seq(Byte)
  BY <1>1, StringsAre
<1>4. StateOK(rs[c])
  BY DEF PayloadsOK
<1> QED BY <1>1, <1>2, <1>3, <1>4 DEF PartsOK

LEMMA SoundBegins == Init => AllSound
<1> SUFFICES ASSUME Init, NEW c \in Conn PROVE SoundAt(c)
  BY DEF AllSound
<1>1. LoadOK(load[c])
  BY LoadsOK DEF Init
<1>2. in[c] = Bytes(load[c]) /\ cut[c] = 0 /\ rs[c] = FreshState /\ ppc[c] = "none" /\ handled[c] = <<>>
  BY DEF Init
<1> QED BY <1>1, <1>2, SoundInit DEF SoundAt

(* A step of a connection's parser, client or Handle, and all the others.  *)
LEMMA SoundStep ==
  ASSUME IInv, InputOK, PayloadsOK, AllSound, [Next]_vars
  PROVE  AllSound'
<1> USE DEF IInv, Typed
<1>0. load' = load
  BY DEF Next, Client, ParseStream, Handle, Woken, Serve, Close, Running, vars
<1>1. ASSUME NEW c \in Conn, in'[c] = in[c], cut'[c] = cut[c], rs'[c] = rs[c], ppc'[c] = ppc[c],
             payload'[c] = payload[c], handled'[c] = handled[c]
      PROVE SoundAt(c)'
  BY <1>0, <1>1 DEF AllSound, SoundAt
<1>2. ASSUME UNCHANGED <<in, cut, rs, ppc, payload, handled>>
      PROVE AllSound'
  BY <1>0, <1>2 DEF AllSound, SoundAt
<1>3. ASSUME NEW c \in Conn, SoundAt(c)',
             \A d \in Conn \ {c} : /\ in'[d] = in[d] /\ cut'[d] = cut[d] /\ rs'[d] = rs[d] /\ ppc'[d] = ppc[d]
                                   /\ payload'[d] = payload[d] /\ handled'[d] = handled[d]
      PROVE AllSound'
  BY <1>1, <1>3 DEF AllSound
<1>4. ASSUME NEW c \in Conn, ClientEnds(c)
      PROVE AllSound'
  <2>1. PICK n \in 0..Len(in[c]) : /\ in' = [in EXCEPT ![c] = SubSeq(@, 1, Len(@) - n)]
                                   /\ cut' = [cut EXCEPT ![c] = n]
    BY <1>4 DEF ClientEnds
  <2>2. cut[c] = 0 /\ UNCHANGED <<rs, ppc, payload, handled>>
    BY <1>4 DEF ClientEnds, InputOK, reader, handle
  <2>3. in'[c] = SubSeq(in[c], 1, Len(in[c]) - n) /\ cut'[c] = n
    BY <2>1 DEF InputOK
  <2>4. SoundAt(c)'
    <3>1. Sound(load[c], in[c], 0, rs[c], ppc[c], payload[c], handled[c]) /\ PartsOK(load[c], in[c], 0, rs[c])
      BY <2>2, ConnectionOK DEF AllSound, SoundAt
    <3>2. Sound(load[c], SubSeq(in[c], 1, Len(in[c]) - n), n, rs[c], ppc[c], payload[c], handled[c])
      BY <3>1, SoundEnds
    <3> QED BY <1>0, <2>2, <2>3, <3>2 DEF SoundAt
  <2> QED BY <1>3, <2>1, <2>2, <2>4 DEF InputOK
<1>5. ASSUME NEW c \in Conn, ParseLine(c)
      PROVE AllSound'
  <2> DEFINE n == LineLength(rs[c], in[c])
             turn == Parse0(rs[c], SubSeq(in[c], 1, n))
             z == IF turn.sent = Panic THEN Nothing ELSE turn.sent
             pp == CASE turn.sent = Nothing -> "parse" [] turn.sent = Panic -> "panicked" [] OTHER -> "send"
             v == SubSeq(in[c], n + 1, Len(in[c]))
  <2>1. /\ ppc[c] = "parse" /\ n > 0
        /\ in' = [in EXCEPT ![c] = v] /\ rs' = [rs EXCEPT ![c] = turn.rs]
        /\ payload' = [payload EXCEPT ![c] = z] /\ ppc' = [ppc EXCEPT ![c] = pp]
        /\ UNCHANGED <<cut, handled>>
    BY <1>5 DEF ParseLine, handle
  <2>2. Sound(load[c], v, cut[c], turn.rs, pp, z, handled[c])
    <3>1. Sound(load[c], in[c], cut[c], rs[c], "parse", payload[c], handled[c]) /\ PartsOK(load[c], in[c], cut[c], rs[c])
      BY <2>1, ConnectionOK DEF AllSound, SoundAt
    <3> QED BY <2>1, <3>1, SoundParses
  <2> HIDE DEF n, turn, z, pp, v
  <2>3. /\ in'[c] = v /\ rs'[c] = turn.rs /\ payload'[c] = z /\ ppc'[c] = pp
        /\ \A d \in Conn \ {c} : in'[d] = in[d] /\ rs'[d] = rs[d] /\ payload'[d] = payload[d] /\ ppc'[d] = ppc[d]
    BY <2>1 DEF InputOK, PayloadsOK
  <2>4. SoundAt(c)'
    BY <1>0, <2>1, <2>2, <2>3 DEF SoundAt
  <2> QED BY <1>3, <2>1, <2>3, <2>4
<1>6. ASSUME NEW c \in Conn, ReadFails(c)
      PROVE AllSound'
  <2>1. PICK err \in IoErrors : /\ err = "eof" => LineLength(rs[c], in[c]) = 0
                                /\ payload' = [payload EXCEPT ![c] = Payload(err, <<>>)]
    BY <1>6 DEF ReadFails
  <2> DEFINE z == Payload(err, <<>>)
  <2>2. /\ ppc[c] = "parse" /\ ppc' = [ppc EXCEPT ![c] = "send"]
        /\ in' = [in EXCEPT ![c] = <<>>] /\ rs' = [rs EXCEPT ![c] = FreshState] /\ UNCHANGED <<cut, handled>>
    BY <1>6 DEF ReadFails, handle
  <2>3. IoError(z) /\ z.kind = err
    BY DEF IoError, Payload
  <2>4. payload' = [payload EXCEPT ![c] = z]
    BY <2>1
  <2> HIDE DEF z
  <2>5. Sound(load[c], <<>>, cut[c], FreshState, "send", z, handled[c])
    <3>1. Sound(load[c], in[c], cut[c], rs[c], "parse", payload[c], handled[c]) /\ PartsOK(load[c], in[c], cut[c], rs[c])
      BY <2>2, ConnectionOK DEF AllSound, SoundAt
    <3> QED BY <2>1, <2>3, <3>1, SoundFails
  <2>6. /\ in'[c] = <<>> /\ rs'[c] = FreshState /\ payload'[c] = z /\ ppc'[c] = "send"
        /\ \A d \in Conn \ {c} : in'[d] = in[d] /\ rs'[d] = rs[d] /\ payload'[d] = payload[d] /\ ppc'[d] = ppc[d]
    BY <2>2, <2>4 DEF InputOK, PayloadsOK
  <2>7. SoundAt(c)'
    BY <1>0, <2>2, <2>5, <2>6 DEF SoundAt
  <2> QED BY <1>3, <2>2, <2>6, <2>7
<1>7. ASSUME NEW c \in Conn, Store(c)
      PROVE AllSound'
  <2>1. ppc[c] = "none"
    BY <1>7 DEF NotYetParsed, Store
  <2>2. ppc' = [ppc EXCEPT ![c] = "parse"] /\ UNCHANGED <<in, cut, rs, payload, handled>>
    BY <1>7 DEF Store, input
  <2>3. Sound(load[c], in[c], cut[c], rs[c], "parse", payload[c], handled[c])
    <3>1. Sound(load[c], in[c], cut[c], rs[c], ppc[c], payload[c], handled[c]) /\ ppc[c] \in {"none"}
      BY <2>1 DEF AllSound, SoundAt
    <3> QED BY <3>1, SoundStores
  <2>4. SoundAt(c)'
    BY <1>0, <2>2, <2>3 DEF SoundAt
  <2> QED BY <1>3, <2>2, <2>4
<1>8. ASSUME NEW c \in Conn, Receive(c)
      PROVE AllSound'
  <2> DEFINE y == payload[c]
             h == Append(handled[c], y)
             pp == IF IoError(y) THEN "ended" ELSE "parse"
  <2>1. /\ ppc[c] = "send" /\ handled' = [handled EXCEPT ![c] = h]
        /\ payload' = [payload EXCEPT ![c] = Nothing] /\ UNCHANGED <<in, cut, rs>>
    BY <1>8 DEF Receive, input
  <2>2. ppc' = [ppc EXCEPT ![c] = pp]
    BY <1>8 DEF Receive, IoError
  <2>3. Sound(load[c], in[c], cut[c], rs[c], pp, Nothing, h)
    <3>1. Sound(load[c], in[c], cut[c], rs[c], "send", y, handled[c])
      BY <2>1 DEF AllSound, SoundAt
    <3> HIDE DEF y
    <3> QED BY <3>1, SoundReceives
  <2> HIDE DEF h, pp, y
  <2>4. /\ handled'[c] = h /\ payload'[c] = Nothing /\ ppc'[c] = pp
        /\ \A d \in Conn \ {c} : handled'[d] = handled[d] /\ payload'[d] = payload[d] /\ ppc'[d] = ppc[d]
    BY <2>1, <2>2
  <2>5. SoundAt(c)'
    BY <1>0, <2>1, <2>3, <2>4 DEF SoundAt
  <2> QED BY <1>3, <2>1, <2>4, <2>5
<1>9. ASSUME NEW c \in Conn,
             \/ ClientResets(c) \/ ClientStalls(c) \/ Accept(c) \/ Check(c) \/ BeginWrite(c) \/ WriteOk(c)
             \/ WriteFails(c) \/ CloseClient(c) \/ Wakes(c) \/ Visit(c)
      PROVE UNCHANGED <<in, cut, rs, ppc, payload, handled>>
  BY <1>9 DEF ClientResets, ClientStalls, Accept, Check, BeginWrite, WriteOk, WriteFails, WriteEnds,
              CloseClient, Wakes, Visit, input, reader, handle
<1>10. ASSUME \/ AcceptFails \/ ServeEnds \/ Signal \/ CloseHandler \/ RangeEnds \/ Wait \/ TimeOut \/ CloseConn
              \/ UNCHANGED vars
       PROVE UNCHANGED <<in, cut, rs, ppc, payload, handled>>
  BY <1>10 DEF AcceptFails, ServeEnds, Signal, CloseHandler, RangeEnds, Wait, TimeOut, CloseConn, vars,
               input, reader, handle
<1>11. CASE UNCHANGED vars
  BY <1>2, <1>10, <1>11
<1>12. CASE Next
  BY <1>2, <1>4, <1>5, <1>6, <1>7, <1>8, <1>9, <1>10, <1>12, Steps
<1> QED BY <1>11, <1>12

LEMMA SoundIsAsSent == InputOK /\ AllSound => AsSent
<1> SUFFICES ASSUME InputOK, AllSound, NEW c \in Conn
             PROVE LET h == handled[c] IN
                   /\ \A i \in (DOMAIN h) \cap (1..Readable(c)) :
                        h[i] = load[c][i].means \/ (IoError(h[i]) /\ i = Len(h))
                   /\ \A i \in DOMAIN h : (h[i].kind = "eof" /\ i <= Readable(c)) => Whole(c) \subseteq 1..(i - 1)
  BY DEF AsSent
<1> DEFINE L == load[c]
           h == handled[c]
           x == cut[c]
           g == GivenBy(ppc[c], payload[c], h)
           R == ReadableOf(L)
           W == WholeOf(L, x)
<1>1. LoadOK(L)
  BY LoadsOK DEF InputOK
<1>2. Readable(c) = R /\ Whole(c) = W
  BY DEF Readable, Whole, ReadableOf, WholeOf
<1>3. R \in Nat
  <2>1. R \in 0..Len(L) /\ Len(L) \in Nat
    BY <1>1, ReadableIs, PartsAre
  <2> QED BY <2>1
<1>4. Sound(L, in[c], x, rs[c], ppc[c], payload[c], h)
  BY DEF AllSound, SoundAt
<1>5. PICK S : h \in Seq(S)
  BY <1>4 DEF Sound
<1>6. /\ \A i \in 1..Len(g) : i <= R => g[i] = L[i].means \/ (IoError(g[i]) /\ i = Len(g))
      /\ \A i \in 1..Len(g) : g[i].kind = "eof" /\ i <= R => W \subseteq 1..(i - 1)
  BY <1>4 DEF Sound, GivenOK
<1>7. ppc[c] = "send" => \A i \in 1..Len(h) : ~IoError(h[i])
  BY <1>4 DEF Sound
<1>8. IF ppc[c] = "send" THEN g = Append(h, payload[c]) ELSE g = h
  BY DEF GivenBy
<1> HIDE DEF L, h, x, g, R, W
<1>9. Len(h) \in Nat /\ DOMAIN h = 1..Len(h)
  BY <1>5
<1>10. \A i \in 1..Len(h) : i \in 1..Len(g) /\ g[i] = h[i] /\ (IoError(h[i]) => Len(g) = Len(h))
  <2>1. CASE ppc[c] = "send"
    BY <1>5, <1>7, <1>8, <2>1
  <2>2. CASE ppc[c] # "send"
    BY <1>8, <2>2
  <2> QED BY <2>1, <2>2
<1>11. \A i \in 1..Len(h) : i <= R =>
         /\ h[i] = L[i].means \/ (IoError(h[i]) /\ i = Len(h))
         /\ h[i].kind = "eof" => W \subseteq 1..(i - 1)
  BY <1>6, <1>10
<1>12. \A i \in (DOMAIN h) \cap (1..R) : i \in 1..Len(h) /\ i <= R
  BY <1>3, <1>9
<1>13. \A i \in DOMAIN h : i \in 1..Len(h)
  BY <1>9
<1> QED BY <1>2, <1>11, <1>12, <1>13 DEF L, h

(* Wherever the bytes of a request end and wherever the connection breaks, *)
(* what Handle receives is what the client has sent (AsSent).              *)
THEOREM HandledAsSent == Spec => []AsSent
<1>1. Init => InputOK /\ PayloadsOK /\ CloserOK /\ AllSound
  BY InitTyped, SoundBegins
<1>2. /\ IInv /\ InputOK /\ PayloadsOK /\ CloserOK /\ AllSound /\ [Next]_vars
      => InputOK' /\ PayloadsOK' /\ CloserOK' /\ AllSound'
  BY InputStep, PayloadsStep, CloserStep, SoundStep
<1>3. InputOK /\ AllSound => AsSent
  BY SoundIsAsSent
<1> QED BY <1>1, <1>2, <1>3, InvHolds, PTL DEF Spec
=============================================================================
