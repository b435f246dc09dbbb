------------------------------ MODULE AofProofs ------------------------------
(***************************************************************************)
(* Theorems about the append-only file, for any number of connections,     *)
(* databases and commands and any length of the channel: where a reader of *)
(* the file applies its commands; that each is written once and in the     *)
(* order in which AddAof took them; and that Close loses no more than the  *)
(* channel holds.                                                          *)
(***************************************************************************)
EXTENDS Aof, TLAPS, FiniteSetTheorems

(* What a reader of the file makes of an entry depends on those before it. *)
LEMMA InDBAppend ==
  ASSUME NEW f \in Seq(Entry), NEW e \in Entry, NEW i \in 1..(Len(f) + 1), NEW d
  PROVE  InDB(Append(f, e), i, d) <=> InDB(f, i, d)
  <1>1. \A h \in 1..(i-1) : Append(f, e)[h] = f[h]
    OBVIOUS
  <1> QED
    BY <1>1 DEF InDB

LEMMA InDBPrefix ==
  ASSUME NEW f \in Seq(Entry), NEW k \in 0..Len(f), NEW i \in 1..(k + 1), NEW d
  PROVE  InDB(SubSeq(f, 1, k), i, d) <=> InDB(f, i, d)
  <1>1. \A h \in 1..(i-1) : SubSeq(f, 1, k)[h] = f[h]
    OBVIOUS
  <1> QED
    BY <1>1 DEF InDB

LEMMA InDBEnd ==
  ASSUME NEW f \in Seq(Entry), NEW e \in Entry, NEW d
  PROVE  /\ e = Select(d) => InDB(Append(f, e), Len(f) + 2, d)
         /\ e.op = "cmd" /\ InDB(f, Len(f) + 1, d) => InDB(Append(f, e), Len(f) + 2, d)
  <1> DEFINE g == Append(f, e)
  <1>1. g[Len(f) + 1] = e /\ \A h \in 1..Len(f) : g[h] = f[h]
    OBVIOUS
  <1>2. Len(f) \in Nat
    OBVIOUS
  <1> HIDE DEF g
  <1>3. e = Select(d) => InDB(g, Len(f) + 2, d)
    BY <1>1, <1>2 DEF InDB
  <1>4. ASSUME e.op = "cmd", InDB(f, Len(f) + 1, d) PROVE InDB(g, Len(f) + 2, d)
    BY <1>1, <1>2, <1>4 DEF InDB
  <1> QED
    BY <1>3, <1>4 DEF g

LEMMA EntrySeq ==
  ASSUME NEW s \in Seq(Entry)
  PROVE  /\ Len(s) \in Nat /\ Numbers(s) \subseteq Nat
         /\ s # <<>> => s[1] \in Entry /\ Head(s) = s[1] /\ Tail(s) \in Seq(Entry)
         /\ \A k \in 0..Len(s) : SubSeq(s, 1, k) \in Seq(Entry) /\ Len(SubSeq(s, 1, k)) = k
         /\ \A e \in Entry : Append(s, e) \in Seq(Entry)
         /\ <<>> \in Seq(Entry)
  <1>0. \A i \in 1..Len(s) : s[i] \in Entry
    OBVIOUS
  <1>1. \A i \in 1..Len(s) : s[i].n \in Nat
    BY <1>0 DEF Entry
  <1>2. Numbers(s) \subseteq Nat
    BY <1>1 DEF Numbers
  <1> QED
    BY <1>0, <1>2

LEMMA EntryType ==
  /\ \A e \in Entry : e.op \in {"cmd", "select"} /\ e.n \in Nat /\ e.db \in DB
  /\ \A n \in Nat, d \in DB : Cmd(n, d) \in Entry /\ Cmd(n, d).op = "cmd"
  /\ \A d \in DB : Select(d) \in Entry /\ Select(d).op = "select"
  BY DEF Entry, Cmd, Select

LEMMA TypeStep == TypeOK /\ [Next]_vars => TypeOK'
  <1> SUFFICES ASSUME TypeOK, [Next]_vars PROVE TypeOK'
    OBVIOUS
  <1> USE AofAssumption DEF TypeOK
  <1>1. ASSUME NEW c \in Conn, NEW d \in DB, AddAof(c, d) PROVE TypeOK'
    BY <1>1 DEF AddAof, handler, ghosts
  <1>2. ASSUME NEW c \in Conn, Send(c) PROVE TypeOK'
    <2>0. sending[c] \in DB /\ accepted' = accepted + 1 /\ accepted' \in Nat
      BY <1>2 DEF Send
    <2>1. Cmd(accepted', sending[c]) \in Entry
      BY <2>0, EntryType
    <2>2. aofChan' \in Seq(Entry)
      BY <1>2, <2>1, EntrySeq DEF Send
    <2> QED
      BY <1>2, <2>0, <2>2 DEF Send, handler
  <1>3. CASE Receive
    <2>1. Head(aofChan) \in Entry /\ Tail(aofChan) \in Seq(Entry)
      BY <1>3, EntrySeq DEF Receive
    <2>2. item' \in Seq(Entry) /\ Len(item') = 1
      BY <1>3, <2>1 DEF Receive
    <2>3. rlocks' \in Int
      BY <1>3 DEF Receive
    <2>5. selected' \in BOOLEAN
      BY <1>3 DEF Receive
    <2>4. aofChan' = Tail(aofChan) /\ UNCHANGED <<up, sending, currentDB, file, ghosts>>
      BY <1>3 DEF Receive
    <2> QED
      BY <2>1, <2>2, <2>3, <2>4, <2>5 DEF ghosts
  <1>4. CASE WriteSelect
    <2>1. item[1] \in Entry
      BY <1>4, EntrySeq DEF WriteSelect
    <2>2. Select(item[1].db) \in Entry /\ item[1].db \in DB
      BY <2>1, EntryType
    <2>3. file' \in Seq(Entry)
      BY <1>4, <2>2, EntrySeq DEF WriteSelect
    <2> QED
      BY <1>4, <2>2, <2>3 DEF WriteSelect, ghosts
  <1>5. CASE FailSelect
    <2>1. item[1].n \in Nat
      BY <1>5, EntrySeq, EntryType DEF FailSelect
    <2>2. item' \in Seq(Entry) /\ Len(item') <= 1
      BY <1>5 DEF FailSelect
    <2>3. fails' \in Nat
      BY <1>5 DEF FailSelect, Fail
    <2>4. lost' \subseteq Nat
      BY <1>5, <2>1 DEF FailSelect, Fail
    <2>5. UNCHANGED <<up, sending, aofChan, selected, currentDB, rlocks, file,
                      accepted, stops, misled, killed>>
      BY <1>5 DEF FailSelect, Fail
    <2> QED
      BY <2>2, <2>3, <2>4, <2>5
  <1>6. CASE WriteCmd
    <2>1. item[1] \in Entry /\ item[1].n \in Nat
      BY <1>6, EntrySeq, EntryType DEF WriteCmd
    <2>2. item' \in Seq(Entry) /\ Len(item') <= 1
      BY <1>6 DEF WriteCmd
    <2>3. Append(file, item[1]) \in Seq(Entry)
      BY <2>1, EntrySeq
    <2>4. file' \in Seq(Entry)
      BY <1>6, <2>3 DEF WriteCmd
    <2>5. \/ UNCHANGED ghosts
          \/ Fail(item[1].n)
      BY <1>6 DEF WriteCmd
    <2>6. fails' \in Nat
      BY <2>5 DEF Fail, ghosts
    <2>7. lost' \subseteq Nat
      BY <2>1, <2>5 DEF Fail, ghosts
    <2>8. UNCHANGED <<accepted, stops, misled, killed>>
      BY <2>5 DEF Fail, ghosts
    <2>9. rlocks' \in Int
      BY <1>6 DEF WriteCmd
    <2>10. selected' \in BOOLEAN
      BY <1>6 DEF WriteCmd
    <2>11. UNCHANGED <<up, sending, aofChan, currentDB>>
      BY <1>6 DEF WriteCmd
    <2> QED
      BY <2>2, <2>4, <2>6, <2>7, <2>8, <2>9, <2>10, <2>11
  <1>7. ASSUME NEW kept \in 0..Len(file), Stop(kept), killed' \in BOOLEAN PROVE TypeOK'
    <2>1. Numbers(aofChan) \subseteq Nat /\ Numbers(item) \subseteq Nat /\ Numbers(file) \subseteq Nat
      BY EntrySeq
    <2>2. file' \in Seq(Entry)
      BY <1>7, EntrySeq DEF Stop
    <2>3. lost' \subseteq Nat
      BY <1>7, <2>1 DEF Stop
    <2>4. /\ aofChan' \in Seq(Entry) /\ item' \in Seq(Entry) /\ Len(item') <= 1
          /\ sending' \in [Conn -> DB \cup {Idle}]
      BY <1>7 DEF Stop
    <2>5. up' \in BOOLEAN /\ selected' \in BOOLEAN
      BY <1>7 DEF Stop
    <2>6. stops' \in Nat
      BY <1>7 DEF Stop
    <2>7. UNCHANGED <<currentDB, rlocks, accepted, fails, misled>>
      BY <1>7 DEF Stop
    <2> QED
      BY <1>7, <2>2, <2>3, <2>4, <2>5, <2>6, <2>7
  <1>8. CASE Close \/ Kill
    <2>1. Len(file) \in 0..Len(file)
      BY EntrySeq
    <2> QED
      BY <1>7, <1>8, <2>1 DEF Close, Kill
  <1>9. CASE Restart
    BY <1>9 DEF Restart
  <1>10. CASE UNCHANGED vars
    BY <1>10 DEF vars
  <1> QED
    BY <1>1, <1>2, <1>3, <1>4, <1>5, <1>6, <1>8, <1>9, <1>10 DEF Next, HandleAof

-----------------------------------------------------------------------------
(* The file reads back right.  Only three steps touch the file or what     *)
(* handleAof believes of it.                                               *)
LEMMA RouteInit == Init => RouteInv
  <1> SUFFICES ASSUME Init PROVE RouteInv
    OBVIOUS
  <1>n. /\ currentDB \in DB /\ rlocks \in Int /\ lost \subseteq Nat
        /\ accepted \in Nat /\ fails \in Nat /\ stops \in Nat
    BY AofAssumption DEF Init
  <1>b. up \in BOOLEAN /\ selected \in BOOLEAN /\ misled \in BOOLEAN /\ killed \in BOOLEAN
    BY DEF Init
  <1>s. /\ sending \in [Conn -> DB \cup {Idle}]
        /\ aofChan \in Seq(Entry) /\ file \in Seq(Entry)
        /\ item \in Seq(Entry) /\ Len(item) <= 1
    BY DEF Init
  <1>1. TypeOK
    BY <1>n, <1>b, <1>s DEF TypeOK
  <1>2. InDB(file, Len(file) + 1, currentDB)
    BY DEF Init, InDB
  <1> QED
    BY <1>1, <1>2 DEF Init, RouteInv, OnlyCommands, Chosen, Followed, RoutedRight, Routed

LEMMA RouteStep == RouteInv /\ [Next]_vars => RouteInv'
  <1> SUFFICES ASSUME RouteInv, [Next]_vars PROVE RouteInv'
    OBVIOUS
  <1>0. TypeOK'
    BY TypeStep DEF RouteInv
  <1>t. /\ file \in Seq(Entry) /\ item \in Seq(Entry) /\ aofChan \in Seq(Entry)
        /\ Len(file) \in Nat /\ Len(item) <= 1 /\ currentDB \in DB
    BY EntrySeq DEF RouteInv, TypeOK
  <1>u. OnlyCommands /\ Chosen /\ Followed /\ RoutedRight
    BY DEF RouteInv
  <1>q. SUFFICES OnlyCommands' /\ Chosen' /\ Followed' /\ RoutedRight'
    BY <1>0 DEF RouteInv
  <1>1. ASSUME NEW c \in Conn, NEW d \in DB, AddAof(c, d)
        PROVE  OnlyCommands' /\ Chosen' /\ Followed' /\ RoutedRight'
    BY <1>1, <1>u DEF AddAof, handler, ghosts, OnlyCommands, Chosen, Followed, RoutedRight, Routed
  <1>2. ASSUME NEW c \in Conn, Send(c)
        PROVE  OnlyCommands' /\ Chosen' /\ Followed' /\ RoutedRight'
    <2>1. aofChan' = Append(aofChan, Cmd(accepted', sending[c]))
          /\ Cmd(accepted', sending[c]).op = "cmd"
      BY <1>2 DEF Send, Cmd
    <2>3. UNCHANGED <<up, handler, file, misled>>
      BY <1>2 DEF Send
    <2>4. Cmd(accepted', sending[c]) \in Entry
      <3>1. sending[c] \in DB /\ accepted' \in Nat
        BY <1>2, <1>0 DEF Send, RouteInv, TypeOK
      <3> QED
        BY <3>1, EntryType
    <2>5. \A i \in 1..Len(aofChan') : aofChan'[i].op = "cmd"
      BY <2>1, <2>4, <1>t, <1>u DEF OnlyCommands
    <2>2. OnlyCommands'
      BY <2>3, <2>5, <1>u DEF handler, OnlyCommands
    <2> QED
      BY <2>2, <2>3, <1>u DEF handler, Chosen, Followed, RoutedRight, Routed
  <1>3. CASE Receive
    <2>1. OnlyCommands' /\ Chosen'
      BY <1>3, <1>t, <1>u DEF Receive, OnlyCommands, Chosen
    <2>2. UNCHANGED <<up, currentDB, file, misled>>
      BY <1>3 DEF Receive, ghosts
    <2> QED
      BY <2>1, <2>2, <1>u DEF Followed, RoutedRight, Routed
  <1>4. CASE WriteSelect
    <2>1. item # <<>> /\ item[1] \in Entry /\ item[1].db \in DB
      BY <1>4, <1>t, EntrySeq, EntryType DEF WriteSelect
    <2> DEFINE e == Select(item[1].db)
    <2>2. e \in Entry /\ e.op = "select"
      BY <2>1, EntryType
    <2>3. /\ file' = Append(file, e) /\ currentDB' = item[1].db /\ selected'
          /\ up /\ UNCHANGED <<up, aofChan, item, misled>>
      BY <1>4 DEF WriteSelect, ghosts
    <2> HIDE DEF e
    <2>4. OnlyCommands' /\ Chosen'
      BY <2>1, <2>3, <1>u DEF OnlyCommands, Chosen
    <2>5. Len(file') = Len(file) + 1 /\ file'[Len(file')] = e
          /\ \A i \in 1..Len(file) : file'[i] = file[i]
      BY <2>2, <2>3, <1>t
    <2>6. InDB(file', Len(file') + 1, currentDB')
      BY <2>2, <2>3, <2>5, <1>t, InDBEnd DEF e
    <2>7. ASSUME Routed, NEW i \in 1..Len(file'), file'[i].op = "cmd"
          PROVE  InDB(file', i, file'[i].db)
      <3>1. i \in 1..Len(file) /\ file'[i] = file[i]
        BY <2>2, <2>5, <2>7, <1>t
      <3>2. InDB(file, i, file[i].db)
        BY <3>1, <2>7 DEF Routed
      <3> QED
        BY <3>1, <3>2, <2>2, <2>3, <1>t, InDBAppend
    <2> QED
      BY <2>3, <2>4, <2>6, <2>7, <1>u DEF Followed, RoutedRight, Routed
  <1>5. CASE FailSelect
    <2>1. item' = <<>> /\ ~selected' /\ UNCHANGED <<up, aofChan, currentDB, file, misled>>
      BY <1>5 DEF FailSelect, Fail
    <2> QED
      BY <2>1, <1>u DEF OnlyCommands, Chosen, Followed, RoutedRight, Routed
  <1>6. CASE WriteCmd
    <2>1. item # <<>> /\ item[1] \in Entry /\ item[1].op = "cmd" /\ item[1].db = currentDB
      BY <1>6, <1>t, <1>u, EntrySeq DEF WriteCmd, OnlyCommands, Chosen
    <2>2. item' = <<>> /\ ~selected' /\ UNCHANGED <<up, aofChan, currentDB, misled>>
      BY <1>6 DEF WriteCmd, Fail, ghosts
    <2>3. OnlyCommands' /\ Chosen'
      BY <2>2, <1>u DEF OnlyCommands, Chosen
    <2>4. CASE UNCHANGED file
      BY <2>2, <2>3, <2>4, <1>u DEF Followed, RoutedRight, Routed
    <2>5. CASE file' = Append(file, item[1])
      <3>1. Len(file') = Len(file) + 1 /\ file'[Len(file')] = item[1]
            /\ \A i \in 1..Len(file) : file'[i] = file[i]
        BY <2>1, <2>5, <1>t
      <3>2. Followed'
        <4>1. SUFFICES ASSUME up, ~misled PROVE InDB(file', Len(file') + 1, currentDB')
          BY <2>2 DEF Followed
        <4>2. InDB(file, Len(file) + 1, currentDB)
          BY <4>1, <1>u DEF Followed
        <4>3. InDB(Append(file, item[1]), Len(file) + 2, currentDB)
          BY <4>2, <2>1, <1>t, InDBEnd
        <4>4. Len(file') + 1 = Len(file) + 2
          BY <3>1, <1>t
        <4> QED
          BY <4>3, <4>4, <2>2, <2>5
      <3>3. ASSUME up /\ ~misled, NEW i \in 1..Len(file'), file'[i].op = "cmd"
            PROVE  InDB(file', i, file'[i].db)
        <4>1. i \in 1..(Len(file) + 1)
          BY <3>1, <1>t
        <4>2. InDB(file, i, file'[i].db)
          <5>1. CASE i = Len(file) + 1
            BY <5>1, <3>1, <3>3, <2>1, <1>u DEF Followed
          <5>2. CASE i \in 1..Len(file)
            BY <5>2, <3>1, <3>3, <1>u DEF RoutedRight, Routed
          <5> QED
            BY <4>1, <5>1, <5>2, <1>t
        <4> QED
          BY <4>1, <4>2, <2>1, <2>5, <1>t, InDBAppend
      <3> QED
        BY <2>2, <2>3, <3>2, <3>3, <1>6 DEF RoutedRight, Routed, WriteCmd
    <2> QED
      BY <2>4, <2>5, <1>6 DEF WriteCmd
  <1>7. ASSUME NEW kept \in 0..Len(file), Stop(kept)
        PROVE  OnlyCommands' /\ Chosen' /\ Followed' /\ RoutedRight'
    <2>1. /\ ~up' /\ item' = <<>> /\ aofChan' = <<>> /\ ~selected'
          /\ file' = SubSeq(file, 1, kept) /\ misled' = misled
      BY <1>7 DEF Stop
    <2>2. OnlyCommands' /\ Chosen' /\ Followed'
      BY <2>1 DEF OnlyCommands, Chosen, Followed
    <2>3. Len(file') = kept /\ \A i \in 1..kept : file'[i] = file[i]
      BY <2>1, <1>t
    <2>4. ASSUME Routed, NEW i \in 1..Len(file'), file'[i].op = "cmd"
          PROVE  InDB(file', i, file'[i].db)
      <3>1. i \in 1..kept /\ i \in 1..Len(file) /\ i \in 1..(kept + 1)
        BY <2>3, <1>t
      <3>2. InDB(file, i, file[i].db)
        BY <3>1, <2>3, <2>4 DEF Routed
      <3> QED
        BY <3>1, <3>2, <2>1, <2>3, <1>t, InDBPrefix
    <2> QED
      BY <2>1, <2>2, <2>4, <1>u DEF RoutedRight, Routed
  <1>8. CASE Close \/ Kill
    BY <1>7, <1>8, <1>t DEF Close, Kill
  <1>9. CASE Restart
    <2>1. /\ currentDB' = 0 /\ misled' = (misled \/ ~InDB(file, Len(file) + 1, 0))
          /\ ~up /\ UNCHANGED <<aofChan, item, selected, file>>
      BY <1>9 DEF Restart
    <2>2. OnlyCommands' /\ Followed'
      BY <2>1, <1>u DEF OnlyCommands, Followed
    <2>3. ~selected'
      BY <2>1, <1>u DEF Chosen
    <2> QED
      BY <2>1, <2>2, <1>u DEF Chosen, RoutedRight, Routed
  <1>10. CASE UNCHANGED vars
    BY <1>10, <1>u DEF vars, OnlyCommands, Chosen, Followed, RoutedRight, Routed
  <1> QED
    BY <1>1, <1>2, <1>3, <1>4, <1>5, <1>6, <1>8, <1>9, <1>10 DEF Next, HandleAof

(* The invariant that makes the file of aof.go read back right.            *)
THEOREM FileInvariance == Spec => []RouteInv
  BY RouteInit, RouteStep, PTL DEF Spec

(* The type invariant of the append-only file.                             *)
THEOREM FileTyping == Spec => []TypeOK
  <1>1. RouteInv => TypeOK
    BY DEF RouteInv
  <1> QED
    BY <1>1, FileInvariance, PTL

(* Unless a process once started over a file that does not end in database *)
(* 0, every command of the file is replayed in the database it ran in.     *)
THEOREM FileRoutedRight == Spec => []RoutedRight
  <1>1. RouteInv => RoutedRight
    BY DEF RouteInv
  <1> QED
    BY <1>1, FileInvariance, PTL

-----------------------------------------------------------------------------
(* The log is three stretches, the file, the entry handleAof works on, and *)
(* the channel; a command moves from one to the next and never back.  Each *)
(* has its commands in order; all commands of one come before those of     *)
(* another.                                                                *)
Ordered(s) ==
  \A i, j \in 1..Len(s) : i < j /\ s[i].op = "cmd" /\ s[j].op = "cmd" => s[i].n < s[j].n
Before(S, T) == \A m \in S, n \in T : m < n

OrderInv ==
  /\ Ordered(file) /\ Ordered(aofChan)
  /\ Before(Numbers(file), Numbers(item)) /\ Before(Numbers(file), Numbers(aofChan))
  /\ Before(Numbers(item), Numbers(aofChan))
  /\ (Numbers(file) \cup Numbers(item) \cup Numbers(aofChan)) \cap lost = {}
  /\ Numbers(file) \cup Numbers(item) \cup Numbers(aofChan) \cup lost = 1..accepted

(* The commands of a stretch are the numbers of its command entries.       *)
LEMMA NumbersOf ==
  ASSUME NEW s \in Seq(Entry), NEW n
  PROVE  n \in Numbers(s) <=> \E i \in 1..Len(s) : s[i].op = "cmd" /\ s[i].n = n
  BY DEF Numbers

(* An empty stretch has no command.                                        *)
LEMMA NumbersEmpty == Numbers(<<>>) = {} /\ Ordered(<<>>)
  BY DEF Numbers, Ordered

(* A command put last is in order when it comes after the others.          *)
LEMMA NumbersAppend ==
  ASSUME NEW s \in Seq(Entry), NEW e \in Entry
  PROVE  /\ Numbers(Append(s, e)) = Numbers(s) \cup (IF e.op = "cmd" THEN {e.n} ELSE {})
         /\ Ordered(s) /\ (e.op = "cmd" => Before(Numbers(s), {e.n})) => Ordered(Append(s, e))
  <1> DEFINE t == Append(s, e)
  <1>1. t \in Seq(Entry) /\ Len(t) = Len(s) + 1 /\ t[Len(s) + 1] = e
        /\ \A i \in 1..Len(s) : t[i] = s[i]
    OBVIOUS
  <1>2. Len(s) \in Nat
    OBVIOUS
  <1> HIDE DEF t
  <1>3. ASSUME NEW n PROVE n \in Numbers(t) <=> n \in Numbers(s) \/ (e.op = "cmd" /\ n = e.n)
    BY <1>1, <1>2, NumbersOf
  <1>4. Numbers(t) = Numbers(s) \cup (IF e.op = "cmd" THEN {e.n} ELSE {})
    BY <1>3
  <1>5. ASSUME Ordered(s), e.op = "cmd" => Before(Numbers(s), {e.n}) PROVE Ordered(t)
    BY <1>1, <1>2, <1>5, NumbersOf DEF Ordered, Before
  <1> QED
    BY <1>4, <1>5 DEF t

(* Taking the first entry takes the least command.                         *)
LEMMA NumbersTail ==
  ASSUME NEW s \in Seq(Entry), s # <<>>, \A i \in 1..Len(s) : s[i].op = "cmd", Ordered(s)
  PROVE  /\ Numbers(s) = Numbers(<<Head(s)>>) \cup Numbers(Tail(s))
         /\ Before(Numbers(<<Head(s)>>), Numbers(Tail(s)))
         /\ Ordered(Tail(s))
  <1> DEFINE t == Tail(s) h == <<Head(s)>>
  <1>1. /\ t \in Seq(Entry) /\ Len(t) = Len(s) - 1 /\ \A i \in 1..Len(t) : t[i] = s[i + 1]
        /\ h \in Seq(Entry) /\ Len(h) = 1 /\ h[1] = s[1]
    OBVIOUS
  <1>2. Len(s) \in Nat \ {0}
    OBVIOUS
  <1> HIDE DEF t, h
  <1>3. ASSUME NEW n PROVE n \in Numbers(s) <=> n \in Numbers(h) \/ n \in Numbers(t)
    <2>1. ASSUME NEW i \in 1..Len(s), s[i].n = n PROVE n \in Numbers(h) \/ n \in Numbers(t)
      <3>1. CASE i = 1
        <4>1. 1 \in 1..Len(h) /\ h[1].op = "cmd" /\ h[1].n = n
          BY <1>1, <1>2, <2>1, <3>1
        <4> QED BY <1>1, <4>1, NumbersOf
      <3>2. CASE i # 1
        <4>1. i - 1 \in 1..Len(t) /\ t[i - 1] = s[i]
          BY <1>1, <1>2, <3>2
        <4> QED BY <1>1, <2>1, <4>1, NumbersOf
      <3> QED BY <3>1, <3>2
    <2>2. ASSUME n \in Numbers(h) PROVE n \in Numbers(s)
      BY <1>1, <1>2, <2>2, NumbersOf
    <2>3. ASSUME n \in Numbers(t) PROVE n \in Numbers(s)
      BY <1>1, <1>2, <2>3, NumbersOf
    <2> QED BY <2>1, <2>2, <2>3, NumbersOf
  <1>4. Before(Numbers(h), Numbers(t))
    BY <1>1, <1>2, NumbersOf DEF Before, Ordered
  <1>5. Ordered(t)
    <2> SUFFICES ASSUME NEW i \in 1..Len(t), NEW j \in 1..Len(t), i < j, t[i].op = "cmd", t[j].op = "cmd"
                 PROVE  t[i].n < t[j].n
      BY DEF Ordered
    <2>1. /\ i + 1 \in 1..Len(s) /\ j + 1 \in 1..Len(s) /\ i + 1 < j + 1
          /\ t[i] = s[i + 1] /\ t[j] = s[j + 1]
      BY <1>1, <1>2
    <2> QED BY <2>1 DEF Ordered
  <1> QED
    BY <1>3, <1>4, <1>5 DEF t, h

(* A file cut short after a write that failed is still in order.           *)
LEMMA NumbersPrefix ==
  ASSUME NEW s \in Seq(Entry), NEW k \in 0..Len(s), Ordered(s)
  PROVE  Numbers(SubSeq(s, 1, k)) \subseteq Numbers(s) /\ Ordered(SubSeq(s, 1, k))
  <1> DEFINE t == SubSeq(s, 1, k)
  <1>1. t \in Seq(Entry) /\ Len(t) = k /\ \A i \in 1..k : t[i] = s[i]
    OBVIOUS
  <1>2. Len(s) \in Nat
    OBVIOUS
  <1> HIDE DEF t
  <1>3. Numbers(t) \subseteq Numbers(s)
    BY <1>1, <1>2, NumbersOf
  <1>4. Ordered(t)
    BY <1>1, <1>2 DEF Ordered
  <1> QED
    BY <1>3, <1>4 DEF t

(* Two stretches in a row.                                                 *)
LEMMA NumbersConcat ==
  ASSUME NEW s \in Seq(Entry), NEW t \in Seq(Entry)
  PROVE  /\ Numbers(s \o t) = Numbers(s) \cup Numbers(t)
         /\ Ordered(s) /\ Ordered(t) /\ Before(Numbers(s), Numbers(t)) => Ordered(s \o t)
  <1> DEFINE u == s \o t
  <1>1. /\ u \in Seq(Entry) /\ Len(u) = Len(s) + Len(t)
        /\ \A i \in 1..Len(u) : u[i] = IF i <= Len(s) THEN s[i] ELSE t[i - Len(s)]
    OBVIOUS
  <1>2. Len(s) \in Nat /\ Len(t) \in Nat
    OBVIOUS
  <1> HIDE DEF u
  <1>3. ASSUME NEW n PROVE n \in Numbers(u) <=> n \in Numbers(s) \/ n \in Numbers(t)
    <2>1. ASSUME n \in Numbers(u) PROVE n \in Numbers(s) \/ n \in Numbers(t)
      <3>1. PICK i \in 1..Len(u) : u[i].op = "cmd" /\ u[i].n = n
        BY <1>1, <2>1, NumbersOf
      <3>2. CASE i <= Len(s)
        BY <1>1, <1>2, <3>1, <3>2, NumbersOf
      <3>3. CASE i > Len(s)
        <4>1. i - Len(s) \in 1..Len(t) /\ t[i - Len(s)] = u[i]
          BY <1>1, <1>2, <3>3
        <4> QED BY <3>1, <4>1, NumbersOf
      <3> QED BY <1>2, <3>2, <3>3
    <2>2. ASSUME n \in Numbers(s) PROVE n \in Numbers(u)
      BY SMTT(30), <1>1, <1>2, <2>2, NumbersOf
    <2>3. ASSUME n \in Numbers(t) PROVE n \in Numbers(u)
      <3>1. PICK j \in 1..Len(t) : t[j].op = "cmd" /\ t[j].n = n
        BY <2>3, NumbersOf
      <3>2. j + Len(s) \in 1..Len(u) /\ ~(j + Len(s) <= Len(s)) /\ (j + Len(s)) - Len(s) = j
        BY <1>1, <1>2
      <3>4. u[j + Len(s)] = t[j]
        BY <1>1, <3>2
      <3> QED BY SMTT(30), <1>1, <3>1, <3>2, <3>4, NumbersOf
    <2> QED BY <2>1, <2>2, <2>3
  <1>4. ASSUME Ordered(s), Ordered(t), Before(Numbers(s), Numbers(t)) PROVE Ordered(u)
    <2> SUFFICES ASSUME NEW i \in 1..Len(u), NEW j \in 1..Len(u), i < j,
                        u[i].op = "cmd", u[j].op = "cmd"
                 PROVE  u[i].n < u[j].n
      BY DEF Ordered
    <2>1. CASE j <= Len(s)
      <3>1. i \in 1..Len(s) /\ j \in 1..Len(s) /\ u[i] = s[i] /\ u[j] = s[j]
        BY <1>1, <1>2, <2>1
      <3> QED BY <1>4, <3>1 DEF Ordered
    <2>2. CASE i > Len(s)
      <3>1. i - Len(s) \in 1..Len(t) /\ j - Len(s) \in 1..Len(t)
            /\ u[i] = t[i - Len(s)] /\ u[j] = t[j - Len(s)] /\ i - Len(s) < j - Len(s)
        BY <1>1, <1>2, <2>2
      <3> QED BY <1>4, <3>1 DEF Ordered
    <2>3. CASE i <= Len(s) /\ j > Len(s)
      <3>1. i \in 1..Len(s) /\ u[i] = s[i]
        BY <1>1, <1>2, <2>3
      <3>2. j - Len(s) \in 1..Len(t) /\ u[j] = t[j - Len(s)]
        BY <1>1, <1>2, <2>3
      <3>3. u[i].n \in Numbers(s) /\ u[j].n \in Numbers(t)
        BY <3>1, <3>2, NumbersOf
      <3> QED BY <1>4, <3>3 DEF Before
    <2> QED BY <1>2, <2>1, <2>2, <2>3
  <1> QED
    BY <1>3, <1>4 DEF u

(* The stretches are empty at first.                                       *)
LEMMA OrderInit == Init => OrderInv
  <1> SUFFICES ASSUME Init PROVE OrderInv
    OBVIOUS
  <1>1. file = <<>> /\ item = <<>> /\ aofChan = <<>> /\ lost = {} /\ accepted = 0
    BY DEF Init
  <1> QED
    BY <1>1, NumbersEmpty DEF OrderInv, Before

(* One step for each step of AddAof, handleAof, Close and the crash.       *)
LEMMA OrderStep == RouteInv /\ OrderInv /\ [Next]_vars => OrderInv'
  <1> SUFFICES ASSUME RouteInv, OrderInv, [Next]_vars PROVE OrderInv'
    OBVIOUS
  <1> USE AofAssumption
  <1>t. /\ file \in Seq(Entry) /\ item \in Seq(Entry) /\ aofChan \in Seq(Entry)
        /\ Len(item) <= 1 /\ accepted \in Nat /\ lost \subseteq Nat
        /\ Numbers(file) \subseteq Nat /\ Numbers(item) \subseteq Nat /\ Numbers(aofChan) \subseteq Nat
    BY EntrySeq DEF RouteInv, TypeOK
  <1>h. item # <<>> => /\ item[1] \in Entry /\ item[1].op = "cmd" /\ item[1].n \in Nat
                       /\ Numbers(item) = {item[1].n}
    <2> SUFFICES ASSUME item # <<>>
                 PROVE  item[1] \in Entry /\ item[1].op = "cmd" /\ item[1].n \in Nat /\ Numbers(item) = {item[1].n}
      OBVIOUS
    <2>0. item[1] \in Entry
      BY <1>t, EntrySeq
    <2>a. Len(item) # 0 /\ Len(item) \in Nat /\ Len(item) <= 1
      BY <1>t
    <2>1. Len(item) = 1
      BY <2>a
    <2>2. item[1].op = "cmd"
      BY <2>a, <2>1 DEF RouteInv, OnlyCommands
    <2>3. item[1].n \in Nat
      BY <2>0, EntryType
    <2>4. \A n : n \in Numbers(item) <=> n = item[1].n
      BY <1>t, <2>1, <2>2, NumbersOf
    <2> QED BY <2>0, <2>2, <2>3, <2>4
  <1>d. item # <<>> => \A n \in Numbers(file) \cup Numbers(aofChan) : n # item[1].n
    <2> SUFFICES ASSUME item # <<>>, NEW n \in Numbers(file) \cup Numbers(aofChan)
                 PROVE  n # item[1].n
      OBVIOUS
    <2>1. item[1].n \in Numbers(item) /\ item[1].n \in Nat /\ n \in Nat
      BY <1>h, <1>t
    <2>2. n < item[1].n \/ item[1].n < n
      BY <2>1 DEF OrderInv, Before
    <2> QED BY <2>1, <2>2
  <1>e. Numbers(<<>>) = {}
    BY NumbersEmpty
  <1>1. ASSUME NEW c \in Conn, NEW d \in DB, AddAof(c, d) PROVE OrderInv'
    BY <1>1 DEF AddAof, handler, ghosts, OrderInv
  <1>2. ASSUME NEW c \in Conn, Send(c) PROVE OrderInv'
    <2> DEFINE e == Cmd(accepted + 1, sending[c])
    <2>1. aofChan' = Append(aofChan, e) /\ accepted' = accepted + 1
          /\ file' = file /\ item' = item /\ lost' = lost
      BY <1>2 DEF Send, handler
    <2>a. sending[c] \in DB /\ accepted + 1 \in Nat
      BY <1>2, <1>t DEF Send, RouteInv, TypeOK
    <2>b. e.n = accepted + 1
      BY DEF Cmd
    <2>2. e \in Entry /\ e.op = "cmd" /\ e.n = accepted + 1
      BY <2>a, <2>b, EntryType
    <2> HIDE DEF e
    <2>3. Numbers(file) \cup Numbers(item) \cup Numbers(aofChan) \cup lost = 1..accepted
      BY DEF OrderInv
    <2>4. /\ Before(Numbers(file), {e.n}) /\ Before(Numbers(item), {e.n})
          /\ Before(Numbers(aofChan), {e.n}) /\ e.n \notin lost
      BY <1>t, <2>2, <2>3 DEF Before
    <2>5. Ordered(aofChan') /\ Numbers(aofChan') = Numbers(aofChan) \cup {e.n}
      BY <1>t, <2>1, <2>2, <2>4, NumbersAppend DEF OrderInv
    <2>6. 1..accepted' = 1..accepted \cup {e.n}
      BY <1>t, <2>1, <2>2
    <2> QED
      BY <2>1, <2>3, <2>4, <2>5, <2>6 DEF OrderInv, Before
  <1>3. CASE Receive
    <2>1. /\ item = <<>> /\ aofChan # <<>> /\ item' = <<Head(aofChan)>> /\ aofChan' = Tail(aofChan)
          /\ file' = file /\ lost' = lost /\ accepted' = accepted
      BY <1>3 DEF Receive, ghosts
    <2>2. \A i \in 1..Len(aofChan) : aofChan[i].op = "cmd"
      BY DEF RouteInv, OnlyCommands
    <2>3. /\ Numbers(aofChan) = Numbers(item') \cup Numbers(aofChan')
          /\ Before(Numbers(item'), Numbers(aofChan')) /\ Ordered(aofChan')
      BY <1>t, <2>1, <2>2, NumbersTail DEF OrderInv
    <2> QED
      BY <1>e, <2>1, <2>3 DEF OrderInv, Before
  <1>4. CASE WriteSelect
    <2>1. /\ item # <<>> /\ file' = Append(file, Select(item[1].db))
          /\ UNCHANGED <<item, aofChan, lost, accepted>>
      BY <1>4 DEF WriteSelect, ghosts
    <2>2. Select(item[1].db) \in Entry /\ Select(item[1].db).op = "select"
      BY <1>h, <2>1, EntryType
    <2>3. Numbers(file') = Numbers(file) /\ Ordered(file')
      BY <1>t, <2>1, <2>2, NumbersAppend DEF OrderInv
    <2> QED
      BY <2>1, <2>3 DEF OrderInv
  <1>5. CASE FailSelect
    <2>1. /\ item # <<>> /\ item' = <<>> /\ lost' = lost \cup {item[1].n}
          /\ UNCHANGED <<file, aofChan, accepted>>
      BY <1>5 DEF FailSelect, Fail
    <2>2. \A n \in Numbers(file) \cup Numbers(aofChan) : n # item[1].n
      BY <1>d, <2>1
    <2> QED
      BY <1>e, <1>h, <2>1, <2>2 DEF OrderInv, Before
  <1>6. CASE WriteCmd
    <2>1. item # <<>> /\ item' = <<>> /\ aofChan' = aofChan /\ accepted' = accepted
      BY <1>6 DEF WriteCmd, ghosts, Fail
    <2>2. CASE file' = Append(file, item[1]) /\ UNCHANGED ghosts
      <3>1. Numbers(file') = Numbers(file) \cup {item[1].n} /\ Ordered(file')
        BY <1>t, <1>h, <2>1, <2>2, NumbersAppend DEF OrderInv
      <3>2. lost' = lost
        BY <2>2 DEF ghosts
      <3> QED
        BY <1>e, <1>h, <2>1, <3>1, <3>2 DEF OrderInv, Before
    <2>3. CASE UNCHANGED file /\ Fail(item[1].n)
      <3>1. lost' = lost \cup {item[1].n} /\ file' = file
        BY <2>3 DEF Fail
      <3>2. \A n \in Numbers(file) \cup Numbers(aofChan) : n # item[1].n
        BY <1>d, <2>1
      <3> QED
        BY <1>e, <1>h, <2>1, <3>1, <3>2 DEF OrderInv, Before
    <2> QED
      BY <1>6, <2>2, <2>3 DEF WriteCmd
  <1>7. ASSUME NEW kept \in 0..Len(file), Stop(kept) PROVE OrderInv'
    <2>1. /\ file' = SubSeq(file, 1, kept) /\ item' = <<>> /\ aofChan' = <<>> /\ accepted' = accepted
          /\ lost' = lost \cup Numbers(aofChan) \cup Numbers(item)
                          \cup {n \in Numbers(file) : n \notin Numbers(file')}
      BY <1>7 DEF Stop
    <2>2. Numbers(file') \subseteq Numbers(file) /\ Ordered(file')
      BY <1>t, <2>1, NumbersPrefix DEF OrderInv
    <2>3. Numbers(file') \cap (Numbers(item) \cup Numbers(aofChan)) = {}
      BY <1>t, <2>2 DEF OrderInv, Before
    <2> HIDE DEF OrderInv
    <2>4. Numbers(item') = {} /\ Numbers(aofChan') = {} /\ Ordered(aofChan')
      BY <2>1, NumbersEmpty
    <2>5. (Numbers(file') \cup Numbers(item') \cup Numbers(aofChan')) \cap lost' = {}
      BY <2>1, <2>2, <2>3, <2>4 DEF OrderInv
    <2>6. Numbers(file') \cup Numbers(item') \cup Numbers(aofChan') \cup lost' = 1..accepted'
      BY <2>1, <2>2, <2>4 DEF OrderInv
    <2> QED
      BY <2>2, <2>4, <2>5, <2>6 DEF OrderInv, Before
  <1>8. CASE Close
    <2>1. Len(file) \in 0..Len(file)
      BY <1>t
    <2> QED
      BY <1>7, <1>8, <2>1 DEF Close
  <1>9. CASE Kill
    BY <1>7, <1>9 DEF Kill
  <1>10. CASE Restart
    BY <1>10 DEF Restart, OrderInv
  <1>11. CASE UNCHANGED vars
    BY <1>11 DEF vars, OrderInv
  <1> QED
    BY <1>1, <1>2, <1>3, <1>4, <1>5, <1>6, <1>8, <1>9, <1>10, <1>11 DEF Next, HandleAof

(* Stretches that are in order, one before the other, are the whole log.   *)
LEMMA OrderSays == RouteInv /\ OrderInv => ExactlyOnceInOrder
  <1> SUFFICES ASSUME RouteInv, OrderInv PROVE ExactlyOnceInOrder
    OBVIOUS
  <1>1. file \in Seq(Entry) /\ item \in Seq(Entry) /\ aofChan \in Seq(Entry) /\ Len(item) <= 1
    BY DEF RouteInv, TypeOK
  <1>2. Ordered(item)
    BY <1>1 DEF Ordered
  <1>3. /\ Ordered(file \o item) /\ Numbers(file \o item) = Numbers(file) \cup Numbers(item)
        /\ file \o item \in Seq(Entry)
    BY <1>1, <1>2, NumbersConcat DEF OrderInv
  <1>4. Before(Numbers(file \o item), Numbers(aofChan))
    BY <1>3 DEF OrderInv, Before
  <1>5. Ordered(Pipeline) /\ Numbers(Pipeline) = Numbers(file) \cup Numbers(item) \cup Numbers(aofChan)
    BY <1>1, <1>3, <1>4, NumbersConcat DEF OrderInv, Pipeline
  <1> QED
    BY <1>5 DEF ExactlyOnceInOrder, OrderInv, Ordered

(* Every command AddAof took is in the file once, after those taken before *)
(* it, or still on its way there, or lost when Close abandoned the channel *)
(* (AddAof, handleAof, aof.go).                                            *)
THEOREM FileExactlyOnce == Spec => []ExactlyOnceInOrder
  BY RouteInit, RouteStep, OrderInit, OrderStep, OrderSays, PTL DEF Spec

-----------------------------------------------------------------------------
(* A stretch is finite, and has no more commands than entries.             *)
LEMMA NumbersBound ==
  ASSUME NEW s \in Seq(Entry)
  PROVE  IsFiniteSet(Numbers(s)) /\ Cardinality(Numbers(s)) <= Len(s)
         /\ Cardinality(Numbers(s)) \in Nat
  <1> DEFINE D == {j \in 1..Len(s) : s[j].op = "cmd"}
             f == [j \in D |-> s[j].n]
  <1>1. f \in Surjection(D, Numbers(s))
    BY DEF Numbers, Surjection
  <1>2. IsFiniteSet(1..Len(s)) /\ Cardinality(1..Len(s)) = Len(s) /\ Len(s) \in Nat
    <2>1. Len(s) \in Nat
      OBVIOUS
    <2> QED BY SMTT(30), <2>1, FS_Interval
  <1>3. IsFiniteSet(D) /\ Cardinality(D) <= Len(s)
    <2>1. D \in SUBSET (1..Len(s))
      OBVIOUS
    <2> QED BY <1>2, <2>1, FS_Subset
  <1> HIDE DEF D, f
  <1>4. IsFiniteSet(Numbers(s)) /\ Cardinality(Numbers(s)) <= Cardinality(D)
    BY <1>1, <1>3, FS_Surjection
  <1>5. Cardinality(Numbers(s)) \in Nat /\ Cardinality(D) \in Nat
    BY <1>3, <1>4, FS_CardinalityType
  <1> QED
    BY <1>2, <1>3, <1>4, <1>5

(* Two finite sets have together at most what both have.                   *)
LEMMA CardUnion ==
  ASSUME NEW S, NEW T, IsFiniteSet(S), IsFiniteSet(T)
  PROVE  /\ Cardinality(S \cup T) <= Cardinality(S) + Cardinality(T)
         /\ IsFiniteSet(S \cup T) /\ Cardinality(S \cup T) \in Nat
  <1>1. IsFiniteSet(S \cup T) /\ IsFiniteSet(S \cap T)
        /\ Cardinality(S \cup T) = Cardinality(S) + Cardinality(T) - Cardinality(S \cap T)
    BY FS_Union, FS_Intersection
  <1>2. {Cardinality(S), Cardinality(T), Cardinality(S \cap T), Cardinality(S \cup T)} \subseteq Nat
    BY <1>1, FS_CardinalityType
  <1> QED
    BY <1>1, <1>2

(* The channel is never over its capacity, so Close loses no more.         *)
LossInv == Len(aofChan) <= QueueSize /\ LossBounded

(* Nothing is lost at first.                                               *)
LEMMA LossInit == Init => LossInv
  <1> SUFFICES ASSUME Init PROVE LossInv
    OBVIOUS
  <1>1. Len(aofChan) = 0 /\ lost = {} /\ stops = 0
    BY DEF Init
  <1>2. Cardinality(lost) = 0
    BY <1>1, FS_EmptySet
  <1> QED
    BY <1>1, <1>2, AofAssumption DEF LossInv, LossBounded

(* Only the end of the process loses commands: those not yet written.      *)
LEMMA LossStep == RouteInv /\ OrderInv /\ LossInv /\ [Next]_vars => LossInv'
  <1> SUFFICES ASSUME RouteInv, OrderInv, LossInv, [Next]_vars PROVE LossInv'
    OBVIOUS
  <1> USE AofAssumption
  <1>t. /\ item \in Seq(Entry) /\ aofChan \in Seq(Entry) /\ file \in Seq(Entry)
        /\ Len(item) <= 1 /\ stops \in Nat /\ accepted \in Nat /\ fails \in Nat
    BY DEF RouteInv, TypeOK
  <1>u. Len(aofChan) <= QueueSize /\ Len(aofChan) \in Nat
    BY <1>t DEF LossInv
  <1>1. ASSUME NEW c \in Conn, Send(c) PROVE LossInv'
    <2>1. aofChan' = Append(aofChan, Cmd(accepted', sending[c])) /\ Len(aofChan) < QueueSize
          /\ UNCHANGED <<lost, fails, stops, killed>>
      BY <1>1 DEF Send
    <2>2. Len(aofChan') = Len(aofChan) + 1
      BY <1>t, <2>1
    <2> QED
      BY <1>u, <2>1, <2>2 DEF LossInv, LossBounded
  <1>2. CASE Receive
    <2>1. aofChan # <<>> /\ aofChan' = Tail(aofChan) /\ UNCHANGED <<lost, fails, stops, killed>>
      BY <1>2 DEF Receive, ghosts
    <2>2. Len(aofChan') = Len(aofChan) - 1
      BY <1>t, <2>1
    <2> QED
      BY <1>u, <2>1, <2>2 DEF LossInv, LossBounded
  <1>3. ASSUME NEW c \in Conn, NEW d \in DB, AddAof(c, d) PROVE LossInv'
    BY <1>3 DEF AddAof, handler, ghosts, LossInv, LossBounded
  <1>4. CASE WriteSelect \/ Restart
    BY <1>4 DEF WriteSelect, Restart, ghosts, LossInv, LossBounded
  <1>5. ASSUME NEW n, Fail(n), aofChan' = aofChan PROVE LossInv'
    <2>1. fails' # 0
      BY <1>5, <1>t DEF Fail
    <2> QED
      BY <1>5, <2>1 DEF LossInv, LossBounded
  <1>6. CASE FailSelect
    BY <1>5, <1>6 DEF FailSelect
  <1>7. CASE WriteCmd
    BY <1>5, <1>7 DEF WriteCmd, ghosts, LossInv, LossBounded
  <1>8. CASE Close
    <2>1. /\ aofChan' = <<>> /\ stops' = stops + 1 /\ UNCHANGED <<fails, killed>>
          /\ lost' = lost \cup Numbers(aofChan) \cup Numbers(item)
                          \cup {n \in Numbers(file) : n \notin Numbers(file')}
          /\ file' = SubSeq(file, 1, Len(file))
      BY <1>8 DEF Close, Stop
    <2>2. file' = file
      BY <1>t, <2>1
    <2>3. lost' = (lost \cup Numbers(aofChan)) \cup Numbers(item)
      BY <2>1, <2>2
    <2>4. IsFiniteSet(lost)
      <3>1. lost \in SUBSET (1..accepted)
        BY DEF OrderInv
      <3>2. IsFiniteSet(1..accepted)
        BY <1>t, FS_Interval
      <3> QED BY <3>1, <3>2, FS_Subset
    <2> DEFINE a == Cardinality(lost) b == Cardinality(Numbers(aofChan)) z == Cardinality(Numbers(item))
               ab == Cardinality(lost \cup Numbers(aofChan))
    <2>5. /\ IsFiniteSet(Numbers(aofChan)) /\ b <= Len(aofChan) /\ b \in Nat
          /\ IsFiniteSet(Numbers(item)) /\ z <= Len(item) /\ z \in Nat /\ a \in Nat
      BY <1>t, <2>4, NumbersBound, FS_CardinalityType
    <2>6. ab <= a + b /\ IsFiniteSet(lost \cup Numbers(aofChan)) /\ ab \in Nat
      BY <2>4, <2>5, CardUnion
    <2>7. Cardinality(lost') <= ab + z /\ Cardinality(lost') \in Nat
      BY <2>3, <2>5, <2>6, CardUnion
    <2>a. Len(aofChan') <= QueueSize
      BY <2>1
    <2>b. Len(item) \in Nat
      BY <1>t
    <2> HIDE DEF a, b, z, ab
    <2>8. b <= QueueSize /\ z <= 1
      BY <1>t, <1>u, <2>5, <2>b
    <2>9. Cardinality(lost') <= a + (QueueSize + 1)
      BY <2>5, <2>6, <2>7, <2>8
    <2>10. ASSUME ~killed, fails = 0 PROVE Cardinality(lost') <= (stops + 1) * (QueueSize + 1)
      <3>1. a <= stops * (QueueSize + 1)
        BY <2>10 DEF LossInv, LossBounded, a
      <3>2. (stops + 1) * (QueueSize + 1) = stops * (QueueSize + 1) + (QueueSize + 1)
        BY <1>t
      <3>3. stops * (QueueSize + 1) \in Nat
        BY <1>t
      <3> HIDE DEF LossInv
      <3> QED BY <2>5, <2>7, <2>9, <3>1, <3>2, <3>3
    <2> QED
      BY <2>1, <2>a, <2>10 DEF LossInv, LossBounded
  <1>9. CASE Kill
    <2>1. killed' = TRUE /\ aofChan' = <<>>
      BY <1>9 DEF Kill, Stop
    <2> QED
      BY <2>1 DEF LossInv, LossBounded
  <1>10. CASE UNCHANGED vars
    BY <1>10 DEF vars, LossInv, LossBounded
  <1> QED
    BY <1>1, <1>2, <1>3, <1>4, <1>6, <1>7, <1>8, <1>9, <1>10 DEF Next, HandleAof

(* Closing the handler loses at most the commands in the channel and the   *)
(* one in hand, as long as no write failed and no process was killed       *)
(* (Close and handleAof, aof.go).                                          *)
THEOREM FileLossBounded == Spec => []LossBounded
  <1>1. LossInv => LossBounded
    BY DEF LossInv
  <1> QED
    BY <1>1, RouteInit, RouteStep, OrderInit, OrderStep, LossInit, LossStep, PTL DEF Spec
=============================================================================
