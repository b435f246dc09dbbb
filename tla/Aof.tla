--------------------------------- MODULE Aof ---------------------------------
(***************************************************************************)
(* The append-only file of aof/aof.go.  After it has run, a writing        *)
(* command is handed by its connection's goroutine to AddAof, which blocks *)
(* while the channel is full.  One goroutine, handleAof, takes the         *)
(* commands from the channel and appends them to the file, each preceded   *)
(* by a SELECT when its database is not the one of the command before.     *)
(* When the process starts, LoadAof executes the file from its beginning   *)
(* through a connection of its own, which starts in database 0.            *)
(*                                                                         *)
(* A command is told by its place in the order in which the channel        *)
(* accepted the commands, and by the database it was run in: the bytes in  *)
(* the file hold its words but not that database.  Writes appended by the  *)
(* process survive its end; the file is never synced, so the end of the    *)
(* machine may take back any number of the last of them.                   *)
(***************************************************************************)
EXTENDS Integers, Sequences, FiniteSets

CONSTANTS
  Conn,       \* the goroutines of the connections
  DB,         \* the databases: indices from 0
  QueueSize,  \* aofQueueSize
  MaxCmd,     \* bound: commands accepted
  MaxFail,    \* bound: writes that fail
  MaxStop     \* bound: times the process ends

ASSUME AofAssumption ==
  /\ DB \subseteq Nat /\ 0 \in DB
  /\ QueueSize \in Nat \ {0}
  /\ MaxCmd \in Nat /\ MaxFail \in Nat /\ MaxStop \in Nat

VARIABLES
  up,         \* is the process running?
  sending,    \* sending[c]: the database of the command c hands over, or Idle
  aofChan,    \* the channel
  item,       \* <<>>, or the command handleAof holds
  selected,   \* has handleAof written the SELECT its command needs?
  currentDB,  \* handler.currentDB
  rlocks,     \* read locks held on pausingAof
  file,       \* the entries of the append-only file
  accepted,   \* commands accepted so far
  lost,       \* those that can no longer reach the file, or were taken back
  fails,      \* writes that failed so far
  stops,      \* ends of the process so far
  misled,     \* did a process start over a file that does not end in database 0?
  killed      \* did a process end otherwise than by Close?

handler == <<item, selected, currentDB, rlocks>>
ghosts  == <<accepted, lost, fails, stops, misled, killed>>
vars == <<up, sending, aofChan, item, selected, currentDB, rlocks, file,
          accepted, lost, fails, stops, misled, killed>>

Idle == -1
Cmd(n, d)  == [op |-> "cmd", n |-> n, db |-> d]
Select(d)  == [op |-> "select", n |-> 0, db |-> d]

(* What LoadAof makes of the file: the database its connection is in when  *)
(* it comes to the i-th entry.                                             *)
InDB(f, i, d) ==
  \/ d = 0 /\ \A h \in 1..(i-1) : f[h].op = "cmd"
  \/ \E j \in 1..(i-1) :
       f[j] = Select(d) /\ \A h \in (j+1)..(i-1) : f[h].op = "cmd"

Init ==
  /\ up = TRUE
  /\ sending = [c \in Conn |-> Idle]
  /\ aofChan = <<>> /\ item = <<>> /\ selected = FALSE
  /\ currentDB = 0 /\ rlocks = 0 /\ file = <<>>
  /\ accepted = 0 /\ lost = {} /\ fails = 0 /\ stops = 0
  /\ misled = FALSE /\ killed = FALSE

-----------------------------------------------------------------------------
(* A command has run in database d; its goroutine calls addAof.            *)
AddAof(c, d) ==
  /\ up /\ sending[c] = Idle
  /\ sending' = [sending EXCEPT ![c] = d]
  /\ UNCHANGED <<up, aofChan, handler, file, ghosts>>

(* A slip of the kind this module is to catch: databases counted from 1.   *)
SendOneBased(c) ==
  /\ up /\ sending[c] # Idle
  /\ Len(aofChan) < QueueSize /\ accepted < MaxCmd
  /\ accepted' = accepted + 1
  /\ aofChan' = Append(aofChan, Cmd(accepted', sending[c] + 1))
  /\ sending' = [sending EXCEPT ![c] = Idle]
  /\ UNCHANGED <<up, handler, file, lost, fails, stops, misled, killed>>

Send(c) ==
  /\ up /\ sending[c] # Idle
  /\ Len(aofChan) < QueueSize /\ accepted < MaxCmd
  /\ accepted' = accepted + 1
  /\ aofChan' = Append(aofChan, Cmd(accepted', sending[c]))
  /\ sending' = [sending EXCEPT ![c] = Idle]
  /\ UNCHANGED <<up, handler, file, lost, fails, stops, misled, killed>>

(* A slip: Lock instead of RLock, which a lock left behind denies.         *)
ReceiveExclusive ==
  /\ up /\ item = <<>> /\ aofChan # <<>> /\ rlocks = 0
  /\ item' = <<Head(aofChan)>> /\ aofChan' = Tail(aofChan)
  /\ selected' = FALSE
  /\ rlocks' = rlocks + 1
  /\ UNCHANGED <<up, sending, currentDB, file, ghosts>>

(* handleAof takes a command and the read lock, which nobody ever denies.  *)
Receive ==
  /\ up /\ item = <<>> /\ aofChan # <<>>
  /\ item' = <<Head(aofChan)>> /\ aofChan' = Tail(aofChan)
  /\ selected' = FALSE
  /\ rlocks' = rlocks + 1
  /\ UNCHANGED <<up, sending, currentDB, file, ghosts>>

Fail(n) ==
  /\ fails < MaxFail
  /\ fails' = fails + 1
  /\ lost' = lost \cup {n}
  /\ UNCHANGED <<accepted, stops, misled, killed>>

(* A slip: the SELECT is written, but not remembered.                      *)
WriteSelectForgets ==
  /\ up /\ item # <<>> /\ ~selected /\ item[1].db # currentDB
  /\ file' = Append(file, Select(item[1].db))
  /\ selected' = TRUE
  /\ UNCHANGED <<up, sending, aofChan, item, currentDB, rlocks, ghosts>>

WriteSelect ==
  /\ up /\ item # <<>> /\ ~selected /\ item[1].db # currentDB
  /\ file' = Append(file, Select(item[1].db))
  /\ currentDB' = item[1].db
  /\ selected' = TRUE
  /\ UNCHANGED <<up, sending, aofChan, item, rlocks, ghosts>>

(* A slip: a command whose SELECT failed goes back into the channel.       *)
RequeueSelect ==
  /\ up /\ item # <<>> /\ ~selected /\ item[1].db # currentDB
  /\ fails < MaxFail /\ fails' = fails + 1
  /\ aofChan' = Append(aofChan, item[1])
  /\ item' = <<>>
  /\ UNCHANGED <<up, sending, selected, currentDB, rlocks, file,
                 accepted, lost, stops, misled, killed>>

(* The SELECT cannot be written: on to the next command, read lock kept.   *)
FailSelect ==
  /\ up /\ item # <<>> /\ ~selected /\ item[1].db # currentDB
  /\ Fail(item[1].n)
  /\ item' = <<>>
  /\ UNCHANGED <<up, sending, aofChan, selected, currentDB, rlocks, file>>

(* The command is written, or that fails, which is only logged.            *)
WriteCmd ==
  /\ up /\ item # <<>> /\ (selected \/ item[1].db = currentDB)
  /\ \/ file' = Append(file, item[1]) /\ UNCHANGED ghosts
     \/ UNCHANGED file /\ Fail(item[1].n)
  /\ item' = <<>> /\ selected' = FALSE
  /\ rlocks' = rlocks - 1
  /\ UNCHANGED <<up, sending, aofChan, currentDB>>

-----------------------------------------------------------------------------
(* The process ends.  By Close, which does nothing to the handler, or      *)
(* killed, what the channel and handleAof hold is gone; if the machine     *)
(* ends with it, so are the last writes.                                   *)
Numbers(s) == {s[i].n : i \in {j \in 1..Len(s) : s[j].op = "cmd"}}

(* A slip: writes are buffered, and nothing flushes them.                  *)
StopBuffered(kept) ==
  /\ up /\ stops < MaxStop
  /\ up' = FALSE
  /\ stops' = stops + 1
  /\ file' = <<>>
  /\ lost' = lost \cup Numbers(aofChan) \cup Numbers(item) \cup Numbers(file)
  /\ sending' = [c \in Conn |-> Idle]
  /\ aofChan' = <<>> /\ item' = <<>> /\ selected' = FALSE
  /\ UNCHANGED <<currentDB, rlocks, accepted, fails, misled>>

Stop(kept) ==
  /\ up /\ stops < MaxStop
  /\ up' = FALSE
  /\ stops' = stops + 1
  /\ file' = SubSeq(file, 1, kept)
  /\ lost' = lost \cup Numbers(aofChan) \cup Numbers(item)
                  \cup {n \in Numbers(file) : n \notin Numbers(file')}
  /\ sending' = [c \in Conn |-> Idle]
  /\ aofChan' = <<>> /\ item' = <<>> /\ selected' = FALSE
  /\ UNCHANGED <<currentDB, rlocks, accepted, fails, misled>>

Close == Stop(Len(file)) /\ UNCHANGED killed
Kill  == \E kept \in 0..Len(file) : Stop(kept) /\ killed' = TRUE

(* NewAOFHandler: LoadAof runs the file, then handleAof starts, believing  *)
(* that the file leaves its reader in database 0.                          *)
Restart ==
  /\ ~up
  /\ up' = TRUE
  /\ currentDB' = 0 /\ rlocks' = 0
  /\ misled' = (misled \/ ~InDB(file, Len(file) + 1, 0))
  /\ UNCHANGED <<sending, aofChan, item, selected, file, accepted, lost, fails, stops, killed>>

HandleAof == Receive \/ WriteSelect \/ FailSelect \/ WriteCmd

Next ==
  \/ \E c \in Conn : (\E d \in DB : AddAof(c, d)) \/ Send(c)
  \/ HandleAof
  \/ Close \/ Kill \/ Restart

Spec == Init /\ [][Next]_vars

(* handleAof is a goroutine of its own, and the senders that wait on a     *)
(* channel are served first come, first served.                            *)
FairSpec ==
  /\ Spec
  /\ WF_vars(HandleAof)
  /\ \A c \in Conn : SF_vars(Send(c))

-----------------------------------------------------------------------------
(* The type of every variable.                                             *)
Entry == [op : {"cmd", "select"}, n : Nat, db : DB]
TypeOK ==
  /\ up \in BOOLEAN /\ selected \in BOOLEAN
  /\ misled \in BOOLEAN /\ killed \in BOOLEAN
  /\ sending \in [Conn -> DB \cup {Idle}]
  /\ aofChan \in Seq(Entry) /\ file \in Seq(Entry)
  /\ item \in Seq(Entry) /\ Len(item) <= 1
  /\ currentDB \in DB /\ rlocks \in Int
  /\ accepted \in Nat /\ fails \in Nat /\ stops \in Nat
  /\ lost \subseteq Nat

(* As long as every process started over a file that ends in database 0,   *)
(* each command in the file is read back in the database it was run in,    *)
(* whatever was lost, whichever writes failed.                             *)
Routed == \A i \in 1..Len(file) : file[i].op = "cmd" => InDB(file, i, file[i].db)
RoutedRight == ~misled => Routed

(* It is inductive with these: only commands are queued; the SELECT that   *)
(* was written is the held command's; and handleAof's memory of the last   *)
(* database is where a reader of the file would be at its end.             *)
OnlyCommands == \A s \in {aofChan, item} : \A i \in 1..Len(s) : s[i].op = "cmd"
Chosen       == selected => up /\ item # <<>> /\ item[1].db = currentDB
Followed     == up /\ ~misled => InDB(file, Len(file) + 1, currentDB)
RouteInv     == TypeOK /\ OnlyCommands /\ Chosen /\ Followed /\ RoutedRight

(* The file, handleAof and the channel hold the accepted commands in the   *)
(* order of acceptance and none twice; one that is nowhere was lost to a   *)
(* failed write or with a process.                                         *)
Pipeline == file \o item \o aofChan
ExactlyOnceInOrder ==
  /\ \A i, j \in 1..Len(Pipeline) :
       i < j /\ Pipeline[i].op = "cmd" /\ Pipeline[j].op = "cmd"
         => Pipeline[i].n < Pipeline[j].n
  /\ Numbers(Pipeline) \cap lost = {}
  /\ Numbers(Pipeline) \cup lost = 1..accepted

(* An end of the process by Close, with no write failed, costs at most the *)
(* commands in the channel and the one in hand, though their clients have  *)
(* their replies: the file itself loses nothing.                           *)
LossBounded ==
  ~killed /\ fails = 0 => Cardinality(lost) <= stops * (QueueSize + 1)

(* An accepted command reaches the file unless it is lost.                 *)
Written == \A n \in 1..MaxCmd :
  n \in Numbers(aofChan) ~> n \in Numbers(file) \cup lost

(* A connection that hands over a command gets on with its work.           *)
SenderReturns == \A c \in Conn :
  (sending[c] # Idle /\ accepted < MaxCmd) ~> (sending[c] = Idle \/ accepted = MaxCmd)

(* "Records the db the last command worked on, to judge whether a SELECT   *)
(* is needed" (aof.go:39): the file always reads back right.               *)
RoutedAlways == Routed
=============================================================================
