------------------------------- MODULE Commands -------------------------------
(***************************************************************************)
(* The commands on strings and keys (database/string.go, database/keys.go) *)
(* as the goroutines of many connections run them at once over the         *)
(* databases of one StandaloneDatabase, and what their log would rebuild.  *)
(*                                                                         *)
(* No command holds a lock: it is a sequence of operations of the dict of  *)
(* its database, each atomic on its own (module DictSpec), with other      *)
(* commands in between.  A command that changed something hands itself to  *)
(* addAof as its last act, some time after its effect; the log is the      *)
(* commands in the order of those last acts, and `saved' is what LoadAof   *)
(* makes of it by running it from the start, one command at a time.        *)
(*                                                                         *)
(* Clear is one step here: an operation that overlaps it and works on the  *)
(* old table leaves what it would have left just before it.  Commands that *)
(* only read (GET, MGET, EXISTS, STRLEN, GETRANGE, TYPE, KEYS) change no   *)
(* state and are left out, as are lists and sets.                          *)
(***************************************************************************)
EXTENDS Integers, Sequences

CONSTANTS
  Client,     \* the goroutines of the connections
  Key,
  NDB,        \* config.Properties.Databases
  Half,       \* an int64 is one of -Half..Half-1
  Text,       \* strings that ParseInt refuses
  Nil,        \* what looking up a missing key finds
  Appended,   \* what APPEND makes of a string, or of no string
  SetVal,     \* the values SET and its kin are given
  Delta,      \* the increments INCRBY and its kin are given
  Index,      \* the indices SELECT is given
  Uses,       \* bound: which keys are used in which database
  Ops         \* the commands in use

Int64 == -Half..(Half - 1)
Str   == Int64 \cup Text
DB    == 0..(NDB - 1)

ASSUME StrAssumption ==
  /\ Half \in Nat \ {0}
  /\ Text \cap Int64 = {} /\ Nil \notin Str
  /\ SetVal \subseteq Str /\ Delta \subseteq Int64
  /\ Appended \in [Str \cup {Nil} -> Str]
ASSUME DBAssumption ==
  /\ NDB \in Nat \ {0} /\ Index \subseteq Int
  /\ Uses \subseteq [DB -> SUBSET Key]

VARIABLES
  data,     \* data[d][k]: the value of key k in database d
  saved,    \* the same, as the log would rebuild it
  conn,     \* conn[c]: the database c has selected
  pc,       \* where the command of c is
  cmd,      \* the command
  i,        \* which of its keys it is at
  got,      \* what it has read
  deleted,  \* has its Removes met a key?
  apart,    \* apart[d]: keys whose value in memory and log may differ
  used      \* bound: used[d], the keys used in database d

vars == <<data, saved, conn, pc, cmd, i, got, deleted, apart, used>>

Wrap(n) == ((n + Half) % (2 * Half)) - Half

Singles == {<<k>> : k \in Key}
Pairs   == Key \X Key
Couples == {p \in Pairs : p[1] # p[2]}
Command(o, keys, vals) ==
  [op : {o} \cap Ops, db : DB, keys : keys, val : vals]
CommandSet ==
  (UNION {Command(o, Singles, SetVal) : o \in {"set", "setnx", "setxx", "getset"}})
    \cup (UNION {Command(o, Couples, SetVal) : o \in {"mset", "msetnx"}})
    \cup Command("incrby", Singles, Delta)
    \cup Command("append", Singles, {Nil})
    \cup Command("del", Singles \cup Couples, {Nil})
    \cup (UNION {Command(o, Pairs, {Nil}) : o \in {"rename", "renamenx"}})
    \cup Command("flushdb", {<<>>}, {Nil})
NoCommand == [op |-> "none", db |-> 0, keys |-> <<>>, val |-> Nil]

Empty == [k \in Key |-> Nil]
Init ==
  /\ data  = [d \in DB |-> Empty]
  /\ saved = [d \in DB |-> Empty]
  /\ conn  = [c \in Client |-> 0]
  /\ pc    = [c \in Client |-> "idle"]
  /\ cmd   = [c \in Client |-> NoCommand]
  /\ i     = [c \in Client |-> 1]
  /\ got   = [c \in Client |-> Nil]
  /\ deleted = [c \in Client |-> FALSE]
  /\ apart = [d \in DB |-> {}]
  /\ used \in Uses

-----------------------------------------------------------------------------
Op(c)     == cmd[c].op
At(c, n)  == cmd[c].keys[n]
Memory(c) == data[cmd[c].db]

Goto(c, from, to) == pc[c] = from /\ pc' = [pc EXCEPT ![c] = to] /\ UNCHANGED used
Move(c, n)     == i' = [i EXCEPT ![c] = n]
Store(c, k, v) == data' = [data EXCEPT ![cmd[c].db][k] = v]
Reply(c, from) ==
  /\ Goto(c, from, "idle")
  /\ cmd' = [cmd EXCEPT ![c] = NoCommand]
  /\ got' = [got EXCEPT ![c] = Nil]
  /\ deleted' = [deleted EXCEPT ![c] = FALSE]
  /\ Move(c, 1)

(* The keys a command works on, as a set.                                  *)
Touched(x) == IF x.op = "flushdb" THEN used[x.db] ELSE {x.keys[n] : n \in DOMAIN x.keys}
(* The keys that are no longer followed when x begins: those of x and of   *)
(* the commands it overlaps on a key.                                      *)
Rivals(x) == {r \in Client : pc[r] # "idle" /\ cmd[r].db = x.db
                               /\ Touched(cmd[r]) \cap Touched(x) # {}}
Disturbed(x) ==
  IF Rivals(x) = {} THEN {}
  ELSE Touched(x) \cup UNION {Touched(cmd[r]) : r \in Rivals(x)}

FirstStep(o) ==
  CASE o = "mset" -> "put"
    [] o \in {"msetnx", "renamenx"} -> "test"
    [] o = "del" -> "find"
    [] OTHER -> "start"

(* StandaloneDatabase.Exec and DB.Exec: to the database of the connection. *)
(* While that is a negative one, commands panic, and nothing happens.      *)
(* Bound: a command does not begin on keys that are no longer followed.    *)
Exec(c, x) ==
  /\ x.db = conn[c] /\ Touched(x) \subseteq used[x.db] \ apart[x.db]
  /\ Goto(c, "idle", FirstStep(x.op))
  /\ cmd' = [cmd EXCEPT ![c] = x]
  /\ apart' = [apart EXCEPT ![x.db] = @ \cup Disturbed(x)]
  /\ UNCHANGED <<data, saved, conn, i, got, deleted>>

(* execSelect refuses an index past the last database, and no other.       *)
Select(c, n) ==
  /\ pc[c] = "idle" /\ n < NDB
  /\ conn' = [conn EXCEPT ![c] = n]
  /\ UNCHANGED <<data, saved, pc, cmd, i, got, deleted, apart, used>>

(* SET and its options, SETNX: one dict operation, logged in any case.     *)
Kept(o, old) == (o = "setnx" /\ old # Nil) \/ (o = "setxx" /\ old = Nil)
Set(c) ==
  LET k == At(c, 1) old == Memory(c)[k] IN
  /\ Op(c) \in {"set", "setnx", "setxx"}
  /\ Goto(c, "start", "log")
  /\ Store(c, k, IF Kept(Op(c), old) THEN old ELSE cmd[c].val)
  /\ UNCHANGED <<saved, conn, cmd, i, got, deleted, apart>>

(* MSETNX looks every key up first.                                        *)
MSetNXTest(c) ==
  /\ Op(c) = "msetnx"
  /\ \/ /\ Memory(c)[At(c, i[c])] # Nil
        /\ Reply(c, "test")
     \/ /\ Memory(c)[At(c, i[c])] = Nil
        /\ IF i[c] < Len(cmd[c].keys)
           THEN Goto(c, "test", "test") /\ Move(c, i[c] + 1)
           ELSE Goto(c, "test", "put") /\ Move(c, 1)
        /\ UNCHANGED <<cmd, got, deleted>>
  /\ UNCHANGED <<data, saved, conn, apart>>

MSetPut(c) ==
  /\ Op(c) \in {"mset", "msetnx"}
  /\ Store(c, At(c, i[c]), cmd[c].val)
  /\ IF i[c] < Len(cmd[c].keys)
     THEN Goto(c, "put", "put") /\ Move(c, i[c] + 1)
     ELSE Goto(c, "put", "log") /\ UNCHANGED i
  /\ UNCHANGED <<saved, conn, cmd, got, deleted, apart>>

-----------------------------------------------------------------------------
(* Commands that read the key, compute and put the result back: GETSET,    *)
(* INCR, INCRBY, DECR, DECRBY (their increments are those of "incrby") and *)
(* APPEND.  Counting a string that is no integer is an error.              *)
Modifiers == {"getset", "incrby", "append"}
Accepts(x, old) == x.op = "incrby" => old \in Int64 \cup {Nil}
(* A slip of the kind this module is to catch: integers without a width.   *)
ModifiedUnwrapped(x, old) ==
  CASE x.op = "getset" -> x.val
    [] x.op = "append" -> Appended[old]
    [] x.op = "incrby" -> IF old = Nil THEN x.val ELSE old + x.val

Modified(x, old) ==
  CASE x.op = "getset" -> x.val
    [] x.op = "append" -> Appended[old]
    [] x.op = "incrby" -> IF old = Nil THEN x.val ELSE Wrap(old + x.val)

Read(c) ==
  LET old == Memory(c)[At(c, 1)] IN
  /\ Op(c) \in Modifiers
  /\ \/ ~Accepts(cmd[c], old) /\ Reply(c, "start")
     \/ /\ Accepts(cmd[c], old)
        /\ Goto(c, "start", "modify")
        /\ got' = [got EXCEPT ![c] = old]
        /\ UNCHANGED <<cmd, i, deleted>>
  /\ UNCHANGED <<data, saved, conn, apart>>

(* GETSET of a missing key returns before it is logged.                    *)
Modify(c) ==
  LET unlogged == Op(c) = "getset" /\ got[c] = Nil IN
  /\ Op(c) \in Modifiers
  /\ Store(c, At(c, 1), Modified(cmd[c], got[c]))
  /\ IF unlogged
     THEN Reply(c, "modify") /\ apart' = [apart EXCEPT ![cmd[c].db] = @ \cup {At(c, 1)}]
     ELSE Goto(c, "modify", "log") /\ UNCHANGED <<cmd, i, got, deleted, apart>>
  /\ UNCHANGED <<saved, conn>>

-----------------------------------------------------------------------------
(* DEL; and RENAMENX, which removes both names before it puts the new one. *)
(* Removes goes through the keys and removes each that Get finds.          *)
Onward(c, from, met) ==
  IF i[c] < Len(cmd[c].keys)
  THEN /\ Goto(c, from, "find") /\ Move(c, i[c] + 1)
       /\ deleted' = [deleted EXCEPT ![c] = met]
       /\ UNCHANGED <<cmd, got>>
  ELSE \/ /\ Op(c) = "del" /\ ~met
          /\ Reply(c, from)
       \/ /\ Op(c) = "renamenx" \/ met
          /\ Goto(c, from, IF Op(c) = "del" THEN "log" ELSE "dest")
          /\ deleted' = [deleted EXCEPT ![c] = met]
          /\ UNCHANGED <<cmd, i, got>>

(* A slip: only the last key of a DEL decides whether it is logged.        *)
FindForgets(c) ==
  /\ pc[c] = "find"
  /\ \/ /\ Memory(c)[At(c, i[c])] = Nil
        /\ Onward(c, "find", FALSE)
     \/ /\ Memory(c)[At(c, i[c])] # Nil
        /\ Goto(c, "find", "remove")
        /\ UNCHANGED <<cmd, i, got, deleted>>
  /\ UNCHANGED <<data, saved, conn, apart>>

Find(c) ==
  /\ pc[c] = "find"
  /\ \/ /\ Memory(c)[At(c, i[c])] = Nil
        /\ Onward(c, "find", deleted[c])
     \/ /\ Memory(c)[At(c, i[c])] # Nil
        /\ Goto(c, "find", "remove")
        /\ UNCHANGED <<cmd, i, got, deleted>>
  /\ UNCHANGED <<data, saved, conn, apart>>

Remove(c) ==
  /\ Onward(c, "remove", TRUE)
  /\ Store(c, At(c, i[c]), Nil)
  /\ UNCHANGED <<saved, conn, apart>>

(* RENAMENX looks at the new name first.                                   *)
RenameNXTest(c) ==
  /\ Op(c) = "renamenx"
  /\ \/ Memory(c)[At(c, 2)] # Nil /\ Reply(c, "test")
     \/ /\ Memory(c)[At(c, 2)] = Nil
        /\ Goto(c, "test", "start")
        /\ UNCHANGED <<cmd, i, got, deleted>>
  /\ UNCHANGED <<data, saved, conn, apart>>

RenameRead(c) ==
  LET old == Memory(c)[At(c, 1)] IN
  /\ Op(c) \in {"rename", "renamenx"}
  /\ \/ old = Nil /\ Reply(c, "start")
     \/ /\ old # Nil
        /\ Goto(c, "start", IF Op(c) = "rename" THEN "dest" ELSE "find")
        /\ got' = [got EXCEPT ![c] = old]
        /\ UNCHANGED <<cmd, i, deleted>>
  /\ UNCHANGED <<data, saved, conn, apart>>

RenamePut(c) ==
  /\ Goto(c, "dest", IF Op(c) = "rename" THEN "drop" ELSE "log")
  /\ Store(c, At(c, 2), got[c])
  /\ UNCHANGED <<saved, conn, cmd, i, got, deleted, apart>>

RenameDrop(c) ==
  /\ Goto(c, "drop", "log")
  /\ Store(c, At(c, 1), Nil)
  /\ UNCHANGED <<saved, conn, cmd, i, got, deleted, apart>>

FlushDB(c) ==
  /\ Op(c) = "flushdb"
  /\ data' = [data EXCEPT ![cmd[c].db] = Empty]
  /\ Goto(c, "start", "log")
  /\ UNCHANGED <<saved, conn, cmd, i, got, deleted, apart>>

-----------------------------------------------------------------------------
(* What a command makes of the contents of its database when nothing else  *)
(* runs: LoadAof executes a logged command like this.                      *)
Renamed(st, src, dest) == [st EXCEPT ![dest] = st[src], ![src] = Nil]
Apply(x, st) ==
  LET k == x.keys[1] IN
  CASE x.op \in {"set", "setnx", "setxx"} ->
         IF Kept(x.op, st[k]) THEN st ELSE [st EXCEPT ![k] = x.val]
    [] x.op = "mset" \/ (x.op = "msetnx" /\ \A j \in Touched(x) : st[j] = Nil) ->
         [j \in Key |-> IF j \in Touched(x) THEN x.val ELSE st[j]]
    [] x.op \in Modifiers /\ Accepts(x, st[k]) -> [st EXCEPT ![k] = Modified(x, st[k])]
    [] x.op \in {"del", "flushdb"} ->
         [j \in Key |-> IF j \in Touched(x) THEN Nil ELSE st[j]]
    [] x.op = "rename" /\ st[k] # Nil -> Renamed(st, k, x.keys[2])
    [] x.op = "renamenx" /\ st[k] # Nil /\ st[x.keys[2]] = Nil -> Renamed(st, k, x.keys[2])
    [] OTHER -> st

(* addAof, and the reply.                                                  *)
AddAof(c) ==
  /\ saved' = [saved EXCEPT ![cmd[c].db] = Apply(cmd[c], @)]
  /\ Reply(c, "log")
  /\ UNCHANGED <<data, conn, apart>>

(* The process ends, at any moment, and another loads the log: every       *)
(* connection is new.  (What can be missing from the log: module Aof.)     *)
Restart ==
  /\ data' = saved
  /\ conn' = [c \in Client |-> 0]
  /\ pc'   = [c \in Client |-> "idle"]
  /\ cmd'  = [c \in Client |-> NoCommand]
  /\ i'    = [c \in Client |-> 1]
  /\ got'  = [c \in Client |-> Nil]
  /\ deleted' = [c \in Client |-> FALSE]
  /\ apart' = [d \in DB |-> {}]
  /\ UNCHANGED <<saved, used>>

Step(c) ==
  \/ Set(c) \/ MSetNXTest(c) \/ MSetPut(c) \/ Read(c) \/ Modify(c)
  \/ Find(c) \/ Remove(c)
  \/ RenameNXTest(c) \/ RenameRead(c) \/ RenamePut(c) \/ RenameDrop(c)
  \/ FlushDB(c) \/ AddAof(c)

Next ==
  \/ \E c \in Client :
       \/ \E x \in CommandSet : Exec(c, x)
       \/ \E n \in Index : Select(c, n)
       \/ Step(c)
  \/ Restart

Spec == Init /\ [][Next]_vars

-----------------------------------------------------------------------------
(* The type of every variable.                                             *)
Place == {"idle", "start", "test", "put", "modify", "find", "remove", "dest", "drop", "log"}
Contents == [DB -> [Key -> Str \cup {Nil}]]
TypeOK ==
  /\ data \in Contents /\ saved \in Contents
  /\ conn \in [Client -> Int] /\ \A c \in Client : conn[c] < NDB
  /\ pc  \in [Client -> Place]
  /\ cmd \in [Client -> CommandSet \cup {NoCommand}]
  /\ i   \in [Client -> 1..2]
  /\ got \in [Client -> Str \cup {Nil}]
  /\ deleted \in [Client -> BOOLEAN]
  /\ apart \in [DB -> SUBSET Key] /\ used \in Uses

(* Unless commands that share a key have overlapped, or a GETSET has met a *)
(* missing key, the log rebuilds exactly what memory holds: commands on    *)
(* other keys do not disturb it, and no command changes memory in a way    *)
(* its replay does not.  A command under way is wholly missing from the    *)
(* log until its last act, which makes up for all of it.                   *)
Working(d, k) == {c \in Client : pc[c] # "idle" /\ cmd[c].db = d /\ k \in Touched(cmd[c])}
RecoveryExact ==
  \A d \in DB : \A k \in Key \ apart[d] :
    /\ Working(d, k) = {} => saved[d][k] = data[d][k]
    /\ \A c \in Working(d, k) :
         pc[c] = "log" => Apply(cmd[c], saved[d])[k] = data[d][k]

(* "Adds one to the value of the key" (string.go:194), and is thread-safe  *)
(* as every operation is (README.md:5): an increment adds to the value it  *)
(* replaces.                                                               *)
IncrAdds ==
  [][\A c \in Client :
       (Op(c) = "incrby" /\ pc[c] = "modify" /\ pc'[c] = "log") =>
         data' = [data EXCEPT ![cmd[c].db][At(c, 1)] = Modified(cmd[c], @)]]_vars

(* "Adds the given value" (string.go:220), or refuses what is "not an      *)
(* integer or out of range" (string.go:237): a count that leaves int64 is  *)
(* stored, wrapped around.                                                 *)
AddsExactly ==
  [][\A c \in Client :
       (Op(c) = "incrby" /\ pc[c] = "modify" /\ pc'[c] = "log" /\ got[c] # Nil) =>
         data'[cmd[c].db][At(c, 1)] = got[c] + cmd[c].val]_vars

(* "If and only if none of the given keys exists" (string.go:148): MSETNX  *)
(* never replaces a value.                                                 *)
OnlyNewKeys ==
  [][\A c \in Client :
       Op(c) = "msetnx" /\ MSetPut(c) => Memory(c)[At(c, i[c])] = Nil]_vars
=============================================================================
