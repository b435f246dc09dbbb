---------------------------- MODULE CommandsProofs ----------------------------
(***************************************************************************)
(* Theorems about the commands on strings and keys: their log rebuilds     *)
(* memory, for any connections, keys, databases and values.                *)
(*                                                                         *)
(* A command under way is followed while no command that shares a key with *)
(* it has been at work beside it.  For each place of each command the      *)
(* invariant says how far memory has come from the log on its keys         *)
(* (Agrees); every action of a command is local to its keys (Local), so    *)
(* what it does leaves the others where they were.                         *)
(***************************************************************************)
EXTENDS Commands, TLAPS

(* What every command looks like.                                          *)
OneKey == {"set", "setnx", "setxx", "getset", "incrby", "append"}
Writes == {"set", "setnx", "setxx", "getset", "mset", "msetnx"}
Shaped(x) ==
  /\ x.db \in DB
  /\ x.op \in OneKey \cup {"mset", "msetnx", "del", "rename", "renamenx", "flushdb"}
  /\ Len(x.keys) \in 0..2 /\ DOMAIN x.keys = 1..Len(x.keys)
  /\ \A n \in 1..Len(x.keys) : x.keys[n] \in Key
  /\ x.op \in OneKey => Len(x.keys) = 1
  /\ x.op \in {"mset", "msetnx", "rename", "renamenx"} => Len(x.keys) = 2
  /\ x.op = "del" => Len(x.keys) \in 1..2
  /\ x.op = "flushdb" => Len(x.keys) = 0
  /\ x.op \in {"mset", "msetnx", "del"} /\ Len(x.keys) = 2 => x.keys[1] # x.keys[2]
  /\ x.op \in Writes => x.val \in Str
  /\ x.op = "incrby" => x.val \in Int64

(* A command has as many keys, and such a value, as its op calls for.      *)
LEMMA CommandShape == \A x \in CommandSet : Shaped(x)
  <1> SUFFICES ASSUME NEW x \in CommandSet PROVE Shaped(x)
    OBVIOUS
  <1> USE DEF Shaped, OneKey, Writes
  <1>0. SetVal \subseteq Str /\ Delta \subseteq Int64
    BY StrAssumption
  <1>k. /\ \A s \in Singles : Len(s) = 1 /\ DOMAIN s = 1..1 /\ s[1] \in Key
        /\ \A s \in Pairs : Len(s) = 2 /\ DOMAIN s = 1..2 /\ s[1] \in Key /\ s[2] \in Key
        /\ \A s \in Couples : s \in Pairs /\ s[1] # s[2]
    BY DEF Singles, Pairs, Couples
  <1>1. ASSUME NEW o \in {"set", "setnx", "setxx", "getset"}, x \in Command(o, Singles, SetVal) PROVE Shaped(x)
    BY <1>0, <1>k, <1>1 DEF Command
  <1>2. ASSUME NEW o \in {"mset", "msetnx"}, x \in Command(o, Couples, SetVal) PROVE Shaped(x)
    BY <1>0, <1>k, <1>2 DEF Command
  <1>3. CASE x \in Command("incrby", Singles, Delta)
    BY <1>0, <1>k, <1>3 DEF Command
  <1>4. CASE x \in Command("append", Singles, {Nil})
    BY <1>k, <1>4 DEF Command
  <1>5. CASE x \in Command("del", Singles \cup Couples, {Nil})
    BY <1>k, <1>5 DEF Command
  <1>6. ASSUME NEW o \in {"rename", "renamenx"}, x \in Command(o, Pairs, {Nil}) PROVE Shaped(x)
    BY <1>k, <1>6 DEF Command
  <1>7. CASE x \in Command("flushdb", {<<>>}, {Nil})
    BY <1>7 DEF Command
  <1>8. CASE x \in UNION {Command(o, Singles, SetVal) : o \in {"set", "setnx", "setxx", "getset"}}
    <2>1. PICK o \in {"set", "setnx", "setxx", "getset"} : x \in Command(o, Singles, SetVal)
      BY <1>8
    <2> QED BY <1>1, <2>1
  <1>9. CASE x \in UNION {Command(o, Couples, SetVal) : o \in {"mset", "msetnx"}}
    <2>1. PICK o \in {"mset", "msetnx"} : x \in Command(o, Couples, SetVal)
      BY <1>9
    <2> QED BY <1>2, <2>1
  <1>10. CASE x \in UNION {Command(o, Pairs, {Nil}) : o \in {"rename", "renamenx"}}
    <2>1. PICK o \in {"rename", "renamenx"} : x \in Command(o, Pairs, {Nil})
      BY <1>10
    <2> QED BY <1>6, <2>1
  <1> QED
    BY <1>3, <1>4, <1>5, <1>7, <1>8, <1>9, <1>10 DEF CommandSet

(* An int64 that overflows is an int64 again.                              *)
LEMMA WrapIsInt64 == \A n \in Int : Wrap(n) \in Int64
  BY StrAssumption DEF Wrap, Int64

(* What GETSET, INCRBY and APPEND put back is a string.                    *)
LEMMA ModifiedIsStr ==
  ASSUME NEW x \in CommandSet, x.op \in Modifiers, NEW g \in Str \cup {Nil}, Accepts(x, g)
  PROVE  Modified(x, g) \in Str
  <1>0. Shaped(x) /\ Int64 \subseteq Str
    BY CommandShape DEF Str
  <1>1. CASE x.op = "getset"
    BY <1>0, <1>1 DEF Modified, Shaped, Writes
  <1>2. CASE x.op = "append"
    BY <1>2, StrAssumption DEF Modified
  <1>3. CASE x.op = "incrby"
    <2>1. x.val \in Int64 /\ x.val \in Int
      BY <1>0, <1>3, StrAssumption DEF Shaped, Int64
    <2>2. CASE g = Nil
      BY <1>0, <1>3, <2>1, <2>2 DEF Modified
    <2>3. CASE g # Nil
      <3>1. g \in Int /\ g + x.val \in Int
        BY <1>3, <2>1, <2>3, StrAssumption DEF Accepts, Int64
      <3> QED
        BY <1>0, <1>3, <2>3, <3>1, WrapIsInt64 DEF Modified
    <2> QED BY <2>2, <2>3
  <1> QED
    BY <1>1, <1>2, <1>3 DEF Modifiers

-----------------------------------------------------------------------------
(* What is known of a command x at place p, with key number n, dl for      *)
(* `deleted' and g for `got'.                                              *)
Fits(x, p, n, dl, g) ==
  /\ p = "idle" => n = 1 /\ ~dl /\ x = NoCommand
  /\ p # "idle" => x \in CommandSet
  /\ p = "start" => x.op \notin {"mset", "msetnx", "del"} /\ n = 1
  /\ p = "test" => x.op \in {"msetnx", "renamenx"} /\ n \in 1..2 /\ (x.op = "renamenx" => n = 1)
  /\ p = "put" => x.op \in {"mset", "msetnx"} /\ n \in 1..2
  /\ p = "modify" => x.op \in Modifiers /\ Accepts(x, g)
  /\ p \in {"find", "remove"} => x.op \in {"del", "renamenx"} /\ n \in 1..Len(x.keys)
  /\ p = "dest" => x.op \in {"rename", "renamenx"}
  /\ p = "drop" => x.op = "rename"
FitsAll == \A c \in Client : Fits(cmd[c], pc[c], i[c], deleted[c], got[c])

(* The commands under way work on keys in use, and other keys hold nothing. *)
InUse ==
  /\ \A c \in Client : pc[c] # "idle" => Touched(cmd[c]) \subseteq used[cmd[c].db]
  /\ \A d \in DB : \A k \in Key \ used[d] : data[d][k] = Nil /\ saved[d][k] = Nil

(* Commands that share a key are no longer followed; a command is followed *)
(* on all its keys or on none.                                             *)
Solo ==
  /\ \A c, e \in Client :
       (/\ c # e /\ pc[c] # "idle" /\ pc[e] # "idle" /\ cmd[c].db = cmd[e].db
        /\ Touched(cmd[c]) \cap Touched(cmd[e]) # {})
         => Touched(cmd[c]) \cup Touched(cmd[e]) \subseteq apart[cmd[c].db]
  /\ \A c \in Client : pc[c] # "idle" =>
       \/ Touched(cmd[c]) \subseteq apart[cmd[c].db]
       \/ Touched(cmd[c]) \cap apart[cmd[c].db] = {}

(* A command x on the keys T has made m of st.                             *)
Done(x, T, m, st) ==
  LET a == x.keys[1] b == x.keys[2] IN
  /\ x.op \in {"set", "setnx", "setxx"} => m[a] = IF Kept(x.op, st[a]) THEN st[a] ELSE x.val
  /\ x.op \in {"mset", "msetnx"} => \A k \in T : m[k] = x.val
  /\ x.op = "msetnx" => \A k \in T : st[k] = Nil
  /\ x.op \in Modifiers => Accepts(x, st[a]) /\ m[a] = Modified(x, st[a])
  /\ x.op \in {"del", "flushdb"} => \A k \in T : m[k] = Nil
  /\ x.op \in {"rename", "renamenx"} =>
       st[a] # Nil /\ m[a] = Nil /\ (a # b => m[b] = st[a])
  /\ x.op = "renamenx" => st[b] = Nil

(* How far memory m has come from st, on the keys T of a command at place  *)
(* p that nothing disturbs.                                                *)
Agrees(x, T, p, n, dl, g, m, st) ==
  LET a == x.keys[1] b == x.keys[2] IN
  /\ p \in {"start", "test", "modify"} => \A k \in T : m[k] = st[k]
  /\ p = "start" /\ x.op = "renamenx" => st[b] = Nil
  /\ p = "test" /\ x.op = "msetnx" => (n = 2 => st[a] = Nil)
  /\ p = "put" => /\ m[a] = IF n = 1 THEN st[a] ELSE x.val
                  /\ m[b] = st[b]
  /\ p = "put" /\ x.op = "msetnx" => \A k \in T : st[k] = Nil
  /\ p = "modify" => g = st[a]
  /\ p \in {"find", "remove"} =>
       /\ m[a] = IF n = 1 THEN st[a] ELSE Nil
       /\ Len(x.keys) = 2 => m[b] = st[b]
  /\ p = "remove" => m[x.keys[n]] # Nil
  /\ p \in {"find", "remove"} /\ x.op = "del" => (dl <=> n = 2 /\ st[a] # Nil)
  /\ p \in {"find", "remove", "dest"} /\ x.op = "renamenx" => g = st[a] /\ g # Nil /\ st[b] = Nil
  /\ p = "dest" /\ x.op = "renamenx" => m[a] = Nil /\ m[b] = Nil
  /\ p = "dest" /\ x.op = "rename" => g = st[a] /\ g # Nil /\ \A k \in T : m[k] = st[k]
  /\ p = "drop" => g = st[a] /\ g # Nil /\ m[b] = g
  /\ p = "log" => Done(x, T, m, st)

(* Nothing but the commands under way tells memory and log apart.          *)
Follows ==
  /\ \A c \in Client : LET d == cmd[c].db T == Touched(cmd[c]) IN
       pc[c] # "idle" /\ T \cap apart[d] = {} =>
         Agrees(cmd[c], T, pc[c], i[c], deleted[c], got[c], data[d], saved[d])
  /\ \A d \in DB : \A k \in Key \ apart[d] :
       Working(d, k) = {} => saved[d][k] = data[d][k]

CommandsInv == TypeOK /\ FitsAll /\ InUse /\ Solo /\ Follows

-----------------------------------------------------------------------------
(* What is at hand in a step of a command under way.                       *)
LEMMA AtWork ==
  ASSUME CommandsInv, NEW c \in Client, pc[c] # "idle"
  PROVE  /\ cmd[c] \in CommandSet /\ Shaped(cmd[c]) /\ cmd[c].db \in DB
         /\ Touched(cmd[c]) \subseteq Key /\ Touched(cmd[c]) \subseteq used[cmd[c].db]
         /\ data[cmd[c].db] \in [Key -> Str \cup {Nil}] /\ saved[cmd[c].db] \in [Key -> Str \cup {Nil}]
         /\ cmd[c].op # "flushdb" =>
              /\ Touched(cmd[c]) = {cmd[c].keys[n] : n \in 1..Len(cmd[c].keys)}
              /\ \A n \in 1..Len(cmd[c].keys) : cmd[c].keys[n] \in Touched(cmd[c])
         /\ cmd[c].op = "flushdb" => Touched(cmd[c]) = used[cmd[c].db]
         /\ Fits(cmd[c], pc[c], i[c], deleted[c], got[c])
  <1>1. TypeOK /\ Fits(cmd[c], pc[c], i[c], deleted[c], got[c])
    BY DEF CommandsInv, FitsAll
  <1>2. cmd[c] \in CommandSet /\ Shaped(cmd[c]) /\ cmd[c].db \in DB
    <2>1. cmd[c] \in CommandSet
      BY <1>1 DEF Fits
    <2> QED BY <2>1, CommandShape DEF Shaped
  <1>3. Touched(cmd[c]) \subseteq used[cmd[c].db] /\ used[cmd[c].db] \subseteq Key
    BY <1>1, <1>2, DBAssumption DEF CommandsInv, InUse, TypeOK
  <1>4. cmd[c].op # "flushdb" =>
          /\ Touched(cmd[c]) = {cmd[c].keys[n] : n \in 1..Len(cmd[c].keys)}
          /\ \A n \in 1..Len(cmd[c].keys) : cmd[c].keys[n] \in Touched(cmd[c])
    BY <1>2 DEF Touched, Shaped
  <1>5. cmd[c].op = "flushdb" => Touched(cmd[c]) = used[cmd[c].db]
    BY DEF Touched
  <1> QED
    BY <1>1, <1>2, <1>3, <1>4, <1>5 DEF TypeOK, Contents

(* A step of the command of c and of nothing else.                         *)
Local(c) ==
  LET x == cmd[c] T == Touched(x) d == x.db IN
  /\ \A e \in Client \ {c} : /\ pc'[e] = pc[e] /\ cmd'[e] = cmd[e] /\ i'[e] = i[e]
                              /\ got'[e] = got[e] /\ deleted'[e] = deleted[e]
  /\ used' = used
  /\ \A e \in DB : \A k \in Key :
       (e # d \/ k \notin T) => data'[e][k] = data[e][k] /\ saved'[e][k] = saved[e][k]
  /\ \A e \in DB : /\ apart[e] \subseteq apart'[e]
                    /\ apart'[e] \subseteq apart[e] \cup (IF e = d /\ pc'[c] = "idle" THEN T ELSE {})
  /\ pc'[c] # "idle" => cmd'[c] = cmd[c]
  /\ Fits(cmd'[c], pc'[c], i'[c], deleted'[c], got'[c])
  /\ T \cap apart[d] = {} =>
       IF pc'[c] = "idle"
       THEN \A k \in T \ apart'[d] : saved'[d][k] = data'[d][k]
       ELSE Agrees(x, T, pc'[c], i'[c], deleted'[c], got'[c], data'[d], saved'[d])

(* How far memory has come is told by the keys of the command.             *)
LEMMA AgreesOnKeys ==
  ASSUME NEW x \in CommandSet, NEW T, x.op # "flushdb" => T = {x.keys[n] : n \in 1..Len(x.keys)},
         NEW p, NEW n, NEW dl, NEW g, NEW m, NEW st, NEW mm, NEW ss,
         Fits(x, p, n, dl, g), p # "idle",
         \A k \in T : m[k] = mm[k] /\ st[k] = ss[k],
         Agrees(x, T, p, n, dl, g, m, st)
  PROVE  Agrees(x, T, p, n, dl, g, mm, ss)
  <1>1. Shaped(x)
    BY CommandShape
  <1>2. /\ x.op # "flushdb" => m[x.keys[1]] = mm[x.keys[1]] /\ st[x.keys[1]] = ss[x.keys[1]]
        /\ x.op # "flushdb" /\ Len(x.keys) = 2 => m[x.keys[2]] = mm[x.keys[2]] /\ st[x.keys[2]] = ss[x.keys[2]]
    BY <1>1 DEF Shaped, OneKey
  <1> QED
    BY <1>1, <1>2 DEF Agrees, Fits, Shaped, Done, OneKey, Modifiers

(* A local step keeps the invariant, whoever else is at work.              *)
LEMMA LocalKeeps ==
  ASSUME CommandsInv, NEW c \in Client, pc[c] # "idle", Local(c), TypeOK'
  PROVE  CommandsInv'
  <1> DEFINE x == cmd[c] T == Touched(x) d == x.db
  <1>a. /\ x \in CommandSet /\ d \in DB /\ T \subseteq Key /\ T \subseteq used[d]
        /\ used' = used
    BY AtWork DEF Local
  <1>b. TypeOK /\ FitsAll /\ InUse /\ Solo /\ Follows
    BY DEF CommandsInv
  <1>c. \A y : Touched(y)' = Touched(y)
    BY <1>a DEF Touched
  <1>e. \A e \in Client \ {c} : /\ pc'[e] = pc[e] /\ cmd'[e] = cmd[e] /\ i'[e] = i[e]
                                /\ got'[e] = got[e] /\ deleted'[e] = deleted[e]
    BY DEF Local
  <1>o. pc'[c] # "idle" => cmd'[c] = x
    BY DEF Local
  <1>p. \A e \in DB : /\ apart[e] \subseteq apart'[e]
                      /\ apart'[e] \subseteq apart[e] \cup (IF e = d /\ pc'[c] = "idle" THEN T ELSE {})
    BY DEF Local
  <1>w. \A e \in Client : pc'[e] # "idle" => pc[e] # "idle" /\ cmd'[e] = cmd[e]
    BY <1>e, <1>o
  <1>1. FitsAll'
    <2>1. \A e \in Client : Fits(cmd'[e], pc'[e], i'[e], deleted'[e], got'[e])
      BY <1>b, <1>e DEF FitsAll, Local
    <2> QED BY <2>1 DEF FitsAll
  <1>2. InUse'
    <2>1. \A e \in Client : pc'[e] # "idle" => Touched(cmd'[e]) \subseteq used[cmd'[e].db]
      BY <1>b, <1>w DEF InUse
    <2>2. \A e \in DB : \A k \in Key \ used[e] : data'[e][k] = Nil /\ saved'[e][k] = Nil
      <3> SUFFICES ASSUME NEW e \in DB, NEW k \in Key, k \notin used[e]
                   PROVE  data'[e][k] = Nil /\ saved'[e][k] = Nil
        OBVIOUS
      <3>1. e # d \/ k \notin T
        BY <1>a
      <3> QED BY <1>b, <3>1 DEF InUse, Local
    <2> QED BY <1>a, <1>c, <2>1, <2>2 DEF InUse
  <1>3. Solo'
    <2>1. ASSUME NEW e \in Client, NEW f \in Client, e # f, pc'[e] # "idle", pc'[f] # "idle",
                 cmd'[e].db = cmd'[f].db, Touched(cmd'[e]) \cap Touched(cmd'[f]) # {}
          PROVE  Touched(cmd'[e]) \cup Touched(cmd'[f]) \subseteq apart'[cmd'[e].db]
      <3>1. Touched(cmd[e]) \cup Touched(cmd[f]) \subseteq apart[cmd[e].db] /\ cmd'[e] = cmd[e] /\ cmd'[f] = cmd[f]
        BY <1>b, <1>w, <2>1 DEF Solo
      <3>2. cmd[e].db \in DB
        BY <1>w, <2>1, AtWork
      <3> QED BY <1>p, <3>1, <3>2
    <2>2. ASSUME NEW e \in Client, pc'[e] # "idle"
          PROVE  \/ Touched(cmd'[e]) \subseteq apart'[cmd'[e].db]
                 \/ Touched(cmd'[e]) \cap apart'[cmd'[e].db] = {}
      <3>0. pc[e] # "idle" /\ cmd'[e] = cmd[e] /\ cmd[e].db \in DB
        BY <1>w, <2>2, AtWork
      <3>1. CASE Touched(cmd[e]) \subseteq apart[cmd[e].db]
        BY <1>p, <3>0, <3>1
      <3>2. CASE Touched(cmd[e]) \cap apart[cmd[e].db] = {} /\ (cmd[e].db # d \/ pc'[c] # "idle")
        BY <1>p, <3>0, <3>2
      <3>3. CASE Touched(cmd[e]) \cap apart[d] = {} /\ cmd[e].db = d /\ pc'[c] = "idle"
        <4>1. e # c
          BY <2>2, <3>3
        <4>2. Touched(cmd[e]) \cap T = {} \/ Touched(cmd[e]) \subseteq apart[d]
          BY <1>b, <3>0, <3>3, <4>1 DEF Solo
        <4> QED BY <1>p, <1>a, <3>0, <3>3, <4>2
      <3> QED BY <1>b, <3>0, <3>1, <3>2, <3>3 DEF Solo
    <2> QED BY <1>c, <2>1, <2>2 DEF Solo
  <1>4. Follows'
    <2>1. ASSUME NEW e \in Client, pc'[e] # "idle", Touched(cmd'[e]) \cap apart'[cmd'[e].db] = {}
          PROVE  Agrees(cmd'[e], Touched(cmd'[e]), pc'[e], i'[e], deleted'[e], got'[e],
                        data'[cmd'[e].db], saved'[cmd'[e].db])
      <3>0. pc[e] # "idle" /\ cmd'[e] = cmd[e] /\ cmd[e].db \in DB
        BY <1>w, <2>1, AtWork
      <3>1. Touched(cmd[e]) \cap apart[cmd[e].db] = {}
        BY <1>p, <2>1, <3>0
      <3>2. CASE e = c
        BY <2>1, <3>0, <3>1, <3>2 DEF Local
      <3>3. CASE e # c
        <4>1. cmd[e].db = d => Touched(cmd[e]) \cap T = {}
          <5>1. Touched(cmd[e]) # {} /\ cmd[e].db = d /\ Touched(cmd[e]) \cap T # {}
                  => Touched(cmd[e]) \subseteq apart[d]
            BY <1>b, <3>0, <3>3 DEF Solo
          <5> QED BY <3>1, <5>1
        <4>2. /\ cmd[e] \in CommandSet /\ Touched(cmd[e]) \subseteq Key
              /\ cmd[e].op # "flushdb" => Touched(cmd[e]) = {cmd[e].keys[n] : n \in 1..Len(cmd[e].keys)}
              /\ Fits(cmd[e], pc[e], i[e], deleted[e], got[e])
          BY <3>0, AtWork
        <4>3. \A k \in Touched(cmd[e]) : /\ data[cmd[e].db][k] = data'[cmd[e].db][k]
                                        /\ saved[cmd[e].db][k] = saved'[cmd[e].db][k]
          BY <3>0, <4>1, <4>2 DEF Local
        <4>4. Agrees(cmd[e], Touched(cmd[e]), pc[e], i[e], deleted[e], got[e],
                     data[cmd[e].db], saved[cmd[e].db])
          BY <1>b, <3>0, <3>1 DEF Follows
        <4>5. Agrees(cmd[e], Touched(cmd[e]), pc[e], i[e], deleted[e], got[e],
                     data'[cmd[e].db], saved'[cmd[e].db])
          BY <3>0, <4>2, <4>3, <4>4, AgreesOnKeys
        <4> QED BY <1>e, <3>0, <3>3, <4>5
      <3> QED BY <3>2, <3>3
    <2>2. ASSUME NEW e \in DB, NEW k \in Key, k \notin apart'[e],
                 \A f \in Client : ~(pc'[f] # "idle" /\ cmd'[f].db = e /\ k \in Touched(cmd'[f]))
          PROVE  saved'[e][k] = data'[e][k]
      <3>1. k \notin apart[e]
        BY <1>p, <2>2
      <3>2. CASE e = d /\ k \in T
        <4>1. T \cap apart[d] = {}
          BY <1>b, <3>1, <3>2 DEF Solo
        <4>2. pc'[c] = "idle"
          BY <1>o, <2>2, <3>2
        <4> QED BY <2>2, <3>2, <4>1, <4>2 DEF Local
      <3>3. CASE e # d \/ k \notin T
        <4>1. \A f \in Client : ~(pc[f] # "idle" /\ cmd[f].db = e /\ k \in Touched(cmd[f]))
          BY <1>e, <2>2, <3>3
        <4>2. saved[e][k] = data[e][k]
          BY <1>b, <3>1, <4>1 DEF Follows, Working
        <4> QED BY <3>3, <4>2 DEF Local
      <3> QED BY <3>2, <3>3
    <2> QED BY <1>c, <2>1, <2>2 DEF Follows, Working
  <1> QED
    BY <1>1, <1>2, <1>3, <1>4 DEF CommandsInv

-----------------------------------------------------------------------------
(* What the parts of an action do.                                         *)
LEMMA GotoIs ==
  ASSUME TypeOK, NEW c \in Client, NEW from, NEW to \in Place, Goto(c, from, to)
  PROVE  /\ pc[c] = from /\ pc'[c] = to /\ pc' \in [Client -> Place]
         /\ \A e \in Client \ {c} : pc'[e] = pc[e]
         /\ used' = used
  BY DEF TypeOK, Goto

(* Going to another key of the command.                                    *)
LEMMA MoveIs ==
  ASSUME TypeOK, NEW c \in Client, NEW n \in 1..2, Move(c, n)
  PROVE  i'[c] = n /\ i' \in [Client -> 1..2] /\ \A e \in Client \ {c} : i'[e] = i[e]
  BY DEF TypeOK, Move

(* A Put or a Remove of the dict changes one key of one database.          *)
LEMMA StoreIs ==
  ASSUME TypeOK, NEW c \in Client, cmd[c].db \in DB, NEW k \in Key, NEW v \in Str \cup {Nil},
         Store(c, k, v)
  PROVE  /\ data' \in Contents
         /\ \A d \in DB : \A j \in Key : data'[d][j] = IF d = cmd[c].db /\ j = k THEN v ELSE data[d][j]
  <1>1. data' = [data EXCEPT ![cmd[c].db] = [data[cmd[c].db] EXCEPT ![k] = v]]
    BY DEF Store
  <1> QED
    BY <1>1 DEF TypeOK, Contents

(* A connection that has its reply is idle again.                          *)
LEMMA ReplyIs ==
  ASSUME TypeOK, NEW c \in Client, NEW from, Reply(c, from)
  PROVE  /\ pc[c] = from /\ pc'[c] = "idle" /\ used' = used
         /\ cmd'[c] = NoCommand /\ i'[c] = 1 /\ got'[c] = Nil /\ deleted'[c] = FALSE
         /\ \A e \in Client \ {c} : /\ pc'[e] = pc[e] /\ cmd'[e] = cmd[e] /\ i'[e] = i[e]
                                    /\ got'[e] = got[e] /\ deleted'[e] = deleted[e]
         /\ pc' \in [Client -> Place] /\ cmd' \in [Client -> CommandSet \cup {NoCommand}]
         /\ i' \in [Client -> 1..2] /\ got' \in [Client -> Str \cup {Nil}]
         /\ deleted' \in [Client -> BOOLEAN]
         /\ Fits(cmd'[c], pc'[c], i'[c], deleted'[c], got'[c])
  <1>1. /\ pc[c] = from /\ pc'[c] = "idle" /\ used' = used /\ pc' \in [Client -> Place]
        /\ \A e \in Client \ {c} : pc'[e] = pc[e]
    <2>1. "idle" \in Place
      BY DEF Place
    <2> QED BY <2>1, GotoIs DEF Reply
  <1>2. i'[c] = 1 /\ i' \in [Client -> 1..2] /\ \A e \in Client \ {c} : i'[e] = i[e]
    BY MoveIs DEF Reply
  <1>3. /\ cmd'[c] = NoCommand /\ got'[c] = Nil /\ deleted'[c] = FALSE
        /\ \A e \in Client \ {c} : cmd'[e] = cmd[e] /\ got'[e] = got[e] /\ deleted'[e] = deleted[e]
        /\ cmd' \in [Client -> CommandSet \cup {NoCommand}]
        /\ got' \in [Client -> Str \cup {Nil}]
        /\ deleted' \in [Client -> BOOLEAN]
    BY DEF Reply, TypeOK
  <1> QED
    BY <1>1, <1>2, <1>3 DEF Fits

(* A step by which a command goes on, or ends without being logged.        *)
Elsewhere(c) == \A e \in DB : \A k \in Key :
  (e # cmd[c].db \/ k \notin Touched(cmd[c])) => data'[e][k] = data[e][k]
Same(c) == \A k \in Touched(cmd[c]) : data'[cmd[c].db][k] = saved[cmd[c].db][k]

LEMMA GoesOn ==
  ASSUME CommandsInv, NEW c \in Client, NEW from, from # "idle", NEW to \in Place, to # "idle",
         Goto(c, from, to), UNCHANGED <<saved, conn, cmd, apart>>,
         data' \in Contents, Elsewhere(c),
         i' \in [Client -> 1..2], got' \in [Client -> Str \cup {Nil}], deleted' \in [Client -> BOOLEAN],
         \A e \in Client \ {c} : i'[e] = i[e] /\ got'[e] = got[e] /\ deleted'[e] = deleted[e],
         Fits(cmd[c], to, i'[c], deleted'[c], got'[c]),
         Touched(cmd[c]) \cap apart[cmd[c].db] = {} =>
           Agrees(cmd[c], Touched(cmd[c]), to, i'[c], deleted'[c], got'[c], data'[cmd[c].db], saved[cmd[c].db])
  PROVE  pc[c] # "idle" /\ TypeOK' /\ Local(c)
  <1>1. TypeOK
    BY DEF CommandsInv
  <1>2. /\ pc[c] = from /\ pc'[c] = to /\ pc' \in [Client -> Place] /\ used' = used
        /\ \A e \in Client \ {c} : pc'[e] = pc[e]
    BY <1>1, GotoIs
  <1>3. TypeOK'
    BY <1>1, <1>2 DEF TypeOK
  <1> QED
    BY <1>2, <1>3 DEF Local, Elsewhere

(* A command that ends unlogged has left memory as the log has it.         *)
LEMMA Ends ==
  ASSUME CommandsInv, NEW c \in Client, NEW from, from # "idle",
         Reply(c, from), UNCHANGED <<saved, conn, apart>>, data' \in Contents, Elsewhere(c),
         Touched(cmd[c]) \cap apart[cmd[c].db] = {} => Same(c)
  PROVE  pc[c] # "idle" /\ TypeOK' /\ Local(c)
  <1>1. TypeOK
    BY DEF CommandsInv
  <1>2. TypeOK'
    BY <1>1, ReplyIs DEF TypeOK
  <1>3. /\ pc[c] = from /\ pc'[c] = "idle" /\ used' = used
        /\ Fits(cmd'[c], pc'[c], i'[c], deleted'[c], got'[c])
        /\ \A e \in Client \ {c} : /\ pc'[e] = pc[e] /\ cmd'[e] = cmd[e] /\ i'[e] = i[e]
                                    /\ got'[e] = got[e] /\ deleted'[e] = deleted[e]
    BY ZenonT(60), <1>1, ReplyIs
  <1> QED
    BY <1>2, <1>3 DEF Local, Elsewhere, Same

(* A followed command, in the terms of its keys.                           *)
LEMMA Followed ==
  ASSUME CommandsInv, NEW c \in Client, pc[c] # "idle", Touched(cmd[c]) \cap apart[cmd[c].db] = {}
  PROVE  Agrees(cmd[c], Touched(cmd[c]), pc[c], i[c], deleted[c], got[c], data[cmd[c].db], saved[cmd[c].db])
  BY DEF CommandsInv, Follows

-----------------------------------------------------------------------------
(* Each action is a local step: SET and its kin.                           *)
LEMMA SetIsLocal ==
  ASSUME CommandsInv, NEW c \in Client, Set(c)
  PROVE  pc[c] # "idle" /\ TypeOK' /\ Local(c)
  <1> DEFINE x == cmd[c] d == x.db a == x.keys[1] T == Touched(x)
             old == data[d][a] v == IF Kept(x.op, old) THEN old ELSE x.val
  <1>0. TypeOK /\ "log" \in Place /\ pc[c] = "start"
    BY DEF CommandsInv, Place, Set, Goto
  <1>1. /\ x.op \in {"set", "setnx", "setxx"} /\ Goto(c, "start", "log")
        /\ UNCHANGED <<saved, conn, cmd, i, got, deleted, apart>>
    BY DEF Set, Op
  <1>2. /\ x \in CommandSet /\ Shaped(x) /\ d \in DB /\ T = {x.keys[n] : n \in 1..Len(x.keys)}
    BY SMTT(30), <1>0, <1>1, AtWork
  <1>3. Len(x.keys) = 1 /\ a \in Key /\ T = {a} /\ x.val \in Str /\ old \in Str \cup {Nil}
    BY <1>0, <1>1, <1>2 DEF Shaped, OneKey, Writes, TypeOK, Contents
  <1>4. Store(c, a, v)
    BY SMTT(30) DEF Set, At, Op, Memory
  <1>5. /\ data' \in Contents
        /\ \A e \in DB : \A j \in Key : data'[e][j] = IF e = d /\ j = a THEN v ELSE data[e][j]
    <2>1. v \in Str \cup {Nil}
      BY <1>3
    <2> HIDE DEF v, a
    <2>2. TypeOK /\ cmd[c].db \in DB /\ a \in Key
      BY <1>0, <1>2, <1>3
    <2> QED BY ONLY <1>4, <2>1, <2>2, StoreIs DEF x, d
  <1>6. Elsewhere(c)
    BY <1>3, <1>5 DEF Elsewhere
  <1>7. Fits(x, "log", i[c], deleted[c], got[c])
    BY ONLY <1>2 DEF Fits
  <1>8. ASSUME T \cap apart[d] = {} PROVE Agrees(x, T, "log", i[c], deleted[c], got[c], data'[d], saved[d])
    <2>0. Agrees(x, T, pc[c], i[c], deleted[c], got[c], data[d], saved[d]) /\ a \in T
      BY <1>0, <1>3, <1>8, Followed
    <2>1. old = saved[d][a]
      BY ONLY <2>0, <1>0, <1>1 DEF Agrees
    <2>2. data'[d][a] = v
      BY <1>2, <1>3, <1>5
    <2> QED
      <3> HIDE DEF x, d, T, old
      <3> QED BY ONLY <1>1, <1>3, <2>1, <2>2 DEF Agrees, Done, Modifiers, v, a
  <1> HIDE DEF v, old
  <1> QED
    BY <1>0, <1>1, <1>5, <1>6, <1>7, <1>8, GoesOn DEF TypeOK

(* MSETNX looks at its keys, then MSET and MSETNX put them.                *)
LEMMA MSetNXTestIsLocal ==
  ASSUME CommandsInv, NEW c \in Client, MSetNXTest(c)
  PROVE  pc[c] # "idle" /\ TypeOK' /\ Local(c)
  <1> DEFINE x == cmd[c] d == x.db a == x.keys[1] b == x.keys[2] T == Touched(x)
  <1>0. TypeOK /\ {"test", "put"} \subseteq Place /\ pc[c] = "test" /\ data' = data
    BY DEF CommandsInv, Place, MSetNXTest, Reply, Goto
  <1>1. x.op = "msetnx" /\ UNCHANGED <<saved, conn, apart>>
    BY DEF MSetNXTest, Op
  <1>2. /\ x \in CommandSet /\ Shaped(x) /\ d \in DB /\ T = {x.keys[n] : n \in 1..Len(x.keys)}
        /\ i[c] \in 1..2 /\ Len(x.keys) = 2
    BY <1>0, <1>1, AtWork DEF Fits, Shaped
  <1>3. T = {a, b}
    BY <1>2
  <1>4. data' \in Contents /\ Elsewhere(c)
    BY <1>0 DEF TypeOK, Elsewhere
  <1>f. T \cap apart[d] = {} => Agrees(x, T, pc[c], i[c], deleted[c], got[c], data[d], saved[d])
    BY <1>0, Followed
  <1>5. CASE Memory(c)[At(c, i[c])] # Nil
    <2>1. Reply(c, "test")
      BY <1>5 DEF MSetNXTest
    <2>2. T \cap apart[d] = {} => Same(c)
      BY ONLY <1>0, <1>1, <1>f DEF Agrees, Same
    <2> QED BY <1>1, <1>4, <2>1, <2>2, Ends
  <1>6. CASE Memory(c)[At(c, i[c])] = Nil
    <2>1. UNCHANGED <<cmd, got, deleted>> /\ data[d][x.keys[i[c]]] = Nil
      BY SMTT(30), <1>6 DEF MSetNXTest, Memory, At
    <2>2. T \cap apart[d] = {} => /\ \A k \in T : data[d][k] = saved[d][k]
                                  /\ (i[c] = 2 => saved[d][a] = Nil)
      <3> HIDE DEF x, d, T, a
      <3> QED BY ONLY <1>0, <1>1, <1>f DEF Agrees, a
    <2>3. CASE i[c] < Len(x.keys)
      <3>1. Goto(c, "test", "test") /\ Move(c, i[c] + 1) /\ i[c] + 1 = 2 /\ i[c] = 1
        BY <1>2, <1>6, <2>3 DEF MSetNXTest
      <3>2. i'[c] = 2 /\ i' \in [Client -> 1..2] /\ \A e \in Client \ {c} : i'[e] = i[e]
        BY <1>0, <3>1, MoveIs
      <3>3. Fits(x, "test", 2, deleted[c], got[c])
        BY <1>1, <1>2 DEF Fits
      <3>4. T \cap apart[d] = {} => Agrees(x, T, "test", 2, deleted[c], got[c], data[d], saved[d])
        BY <1>1, <1>3, <2>1, <2>2, <3>1 DEF Agrees
      <3> QED
        BY <1>0, <1>1, <1>4, <2>1, <3>1, <3>2, <3>3, <3>4, GoesOn DEF TypeOK
    <2>4. CASE ~(i[c] < Len(x.keys))
      <3>1. Goto(c, "test", "put") /\ Move(c, 1) /\ i[c] = 2
        BY <1>2, <1>6, <2>4 DEF MSetNXTest
      <3>2. i'[c] = 1 /\ i' \in [Client -> 1..2] /\ \A e \in Client \ {c} : i'[e] = i[e]
        BY <1>0, <3>1, MoveIs
      <3>3. Fits(x, "put", 1, deleted[c], got[c])
        BY <1>1, <1>2 DEF Fits
      <3>4. T \cap apart[d] = {} => Agrees(x, T, "put", 1, deleted[c], got[c], data[d], saved[d])
        BY <1>1, <1>3, <2>1, <2>2, <3>1 DEF Agrees
      <3> QED
        BY <1>0, <1>1, <1>4, <2>1, <3>1, <3>2, <3>3, <3>4, GoesOn DEF TypeOK
    <2> QED BY <2>3, <2>4
  <1> QED BY <1>5, <1>6

(* MSET and MSETNX put their keys one by one.                              *)
LEMMA MSetPutIsLocal ==
  ASSUME CommandsInv, NEW c \in Client, MSetPut(c)
  PROVE  pc[c] # "idle" /\ TypeOK' /\ Local(c)
  <1> DEFINE x == cmd[c] d == x.db a == x.keys[1] b == x.keys[2] T == Touched(x)
  <1>0. TypeOK /\ {"put", "log"} \subseteq Place /\ pc[c] = "put"
    BY DEF CommandsInv, Place, MSetPut, Goto
  <1>1. /\ x.op \in {"mset", "msetnx"} /\ UNCHANGED <<saved, conn, cmd, got, deleted, apart>>
        /\ Store(c, At(c, i[c]), x.val)
    BY DEF MSetPut, Op
  <1>2. /\ x \in CommandSet /\ Shaped(x) /\ d \in DB /\ T = {x.keys[n] : n \in 1..Len(x.keys)}
        /\ i[c] \in 1..2
    BY <1>0, <1>1, AtWork DEF Fits
  <1>3. /\ Len(x.keys) = 2 /\ a \in Key /\ b \in Key /\ a # b /\ T = {a, b} /\ x.val \in Str
        /\ x.keys[i[c]] \in T
    BY <1>1, <1>2 DEF Shaped, Writes
  <1>4. /\ data' \in Contents
        /\ \A e \in DB : \A j \in Key :
             data'[e][j] = IF e = d /\ j = x.keys[i[c]] THEN x.val ELSE data[e][j]
    BY <1>0, <1>1, <1>2, <1>3, StoreIs DEF At
  <1>5. Elsewhere(c)
    BY ONLY <1>3, <1>4 DEF Elsewhere
  <1>6. T \cap apart[d] = {} =>
          /\ data[d][a] = IF i[c] = 1 THEN saved[d][a] ELSE x.val
          /\ data[d][b] = saved[d][b]
          /\ x.op = "msetnx" => saved[d][a] = Nil /\ saved[d][b] = Nil
    <2>1. T \cap apart[d] = {} => Agrees(x, T, pc[c], i[c], deleted[c], got[c], data[d], saved[d])
      BY <1>0, Followed
    <2> QED BY ONLY <2>1, <1>0, <1>1, <1>2, <1>3 DEF Agrees
  <1>7. CASE i[c] < Len(x.keys)
    <2>1. Goto(c, "put", "put") /\ Move(c, i[c] + 1) /\ i[c] = 1 /\ i[c] + 1 = 2
      BY <1>2, <1>3, <1>7 DEF MSetPut
    <2>2. i'[c] = 2 /\ i' \in [Client -> 1..2] /\ \A e \in Client \ {c} : i'[e] = i[e]
      BY <1>0, <2>1, MoveIs
    <2>3. Fits(x, "put", 2, deleted[c], got[c])
      BY <1>1, <1>2 DEF Fits
    <2>4. T \cap apart[d] = {} => Agrees(x, T, "put", 2, deleted[c], got[c], data'[d], saved[d])
      BY <1>1, <1>2, <1>3, <1>4, <1>6, <2>1 DEF Agrees
    <2> QED
      BY <1>0, <1>1, <1>4, <1>5, <2>1, <2>2, <2>3, <2>4, GoesOn DEF TypeOK
  <1>8. CASE ~(i[c] < Len(x.keys))
    <2>1. Goto(c, "put", "log") /\ UNCHANGED i /\ i[c] = 2
      BY <1>2, <1>3, <1>8 DEF MSetPut
    <2>2. Fits(x, "log", i[c], deleted[c], got[c])
      BY <1>2 DEF Fits
    <2>3. T \cap apart[d] = {} => Agrees(x, T, "log", i[c], deleted[c], got[c], data'[d], saved[d])
      <3> DEFINE m == data'[d] st == saved[d]
      <3>1. x.op \in {"mset", "msetnx"} /\ T = {a, b}
        BY ONLY <1>1, <1>3
      <3>2. T \cap apart[d] = {} => /\ m[a] = x.val /\ m[b] = x.val
                                    /\ x.op = "msetnx" => st[a] = Nil /\ st[b] = Nil
        BY <1>2, <1>3, <1>4, <1>6, <2>1
      <3> HIDE DEF x, a, b, d, T, m, st
      <3>3. T \cap apart[d] = {} => Done(x, T, m, st)
        BY ONLY <3>1, <3>2 DEF Done, Modifiers
      <3> QED
        BY ONLY <3>3 DEF Agrees, m, st
    <2> QED
      BY <1>0, <1>1, <1>4, <1>5, <2>1, <2>2, <2>3, GoesOn DEF TypeOK
  <1> QED BY <1>7, <1>8

(* Reading, computing and putting back.                                    *)
LEMMA ReadIsLocal ==
  ASSUME CommandsInv, NEW c \in Client, Read(c)
  PROVE  pc[c] # "idle" /\ TypeOK' /\ Local(c)
  <1> DEFINE x == cmd[c] d == x.db a == x.keys[1] T == Touched(x) old == data[d][a]
  <1>0. TypeOK /\ "modify" \in Place /\ pc[c] = "start" /\ data' = data
    BY DEF CommandsInv, Place, Read, Goto, Reply
  <1>1. x.op \in Modifiers /\ UNCHANGED <<saved, conn, apart>>
    BY DEF Read, Op
  <1>2. /\ x \in CommandSet /\ Shaped(x) /\ d \in DB /\ T = {x.keys[n] : n \in 1..Len(x.keys)}
    BY <1>0, <1>1, AtWork DEF Modifiers
  <1>3. T = {a} /\ a \in Key /\ old \in Str \cup {Nil}
    BY <1>0, <1>1, <1>2 DEF Shaped, OneKey, Modifiers, TypeOK, Contents
  <1>4. data' \in Contents /\ Elsewhere(c)
    BY <1>0 DEF TypeOK, Elsewhere
  <1>5. T \cap apart[d] = {} => Same(c) /\ old = saved[d][a]
    <2>1. T \cap apart[d] = {} => Agrees(x, T, pc[c], i[c], deleted[c], got[c], data[d], saved[d])
      BY <1>0, Followed
    <2>2. T \cap apart[d] = {} => \A k \in T : data[d][k] = saved[d][k]
      <3> HIDE DEF x, d, T, a
      <3> QED BY ONLY <1>0, <2>1 DEF Agrees
    <2> QED BY ONLY <1>0, <1>3, <2>2 DEF Same
  <1>6. CASE ~Accepts(x, old)
    <2>1. Reply(c, "start")
      BY <1>6 DEF Read, At, Memory
    <2> QED BY <1>1, <1>4, <1>5, <2>1, Ends
  <1>7. CASE Accepts(x, old)
    <2>1. /\ Goto(c, "start", "modify") /\ UNCHANGED <<cmd, i, deleted>>
          /\ got' = [got EXCEPT ![c] = old]
      BY <1>7 DEF Read, At, Memory
    <2>2. got'[c] = old /\ got' \in [Client -> Str \cup {Nil}] /\ \A e \in Client \ {c} : got'[e] = got[e]
      BY <1>0, <1>3, <2>1 DEF TypeOK
    <2>3. Fits(x, "modify", i[c], deleted[c], old)
      BY <1>1, <1>2, <1>7 DEF Fits
    <2>4. T \cap apart[d] = {} => Agrees(x, T, "modify", i[c], deleted[c], old, data[d], saved[d])
      BY <1>0, <1>1, <1>3, <1>5 DEF Agrees, Same, Modifiers
    <2> HIDE DEF old
    <2> QED
      BY <1>0, <1>1, <1>4, <2>1, <2>2, <2>3, <2>4, GoesOn DEF TypeOK
  <1> QED BY <1>6, <1>7

(* A GETSET that met no key ends here, unlogged: its key is followed no    *)
(* longer.                                                                 *)
LEMMA ModifyIsLocal ==
  ASSUME CommandsInv, NEW c \in Client, Modify(c)
  PROVE  pc[c] # "idle" /\ TypeOK' /\ Local(c)
  <1> DEFINE x == cmd[c] d == x.db a == x.keys[1] T == Touched(x) v == Modified(x, got[c])
             unlogged == x.op = "getset" /\ got[c] = Nil
  <1>0. TypeOK /\ "log" \in Place /\ pc[c] = "modify"
    BY DEF CommandsInv, Place, Modify, Goto, Reply
  <1>1. x.op \in Modifiers /\ UNCHANGED <<saved, conn>> /\ Store(c, a, v)
    BY DEF Modify, Op, At
  <1>2. /\ x \in CommandSet /\ Shaped(x) /\ d \in DB /\ T = {x.keys[n] : n \in 1..Len(x.keys)}
        /\ Accepts(x, got[c]) /\ got[c] \in Str \cup {Nil}
    BY <1>0, <1>1, AtWork DEF Modifiers, Fits, TypeOK
  <1>3. T = {a} /\ a \in Key /\ v \in Str
    BY <1>1, <1>2, ModifiedIsStr DEF Shaped, OneKey, Modifiers
  <1> HIDE DEF v
  <1>4. /\ data' \in Contents
        /\ \A e \in DB : \A j \in Key : data'[e][j] = IF e = d /\ j = a THEN v ELSE data[e][j]
    BY <1>0, <1>1, <1>2, <1>3, StoreIs
  <1>5. Elsewhere(c)
    BY <1>3, <1>4 DEF Elsewhere
  <1>6. CASE unlogged
    <2>1. Reply(c, "modify") /\ apart' = [apart EXCEPT ![d] = @ \cup {a}]
      BY <1>6 DEF Modify, Op, At
    <2>2. apart' \in [DB -> SUBSET Key] /\ \A e \in DB : apart'[e] = apart[e] \cup (IF e = d THEN T ELSE {})
      BY <1>0, <1>2, <1>3, <2>1 DEF TypeOK
    <2>3. TypeOK'
      BY <1>0, <1>1, <1>4, <2>1, <2>2, ReplyIs DEF TypeOK
    <2>4. /\ pc'[c] = "idle" /\ used' = used
          /\ Fits(cmd'[c], pc'[c], i'[c], deleted'[c], got'[c])
          /\ \A e \in Client \ {c} : /\ pc'[e] = pc[e] /\ cmd'[e] = cmd[e] /\ i'[e] = i[e]
                                      /\ got'[e] = got[e] /\ deleted'[e] = deleted[e]
      BY <1>0, <2>1, ReplyIs
    <2> QED
      BY <1>0, <1>1, <1>2, <1>5, <2>2, <2>3, <2>4 DEF Local, Elsewhere
  <1>7. CASE ~unlogged
    <2>1. Goto(c, "modify", "log") /\ UNCHANGED <<cmd, i, got, deleted, apart>>
      BY <1>7 DEF Modify, Op
    <2>2. Fits(x, "log", i[c], deleted[c], got[c])
      BY <1>2 DEF Fits
    <2>3. T \cap apart[d] = {} => Agrees(x, T, "log", i[c], deleted[c], got[c], data'[d], saved[d])
      <3>1. T \cap apart[d] = {} => got[c] = saved[d][a]
        <4>1. T \cap apart[d] = {} => Agrees(x, T, pc[c], i[c], deleted[c], got[c], data[d], saved[d])
          BY <1>0, Followed
        <4> HIDE DEF x, d, T
        <4> QED BY ONLY <1>0, <4>1 DEF Agrees
      <3>2. data'[d][a] = v
        BY <1>2, <1>3, <1>4
      <3> HIDE DEF x, d, T, v
      <3> QED
        BY ONLY <1>1, <1>2, <3>1, <3>2 DEF Agrees, Done, Modifiers, v
    <2> QED
      BY <1>0, <1>1, <1>4, <1>5, <2>1, <2>2, <2>3, GoesOn DEF TypeOK
  <1> QED BY <1>6, <1>7

(* DEL and RENAMENX remove their keys in turn: where memory is when one    *)
(* more key has been seen to.                                              *)
SeenTo(c, met) ==
  LET x == cmd[c] m == data'[x.db] st == saved[x.db] a == x.keys[1] b == x.keys[2] IN
  /\ m[a] = Nil
  /\ i[c] = 1 /\ Len(x.keys) = 2 => m[b] = st[b]
  /\ i[c] = 2 => m[b] = Nil
  /\ x.op = "del" => (met <=> st[a] # Nil \/ (i[c] = 2 /\ st[b] # Nil))

(* After each key Removes goes on, or is through.                          *)
LEMMA OnwardIsLocal ==
  ASSUME CommandsInv, NEW c \in Client, NEW from \in {"find", "remove"}, NEW met \in BOOLEAN,
         Onward(c, from, met), UNCHANGED <<saved, conn, apart>>, data' \in Contents, Elsewhere(c),
         Touched(cmd[c]) \cap apart[cmd[c].db] = {} => SeenTo(c, met)
  PROVE  pc[c] # "idle" /\ TypeOK' /\ Local(c)
  <1> DEFINE x == cmd[c] d == x.db a == x.keys[1] b == x.keys[2] T == Touched(x)
  <1>0. TypeOK /\ {"find", "log", "dest"} \subseteq Place /\ pc[c] = from /\ pc[c] # "idle"
    BY DEF CommandsInv, Place, Onward, Goto, Reply
  <1>2. /\ x \in CommandSet /\ Shaped(x) /\ d \in DB
        /\ x.op \in {"del", "renamenx"} /\ i[c] \in 1..Len(x.keys)
    BY <1>0, AtWork DEF Fits
  <1>3. /\ T = {x.keys[n] : n \in 1..Len(x.keys)}
        /\ Len(x.keys) \in 1..2 /\ i[c] \in 1..2 /\ (x.op = "renamenx" => Len(x.keys) = 2)
    <2>1. T = {x.keys[n] : n \in 1..Len(x.keys)}
      BY <1>0, <1>2, AtWork
    <2>2. Len(x.keys) \in 1..2 /\ (x.op = "renamenx" => Len(x.keys) = 2)
      BY <1>2 DEF Shaped
    <2> QED BY <1>2, <2>1, <2>2
  <1>4. T = IF Len(x.keys) = 2 THEN {a, b} ELSE {a}
    BY <1>3
  <1>5. T \cap apart[d] = {} /\ x.op = "renamenx" =>
          got[c] = saved[d][a] /\ got[c] # Nil /\ saved[d][b] = Nil
    <2>1. T \cap apart[d] = {} => Agrees(x, T, pc[c], i[c], deleted[c], got[c], data[d], saved[d])
      BY <1>0, Followed
    <2>2. from \in {"find", "remove"}
      OBVIOUS
    <2> HIDE DEF x, d, T
    <2> QED BY ONLY <1>0, <2>1, <2>2 DEF Agrees
  <1>6. CASE i[c] < Len(x.keys)
    <2>0. /\ Goto(c, from, "find") /\ Move(c, i[c] + 1)
          /\ deleted' = [deleted EXCEPT ![c] = met] /\ UNCHANGED <<cmd, got>>
      BY <1>6 DEF Onward
    <2>1. i[c] = 1 /\ i[c] + 1 = 2 /\ Len(x.keys) = 2
      <3> DEFINE l == Len(x.keys) n == i[c]
      <3>1. l \in 1..2 /\ n \in 1..2 /\ n < l
        BY ONLY <1>3, <1>6
      <3> HIDE DEF l, n
      <3>2. n = 1 /\ n + 1 = 2 /\ l = 2
        BY ONLY <3>1
      <3> QED
        BY ONLY <3>2 DEF l, n
    <2>2. /\ i'[c] = 2 /\ i' \in [Client -> 1..2]
          /\ deleted'[c] = met /\ deleted' \in [Client -> BOOLEAN]
          /\ \A e \in Client \ {c} : i'[e] = i[e] /\ deleted'[e] = deleted[e]
      BY <1>0, <2>0, <2>1, MoveIs DEF TypeOK
    <2>3. Fits(x, "find", 2, met, got[c])
      BY <1>2, <2>1 DEF Fits
    <2>4. T \cap apart[d] = {} => Agrees(x, T, "find", 2, met, got[c], data'[d], saved[d])
      BY <1>2, <1>5, <2>1 DEF Agrees, SeenTo
    <2> QED
      BY <1>0, <2>0, <2>2, <2>3, <2>4, GoesOn DEF TypeOK
  <1>7. CASE ~(i[c] < Len(x.keys)) /\ Reply(c, from) /\ x.op = "del" /\ ~met
    <2>1. T \cap apart[d] = {} => Same(c)
      BY <1>3, <1>4, <1>7 DEF SeenTo, Same
    <2> QED BY <1>0, <1>7, <2>1, Ends
  <1>8. CASE /\ ~(i[c] < Len(x.keys)) /\ Goto(c, from, IF x.op = "del" THEN "log" ELSE "dest")
             /\ deleted' = [deleted EXCEPT ![c] = met] /\ UNCHANGED <<cmd, i, got>>
    <2> DEFINE to == IF x.op = "del" THEN "log" ELSE "dest"
    <2>1. deleted'[c] = met /\ deleted' \in [Client -> BOOLEAN] /\ \A e \in Client \ {c} : deleted'[e] = deleted[e]
      BY <1>0, <1>8 DEF TypeOK
    <2>2. Fits(x, to, i[c], met, got[c]) /\ to \in Place /\ to # "idle"
      BY ONLY <1>0, <1>2 DEF Fits
    <2>3. T \cap apart[d] = {} => Agrees(x, T, to, i[c], met, got[c], data'[d], saved[d])
      <3> DEFINE l == Len(x.keys) n == i[c] m == data'[d]
      <3>1. l \in 1..2 /\ n \in 1..2 /\ n \in 1..l /\ ~(n < l)
        BY ONLY <1>2, <1>3, <1>8
      <3>2. T = IF l = 2 THEN {a, b} ELSE {a}
        BY ONLY <1>4
      <3>3. x.op = "del" \/ (x.op = "renamenx" /\ l = 2)
        BY ONLY <1>2, <1>3
      <3>4. T \cap apart[d] = {} => m[a] = Nil /\ (n = 2 => m[b] = Nil)
        BY DEF SeenTo
      <3> HIDE DEF x, d, a, b, T, l, n, m
      <3>5. l = n
        BY ONLY <3>1
      <3>6. T \cap apart[d] = {} => \A k \in T : m[k] = Nil
        BY ONLY <3>1, <3>2, <3>4, <3>5
      <3>7. T \cap apart[d] = {} /\ l = 2 => m[a] = Nil /\ m[b] = Nil
        BY ONLY <3>4, <3>5
      <3>8. CASE x.op = "del"
        <4>1. to = "log"
          BY ONLY <3>8
        <4> HIDE DEF to
        <4> QED BY ONLY <3>6, <3>8, <4>1 DEF Agrees, Done, Modifiers, m
      <3>9. CASE x.op = "renamenx" /\ l = 2
        <4>1. to = "dest"
          BY ONLY <3>9
        <4> HIDE DEF to
        <4> QED BY ONLY <1>5, <3>7, <3>9, <4>1 DEF Agrees, m, a, b
      <3> QED BY ONLY <3>3, <3>8, <3>9
    <2> HIDE DEF to
    <2>4. Goto(c, from, to)
      BY <1>8 DEF to
    <2> QED
      BY <1>0, <1>8, <2>1, <2>2, <2>3, <2>4, GoesOn DEF TypeOK
  <1> QED BY <1>6, <1>7, <1>8 DEF Onward, Op

(* Removes looks a key up.                                                 *)
LEMMA FindIsLocal ==
  ASSUME CommandsInv, NEW c \in Client, Find(c)
  PROVE  pc[c] # "idle" /\ TypeOK' /\ Local(c)
  <1> DEFINE x == cmd[c] d == x.db a == x.keys[1] b == x.keys[2] T == Touched(x) k == x.keys[i[c]]
  <1>0. TypeOK /\ "remove" \in Place /\ pc[c] = "find" /\ UNCHANGED <<data, saved, conn, apart>>
    BY DEF CommandsInv, Place, Find
  <1>2. x \in CommandSet /\ Shaped(x) /\ x.op \in {"del", "renamenx"} /\ i[c] \in 1..Len(x.keys)
    BY <1>0, AtWork DEF Fits
  <1>3. Len(x.keys) \in 1..2 /\ i[c] \in 1..2
    BY <1>0, <1>2 DEF Shaped
  <1>4. data' \in Contents /\ Elsewhere(c) /\ deleted[c] \in BOOLEAN
    BY <1>0 DEF TypeOK, Elsewhere
  <1>f. T \cap apart[d] = {} => Agrees(x, T, pc[c], i[c], deleted[c], got[c], data[d], saved[d])
    BY <1>0, Followed
  <1>5. CASE data[d][k] = Nil
    <2>1. Onward(c, "find", deleted[c])
      BY SMTT(30), <1>5 DEF Find, Memory, At
    <2>2. T \cap apart[d] = {} => SeenTo(c, deleted[c])
      <3>1. T \cap apart[d] = {} =>
              /\ data[d][a] = IF i[c] = 1 THEN saved[d][a] ELSE Nil
              /\ Len(x.keys) = 2 => data[d][b] = saved[d][b]
              /\ x.op = "del" => (deleted[c] <=> i[c] = 2 /\ saved[d][a] # Nil)
        <4> HIDE DEF x, d, T
        <4> QED BY ONLY <1>0, <1>f DEF Agrees
      <3>2. (i[c] = 1 => k = a) /\ (i[c] = 2 => k = b)
        OBVIOUS
      <3> HIDE DEF a, b, k
      <3> QED BY ONLY <1>0, <1>2, <1>3, <1>5, <3>1, <3>2 DEF SeenTo, a, b
    <2> QED BY <1>0, <1>4, <2>1, <2>2, OnwardIsLocal
  <1>6. CASE data[d][k] # Nil
    <2>1. Goto(c, "find", "remove") /\ UNCHANGED <<cmd, i, got, deleted>>
      BY <1>6 DEF Find, Memory, At
    <2>2. Fits(x, "remove", i[c], deleted[c], got[c])
      BY ONLY <1>2 DEF Fits
    <2>3. T \cap apart[d] = {} => Agrees(x, T, "remove", i[c], deleted[c], got[c], data[d], saved[d])
      <3> HIDE DEF x, d, T, a, b
      <3> QED BY ONLY <1>0, <1>2, <1>6, <1>f DEF Agrees, k
    <2> QED
      BY <1>0, <1>4, <2>1, <2>2, <2>3, GoesOn DEF TypeOK
  <1> QED BY <1>5, <1>6

(* Removes removes a key it has found.                                     *)
LEMMA RemoveIsLocal ==
  ASSUME CommandsInv, NEW c \in Client, Remove(c)
  PROVE  pc[c] # "idle" /\ TypeOK' /\ Local(c)
  <1> DEFINE x == cmd[c] d == x.db a == x.keys[1] b == x.keys[2] T == Touched(x) k == x.keys[i[c]]
  <1>0. /\ TypeOK /\ pc[c] = "remove" /\ UNCHANGED <<saved, conn, apart>>
        /\ Onward(c, "remove", TRUE) /\ Store(c, k, Nil)
    BY DEF CommandsInv, Remove, Onward, Goto, Reply, At
  <1>2. /\ x \in CommandSet /\ Shaped(x) /\ d \in DB /\ x.op \in {"del", "renamenx"}
        /\ i[c] \in 1..Len(x.keys) /\ k \in T
    BY <1>0, AtWork DEF Fits
  <1>3. /\ Len(x.keys) \in 1..2 /\ i[c] \in 1..2 /\ a \in Key /\ k \in Key
        /\ Len(x.keys) = 2 => b \in Key
    BY <1>0, <1>2 DEF Shaped
  <1>4. /\ data' \in Contents
        /\ \A e \in DB : \A j \in Key : data'[e][j] = IF e = d /\ j = k THEN Nil ELSE data[e][j]
    BY ONLY <1>0, <1>2, <1>3, StoreIs
  <1>5. Elsewhere(c)
    BY <1>2, <1>4 DEF Elsewhere
  <1>f. T \cap apart[d] = {} => Agrees(x, T, pc[c], i[c], deleted[c], got[c], data[d], saved[d])
    BY <1>0, Followed
  <1>6. T \cap apart[d] = {} =>
          /\ data[d][a] = IF i[c] = 1 THEN saved[d][a] ELSE Nil
          /\ Len(x.keys) = 2 => data[d][b] = saved[d][b]
          /\ data[d][k] # Nil
          /\ x.op = "del" => (deleted[c] <=> i[c] = 2 /\ saved[d][a] # Nil)
          /\ x.op = "renamenx" => saved[d][a] # Nil /\ saved[d][b] = Nil
    <2> HIDE DEF x, d, T
    <2> QED BY ONLY <1>0, <1>2, <1>3, <1>f DEF Agrees
  <1>7. x.op = "del" /\ Len(x.keys) = 2 => a # b
    BY <1>2 DEF Shaped
  <1>8. ASSUME T \cap apart[d] = {} PROVE SeenTo(c, TRUE)
    <2>1. CASE i[c] = 1
      BY <1>2, <1>3, <1>4, <1>6, <1>7, <1>8, <2>1 DEF SeenTo, Shaped
    <2>2. CASE i[c] = 2
      BY <1>2, <1>3, <1>4, <1>6, <1>7, <1>8, <2>2 DEF SeenTo, Shaped
    <2>3. i[c] = 1 \/ i[c] = 2
      BY <1>3
    <2> QED BY <2>1, <2>2, <2>3
  <1> QED
    BY <1>0, <1>4, <1>5, <1>8, OnwardIsLocal

(* RENAME and RENAMENX.                                                    *)
LEMMA RenameNXTestIsLocal ==
  ASSUME CommandsInv, NEW c \in Client, RenameNXTest(c)
  PROVE  pc[c] # "idle" /\ TypeOK' /\ Local(c)
  <1> DEFINE x == cmd[c] d == x.db b == x.keys[2] T == Touched(x)
  <1>0. /\ TypeOK /\ "start" \in Place /\ pc[c] = "test" /\ UNCHANGED <<data, saved, conn, apart>>
        /\ x.op = "renamenx"
    BY DEF CommandsInv, Place, RenameNXTest, Reply, Goto, Op
  <1>1. x \in CommandSet /\ i[c] = 1
    BY <1>0, AtWork DEF Fits
  <1>2. Shaped(x) /\ Len(x.keys) = 2 /\ b \in T
    BY SMTT(30), <1>0, <1>1, AtWork DEF Shaped
  <1>3. data' \in Contents /\ Elsewhere(c)
    BY <1>0 DEF TypeOK, Elsewhere
  <1>4. T \cap apart[d] = {} => \A k \in T : data[d][k] = saved[d][k]
    <2>1. T \cap apart[d] = {} => Agrees(x, T, pc[c], i[c], deleted[c], got[c], data[d], saved[d])
      BY <1>0, Followed
    <2> HIDE DEF x, d, T
    <2> QED BY ONLY <1>0, <2>1 DEF Agrees
  <1>5. CASE Reply(c, "test")
    BY <1>0, <1>3, <1>4, <1>5, Ends DEF Same
  <1>6. CASE data[d][b] = Nil /\ Goto(c, "test", "start") /\ UNCHANGED <<cmd, i, got, deleted>>
    <2>1. Fits(x, "start", i[c], deleted[c], got[c])
      BY <1>0, <1>1 DEF Fits
    <2>2. T \cap apart[d] = {} => Agrees(x, T, "start", i[c], deleted[c], got[c], data[d], saved[d])
      BY <1>0, <1>2, <1>4, <1>6 DEF Agrees
    <2> QED
      BY <1>0, <1>3, <1>6, <2>1, <2>2, GoesOn DEF TypeOK
  <1> QED BY <1>5, <1>6 DEF RenameNXTest, Memory, At

(* The value of the old name is read.                                      *)
LEMMA RenameReadIsLocal ==
  ASSUME CommandsInv, NEW c \in Client, RenameRead(c)
  PROVE  pc[c] # "idle" /\ TypeOK' /\ Local(c)
  <1> DEFINE x == cmd[c] d == x.db a == x.keys[1] b == x.keys[2] T == Touched(x)
             old == data[d][a] to == IF x.op = "rename" THEN "dest" ELSE "find"
  <1>0. /\ TypeOK /\ {"dest", "find"} \subseteq Place /\ pc[c] = "start"
        /\ UNCHANGED <<data, saved, conn, apart>> /\ x.op \in {"rename", "renamenx"}
    BY DEF CommandsInv, Place, RenameRead, Reply, Goto, Op
  <1>1. x \in CommandSet /\ i[c] = 1
    BY <1>0, AtWork DEF Fits
  <1>2. Shaped(x) /\ Len(x.keys) = 2 /\ a \in T /\ b \in T /\ a \in Key /\ d \in DB
    <2>1. Shaped(x) /\ d \in DB /\ T \subseteq Key
      BY <1>0, AtWork
    <2>2. Len(x.keys) = 2
      BY <1>0, <2>1 DEF Shaped
    <2> QED BY <1>0, <2>1, <2>2, AtWork
  <1>3. data' \in Contents /\ Elsewhere(c) /\ old \in Str \cup {Nil}
    BY ONLY <1>0, <1>2 DEF TypeOK, Contents, Elsewhere
  <1>4. T \cap apart[d] = {} => /\ \A k \in T : data[d][k] = saved[d][k]
                                /\ x.op = "renamenx" => saved[d][b] = Nil
    <2>1. T \cap apart[d] = {} => Agrees(x, T, pc[c], i[c], deleted[c], got[c], data[d], saved[d])
      BY <1>0, Followed
    <2> HIDE DEF x, d, T
    <2> QED BY ONLY <1>0, <2>1 DEF Agrees
  <1>5. CASE Reply(c, "start")
    BY <1>0, <1>3, <1>4, <1>5, Ends DEF Same
  <1>6. CASE old # Nil /\ Goto(c, "start", to) /\ got' = [got EXCEPT ![c] = old] /\ UNCHANGED <<cmd, i, deleted>>
    <2>1. got'[c] = old /\ got' \in [Client -> Str \cup {Nil}] /\ \A e \in Client \ {c} : got'[e] = got[e]
      BY <1>0, <1>3, <1>6 DEF TypeOK
    <2>2. Fits(x, to, i[c], deleted[c], old) /\ to \in Place /\ to # "idle"
      BY <1>0, <1>1, <1>2 DEF Fits
    <2>3. T \cap apart[d] = {} => Agrees(x, T, to, i[c], deleted[c], old, data[d], saved[d])
      <3> HIDE DEF x, d, T
      <3> QED BY ONLY <1>0, <1>1, <1>2, <1>4, <1>6 DEF Agrees, old, to
    <2> HIDE DEF old, to
    <2> QED
      BY <1>0, <1>3, <1>6, <2>1, <2>2, <2>3, GoesOn DEF TypeOK
  <1> QED BY <1>5, <1>6 DEF RenameRead, Memory, At, Op

(* It is put under the new name.                                           *)
LEMMA RenamePutIsLocal ==
  ASSUME CommandsInv, NEW c \in Client, RenamePut(c)
  PROVE  pc[c] # "idle" /\ TypeOK' /\ Local(c)
  <1> DEFINE x == cmd[c] d == x.db a == x.keys[1] b == x.keys[2] T == Touched(x)
             to == IF x.op = "rename" THEN "drop" ELSE "log"
  <1>0. /\ TypeOK /\ {"drop", "log"} \subseteq Place /\ pc[c] = "dest"
        /\ Goto(c, "dest", to) /\ UNCHANGED <<saved, conn, cmd, i, got, deleted, apart>>
        /\ Store(c, b, got[c])
    BY DEF CommandsInv, Place, RenamePut, Goto, Op, At
  <1>1. x \in CommandSet /\ x.op \in {"rename", "renamenx"} /\ got[c] \in Str \cup {Nil}
    BY <1>0, AtWork DEF Fits, TypeOK
  <1>2. Shaped(x) /\ Len(x.keys) = 2 /\ a \in T /\ b \in T /\ a \in Key /\ b \in Key /\ d \in DB
    <2>1. Shaped(x) /\ d \in DB /\ T \subseteq Key
      BY <1>0, AtWork
    <2>2. Len(x.keys) = 2
      BY <1>1, <2>1 DEF Shaped
    <2> QED BY <1>0, <1>1, <2>1, <2>2, AtWork
  <1>3. /\ data' \in Contents
        /\ \A e \in DB : \A j \in Key : data'[e][j] = IF e = d /\ j = b THEN got[c] ELSE data[e][j]
    BY <1>0, <1>1, <1>2, StoreIs
  <1>4. Elsewhere(c)
    BY <1>2, <1>3 DEF Elsewhere
  <1>5. Fits(x, to, i[c], deleted[c], got[c]) /\ to \in Place /\ to # "idle"
    BY ONLY <1>0, <1>1 DEF Fits
  <1>6. T \cap apart[d] = {} =>
          /\ got[c] = saved[d][a] /\ got[c] # Nil
          /\ x.op = "renamenx" => data[d][a] = Nil /\ saved[d][b] = Nil
    <2>1. T \cap apart[d] = {} => Agrees(x, T, pc[c], i[c], deleted[c], got[c], data[d], saved[d])
      BY <1>0, Followed
    <2> HIDE DEF x, d, T
    <2> QED BY ONLY <1>0, <1>1, <2>1 DEF Agrees
  <1>7. data'[d][b] = got[c] /\ (a # b => data'[d][a] = data[d][a])
    BY <1>2, <1>3
  <1>8. T \cap apart[d] = {} => Agrees(x, T, to, i[c], deleted[c], got[c], data'[d], saved[d])
    <2> HIDE DEF x, d, T
    <2> QED BY ONLY <1>1, <1>6, <1>7 DEF Agrees, Done, Modifiers, to
  <1> HIDE DEF to
  <1> QED
    BY <1>0, <1>3, <1>4, <1>5, <1>8, GoesOn DEF TypeOK

(* RENAME removes the old name last.                                       *)
LEMMA RenameDropIsLocal ==
  ASSUME CommandsInv, NEW c \in Client, RenameDrop(c)
  PROVE  pc[c] # "idle" /\ TypeOK' /\ Local(c)
  <1> DEFINE x == cmd[c] d == x.db a == x.keys[1] b == x.keys[2] T == Touched(x)
  <1>0. /\ TypeOK /\ "log" \in Place /\ pc[c] = "drop"
        /\ Goto(c, "drop", "log") /\ UNCHANGED <<saved, conn, cmd, i, got, deleted, apart>>
        /\ Store(c, a, Nil)
    BY DEF CommandsInv, Place, RenameDrop, Goto, At
  <1>1. x \in CommandSet /\ x.op = "rename"
    BY <1>0, AtWork DEF Fits
  <1>2. Shaped(x) /\ Len(x.keys) = 2 /\ a \in T /\ a \in Key /\ b \in Key /\ d \in DB
    <2>1. Shaped(x) /\ d \in DB /\ T \subseteq Key
      BY <1>0, AtWork
    <2>2. Len(x.keys) = 2
      BY <1>1, <2>1 DEF Shaped
    <2> QED BY <1>0, <1>1, <2>1, <2>2, AtWork
  <1>3. /\ data' \in Contents
        /\ \A e \in DB : \A j \in Key : data'[e][j] = IF e = d /\ j = a THEN Nil ELSE data[e][j]
    BY <1>0, <1>2, StoreIs
  <1>4. Elsewhere(c)
    BY <1>2, <1>3 DEF Elsewhere
  <1>5. Fits(x, "log", i[c], deleted[c], got[c])
    BY ONLY <1>1 DEF Fits
  <1>6. T \cap apart[d] = {} => got[c] = saved[d][a] /\ got[c] # Nil /\ data[d][b] = got[c]
    <2>1. T \cap apart[d] = {} => Agrees(x, T, pc[c], i[c], deleted[c], got[c], data[d], saved[d])
      BY <1>0, Followed
    <2> HIDE DEF x, d, T
    <2> QED BY ONLY <1>0, <2>1 DEF Agrees
  <1>7. data'[d][a] = Nil /\ (a # b => data'[d][b] = data[d][b])
    BY <1>2, <1>3
  <1>8. T \cap apart[d] = {} => Agrees(x, T, "log", i[c], deleted[c], got[c], data'[d], saved[d])
    <2> HIDE DEF x, d, T
    <2> QED BY ONLY <1>1, <1>6, <1>7 DEF Agrees, Done, Modifiers
  <1> QED
    BY <1>0, <1>3, <1>4, <1>5, <1>8, GoesOn DEF TypeOK

(* FLUSHDB clears the keys in use, and no other key holds anything.        *)
LEMMA FlushDBIsLocal ==
  ASSUME CommandsInv, NEW c \in Client, FlushDB(c)
  PROVE  pc[c] # "idle" /\ TypeOK' /\ Local(c)
  <1> DEFINE x == cmd[c] d == x.db T == Touched(x)
  <1>0. /\ TypeOK /\ InUse /\ "log" \in Place /\ pc[c] = "start" /\ x.op = "flushdb"
        /\ Goto(c, "start", "log") /\ UNCHANGED <<saved, conn, cmd, i, got, deleted, apart>>
        /\ data' = [data EXCEPT ![d] = Empty]
    BY DEF CommandsInv, Place, FlushDB, Goto, Op
  <1>1. x \in CommandSet /\ d \in DB /\ T = used[d] /\ T \subseteq Key
    BY <1>0, AtWork
  <1>2. /\ data' \in Contents
        /\ \A e \in DB : \A j \in Key : data'[e][j] = IF e = d THEN Nil ELSE data[e][j]
    BY <1>0, <1>1 DEF TypeOK, Contents, Empty
  <1>3. Elsewhere(c)
    BY <1>0, <1>1, <1>2 DEF Elsewhere, InUse
  <1>4. Fits(x, "log", i[c], deleted[c], got[c])
    BY <1>1 DEF Fits
  <1>5. Agrees(x, T, "log", i[c], deleted[c], got[c], data'[d], saved[d])
    BY <1>0, <1>1, <1>2 DEF Agrees, Done, Modifiers
  <1> QED
    BY <1>0, <1>2, <1>3, <1>4, <1>5, GoesOn DEF TypeOK

-----------------------------------------------------------------------------
(* Replaying a command changes its keys alone, and to what it has made of  *)
(* them when nothing disturbed it.                                         *)
LEMMA ApplyIs ==
  ASSUME NEW x \in CommandSet, NEW T, T = Touched(x), T \subseteq Key,
         x.op # "flushdb" => T = {x.keys[n] : n \in 1..Len(x.keys)},
         NEW st \in [Key -> Str \cup {Nil}]
  PROVE  /\ Apply(x, st) \in [Key -> Str \cup {Nil}]
         /\ \A k \in Key \ T : Apply(x, st)[k] = st[k]
         /\ \A m : Done(x, T, m, st) => \A k \in T : Apply(x, st)[k] = m[k]
  <1> DEFINE a == x.keys[1] b == x.keys[2]
  <1>1. Shaped(x)
    BY CommandShape
  <1>2. CASE x.op \in {"set", "setnx", "setxx"}
    <2>1. T = {a} /\ a \in Key /\ x.val \in Str
      BY <1>1, <1>2 DEF Shaped, OneKey, Writes
    <2>2. Apply(x, st) = IF Kept(x.op, st[a]) THEN st ELSE [st EXCEPT ![a] = x.val]
      BY <1>2 DEF Apply, Modifiers
    <2>3. \A m : Done(x, T, m, st) => m[a] = IF Kept(x.op, st[a]) THEN st[a] ELSE x.val
      BY <1>2 DEF Done
    <2> QED BY <2>1, <2>2, <2>3
  <1>3. CASE x.op \in Modifiers
    <2>1. T = {a} /\ a \in Key
      BY <1>1, <1>3 DEF Shaped, OneKey, Modifiers
    <2>2. Accepts(x, st[a]) => Modified(x, st[a]) \in Str
      BY <1>3, <2>1, ModifiedIsStr
    <2>3. Apply(x, st) = IF Accepts(x, st[a]) THEN [st EXCEPT ![a] = Modified(x, st[a])] ELSE st
      BY <1>3 DEF Apply, Modifiers
    <2>4. \A m : Done(x, T, m, st) => Accepts(x, st[a]) /\ m[a] = Modified(x, st[a])
      BY <1>3 DEF Done
    <2> QED BY <2>1, <2>2, <2>3, <2>4
  <1>4. CASE x.op \in {"mset", "msetnx"}
    <2> DEFINE new == [j \in Key |-> IF j \in T THEN x.val ELSE st[j]]
    <2>1. x.val \in Str
      BY <1>1, <1>4 DEF Shaped, Writes
    <2>2. Apply(x, st) = IF x.op = "msetnx" /\ \E j \in T : st[j] # Nil THEN st ELSE new
      BY <1>4 DEF Apply, Modifiers
    <2>3. \A m : Done(x, T, m, st) => /\ \A k \in T : m[k] = x.val
                                      /\ x.op = "msetnx" => \A k \in T : st[k] = Nil
      BY <1>4 DEF Done
    <2> QED BY <2>1, <2>2, <2>3
  <1>5. CASE x.op \in {"del", "flushdb"}
    <2>1. Apply(x, st) = [j \in Key |-> IF j \in T THEN Nil ELSE st[j]]
      BY <1>5 DEF Apply, Modifiers
    <2>2. \A m : Done(x, T, m, st) => \A k \in T : m[k] = Nil
      BY <1>5 DEF Done
    <2> QED BY <2>1, <2>2
  <1>6. CASE x.op \in {"rename", "renamenx"}
    <2>1. Len(x.keys) = 2 /\ a \in Key /\ b \in Key /\ T = {a, b}
      <3>1. Len(x.keys) = 2 /\ a \in Key /\ b \in Key
        BY <1>1, <1>6 DEF Shaped
      <3> QED BY <1>6, <3>1
    <2>2. Apply(x, st) = IF st[a] # Nil /\ (x.op = "renamenx" => st[b] = Nil)
                         THEN Renamed(st, a, b) ELSE st
      BY <1>6 DEF Apply, Modifiers
    <2>3. \A m : Done(x, T, m, st) => /\ st[a] # Nil /\ m[a] = Nil /\ (a # b => m[b] = st[a])
                                      /\ x.op = "renamenx" => st[b] = Nil
      BY <1>6 DEF Done
    <2>4. /\ Renamed(st, a, b) \in [Key -> Str \cup {Nil}]
          /\ \A k \in Key : Renamed(st, a, b)[k] = IF k = a THEN Nil ELSE IF k = b THEN st[a] ELSE st[k]
      BY <2>1 DEF Renamed
    <2> QED BY <2>1, <2>2, <2>3, <2>4
  <1> QED
    BY <1>1, <1>2, <1>3, <1>4, <1>5, <1>6 DEF Shaped, OneKey, Modifiers

(* addAof makes up in the log for all the command has done.                *)
LEMMA AddAofIsLocal ==
  ASSUME CommandsInv, NEW c \in Client, AddAof(c)
  PROVE  pc[c] # "idle" /\ TypeOK' /\ Local(c)
  <1> DEFINE x == cmd[c] d == x.db T == Touched(x) new == Apply(x, saved[d])
  <1>0. /\ TypeOK /\ pc[c] = "log" /\ UNCHANGED <<data, conn, apart>> /\ Reply(c, "log")
        /\ saved' = [saved EXCEPT ![d] = new]
    BY DEF CommandsInv, AddAof, Reply, Goto
  <1>1. /\ x \in CommandSet /\ d \in DB /\ T \subseteq Key /\ saved[d] \in [Key -> Str \cup {Nil}]
        /\ x.op # "flushdb" => T = {x.keys[n] : n \in 1..Len(x.keys)}
    BY <1>0, AtWork
  <1>2. /\ new \in [Key -> Str \cup {Nil}]
        /\ \A k \in Key \ T : new[k] = saved[d][k]
        /\ \A m : Done(x, T, m, saved[d]) => \A k \in T : new[k] = m[k]
    BY <1>1, ApplyIs
  <1> HIDE DEF new
  <1>3. saved' \in Contents /\ \A e \in DB : \A k \in Key : saved'[e][k] = IF e = d THEN new[k] ELSE saved[e][k]
    BY <1>0, <1>1, <1>2 DEF TypeOK, Contents
  <1>4. T \cap apart[d] = {} => \A k \in T : saved'[d][k] = data[d][k]
    <2>1. T \cap apart[d] = {} => Done(x, T, data[d], saved[d])
      <3>1. T \cap apart[d] = {} => Agrees(x, T, pc[c], i[c], deleted[c], got[c], data[d], saved[d])
        BY <1>0, Followed
      <3> HIDE DEF x, d, T
      <3> QED BY ONLY <1>0, <3>1 DEF Agrees
    <2> QED BY ONLY <1>1, <1>2, <1>3, <2>1
  <1>5. TypeOK'
    BY <1>0, <1>3, ReplyIs DEF TypeOK
  <1>6. /\ pc'[c] = "idle" /\ used' = used
        /\ Fits(cmd'[c], pc'[c], i'[c], deleted'[c], got'[c])
        /\ \A e \in Client \ {c} : /\ pc'[e] = pc[e] /\ cmd'[e] = cmd[e] /\ i'[e] = i[e]
                                    /\ got'[e] = got[e] /\ deleted'[e] = deleted[e]
    BY <1>0, ReplyIs
  <1> QED
    BY <1>0, <1>1, <1>2, <1>3, <1>4, <1>5, <1>6 DEF Local

-----------------------------------------------------------------------------
(* Memory and log are empty at first.                                      *)
LEMMA CommandsInit == Init => CommandsInv
  <1> SUFFICES ASSUME Init PROVE CommandsInv
    OBVIOUS
  <1>1. TypeOK
    BY DBAssumption DEF Init, TypeOK, Contents, Empty, Place, DB
  <1>2. FitsAll /\ InUse /\ Solo /\ Follows
    BY DEF Init, FitsAll, Fits, InUse, Solo, Follows, Empty
  <1> QED
    BY <1>1, <1>2 DEF CommandsInv

(* A command begins on keys that are followed; its rivals and it are       *)
(* followed no longer.                                                     *)
LEMMA ExecKeeps ==
  ASSUME CommandsInv, NEW c \in Client, NEW x \in CommandSet, Exec(c, x)
  PROVE  CommandsInv'
  <1> DEFINE d == x.db T == Touched(x) to == FirstStep(x.op) D == Disturbed(x)
  <1>b. TypeOK /\ FitsAll /\ InUse /\ Solo /\ Follows
    BY DEF CommandsInv
  <1>0. /\ T \subseteq used[d] /\ T \cap apart[d] = {} /\ Goto(c, "idle", to)
        /\ cmd' = [cmd EXCEPT ![c] = x] /\ apart' = [apart EXCEPT ![d] = @ \cup D]
        /\ UNCHANGED <<data, saved, conn, i, got, deleted>>
    BY DEF Exec
  <1>1. Shaped(x) /\ d \in DB /\ used[d] \subseteq Key /\ T \subseteq Key
    BY <1>b, <1>0, CommandShape, DBAssumption DEF Shaped, TypeOK
  <1>2. to \in {"put", "test", "find", "start"} /\ to \in Place
    BY DEF FirstStep, Place
  <1>3. /\ pc[c] = "idle" /\ pc'[c] = to /\ pc'[c] # "idle" /\ pc' \in [Client -> Place] /\ used' = used
        /\ \A e \in Client \ {c} : pc'[e] = pc[e]
    BY <1>b, <1>0, <1>2, GotoIs
  <1>4. cmd'[c] = x /\ cmd' \in [Client -> CommandSet \cup {NoCommand}]
        /\ \A e \in Client \ {c} : cmd'[e] = cmd[e]
    BY <1>b, <1>0 DEF TypeOK
  <1>r. \A e \in Client : pc[e] # "idle" => /\ cmd[e].db \in DB /\ Touched(cmd[e]) \subseteq Key /\ e # c
    BY <1>3, AtWork
  <1>5. D \subseteq Key
    <2>1. \A r \in Rivals(x) : Touched(cmd[r]) \subseteq Key
      BY <1>r DEF Rivals
    <2> QED BY <1>1, <2>1 DEF Disturbed
  <1>6. apart' \in [DB -> SUBSET Key] /\ \A e \in DB : apart'[e] = apart[e] \cup (IF e = d THEN D ELSE {})
    BY <1>b, <1>0, <1>1, <1>5 DEF TypeOK
  <1>7. \A r \in Rivals(x) : T \subseteq D /\ Touched(cmd[r]) \subseteq D
    BY DEF Disturbed
  <1>8. \A k \in D : \E r \in Rivals(x) : k \in T \cup Touched(cmd[r])
    BY DEF Disturbed
  <1> HIDE DEF D, to
  <1>c. \A y : Touched(y)' = Touched(y)
    BY <1>3 DEF Touched
  <1>9. TypeOK'
    BY <1>b, <1>0, <1>3, <1>4, <1>6 DEF TypeOK
  <1>10. FitsAll'
    <2>1. Fits(x, to, i[c], deleted[c], got[c])
      <3>1. i[c] = 1
        BY <1>b, <1>3 DEF FitsAll, Fits
      <3>2. /\ to = "start" => x.op \notin {"mset", "msetnx", "del"}
            /\ to = "test" => x.op \in {"msetnx", "renamenx"}
            /\ to = "put" => x.op \in {"mset", "msetnx"}
            /\ to = "find" => x.op = "del"
            /\ to \in {"start", "test", "put", "find"}
        BY DEF to, FirstStep
      <3>3. to = "find" => 1 \in 1..Len(x.keys)
        BY <1>1, <3>2 DEF Shaped
      <3>4. x \in CommandSet
        BY <1>0
      <3> QED BY ONLY <3>1, <3>2, <3>3, <3>4 DEF Fits
    <2>2. \A e \in Client : Fits(cmd'[e], pc'[e], i'[e], deleted'[e], got'[e])
      BY <1>b, <1>0, <1>3, <1>4, <2>1 DEF FitsAll
    <2> QED BY <2>2 DEF FitsAll
  <1>11. InUse'
    <2>1. \A e \in Client : pc'[e] # "idle" => Touched(cmd'[e]) \subseteq used[cmd'[e].db]
      BY <1>b, <1>0, <1>3, <1>4 DEF InUse
    <2> QED BY <1>b, <1>0, <1>3, <1>c, <2>1 DEF InUse
  <1>12. Solo'
    <2>0. \A r \in Client : (pc[r] # "idle" /\ cmd[r].db = d /\ Touched(cmd[r]) \cap T # {}) <=> r \in Rivals(x)
      BY DEF Rivals
    <2>1. ASSUME NEW e \in Client, NEW f \in Client, e # f, pc'[e] # "idle", pc'[f] # "idle",
                 cmd'[e].db = cmd'[f].db, Touched(cmd'[e]) \cap Touched(cmd'[f]) # {}
          PROVE  Touched(cmd'[e]) \cup Touched(cmd'[f]) \subseteq apart'[cmd'[e].db]
      <3>1. CASE e # c /\ f # c
        <4>1. pc[e] # "idle" /\ pc[f] # "idle" /\ cmd'[e] = cmd[e] /\ cmd'[f] = cmd[f]
          BY <1>3, <1>4, <2>1, <3>1
        <4>2. Touched(cmd[e]) \cup Touched(cmd[f]) \subseteq apart[cmd[e].db]
          BY <1>b, <2>1, <4>1 DEF Solo
        <4> QED BY <1>6, <1>r, <4>1, <4>2
      <3>2. CASE e = c
        <4>1. pc[f] # "idle" /\ cmd'[f] = cmd[f] /\ cmd[f].db = d /\ Touched(cmd[f]) \cap T # {}
          BY <1>3, <1>4, <2>1, <3>2
        <4>2. T \subseteq D /\ Touched(cmd[f]) \subseteq D
          BY <1>7, <2>0, <4>1
        <4> QED BY <1>1, <1>4, <1>6, <3>2, <4>1, <4>2
      <3>3. CASE f = c
        <4>1. pc[e] # "idle" /\ cmd'[e] = cmd[e] /\ cmd[e].db = d /\ Touched(cmd[e]) \cap T # {}
          BY <1>3, <1>4, <2>1, <3>3
        <4>2. T \subseteq D /\ Touched(cmd[e]) \subseteq D
          BY <1>7, <2>0, <4>1
        <4> QED BY <1>1, <1>4, <1>6, <3>3, <4>1, <4>2
      <3> QED BY <3>1, <3>2, <3>3
    <2>2. ASSUME NEW e \in Client, pc'[e] # "idle"
          PROVE  \/ Touched(cmd'[e]) \subseteq apart'[cmd'[e].db]
                 \/ Touched(cmd'[e]) \cap apart'[cmd'[e].db] = {}
      <3>1. CASE e = c
        <4>1. CASE Rivals(x) = {}
          BY <1>0, <1>1, <1>4, <1>6, <1>8, <3>1, <4>1
        <4>2. CASE Rivals(x) # {}
          BY <1>1, <1>4, <1>6, <1>7, <3>1, <4>2
        <4> QED BY <4>1, <4>2
      <3>2. CASE e # c
        <4>0. pc[e] # "idle" /\ cmd'[e] = cmd[e] /\ cmd[e].db \in DB
          BY <1>3, <1>4, <1>r, <2>2, <3>2
        <4>1. CASE Touched(cmd[e]) \subseteq apart[cmd[e].db]
          BY <1>6, <4>0, <4>1
        <4>2. CASE Touched(cmd[e]) \cap apart[cmd[e].db] = {} /\ cmd[e].db # d
          BY <1>6, <4>0, <4>2
        <4>3. CASE Touched(cmd[e]) \cap apart[d] = {} /\ cmd[e].db = d /\ e \in Rivals(x)
          BY <1>6, <1>7, <4>0, <4>3
        <4>4. CASE Touched(cmd[e]) \cap apart[d] = {} /\ cmd[e].db = d /\ e \notin Rivals(x)
          <5>1. Touched(cmd[e]) \cap T = {}
            BY <2>0, <4>0, <4>4
          <5>2. \A r \in Rivals(x) : Touched(cmd[e]) \cap Touched(cmd[r]) = {}
            <6> SUFFICES ASSUME NEW r \in Rivals(x), Touched(cmd[e]) \cap Touched(cmd[r]) # {} PROVE FALSE
              OBVIOUS
            <6>1. r \in Client /\ pc[r] # "idle" /\ cmd[r].db = d
              BY DEF Rivals
            <6>2. Touched(cmd[e]) \subseteq apart[d]
              BY <1>b, <4>0, <4>4, <6>1 DEF Solo
            <6> QED BY <4>4, <6>2
          <5>3. Touched(cmd[e]) \cap D = {}
            BY <1>8, <5>1, <5>2
          <5> QED BY <1>6, <4>0, <4>4, <5>3
        <4> QED BY <1>b, <4>0, <4>1, <4>2, <4>3, <4>4 DEF Solo
      <3> QED BY <3>1, <3>2
    <2> QED BY <1>c, <2>1, <2>2 DEF Solo
  <1>13. Follows'
    <2>1. ASSUME NEW e \in Client, pc'[e] # "idle", Touched(cmd'[e]) \cap apart'[cmd'[e].db] = {}
          PROVE  Agrees(cmd'[e], Touched(cmd'[e]), pc'[e], i'[e], deleted'[e], got'[e],
                        data'[cmd'[e].db], saved'[cmd'[e].db])
      <3>1. CASE e # c
        <4>1. pc[e] # "idle" /\ cmd'[e] = cmd[e] /\ pc'[e] = pc[e] /\ cmd[e].db \in DB
          BY <1>3, <1>4, <1>r, <2>1, <3>1
        <4>2. Touched(cmd[e]) \cap apart[cmd[e].db] = {}
          BY <1>6, <2>1, <4>1
        <4> QED BY <1>b, <1>0, <4>1, <4>2 DEF Follows
      <3>2. CASE e = c
        <4>1. \A r \in Client : ~(pc[r] # "idle" /\ cmd[r].db = d /\ Touched(cmd[r]) \cap T # {})
          <5> SUFFICES ASSUME NEW r \in Client, pc[r] # "idle", cmd[r].db = d, Touched(cmd[r]) \cap T # {}
                       PROVE  FALSE
            OBVIOUS
          <5>1. T \subseteq apart'[d]
            BY <1>1, <1>6, <1>7 DEF Rivals
          <5>2. T \cap apart'[d] = {}
            BY <1>4, <2>1, <3>2
          <5> QED BY <5>1, <5>2
        <4>2. \A k \in T : data[d][k] = saved[d][k]
          BY <1>b, <1>0, <1>1, <4>1 DEF Follows, Working
        <4>3. i[c] = 1 /\ ~deleted[c]
          BY <1>b, <1>3 DEF FitsAll, Fits
        <4>4. x.op \in {"mset", "del"} => x.keys[1] \in T /\ (Len(x.keys) = 2 => x.keys[2] \in T)
          BY <1>1 DEF Touched, Shaped
        <4>5. Agrees(x, T, to, i[c], deleted[c], got[c], data[d], saved[d])
          BY <1>1, <4>2, <4>3, <4>4 DEF Agrees, to, FirstStep, Shaped
        <4> QED BY <1>0, <1>3, <1>4, <3>2, <4>5
      <3> QED BY <3>1, <3>2
    <2>2. ASSUME NEW e \in DB, NEW k \in Key, k \notin apart'[e],
                 \A f \in Client : ~(pc'[f] # "idle" /\ cmd'[f].db = e /\ k \in Touched(cmd'[f]))
          PROVE  saved'[e][k] = data'[e][k]
      <3>1. k \notin apart[e] /\ \A f \in Client : ~(pc[f] # "idle" /\ cmd[f].db = e /\ k \in Touched(cmd[f]))
        BY <1>3, <1>4, <1>6, <1>r, <2>2
      <3> QED BY <1>b, <1>0, <3>1 DEF Follows, Working
    <2> QED BY <1>c, <2>1, <2>2 DEF Follows, Working
  <1> QED
    BY <1>9, <1>10, <1>11, <1>12, <1>13 DEF CommandsInv

(* What the invariant says but for types rests on the databases and the    *)
(* commands under way alone.                                               *)
LEMMA AtRest ==
  ASSUME CommandsInv, UNCHANGED <<data, saved, pc, cmd, i, got, deleted, apart, used>>, TypeOK'
  PROVE  CommandsInv'
  <1>1. \A y : Touched(y)' = Touched(y)
    BY DEF Touched
  <1>2. FitsAll'
    BY DEF CommandsInv, FitsAll
  <1>3. InUse'
    BY <1>1 DEF CommandsInv, InUse
  <1>4. Solo'
    BY <1>1 DEF CommandsInv, Solo
  <1>5. Follows'
    <2>1. \A d, k : Working(d, k)' = Working(d, k)
      BY <1>1 DEF Working
    <2> QED BY <1>1, <2>1 DEF CommandsInv, Follows
  <1> QED
    BY <1>2, <1>3, <1>4, <1>5 DEF CommandsInv

(* SELECT is for the connection alone.                                     *)
LEMMA SelectKeeps ==
  ASSUME CommandsInv, NEW c \in Client, NEW n \in Index, Select(c, n)
  PROVE  CommandsInv'
  <1>1. n < NDB /\ conn' = [conn EXCEPT ![c] = n] /\ n \in Int
        /\ UNCHANGED <<data, saved, pc, cmd, i, got, deleted, apart, used>>
    BY DBAssumption DEF Select
  <1>2. TypeOK'
    <2>1. conn' \in [Client -> Int] /\ \A e \in Client : conn'[e] < NDB
      BY <1>1 DEF CommandsInv, TypeOK
    <2> QED BY <1>1, <2>1 DEF CommandsInv, TypeOK
  <1> QED
    BY <1>1, <1>2, AtRest

(* A process that starts has in memory what the log has.                   *)
LEMMA RestartKeeps == CommandsInv /\ Restart => CommandsInv'
  <1> SUFFICES ASSUME CommandsInv, Restart PROVE CommandsInv'
    OBVIOUS
  <1>1. TypeOK'
    BY DBAssumption DEF CommandsInv, Restart, TypeOK, Place
  <1>2. (FitsAll /\ InUse /\ Solo /\ Follows)'
    BY DEF CommandsInv, Restart, FitsAll, Fits, InUse, Solo, Follows
  <1> QED
    BY <1>1, <1>2 DEF CommandsInv

(* Nothing happens.                                                        *)
LEMMA StutterKeeps == CommandsInv /\ UNCHANGED vars => CommandsInv'
  <1> SUFFICES ASSUME CommandsInv, UNCHANGED vars PROVE CommandsInv'
    OBVIOUS
  <1>1. TypeOK'
    BY DEF CommandsInv, vars, TypeOK
  <1> QED
    BY <1>1, AtRest DEF vars

(* One case for each action of Next.                                       *)
LEMMA CommandsStep == CommandsInv /\ [Next]_vars => CommandsInv'
  <1> SUFFICES ASSUME CommandsInv, [Next]_vars PROVE CommandsInv'
    OBVIOUS
  <1>1. ASSUME NEW c \in Client, Step(c) PROVE CommandsInv'
    <2>1. pc[c] # "idle" /\ TypeOK' /\ Local(c)
      BY <1>1, SetIsLocal, MSetNXTestIsLocal, MSetPutIsLocal, ReadIsLocal, ModifyIsLocal,
         FindIsLocal, RemoveIsLocal, RenameNXTestIsLocal, RenameReadIsLocal, RenamePutIsLocal,
         RenameDropIsLocal, FlushDBIsLocal, AddAofIsLocal DEF Step
    <2> QED BY <2>1, LocalKeeps
  <1> QED
    BY <1>1, ExecKeeps, SelectKeeps, RestartKeeps, StutterKeeps DEF Next

-----------------------------------------------------------------------------
(* The variables have their types: what the commands of string.go and      *)
(* keys.go store is a string or nothing, an int64 where they count, and    *)
(* SELECT never chooses a database past the last.                          *)
THEOREM CommandsTyping == Spec => []TypeOK
  <1>1. CommandsInv => TypeOK
    BY DEF CommandsInv
  <1> QED
    BY <1>1, CommandsInit, CommandsStep, PTL DEF Spec

(* The invariant says that the log rebuilds memory.                        *)
LEMMA InvSays == CommandsInv => RecoveryExact
  <1> SUFFICES ASSUME CommandsInv, NEW d \in DB, NEW k \in Key, k \notin apart[d]
               PROVE  /\ Working(d, k) = {} => saved[d][k] = data[d][k]
                      /\ \A c \in Working(d, k) : pc[c] = "log" => Apply(cmd[c], saved[d])[k] = data[d][k]
    BY DEF RecoveryExact
  <1>1. Working(d, k) = {} => saved[d][k] = data[d][k]
    BY DEF CommandsInv, Follows
  <1>2. ASSUME NEW c \in Working(d, k), pc[c] = "log" PROVE Apply(cmd[c], saved[d])[k] = data[d][k]
    <2>1. c \in Client /\ pc[c] # "idle" /\ cmd[c].db = d /\ k \in Touched(cmd[c])
      BY DEF Working
    <2>2. Touched(cmd[c]) \cap apart[d] = {}
      BY <2>1 DEF CommandsInv, Solo
    <2>3. Done(cmd[c], Touched(cmd[c]), data[d], saved[d])
      <3> DEFINE x == cmd[c] T == Touched(cmd[c])
      <3>1. Agrees(x, T, pc[c], i[c], deleted[c], got[c], data[d], saved[d])
        BY <2>1, <2>2, Followed
      <3> HIDE DEF x, T
      <3>2. Done(x, T, data[d], saved[d])
        BY ONLY <1>2, <3>1 DEF Agrees
      <3> QED BY <3>2 DEF x, T
    <2>4. /\ cmd[c] \in CommandSet /\ Touched(cmd[c]) \subseteq Key /\ saved[d] \in [Key -> Str \cup {Nil}]
          /\ cmd[c].op # "flushdb" => Touched(cmd[c]) = {cmd[c].keys[n] : n \in 1..Len(cmd[c].keys)}
      BY <2>1, AtWork
    <2> QED BY ONLY <2>1, <2>3, <2>4, ApplyIs
  <1> QED BY <1>1, <1>2

(* For any keys, values, databases and number of connections, the log      *)
(* rebuilds memory but for the keys on which commands of string.go and     *)
(* keys.go have overlapped, or GETSET has met a missing key: every command *)
(* hands to addAof what its replay will make of its keys.                  *)
THEOREM LogRebuildsMemory == Spec => []RecoveryExact
  BY CommandsInit, CommandsStep, InvSays, PTL DEF Spec
=============================================================================
