------------------------ MODULE ConcurrentDictHistory ------------------------
(***************************************************************************)
(* The sharded dict with history variables that follow each scan and each  *)
(* Clear.  They only record: every behaviour of ConcurrentDict is one of   *)
(* HSpec with the history variables hidden.                                *)
(***************************************************************************)
EXTENDS ConcurrentDict

VARIABLES
  ever,    \* ever[p]: the keys in the scanned table when p's scan began, or at
           \* some time before it read their shard
  always,  \* always[p]: those in it at every time of p's scan
  shrunk,  \* shrunk[p]: the count fell, or a Clear ran, since p's Keys began
  raced    \* a Clear has overlapped a writer or another Clear

history == <<ever, always, shrunk, raced>>
hvars   == <<vars, history>>

Clearing(p) == pc[p] \in {"clear", "clearTable", "clearCount"}
Writing(p)  == pc[p] \in {"lock", "drain", "body", "count", "unlock"}
InKeys(p)   == Op(p) = "Keys" /\ pc[p] # "idle"

HInit ==
  /\ Init
  /\ ever   = [p \in Proc |-> {}]
  /\ always = [p \in Proc |-> {}]
  /\ shrunk = [p \in Proc |-> FALSE]
  /\ raced  = FALSE

(* The keys of the shards that the scan of p has read.                     *)
Visited(p) == {k \in Key : ShardOf[k] < at[p] \/ (ShardOf[k] = at[p] /\ pc[p] = "runlock")}

(* What the history of p holds after a step, from the state it leads to.   *)
EverNext(p) ==
  IF Scanning(p)' THEN ever[p] \cup (Present(tab[p])' \ Visited(p)') ELSE {}
AlwaysNext(p) ==
  IF ~Scanning(p)' THEN {}
  ELSE IF Scanning(p) THEN always[p] \cap Present(tab[p])'
  ELSE Present(tab[p])'
ShrunkNext(p) ==
  /\ InKeys(p)'
  /\ \/ InKeys(p) /\ (shrunk[p] \/ count' < count)
     \/ \E q \in Proc : Clearing(q)'
RacedNext ==
  raced \/ \E p, q \in Proc :
             p # q /\ Clearing(p)' /\ (Writing(q)' \/ Clearing(q)')

HNext ==
  /\ Next
  /\ ever'   = [p \in Proc |-> EverNext(p)]
  /\ always' = [p \in Proc |-> AlwaysNext(p)]
  /\ shrunk' = [p \in Proc |-> ShrunkNext(p)]
  /\ raced'  = RacedNext

HSpec == HInit /\ [][HNext]_hvars

(* What a scan does give, whatever runs meanwhile: unless it is told to    *)
(* stop it misses no key that was there all the time, and it sees none     *)
(* that was not there at its start or put into a shard it had yet to read. *)
(* The comment on ForEach denies the latter, too, and that on Consumer     *)
(* that other shards are read after a stop (StopsWhenTold).                *)
ScanSound ==
  \A p \in Proc : Scanning(p) =>
    /\ seen[p] \subseteq ever[p]
    /\ Op(p) # "ForEachUntil" => always[p] \cap Visited(p) \subseteq seen[p]

(* dict.count can be trusted as long as no Clear has overlapped a writer:  *)
(* outside a Clear it is the number of keys in the current table.          *)
CountExactUnlessRaced ==
  ~raced /\ (\A p \in Proc : ~Clearing(p)) => count = Cardinality(Present(table))

(* What a thread-safe map promises of Len, the same when all is at rest    *)
(* and without the exception: a Clear that raced leaves a wrong count.     *)
CountExactAtRest ==
  (\A p \in Proc : pc[p] = "idle") => count = Cardinality(Present(table))

(* Keys answers a blank "" only if keys went away while it ran, and panics *)
(* on a negative length only after a Clear that raced.                     *)
Blank(p) == ret[p] > Cardinality(seen[p]) /\ pc[p] = "runlock" /\ at[p] = NShard
KeysSlots ==
  \A p \in Proc : InKeys(p) /\ ~raced =>
    /\ ret[p] >= 0
    /\ Blank(p) => shrunk[p]

-----------------------------------------------------------------------------
(* What makes these inductive: a scan starts with nothing seen, its ever   *)
(* has all the table holds in the shards it has yet to read, and its       *)
(* always nothing that is not there;                                       *)
ScanInv(p) ==
  /\ pc[p] \in {"idle", "scan"} => seen[p] = {}
  /\ Scanning(p) =>
       /\ always[p] \subseteq Present(tab[p])
       /\ Present(tab[p]) \ Visited(p) \subseteq ever[p]

(* a table not yet allocated is empty; unless a Clear has raced, writers   *)
(* work on the current table and run beside no Clear, whose new table is   *)
(* still empty when it takes the old one's place;                          *)
FreshInv == \A g \in Gen : g > fresh => Present(g) = {}
RacedInv ==
  \A p, q \in Proc : p # q /\ Clearing(p) /\ (Writing(q) \/ Clearing(q)) => raced
CountInv ==
  ~raced =>
    /\ count >= 0
    /\ (\A p \in Proc : ~Clearing(p)) => \A p \in Proc : Writing(p) => tab[p] = table
    /\ \A p \in Proc : Clearing(p) =>
         /\ Present(tab[p]) = {}
         /\ pc[p] = "clearTable" => count = 0
         /\ pc[p] = "clearCount" => table = tab[p]

(* and the count that Keys was given, when nothing has gone away since, is *)
(* made up by the keys that were there all the time.                       *)
KeysInv(p) == InKeys(p) =>
  /\ ret[p] \in Int /\ (~raced => ret[p] >= 0)
  /\ (\E q \in Proc : Clearing(q)) => shrunk[p]
  /\ ~raced /\ ~shrunk[p] =>
       /\ pc[p] = "scan" => ret[p] <= count
       /\ Scanning(p) => tab[p] = table /\ ret[p] <= Cardinality(always[p])

HistoryType ==
  /\ ever \in [Proc -> SUBSET Key] /\ always \in [Proc -> SUBSET Key]
  /\ shrunk \in [Proc -> BOOLEAN] /\ raced \in BOOLEAN

HInv ==
  /\ IInv /\ HistoryType /\ FreshInv /\ RacedInv /\ CountInv
  /\ \A p \in Proc : ScanInv(p) /\ KeysInv(p)
  /\ ScanSound /\ CountExactUnlessRaced
=============================================================================
