------------------------------- MODULE DictSpec -------------------------------
(***************************************************************************)
(* What a dictionary shared by goroutines promises (the methods of         *)
(* interface Dict, datastruct/dict/dict.go): there are no locks here.      *)
(* A keyed operation looks its key up, leaves the new value and adjusts    *)
(* the size in ONE step, somewhere between its call and its return, on the *)
(* contents that were current when it was called.  A scan looks at every   *)
(* key once, at a moment of its choice for each, until its consumer tells  *)
(* it to stop.  Clear makes new, empty contents current and zeroes the     *)
(* size, in either order and in two steps: the interface says no more of   *)
(* callers that overlap it.                                                *)
(***************************************************************************)
EXTENDS Integers, FiniteSets

CONSTANTS Key, Val, Absent, Proc, MaxGen, Ops

Gen      == 0..MaxGen
ScanOps  == {"ForEach", "ForEachUntil", "Keys"}
AnyKey   == CHOOSE k \in Key : TRUE
AnyVal   == CHOOSE v \in Val : TRUE

VARIABLES
  content,  \* content[g][k]: the value of k in the g-th contents
  size,     \* what Len answers
  cur,      \* the contents new operations work on
  fresh,    \* the last contents created
  phase,    \* where each caller is
  call,     \* its operation
  tab,      \* the contents it works on
  left,     \* the keys its scan has yet to look at
  seen,     \* the keys its scan has passed to the consumer
  ret       \* its result

vars == <<content, size, cur, fresh, phase, call, tab, left, seen, ret>>

Calls ==
  [op : {"Get", "Remove"}, key : Key, val : {AnyVal}]
    \cup [op : {"Put", "PutIfAbsent", "PutIfExists"}, key : Key, val : Val]
Bare(o) == [op |-> o, key |-> AnyKey, val |-> AnyVal]
NoCall  == Bare("none")
Scans ==
  {Bare("ForEach")} \cup [op : {"ForEachUntil"}, key : Key, val : {AnyVal}]

Init ==
  /\ content = [g \in Gen |-> [k \in Key |-> Absent]]
  /\ size = 0 /\ cur = 0 /\ fresh = 0
  /\ phase = [p \in Proc |-> "idle"]
  /\ call  = [p \in Proc |-> NoCall]
  /\ tab   = [p \in Proc |-> 0]
  /\ left  = [p \in Proc |-> {}]
  /\ seen  = [p \in Proc |-> {}]
  /\ ret   = [p \in Proc |-> 0]

Goto(p, from, to) == phase[p] = from /\ phase' = [phase EXCEPT ![p] = to]
Leave(p) ==
  /\ call' = [call EXCEPT ![p] = NoCall]
  /\ tab'  = [tab EXCEPT ![p] = 0]
  /\ seen' = [seen EXCEPT ![p] = {}]
  /\ ret'  = [ret EXCEPT ![p] = 0]
Held(p) == content[tab[p]][call[p].key]

Invoke(p, c) ==
  /\ c.op \in Ops
  /\ Goto(p, "idle", "open")
  /\ call' = [call EXCEPT ![p] = c]
  /\ tab'  = [tab EXCEPT ![p] = cur]
  /\ UNCHANGED <<content, size, cur, fresh, left, seen, ret>>

(* The one step in which an operation takes effect: v is left under the    *)
(* key, the size moves by d, the answer is r.                              *)
Effect(p, v, d, r) ==
  /\ Goto(p, "open", "done")
  /\ content' = [content EXCEPT ![tab[p]][call[p].key] = v]
  /\ size' = size + d
  /\ ret'  = [ret EXCEPT ![p] = r]
  /\ UNCHANGED <<cur, fresh, call, tab, left, seen>>

Get(p) == call[p].op = "Get" /\ Effect(p, Held(p), 0, Held(p))

Put(p) ==
  /\ call[p].op = "Put"
  /\ \/ Held(p) = Absent /\ Effect(p, call[p].val, 1, 1)
     \/ Held(p) # Absent /\ Effect(p, call[p].val, 0, 0)

PutIfAbsent(p) ==
  /\ call[p].op = "PutIfAbsent"
  /\ \/ Held(p) = Absent /\ Effect(p, call[p].val, 1, 1)
     \/ Held(p) # Absent /\ Effect(p, Held(p), 0, 0)

PutIfExists(p) ==
  /\ call[p].op = "PutIfExists"
  /\ \/ Held(p) = Absent /\ Effect(p, Absent, 0, 0)
     \/ Held(p) # Absent /\ Effect(p, call[p].val, 0, 1)

Remove(p) ==
  /\ call[p].op = "Remove"
  /\ \/ Held(p) = Absent /\ Effect(p, Absent, 0, 0)
     \/ Held(p) # Absent /\ Effect(p, Absent, -1, 1)

Return(p) ==
  /\ Goto(p, "done", "idle")
  /\ Leave(p)
  /\ UNCHANGED <<content, size, cur, fresh, left>>

ReadLen(p) ==
  /\ "Len" \in Ops
  /\ Goto(p, "idle", "done")
  /\ call' = [call EXCEPT ![p] = Bare("Len")]
  /\ ret'  = [ret EXCEPT ![p] = size]
  /\ UNCHANGED <<content, size, cur, fresh, tab, left, seen>>

(* Scans.  Keys asks for the size first, and is over at once if that is    *)
(* negative.                                                               *)
ForEach(p, c) ==
  /\ c.op \in Ops
  /\ Goto(p, "idle", "open")
  /\ call' = [call EXCEPT ![p] = c]
  /\ tab'  = [tab EXCEPT ![p] = cur]
  /\ left' = [left EXCEPT ![p] = Key]
  /\ UNCHANGED <<content, size, cur, fresh, seen, ret>>

KeysLen(p) ==
  /\ "Keys" \in Ops
  /\ Goto(p, "idle", IF size < 0 THEN "done" ELSE "scan")
  /\ call' = [call EXCEPT ![p] = Bare("Keys")]
  /\ ret'  = [ret EXCEPT ![p] = size]
  /\ UNCHANGED <<content, size, cur, fresh, tab, left, seen>>

KeysScan(p) ==
  /\ Goto(p, "scan", "open")
  /\ tab'  = [tab EXCEPT ![p] = cur]
  /\ left' = [left EXCEPT ![p] = Key]
  /\ UNCHANGED <<content, size, cur, fresh, call, seen, ret>>

(* A look at the keys of S, all at one moment.  The consumer of a          *)
(* "ForEachUntil" answers false when it is given call.key, which breaks    *)
(* off the traversal: there is nothing left to look at.                    *)
LookAt(p, S) ==
  LET entries == {k \in S : content[tab[p]][k] # Absent}
      stops   == call[p].op = "ForEachUntil" /\ call[p].key \in entries
  IN
  /\ call[p].op \in ScanOps /\ phase[p] = "open"
  /\ left' = [left EXCEPT ![p] = IF stops THEN {} ELSE @ \ S]
  /\ \E given \in SUBSET entries :
       /\ IF stops THEN call[p].key \in given ELSE given = entries
       /\ seen' = [seen EXCEPT ![p] = @ \cup given]
  /\ UNCHANGED <<content, size, cur, fresh, phase, call, tab, ret>>

EndScan(p) ==
  /\ call[p].op \in ScanOps /\ left[p] = {}
  /\ Goto(p, "open", "idle")
  /\ Leave(p)
  /\ UNCHANGED <<content, size, cur, fresh, left>>

Clear(p) ==
  /\ "Clear" \in Ops /\ fresh < MaxGen
  /\ Goto(p, "idle", "clear")
  /\ call'  = [call EXCEPT ![p] = Bare("Clear")]
  /\ fresh' = fresh + 1
  /\ tab'   = [tab EXCEPT ![p] = fresh + 1]
  /\ UNCHANGED <<content, size, cur, left, seen, ret>>

Swap(p) ==
  /\ \/ Goto(p, "clear", "clearCount") /\ UNCHANGED <<call, tab, seen, ret>>
     \/ Goto(p, "clearTable", "idle") /\ Leave(p)
  /\ cur' = tab[p]
  /\ UNCHANGED <<content, size, fresh, left>>

Zero(p) ==
  /\ \/ Goto(p, "clear", "clearTable") /\ UNCHANGED <<call, tab, seen, ret>>
     \/ Goto(p, "clearCount", "idle") /\ Leave(p)
  /\ size' = 0
  /\ UNCHANGED <<content, cur, fresh, left>>

Next == \E p \in Proc :
  \/ \E c \in Calls : Invoke(p, c)
  \/ Get(p) \/ Put(p) \/ PutIfAbsent(p) \/ PutIfExists(p) \/ Remove(p)
  \/ Return(p) \/ ReadLen(p)
  \/ \E c \in Scans : ForEach(p, c)
  \/ KeysLen(p) \/ KeysScan(p) \/ EndScan(p)
  \/ \E S \in SUBSET left[p] : LookAt(p, S)
  \/ Clear(p) \/ Swap(p) \/ Zero(p)

Spec == Init /\ [][Next]_vars
=============================================================================
