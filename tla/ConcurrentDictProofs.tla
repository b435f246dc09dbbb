------------------------ MODULE ConcurrentDictProofs ------------------------
(***************************************************************************)
(* Theorems about the sharded dict, and about the history of its scans and *)
(* Clears, for any number of keys, values, goroutines, shards and Clears.  *)
(***************************************************************************)
EXTENDS ConcurrentDictHistory, FiniteSetTheorems, TLAPS

LEMMA AnyData == AnyKey \in Key /\ AnyVal \in Val
  BY DataAssumption DEF AnyKey, AnyVal

LEMMA CallsType ==
  /\ Calls \cup Scans \subseteq Frame
  /\ \A o \in {"Len", "Clear", "Keys", "none"} : Bare(o) \in Frame
  BY AnyData DEF Calls, Scans, Bare, KeyedOps, ScanOps, Frame

LEMMA LeaveType ==
  ASSUME TypeOK, NEW p \in Proc, Leave(p)
  PROVE  /\ call' \in [Proc -> Frame]
         /\ tab' \in [Proc -> Gen] /\ at' \in [Proc -> Shard]
         /\ found' \in [Proc -> Val \cup {Absent}]
         /\ seen' \in [Proc -> SUBSET Key]
         /\ ret' \in [Proc -> Val \cup {Absent} \cup Int]
  BY CallsType, ShardAssumption, BoundAssumption
  DEF TypeOK, Leave, NoCall, Gen, Shard

(* The four bodies under the write lock, in one form.                      *)
AnyBody(p) ==
  PutBody(p) \/ PutIfAbsentBody(p) \/ PutIfExistsBody(p) \/ RemoveBody(p)

LEMMA BodyCases ==
  ASSUME TypeOK, NEW p \in Proc, AnyBody(p)
  PROVE  \E v \in Val \cup {Absent}, r \in {0, 1}, next \in {"count", "unlock"} :
           /\ Body(p, Op(p), v, r, next)
           /\ next = "unlock" =>
                (v = Absent <=> Held(p) = Absent)
           /\ next = "count" =>
                /\ r = 1
                /\ \/ Op(p) = "Remove" /\ v = Absent /\ Held(p) # Absent
                   \/ /\ Op(p) \in {"Put", "PutIfAbsent"}
                      /\ v = call[p].val /\ Held(p) = Absent
  <1>1. /\ call[p].val \in Val /\ Absent \in Val \cup {Absent}
        /\ Held(p) \in Val \cup {Absent} /\ Absent \notin Val
    BY DataAssumption DEF TypeOK, Held, Frame
  <1>2. CASE PutBody(p)
    BY <1>1, <1>2 DEF PutBody, Body
  <1>3. CASE PutIfAbsentBody(p)
    BY <1>1, <1>3 DEF PutIfAbsentBody, Body
  <1>4. CASE PutIfExistsBody(p)
    BY <1>1, <1>4 DEF PutIfExistsBody, Body
  <1>5. CASE RemoveBody(p)
    BY <1>1, <1>5 DEF RemoveBody, Body
  <1> QED
    BY <1>2, <1>3, <1>4, <1>5 DEF AnyBody

(* Every variable keeps its type.                                          *)
LEMMA TypeStep == TypeOK /\ [Next]_vars => TypeOK'
  <1> SUFFICES ASSUME TypeOK, [Next]_vars PROVE TypeOK'
    OBVIOUS
  <1> USE CallsType, ShardAssumption, BoundAssumption
  <1>1. ASSUME NEW p \in Proc, NEW c \in Calls, StartKeyed(p, c) PROVE TypeOK'
    BY <1>1 DEF TypeOK, Place, Frame, StartKeyed, Goto, shared, Shard, Calls
  <1>2. ASSUME NEW p \in Proc, NEW c \in Scans, ForEach(p, c) PROVE TypeOK'
    BY <1>2 DEF TypeOK, Place, ForEach, Goto, shared
  <1>3. ASSUME NEW p \in Proc, KeysLen(p) PROVE TypeOK'
    BY <1>3 DEF TypeOK, Place, KeysLen, Goto, shared
  <1>4. ASSUME NEW p \in Proc, ReadLen(p) PROVE TypeOK'
    BY <1>4 DEF TypeOK, Place, ReadLen, Goto, shared
  <1>5. ASSUME NEW p \in Proc, Clear(p) PROVE TypeOK'
    BY <1>5 DEF TypeOK, Place, Clear, Goto, Gen
  <1>6. ASSUME NEW p \in Proc, Lock(p) PROVE TypeOK'
    BY <1>6 DEF TypeOK, Place, Lock, Goto, frame
  <1>7. ASSUME NEW p \in Proc, RLock(p) PROVE TypeOK'
    BY <1>7 DEF TypeOK, Place, RLock, Goto, frame
  <1>8. ASSUME NEW p \in Proc, Drain(p) PROVE TypeOK'
    BY <1>8 DEF TypeOK, Place, Drain, Goto, frame, shared
  <1>9. ASSUME NEW p \in Proc, Count(p) PROVE TypeOK'
    BY <1>9 DEF TypeOK, Place, Count, Goto, frame
  <1>10. ASSUME NEW p \in Proc, Unlock(p) PROVE TypeOK'
    BY <1>10, LeaveType DEF TypeOK, Place, Unlock, Goto
  <1>11. ASSUME NEW p \in Proc, AnyBody(p) PROVE TypeOK'
    <2>1. PICK v \in Val \cup {Absent}, r \in {0, 1}, next \in {"count", "unlock"} :
            Body(p, Op(p), v, r, next)
      BY <1>11, BodyCases DEF IInv
    <2> QED
      BY <2>1 DEF TypeOK, Place, Body, Goto, Held, Frame
  <1>13. ASSUME NEW p \in Proc, GetBody(p) PROVE TypeOK'
    BY <1>13 DEF TypeOK, Place, GetBody, Goto, Held, Frame, shared
  <1>14. ASSUME NEW p \in Proc, Visit(p) PROVE TypeOK'
    BY <1>14 DEF TypeOK, Place, Visit, Goto, shared, InShard
  <1>15. ASSUME NEW p \in Proc, RUnlock(p) PROVE TypeOK'
    <2>1. /\ readers' \in [Gen -> [Shard -> SUBSET Proc]]
          /\ UNCHANGED <<m, writer, table, count, fresh>>
      BY <1>15 DEF TypeOK, Place, RUnlock
    <2>2. CASE Leave(p) /\ Goto(p, "runlock", "idle")
      BY <2>1, <2>2, LeaveType DEF TypeOK, Place, Goto
    <2>3. CASE /\ at[p] # NShard /\ Goto(p, "runlock", "rlock")
               /\ at' = [at EXCEPT ![p] = @ + 1]
               /\ UNCHANGED <<call, tab, found, seen, ret>>
      <3>1. at[p] + 1 \in Shard
        BY <2>3 DEF TypeOK, Shard
      <3> QED
        BY <2>1, <2>3, <3>1 DEF TypeOK, Place, Goto
    <2> QED
      BY <1>15, <2>2, <2>3 DEF RUnlock
  <1>16. ASSUME NEW p \in Proc, KeysScan(p) PROVE TypeOK'
    BY <1>16 DEF TypeOK, Place, KeysScan, Goto, shared
  <1>17. ASSUME NEW p \in Proc, Return(p) PROVE TypeOK'
    BY <1>17, LeaveType DEF TypeOK, Place, Return, Goto, shared
  <1>18. ASSUME NEW p \in Proc, WriteTable(p) PROVE TypeOK'
    BY <1>18, LeaveType DEF TypeOK, Place, WriteTable, FirstWrite, LastWrite, Goto, frame
  <1>19. ASSUME NEW p \in Proc, WriteCount(p) PROVE TypeOK'
    <2>1. CASE FirstWrite(p, "clearTable")
      BY <1>19, <2>1 DEF TypeOK, Place, WriteCount, FirstWrite, Goto, frame
    <2>2. CASE LastWrite(p, "clearCount")
      BY <1>19, <2>2, LeaveType DEF TypeOK, Place, WriteCount, LastWrite, Goto
    <2> QED
      BY <1>19, <2>1, <2>2 DEF WriteCount
  <1>20. CASE UNCHANGED vars
    BY <1>20 DEF TypeOK, Place, vars
  <1> QED
    BY <1>1, <1>2, <1>3, <1>4, <1>5, <1>6, <1>7, <1>8, <1>9, <1>10, <1>11, <1>13,
       <1>14, <1>15, <1>16, <1>17, <1>18, <1>19, <1>20
    DEF Next, Start, Acquire, Step, AnyBody

-----------------------------------------------------------------------------
LEMMA InvInit == Init => IInv
  <1> SUFFICES ASSUME Init PROVE IInv
    OBVIOUS
  <1>1. TypeOK
    BY CallsType, AnyData, ShardAssumption, BoundAssumption
    DEF Init, TypeOK, Gen, Shard, NoCall, Place
  <1>2. table <= fresh /\ \A p \in Proc : LockInv(p) /\ CallInv(p) /\ TableInv(p) /\ UncountedInv(p)
    BY DEF Init, LockInv, CallInv, TableInv, UncountedInv, NoCall, Bare, Op, KeyedOps, Gen
  <1> QED
    BY <1>1, <1>2 DEF IInv

(* A step of p leaves the places and the frames of the others alone.       *)
Mine(p) == Start(p) \/ Acquire(p) \/ Step(p)
LEMMA Others ==
  ASSUME TypeOK, NEW p \in Proc, Mine(p), NEW q \in Proc \ {p}
  PROVE  /\ pc'[q] = pc[q] /\ call'[q] = call[q] /\ tab'[q] = tab[q]
         /\ at'[q] = at[q] /\ found'[q] = found[q] /\ seen'[q] = seen[q]
         /\ ret'[q] = ret[q]
  <1>b. ASSUME AnyBody(p)
        PROVE  \E v \in Val \cup {Absent}, r \in {0, 1}, next \in {"count", "unlock"} :
                 Body(p, Op(p), v, r, next)
    BY <1>b, BodyCases
  <1> USE DEF TypeOK
  <1>1. CASE \E c \in Calls : StartKeyed(p, c)
    BY <1>1 DEF StartKeyed, Goto, shared, Calls, KeyedOps
  <1>2. CASE \E c \in Scans : ForEach(p, c)
    BY <1>2 DEF ForEach, Goto, shared, Scans, Bare, ScanOps
  <1>3. CASE KeysLen(p)
    BY <1>3 DEF KeysLen, Goto, shared, Bare
  <1>4. CASE ReadLen(p)
    BY <1>4 DEF ReadLen, Goto, shared, Bare
  <1>5. CASE Clear(p)
    BY <1>5 DEF Clear, Goto, Bare
  <1>6. CASE Lock(p)
    BY <1>6 DEF Lock, Goto, frame
  <1>7. CASE RLock(p)
    BY <1>7 DEF RLock, Goto, frame
  <1>8. CASE Drain(p)
    BY <1>8 DEF Drain, Goto, frame, shared
  <1>9. CASE Count(p)
    BY <1>9 DEF Count, Goto, frame
  <1>10. CASE Unlock(p)
    BY <1>10 DEF Unlock, Leave, Goto
  <1>11. CASE AnyBody(p)
    <2>1. PICK v \in Val \cup {Absent}, r \in {0, 1}, next \in {"count", "unlock"} :
            Body(p, Op(p), v, r, next)
      BY <1>11, <1>b
    <2> QED
      BY <2>1 DEF Body, Goto
  <1>12. CASE GetBody(p)
    BY <1>12 DEF GetBody, Goto, shared
  <1>13. CASE Visit(p)
    BY <1>13 DEF Visit, Goto, shared
  <1>14. CASE RUnlock(p)
    BY <1>14 DEF RUnlock, Leave, Goto
  <1>15. CASE KeysScan(p)
    BY <1>15 DEF KeysScan, Goto, shared
  <1>16. CASE Return(p)
    BY <1>16 DEF Return, Leave, Goto, shared
  <1>17. CASE WriteTable(p)
    BY <1>17 DEF WriteTable, FirstWrite, LastWrite, Leave, Goto, frame
  <1>18. CASE WriteCount(p)
    BY <1>18 DEF WriteCount, FirstWrite, LastWrite, Leave, Goto, frame
  <1> QED
    BY <1>1, <1>2, <1>3, <1>4, <1>5, <1>6, <1>7, <1>8, <1>9, <1>10, <1>11, <1>12, <1>13, <1>14, <1>15, <1>16, <1>17, <1>18 DEF Mine, Start, Acquire, Step, AnyBody

LEMMA LockStep ==
  ASSUME IInv, NEW p \in Proc, Mine(p), NEW q \in Proc
  PROVE  LockInv(q)'
  <1>0. /\ q # p => /\ pc'[q] = pc[q] /\ tab'[q] = tab[q] /\ at'[q] = at[q]
        /\ LockInv(p) /\ LockInv(q)
        /\ pc \in [Proc -> Place] /\ tab \in [Proc -> Gen] /\ at \in [Proc -> Shard]
        /\ writer \in [Gen -> [Shard -> SUBSET Proc]]
        /\ readers \in [Gen -> [Shard -> SUBSET Proc]]
    BY Others DEF IInv, TypeOK
  <1>1. CASE \E c \in Calls : StartKeyed(p, c)
    BY <1>1, <1>0 DEF StartKeyed, Goto, shared, Calls, KeyedOps, LockInv
  <1>2. CASE \E c \in Scans : ForEach(p, c)
    BY <1>2, <1>0 DEF ForEach, Goto, shared, Scans, Bare, ScanOps, LockInv
  <1>3. CASE KeysLen(p)
    BY <1>3, <1>0 DEF KeysLen, Goto, shared, Bare, LockInv
  <1>4. CASE ReadLen(p)
    BY <1>4, <1>0 DEF ReadLen, Goto, shared, Bare, LockInv
  <1>5. CASE Clear(p)
    BY <1>5, <1>0 DEF Clear, Goto, Bare, LockInv
  <1>6. CASE Lock(p)
    BY <1>6, <1>0 DEF Lock, Goto, frame, LockInv
  <1>7. CASE RLock(p)
    BY <1>7, <1>0 DEF RLock, Goto, frame, LockInv
  <1>8. CASE Drain(p)
    BY <1>8, <1>0 DEF Drain, Goto, frame, shared, LockInv
  <1>9. CASE Count(p)
    BY <1>9, <1>0 DEF Count, Goto, frame, LockInv
  <1>10. CASE Unlock(p)
    BY <1>10, <1>0 DEF Unlock, Leave, Goto, LockInv
  <1>11. CASE AnyBody(p)
    <2>1. PICK v \in Val \cup {Absent}, r \in {0, 1}, next \in {"count", "unlock"} :
            Body(p, Op(p), v, r, next)
      BY <1>11, BodyCases DEF IInv
    <2> QED
      BY <2>1, <1>0 DEF Body, Goto, LockInv
  <1>12. CASE GetBody(p)
    BY <1>12, <1>0 DEF GetBody, Goto, shared, LockInv
  <1>13. CASE Visit(p)
    BY <1>13, <1>0 DEF Visit, Goto, shared, LockInv
  <1>14. CASE RUnlock(p)
    BY <1>14, <1>0 DEF RUnlock, Leave, Goto, LockInv
  <1>15. CASE KeysScan(p)
    BY <1>15, <1>0 DEF KeysScan, Goto, shared, LockInv
  <1>16. CASE Return(p)
    BY <1>16, <1>0 DEF Return, Leave, Goto, shared, LockInv
  <1>17. CASE WriteTable(p)
    BY <1>17, <1>0 DEF WriteTable, FirstWrite, LastWrite, Leave, Goto, frame, LockInv
  <1>18. CASE WriteCount(p)
    BY <1>18, <1>0 DEF WriteCount, FirstWrite, LastWrite, Leave, Goto, frame, LockInv
  <1> QED
    BY <1>1, <1>2, <1>3, <1>4, <1>5, <1>6, <1>7, <1>8, <1>9, <1>10, <1>11, <1>12, <1>13, <1>14, <1>15, <1>16, <1>17, <1>18 DEF Mine, Start, Acquire, Step, AnyBody

LEMMA CallStep ==
  ASSUME IInv, NEW p \in Proc, Mine(p), NEW q \in Proc
  PROVE  CallInv(q)'
  <1>0. CASE q # p
    BY <1>0, Others DEF IInv, CallInv, Op
  <1> SUFFICES ASSUME q = p PROVE CallInv(p)'
    BY <1>0
  <1>b. ASSUME AnyBody(p)
        PROVE  \E v \in Val \cup {Absent}, r \in {0, 1}, next \in {"count", "unlock"} :
                 Body(p, Op(p), v, r, next)
    BY <1>b, BodyCases DEF IInv
  <1> USE DEF IInv, TypeOK, CallInv, Op, NoCall, Bare, KeyedOps, ScanOps
  <1>1. CASE \E c \in Calls : StartKeyed(p, c)
    BY <1>1 DEF StartKeyed, Goto, shared, Calls, KeyedOps
  <1>2. CASE \E c \in Scans : ForEach(p, c)
    BY <1>2 DEF ForEach, Goto, shared, Scans, Bare, ScanOps
  <1>3. CASE KeysLen(p)
    BY <1>3 DEF KeysLen, Goto, shared, Bare
  <1>4. CASE ReadLen(p)
    BY <1>4 DEF ReadLen, Goto, shared, Bare
  <1>5. CASE Clear(p)
    BY <1>5 DEF Clear, Goto, Bare
  <1>6. CASE Lock(p)
    BY <1>6 DEF Lock, Goto, frame
  <1>7. CASE RLock(p)
    BY <1>7 DEF RLock, Goto, frame
  <1>8. CASE Drain(p)
    BY <1>8 DEF Drain, Goto, frame, shared
  <1>9. CASE Count(p)
    BY <1>9 DEF Count, Goto, frame
  <1>10. CASE Unlock(p)
    BY <1>10 DEF Unlock, Leave, Goto
  <1>11. CASE AnyBody(p)
    <2>1. PICK v \in Val \cup {Absent}, r \in {0, 1}, next \in {"count", "unlock"} :
            Body(p, Op(p), v, r, next)
      BY <1>11, <1>b
    <2> QED
      BY <2>1 DEF Body, Goto
  <1>12. CASE GetBody(p)
    BY <1>12 DEF GetBody, Goto, shared
  <1>13. CASE Visit(p)
    BY <1>13 DEF Visit, Goto, shared
  <1>14. CASE RUnlock(p)
    BY <1>14 DEF RUnlock, Leave, Goto
  <1>15. CASE KeysScan(p)
    BY <1>15 DEF KeysScan, Goto, shared
  <1>16. CASE Return(p)
    BY <1>16 DEF Return, Leave, Goto, shared
  <1>17. CASE WriteTable(p)
    BY <1>17 DEF WriteTable, FirstWrite, LastWrite, Leave, Goto, frame
  <1>18. CASE WriteCount(p)
    BY <1>18 DEF WriteCount, FirstWrite, LastWrite, Leave, Goto, frame
  <1> QED
    BY <1>1, <1>2, <1>3, <1>4, <1>5, <1>6, <1>7, <1>8, <1>9, <1>10, <1>11, <1>12, <1>13, <1>14, <1>15, <1>16, <1>17, <1>18 DEF Mine, Start, Acquire, Step, AnyBody

LEMMA TableStep ==
  ASSUME IInv, NEW p \in Proc, Mine(p), NEW q \in Proc
  PROVE  TableInv(q)' /\ table' <= fresh'
  <1>0. /\ q # p => pc'[q] = pc[q] /\ tab'[q] = tab[q]
        /\ TableInv(p) /\ TableInv(q) /\ table <= fresh
        /\ pc \in [Proc -> Place] /\ tab \in [Proc -> Nat]
        /\ table \in Nat /\ fresh \in Nat
    BY Others, BoundAssumption DEF IInv, TypeOK, Gen
  <1>1. CASE \E c \in Calls : StartKeyed(p, c)
    BY <1>1, <1>0 DEF StartKeyed, Goto, shared, Calls, KeyedOps, TableInv
  <1>2. CASE \E c \in Scans : ForEach(p, c)
    BY <1>2, <1>0 DEF ForEach, Goto, shared, Scans, Bare, ScanOps, TableInv
  <1>3. CASE KeysLen(p)
    BY <1>3, <1>0 DEF KeysLen, Goto, shared, Bare, TableInv
  <1>4. CASE ReadLen(p)
    BY <1>4, <1>0 DEF ReadLen, Goto, shared, Bare, TableInv
  <1>5. CASE Clear(p)
    BY <1>5, <1>0 DEF Clear, Goto, Bare, TableInv
  <1>6. CASE Lock(p)
    BY <1>6, <1>0 DEF Lock, Goto, frame, TableInv
  <1>7. CASE RLock(p)
    BY <1>7, <1>0 DEF RLock, Goto, frame, TableInv
  <1>8. CASE Drain(p)
    BY <1>8, <1>0 DEF Drain, Goto, frame, shared, TableInv
  <1>9. CASE Count(p)
    BY <1>9, <1>0 DEF Count, Goto, frame, TableInv
  <1>10. CASE Unlock(p)
    BY <1>10, <1>0 DEF Unlock, Leave, Goto, TableInv
  <1>11. CASE AnyBody(p)
    <2>1. PICK v \in Val \cup {Absent}, r \in {0, 1}, next \in {"count", "unlock"} :
            Body(p, Op(p), v, r, next)
      BY <1>11, BodyCases DEF IInv
    <2> QED
      BY <2>1, <1>0 DEF Body, Goto, TableInv
  <1>12. CASE GetBody(p)
    BY <1>12, <1>0 DEF GetBody, Goto, shared, TableInv
  <1>13. CASE Visit(p)
    BY <1>13, <1>0 DEF Visit, Goto, shared, TableInv
  <1>14. CASE RUnlock(p)
    BY <1>14, <1>0 DEF RUnlock, Leave, Goto, TableInv
  <1>15. CASE KeysScan(p)
    BY <1>15, <1>0 DEF KeysScan, Goto, shared, TableInv
  <1>16. CASE Return(p)
    BY <1>16, <1>0 DEF Return, Leave, Goto, shared, TableInv
  <1>17. CASE WriteTable(p)
    BY <1>17, <1>0 DEF WriteTable, FirstWrite, LastWrite, Leave, Goto, frame, TableInv
  <1>18. CASE WriteCount(p)
    BY <1>18, <1>0 DEF WriteCount, FirstWrite, LastWrite, Leave, Goto, frame, TableInv
  <1> QED
    BY <1>1, <1>2, <1>3, <1>4, <1>5, <1>6, <1>7, <1>8, <1>9, <1>10, <1>11, <1>12, <1>13, <1>14, <1>15, <1>16, <1>17, <1>18 DEF Mine, Start, Acquire, Step, AnyBody

LEMMA UncountedStep ==
  ASSUME IInv, NEW p \in Proc, Mine(p), NEW q \in Proc
  PROVE  UncountedInv(q)'
  <1>0. /\ q # p => /\ pc'[q] = pc[q] /\ tab'[q] = tab[q] /\ call'[q] = call[q]
                     /\ found'[q] = found[q] /\ ret'[q] = ret[q]
        /\ UncountedInv(q)
        /\ pc \in [Proc -> Place] /\ tab \in [Proc -> Gen] /\ call \in [Proc -> Frame]
        /\ found \in [Proc -> Val \cup {Absent}]
        /\ m \in [Gen -> [Key -> Val \cup {Absent}]]
        /\ ret \in [Proc -> Val \cup {Absent} \cup Int]
    BY Others DEF IInv, TypeOK
  <1>1. CASE \E c \in Calls : StartKeyed(p, c)
    BY <1>1, <1>0 DEF StartKeyed, Goto, shared, Calls, KeyedOps, UncountedInv, Op, Held
  <1>2. CASE \E c \in Scans : ForEach(p, c)
    BY <1>2, <1>0 DEF ForEach, Goto, shared, Scans, Bare, ScanOps, UncountedInv, Op, Held
  <1>3. CASE KeysLen(p)
    BY <1>3, <1>0 DEF KeysLen, Goto, shared, Bare, UncountedInv, Op, Held
  <1>4. CASE ReadLen(p)
    BY <1>4, <1>0 DEF ReadLen, Goto, shared, Bare, UncountedInv, Op, Held
  <1>5. CASE Clear(p)
    BY <1>5, <1>0 DEF Clear, Goto, Bare, UncountedInv, Op, Held
  <1>6. CASE Lock(p)
    BY <1>6, <1>0 DEF Lock, Goto, frame, UncountedInv, Op, Held
  <1>7. CASE RLock(p)
    BY <1>7, <1>0 DEF RLock, Goto, frame, UncountedInv, Op, Held
  <1>8. CASE Drain(p)
    BY <1>8, <1>0 DEF Drain, Goto, frame, shared, UncountedInv, Op, Held
  <1>9. CASE Count(p)
    BY <1>9, <1>0 DEF Count, Goto, frame, UncountedInv, Op, Held
  <1>10. CASE Unlock(p)
    BY <1>10, <1>0 DEF Unlock, Leave, Goto, UncountedInv, Op, Held
  <1>11. CASE AnyBody(p)
    <2>1. PICK v \in Val \cup {Absent}, r \in {0, 1}, next \in {"count", "unlock"} :
            /\ Body(p, Op(p), v, r, next)
            /\ next = "count" =>
                 /\ r = 1
                 /\ \/ Op(p) = "Remove" /\ v = Absent /\ Held(p) # Absent
                    \/ /\ Op(p) \in {"Put", "PutIfAbsent"}
                       /\ v = call[p].val /\ Held(p) = Absent
      BY <1>11, BodyCases DEF IInv
    <2>2. CASE q = p
      <3> SUFFICES ASSUME next = "count" PROVE UncountedInv(p)'
        BY <2>1, <2>2, <1>0 DEF Body, Goto, UncountedInv
      <3>1. /\ ret'[p] = 1 /\ found'[p] = Held(p) /\ Op(p)' = Op(p)
            /\ call'[p] = call[p]
        BY <2>1, <1>0 DEF Body, Op
      <3>2. Held(p)' = v
        BY <2>1, <1>0 DEF Body, Held, Frame
      <3> QED
        BY <2>1, <3>1, <3>2 DEF UncountedInv
    <2>3. CASE q # p
      <3>1. pc[q] = "count" => tab[q] # tab[p] \/ call[q].key # call[p].key
        <4>1. /\ LockInv(p) /\ LockInv(q) /\ CallInv(p) /\ CallInv(q) /\ pc[p] = "body"
          BY <2>1 DEF Body, Goto, IInv
        <4> QED
          BY <2>3, <4>1 DEF LockInv, CallInv
      <3> QED
        BY <2>1, <2>3, <3>1, <1>0 DEF Body, UncountedInv, Op, Held, Frame
    <2> QED
      BY <2>2, <2>3
  <1>12. CASE GetBody(p)
    BY <1>12, <1>0 DEF GetBody, Goto, shared, UncountedInv, Op, Held
  <1>13. CASE Visit(p)
    BY <1>13, <1>0 DEF Visit, Goto, shared, UncountedInv, Op, Held
  <1>14. CASE RUnlock(p)
    BY <1>14, <1>0 DEF RUnlock, Leave, Goto, UncountedInv, Op, Held
  <1>15. CASE KeysScan(p)
    BY <1>15, <1>0 DEF KeysScan, Goto, shared, UncountedInv, Op, Held
  <1>16. CASE Return(p)
    BY <1>16, <1>0 DEF Return, Leave, Goto, shared, UncountedInv, Op, Held
  <1>17. CASE WriteTable(p)
    BY <1>17, <1>0 DEF WriteTable, FirstWrite, LastWrite, Leave, Goto, frame, UncountedInv, Op, Held
  <1>18. CASE WriteCount(p)
    BY <1>18, <1>0 DEF WriteCount, FirstWrite, LastWrite, Leave, Goto, frame, UncountedInv, Op, Held
  <1> QED
    BY <1>1, <1>2, <1>3, <1>4, <1>5, <1>6, <1>7, <1>8, <1>9, <1>10, <1>11, <1>12, <1>13, <1>14, <1>15, <1>16, <1>17, <1>18 DEF Mine, Start, Acquire, Step, AnyBody

LEMMA InvStep == IInv /\ [Next]_vars => IInv'
  <1> SUFFICES ASSUME IInv, [Next]_vars PROVE IInv'
    OBVIOUS
  <1>1. CASE UNCHANGED vars
    BY <1>1 DEF IInv, TypeOK, LockInv, CallInv, TableInv, UncountedInv, Op, Held, vars
  <1>2. ASSUME NEW p \in Proc, Mine(p) PROVE IInv'
    <2>1. TypeOK'
      BY TypeStep DEF IInv
    <2>2. ASSUME NEW q \in Proc
          PROVE  LockInv(q)' /\ CallInv(q)' /\ TableInv(q)' /\ UncountedInv(q)'
      BY <1>2, LockStep, CallStep, TableStep, UncountedStep
    <2>3. table' <= fresh'
      BY <1>2, TableStep
    <2> QED
      BY <2>1, <2>2, <2>3 DEF IInv
  <1> QED
    BY <1>1, <1>2 DEF Next, Mine

(* The invariant: types, locks, frames and pending counts.                 *)
THEOREM Invariance == Spec => []IInv
  BY InvInit, InvStep, PTL DEF Spec

(* Every variable keeps its type, with any number of goroutines and keys.  *)
THEOREM Typing == Spec => []TypeOK
  <1>1. IInv => TypeOK
    BY DEF IInv
  <1> QED
    BY <1>1, Invariance, PTL

(* No shard map is ever written while another goroutine reads or writes    *)
(* it, so the Go runtime never aborts with a concurrent map access.        *)
THEOREM NoConcurrentMapAccess == Spec => []NoMapRace
  <1>1. IInv => NoMapRace
    BY DEF IInv, NoMapRace, SameShard, LockInv
  <1> QED
    BY <1>1, Invariance, PTL

-----------------------------------------------------------------------------
(* The contents with half-done operations undone.                          *)
LEMMA UncountedUnique ==
  IInv => \A p \in Proc : pc[p] = "count" => Uncounted(tab[p], call[p].key) = {p}
  <1> SUFFICES ASSUME IInv, NEW p \in Proc, pc[p] = "count",
                      NEW q \in Proc, pc[q] = "count", tab[q] = tab[p],
                      call[q].key = call[p].key
               PROVE  q = p
    BY DEF Uncounted
  <1>1. LockInv(p) /\ LockInv(q) /\ CallInv(p) /\ CallInv(q)
    BY DEF IInv
  <1>2. at[p] = at[q]
    BY <1>1 DEF CallInv
  <1> QED
    BY <1>1, <1>2 DEF LockInv

EffectiveFacts ==
  /\ Effective \in [Gen -> [Key -> Val \cup {Absent}]]
  /\ \A g \in Gen, k \in Key : Uncounted(g, k) = {} => Effective[g][k] = m[g][k]
  /\ \A p \in Proc : pc[p] = "count" => Effective[tab[p]][call[p].key] = found[p]

LEMMA EffectiveLemma == IInv => EffectiveFacts
  <1> SUFFICES ASSUME IInv PROVE EffectiveFacts
    OBVIOUS
  <1>0. /\ m \in [Gen -> [Key -> Val \cup {Absent}]]
        /\ found \in [Proc -> Val \cup {Absent}]
        /\ tab \in [Proc -> Gen] /\ call \in [Proc -> Frame]
    BY DEF IInv, TypeOK
  <1>1. Effective \in [Gen -> [Key -> Val \cup {Absent}]]
    <2> SUFFICES ASSUME NEW g \in Gen, NEW k \in Key, Uncounted(g, k) # {}
                 PROVE  found[CHOOSE p \in Uncounted(g, k) : TRUE] \in Val \cup {Absent}
      BY <1>0 DEF Effective
    <2>1. (CHOOSE p \in Uncounted(g, k) : TRUE) \in Proc
      BY DEF Uncounted
    <2> QED
      BY <2>1, <1>0
  <1>2. ASSUME NEW g \in Gen, NEW k \in Key, Uncounted(g, k) = {}
        PROVE  Effective[g][k] = m[g][k]
    BY <1>2 DEF Effective
  <1>3. ASSUME NEW p \in Proc, pc[p] = "count"
        PROVE  Effective[tab[p]][call[p].key] = found[p]
    <2>1. Uncounted(tab[p], call[p].key) = {p}
      BY <1>3, UncountedUnique
    <2>2. tab[p] \in Gen /\ call[p].key \in Key
      BY <1>0 DEF Frame
    <2> QED
      BY <2>1, <2>2 DEF Effective
  <1> QED
    BY <1>1, <1>2, <1>3 DEF EffectiveFacts

LEMMA EffectiveLemmaNext == IInv' => EffectiveFacts'
  BY EffectiveLemma, PTL

(* A step that leaves the maps and the uncounted operations alone.         *)
LEMMA EffectiveSame ==
  ASSUME IInv, IInv', m' = m,
         \A q \in Proc : /\ pc'[q] = "count" <=> pc[q] = "count"
                         /\ pc[q] = "count" => /\ tab'[q] = tab[q]
                                               /\ call'[q] = call[q]
                                               /\ found'[q] = found[q]
  PROVE  Effective' = Effective
  <1>0. EffectiveFacts /\ EffectiveFacts'
    BY EffectiveLemma, EffectiveLemmaNext
  <1>1. ASSUME NEW g \in Gen, NEW k \in Key
        PROVE  Effective'[g][k] = Effective[g][k]
    <2>1. Uncounted(g, k)' = Uncounted(g, k)
      BY DEF Uncounted
    <2>2. CASE Uncounted(g, k) = {}
      BY <1>0, <2>1, <2>2 DEF EffectiveFacts
    <2>3. ASSUME NEW p \in Uncounted(g, k) PROVE Effective'[g][k] = Effective[g][k]
      <3>1. p \in Proc /\ pc[p] = "count" /\ tab[p] = g /\ call[p].key = k
        BY DEF Uncounted
      <3>2. pc'[p] = "count" /\ tab'[p] = g /\ call'[p].key = k /\ found'[p] = found[p]
        BY <3>1
      <3> QED
        BY <1>0, <3>1, <3>2 DEF EffectiveFacts
    <2> QED
      BY <2>2, <2>3
  <1> QED
    BY <1>0, <1>1 DEF EffectiveFacts

(* A table of tables that differs from another at one place.               *)
LEMMA OnePlace ==
  ASSUME NEW G, NEW K, NEW V, NEW E \in [G -> [K -> V]], NEW E2 \in [G -> [K -> V]],
         NEW g \in G, NEW k \in K, NEW v, E2[g][k] = v,
         \A h \in G, j \in K : h # g \/ j # k => E2[h][j] = E[h][j]
  PROVE  E2 = [E EXCEPT ![g][k] = v]
  <1> DEFINE F == [E EXCEPT ![g][k] = v]
  <1>1. ASSUME NEW h \in G PROVE E2[h] = F[h]
    <2>1. CASE h = g
      <3>1. F[h] = [E[g] EXCEPT ![k] = v] /\ E2[h] \in [K -> V] /\ E[g] \in [K -> V]
        BY <2>1
      <3>2. \A j \in K : E2[h][j] = [E[g] EXCEPT ![k] = v][j]
        BY <2>1
      <3> QED
        BY <3>1, <3>2
    <2>2. CASE h # g
      <3>1. F[h] = E[h] /\ E2[h] \in [K -> V] /\ E[h] \in [K -> V]
        BY <2>2
      <3>2. \A j \in K : E2[h][j] = E[h][j]
        BY <2>2
      <3> QED
        BY <3>1, <3>2
    <2> QED
      BY <2>1, <2>2
  <1>2. F = [h \in G |-> F[h]] /\ E2 = [h \in G |-> E2[h]]
    OBVIOUS
  <1> HIDE DEF F
  <1>3. E2 = F
    BY <1>1, <1>2
  <1> QED
    BY <1>3 DEF F

(* A step that changes the contents at one key of one table only.          *)
LEMMA EffectiveAtOneKey ==
  ASSUME IInv, IInv', NEW p \in Proc, NEW v \in Val \cup {Absent},
         \A g \in Gen, k \in Key : g # tab[p] \/ k # call[p].key =>
             m'[g][k] = m[g][k],
         \A q \in Proc \ {p} : /\ pc'[q] = pc[q] /\ tab'[q] = tab[q]
                               /\ call'[q] = call[q] /\ found'[q] = found[q],
         tab'[p] = tab[p], call'[p] = call[p],
         Effective'[tab[p]][call[p].key] = v
  PROVE  Effective' = [Effective EXCEPT ![tab[p]][call[p].key] = v]
  <1>0. EffectiveFacts /\ EffectiveFacts'
    BY EffectiveLemma, EffectiveLemmaNext
  <1>1. tab[p] \in Gen /\ call[p].key \in Key
    BY DEF IInv, TypeOK, Frame
  <1>2. ASSUME NEW g \in Gen, NEW k \in Key, g # tab[p] \/ k # call[p].key
        PROVE  Effective'[g][k] = Effective[g][k]
    <2>1. Uncounted(g, k)' = Uncounted(g, k)
      BY <1>2 DEF Uncounted
    <2>2. CASE Uncounted(g, k) = {}
      BY <1>0, <1>2, <2>1, <2>2 DEF EffectiveFacts
    <2>3. ASSUME NEW q \in Uncounted(g, k) PROVE Effective'[g][k] = Effective[g][k]
      <3>1. q \in Proc \ {p} /\ pc[q] = "count" /\ tab[q] = g /\ call[q].key = k
        BY <1>2 DEF Uncounted
      <3>2. pc'[q] = "count" /\ tab'[q] = g /\ call'[q].key = k /\ found'[q] = found[q]
        BY <3>1
      <3> QED
        BY <1>0, <3>1, <3>2 DEF EffectiveFacts
    <2> QED
      BY <2>2, <2>3
  <1>3. /\ Effective \in [Gen -> [Key -> Val \cup {Absent}]]
        /\ Effective' \in [Gen -> [Key -> Val \cup {Absent}]]
    BY <1>0 DEF EffectiveFacts
  <1> HIDE DEF Effective
  <1> QED
    BY <1>1, <1>2, <1>3, OnePlace

LEMMA HeldEffective ==
  ASSUME IInv, NEW p \in Proc, pc[p] = "body" \/ (pc[p] = "read" /\ Op(p) = "Get")
  PROVE  Effective[tab[p]][call[p].key] = Held(p)
  <1>1. \A q \in Proc : pc[q] = "count" /\ tab[q] = tab[p] => at[q] # at[p]
    BY DEF IInv, LockInv
  <1>2. Uncounted(tab[p], call[p].key) = {}
    BY <1>1 DEF IInv, CallInv, Uncounted, ScanOps
  <1>3. tab[p] \in Gen /\ call[p].key \in Key
    BY DEF IInv, TypeOK, Frame
  <1> QED
    BY <1>2, <1>3, EffectiveLemma DEF EffectiveFacts, Held

(* What the three kinds of step do to the contents: a body that goes on to *)
(* count changes nothing yet,                                              *)
LEMMA BodyToCount ==
  ASSUME IInv, IInv', NEW p \in Proc, NEW v \in Val \cup {Absent}, NEW r,
         Mine(p), Body(p, Op(p), v, r, "count")
  PROVE  Effective' = Effective
  <1>0. EffectiveFacts /\ EffectiveFacts'
    BY EffectiveLemma, EffectiveLemmaNext
  <1>1. tab[p] \in Gen /\ call[p].key \in Key
    BY DEF IInv, TypeOK, Frame
  <1>2. /\ pc'[p] = "count" /\ tab'[p] = tab[p] /\ call'[p] = call[p]
        /\ found'[p] = Held(p) /\ pc[p] = "body"
    BY DEF Body, Goto, IInv, TypeOK
  <1>3. Effective'[tab[p]][call[p].key] = Held(p)
    BY <1>0, <1>2 DEF EffectiveFacts
  <1>4. Held(p) \in Val \cup {Absent}
    BY <1>1 DEF IInv, TypeOK, Held
  <1>5. \A g \in Gen, k \in Key : g # tab[p] \/ k # call[p].key => m'[g][k] = m[g][k]
    BY <1>1 DEF Body, IInv, TypeOK
  <1>6. \A q \in Proc \ {p} : /\ pc'[q] = pc[q] /\ tab'[q] = tab[q]
                              /\ call'[q] = call[q] /\ found'[q] = found[q]
    BY Others DEF IInv
  <1>7. Effective' = [Effective EXCEPT ![tab[p]][call[p].key] = Held(p)]
    BY <1>2, <1>3, <1>4, <1>5, <1>6, EffectiveAtOneKey
  <1> QED
    BY <1>0, <1>1, <1>2, <1>7, HeldEffective DEF EffectiveFacts

(* one that has nothing to count leaves its value at once,                 *)
LEMMA BodyToUnlock ==
  ASSUME IInv, IInv', NEW p \in Proc, NEW v \in Val \cup {Absent}, NEW r,
         Mine(p), Body(p, Op(p), v, r, "unlock")
  PROVE  Effective' = [Effective EXCEPT ![tab[p]][call[p].key] = v]
  <1>0. EffectiveFacts /\ EffectiveFacts'
    BY EffectiveLemma, EffectiveLemmaNext
  <1>1. tab[p] \in Gen /\ call[p].key \in Key
    BY DEF IInv, TypeOK, Frame
  <1>2. /\ pc'[p] = "unlock" /\ tab'[p] = tab[p] /\ call'[p] = call[p] /\ at'[p] = at[p]
        /\ m'[tab[p]][call[p].key] = v
    BY <1>1 DEF Body, Goto, IInv, TypeOK
  <1>3. \A q \in Proc : pc'[q] = "count" /\ tab'[q] = tab[p] => at'[q] # at[p]
    BY <1>2 DEF IInv, LockInv
  <1>4. \A q \in Proc : ~(pc'[q] = "count" /\ tab'[q] = tab[p] /\ call'[q].key = call[p].key)
    BY <1>2, <1>3 DEF IInv, CallInv
  <1>5. Effective'[tab[p]][call[p].key] = v
    BY <1>0, <1>1, <1>2, <1>4 DEF EffectiveFacts, Uncounted
  <1>6. \A g \in Gen, k \in Key : g # tab[p] \/ k # call[p].key => m'[g][k] = m[g][k]
    BY <1>1 DEF Body, IInv, TypeOK
  <1>7. \A q \in Proc \ {p} : /\ pc'[q] = pc[q] /\ tab'[q] = tab[q]
                              /\ call'[q] = call[q] /\ found'[q] = found[q]
    BY Others DEF IInv
  <1> QED
    BY <1>2, <1>5, <1>6, <1>7, EffectiveAtOneKey

(* and counting makes the change that was made under the lock take effect. *)
LEMMA CountEffect ==
  ASSUME IInv, IInv', NEW p \in Proc, Mine(p), Count(p)
  PROVE  Effective' = [Effective EXCEPT ![tab[p]][call[p].key] = Held(p)]
  <1>0. EffectiveFacts /\ EffectiveFacts'
    BY EffectiveLemma, EffectiveLemmaNext
  <1>1. tab[p] \in Gen /\ call[p].key \in Key /\ Held(p) \in Val \cup {Absent}
    BY DEF IInv, TypeOK, Frame, Held
  <1>2. /\ pc'[p] = "unlock" /\ tab' = tab /\ call' = call /\ at' = at /\ m' = m
    BY <1>1 DEF Count, Goto, IInv, TypeOK, frame
  <1>3. \A q \in Proc : pc'[q] = "count" /\ tab'[q] = tab[p] => at'[q] # at[p]
    BY <1>2 DEF IInv, LockInv
  <1>4. \A q \in Proc : ~(pc'[q] = "count" /\ tab'[q] = tab[p] /\ call'[q].key = call[p].key)
    BY <1>2, <1>3 DEF IInv, CallInv
  <1>5. Effective'[tab[p]][call[p].key] = Held(p)
    BY ONLY <1>0, <1>1, <1>2, <1>4 DEF EffectiveFacts, Uncounted, Held
  <1>7. \A q \in Proc \ {p} : /\ pc'[q] = pc[q] /\ tab'[q] = tab[q]
                              /\ call'[q] = call[q] /\ found'[q] = found[q]
    BY Others DEF IInv
  <1> QED
    BY <1>1, <1>2, <1>5, <1>7, EffectiveAtOneKey

(* No other step changes the contents.                                     *)
LEMMA QuietEffect ==
  ASSUME IInv, IInv', NEW p \in Proc, Mine(p), ~AnyBody(p), ~Count(p)
  PROVE  Effective' = Effective
  <1>1. m' = m
    BY DEF Mine, Start, Acquire, Step, AnyBody, StartKeyed, ForEach, KeysLen, ReadLen,
           Clear, Lock, RLock, Drain, Unlock, GetBody, Visit, RUnlock, KeysScan, Return,
           WriteTable, WriteCount, shared
  <1>2. pc[p] # "count" /\ pc'[p] # "count"
    BY DEF Mine, Start, Acquire, Step, AnyBody, StartKeyed, ForEach, KeysLen, ReadLen,
           Clear, Lock, RLock, Drain, Unlock, GetBody, Visit, RUnlock, KeysScan, Return,
           WriteTable, WriteCount, FirstWrite, LastWrite, Goto, IInv, TypeOK
  <1>3. \A q \in Proc \ {p} : /\ pc'[q] = pc[q] /\ tab'[q] = tab[q]
                              /\ call'[q] = call[q] /\ found'[q] = found[q]
    BY Others DEF IInv
  <1> QED
    BY <1>1, <1>2, <1>3, EffectiveSame

-----------------------------------------------------------------------------
(* The keys of table g after a step.                                       *)
PresentNext(g) == {k \in Key : Effective'[g][k] # Absent}

(* Only counting changes which keys a table has, by the key it counts.     *)
LEMMA PresentStep ==
  ASSUME IInv, IInv', NEW p \in Proc, Mine(p), NEW g \in Gen
  PROVE  /\ ~(Count(p) /\ tab[p] = g) => PresentNext(g) = Present(g)
         /\ Count(p) /\ tab[p] = g =>
              \/ /\ PresentNext(g) = Present(g) \ {call[p].key}
                 /\ call[p].key \in Present(g) /\ count' = count - 1
              \/ /\ PresentNext(g) = Present(g) \cup {call[p].key}
                 /\ call[p].key \notin Present(g) /\ count' = count + 1
  <1>0. /\ EffectiveFacts /\ tab[p] \in Gen /\ call[p].key \in Key
    BY EffectiveLemma DEF IInv, TypeOK, Frame
  <1>1. CASE AnyBody(p)
    <2>1. PICK v \in Val \cup {Absent}, r \in {0, 1}, next \in {"count", "unlock"} :
            /\ Body(p, Op(p), v, r, next)
            /\ next = "unlock" => (v = Absent <=> Held(p) = Absent)
      BY <1>1, BodyCases DEF IInv
    <2>2. pc[p] = "body"
      BY <2>1 DEF Body, Goto
    <2>3. CASE next = "count"
      BY <2>1, <2>2, <2>3, BodyToCount DEF Present, PresentNext, Count, Goto
    <2>4. CASE next = "unlock"
      <3>1. Effective' = [Effective EXCEPT ![tab[p]][call[p].key] = v]
        BY <2>1, <2>4, BodyToUnlock
      <3>2. v = Absent <=> Effective[tab[p]][call[p].key] = Absent
        BY <2>1, <2>2, <2>4, HeldEffective
      <3> QED
        BY <1>0, <2>2, <3>1, <3>2 DEF Present, PresentNext, EffectiveFacts, Count, Goto
    <2> QED
      BY <2>3, <2>4
  <1>2. CASE Count(p)
    <2>1. Effective' = [Effective EXCEPT ![tab[p]][call[p].key] = Held(p)]
      BY <1>2, CountEffect
    <2>2. /\ UncountedInv(p) /\ pc[p] = "count"
          /\ count' = IF Op(p) = "Remove" THEN count - 1 ELSE count + 1
      BY <1>2 DEF IInv, Count, Goto
    <2>3. call[p].val \in Val /\ Absent \notin Val
      BY DataAssumption DEF IInv, TypeOK, Frame
    <2>4. Effective[tab[p]][call[p].key] = found[p]
      BY <1>0, <2>2 DEF EffectiveFacts
    <2>5. PresentNext(tab[p]) = {h \in Key :
             IF h = call[p].key THEN Held(p) # Absent ELSE Effective[tab[p]][h] # Absent}
      BY <1>0, <2>1 DEF PresentNext, EffectiveFacts
    <2>6. \A h : g # tab[p] => Effective'[g][h] = Effective[g][h]
      BY <1>0, <2>1 DEF EffectiveFacts
    <2>7. CASE g # tab[p]
      BY <2>6, <2>7 DEF PresentNext, Present
    <2>8. CASE g = tab[p] /\ Op(p) = "Remove"
      <3>1. Held(p) = Absent /\ found[p] # Absent
        BY <2>2, <2>8 DEF UncountedInv
      <3>2. PresentNext(g) = Present(g) \ {call[p].key} /\ call[p].key \in Present(g)
        BY <1>0, <2>4, <2>5, <2>8, <3>1 DEF Present
      <3> QED
        BY <1>2, <2>2, <2>8, <3>2
    <2>9. CASE g = tab[p] /\ Op(p) # "Remove"
      <3>1. Held(p) # Absent /\ found[p] = Absent
        BY <2>2, <2>3, <2>9 DEF UncountedInv
      <3>2. PresentNext(g) = Present(g) \cup {call[p].key} /\ call[p].key \notin Present(g)
        BY <1>0, <2>4, <2>5, <2>9, <3>1 DEF Present
      <3> QED
        BY <1>2, <2>2, <2>9, <3>2
    <2> QED
      BY <2>7, <2>8, <2>9
  <1>3. CASE ~AnyBody(p) /\ ~Count(p)
    BY <1>3, QuietEffect DEF Present, PresentNext
  <1> QED
    BY <1>1, <1>2, <1>3

LEMMA PresentFinite == \A g : IsFiniteSet(Present(g))
  BY DataAssumption, FS_Subset DEF Present

(* So the count moves with the number of keys of the table counted for.    *)
LEMMA CountMoves ==
  ASSUME IInv, IInv', NEW p \in Proc, Mine(p), NEW g \in Gen, Count(p), tab[p] = g
  PROVE  /\ count = Cardinality(Present(g)) => count' = Cardinality(PresentNext(g))
         /\ count' >= count => Present(g) \subseteq PresentNext(g)
         /\ Cardinality(PresentNext(g)) >= 0
  <1>1. IsFiniteSet(Present(g)) /\ IsFiniteSet(PresentNext(g)) /\ count \in Int
    BY DataAssumption, FS_Subset, PresentFinite DEF PresentNext, IInv, TypeOK
  <1>2. CASE /\ PresentNext(g) = Present(g) \ {call[p].key}
             /\ call[p].key \in Present(g) /\ count' = count - 1
    BY <1>1, <1>2, FS_RemoveElement, FS_CardinalityType
  <1>3. CASE /\ PresentNext(g) = Present(g) \cup {call[p].key}
             /\ call[p].key \notin Present(g) /\ count' = count + 1
    BY ONLY SMTT(30), <1>1, <1>3, FS_AddElement, FS_CardinalityType
  <1> QED
    BY <1>2, <1>3, PresentStep

(* Which steps write the fields of the struct, and which start a Clear.    *)
LEMMA FieldWrites ==
  ASSUME NEW p \in Proc, Mine(p)
  PROVE  /\ Count(p) \/ WriteCount(p) \/ count' = count
         /\ WriteTable(p) \/ table' = table
         /\ Clear(p) \/ fresh' = fresh
  BY DEF Mine, Start, Acquire, Step, AnyBody, StartKeyed, ForEach, KeysLen, ReadLen,
         Clear, Lock, RLock, Drain, Unlock, Count, GetBody, Visit, RUnlock, KeysScan,
         Return, WriteTable, WriteCount, shared, PutBody, PutIfAbsentBody,
         PutIfExistsBody, RemoveBody, Body

-----------------------------------------------------------------------------
LEMMA CountExactInit == Init => CountExact
  <1> SUFFICES ASSUME Init PROVE Cardinality(Present(0)) = 0
    BY DEF CountExact, Init
  <1>1. EffectiveFacts
    BY InvInit, EffectiveLemma
  <1>2. 0 \in Gen
    BY BoundAssumption DEF Gen
  <1>3. \A k \in Key : Uncounted(0, k) = {} /\ m[0][k] = Absent
    BY <1>2 DEF Init, Uncounted
  <1>4. Present(0) = {}
    BY <1>1, <1>2, <1>3 DEF Present, EffectiveFacts
  <1> QED
    BY <1>4, FS_EmptySet

LEMMA CountExactStep == IInv /\ IInv' /\ CountExact /\ [Next]_vars => CountExact'
  <1> SUFFICES ASSUME IInv, IInv', CountExact, [Next]_vars, fresh' = 0
               PROVE  count' = Cardinality(PresentNext(0))
    BY DEF CountExact, Present, PresentNext
  <1>0. 0 \in Gen /\ count \in Int /\ fresh \in Nat
    BY BoundAssumption DEF IInv, TypeOK, Gen
  <1>1. CASE UNCHANGED vars
    BY <1>1 DEF CountExact, Present, PresentNext, Effective, Uncounted, vars
  <1>2. ASSUME NEW p \in Proc, Mine(p) PROVE count' = Cardinality(PresentNext(0))
    <2>1. fresh = 0
      BY <1>0, <1>2, FieldWrites DEF Clear
    <2>2. tab[p] = 0 /\ count = Cardinality(Present(0))
      BY <2>1 DEF IInv, TypeOK, TableInv, Gen, CountExact
    <2>3. CASE Count(p)
      BY <1>0, <1>2, <2>2, <2>3, CountMoves
    <2>4. CASE ~Count(p)
      <3>1. ~WriteCount(p)
        BY <2>1 DEF WriteCount, FirstWrite, LastWrite, Goto, IInv, TableInv
      <3> QED
        BY <1>0, <1>2, <2>2, <2>4, <3>1, PresentStep, FieldWrites
    <2> QED
      BY <2>3, <2>4
  <1> QED
    BY <1>1, <1>2 DEF Next, Mine

(* Until the first Clear, dict.count is exactly the number of keys, at     *)
(* every moment and with any number of operations half done.               *)
THEOREM CountIsExact == Spec => []CountExact
  <1>1. Init /\ [][Next]_vars /\ []IInv => []CountExact
    BY CountExactInit, CountExactStep, PTL
  <1> QED
    BY <1>1, Invariance, PTL DEF Spec

-----------------------------------------------------------------------------
(* The refinement: every step of the sharded dict is a step of DictSpec, or *)
(* changes nothing there.                                                  *)
LEMMA AbsInit == Init => Abs!Init
  <1> SUFFICES ASSUME Init PROVE Abs!Init
    OBVIOUS
  <1>1. Effective = [g \in Gen |-> [k \in Key |-> Absent]]
    BY DEF Init, Effective, Uncounted
  <1> QED
    BY <1>1 DEF Init, Abs!Init, AbsPhase, AbsLeft, AbsRet, Abs!Gen, Gen, NoCall, Abs!NoCall,
         Bare, Abs!Bare, AnyKey, Abs!AnyKey, AnyVal, Abs!AnyVal, Op, ScanOps

AbsPhases == [q \in Proc |-> AbsPhase(q)]
AbsLefts  == [q \in Proc |-> AbsLeft(q)]
AbsRets   == [q \in Proc |-> AbsRet(q)]

LEMMA AbsOthers ==
  ASSUME IInv, NEW p \in Proc, Mine(p)
  PROVE  /\ AbsPhases' = [AbsPhases EXCEPT ![p] = AbsPhase(p)']
         /\ AbsLefts' = [AbsLefts EXCEPT ![p] = AbsLeft(p)']
         /\ AbsRets' = [AbsRets EXCEPT ![p] = AbsRet(p)']
  <1>1. ASSUME NEW q \in Proc \ {p}
        PROVE  AbsPhase(q)' = AbsPhase(q) /\ AbsLeft(q)' = AbsLeft(q) /\ AbsRet(q)' = AbsRet(q)
    BY Others DEF IInv, AbsPhase, AbsLeft, AbsRet, Op
  <1> QED
    BY <1>1 DEF AbsPhases, AbsLefts, AbsRets

(* A scan that holds a shard's read lock sees its contents as they are.    *)
LEMMA ReadEffective ==
  ASSUME IInv, NEW p \in Proc, pc[p] = "read", NEW k \in InShard(at[p])
  PROVE  Effective[tab[p]][k] = m[tab[p]][k]
  <1>1. Uncounted(tab[p], k) = {}
    <2>1. \A q \in Proc : pc[q] = "count" /\ tab[q] = tab[p] => at[q] # at[p]
      BY DEF IInv, LockInv
    <2> QED
      BY <2>1 DEF IInv, CallInv, Uncounted, InShard
  <1>2. tab[p] \in Gen /\ k \in Key
    BY DEF IInv, TypeOK, InShard
  <1> QED
    BY <1>1, <1>2, EffectiveLemma DEF EffectiveFacts

LEMMA SameCalls ==
  /\ Abs!Calls = Calls /\ Abs!Scans = Scans /\ Abs!NoCall = NoCall
  /\ Abs!ScanOps = ScanOps /\ \A o : Abs!Bare(o) = Bare(o)
  BY DEF Abs!Calls, Calls, Abs!Scans, Scans, Abs!NoCall, NoCall, Abs!ScanOps, ScanOps,
         Abs!Bare, Bare, AnyKey, Abs!AnyKey, AnyVal, Abs!AnyVal

LEMMA AbsQuiet ==
  ASSUME IInv, IInv', NEW p \in Proc, Mine(p), ~AnyBody(p), ~Count(p),
         NShard = 1 \/ Op(p) # "ForEachUntil"
  PROVE  [Abs!Next]_(Abs!vars)
  <1>0. /\ AbsPhases' = [AbsPhases EXCEPT ![p] = AbsPhase(p)']
        /\ AbsLefts' = [AbsLefts EXCEPT ![p] = AbsLeft(p)']
        /\ AbsRets' = [AbsRets EXCEPT ![p] = AbsRet(p)']
        /\ Effective' = Effective
    BY AbsOthers, QuietEffect
  <1>a. /\ pc \in [Proc -> Place] /\ tab \in [Proc -> Gen] /\ call \in [Proc -> Frame]
        /\ ret \in [Proc -> Val \cup {Absent} \cup Int] /\ at \in [Proc -> Shard]
        /\ seen \in [Proc -> SUBSET Key]
        /\ CallInv(p)
    BY DEF IInv, TypeOK
  <1>b. /\ AbsPhases[p] = AbsPhase(p) /\ AbsLefts[p] = AbsLeft(p) /\ AbsRets[p] = AbsRet(p)
        /\ AbsPhases = [AbsPhases EXCEPT ![p] = AbsPhase(p)]
        /\ AbsLefts = [AbsLefts EXCEPT ![p] = AbsLeft(p)]
        /\ AbsRets = [AbsRets EXCEPT ![p] = AbsRet(p)]
    BY DEF AbsPhases, AbsLefts, AbsRets
  <1>c. \A k \in Key : ShardOf[k] \in 1..NShard
    BY ShardAssumption
  <1>1. ASSUME NEW c \in Calls, StartKeyed(p, c) PROVE Abs!Invoke(p, c)
    <2>1. /\ AbsPhase(p) = "idle" /\ AbsPhase(p)' = "open" /\ AbsLeft(p)' = AbsLeft(p)
          /\ AbsRet(p)' = AbsRet(p)
      BY <1>1, <1>a DEF StartKeyed, Goto, AbsPhase, AbsLeft, AbsRet, Op, Calls, ScanOps, NoCall,
           Bare, CallInv
    <2> QED
      BY <1>0, <1>1, <1>b, <2>1
      DEF Abs!Invoke, Abs!Goto, StartKeyed, shared, AbsPhases, AbsLefts, AbsRets
  <1>2. ASSUME NEW c \in Scans, ForEach(p, c) PROVE Abs!ForEach(p, c)
    <2>1. /\ AbsPhase(p) = "idle" /\ AbsPhase(p)' = "open" /\ AbsLeft(p)' = Key
          /\ AbsRet(p)' = AbsRet(p)
      BY <1>2, <1>a, <1>c DEF ForEach, Goto, AbsPhase, AbsLeft, AbsRet, Op, Scans, ScanOps,
           Bare, CallInv
    <2> QED
      BY <1>0, <1>2, <1>b, <2>1
      DEF Abs!ForEach, Abs!Goto, ForEach, shared, AbsPhases, AbsLefts, AbsRets
  <1>3. ASSUME KeysLen(p) PROVE Abs!KeysLen(p)
    <2>1. /\ AbsPhase(p) = "idle" /\ AbsPhase(p)' = (IF count < 0 THEN "done" ELSE "scan")
          /\ AbsLeft(p)' = AbsLeft(p) /\ AbsRet(p)' = count
      BY <1>3, <1>a DEF KeysLen, Goto, AbsPhase, AbsLeft, AbsRet, Op, ScanOps, Bare, NoCall,
           CallInv
    <2> QED
      BY <1>0, <1>3, <1>b, <2>1, SameCalls
      DEF Abs!KeysLen, Abs!Goto, KeysLen, shared, AbsPhases, AbsLefts, AbsRets
  <1>4. ASSUME ReadLen(p) PROVE Abs!ReadLen(p)
    <2>1. /\ AbsPhase(p) = "idle" /\ AbsPhase(p)' = "done" /\ AbsLeft(p)' = AbsLeft(p)
          /\ AbsRet(p)' = count
      BY <1>4, <1>a DEF ReadLen, Goto, AbsPhase, AbsLeft, AbsRet, Op, ScanOps, Bare, NoCall,
           CallInv
    <2> QED
      BY <1>0, <1>4, <1>b, <2>1, SameCalls
      DEF Abs!ReadLen, Abs!Goto, ReadLen, shared, AbsPhases, AbsLefts, AbsRets
  <1>5. ASSUME Clear(p) PROVE Abs!Clear(p)
    <2>1. /\ AbsPhase(p) = "idle" /\ AbsPhase(p)' = "clear" /\ AbsLeft(p)' = AbsLeft(p)
          /\ AbsRet(p)' = AbsRet(p)
      BY <1>5, <1>a DEF Clear, Goto, AbsPhase, AbsLeft, AbsRet, Op, ScanOps, Bare, NoCall,
           CallInv
    <2> QED
      BY <1>0, <1>5, <1>b, <2>1, SameCalls
      DEF Abs!Clear, Abs!Goto, Clear, AbsPhases, AbsLefts, AbsRets
  <1>6. ASSUME Lock(p) \/ RLock(p) \/ Drain(p) PROVE UNCHANGED Abs!vars
    <2>1. /\ AbsPhase(p)' = AbsPhase(p) /\ AbsLeft(p)' = AbsLeft(p) /\ AbsRet(p)' = AbsRet(p)
      BY <1>6, <1>a DEF Lock, RLock, Drain, Goto, AbsPhase, AbsLeft, AbsRet, Op, frame
    <2> QED
      BY <1>0, <1>6, <1>b, <2>1
      DEF Abs!vars, Lock, RLock, Drain, frame, shared, AbsPhases, AbsLefts, AbsRets
  <1>7. ASSUME Unlock(p) \/ Return(p) PROVE Abs!Return(p)
    <2>1. /\ AbsPhase(p) = "done" /\ AbsPhase(p)' = "idle" /\ AbsLeft(p)' = AbsLeft(p)
          /\ AbsRet(p)' = 0
      BY <1>7, <1>a DEF Unlock, Return, Leave, Goto, AbsPhase, AbsLeft, AbsRet, Op, ScanOps,
           KeyedOps, Bare, NoCall, CallInv
    <2> QED
      BY <1>0, <1>7, <1>b, <2>1, SameCalls
      DEF Abs!Return, Abs!Leave, Abs!Goto, Unlock, Return, Leave, shared,
          AbsPhases, AbsLefts, AbsRets
  <1>8. ASSUME GetBody(p) PROVE Abs!Get(p)
    <2>1. /\ AbsPhase(p) = "open" /\ AbsPhase(p)' = "done" /\ AbsLeft(p)' = AbsLeft(p)
          /\ AbsRet(p)' = Held(p) /\ pc[p] = "read"
      BY <1>8, <1>a DEF GetBody, Goto, AbsPhase, AbsLeft, AbsRet, Op, ScanOps
    <2>2. Held(p) = Abs!Held(p) /\ count + 0 = count
      BY <1>8, <2>1, HeldEffective DEF GetBody, Abs!Held, IInv, TypeOK
    <2>3. Effective' = [Effective EXCEPT ![tab[p]][call[p].key] = Abs!Held(p)]
      BY <1>0, EffectiveLemma, <1>a DEF Abs!Held, EffectiveFacts, Frame
    <2> QED
      BY <1>0, <1>8, <1>b, <2>1, <2>2, <2>3
      DEF Abs!Get, Abs!Effect, Abs!Goto, GetBody, Op, shared, AbsPhases, AbsLefts, AbsRets
  <1>9. ASSUME Visit(p) PROVE Abs!LookAt(p, InShard(at[p])) /\ InShard(at[p]) \in SUBSET AbsLefts[p]
    <2>1. /\ AbsPhase(p) = "open" /\ AbsPhase(p)' = "open" /\ AbsRet(p)' = AbsRet(p)
          /\ AbsLeft(p)' = AbsLeft(p) \ InShard(at[p]) /\ InShard(at[p]) \subseteq AbsLeft(p)
          /\ pc[p] = "read"
      BY <1>9, <1>a, <1>c
      DEF Visit, Goto, AbsPhase, AbsLeft, AbsRet, Op, ScanOps, shared, InShard, Shard
    <2>2. {k \in InShard(at[p]) : m[tab[p]][k] # Absent}
            = {k \in InShard(at[p]) : Effective[tab[p]][k] # Absent}
      BY <2>1, ReadEffective
    (* A consumer that stops leaves nothing to look at: there is one shard. *)
    <2>3. Op(p) = "ForEachUntil" => AbsLeft(p) \ InShard(at[p]) = {}
      BY <1>a, <1>c, <2>1, ShardAssumption
      DEF AbsLeft, InShard, Shard, Op
    <2> QED
      BY <1>0, <1>9, <1>b, <2>1, <2>2, <2>3, SameCalls
      DEF Abs!LookAt, Visit, Op, shared, AbsPhases, AbsLefts, AbsRets
  <1>10. ASSUME RUnlock(p)
         PROVE  Abs!Return(p) \/ Abs!EndScan(p) \/ UNCHANGED Abs!vars
    <2>1. CASE Op(p) = "Get"
      <3>1. /\ AbsPhase(p) = "done" /\ AbsPhase(p)' = "idle" /\ AbsLeft(p)' = AbsLeft(p)
            /\ AbsRet(p)' = 0
        BY <1>10, <2>1, <1>a DEF RUnlock, Leave, Goto, AbsPhase, AbsLeft, AbsRet, Op, ScanOps,
             Bare, NoCall
      <3> QED
        BY <1>0, <1>10, <1>b, <2>1, <3>1, SameCalls
        DEF Abs!Return, Abs!Leave, Abs!Goto, RUnlock, Leave, AbsPhases, AbsLefts, AbsRets
    <2>2. CASE Op(p) # "Get" /\ at[p] = NShard
      <3>1. /\ AbsPhase(p) = "open" /\ AbsPhase(p)' = "idle" /\ AbsLeft(p)' = AbsLeft(p)
            /\ AbsRet(p)' = 0 /\ Op(p) \in ScanOps /\ AbsLeft(p) = {}
        BY <1>10, <2>2, <1>a, <1>c, ShardAssumption
        DEF RUnlock, Leave, Goto, AbsPhase, AbsLeft, AbsRet, Op, ScanOps, Bare, NoCall, CallInv
      <3> QED
        BY <1>0, <1>10, <1>b, <2>2, <3>1, SameCalls
        DEF Abs!EndScan, Abs!Leave, Abs!Goto, RUnlock, Leave, Op, AbsPhases, AbsLefts, AbsRets
    <2>3. CASE Op(p) # "Get" /\ at[p] # NShard
      <3>1. /\ AbsPhase(p)' = AbsPhase(p) /\ AbsRet(p)' = AbsRet(p)
            /\ AbsLeft(p)' = AbsLeft(p)
        <4>1. /\ pc[p] = "runlock" /\ pc'[p] = "rlock" /\ call' = call /\ ret' = ret
              /\ at'[p] = at[p] + 1 /\ at[p] \in Int
          BY <1>10, <2>3, <1>a DEF RUnlock, Goto, Shard
        <4>2. {k \in Key : ShardOf[k] > at[p]} = {k \in Key : ShardOf[k] >= at'[p]}
          BY <4>1, <1>c
        <4> QED
          BY <4>1, <4>2, <2>3 DEF AbsPhase, AbsLeft, AbsRet, Op
      <3> QED
        BY <1>0, <1>10, <1>b, <2>3, <3>1 DEF Abs!vars, RUnlock, AbsPhases, AbsLefts, AbsRets
    <2> QED
      BY <2>1, <2>2, <2>3
  <1>11. ASSUME KeysScan(p) PROVE Abs!KeysScan(p)
    <2>1. /\ AbsPhase(p) = "scan" /\ AbsPhase(p)' = "open" /\ AbsLeft(p)' = Key
          /\ AbsRet(p)' = AbsRet(p)
      BY <1>11, <1>a, <1>c DEF KeysScan, Goto, AbsPhase, AbsLeft, AbsRet, Op, ScanOps, CallInv
    <2> QED
      BY <1>0, <1>11, <1>b, <2>1
      DEF Abs!KeysScan, Abs!Goto, KeysScan, shared, AbsPhases, AbsLefts, AbsRets
  <1>12. ASSUME WriteTable(p) PROVE Abs!Swap(p)
    <2>1. CASE FirstWrite(p, "clearCount")
      <3>1. /\ AbsPhase(p) = "clear" /\ AbsPhase(p)' = "clearCount"
            /\ AbsLeft(p)' = AbsLeft(p) /\ AbsRet(p)' = AbsRet(p)
        BY <2>1, <1>a DEF FirstWrite, Goto, AbsPhase, AbsLeft, AbsRet, Op, frame
      <3> QED
        BY <1>0, <1>12, <1>b, <2>1, <3>1
        DEF Abs!Swap, Abs!Goto, WriteTable, FirstWrite, frame, AbsPhases, AbsLefts, AbsRets
    <2>2. CASE LastWrite(p, "clearTable")
      <3>1. /\ AbsPhase(p) = "clearTable" /\ AbsPhase(p)' = "idle"
            /\ AbsLeft(p)' = AbsLeft(p) /\ AbsRet(p)' = 0
        BY <2>2, <1>a DEF LastWrite, Leave, Goto, AbsPhase, AbsLeft, AbsRet, Op, ScanOps, Bare,
             NoCall
      <3> QED
        BY <1>0, <1>12, <1>b, <2>2, <3>1, SameCalls
        DEF Abs!Swap, Abs!Leave, Abs!Goto, WriteTable, LastWrite, Leave,
            AbsPhases, AbsLefts, AbsRets
    <2> QED
      BY <1>12, <2>1, <2>2 DEF WriteTable
  <1>13. ASSUME WriteCount(p) PROVE Abs!Zero(p)
    <2>1. CASE FirstWrite(p, "clearTable")
      <3>1. /\ AbsPhase(p) = "clear" /\ AbsPhase(p)' = "clearTable"
            /\ AbsLeft(p)' = AbsLeft(p) /\ AbsRet(p)' = AbsRet(p)
        BY <2>1, <1>a DEF FirstWrite, Goto, AbsPhase, AbsLeft, AbsRet, Op, frame
      <3> QED
        BY <1>0, <1>13, <1>b, <2>1, <3>1
        DEF Abs!Zero, Abs!Goto, WriteCount, FirstWrite, frame, AbsPhases, AbsLefts, AbsRets
    <2>2. CASE LastWrite(p, "clearCount")
      <3>1. /\ AbsPhase(p) = "clearCount" /\ AbsPhase(p)' = "idle"
            /\ AbsLeft(p)' = AbsLeft(p) /\ AbsRet(p)' = 0
        BY <2>2, <1>a DEF LastWrite, Leave, Goto, AbsPhase, AbsLeft, AbsRet, Op, ScanOps, Bare,
             NoCall
      <3> QED
        BY <1>0, <1>13, <1>b, <2>2, <3>1, SameCalls
        DEF Abs!Zero, Abs!Leave, Abs!Goto, WriteCount, LastWrite, Leave,
            AbsPhases, AbsLefts, AbsRets
    <2> QED
      BY <1>13, <2>1, <2>2 DEF WriteCount
  <1> QED
    BY <1>1, <1>2, <1>3, <1>4, <1>5, <1>6, <1>7, <1>8, <1>9, <1>10, <1>11, <1>12, <1>13,
       SameCalls
    DEF Mine, Start, Acquire, Step, AnyBody, Abs!Next, AbsLefts

LEMMA AbsBody ==
  ASSUME IInv, IInv', NEW p \in Proc, Mine(p), AnyBody(p)
  PROVE  [Abs!Next]_(Abs!vars)
  <1>0. /\ AbsPhases' = [AbsPhases EXCEPT ![p] = AbsPhase(p)']
        /\ AbsLefts' = [AbsLefts EXCEPT ![p] = AbsLeft(p)']
        /\ AbsRets' = [AbsRets EXCEPT ![p] = AbsRet(p)']
    BY AbsOthers
  <1>a. /\ pc \in [Proc -> Place] /\ ret \in [Proc -> Val \cup {Absent} \cup Int]
        /\ CallInv(p) /\ count \in Int
    BY DEF IInv, TypeOK
  <1>b. /\ AbsPhases[p] = AbsPhase(p) /\ AbsLefts[p] = AbsLeft(p) /\ AbsRets[p] = AbsRet(p)
        /\ AbsPhases = [AbsPhases EXCEPT ![p] = AbsPhase(p)]
        /\ AbsLefts = [AbsLefts EXCEPT ![p] = AbsLeft(p)]
        /\ AbsRets = [AbsRets EXCEPT ![p] = AbsRet(p)]
    BY DEF AbsPhases, AbsLefts, AbsRets
  <1>1. pc[p] = "body" /\ Abs!Held(p) = Held(p)
    <2>1. pc[p] = "body"
      BY DEF AnyBody, PutBody, PutIfAbsentBody, PutIfExistsBody, RemoveBody, Body, Goto
    <2> QED
      BY <2>1, HeldEffective DEF Abs!Held
  (* A body with something to count has no effect yet, *)
  <1>2. ASSUME NEW op, NEW v \in Val \cup {Absent}, Body(p, op, v, 1, "count")
        PROVE  UNCHANGED Abs!vars
    <2>1. Effective' = Effective
      BY <1>2, BodyToCount DEF Body
    <2>2. AbsPhase(p)' = AbsPhase(p) /\ AbsLeft(p)' = AbsLeft(p) /\ AbsRet(p)' = AbsRet(p)
      BY <1>2, <1>a DEF Body, Goto, AbsPhase, AbsLeft, AbsRet, Op, CallInv, KeyedOps, ScanOps
    <2> QED
      BY <1>0, <1>b, <1>2, <2>1, <2>2 DEF Abs!vars, Body, AbsPhases, AbsLefts, AbsRets
  (* and one without takes effect. *)
  <1>3. ASSUME NEW op, NEW v \in Val \cup {Absent}, NEW r \in {0, 1}, Body(p, op, v, r, "unlock")
        PROVE  Abs!Effect(p, v, 0, r)
    <2>1. Effective' = [Effective EXCEPT ![tab[p]][call[p].key] = v]
      BY <1>3, BodyToUnlock DEF Body
    <2>2. /\ AbsPhase(p) = "open" /\ AbsPhase(p)' = "done" /\ AbsLeft(p)' = AbsLeft(p)
          /\ AbsRet(p)' = r
      BY <1>3, <1>a DEF Body, Goto, AbsPhase, AbsLeft, AbsRet, Op, CallInv, KeyedOps, ScanOps
    <2> QED
      BY <1>0, <1>a, <1>b, <1>3, <2>1, <2>2
      DEF Abs!Effect, Abs!Goto, Body, AbsPhases, AbsLefts, AbsRets
  <1>4. call[p].val \in Val /\ Held(p) \in Val \cup {Absent} /\ Absent \in Val \cup {Absent}
    BY DEF IInv, TypeOK, Held, Frame
  <1>5. CASE PutBody(p)
    <2>1. Held(p) # Absent => Abs!Put(p)
      BY <1>1, <1>3, <1>4, <1>5 DEF PutBody, Abs!Put, Body, Op
    <2>2. Held(p) = Absent => UNCHANGED Abs!vars
      BY <1>2, <1>4, <1>5 DEF PutBody
    <2> QED
      BY <2>1, <2>2 DEF Abs!Next
  <1>6. CASE PutIfAbsentBody(p)
    <2>1. Held(p) # Absent => Abs!PutIfAbsent(p)
      BY <1>1, <1>3, <1>4, <1>6 DEF PutIfAbsentBody, Abs!PutIfAbsent, Body, Op
    <2>2. Held(p) = Absent => UNCHANGED Abs!vars
      BY <1>2, <1>4, <1>6 DEF PutIfAbsentBody
    <2> QED
      BY <2>1, <2>2 DEF Abs!Next
  <1>7. CASE PutIfExistsBody(p)
    <2>1. Abs!PutIfExists(p)
      BY <1>1, <1>3, <1>4, <1>7 DEF PutIfExistsBody, Abs!PutIfExists, Body, Op
    <2> QED
      BY <2>1 DEF Abs!Next
  <1>8. CASE RemoveBody(p)
    <2>1. Held(p) = Absent => Abs!Remove(p)
      BY <1>1, <1>3, <1>4, <1>8 DEF RemoveBody, Abs!Remove, Body, Op
    <2>2. Held(p) # Absent => UNCHANGED Abs!vars
      BY <1>2, <1>4, <1>8 DEF RemoveBody
    <2> QED
      BY <2>1, <2>2 DEF Abs!Next
  <1> QED
    BY <1>5, <1>6, <1>7, <1>8 DEF AnyBody

LEMMA AbsCount ==
  ASSUME IInv, IInv', NEW p \in Proc, Mine(p), Count(p)
  PROVE  [Abs!Next]_(Abs!vars)
  <1>0. /\ AbsPhases' = [AbsPhases EXCEPT ![p] = AbsPhase(p)']
        /\ AbsLefts' = [AbsLefts EXCEPT ![p] = AbsLeft(p)']
        /\ AbsRets' = [AbsRets EXCEPT ![p] = AbsRet(p)']
        /\ Effective' = [Effective EXCEPT ![tab[p]][call[p].key] = Held(p)]
    BY AbsOthers, CountEffect
  <1>a. /\ pc \in [Proc -> Place] /\ UncountedInv(p) /\ CallInv(p) /\ count \in Int
        /\ call[p].val \in Val /\ Absent \notin Val
    BY DataAssumption DEF IInv, TypeOK, Frame
  <1>b. /\ AbsLefts = [AbsLefts EXCEPT ![p] = AbsLeft(p)]
        /\ AbsPhases[p] = AbsPhase(p)
    BY DEF AbsPhases, AbsLefts, AbsRets
  <1>1. /\ pc[p] = "count" /\ AbsPhase(p) = "open" /\ AbsPhase(p)' = "done"
        /\ AbsLeft(p)' = AbsLeft(p) /\ AbsRet(p)' = 1
    BY <1>a DEF Count, Goto, AbsPhase, AbsLeft, AbsRet, Op, UncountedInv, ScanOps, frame
  <1>2. Abs!Held(p) = found[p]
    BY <1>1, EffectiveLemma DEF EffectiveFacts, Abs!Held
  <1>3. CASE Op(p) = "Remove"
    <2>1. Abs!Effect(p, Absent, -1, 1)
      BY <1>0, <1>a, <1>b, <1>1, <1>3
      DEF Abs!Effect, Abs!Goto, Count, frame, UncountedInv, AbsPhases, AbsLefts, AbsRets
    <2> QED
      BY <1>a, <1>1, <1>2, <1>3, <2>1 DEF Abs!Next, Abs!Remove, UncountedInv, Op
  <1>4. CASE Op(p) # "Remove"
    <2>1. Abs!Effect(p, call[p].val, 1, 1)
      BY <1>0, <1>a, <1>b, <1>1, <1>4
      DEF Abs!Effect, Abs!Goto, Count, frame, UncountedInv, AbsPhases, AbsLefts, AbsRets
    <2> QED
      BY <1>a, <1>1, <1>2, <1>4, <2>1
      DEF Abs!Next, Abs!Put, Abs!PutIfAbsent, UncountedInv, Op
  <1> QED
    BY <1>3, <1>4

(* Every operation that runs is one of Ops.                                *)
OnlyOps == \A p \in Proc : Op(p) \in Ops \cup {"none"}

LEMMA OnlyOpsStep == TypeOK /\ OnlyOps /\ [Next]_vars => OnlyOps'
  <1> SUFFICES ASSUME TypeOK, OnlyOps, [Next]_vars PROVE OnlyOps'
    OBVIOUS
  <1>1. ASSUME NEW p \in Proc, NEW c, c.op \in Ops \cup {"none"},
               call' = [call EXCEPT ![p] = c]
        PROVE  OnlyOps'
    BY <1>1 DEF TypeOK, OnlyOps, Op
  <1>2. ASSUME call' = call PROVE OnlyOps'
    BY <1>2 DEF OnlyOps, Op
  <1>3. ASSUME NEW p \in Proc, Leave(p) PROVE OnlyOps'
    BY <1>1, <1>3 DEF Leave, NoCall, Bare
  <1>4. ASSUME NEW p \in Proc, Start(p) PROVE OnlyOps'
    BY <1>1, <1>4 DEF Start, StartKeyed, ForEach, KeysLen, ReadLen, Clear, Bare
  <1>5. ASSUME NEW p \in Proc, Acquire(p) \/ Drain(p) \/ Count(p) PROVE OnlyOps'
    BY <1>2, <1>5 DEF Acquire, Lock, RLock, Drain, Count, frame
  <1>6. ASSUME NEW p \in Proc, AnyBody(p) \/ GetBody(p) \/ Visit(p) \/ KeysScan(p)
        PROVE  OnlyOps'
    BY <1>2, <1>6 DEF AnyBody, PutBody, PutIfAbsentBody, PutIfExistsBody, RemoveBody, Body,
       GetBody, Visit, KeysScan
  <1>7. ASSUME NEW p \in Proc, Unlock(p) \/ RUnlock(p) \/ Return(p) PROVE OnlyOps'
    BY <1>2, <1>3, <1>7 DEF Unlock, RUnlock, Return
  <1>8. ASSUME NEW p \in Proc, WriteTable(p) \/ WriteCount(p) PROVE OnlyOps'
    BY <1>2, <1>3, <1>8 DEF WriteTable, WriteCount, FirstWrite, LastWrite, frame
  <1> QED
    BY <1>2, <1>4, <1>5, <1>6, <1>7, <1>8 DEF Next, Step, AnyBody, vars

LEMMA OperationsInvariance == Spec => []OnlyOps
  <1>1. Init => OnlyOps
    BY DEF Init, OnlyOps, Op, NoCall, Bare
  <1> QED
    BY <1>1, OnlyOpsStep, Typing, PTL DEF Spec

LEMMA AbsStep ==
  ASSUME StopsInOneShard
  PROVE  IInv /\ IInv' /\ OnlyOps /\ [Next]_vars => [Abs!Next]_(Abs!vars)
  <1> SUFFICES ASSUME IInv, IInv', OnlyOps, [Next]_vars PROVE [Abs!Next]_(Abs!vars)
    OBVIOUS
  <1>1. CASE UNCHANGED vars
    BY <1>1 DEF vars, Abs!vars, Effective, Uncounted, AbsPhase, AbsLeft, AbsRet, Op
  <1>2. ASSUME NEW p \in Proc, Mine(p) PROVE [Abs!Next]_(Abs!vars)
    <2>1. NShard = 1 \/ Op(p) # "ForEachUntil"
      BY DEF StopsInOneShard, OnlyOps
    <2> QED
      BY <1>2, <2>1, AbsQuiet, AbsBody, AbsCount
  <1> QED
    BY <1>1, <1>2 DEF Next, Mine

(* Every behaviour of the sharded dict, its locks, its lagging count and   *)
(* its unlocked Clear included, is one of the atomic dictionary, if there  *)
(* is one shard or no consumer of ForEach answers false; the dictionary    *)
(* breaks a traversal off when one does, which two shards do not.          *)
THEOREM Refinement ==
  ASSUME StopsInOneShard
  PROVE  Spec => ImplementsDictSpec
  BY AbsInit, AbsStep, Invariance, OperationsInvariance,
     PTL DEF Spec, ImplementsDictSpec, Abs!Spec

-----------------------------------------------------------------------------
(* What a step of p does to the scan of p: it is not in one afterwards,    *)
(* starts one, goes on with it, or hands a shard to the consumer.          *)
LEMMA ScanSteps ==
  ASSUME IInv, NEW p \in Proc, Mine(p), pc[p] \in {"idle", "scan"} => seen[p] = {}
  PROVE  \/ /\ ~Scanning(p)' /\ (pc'[p] \in {"idle", "scan"} => seen'[p] = {})
         \/ /\ ~Scanning(p) /\ Scanning(p)' /\ ~Visit(p)
            /\ seen'[p] = {} /\ Visited(p)' = {}
         \/ /\ Scanning(p) /\ Scanning(p)' /\ ~Visit(p) /\ UNCHANGED <<tab, call, seen>>
            /\ Visited(p)' = Visited(p)
         \/ Scanning(p) /\ Scanning(p)' /\ Visit(p)
  <1>0. /\ pc \in [Proc -> Place] /\ call \in [Proc -> Frame] /\ at \in [Proc -> Shard]
        /\ seen \in [Proc -> SUBSET Key] /\ CallInv(p)
        /\ \A k \in Key : ShardOf[k] \in 1..NShard
    BY ShardAssumption DEF IInv, TypeOK
  <1> USE DEF Scanning, Op
  <1>1. CASE \E c \in Calls : StartKeyed(p, c)
    BY <1>0, <1>1 DEF StartKeyed, Goto, Calls, ScanOps
  <1>2. CASE \E c \in Scans : ForEach(p, c)
    <2>1. /\ pc[p] = "idle" /\ pc'[p] = "rlock" /\ at'[p] = 1 /\ seen' = seen
      BY <1>0, <1>2 DEF ForEach, Goto, CallInv
    <2>2. Visited(p)' = {}
      BY <1>0, <2>1 DEF Visited
    <2> QED
      BY <1>0, <1>2, <2>1, <2>2 DEF ForEach, Scans, ScanOps, Bare, Visit, Goto
  <1>3. CASE KeysLen(p)
    BY <1>0, <1>3 DEF KeysLen, Goto
  <1>4. CASE ReadLen(p)
    BY <1>0, <1>4 DEF ReadLen, Goto
  <1>5. CASE Clear(p)
    BY <1>0, <1>5 DEF Clear, Goto
  <1>6. CASE Lock(p) \/ Drain(p) \/ Count(p)
    BY <1>0, <1>6 DEF Lock, Drain, Count, Goto
  <1>7. CASE RLock(p)
    <2>1. /\ pc[p] = "rlock" /\ pc'[p] = "read" /\ UNCHANGED frame
      BY <1>0, <1>7 DEF RLock, Goto
    <2>2. Visited(p)' = Visited(p)
      BY <2>1 DEF Visited, frame
    <2> QED
      BY <2>1, <2>2 DEF frame, Visit, Goto
  <1>8. CASE Unlock(p) \/ Return(p)
    BY <1>0, <1>8 DEF Unlock, Return, Leave, Goto
  <1>9. CASE AnyBody(p)
    <2>1. pc'[p] \in {"count", "unlock"}
      BY <1>0, <1>9 DEF AnyBody, PutBody, PutIfAbsentBody, PutIfExistsBody, RemoveBody, Body, Goto
    <2> QED
      BY <2>1
  <1>10. CASE GetBody(p)
    BY <1>0, <1>10 DEF GetBody, Goto, ScanOps
  <1>11. CASE Visit(p)
    BY <1>0, <1>11 DEF Visit, Goto
  <1>12. CASE RUnlock(p)
    <2>1. CASE Leave(p) /\ Goto(p, "runlock", "idle")
      BY <1>0, <2>1 DEF Leave, Goto
    <2>2. CASE /\ Op(p) # "Get" /\ at[p] # NShard /\ Goto(p, "runlock", "rlock")
               /\ at' = [at EXCEPT ![p] = @ + 1]
               /\ UNCHANGED <<call, tab, found, seen, ret>>
      <3>1. /\ pc[p] = "runlock" /\ pc'[p] = "rlock" /\ at'[p] = at[p] + 1 /\ at[p] \in Int
        BY <1>0, <2>2 DEF Goto, Shard
      <3>2. \A k \in Key : ShardOf[k] < at[p] + 1 <=> (ShardOf[k] < at[p] \/ ShardOf[k] = at[p])
        BY <1>0, <3>1
      <3>3. Visited(p)' = Visited(p)
        BY <3>1, <3>2 DEF Visited
      <3>4. Scanning(p) /\ Scanning(p)'
        BY <1>0, <2>2, <3>1 DEF CallInv, ScanOps
      <3> QED
        BY <2>2, <3>1, <3>3, <3>4 DEF Visit, Goto
    <2> QED
      BY <1>12, <2>1, <2>2 DEF RUnlock
  <1>13. CASE KeysScan(p)
    <2>1. /\ pc[p] = "scan" /\ pc'[p] = "rlock" /\ at'[p] = 1 /\ seen' = seen /\ call' = call
      BY <1>0, <1>13 DEF KeysScan, Goto, CallInv
    <2>2. Visited(p)' = {}
      BY <1>0, <2>1 DEF Visited
    <2> QED
      BY <1>0, <1>13, <2>1, <2>2 DEF CallInv, ScanOps, Visit, Goto
  <1>14. CASE WriteTable(p) \/ WriteCount(p)
    BY <1>0, <1>14 DEF WriteTable, WriteCount, FirstWrite, LastWrite, Leave, Goto
  <1> QED
    BY <1>1, <1>2, <1>3, <1>4, <1>5, <1>6, <1>7, <1>8, <1>9, <1>10, <1>11, <1>12, <1>13, <1>14
    DEF Mine, Start, Acquire, Step, AnyBody

(* A step of another goroutine leaves the scan of p where it is.           *)
LEMMA ScanOthers ==
  ASSUME IInv, NEW p \in Proc, Mine(p), NEW q \in Proc \ {p}
  PROVE  /\ Scanning(q)' = Scanning(q) /\ InKeys(q)' = InKeys(q)
         /\ Clearing(q)' = Clearing(q) /\ Writing(q)' = Writing(q)
         /\ Visited(q)' = Visited(q) /\ Op(q)' = Op(q)
         /\ pc'[q] = pc[q] /\ tab'[q] = tab[q] /\ seen'[q] = seen[q] /\ ret'[q] = ret[q]
  BY Others DEF IInv, Scanning, InKeys, Clearing, Writing, Visited, Op

(* What the consumer is given of a shard.                                  *)
LEMMA VisitSees ==
  ASSUME IInv, IInv', NEW p \in Proc, Mine(p), Visit(p)
  PROVE  \E given \in SUBSET Key :
           /\ given \subseteq Present(tab[p]) \ Visited(p) /\ seen'[p] = seen[p] \cup given
           /\ Op(p) # "ForEachUntil" =>
                 Visited(p)' \cap Present(tab[p]) \subseteq Visited(p) \cup given
  <1>0. /\ pc \in [Proc -> Place] /\ at \in [Proc -> Shard] /\ seen \in [Proc -> SUBSET Key]
        /\ tab[p] \in Gen /\ pc[p] = "read" /\ pc'[p] = "runlock" /\ at' = at
        /\ \A k \in Key : ShardOf[k] \in 1..NShard
    BY ShardAssumption DEF IInv, TypeOK, Visit, Goto
  <1> DEFINE entries == {k \in InShard(at[p]) : m[tab[p]][k] # Absent}
  <1>1. entries = {k \in InShard(at[p]) : Effective[tab[p]][k] # Absent}
    BY <1>0, ReadEffective
  <1>2. PICK given \in SUBSET entries :
          /\ IF Op(p) = "ForEachUntil" /\ call[p].key \in entries
             THEN call[p].key \in given ELSE given = entries
          /\ seen' = [seen EXCEPT ![p] = @ \cup given]
    BY DEF Visit
  <1>3. given \subseteq Present(tab[p]) /\ given \in SUBSET Key
    BY <1>1, <1>2 DEF Present, InShard
  <1>6. given \cap Visited(p) = {}
    BY <1>0, <1>2 DEF Visited, InShard, Shard
  <1>4. seen'[p] = seen[p] \cup given
    BY <1>0, <1>2
  <1>5. ASSUME Op(p) # "ForEachUntil"
        PROVE  Visited(p)' \cap Present(tab[p]) \subseteq Visited(p) \cup given
    <2>1. given = {k \in InShard(at[p]) : Effective[tab[p]][k] # Absent}
      BY <1>1, <1>2, <1>5
    <2>2. Visited(p)' \subseteq Visited(p) \cup InShard(at[p])
      BY <1>0 DEF Visited, InShard
    <2> QED
      BY <2>1, <2>2 DEF Present
  <1> QED
    BY <1>3, <1>4, <1>5, <1>6

-----------------------------------------------------------------------------
(* ScanSound, for one goroutine.                                           *)
SoundFor(p) ==
  Scanning(p) =>
    /\ seen[p] \subseteq ever[p]
    /\ Op(p) # "ForEachUntil" => always[p] \cap Visited(p) \subseteq seen[p]

LEMMA ScanStep ==
  ASSUME IInv, IInv', HistoryType, NEW p \in Proc, Mine(p), NEW q \in Proc,
         ScanInv(q), SoundFor(q),
         ever'[q] = EverNext(q), always'[q] = AlwaysNext(q)
  PROVE  ScanInv(q)' /\ SoundFor(q)'
  <1>0. ever[q] \in SUBSET Key /\ always[q] \in SUBSET Key
    BY DEF HistoryType
  <1>1. /\ Scanning(q)' => /\ ever'[q] = ever[q] \cup (Present(tab[q])' \ Visited(q)')
                           /\ always'[q] \subseteq Present(tab[q])'
                           /\ Scanning(q) => always'[q] \subseteq always[q]
    BY DEF EverNext, AlwaysNext
  <1>2. CASE q # p
    <2>1. /\ Scanning(q)' = Scanning(q) /\ Visited(q)' = Visited(q) /\ Op(q)' = Op(q)
          /\ pc'[q] = pc[q] /\ seen'[q] = seen[q]
      BY <1>2, ScanOthers
    <2> QED
      BY <1>1, <2>1 DEF ScanInv, SoundFor
  <1>3. CASE q = p
    <2>1. CASE ~Scanning(p)' /\ (pc'[p] \in {"idle", "scan"} => seen'[p] = {})
      BY <1>3, <2>1 DEF ScanInv, SoundFor
    <2>2. CASE Scanning(p)' /\ seen'[p] = {} /\ Visited(p)' = {}
      BY <1>1, <1>3, <2>2 DEF ScanInv, SoundFor
    <2>3. CASE /\ Scanning(p) /\ Scanning(p)' /\ UNCHANGED <<tab, call, seen>>
               /\ Visited(p)' = Visited(p)
      <3>1. Op(p)' = Op(p) /\ seen'[p] = seen[p] /\ pc'[p] \notin {"idle", "scan"}
        BY <2>3 DEF Op, Scanning
      <3> QED
        BY <1>1, <1>3, <2>3, <3>1 DEF ScanInv, SoundFor
    <2>4. CASE Scanning(p) /\ Scanning(p)' /\ Visit(p)
      <3>1. Op(p)' = Op(p) /\ pc'[p] \notin {"idle", "scan"}
        BY <2>4 DEF Op, Visit, Scanning
      <3>2. PICK given \in SUBSET Key :
              /\ given \subseteq Present(tab[p]) \ Visited(p) /\ seen'[p] = seen[p] \cup given
              /\ Op(p) # "ForEachUntil" =>
                    Visited(p)' \cap Present(tab[p]) \subseteq Visited(p) \cup given
        BY <2>4, VisitSees
      <3>3. /\ always[p] \subseteq Present(tab[p]) /\ Present(tab[p]) \ Visited(p) \subseteq ever[p]
            /\ seen[p] \subseteq ever[p]
            /\ Op(p) # "ForEachUntil" => always[p] \cap Visited(p) \subseteq seen[p]
        BY <1>3, <2>4 DEF ScanInv, SoundFor
      <3>4. seen'[p] \subseteq ever'[p]
        BY <1>1, <1>3, <2>4, <3>2, <3>3
      <3>5. ASSUME Op(p) # "ForEachUntil" PROVE always'[p] \cap Visited(p)' \subseteq seen'[p]
        <4>1. always'[p] \subseteq always[p]
          BY <1>1, <1>3, <2>4
        <4> QED
          BY <1>3, <3>2, <3>3, <3>5, <4>1
      <3> QED
        BY <1>1, <1>3, <2>4, <3>1, <3>4, <3>5 DEF ScanInv, SoundFor
    <2> QED
      BY <1>3, <2>1, <2>2, <2>3, <2>4, ScanSteps DEF ScanInv
  <1> QED
    BY <1>2, <1>3

-----------------------------------------------------------------------------
(* Tables not yet allocated stay empty.                                    *)
LEMMA FreshStep ==
  ASSUME IInv, IInv', NEW p \in Proc, Mine(p), FreshInv
  PROVE  FreshInv'
  <1>1. /\ fresh \in Nat /\ fresh' \in Nat /\ fresh <= fresh' /\ tab[p] <= fresh
    BY FieldWrites, BoundAssumption DEF IInv, TypeOK, Gen, TableInv, Clear
  <1>2. ASSUME NEW g \in Gen, g > fresh' PROVE PresentNext(g) = {}
    <2>1. g > fresh /\ tab[p] # g
      BY <1>1, <1>2, BoundAssumption DEF Gen, IInv, TypeOK
    <2> QED
      BY <2>1, PresentStep DEF FreshInv
  <1> QED
    BY <1>2 DEF FreshInv, Present, PresentNext

LEMMA RacedStep ==
  ASSUME RacedInv, raced' = RacedNext PROVE RacedInv' /\ (~raced' => ~raced)
  BY DEF RacedInv, RacedNext

(* Only Clear starts a Clear, and only a keyed operation becomes a writer. *)
LEMMA Begins ==
  ASSUME IInv, NEW p \in Proc, Mine(p)
  PROVE  /\ Clearing(p)' => Clearing(p) \/ Clear(p)
         /\ Clearing(p) => WriteTable(p) \/ WriteCount(p)
         /\ Writing(p)' => tab'[p] = IF Writing(p) THEN tab[p] ELSE table
         /\ AnyBody(p) \/ Count(p) => Writing(p)
         /\ WriteTable(p) \/ WriteCount(p) => Clearing(p)
  <1>0. /\ pc \in [Proc -> Place] /\ tab \in [Proc -> Gen] /\ CallInv(p)
    BY DEF IInv, TypeOK
  <1> USE DEF Clearing, Writing
  <1>1. CASE \E c \in Calls : StartKeyed(p, c)
    BY <1>0, <1>1 DEF StartKeyed, Goto, AnyBody, PutBody, PutIfAbsentBody, PutIfExistsBody,
       RemoveBody, Body, Count, WriteTable, WriteCount, FirstWrite, LastWrite
  <1>2. CASE \/ \E c \in Scans : ForEach(p, c)
             \/ KeysLen(p) \/ ReadLen(p) \/ Clear(p)
    BY <1>0, <1>2 DEF ForEach, KeysLen, ReadLen, Clear, Goto, AnyBody, PutBody,
       PutIfAbsentBody, PutIfExistsBody, RemoveBody, Body, Count, WriteTable, WriteCount,
       FirstWrite, LastWrite
  <1>3. CASE \/ Lock(p) \/ Drain(p) \/ Count(p) \/ RLock(p) \/ GetBody(p) \/ Visit(p)
             \/ KeysScan(p)
    BY <1>0, <1>3 DEF Lock, Drain, Count, RLock, GetBody, Visit, KeysScan, frame, Goto,
       AnyBody, PutBody, PutIfAbsentBody, PutIfExistsBody, RemoveBody, Body,
       WriteTable, WriteCount, FirstWrite, LastWrite
  <1>4. CASE AnyBody(p)
    BY <1>0, <1>4 DEF AnyBody, PutBody, PutIfAbsentBody, PutIfExistsBody, RemoveBody, Body,
       Goto, WriteTable, WriteCount, FirstWrite, LastWrite
  <1>5. CASE Unlock(p) \/ RUnlock(p) \/ Return(p)
    BY <1>0, <1>5 DEF Unlock, RUnlock, Return, Leave, Goto, AnyBody, PutBody,
       PutIfAbsentBody, PutIfExistsBody, RemoveBody, Body, Count, WriteTable, WriteCount,
       FirstWrite, LastWrite
  <1>6. CASE WriteTable(p) \/ WriteCount(p)
    BY <1>0, <1>6 DEF WriteTable, WriteCount, FirstWrite, LastWrite, Leave, Goto, AnyBody,
       PutBody, PutIfAbsentBody, PutIfExistsBody, RemoveBody, Body, Count
  <1> QED
    BY <1>1, <1>2, <1>3, <1>4, <1>5, <1>6 DEF Mine, Start, Acquire, Step, AnyBody

-----------------------------------------------------------------------------
(* The count across Clears.                                                *)
LEMMA CountStep ==
  ASSUME IInv, IInv', NEW p \in Proc, Mine(p), FreshInv, RacedInv, RacedInv',
         ~raced' => ~raced, CountInv, CountExactUnlessRaced
  PROVE  CountInv' /\ CountExactUnlessRaced'
  <1> SUFFICES ASSUME ~raced'
               PROVE  CountInv' /\ CountExactUnlessRaced'
    BY DEF CountInv, CountExactUnlessRaced
  <1>0. /\ ~raced /\ count \in Int /\ count >= 0 /\ table \in Gen /\ tab \in [Proc -> Gen]
        /\ pc \in [Proc -> Place] /\ call \in [Proc -> Frame]
    BY DEF IInv, TypeOK, CountInv
  <1>1. \A q \in Proc \ {p} : /\ Clearing(q)' = Clearing(q) /\ Writing(q)' = Writing(q)
                              /\ pc'[q] = pc[q] /\ tab'[q] = tab[q]
    BY ScanOthers
  <1>2. \A q \in Proc : ~(Clearing(q) /\ Writing(q)) /\ ~(Clearing(q)' /\ Writing(q)')
    BY DEF Clearing, Writing
  <1>a. CASE \A q \in Proc : ~Clearing(q)
    <2>0. /\ count = Cardinality(Present(table))
          /\ \A q \in Proc : Writing(q) => tab[q] = table
      BY <1>0, <1>a DEF CountInv, CountExactUnlessRaced
    <2>1. CASE Clear(p)
      <3>1. /\ count' = count /\ pc'[p] = "clear" /\ tab'[p] = fresh + 1 /\ Clearing(p)'
            /\ fresh + 1 \in Gen /\ fresh \in Nat /\ pc[p] = "idle"
        BY <1>0, <2>1, BoundAssumption DEF Clear, Goto, Clearing, IInv, TypeOK, Gen
      <3>2. PICK g \in Gen : g = fresh + 1
        BY <3>1
      <3>3. Present(g) = {} /\ ~Count(p)
        BY <3>1, <3>2 DEF FreshInv, Count, Goto
      <3>4. PresentNext(g) = {}
        BY <3>3, PresentStep
      <3>5. Present(tab[p])' = {}
        BY <3>1, <3>2, <3>4 DEF Present, PresentNext
      <3>6. \A q \in Proc : Clearing(q)' => q = p
        BY <1>1, <1>a
      <3> QED
        BY <1>0, <3>1, <3>5, <3>6 DEF CountInv, CountExactUnlessRaced
    <2>2. CASE ~Clear(p)
      <3>1. \A q \in Proc : ~Clearing(q)'
        BY <1>1, <1>a, <2>2, Begins
      <3>2. table' = table /\ ~WriteCount(p)
        BY <1>a, FieldWrites, Begins
      <3>3. \A q \in Proc : Writing(q)' => tab'[q] = table'
        BY <1>1, <2>0, <3>2, Begins
      <3>4. PICK g \in Gen : g = table
        BY <1>0
      <3>5. Present(table)' = PresentNext(g)
        BY <3>2, <3>4 DEF Present, PresentNext
      <3>6. count' = Cardinality(PresentNext(g)) /\ count' >= 0
        <4>1. CASE Count(p)
          <5>1. tab[p] = g
            BY <2>0, <3>4, <4>1, Begins
          <5> QED
            BY <2>0, <3>4, <4>1, <5>1, CountMoves
        <4>2. CASE ~Count(p)
          <5>1. PresentNext(g) = Present(g) /\ count' = count
            BY <3>2, <4>2, PresentStep, FieldWrites
          <5> QED
            BY <1>0, <2>0, <3>4, <5>1
        <4> QED
          BY <4>1, <4>2
      <3> QED
        BY <3>1, <3>3, <3>5, <3>6 DEF CountInv, CountExactUnlessRaced
    <2> QED
      BY <2>1, <2>2
  <1>b. ASSUME NEW r \in Proc, Clearing(r)
        PROVE  CountInv' /\ CountExactUnlessRaced'
    <2>0. /\ Present(tab[r]) = {}
          /\ pc[r] = "clearTable" => count = 0
          /\ pc[r] = "clearCount" => table = tab[r]
      BY <1>0, <1>b DEF CountInv
    <2>1. \A q \in Proc \ {r} : ~Clearing(q) /\ ~Writing(q)
      BY <1>0, <1>b DEF RacedInv
    <2>2. \A q \in Proc : ~Writing(q)
      BY <1>2, <1>b, <2>1
    <2>3. ~AnyBody(p) /\ ~Count(p)
      BY <2>2, Begins
    <2>4. \A g \in Gen : PresentNext(g) = Present(g)
      BY <2>3, PresentStep
    <2>5. Present(tab[r])' = PresentNext(tab'[r]) /\ Present(table)' = PresentNext(table')
      BY DEF Present, PresentNext
    <2>6. CASE p # r
      <3>1. ~Clearing(p) /\ ~Writing(p) /\ Clearing(r)'
        BY <1>1, <1>b, <2>1, <2>2, <2>6
      <3>2. count' = count /\ table' = table /\ tab'[r] = tab[r] /\ pc'[r] = pc[r]
        BY <1>1, <2>3, <2>6, <3>1, FieldWrites, Begins
      <3>3. \A q \in Proc : Clearing(q)' => q = r
        BY <3>1 DEF RacedInv
      <3>4. Present(tab[r])' = {}
        BY <1>0, <2>0, <2>4, <2>5, <3>2
      <3> QED
        BY <1>0, <2>0, <3>1, <3>2, <3>3, <3>4 DEF CountInv, CountExactUnlessRaced
    <2>7. CASE p = r
      <3>0. \A q \in Proc \ {p} : ~Clearing(q)' /\ ~Writing(q)'
        BY <1>1, <2>1, <2>7
      <3>1. ASSUME UNCHANGED frame, pc'[p] \in {"clearTable", "clearCount"}, count' >= 0,
                   pc'[p] = "clearTable" => count' = 0,
                   pc'[p] = "clearCount" => table' = tab[p]
            PROVE  CountInv' /\ CountExactUnlessRaced'
        <4>1. tab' = tab /\ Clearing(p)' /\ ~Writing(p)'
          BY <3>1 DEF frame, Clearing, Writing
        <4>2. Present(tab[p])' = {}
          BY <1>0, <2>0, <2>4, <2>5, <2>7, <4>1
        <4> QED
          BY <3>0, <3>1, <4>1, <4>2 DEF CountInv, CountExactUnlessRaced
      <3>2. ASSUME pc'[p] = "idle", count' = 0, table' = tab[p]
            PROVE  CountInv' /\ CountExactUnlessRaced'
        <4>1. ~Clearing(p)' /\ ~Writing(p)'
          BY <3>2 DEF Clearing, Writing
        <4>2. Present(table)' = {}
          BY <1>0, <2>0, <2>4, <2>5, <2>7, <3>2
        <4>3. Cardinality(Present(table)') = 0
          BY <4>2, FS_EmptySet
        <4> QED
          BY <3>0, <3>2, <4>1, <4>3 DEF CountInv, CountExactUnlessRaced
      <3>3. CASE WriteTable(p)
        <4>1. count' = count /\ table' = tab[p]
          BY <3>3 DEF WriteTable
        <4>2. CASE FirstWrite(p, "clearCount")
          BY <1>0, <3>1, <4>1, <4>2 DEF FirstWrite, Goto
        <4>3. CASE LastWrite(p, "clearTable")
          BY <1>0, <2>0, <2>7, <3>2, <4>1, <4>3 DEF LastWrite, Goto
        <4> QED
          BY <3>3, <4>2, <4>3 DEF WriteTable
      <3>4. CASE WriteCount(p)
        <4>1. count' = 0 /\ table' = table
          BY <3>4 DEF WriteCount
        <4>2. CASE FirstWrite(p, "clearTable")
          BY <1>0, <3>1, <4>1, <4>2 DEF FirstWrite, Goto
        <4>3. CASE LastWrite(p, "clearCount")
          BY <1>0, <2>0, <2>7, <3>2, <4>1, <4>3 DEF LastWrite, Goto
        <4> QED
          BY <3>4, <4>2, <4>3 DEF WriteCount
      <3> QED
        BY <1>b, <2>7, <3>3, <3>4, Begins
    <2> QED
      BY <2>6, <2>7
  <1> QED
    BY <1>a, <1>b

-----------------------------------------------------------------------------
(* What a step of p does to a Keys of p.                                   *)
LEMMA KeysSteps ==
  ASSUME IInv, NEW p \in Proc, Mine(p)
  PROVE  \/ ~InKeys(p)'
         \/ /\ ~InKeys(p) /\ InKeys(p)' /\ ~Scanning(p)' /\ ret'[p] = count
            /\ UNCHANGED <<table, count>>
            /\ KeysLen(p)
         \/ /\ InKeys(p) /\ InKeys(p)' /\ pc[p] = "scan" /\ ret' = ret /\ tab'[p] = table
            /\ pc'[p] = "rlock" /\ UNCHANGED <<table, count>>
            /\ ~Scanning(p)
         \/ /\ InKeys(p) /\ InKeys(p)' /\ Scanning(p) /\ Scanning(p)' /\ ret'[p] = ret[p]
            /\ tab'[p] = tab[p] /\ pc'[p] # "scan" /\ UNCHANGED <<table, count>>
  <1>0. /\ pc \in [Proc -> Place] /\ call \in [Proc -> Frame] /\ CallInv(p)
        /\ ret \in [Proc -> Val \cup {Absent} \cup Int] /\ tab \in [Proc -> Gen]
    BY DEF IInv, TypeOK
  <1> USE DEF InKeys, Scanning, Op, ScanOps
  <1>1. CASE \E c \in Calls : StartKeyed(p, c)
    BY <1>0, <1>1 DEF StartKeyed, Goto, Calls
  <1>2. CASE \/ \E c \in Scans : ForEach(p, c)
             \/ ReadLen(p) \/ Clear(p)
    BY <1>0, <1>2 DEF ForEach, Scans, ReadLen, Clear, Goto, Bare
  <1>3. CASE KeysLen(p)
    BY <1>0, <1>3 DEF KeysLen, Goto, Bare, shared, CallInv, NoCall
  <1>4. CASE Lock(p) \/ Drain(p) \/ Count(p)
    BY <1>0, <1>4 DEF Lock, Drain, Count, frame, Goto, CallInv, KeyedOps
  <1>5. CASE RLock(p) \/ GetBody(p) \/ Visit(p)
    BY <1>0, <1>5 DEF RLock, GetBody, Visit, frame, shared, Goto
  <1>6. CASE KeysScan(p)
    BY <1>0, <1>6 DEF KeysScan, shared, Goto
  <1>7. CASE AnyBody(p)
    <2>1. pc[p] = "body" /\ call' = call
      BY <1>7 DEF AnyBody, PutBody, PutIfAbsentBody, PutIfExistsBody, RemoveBody, Body, Goto
    <2> QED
      BY <1>0, <2>1 DEF CallInv, KeyedOps
  <1>8. CASE Unlock(p) \/ Return(p)
    BY <1>0, <1>8 DEF Unlock, Return, Goto
  <1>9. CASE RUnlock(p)
    BY <1>0, <1>9 DEF RUnlock, Goto
  <1>10. CASE WriteTable(p) \/ WriteCount(p)
    <2>1. CASE FirstWrite(p, "clearTable") \/ FirstWrite(p, "clearCount")
      <3>1. pc[p] = "clear" /\ call' = call
        BY <2>1 DEF FirstWrite, Goto, frame
      <3> QED
        BY <1>0, <3>1 DEF CallInv
    <2> QED
      BY <1>0, <1>10, <2>1 DEF WriteTable, WriteCount, LastWrite, Goto
  <1> QED
    BY <1>1, <1>2, <1>3, <1>4, <1>5, <1>6, <1>7, <1>8, <1>9, <1>10
    DEF Mine, Start, Acquire, Step, AnyBody

-----------------------------------------------------------------------------
(* While nothing goes away, the keys of the current table only grow.       *)
LEMMA OnlyGrows ==
  ASSUME IInv, IInv', NEW p \in Proc, Mine(p), CountInv, ~raced,
         \A q \in Proc : ~Clearing(q), ~(count' < count)
  PROVE  table' = table /\ Present(table) \subseteq PresentNext(table)
  <1>0. /\ count \in Int /\ count' \in Int /\ table \in Gen
        /\ \A q \in Proc : Writing(q) => tab[q] = table
    BY DEF IInv, TypeOK, CountInv
  <1>1. table' = table
    BY FieldWrites, Begins
  <1>2. PICK g \in Gen : g = table
    BY <1>0
  <1>3. CASE Count(p)
    <2>1. tab[p] = g
      BY <1>0, <1>2, <1>3, Begins
    <2> QED
      BY <1>0, <1>1, <1>2, <1>3, <2>1, CountMoves
  <1>4. CASE ~Count(p)
    BY <1>1, <1>2, <1>4, PresentStep
  <1> QED
    BY <1>3, <1>4

LEMMA KeysStep ==
  ASSUME IInv, IInv', HistoryType, NEW p \in Proc, Mine(p), NEW q \in Proc,
         ~raced' => ~raced, CountInv, CountExactUnlessRaced', KeysInv(q), ScanInv(q),
         shrunk'[q] = ShrunkNext(q), always'[q] = AlwaysNext(q)
  PROVE  KeysInv(q)'
  <1> SUFFICES ASSUME InKeys(q)' PROVE KeysInv(q)'
    BY DEF KeysInv
  <1>0. /\ count \in Int /\ count' \in Int /\ (~raced => count >= 0)
        /\ pc[q] \in Place /\ shrunk[q] \in BOOLEAN
    BY DEF IInv, TypeOK, CountInv, HistoryType
  <1>1. (\E r \in Proc : Clearing(r)') => shrunk'[q]
    BY DEF ShrunkNext
  <1>2. ASSUME InKeys(q), ~raced', ~shrunk'[q]
        PROVE  /\ ~raced /\ ~shrunk[q] /\ ~(count' < count)
               /\ \A r \in Proc : ~Clearing(r) /\ ~Clearing(r)'
               /\ pc[q] = "scan" => ret[q] <= count
               /\ Scanning(q) => tab[q] = table /\ ret[q] <= Cardinality(always[q])
    <2>1. ~shrunk[q] /\ ~(count' < count)
      BY <1>2 DEF ShrunkNext
    <2> QED
      BY <1>1, <1>2, <2>1 DEF KeysInv
  <1>3. ASSUME InKeys(q), ~raced', ~shrunk'[q], Scanning(q), Scanning(q)',
               tab'[q] = tab[q], ret'[q] = ret[q]
        PROVE  tab'[q] = table' /\ ret'[q] <= Cardinality(always'[q])
    <2>1. /\ tab[q] = table /\ ret[q] <= Cardinality(always[q])
          /\ table' = table /\ Present(table) \subseteq PresentNext(table)
      BY <1>2, <1>3, OnlyGrows
    <2>2. always'[q] = always[q] \cap Present(tab[q])'
      BY <1>3 DEF AlwaysNext
    <2>3. Present(tab[q])' = PresentNext(table)
      BY <1>3, <2>1 DEF Present, PresentNext
    <2>4. always[q] \subseteq Present(table)
      BY <1>3, <2>1 DEF ScanInv
    <2>5. always'[q] = always[q]
      BY <2>1, <2>2, <2>3, <2>4
    <2> QED
      BY <1>3, <2>1, <2>5
  <1>4. CASE q # p
    <2>1. /\ InKeys(q) /\ (Scanning(q)' <=> Scanning(q))
          /\ pc'[q] = pc[q] /\ tab'[q] = tab[q] /\ ret'[q] = ret[q]
      BY <1>4, ScanOthers
    <2>2. ret'[q] \in Int /\ (~raced' => ret'[q] >= 0)
      BY <2>1 DEF KeysInv
    <2>3. ~raced' /\ ~shrunk'[q] /\ pc'[q] = "scan" => ret'[q] <= count'
      BY <1>0, <1>2, <2>1, <2>2
    <2>4. ~raced' /\ ~shrunk'[q] /\ Scanning(q)' =>
            tab'[q] = table' /\ ret'[q] <= Cardinality(always'[q])
      BY <1>3, <2>1
    <2> QED
      BY <1>1, <2>2, <2>3, <2>4 DEF KeysInv
  <1>5. CASE q = p
    <2>1. CASE /\ ~InKeys(p) /\ InKeys(p)' /\ ~Scanning(p)' /\ ret'[p] = count
               /\ UNCHANGED <<table, count>>
      <3>1. /\ ret'[q] \in Int /\ (~raced' => ret'[q] >= 0) /\ ret'[q] <= count'
            /\ ~Scanning(q)'
        BY <1>0, <1>5, <2>1
      <3> QED
        BY <1>1, <3>1 DEF KeysInv
    <2>2. CASE /\ InKeys(p) /\ InKeys(p)' /\ pc[p] = "scan" /\ ret' = ret /\ tab'[p] = table
               /\ pc'[p] = "rlock" /\ UNCHANGED <<table, count>>
               /\ ~Scanning(p)
      <3>1. ret'[q] \in Int /\ (~raced' => ret'[q] >= 0) /\ pc'[q] # "scan" /\ Scanning(q)'
        BY <1>5, <2>2 DEF KeysInv, InKeys, Scanning, ScanOps
      <3>2. ASSUME ~raced', ~shrunk'[q]
            PROVE  tab'[q] = table' /\ ret'[q] <= Cardinality(always'[q])
        <4>1. ret[q] <= count /\ \A r \in Proc : ~Clearing(r)'
          BY <1>2, <1>5, <2>2, <3>2
        <4>2. count' = Cardinality(Present(table)')
          BY <3>2, <4>1 DEF CountExactUnlessRaced
        <4>3. always'[q] = Present(tab[q])'
          BY <1>5, <2>2, <3>1 DEF AlwaysNext
        <4>4. tab'[q] = table'
          BY <1>5, <2>2
        <4>5. Present(tab[q])' = Present(table)'
          BY <4>4 DEF Present
        <4> QED
          BY <1>5, <2>2, <4>1, <4>2, <4>3, <4>4, <4>5
      <3> QED
        BY <1>1, <3>1, <3>2 DEF KeysInv
    <2>3. CASE /\ InKeys(p) /\ InKeys(p)' /\ Scanning(p) /\ Scanning(p)' /\ ret'[p] = ret[p]
               /\ tab'[p] = tab[p] /\ pc'[p] # "scan" /\ UNCHANGED <<table, count>>
      <3>1. ret'[q] \in Int /\ (~raced' => ret'[q] >= 0)
        BY <1>5, <2>3 DEF KeysInv
      <3> QED
        BY <1>1, <1>3, <1>5, <2>3, <3>1 DEF KeysInv
    <2> QED
      BY <1>5, <2>1, <2>2, <2>3, KeysSteps
  <1> QED
    BY <1>4, <1>5

-----------------------------------------------------------------------------
LEMMA HInvInit == HInit => HInv
  <1> SUFFICES ASSUME HInit PROVE HInv
    OBVIOUS
  <1>0. Init /\ IInv
    BY InvInit DEF HInit
  <1>1. \A p \in Proc : pc[p] = "idle" /\ call[p] = NoCall /\ seen[p] = {}
    BY <1>0 DEF Init
  <1>2. \A p \in Proc : /\ ~Clearing(p) /\ ~Writing(p) /\ ~Scanning(p) /\ ~InKeys(p)
    BY <1>1 DEF Clearing, Writing, Scanning, InKeys
  <1>3. \A g \in Gen : Present(g) = {}
    <2>1. EffectiveFacts
      BY <1>0, EffectiveLemma
    <2>2. \A g \in Gen, k \in Key : Uncounted(g, k) = {} /\ m[g][k] = Absent
      BY <1>0, <1>1 DEF Init, Uncounted
    <2> QED
      BY <2>1, <2>2 DEF Present, EffectiveFacts
  <1>4. count = 0 /\ table \in Gen
    BY <1>0 DEF Init, IInv, TypeOK
  <1>5. CountExactUnlessRaced
    BY <1>3, <1>4, FS_EmptySet DEF CountExactUnlessRaced
  <1>6. HistoryType
    BY DEF HInit, HistoryType
  <1> QED
    BY <1>0, <1>1, <1>2, <1>3, <1>4, <1>5, <1>6
    DEF HInv, FreshInv, RacedInv, CountInv, ScanInv, KeysInv, ScanSound

LEMMA HInvStep == HInv /\ [HNext]_hvars => HInv'
  <1> SUFFICES ASSUME HInv, [HNext]_hvars PROVE HInv'
    OBVIOUS
  <1>1. IInv'
    BY InvStep DEF HInv, HNext, hvars
  <1>2. CASE UNCHANGED hvars
    <2>1. UNCHANGED vars /\ UNCHANGED history
      BY <1>2 DEF hvars
    <2>2. /\ \A p : /\ Clearing(p)' = Clearing(p) /\ Writing(p)' = Writing(p)
                    /\ Scanning(p)' = Scanning(p) /\ InKeys(p)' = InKeys(p)
                    /\ Visited(p)' = Visited(p) /\ Op(p)' = Op(p)
          /\ Effective' = Effective
      BY <2>1 DEF vars, Clearing, Writing, Scanning, InKeys, Visited, Op, Effective, Uncounted
    <2>3. /\ \A g : Present(g)' = Present(g)
          /\ \A p : Present(tab[p])' = Present(tab[p])
          /\ Present(table)' = Present(table)
      BY <2>1, <2>2 DEF Present, vars
    <2>4. HistoryType' /\ FreshInv' /\ RacedInv'
      BY <2>1, <2>2, <2>3 DEF HInv, HistoryType, FreshInv, RacedInv, vars, history
    <2>5. CountInv' /\ CountExactUnlessRaced'
      BY <2>1, <2>2, <2>3 DEF HInv, CountInv, CountExactUnlessRaced, vars, history
    <2>6. ScanSound' /\ \A p \in Proc : ScanInv(p)'
      BY <2>1, <2>2, <2>3 DEF HInv, ScanSound, ScanInv, vars, history
    <2>7. \A p \in Proc : KeysInv(p)'
      BY <2>1, <2>2, <2>3 DEF HInv, KeysInv, vars, history
    <2> QED
      BY <1>1, <2>4, <2>5, <2>6, <2>7 DEF HInv
  <1>3. CASE HNext
    <2>0. /\ IInv /\ HistoryType /\ FreshInv /\ RacedInv /\ CountInv /\ CountExactUnlessRaced
          /\ \A q \in Proc : ScanInv(q) /\ KeysInv(q) /\ SoundFor(q)
      BY DEF HInv, ScanSound, SoundFor
    <2>1. PICK p \in Proc : Mine(p)
      BY <1>3 DEF HNext, Next, Mine
    <2>2. \A q \in Proc : /\ ever'[q] = EverNext(q) /\ always'[q] = AlwaysNext(q)
                          /\ shrunk'[q] = ShrunkNext(q)
      BY <1>3 DEF HNext
    <2>3. RacedInv' /\ (~raced' => ~raced)
      BY <1>3, <2>0, RacedStep DEF HNext
    <2>4. FreshInv'
      BY <1>1, <2>0, <2>1, FreshStep
    <2>5. CountInv' /\ CountExactUnlessRaced'
      BY <1>1, <2>0, <2>1, <2>3, CountStep
    <2>6. \A q \in Proc : ScanInv(q)' /\ SoundFor(q)'
      BY <1>1, <2>0, <2>1, <2>2, ScanStep
    <2>7. \A q \in Proc : KeysInv(q)'
      BY <1>1, <2>0, <2>1, <2>2, <2>3, <2>5, KeysStep
    <2>8. HistoryType'
      <3>1. \A q \in Proc : Present(tab[q])' \subseteq Key
        BY DEF Present
      <3>2. \A q \in Proc : EverNext(q) \in SUBSET Key /\ AlwaysNext(q) \in SUBSET Key
        BY <2>0, <3>1 DEF EverNext, AlwaysNext, HistoryType
      <3>3. \A q \in Proc : ShrunkNext(q) \in BOOLEAN
        BY DEF ShrunkNext
      <3>4. raced' \in BOOLEAN
        BY <1>3 DEF HNext, RacedNext
      <3>5. /\ ever' \in [Proc -> SUBSET Key] /\ always' \in [Proc -> SUBSET Key]
        BY <1>3, <3>2 DEF HNext
      <3>6. shrunk' \in [Proc -> BOOLEAN]
        BY <1>3, <3>3 DEF HNext
      <3> QED
        BY <3>4, <3>5, <3>6 DEF HistoryType
    <2>9. ScanSound'
      BY <2>6 DEF ScanSound, SoundFor
    <2> QED
      BY <1>1, <2>3, <2>4, <2>5, <2>6, <2>7, <2>8, <2>9 DEF HInv
  <1> QED
    BY <1>2, <1>3

(* The invariant of the dict and of the history of its scans and Clears.   *)
THEOREM HistoryInvariance == HSpec => []HInv
  BY HInvInit, HInvStep, PTL DEF HSpec

(* Whatever else runs, Clears included: a scan that is not told to stop    *)
(* misses no key that was there all the time, and no scan makes one up.    *)
THEOREM ScansAreSound == HSpec => []ScanSound
  <1>1. HInv => ScanSound
    BY DEF HInv
  <1> QED
    BY <1>1, HistoryInvariance, PTL

(* dict.count is the number of keys of the current table whenever no Clear *)
(* runs and none has overlapped a writer or another Clear.                 *)
THEOREM CountSurvivesClears == HSpec => []CountExactUnlessRaced
  <1>1. HInv => CountExactUnlessRaced
    BY DEF HInv
  <1> QED
    BY <1>1, HistoryInvariance, PTL

(* Without a Clear that raced, Keys never panics on its make, and a blank  *)
(* in its answer means that keys went away while it ran.                   *)
LEMMA SlotsFilled == HInv => KeysSlots
  <1> SUFFICES ASSUME HInv, NEW p \in Proc, InKeys(p), ~raced, Blank(p), ~shrunk[p]
               PROVE  FALSE
    BY DEF KeysSlots, HInv, KeysInv
  <1>1. /\ Scanning(p) /\ Op(p) = "Keys" /\ ret[p] \in Int
        /\ always[p] \in SUBSET Key /\ seen[p] \in SUBSET Key
        /\ \A k \in Key : ShardOf[k] \in 1..NShard
    BY ShardAssumption
    DEF Blank, InKeys, Scanning, ScanOps, HInv, KeysInv, IInv, TypeOK, HistoryType
  <1>2. ret[p] <= Cardinality(always[p])
    BY <1>1 DEF HInv, KeysInv
  <1>3. Visited(p) = Key
    BY <1>1, ShardAssumption DEF Blank, Visited
  <1>4. always[p] \subseteq seen[p]
    BY <1>1, <1>3 DEF HInv, ScanSound
  <1>5. IsFiniteSet(seen[p]) /\ IsFiniteSet(always[p])
    BY <1>1, DataAssumption, FS_Subset
  <1>6. Cardinality(always[p]) <= Cardinality(seen[p])
    BY <1>4, <1>5, FS_Subset
  <1> QED
    BY <1>1, <1>2, <1>5, <1>6, FS_CardinalityType DEF Blank

THEOREM KeysFillsItsSlots == HSpec => []KeysSlots
  BY SlotsFilled, HistoryInvariance, PTL
=============================================================================
