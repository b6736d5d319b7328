--------------------------- MODULE CacheTableProofs ---------------------------
(***************************************************************************)
(* Proofs about CacheTable for any number of goroutines, keys and items:   *)
(* the table is not written while a check ranges over it, no timer is lost *)
(* and no item is looked at too late.                                      *)
(***************************************************************************)
EXTENDS CacheTable, TLAPS, FiniteSetTheorems

-----------------------------------------------------------------------------
(* The inductive invariant. *)

Made(i) == info[i] \in CacheItem

\* Only items that were made are stored, or ranged over after a Flush.
StoredMade ==
  /\ \A k \in Keys : items[k] # NoItem => Made(items[k])
  /\ \A p \in Procs : check[p] # NoCheck /\ check[p].flushed # NotFlushed =>
       \A k \in Keys : check[p].flushed[k] # NoItem => Made(check[p].flushed[k])

\* A goroutine knows the key and the item it is busy with.
LocalsKnown == \A p \in Procs :
  /\ pc[p] \in {"add", "addNew", "load", "delete", "expire", "remove"} =>
       key[p] \in Keys
  /\ pc[p] \in {"add", "keep", "expire", "remove"} =>
       item[p] \in Items /\ Made(item[p])
  /\ pc[p] = "loop" => check[p] \in Check

\* The readers of a lock can be counted.
ReadersFinite ==
  /\ IsFiniteSet(lock.readers)
  /\ \A i \in Items : IsFiniteSet(itemLock[i].readers)

\* A check that ranges over the items has the table's lock; a reader is counted as
\* one, and none passes a writer before a lock was released by mistake.
LoopHasTable ==
  /\ \A p \in Procs : pc[p] = "loop" => Acquired(lock, p)
  /\ \A p \in Procs : pc[p] = "exists" => p \in lock.readers
  /\ lock.hung = {} => lock.spare = 0

\* Nothing is stored or accessed in the future.
InThePast == \A i \in Items : Made(i) =>
  info[i].accessedOn <= now /\ info[i].storedOn <= now

Checking == \E p \in Procs : pc[p] = "check" \/ check[p] # NoCheck

\* The range of a check that nobody has interrupted: no timer is set, and what it
\* has visited expires after the time to the next check.
RangeExact(p) ==
  /\ cleanupTimer = 0
  /\ check[p].flushed = NotFlushed
  /\ check[p].since = now
  /\ \A k \in Keys : (items[k] # NoItem /\ info[items[k]].lifeSpan > 0) =>
       \/ check[p].left[k] = "must"
       \/ /\ check[p].smallest > 0
          /\ now + check[p].smallest <= LatestEnd(items[k])

\* As long as no lock of an item is broken, no check is interrupted and goes on,
\* and a check is due within the interval.
TimerExact == ItemLocksSound =>
  /\ \A p \in Procs : pc[p] = "loop" => RangeExact(p)
  /\ cleanupInterval > 0 =>
       cleanupTimer \in 1 .. now + cleanupInterval \/ Checking

LockInv == TypeOK /\ StoredMade /\ LocalsKnown /\ ReadersFinite /\ LoopHasTable

CacheInv == LockInv /\ InThePast /\ TimerExact /\ OneTimer /\ ExpiryInTime

-----------------------------------------------------------------------------
(* The mutex. *)

LEMMA AnnounceMutex ==
  ASSUME NEW m \in Mutex, NEW p \in Procs
  PROVE  /\ Announce(m, p) \in Mutex /\ Announce(m, p).w = p
         /\ Announce(m, p).readers = m.readers /\ Announce(m, p).hung = m.hung
         /\ Announce(m, p).spare = m.spare
BY DEF Mutex, Announce

LEMMA UnlockMutex ==
  ASSUME NEW m \in Mutex
  PROVE  /\ Unlock(m) \in Mutex /\ Unlock(m).w = None
         /\ Unlock(m).readers = m.readers /\ Unlock(m).hung = m.hung
         /\ Unlock(m).spare = m.spare
BY DEF Mutex, Unlock

LEMMA PassReadMutex ==
  ASSUME NEW m \in Mutex, CanRead(m)
  PROVE  /\ PassRead(m) \in Mutex /\ PassRead(m).w = m.w
         /\ PassRead(m).readers = m.readers /\ PassRead(m).hung = m.hung
         /\ PassRead(m).spare <= m.spare
         /\ m.spare = 0 => m.w = None /\ PassRead(m).spare = 0
<1>1. CASE m.w = None
  BY <1>1 DEF Mutex, PassRead
<1>2. CASE m.w # None
  BY <1>2 DEF Mutex, PassRead, CanRead
<1>3. QED BY <1>1, <1>2

LEMMA RLockMutex ==
  ASSUME NEW m \in Mutex, NEW p \in Procs, CanRead(m), IsFiniteSet(m.readers)
  PROVE  /\ RLock(m, p) \in Mutex /\ RLock(m, p).w = m.w
         /\ RLock(m, p).readers = m.readers \cup {p} /\ RLock(m, p).hung = m.hung
         /\ m.spare = 0 => m.w = None /\ RLock(m, p).spare = 0
         /\ IsFiniteSet(RLock(m, p).readers)
<1>1. /\ PassRead(m) \in Mutex /\ PassRead(m).w = m.w
      /\ PassRead(m).readers = m.readers /\ PassRead(m).hung = m.hung
      /\ m.spare = 0 => m.w = None /\ PassRead(m).spare = 0
  BY PassReadMutex
<1>2. IsFiniteSet(m.readers \cup {p})
  BY FS_AddElement
<1>3. QED BY <1>1, <1>2 DEF Mutex, RLock

\* A lock that a reader releases by mistake has a writer that waits for ever.
LEMMA UnlockReaderMutex ==
  ASSUME NEW m \in Mutex, NEW p \in Procs, ~UnlockIsFatal(m), IsFiniteSet(m.readers)
  PROVE  /\ UnlockReader(m, p) \in Mutex /\ UnlockReader(m, p).w = None
         /\ UnlockReader(m, p).readers = m.readers \ {p}
         /\ m.hung \subseteq UnlockReader(m, p).hung
         /\ UnlockReader(m, p).hung # {}
         /\ IsFiniteSet(UnlockReader(m, p).readers)
<1>1. m.w \in Procs
  BY DEF Mutex, UnlockIsFatal
<1>2. Cardinality(m.readers) \in Nat /\ IsFiniteSet(m.readers \ {p})
  BY FS_CardinalityType, FS_RemoveElement
<1>3. m.spare + Cardinality(m.readers) \in Nat
  BY <1>2 DEF Mutex
<1>4. QED BY <1>1, <1>2, <1>3 DEF Mutex, UnlockReader

-----------------------------------------------------------------------------
(* Initially, and by what only time and the items do. *)

LEMMA LockInit == Init => LockInv
<1> SUFFICES ASSUME Init PROVE LockInv
  OBVIOUS
<1>1. Unlocked \in Mutex /\ IsFiniteSet(Unlocked.readers)
  BY FS_EmptySet DEF Unlocked, Mutex
<1>2. TypeOK
  <2>1. 0 \in 0 .. MaxTime /\ 0 \in 0 .. MaxTime + MaxLife
    BY CacheAssumption
  <2>2. items \in Table /\ info \in [Items -> CacheItem \cup {NoItem}]
    BY DEF Init, Table
  <2>3. lock \in Mutex /\ itemLock \in [Items -> Mutex]
    BY <1>1 DEF Init
  <2>4. /\ cleanupTimer \in Times \cup {0} /\ strayTimers \in [Times -> Nat]
    BY DEF Init
  <2>5. /\ pc \in [Procs -> Places] /\ key \in [Procs -> Keys \cup {None}]
        /\ item \in [Procs -> Items \cup {NoItem}]
        /\ check \in [Procs -> Check \cup {NoCheck}]
    BY DEF Init, Places
  <2>6. QED BY <2>1, <2>2, <2>3, <2>4, <2>5 DEF Init, TypeOK
<1>3. StoredMade
  BY DEF Init, StoredMade
<1>4. LocalsKnown
  BY DEF Init, LocalsKnown
<1>5. ReadersFinite /\ LoopHasTable
  BY <1>1 DEF Init, ReadersFinite, LoopHasTable, Unlocked
<1>6. QED BY <1>2, <1>3, <1>4, <1>5 DEF LockInv

\* A new item takes the place of none.
LEMMA NewItemMade ==
  ASSUME TypeOK, NEW i \in Items, NEW life \in Lives, NewCacheItem(i, life)
  PROVE  /\ info' \in [Items -> CacheItem \cup {NoItem}]
         /\ info'[i] = [lifeSpan |-> life, accessedOn |-> now, storedOn |-> now]
         /\ Made(i)' /\ ~Made(i)
         /\ \A j \in Items \ {i} : info'[j] = info[j]
<1> DEFINE new == [lifeSpan |-> life, accessedOn |-> now, storedOn |-> now]
<1>1. new \in CacheItem
  BY DEF TypeOK, CacheItem
<1>2. info' = [info EXCEPT ![i] = new] /\ info[i] = NoItem
  BY DEF NewCacheItem
<1> HIDE DEF new
<1>3. info' \in [Items -> CacheItem \cup {NoItem}] /\ info'[i] = new
      /\ \A j \in Items \ {i} : info'[j] = info[j]
  BY <1>1, <1>2 DEF TypeOK
<1>4. QED BY <1>1, <1>2, <1>3, NoItemAssumption DEF Made, new

-----------------------------------------------------------------------------
(* Types. *)

LEMMA ReturnTypes ==
  ASSUME TypeOK, NEW p \in Procs, Return(p)
  PROVE  /\ pc' \in [Procs -> Places]
         /\ key' \in [Procs -> Keys \cup {None}]
         /\ item' \in [Procs -> Items \cup {NoItem}]
BY DEF TypeOK, Return, Goto, Places

LEMMA AddInternalTypes ==
  ASSUME TypeOK, NEW p \in Procs, NEW i \in Items, NEW k \in Keys, NEW life,
         addInternal(p, i, k, life)
  PROVE  /\ items' \in Table /\ lock' \in Mutex
         /\ pc' \in [Procs -> Places]
         /\ key' \in [Procs -> Keys \cup {None}]
         /\ item' \in [Procs -> Items \cup {NoItem}]
         /\ UNCHANGED <<itemLock, timing, now, check, crashed>>
<1>1. items' \in Table
  BY DEF TypeOK, addInternal, Table
<1>2. lock' \in Mutex
  BY UnlockMutex DEF TypeOK, addInternal
<1>3. CASE Return(p)
  BY <1>1, <1>2, <1>3, ReturnTypes DEF addInternal
<1>4. CASE ~Return(p)
  BY <1>1, <1>2, <1>4 DEF TypeOK, addInternal, Goto, Places, Writers
<1>5. QED BY <1>3, <1>4

LEMMA BeginAddTypes ==
  ASSUME TypeOK, NEW p \in Procs, NEW k \in Keys, BeginAdd(p, k)
  PROVE  TypeOK'
<1>1. PICK i \in Items, life \in Lives :
        NewCacheItem(i, life) /\ item' = [item EXCEPT ![p] = i]
  BY DEF BeginAdd
<1>2. info' \in [Items -> CacheItem \cup {NoItem}]
  BY <1>1, NewItemMade
<1>3. /\ pc' \in [Procs -> Places] /\ key' \in [Procs -> Keys \cup {None}]
      /\ item' \in [Procs -> Items \cup {NoItem}]
  BY <1>1 DEF TypeOK, BeginAdd, Goto, Places, Writers
<1>4. QED BY <1>2, <1>3 DEF TypeOK, BeginAdd, timing

LEMMA AddTypes ==
  ASSUME LockInv, NEW p \in Procs,
         \/ Add(p) \/ EndAdd(p) \/ EndNotFoundAdd(p) \/ Loaded(p)
  PROVE  TypeOK'
<1> USE DEF LockInv
<1>1. CASE Add(p)
  BY <1>1, BeginAddTypes DEF Add
<1>2. CASE Loaded(p)
  BY <1>2, BeginAddTypes DEF Loaded, LocalsKnown
<1>3. CASE EndAdd(p)
  <2>1. item[p] \in Items /\ key[p] \in Keys /\ info[item[p]] \in CacheItem
    BY <1>3 DEF EndAdd, HasTable, LocalsKnown, Made
  <2>2. addInternal(p, item[p], key[p], info[item[p]].lifeSpan)
    BY <1>3 DEF EndAdd
  <2>3. info' \in [Items -> CacheItem \cup {NoItem}]
    <3>1. [info[item[p]] EXCEPT !.storedOn = now] \in CacheItem
      BY <2>1 DEF TypeOK, CacheItem
    <3>2. info' = [info EXCEPT ![item[p]] = [info[item[p]] EXCEPT !.storedOn = now]]
      BY <1>3 DEF EndAdd
    <3>3. QED BY <3>1, <3>2 DEF TypeOK
  <2>4. QED BY <2>1, <2>2, <2>3, AddInternalTypes DEF TypeOK, timing
<1>4. CASE EndNotFoundAdd(p)
  <2>1. key[p] \in Keys
    BY <1>4 DEF EndNotFoundAdd, HasTable, LocalsKnown
  <2>2. CASE /\ lock' = Unlock(lock) /\ Return(p)
             /\ UNCHANGED <<items, info, itemLock, timing, now, check, crashed>>
    BY <2>2, UnlockMutex, ReturnTypes DEF TypeOK, timing
  <2>3. ASSUME NEW i \in Items, NEW life \in Lives, NewCacheItem(i, life),
               addInternal(p, i, key[p], life)
        PROVE  TypeOK'
    <3>1. info' \in [Items -> CacheItem \cup {NoItem}]
      BY <2>3, NewItemMade
    <3>2. QED BY <2>1, <2>3, <3>1, AddInternalTypes DEF TypeOK, timing
  <2>4. QED BY <1>4, <2>2, <2>3 DEF EndNotFoundAdd
<1>5. QED BY <1>1, <1>2, <1>3, <1>4

LEMMA LockTypes ==
  ASSUME LockInv, NEW p \in Procs,
         \/ LockTable(p) \/ NotFoundAdd(p) \/ Delete(p) \/ Flush(p)
         \/ LockItem(p) \/ Exists(p) \/ EndExists(p) \/ ReadLockItem(p)
  PROVE  TypeOK'
<1> USE DEF LockInv
<1>1. CASE LockTable(p)
  BY <1>1, AnnounceMutex DEF TypeOK, LockTable, timing, locals
<1>2. CASE NotFoundAdd(p) \/ Delete(p)
  <2>1. PICK place \in {"addNew", "delete"} : BeginCall(p, place)
    BY <1>2 DEF NotFoundAdd, Delete
  <2>2. lock' \in Mutex
    BY <2>1, AnnounceMutex DEF TypeOK, BeginCall
  <2>3. pc' \in [Procs -> Places] /\ key' \in [Procs -> Keys \cup {None}]
    BY <2>1 DEF TypeOK, BeginCall, Goto, Places
  <2>4. QED BY <2>1, <2>2, <2>3 DEF TypeOK, BeginCall, timing
<1>3. CASE Flush(p)
  <2>1. lock' \in Mutex
    BY <1>3, AnnounceMutex DEF TypeOK, Flush
  <2>2. QED BY <1>3, <2>1 DEF TypeOK, Flush, Goto, Places, timing, locals
<1>4. CASE LockItem(p)
  <2>1. item[p] \in Items
    BY <1>4 DEF LockItem, LocalsKnown
  <2>2. Announce(itemLock[item[p]], p) \in Mutex
    BY <2>1, AnnounceMutex DEF TypeOK
  <2>3. itemLock' = [itemLock EXCEPT ![item[p]] = Announce(itemLock[item[p]], p)]
    BY <1>4 DEF LockItem
  <2>4. QED BY <1>4, <2>1, <2>2, <2>3 DEF TypeOK, LockItem, timing, locals
<1>5. CASE Exists(p)
  <2>1. lock' \in Mutex
    BY <1>5, RLockMutex DEF TypeOK, Exists, ReadersFinite
  <2>2. QED BY <1>5, <2>1 DEF TypeOK, Exists, Goto, Places, timing, locals
<1>6. CASE EndExists(p)
  <2>1. lock' \in Mutex /\ pc' \in [Procs -> Places] /\ crashed' \in BOOLEAN
    <3>1. CASE UnlockIsFatal(lock)
      BY <1>6, <3>1 DEF TypeOK, EndExists
    <3>2. CASE ~UnlockIsFatal(lock)
      BY <1>6, <3>2, UnlockReaderMutex
      DEF TypeOK, EndExists, ReadersFinite, Goto, Places
    <3>3. QED BY <3>1, <3>2
  <2>2. QED BY <1>6, <2>1 DEF TypeOK, EndExists, timing, locals
<1>7. CASE ReadLockItem(p)
  <2>1. item[p] \in Items
    BY <1>7 DEF ReadLockItem, LocalsKnown
  <2>2. RLock(itemLock[item[p]], p) \in Mutex
    BY <1>7, <2>1, RLockMutex DEF TypeOK, ReadLockItem, ReadersFinite
  <2>3. itemLock' = [itemLock EXCEPT ![item[p]] = RLock(itemLock[item[p]], p)]
    BY <1>7 DEF ReadLockItem
  <2>4. itemLock' \in [Items -> Mutex]
    BY <2>1, <2>2, <2>3 DEF TypeOK
  <2>5. pc' \in [Procs -> Places]
    BY <1>7 DEF TypeOK, ReadLockItem, Goto, Places, Writers
  <2>6. QED BY <1>7, <2>4, <2>5 DEF TypeOK, ReadLockItem, timing, locals
<1>8. QED BY <1>1, <1>2, <1>3, <1>4, <1>5, <1>6, <1>7

LEMMA ReadTypes ==
  ASSUME LockInv, NEW p \in Procs,
         Value(p) \/ KeepAlive(p) \/ NotLoaded(p) \/ BeginDelete(p)
  PROVE  TypeOK'
<1> USE DEF LockInv
<1>1. CASE Value(p)
  <2>1. PICK k \in Keys :
          /\ key' = [key EXCEPT ![p] = k]
          /\ item' = [item EXCEPT ![p] = items[k]]
          /\ Goto(p, IF items[k] # NoItem THEN "keep" ELSE "load")
    BY <1>1 DEF Value
  <2>2. lock' \in Mutex
    BY <1>1, PassReadMutex DEF TypeOK, Value
  <2>3. items[k] \in Items \cup {NoItem}
    BY DEF TypeOK, Table
  <2>4. /\ pc' \in [Procs -> Places] /\ key' \in [Procs -> Keys \cup {None}]
        /\ item' \in [Procs -> Items \cup {NoItem}]
    BY <2>1, <2>3 DEF TypeOK, Goto, Places
  <2>5. QED BY <1>1, <2>2, <2>4 DEF TypeOK, Value, timing
<1>2. CASE KeepAlive(p)
  <2> DEFINE i == item[p]
  <2>1. i \in Items /\ info[i] \in CacheItem
    BY <1>2 DEF KeepAlive, LocalsKnown, Made
  <2>2. [info[i] EXCEPT !.accessedOn = now] \in CacheItem
    BY <2>1 DEF TypeOK, CacheItem
  <2>3. Unlock(itemLock[i]) \in Mutex
    BY <2>1, UnlockMutex DEF TypeOK
  <2>4. /\ info' = [info EXCEPT ![i] = [info[i] EXCEPT !.accessedOn = now]]
        /\ itemLock' = [itemLock EXCEPT ![i] = Unlock(itemLock[i])]
    BY <1>2 DEF KeepAlive
  <2>5. /\ info' \in [Items -> CacheItem \cup {NoItem}]
        /\ itemLock' \in [Items -> Mutex]
    BY <2>2, <2>3, <2>4 DEF TypeOK
  <2>6. QED BY <1>2, <2>5, ReturnTypes DEF TypeOK, KeepAlive, timing
<1>3. CASE NotLoaded(p)
  BY <1>3, ReturnTypes DEF TypeOK, NotLoaded, timing
<1>4. CASE BeginDelete(p)
  <2>1. key[p] \in Keys
    BY <1>4 DEF BeginDelete, HasTable, LocalsKnown
  <2>2. lock' \in Mutex
    BY <1>4, UnlockMutex DEF TypeOK, BeginDelete
  <2>3. /\ pc' \in [Procs -> Places] /\ key' \in [Procs -> Keys \cup {None}]
        /\ item' \in [Procs -> Items \cup {NoItem}]
    <3>1. CASE items[key[p]] = NoItem
      BY <1>4, <3>1, ReturnTypes DEF BeginDelete
    <3>2. CASE items[key[p]] # NoItem
      BY <1>4, <2>1, <3>2 DEF TypeOK, Table, BeginDelete, Goto, Places
    <3>3. QED BY <3>1, <3>2
  <2>4. QED BY <1>4, <2>2, <2>3 DEF TypeOK, BeginDelete, timing
<1>5. QED BY <1>1, <1>2, <1>3, <1>4

\* Whoever ranges over the items goes on with a well-typed check.
LEMMA ForgetTypes ==
  ASSUME TypeOK, NEW k \in Keys, Forget(k)
  PROVE  /\ check' \in [Procs -> Check \cup {NoCheck}]
         /\ \A q \in Procs : /\ check[q] \in Check => check'[q] \in Check
                            /\ check[q] = NoCheck => check'[q] = NoCheck
<1>1. ASSUME NEW q \in Procs, check[q] \in Check
      PROVE  [check[q] EXCEPT !.left[k] = "may"] \in Check
  BY <1>1 DEF Check
<1>2. ASSUME NEW q \in Procs
      PROVE  /\ check'[q] \in Check \cup {NoCheck}
             /\ check[q] \in Check => check'[q] \in Check
             /\ check[q] = NoCheck => check'[q] = NoCheck
  <2>1. check'[q] = IF RangesOverItems(q) THEN [check[q] EXCEPT !.left[k] = "may"]
                    ELSE check[q]
    BY DEF Forget
  <2>2. check[q] \in Check \cup {NoCheck}
    BY DEF TypeOK
  <2>3. QED BY <1>1, <2>1, <2>2 DEF RangesOverItems
<1>3. QED BY <1>2 DEF Forget

LEMMA RemoveTypes ==
  ASSUME LockInv, NEW p \in Procs, Remove(p)
  PROVE  TypeOK'
<1> USE DEF LockInv
<1>1. key[p] \in Keys /\ item[p] \in Items
  BY DEF Remove, HasTable, LocalsKnown
<1>2. items' \in Table /\ check' \in [Procs -> Check \cup {NoCheck}]
  BY <1>1, ForgetTypes DEF TypeOK, Table, Remove
<1>3. CASE UnlockIsFatal(itemLock[item[p]])
  BY <1>2, <1>3 DEF TypeOK, Remove, timing
<1>4. CASE ~UnlockIsFatal(itemLock[item[p]])
  <2>1. UnlockReader(itemLock[item[p]], p) \in Mutex
    BY <1>1, <1>4, UnlockReaderMutex DEF TypeOK, ReadersFinite
  <2>2. itemLock' = [itemLock EXCEPT ![item[p]] = UnlockReader(itemLock[item[p]], p)]
    BY <1>4 DEF Remove
  <2>3. itemLock' \in [Items -> Mutex]
    BY <1>1, <2>1, <2>2 DEF TypeOK
  <2>4. /\ lock' \in Mutex /\ pc' \in [Procs -> Places]
        /\ key' \in [Procs -> Keys \cup {None}]
        /\ item' \in [Procs -> Items \cup {NoItem}]
    <3>1. CASE check[p] = NoCheck
      BY <1>4, <3>1, ReturnTypes, UnlockMutex DEF TypeOK, Remove
    <3>2. CASE check[p] # NoCheck
      BY <1>4, <3>2 DEF TypeOK, Remove, Goto, Places
    <3>3. QED BY <3>1, <3>2
  <2>5. QED BY <1>2, <1>4, <2>3, <2>4 DEF TypeOK, Remove, timing
<1>5. QED BY <1>3, <1>4

LEMMA FlushTypes ==
  ASSUME LockInv, NEW p \in Procs, EndFlush(p)
  PROVE  TypeOK'
<1> USE DEF LockInv
<1>1. items' \in Table
  BY DEF EndFlush, Table
<1>2. check' \in [Procs -> Check \cup {NoCheck}]
  <2>1. ASSUME NEW q \in Procs PROVE check'[q] \in Check \cup {NoCheck}
    <3>1. check'[q] = IF RangesOverItems(q) THEN [check[q] EXCEPT !.flushed = items]
                      ELSE check[q]
      BY DEF EndFlush
    <3>2. check[q] \in Check => [check[q] EXCEPT !.flushed = items] \in Check
      BY DEF TypeOK, Check
    <3>3. check[q] \in Check \cup {NoCheck}
      BY DEF TypeOK
    <3>4. QED BY <3>1, <3>2, <3>3 DEF RangesOverItems
  <2>2. QED BY <2>1 DEF EndFlush
<1>3. 0 \in 0 .. MaxTime + MaxLife
  BY CacheAssumption
<1>4. lock' \in Mutex
  BY UnlockMutex DEF TypeOK, EndFlush
<1>5. QED BY <1>1, <1>2, <1>3, <1>4, ReturnTypes DEF TypeOK, EndFlush, StopTimer

LEMMA TimerTypes ==
  ASSUME LockInv, NEW p \in Procs, TimerFires(p)
  PROVE  TypeOK'
<1> USE DEF LockInv
<1>1. PICK t \in 1 .. now, stray \in 0 .. 1 :
        /\ IF stray = 1 THEN strayTimers[t] > 0 ELSE cleanupTimer = t
        /\ strayTimers' = [strayTimers EXCEPT ![t] = @ - stray]
        /\ cleanupTimer' = stray * cleanupTimer
  BY DEF TimerFires
<1>2. t \in Times
  BY <1>1, CacheAssumption DEF TypeOK, Times
<1>3. cleanupTimer' \in Times \cup {0} /\ strayTimers' \in [Times -> Nat]
  <2>1. cleanupTimer \in Nat /\ strayTimers[t] \in Nat
    BY <1>2, CacheAssumption DEF TypeOK, Times
  <2>2. CASE stray = 0
    BY <1>1, <1>2, <2>1, <2>2 DEF TypeOK
  <2>3. CASE stray = 1
    BY <1>1, <1>2, <2>1, <2>3 DEF TypeOK
  <2>4. QED BY <2>2, <2>3
<1>4. pc' \in [Procs -> Places]
  BY DEF TypeOK, TimerFires, Goto, Places, Writers
<1>5. QED BY <1>3, <1>4 DEF TypeOK, TimerFires, locals

\* What a visit of the item i does to the check, with d the time to the next one.
VisitWith(p, k, i, d) ==
  /\ i = IF check[p].flushed = NotFlushed THEN items[k] ELSE check[p].flushed[k]
  /\ Made(i)
  /\ d \in 0 .. MaxTime + MaxLife
  /\ d = IF info[i].lifeSpan > 0 /\ EndOfLife(i) > check[p].since
         THEN Nearer(EndOfLife(i) - check[p].since, check[p].smallest)
         ELSE check[p].smallest
  /\ check' = [check EXCEPT ![p] = [check[p] EXCEPT
       !.left = [check[p].left EXCEPT ![k] = "done"], !.smallest = d]]

LEMMA VisitCheck ==
  ASSUME LockInv, NEW p \in Procs, pc[p] = "loop", NEW k \in Keys, Visit(p, k)
  PROVE  \E i \in Items, d \in Nat : VisitWith(p, k, i, d)
<1> USE DEF LockInv
<1>1. check[p] \in Check
  BY DEF LocalsKnown
<1> DEFINE i == IF check[p].flushed = NotFlushed THEN items[k] ELSE check[p].flushed[k]
           d == IF info[i].lifeSpan > 0 /\ EndOfLife(i) > check[p].since
                THEN Nearer(EndOfLife(i) - check[p].since, check[p].smallest)
                ELSE check[p].smallest
<1>2. check[p] # NoCheck
  BY <1>1 DEF Check, NoCheck
<1>3. i \in Items /\ Made(i)
  <2>1. i # NoItem
    BY DEF Visit
  <2>2. CASE check[p].flushed = NotFlushed
    BY <2>1, <2>2 DEF StoredMade, TypeOK, Table
  <2>3. CASE check[p].flushed # NotFlushed
    <3>1. check[p].flushed \in Table
      BY <1>1, <2>3 DEF Check
    <3>2. QED BY <1>2, <2>1, <2>3, <3>1 DEF StoredMade, Table
  <2>4. QED BY <2>2, <2>3
<1>4. d \in 0 .. MaxTime + MaxLife
  <2>1. info[i] \in CacheItem
    BY <1>3 DEF Made
  <2>2. EndOfLife(i) \in 0 .. MaxTime + MaxLife
    BY <2>1, CacheAssumption DEF EndOfLife, CacheItem, Lives
  <2>3. check[p].since \in Nat /\ check[p].smallest \in 0 .. MaxTime + MaxLife
    BY <1>1, CacheAssumption DEF Check
  <2>4. QED BY <2>2, <2>3, CacheAssumption DEF Nearer
<1>5. check' = [check EXCEPT ![p].left[k] = "done", ![p].smallest = d]
  BY DEF Visit
<1> HIDE DEF i, d
<1>6. check' = [check EXCEPT ![p] = [check[p] EXCEPT
                 !.left = [check[p].left EXCEPT ![k] = "done"], !.smallest = d]]
  BY <1>1, <1>5 DEF TypeOK, Check
<1>7. d \in Nat
  BY <1>4, CacheAssumption
<1>8. QED BY <1>3, <1>4, <1>6, <1>7 DEF i, d, VisitWith

LEMMA CheckTypes ==
  ASSUME LockInv, NEW p \in Procs, BeginCheck(p) \/ CheckItem(p) \/ EndCheck(p)
  PROVE  TypeOK'
<1> USE DEF LockInv
<1>1. CASE BeginCheck(p)
  <2> DEFINE left == [k \in Keys |-> IF items[k] # NoItem THEN "must" ELSE "may"]
             new  == [since |-> now, smallest |-> 0, flushed |-> NotFlushed,
                      left |-> left]
  <2>1. 0 \in 0 .. MaxTime + MaxLife /\ now \in 0 .. MaxTime
    BY CacheAssumption DEF TypeOK
  <2>2. left \in [Keys -> {"must", "may", "done"}]
    OBVIOUS
  <2>3. check' = [check EXCEPT ![p] = new]
    BY <1>1 DEF BeginCheck
  <2> HIDE DEF left
  <2>4. new \in Check
    BY <2>1, <2>2 DEF Check
  <2> HIDE DEF new
  <2>5. check' \in [Procs -> Check \cup {NoCheck}]
    BY <2>3, <2>4 DEF TypeOK
  <2>6. pc' \in [Procs -> Places]
    BY <1>1 DEF TypeOK, BeginCheck, Goto, Places
  <2>7. QED BY <1>1, <2>5, <2>6 DEF TypeOK, BeginCheck, StopTimer, locals
<1>2. CASE CheckItem(p)
  <2>1. pc[p] = "loop" /\ check[p] \in Check
    BY <1>2 DEF CheckItem, LocalsKnown
  <2>2. PICK k \in Keys : Visit(p, k)
    BY <1>2 DEF CheckItem
  <2>3. check' \in [Procs -> Check \cup {NoCheck}]
    <3>1. PICK i \in Items, d \in Nat : VisitWith(p, k, i, d)
      BY <2>1, <2>2, VisitCheck
    <3>2. [check[p] EXCEPT !.left = [check[p].left EXCEPT ![k] = "done"],
                           !.smallest = d] \in Check
      BY <2>1, <3>1 DEF Check, VisitWith
    <3>3. QED BY <3>1, <3>2 DEF TypeOK, VisitWith
  <2>4. itemLock' \in [Items -> Mutex]
    <3>1. PICK i \in Items : /\ CanRead(itemLock[i])
                             /\ itemLock' = [itemLock EXCEPT ![i] = PassRead(itemLock[i])]
      <4>1. PICK i \in Items, d \in Nat : VisitWith(p, k, i, d)
        BY <2>1, <2>2, VisitCheck
      <4>2. QED BY <2>2, <4>1 DEF Visit, VisitWith
    <3>2. PassRead(itemLock[i]) \in Mutex
      BY <3>1, PassReadMutex DEF TypeOK
    <3>3. QED BY <3>1, <3>2 DEF TypeOK
  <2>5. /\ lock' \in Mutex /\ pc' \in [Procs -> Places]
        /\ key' \in [Procs -> Keys \cup {None}]
        /\ item' \in [Procs -> Items \cup {NoItem}]
    <3>1. \/ /\ lock' = Unlock(lock) /\ Goto(p, "expire")
             /\ key' = [key EXCEPT ![p] = k]
             /\ item' = [item EXCEPT ![p] = items[k]]
          \/ UNCHANGED <<lock, pc, key, item>>
      BY <2>2 DEF Visit
    <3>2. Unlock(lock) \in Mutex
      BY UnlockMutex DEF TypeOK
    <3>3. items[k] \in Items \cup {NoItem}
      BY DEF TypeOK, Table
    <3>4. QED BY <3>1, <3>2, <3>3 DEF TypeOK, Goto, Places
  <2>6. QED BY <1>2, <2>3, <2>4, <2>5 DEF TypeOK, CheckItem, timing
<1>3. CASE EndCheck(p)
  <2>1. check[p].smallest \in 0 .. MaxTime + MaxLife
    BY <1>3 DEF EndCheck, LocalsKnown, Check
  <2>2. cleanupInterval' \in 0 .. MaxTime + MaxLife
    BY <1>3, <2>1 DEF EndCheck, NewInterval
  <2>3. cleanupTimer' \in Times \cup {0}
    <3>1. check[p].smallest > 0 => now + check[p].smallest \in Times
      BY <2>1, CacheAssumption DEF TypeOK, Times
    <3>2. QED BY <1>3, <3>1 DEF EndCheck, TypeOK
  <2>4. strayTimers' \in [Times -> Nat]
    <3>1. CASE UNCHANGED strayTimers
      BY <3>1 DEF TypeOK
    <3>2. CASE /\ cleanupTimer # 0
               /\ strayTimers' = [strayTimers EXCEPT ![cleanupTimer] = @ + 1]
      BY <3>2 DEF TypeOK
    <3>3. QED BY <1>3, <3>1, <3>2 DEF EndCheck
  <2>5. lock' \in Mutex
    BY <1>3, UnlockMutex DEF EndCheck, TypeOK
  <2>6. /\ pc' \in [Procs -> Places] /\ check' \in [Procs -> Check \cup {NoCheck}]
    BY <1>3 DEF EndCheck, TypeOK, Goto, Places
  <2>7. QED BY <1>3, <2>2, <2>3, <2>4, <2>5, <2>6 DEF TypeOK, EndCheck, locals
<1>4. QED BY <1>1, <1>2, <1>3

LEMMA TimePassesTypes ==
  ASSUME LockInv, TimePasses
  PROVE  TypeOK'
<1>1. now' \in 0 .. MaxTime
  BY CacheAssumption DEF LockInv, TypeOK, TimePasses
<1>2. QED BY <1>1 DEF LockInv, TypeOK, TimePasses, timing, locals

LEMMA TypesPreserved ==
  ASSUME LockInv, NEW p \in Procs, Call(p)
  PROVE  TypeOK'
BY AddTypes, LockTypes, ReadTypes, RemoveTypes, FlushTypes, TimerTypes, CheckTypes
   DEF Call

-----------------------------------------------------------------------------
(* The locks. *)

\* Nobody stops waiting for a lock that was broken, and each lock stays one whose
\* readers can be counted.
LEMMA ItemLockStep ==
  ASSUME LockInv, NEW p \in Procs, Call(p), NEW i \in Items
  PROVE  /\ itemLock[i].hung \subseteq itemLock'[i].hung
         /\ IsFiniteSet(itemLock'[i].readers)
<1> USE DEF LockInv
<1>1. itemLock[i] \in Mutex /\ IsFiniteSet(itemLock[i].readers)
  BY DEF TypeOK, ReadersFinite
<1>2. CASE itemLock'[i] = itemLock[i]
  BY <1>1, <1>2
<1>3. CASE itemLock'[i] = Announce(itemLock[i], p)
  BY <1>1, <1>3, AnnounceMutex
<1>4. CASE itemLock'[i] = Unlock(itemLock[i])
  BY <1>1, <1>4, UnlockMutex
<1>5. CASE CanRead(itemLock[i]) /\ itemLock'[i] = PassRead(itemLock[i])
  BY <1>1, <1>5, PassReadMutex
<1>6. CASE CanRead(itemLock[i]) /\ itemLock'[i] = RLock(itemLock[i], p)
  BY <1>1, <1>6, RLockMutex
<1>7. CASE ~UnlockIsFatal(itemLock[i]) /\ itemLock'[i] = UnlockReader(itemLock[i], p)
  BY <1>1, <1>7, UnlockReaderMutex
<1>8. DOMAIN itemLock = Items
  BY DEF TypeOK
<1>9. CASE CheckItem(p)
  BY <1>2, <1>5, <1>8, <1>9 DEF CheckItem, Visit
<1>10. CASE Remove(p)
  BY <1>2, <1>7, <1>8, <1>10 DEF Remove
<1>11. CASE LockItem(p) \/ KeepAlive(p) \/ ReadLockItem(p)
  BY <1>2, <1>3, <1>4, <1>6, <1>8, <1>11 DEF LockItem, KeepAlive, ReadLockItem
<1>12. CASE UNCHANGED itemLock
  BY <1>2, <1>12
<1>13. \/ CheckItem(p) \/ Remove(p) \/ LockItem(p) \/ KeepAlive(p) \/ ReadLockItem(p)
       \/ UNCHANGED itemLock
  BY DEF Call, LockTable, Add, BeginAdd, EndAdd, addInternal, NotFoundAdd, BeginCall,
         EndNotFoundAdd, Value, NotLoaded, Loaded, Exists, EndExists, Delete,
         BeginDelete, Flush, EndFlush, TimerFires, BeginCheck, EndCheck
<1>14. QED BY <1>9, <1>10, <1>11, <1>12, <1>13

\* What a call does to the table's lock and to the place of its goroutine.
TableStep(p) ==
  \/ /\ UNCHANGED lock
     /\ pc'[p] = "loop" => Acquired(lock, p)
     /\ pc'[p] = "exists" => pc[p] = "exists"
  \/ /\ pc'[p] \notin {"loop", "exists"}
     /\ \/ CanAnnounce(lock, p) /\ lock' = Announce(lock, p)
        \/ Acquired(lock, p) /\ lock' = Unlock(lock)
        \/ CanRead(lock) /\ lock' = PassRead(lock)
  \/ pc'[p] = "exists" /\ CanRead(lock) /\ lock' = RLock(lock, p)
  \/ /\ pc[p] = "exists" /\ pc'[p] = "idle"
     /\ ~UnlockIsFatal(lock) /\ lock' = UnlockReader(lock, p)

LEMMA CallTableStep ==
  ASSUME LockInv, NEW p \in Procs, Call(p)
  PROVE  TableStep(p) /\ \A q \in Procs \ {p} : pc'[q] = pc[q]
<1> USE DEF LockInv, TableStep, Goto, Return
<1>1. pc \in [Procs -> Places] /\ DOMAIN pc = Procs
  BY DEF TypeOK
<1>2. pc[p] = "loop" => Acquired(lock, p)
  BY DEF LoopHasTable
<1>3. CASE LockTable(p)
  BY <1>1, <1>3 DEF LockTable, Writers
<1>4. CASE Add(p) \/ Loaded(p)
  BY <1>1, <1>4 DEF Add, Loaded, BeginAdd
<1>5. CASE EndAdd(p) \/ EndNotFoundAdd(p)
  BY <1>1, <1>5 DEF EndAdd, EndNotFoundAdd, HasTable, addInternal
<1>6. CASE NotFoundAdd(p) \/ Delete(p) \/ Flush(p)
  BY <1>1, <1>6 DEF NotFoundAdd, Delete, BeginCall, Flush
<1>7. CASE Value(p)
  BY <1>1, <1>7 DEF Value
<1>8. CASE LockItem(p) \/ KeepAlive(p) \/ NotLoaded(p) \/ ReadLockItem(p) \/ TimerFires(p)
  BY <1>1, <1>8 DEF LockItem, KeepAlive, NotLoaded, ReadLockItem, TimerFires
<1>9. CASE Exists(p) \/ EndExists(p)
  BY <1>1, <1>9 DEF Exists, EndExists
<1>10. CASE BeginDelete(p) \/ EndFlush(p) \/ BeginCheck(p)
  BY <1>1, <1>10 DEF BeginDelete, EndFlush, BeginCheck, HasTable
<1>11. CASE Remove(p)
  BY <1>1, <1>11 DEF Remove, HasTable
<1>12. CASE CheckItem(p) \/ EndCheck(p)
  BY <1>1, <1>2, <1>12 DEF CheckItem, Visit, EndCheck
<1>13. QED
  BY <1>3, <1>4, <1>5, <1>6, <1>7, <1>8, <1>9, <1>10, <1>11, <1>12 DEF Call

\* Whoever ranges over the items keeps the table's lock, whatever the others call.
LEMMA TableLockPreserved ==
  ASSUME LockInv, NEW p \in Procs, Call(p)
  PROVE  LoopHasTable' /\ IsFiniteSet(lock'.readers)
<1>1. /\ TableStep(p) /\ \A q \in Procs \ {p} : pc'[q] = pc[q]
      /\ lock \in Mutex /\ IsFiniteSet(lock.readers) /\ LoopHasTable
      /\ None \notin Procs
  BY CallTableStep, MutexAssumption DEF LockInv, TypeOK, ReadersFinite
<1> USE DEF LoopHasTable, Acquired
<1>2. CASE /\ UNCHANGED lock
           /\ pc'[p] = "loop" => Acquired(lock, p)
           /\ pc'[p] = "exists" => pc[p] = "exists"
  BY <1>1, <1>2
<1>3. CASE pc'[p] \notin {"loop", "exists"} /\ CanAnnounce(lock, p)
           /\ lock' = Announce(lock, p)
  BY <1>1, <1>3, AnnounceMutex DEF CanAnnounce
<1>4. CASE pc'[p] \notin {"loop", "exists"} /\ Acquired(lock, p)
           /\ lock' = Unlock(lock)
  BY <1>1, <1>4, UnlockMutex
<1>5. CASE pc'[p] \notin {"loop", "exists"} /\ CanRead(lock)
           /\ lock' = PassRead(lock)
  <2>1. /\ lock'.w = lock.w /\ lock'.readers = lock.readers /\ lock'.hung = lock.hung
        /\ lock.spare = 0 => lock'.spare = 0
    BY <1>1, <1>5, PassReadMutex
  <2>2. QED BY <1>1, <1>5, <2>1
<1>6. CASE pc'[p] = "exists" /\ CanRead(lock) /\ lock' = RLock(lock, p)
  <2>1. /\ lock'.w = lock.w /\ lock'.readers = lock.readers \cup {p}
        /\ lock'.hung = lock.hung /\ IsFiniteSet(lock'.readers)
        /\ lock.spare = 0 => lock.w = None /\ lock'.spare = 0
    BY <1>1, <1>6, RLockMutex
  <2>2. \A q \in Procs \ {p} : pc[q] # "loop"
    BY <1>1, <2>1
  <2>3. QED BY <1>1, <1>6, <2>1, <2>2
<1>7. CASE /\ pc[p] = "exists" /\ pc'[p] = "idle"
           /\ ~UnlockIsFatal(lock) /\ lock' = UnlockReader(lock, p)
  <2>1. /\ lock'.readers = lock.readers \ {p} /\ lock'.hung # {}
        /\ IsFiniteSet(lock'.readers)
    BY <1>1, <1>7, UnlockReaderMutex
  <2>2. \A q \in Procs \ {p} : pc[q] # "loop"
    BY <1>1, <1>7
  <2>3. QED BY <1>1, <1>7, <2>1, <2>2
<1>8. QED BY <1>1, <1>2, <1>3, <1>4, <1>5, <1>6, <1>7 DEF TableStep

-----------------------------------------------------------------------------
(* The items. *)

\* An item that was made keeps its life span; its times are set to now or stay.
InfoStep(i) ==
  IF Made(i)
  THEN /\ info'[i].lifeSpan = info[i].lifeSpan
       /\ info'[i].accessedOn \in {info[i].accessedOn, now}
       /\ info'[i].storedOn \in {info[i].storedOn, now}
       /\ Made(i)'
  ELSE Made(i)' => info'[i].accessedOn = now /\ info'[i].storedOn = now

LEMMA CallInfoStep ==
  ASSUME LockInv, NEW p \in Procs, Call(p), NEW i \in Items
  PROVE  InfoStep(i)
<1> USE DEF LockInv
<1>1. info \in [Items -> CacheItem \cup {NoItem}] /\ now \in 0 .. MaxTime
  BY DEF TypeOK
<1>2. CASE info'[i] = info[i]
  BY <1>2 DEF InfoStep, Made, CacheItem
<1>3. ASSUME NEW j \in Items, NEW life \in Lives, NewCacheItem(j, life)
      PROVE  InfoStep(i)
  <2>1. CASE i = j
    <3>1. /\ ~Made(i)
          /\ info'[i] = [lifeSpan |-> life, accessedOn |-> now, storedOn |-> now]
      BY <1>3, <2>1, NewItemMade
    <3>2. QED BY <3>1 DEF InfoStep
  <2>2. CASE i # j
    BY <1>2, <1>3, <2>2, NewItemMade
  <2>3. QED BY <2>1, <2>2
<1>4. ASSUME NEW j \in Items, Made(j),
             \/ info' = [info EXCEPT ![j] = [info[j] EXCEPT !.storedOn = now]]
             \/ info' = [info EXCEPT ![j] = [info[j] EXCEPT !.accessedOn = now]]
      PROVE  InfoStep(i)
  <2>1. CASE i = j
    <3>1. info'[i] \in {[info[j] EXCEPT !.storedOn = now],
                       [info[j] EXCEPT !.accessedOn = now]}
      BY <1>1, <1>4, <2>1
    <3>2. info[j] \in CacheItem
      BY <1>4 DEF Made
    <3>3. QED BY <1>1, <2>1, <3>1, <3>2 DEF InfoStep, Made, CacheItem
  <2>2. CASE i # j
    <3>1. info'[i] = info[i]
      BY <1>1, <1>4, <2>2
    <3>2. QED BY <1>2, <3>1
  <2>3. QED BY <2>1, <2>2
<1>5. CASE Add(p) \/ Loaded(p) \/ EndNotFoundAdd(p)
  <2>1. \/ \E j \in Items, life \in Lives : NewCacheItem(j, life)
        \/ UNCHANGED info
    BY <1>5 DEF Add, Loaded, BeginAdd, EndNotFoundAdd
  <2>2. QED BY <1>2, <1>3, <2>1
<1>6. CASE EndAdd(p) \/ KeepAlive(p)
  <2>1. item[p] \in Items /\ Made(item[p])
    BY <1>6 DEF EndAdd, KeepAlive, HasTable, LocalsKnown
  <2>2. \/ info' = [info EXCEPT ![item[p]] = [info[item[p]] EXCEPT !.storedOn = now]]
        \/ info' = [info EXCEPT ![item[p]] = [info[item[p]] EXCEPT !.accessedOn = now]]
    BY <1>6 DEF EndAdd, KeepAlive
  <2>3. QED BY <1>4, <2>1, <2>2
<1>7. CASE UNCHANGED info
  BY <1>2, <1>7
<1>8. \/ Add(p) \/ Loaded(p) \/ EndNotFoundAdd(p) \/ EndAdd(p) \/ KeepAlive(p)
      \/ UNCHANGED info
  BY DEF Call, LockTable, NotFoundAdd, BeginCall, Value, LockItem, NotLoaded, Exists,
         EndExists, Delete, BeginDelete, ReadLockItem, Remove, Flush, EndFlush,
         TimerFires, BeginCheck, CheckItem, EndCheck
<1>9. QED BY <1>5, <1>6, <1>7, <1>8

\* What a call stores was made, by itself or before.
ItemsStep(p) ==
  \/ UNCHANGED items
  \/ \E k \in Keys, i \in Items : Made(i)' /\ items' = [items EXCEPT ![k] = i]
  \/ \E k \in Keys : items' = [items EXCEPT ![k] = NoItem]
  \/ items' = [k \in Keys |-> NoItem]

LEMMA CallItemsStep ==
  ASSUME LockInv, NEW p \in Procs, Call(p)
  PROVE  ItemsStep(p) /\ (items' # items => Acquired(lock, p) /\ pc[p] # "loop")
<1> USE DEF LockInv, ItemsStep, HasTable
<1>1. CASE EndAdd(p)
  <2>1. PICK i \in Items, k \in Keys : i = item[p] /\ k = key[p] /\ Made(i)
    BY <1>1 DEF EndAdd, LocalsKnown
  <2>2. Made(i)'
    <3>1. [info[i] EXCEPT !.storedOn = now] \in CacheItem
      BY <2>1 DEF Made, CacheItem, TypeOK
    <3>2. info' = [info EXCEPT ![i] = [info[i] EXCEPT !.storedOn = now]]
      BY <1>1, <2>1 DEF EndAdd
    <3>3. info'[i] \in CacheItem
      BY <3>1, <3>2 DEF TypeOK
    <3>4. QED BY <3>3 DEF Made
  <2>3. items' = [items EXCEPT ![k] = i]
    BY <1>1, <2>1 DEF EndAdd, addInternal
  <2>4. QED BY <1>1, <2>2, <2>3 DEF EndAdd
<1>2. CASE EndNotFoundAdd(p)
  <2>1. key[p] \in Keys
    BY <1>2 DEF EndNotFoundAdd, LocalsKnown
  <2>2. \/ UNCHANGED items
        \/ \E i \in Items, life \in Lives :
             NewCacheItem(i, life) /\ items' = [items EXCEPT ![key[p]] = i]
    BY <1>2 DEF EndNotFoundAdd, addInternal
  <2>3. QED BY <1>2, <2>1, <2>2, NewItemMade DEF EndNotFoundAdd
<1>3. CASE Remove(p)
  BY <1>3 DEF Remove, LocalsKnown
<1>4. CASE EndFlush(p)
  BY <1>4 DEF EndFlush
<1>5. CASE UNCHANGED items
  BY <1>5
<1>6. EndAdd(p) \/ EndNotFoundAdd(p) \/ Remove(p) \/ EndFlush(p) \/ UNCHANGED items
  BY DEF Call, LockTable, Add, BeginAdd, NotFoundAdd, BeginCall, Value, LockItem,
         KeepAlive, NotLoaded, Loaded, Exists, EndExists, Delete, BeginDelete,
         ReadLockItem, Flush, TimerFires, BeginCheck, CheckItem, EndCheck
<1>7. QED BY <1>1, <1>2, <1>3, <1>4, <1>5, <1>6

-----------------------------------------------------------------------------
(* The checks and what a goroutine knows. *)

\* What a call of p does to the check of q.
CheckStep(p, q) ==
  \/ check'[q] = check[q]
  \/ /\ check[q] \in Check /\ check'[q] \in Check
     /\ check'[q].flushed \in {check[q].flushed, items}
     /\ q # p => /\ check'[q].since = check[q].since
                 /\ check'[q].smallest = check[q].smallest
  \/ q = p /\ BeginCheck(p) /\ check'[q] \in Check /\ check'[q].flushed = NotFlushed
  \/ q = p /\ EndCheck(p) /\ check'[q] = NoCheck

LEMMA CheckItemGoesOn ==
  ASSUME LockInv, NEW p \in Procs, CheckItem(p)
  PROVE  /\ check[p] \in Check /\ check'[p] \in Check
         /\ check'[p].flushed = check[p].flushed
         /\ \A q \in Procs \ {p} : check'[q] = check[q]
<1>1. pc[p] = "loop" /\ check[p] \in Check /\ DOMAIN check = Procs
  BY DEF CheckItem, LockInv, LocalsKnown, TypeOK
<1>2. PICK k \in Keys : Visit(p, k)
  BY DEF CheckItem
<1>3. PICK i \in Items, d \in Nat : VisitWith(p, k, i, d)
  BY <1>1, <1>2, VisitCheck
<1>4. /\ check' = [check EXCEPT ![p] = [check[p] EXCEPT
           !.left = [check[p].left EXCEPT ![k] = "done"], !.smallest = d]]
      /\ d \in 0 .. MaxTime + MaxLife
  BY <1>3 DEF VisitWith
<1>5. /\ check'[p] = [check[p] EXCEPT
           !.left = [check[p].left EXCEPT ![k] = "done"], !.smallest = d]
      /\ \A q \in Procs \ {p} : check'[q] = check[q]
  BY <1>1, <1>4
<1>6. QED BY <1>1, <1>4, <1>5 DEF Check

LEMMA CallCheckStep ==
  ASSUME LockInv, NEW p \in Procs, Call(p), NEW q \in Procs
  PROVE  CheckStep(p, q)
<1> USE DEF LockInv
<1>1. check[q] \in Check \cup {NoCheck} /\ DOMAIN check = Procs /\ TypeOK'
  BY TypesPreserved DEF TypeOK
<1>2. CASE Remove(p)
  <2>1. PICK k \in Keys : Forget(k)
    BY <1>2 DEF Remove, HasTable, LocalsKnown
  <2>2. check'[q] = IF RangesOverItems(q) THEN [check[q] EXCEPT !.left[k] = "may"]
                    ELSE check[q]
    BY <2>1 DEF Forget
  <2>3. check[q] \in Check =>
          /\ [check[q] EXCEPT !.left[k] = "may"] \in Check
          /\ [check[q] EXCEPT !.left[k] = "may"].flushed = check[q].flushed
          /\ [check[q] EXCEPT !.left[k] = "may"].since = check[q].since
          /\ [check[q] EXCEPT !.left[k] = "may"].smallest = check[q].smallest
    BY DEF Check
  <2>4. QED BY <1>1, <2>2, <2>3 DEF RangesOverItems, CheckStep
<1>3. CASE EndFlush(p)
  <2>1. check'[q] = IF RangesOverItems(q) THEN [check[q] EXCEPT !.flushed = items]
                    ELSE check[q]
    BY <1>3 DEF EndFlush
  <2>2. check[q] \in Check =>
          /\ [check[q] EXCEPT !.flushed = items] \in Check
          /\ [check[q] EXCEPT !.flushed = items].flushed = items
          /\ [check[q] EXCEPT !.flushed = items].since = check[q].since
          /\ [check[q] EXCEPT !.flushed = items].smallest = check[q].smallest
    BY DEF Check, TypeOK
  <2>3. QED BY <1>1, <2>1, <2>2 DEF RangesOverItems, CheckStep
<1>4. CASE CheckItem(p)
  BY <1>4, CheckItemGoesOn DEF CheckStep
<1>5. CASE BeginCheck(p)
  <2>1. CASE q = p
    <3>1. /\ check'[p].flushed = NotFlushed /\ check'[p] # NoCheck
      BY <1>1, <1>5, <2>1 DEF BeginCheck, NoCheck
    <3>2. QED BY <1>1, <1>5, <2>1, <3>1 DEF TypeOK, CheckStep
  <2>2. CASE q # p
    BY <1>1, <1>5, <2>2 DEF BeginCheck, CheckStep
  <2>3. QED BY <2>1, <2>2
<1>6. CASE EndCheck(p)
  BY <1>1, <1>6 DEF EndCheck, CheckStep
<1>7. CASE UNCHANGED check
  BY <1>7 DEF CheckStep
<1>8. \/ Remove(p) \/ EndFlush(p) \/ CheckItem(p) \/ BeginCheck(p) \/ EndCheck(p)
      \/ UNCHANGED check
  BY DEF Call, LockTable, Add, BeginAdd, EndAdd, addInternal, NotFoundAdd, BeginCall,
         EndNotFoundAdd, Value, LockItem, KeepAlive, NotLoaded, Loaded, Exists,
         EndExists, Delete, BeginDelete, ReadLockItem, Flush, TimerFires
<1>9. QED BY <1>2, <1>3, <1>4, <1>5, <1>6, <1>7, <1>8

LEMMA StoredMadePreserved ==
  ASSUME LockInv, NEW p \in Procs, Call(p)
  PROVE  StoredMade'
<1> USE DEF LockInv
<1>1. \A i \in Items : Made(i) => Made(i)'
  BY CallInfoStep DEF InfoStep
<1>2. \A k \in Keys : items[k] \in Items \cup {NoItem}
  BY DEF TypeOK, Table
<1>3. ASSUME NEW k \in Keys, NEW i, i = items'[k], i # NoItem PROVE Made(i)'
  <2>1. CASE items'[k] = items[k]
    BY <1>1, <1>2, <1>3, <2>1 DEF StoredMade
  <2>2. CASE items'[k] # items[k]
    <3>1. ItemsStep(p) /\ items \in [Keys -> Items \cup {NoItem}]
      BY CallItemsStep DEF TypeOK, Table
    <3>2. ASSUME NEW j \in Keys, NEW new \in Items, Made(new)',
                 items' = [items EXCEPT ![j] = new]
          PROVE  Made(i)'
      BY <1>3, <2>2, <3>1, <3>2
    <3>3. ASSUME NEW j \in Keys, items' = [items EXCEPT ![j] = NoItem] PROVE FALSE
      BY <1>3, <2>2, <3>1, <3>3
    <3>4. QED BY <1>3, <2>2, <3>1, <3>2, <3>3 DEF ItemsStep
  <2>3. QED BY <2>1, <2>2
<1>4. ASSUME NEW q \in Procs, check'[q] # NoCheck, check'[q].flushed # NotFlushed,
             NEW k \in Keys, NEW i, i = check'[q].flushed[k], i # NoItem
      PROVE  Made(i)'
  <2>1. CheckStep(p, q)
    BY CallCheckStep
  <2>2. /\ check[q] \in Check
        /\ check'[q].flushed \in {check[q].flushed, items}
    BY <1>4, <2>1 DEF CheckStep, TypeOK
  <2>3. CASE check'[q].flushed = items
    BY <1>1, <1>2, <1>4, <2>3 DEF StoredMade
  <2>4. CASE check'[q].flushed = check[q].flushed
    <3>1. check[q] # NoCheck
      BY <2>2 DEF Check, NoCheck
    <3>2. i \in Items
      BY <1>4, <2>2, <2>4 DEF Check, Table
    <3>3. QED BY <1>1, <1>4, <2>4, <3>1, <3>2 DEF StoredMade
  <2>5. QED BY <2>2, <2>3, <2>4
<1>5. QED BY <1>3, <1>4 DEF StoredMade

LEMMA LocalsPreserved ==
  ASSUME LockInv, NEW p \in Procs, Call(p)
  PROVE  LocalsKnown'
<1> USE DEF LockInv
<1>1. \A i \in Items : Made(i) => Made(i)'
  BY CallInfoStep DEF InfoStep
<1>2. /\ DOMAIN pc = Procs /\ DOMAIN key = Procs /\ DOMAIN item = Procs
  BY DEF TypeOK
<1>3. \A q \in Procs \ {p} :
        pc'[q] = pc[q] /\ key'[q] = key[q] /\ item'[q] = item[q]
  <2> USE <1>2 DEF Goto, Return, timing, locals
  <2>1. \A q \in Procs \ {p} : pc'[q] = pc[q]
    BY CallTableStep
  <2>2. CASE \/ LockTable(p) \/ Add(p) \/ Loaded(p) \/ EndAdd(p) \/ EndNotFoundAdd(p)
    BY <2>1, <2>2 DEF LockTable, Add, Loaded, BeginAdd, EndAdd, EndNotFoundAdd, addInternal
  <2>3. CASE NotFoundAdd(p) \/ Value(p) \/ LockItem(p) \/ KeepAlive(p) \/ NotLoaded(p)
    BY <2>1, <2>3 DEF NotFoundAdd, BeginCall, Value, LockItem, KeepAlive, NotLoaded
  <2>4. CASE Exists(p) \/ EndExists(p) \/ Delete(p) \/ BeginDelete(p) \/ ReadLockItem(p)
    BY <2>1, <2>4 DEF Exists, EndExists, Delete, BeginCall, BeginDelete, ReadLockItem
  <2>5. CASE Remove(p) \/ Flush(p) \/ EndFlush(p) \/ TimerFires(p)
    BY <2>1, <2>5 DEF Remove, Flush, EndFlush, TimerFires
  <2>6. CASE BeginCheck(p) \/ CheckItem(p) \/ EndCheck(p)
    BY <2>1, <2>6 DEF BeginCheck, CheckItem, Visit, EndCheck
  <2>7. QED BY <2>2, <2>3, <2>4, <2>5, <2>6 DEF Call
<1>4. ASSUME NEW q \in Procs, q # p, pc[q] = "loop" PROVE check'[q] \in Check
  <2>1. check[q] \in Check
    BY <1>4 DEF LocalsKnown
  <2>2. QED BY <1>4, <2>1, CallCheckStep DEF CheckStep
<1>5. /\ pc'[p] \in {"add", "addNew", "load", "delete", "expire", "remove"} =>
           key'[p] \in Keys
      /\ pc'[p] \in {"add", "keep", "expire", "remove"} =>
           /\ item'[p] \in Items
           /\ info'[item'[p]] \in CacheItem
      /\ pc'[p] = "loop" => check'[p] \in Check
  <2> USE <1>2 DEF Goto, Return, timing, locals
  <2>1. ASSUME UNCHANGED <<pc, key, item>>, pc[p] # "loop" PROVE <1>5!:
    BY <1>1, <2>1 DEF LocalsKnown, Made
  <2>2. ASSUME pc'[p] \in {"idle", "check", "exists", "flush"} PROVE <1>5!:
    BY <2>2
  <2>3. ASSUME NEW k \in Keys, BeginAdd(p, k) PROVE <1>5!:
    <3>1. PICK i \in Items, life \in Lives :
            NewCacheItem(i, life) /\ item' = [item EXCEPT ![p] = i]
      BY <2>3 DEF BeginAdd
    <3>2. info'[i] \in CacheItem
      BY <3>1, NewItemMade DEF Made
    <3>3. QED BY <2>3, <3>1, <3>2 DEF BeginAdd
  <2>4. ASSUME NEW k \in Keys, items[k] # NoItem, item' = [item EXCEPT ![p] = items[k]],
               pc'[p] \in {"keep", "expire"}, pc'[p] = "expire" => key'[p] \in Keys
        PROVE  <1>5!:
    <3>1. items[k] \in Items /\ Made(items[k])
      BY <2>4 DEF StoredMade, TypeOK, Table
    <3>2. PICK i \in Items : i = items[k] /\ Made(i)
      BY <3>1
    <3>3. info'[i] \in CacheItem
      BY <1>1, <3>2 DEF Made
    <3>4. QED BY <2>4, <3>2, <3>3
  <2>5. CASE LockTable(p) \/ LockItem(p)
    BY <2>1, <2>5 DEF LockTable, LockItem, Writers
  <2>6. CASE Add(p) \/ Loaded(p)
    BY <2>3, <2>6 DEF Add, Loaded, LocalsKnown
  <2>7. CASE EndAdd(p) \/ EndNotFoundAdd(p) \/ KeepAlive(p) \/ NotLoaded(p) \/ Exists(p)
             \/ Flush(p) \/ EndFlush(p) \/ TimerFires(p) \/ EndCheck(p)
    BY <2>2, <2>7
    DEF EndAdd, EndNotFoundAdd, addInternal, KeepAlive, NotLoaded, Exists, Flush,
        EndFlush, TimerFires, EndCheck
  <2>8. CASE NotFoundAdd(p) \/ Delete(p)
    BY <2>8 DEF NotFoundAdd, Delete, BeginCall
  <2>9. CASE Value(p)
    <3>1. PICK k \in Keys :
            /\ item' = [item EXCEPT ![p] = items[k]] /\ key' = [key EXCEPT ![p] = k]
            /\ pc'[p] = IF items[k] # NoItem THEN "keep" ELSE "load"
      BY <2>9 DEF Value
    <3>2. CASE items[k] = NoItem
      BY <3>1, <3>2
    <3>3. CASE items[k] # NoItem
      BY <2>4, <3>1, <3>3
    <3>4. QED BY <3>2, <3>3
  <2>10. CASE EndExists(p)
    BY <2>1, <2>2, <2>10 DEF EndExists
  <2>11. CASE BeginDelete(p)
    <3>1. key[p] \in Keys
      BY <2>11 DEF BeginDelete, HasTable, LocalsKnown
    <3>2. CASE items[key[p]] = NoItem
      BY <2>2, <2>11, <3>2 DEF BeginDelete
    <3>3. CASE items[key[p]] # NoItem
      BY <2>4, <2>11, <3>1, <3>3 DEF BeginDelete
    <3>4. QED BY <3>2, <3>3
  <2>12. CASE ReadLockItem(p)
    BY <1>1, <2>12 DEF ReadLockItem, LocalsKnown, Made
  <2>13. CASE Remove(p)
    <3>1. CASE UNCHANGED <<pc, key, item>>
      BY <2>1, <2>13, <3>1 DEF Remove, HasTable
    <3>2. CASE Return(p)
      BY <2>2, <3>2
    <3>3. CASE check[p] # NoCheck /\ Goto(p, "loop")
      <4>1. check[p] \in Check
        BY <3>3 DEF TypeOK
      <4>2. check'[p] \in Check
        BY <2>13, <4>1, CallCheckStep DEF CheckStep, Remove, EndCheck, HasTable
      <4>3. QED BY <3>3, <4>2
    <3>4. QED BY <2>13, <3>1, <3>2, <3>3 DEF Remove
  <2>14. CASE BeginCheck(p)
    <3>1. check'[p] \in Check \cup {NoCheck} /\ check'[p] # NoCheck
      BY <2>14, TypesPreserved DEF TypeOK, BeginCheck, NoCheck
    <3>2. QED BY <2>14, <3>1 DEF BeginCheck
  <2>15. CASE CheckItem(p)
    <3>1. pc[p] = "loop" /\ check[p] \in Check
      BY <2>15 DEF CheckItem, LocalsKnown
    <3>2. check'[p] \in Check
      BY <2>15, CheckItemGoesOn
    <3>3. PICK k \in Keys :
            \/ /\ items[k] # NoItem /\ Goto(p, "expire")
               /\ key' = [key EXCEPT ![p] = k] /\ item' = [item EXCEPT ![p] = items[k]]
            \/ UNCHANGED <<pc, key, item>>
      BY <2>15 DEF CheckItem, Visit
    <3>4. QED BY <2>4, <3>1, <3>2, <3>3
  <2>16. QED
    BY <2>5, <2>6, <2>7, <2>8, <2>9, <2>10, <2>11, <2>12, <2>13, <2>14, <2>15 DEF Call
<1>6. ASSUME NEW q \in Procs
      PROVE  /\ pc'[q] \in {"add", "addNew", "load", "delete", "expire", "remove"} =>
                  key'[q] \in Keys
             /\ pc'[q] \in {"add", "keep", "expire", "remove"} =>
                  item'[q] \in Items /\ info'[item'[q]] \in CacheItem
             /\ pc'[q] = "loop" => check'[q] \in Check
  <2>1. CASE q = p
    BY <1>5, <2>1
  <2>2. CASE q # p
    BY <1>1, <1>3, <1>4, <2>2 DEF LocalsKnown, Made
  <2>3. QED BY <2>1, <2>2
<1>7. QED BY <1>6 DEF LocalsKnown, Made

-----------------------------------------------------------------------------
(* Types and the table's lock. *)

LEMMA LockCall ==
  ASSUME LockInv, NEW p \in Procs, Call(p)
  PROVE  LockInv'
<1>1. ReadersFinite'
  BY ItemLockStep, TableLockPreserved DEF ReadersFinite
<1>2. QED
  BY <1>1, TypesPreserved, StoredMadePreserved, LocalsPreserved, TableLockPreserved
  DEF LockInv

\* Time is not looked at here.
LEMMA LockTimePasses == ASSUME LockInv, TimePasses PROVE LockInv'
<1>1. UNCHANGED <<items, info, lock, itemLock, pc, key, item, check>>
  BY DEF TimePasses, locals
<1>2. StoredMade' /\ LocalsKnown' /\ ReadersFinite' /\ LoopHasTable'
  BY <1>1 DEF LockInv, StoredMade, LocalsKnown, ReadersFinite, LoopHasTable, Made
<1>3. QED BY <1>2, TimePassesTypes DEF LockInv

LEMMA LockNext == LockInv /\ [Next]_vars => LockInv'
<1> SUFFICES ASSUME LockInv, [Next]_vars PROVE LockInv'
  OBVIOUS
<1>1. CASE UNCHANGED vars
  <2>1. TypeOK'
    BY <1>1 DEF LockInv, TypeOK, vars
  <2>2. StoredMade' /\ LocalsKnown' /\ ReadersFinite' /\ LoopHasTable'
    BY <1>1
    DEF LockInv, StoredMade, LocalsKnown, ReadersFinite, LoopHasTable, Made, vars
  <2>3. QED BY <2>1, <2>2 DEF LockInv
<1>2. QED BY <1>1, LockCall, LockTimePasses DEF Next

LEMMA LockInvariant == Spec => []LockInv
<1>1. QED BY LockInit, LockNext, PTL DEF Spec

\* For any goroutines, keys and items every reachable state of the table is well
\* typed: only items that were made are stored or accessed, and the interval and
\* the timer stay within the life spans (cachetable.go:80-123).
THEOREM CacheTypeCorrect == Spec => []TypeOK
<1>1. LockInv => TypeOK
  BY DEF LockInv
<1>2. QED BY <1>1, LockInvariant, PTL

\* For any goroutines, keys and items nobody writes the table while a check ranges
\* over it: the lock that addInternal and deleteInternal release and take again in
\* the middle is always taken again before the map is used (cachetable.go:96-115).
THEOREM RangeUndisturbed == Spec => ItemsStable
<1>1. LockInv /\ [Next]_vars =>
        [\A p \in Procs : (pc[p] = "loop" /\ pc'[p] = "loop") => items' = items]_vars
  <2> SUFFICES ASSUME LockInv, Next, NEW p \in Procs, pc[p] = "loop"
               PROVE  items' = items
    OBVIOUS
  <2>1. CASE TimePasses
    BY <2>1 DEF TimePasses
  <2>2. ASSUME NEW q \in Procs, Call(q), items' # items PROVE FALSE
    <3>1. Acquired(lock, q) /\ pc[q] # "loop"
      BY <2>2, CallItemsStep
    <3>2. Acquired(lock, p)
      BY DEF LockInv, LoopHasTable
    <3>3. QED BY <3>1, <3>2 DEF Acquired
  <2>3. QED BY <2>1, <2>2 DEF Next
<1>2. QED BY <1>1, LockInvariant, PTL DEF Spec, ItemsStable

-----------------------------------------------------------------------------
(* The timer. *)

LEMMA CallKeepsNow == ASSUME NEW p, Call(p) PROVE now' = now
BY DEF Call, LockTable, Add, BeginAdd, EndAdd, addInternal, NotFoundAdd, BeginCall,
       EndNotFoundAdd, Value, LockItem, KeepAlive, NotLoaded, Loaded, Exists,
       EndExists, Delete, BeginDelete, ReadLockItem, Remove, Flush, EndFlush,
       TimerFires, BeginCheck, CheckItem, EndCheck

\* What a call does to the table's timers.
TimingStep(p) ==
  \/ UNCHANGED timing /\ ~BeginCheck(p) /\ ~EndCheck(p) /\ ~TimerFires(p)
  \/ EndFlush(p) /\ cleanupTimer' = 0 /\ cleanupInterval' = 0 /\ UNCHANGED strayTimers
  \/ BeginCheck(p) /\ cleanupTimer' = 0 /\ UNCHANGED <<cleanupInterval, strayTimers>>
  \/ TimerFires(p) /\ UNCHANGED cleanupInterval
  \/ EndCheck(p)

LEMMA CallTimingStep == ASSUME NEW p, Call(p) PROVE TimingStep(p)
<1>1. CASE BeginCheck(p) \/ EndCheck(p) \/ TimerFires(p)
  BY <1>1 DEF TimingStep, BeginCheck, StopTimer, EndCheck, TimerFires
<1>2. CASE EndFlush(p)
  BY <1>2 DEF TimingStep, EndFlush, StopTimer
<1>3. CASE UNCHANGED timing
  BY <1>1, <1>3 DEF TimingStep
<1>4. \/ BeginCheck(p) \/ EndCheck(p) \/ TimerFires(p) \/ EndFlush(p) \/ UNCHANGED timing
  BY DEF Call, LockTable, Add, BeginAdd, EndAdd, addInternal, NotFoundAdd, BeginCall,
         EndNotFoundAdd, Value, LockItem, KeepAlive, NotLoaded, Loaded, Exists,
         EndExists, Delete, BeginDelete, ReadLockItem, Remove, Flush, CheckItem
<1>5. QED BY <1>1, <1>2, <1>3, <1>4

\* The locks of the items do not mend, and a removal that goes through breaks one.
LEMMA SoundBefore ==
  ASSUME LockInv, NEW p \in Procs, Call(p), ItemLocksSound'
  PROVE  ItemLocksSound /\ (Remove(p) => pc'[p] = "remove")
<1>1. ItemLocksSound
  BY ItemLockStep DEF ItemLocksSound
<1>2. ASSUME Remove(p), ~UnlockIsFatal(itemLock[item[p]]) PROVE FALSE
  <2>1. PICK i \in Items : i = item[p] /\ ~UnlockIsFatal(itemLock[i])
    BY <1>2 DEF LockInv, LocalsKnown, Remove, HasTable
  <2>2. itemLock'[i] = UnlockReader(itemLock[i], p)
    BY <1>2, <2>1 DEF Remove, LockInv, TypeOK
  <2>3. itemLock'[i].hung # {}
    BY <2>1, <2>2, UnlockReaderMutex DEF LockInv, TypeOK, ReadersFinite
  <2>4. QED BY <2>3 DEF ItemLocksSound
<1>3. QED BY <1>1, <1>2 DEF Remove, HasTable

\* The life of an item only gets longer.
LEMMA LatestEndGrows ==
  ASSUME LockInv, InThePast, NEW p \in Procs, Call(p), NEW i \in Items, Made(i)
  PROVE  /\ info'[i].lifeSpan = info[i].lifeSpan
         /\ LatestEnd(i) \in Nat /\ LatestEnd(i)' \in Nat
         /\ LatestEnd(i) <= LatestEnd(i)'
<1>1. /\ info'[i].lifeSpan = info[i].lifeSpan
      /\ info'[i].accessedOn \in {info[i].accessedOn, now}
      /\ info'[i].storedOn \in {info[i].storedOn, now}
  BY CallInfoStep DEF InfoStep
<1>2. /\ info[i].lifeSpan \in Nat /\ now \in Nat
      /\ info[i].accessedOn \in Nat /\ info[i].storedOn \in Nat
  BY CacheAssumption DEF Made, CacheItem, Lives, LockInv, TypeOK
<1>3. info[i].accessedOn <= now /\ info[i].storedOn <= now
  BY DEF InThePast
<1>4. QED BY <1>1, <1>2, <1>3 DEF LatestEnd

LEMMA InThePastPreserved ==
  ASSUME LockInv, InThePast, NEW p \in Procs, Call(p)
  PROVE  InThePast'
<1>1. now \in Nat /\ now' = now
  BY CallKeepsNow, CacheAssumption DEF LockInv, TypeOK
<1>2. ASSUME NEW i \in Items, Made(i)'
      PROVE  info'[i].accessedOn <= now /\ info'[i].storedOn <= now
  BY <1>1, <1>2, CallInfoStep DEF InfoStep, InThePast
<1>3. QED BY <1>1, <1>2 DEF InThePast

\* Only the goroutine that ends its check stops checking.
LEMMA CheckingGoesOn ==
  ASSUME LockInv, NEW p \in Procs, Call(p), Checking, ~EndCheck(p)
  PROVE  Checking'
<1>1. PICK q \in Procs : pc[q] = "check" \/ check[q] # NoCheck
  BY DEF Checking
<1>2. CASE check[q] # NoCheck
  <2>1. check'[q] # NoCheck
    BY <1>2, CallCheckStep DEF CheckStep, Check, NoCheck
  <2>2. QED BY <2>1 DEF Checking
<1>3. CASE pc[q] = "check" /\ BeginCheck(p) /\ q = p
  <2>1. check'[p] # NoCheck
    BY <1>3 DEF BeginCheck, LockInv, TypeOK, NoCheck
  <2>2. QED BY <2>1 DEF Checking
<1>4. CASE pc'[q] = "check"
  BY <1>4 DEF Checking
<1>5. pc[q] = "check" => pc'[q] = "check" \/ (BeginCheck(p) /\ q = p)
  <2>1. CASE q # p
    BY <2>1, CallTableStep
  <2>2. CASE q = p
    BY <2>2
    DEF Call, LockTable, Add, EndAdd, NotFoundAdd, BeginCall, EndNotFoundAdd, Value,
        LockItem, KeepAlive, NotLoaded, Loaded, Exists, EndExists, Delete, BeginDelete,
        ReadLockItem, Remove, Flush, EndFlush, TimerFires, CheckItem, EndCheck,
        HasTable
  <2>3. QED BY <2>1, <2>2
<1>6. QED BY <1>1, <1>2, <1>3, <1>4, <1>5

\* A goroutine gets to the loop when it begins a check, visits an item, or, with
\* the lock of an item broken, has removed one.
LEMMA IntoLoop ==
  ASSUME LockInv, NEW p \in Procs, Call(p), pc'[p] = "loop"
  PROVE  BeginCheck(p) \/ CheckItem(p) \/ Remove(p)
<1>1. DOMAIN pc = Procs
  BY DEF LockInv, TypeOK
<1> USE <1>1 DEF Goto, Return
<1>2. ~(LockTable(p) \/ Add(p) \/ Loaded(p) \/ EndAdd(p) \/ EndNotFoundAdd(p))
  BY DEF LockTable, Writers, Add, Loaded, BeginAdd, EndAdd, EndNotFoundAdd, addInternal
<1>3. ~(NotFoundAdd(p) \/ Value(p) \/ LockItem(p) \/ KeepAlive(p) \/ NotLoaded(p))
  BY DEF NotFoundAdd, BeginCall, Value, LockItem, KeepAlive, NotLoaded
<1>4. ~(Exists(p) \/ EndExists(p) \/ Delete(p) \/ BeginDelete(p) \/ ReadLockItem(p))
  BY DEF Exists, EndExists, Delete, BeginCall, BeginDelete, ReadLockItem
<1>5. ~(Flush(p) \/ EndFlush(p) \/ TimerFires(p) \/ EndCheck(p))
  BY DEF Flush, EndFlush, TimerFires, EndCheck
<1>6. QED BY <1>2, <1>3, <1>4, <1>5 DEF Call

\* A check that stays in its loop has been there since it began; nothing that the
\* others do in between makes what it knows wrong.
LEMMA RangeExactPreserved ==
  ASSUME CacheInv, NEW p \in Procs, Call(p), ItemLocksSound',
         NEW q \in Procs, pc'[q] = "loop"
  PROVE  RangeExact(q)'
<1>1. /\ LockInv /\ InThePast /\ ItemLocksSound /\ now' = now
      /\ pc[q] = "loop" => RangeExact(q) /\ Acquired(lock, q)
      /\ ~(Remove(p) /\ pc'[p] = "loop")
  BY SoundBefore, CallKeepsNow DEF CacheInv, LockInv, LoopHasTable, TimerExact
<1>2. items \in [Keys -> Items \cup {NoItem}] /\ StoredMade
  BY <1>1 DEF LockInv, TypeOK, Table
<1>3. CASE q # p
  <2>1. pc[q] = "loop" /\ RangeExact(q) /\ Acquired(lock, q) /\ ~Acquired(lock, p)
    BY <1>1, <1>3, CallTableStep DEF Acquired
  <2>2. UNCHANGED items
    BY <1>1, <2>1, CallItemsStep
  <2>3. check'[q] = check[q]
    <3>1. CASE Remove(p) \/ EndFlush(p)
      BY <2>1, <3>1 DEF Remove, EndFlush, HasTable
    <3>2. CASE BeginCheck(p) \/ EndCheck(p)
      BY <1>1, <1>3, <3>2 DEF BeginCheck, EndCheck, LockInv, TypeOK
    <3>3. CASE CheckItem(p)
      BY <1>1, <1>3, <3>3, CheckItemGoesOn
    <3>4. CASE UNCHANGED check
      BY <3>4
    <3>5. QED
      BY <3>1, <3>2, <3>3, <3>4
      DEF Call, LockTable, Add, BeginAdd, EndAdd, addInternal, NotFoundAdd, BeginCall,
          EndNotFoundAdd, Value, LockItem, KeepAlive, NotLoaded, Loaded, Exists,
          EndExists, Delete, BeginDelete, ReadLockItem, Flush, TimerFires
  <2>4. cleanupTimer' = 0
    <3>1. cleanupTimer = 0
      BY <2>1 DEF RangeExact
    <3>2. CASE TimerFires(p)
      BY <3>1, <3>2 DEF TimerFires
    <3>3. CASE EndCheck(p)
      BY <1>1, <2>1, <3>3 DEF EndCheck, LockInv, LoopHasTable
    <3>4. QED BY <3>1, <3>2, <3>3, CallTimingStep DEF TimingStep, timing
  <2>5. ASSUME NEW k \in Keys, NEW i \in Items, i = items[k], info'[i].lifeSpan > 0
        PROVE  \/ check[q].left[k] = "must"
               \/ check[q].smallest > 0 /\ now + check[q].smallest <= LatestEnd(i)'
    <3>1. /\ info'[i].lifeSpan = info[i].lifeSpan
          /\ LatestEnd(i) \in Nat /\ LatestEnd(i)' \in Nat
          /\ LatestEnd(i) <= LatestEnd(i)'
      BY <1>1, <1>2, <2>5, CacheAssumption, LatestEndGrows DEF StoredMade
    <3>2. \/ check[q].left[k] = "must"
          \/ check[q].smallest > 0 /\ now + check[q].smallest <= LatestEnd(i)
      BY <2>1, <2>5, <3>1, CacheAssumption DEF RangeExact
    <3>3. check[q].smallest \in Nat /\ now \in Nat
      BY <1>1, <2>1, CacheAssumption DEF LockInv, LocalsKnown, TypeOK, Check
    <3>4. QED BY <3>1, <3>2, <3>3
  <2>6. QED BY <1>1, <1>2, <2>1, <2>2, <2>3, <2>4, <2>5 DEF RangeExact
<1>4. CASE q = p /\ BeginCheck(p)
  <2>1. /\ cleanupTimer' = 0 /\ UNCHANGED items
        /\ check'[p] = [since |-> now, smallest |-> 0, flushed |-> NotFlushed,
             left |-> [k \in Keys |-> IF items[k] # NoItem THEN "must" ELSE "may"]]
    BY <1>1, <1>4 DEF BeginCheck, StopTimer, LockInv, TypeOK
  <2>2. QED BY <1>1, <1>4, <2>1 DEF RangeExact
<1>5. CASE q = p /\ CheckItem(p)
  <2>1. /\ pc[p] = "loop" /\ RangeExact(p) /\ check[p] \in Check
        /\ UNCHANGED <<items, info, cleanupTimer>>
    BY <1>1, <1>5 DEF CheckItem, timing, LockInv, LocalsKnown
  <2>2. PICK k \in Keys : Visit(p, k)
    BY <1>5 DEF CheckItem
  <2>3. PICK i \in Items, d \in Nat : VisitWith(p, k, i, d)
    BY <1>1, <2>1, <2>2, VisitCheck
  <2>4. /\ i = items[k] /\ info[i] \in CacheItem
        /\ check[p].smallest \in Nat /\ check[p].since = now /\ now \in Nat
    BY <1>1, <2>1, <2>3, CacheAssumption
    DEF VisitWith, RangeExact, Check, Made, LockInv, TypeOK
  <2>5. /\ check'[p].left = [check[p].left EXCEPT ![k] = "done"]
        /\ check'[p].smallest = d /\ check'[p].since = check[p].since
        /\ check'[p].flushed = check[p].flushed
        /\ check[p].left \in [Keys -> {"must", "may", "done"}]
    <3>1. check'[p] = [check[p] EXCEPT
            !.left = [check[p].left EXCEPT ![k] = "done"], !.smallest = d]
      BY <1>1, <2>3 DEF VisitWith, LockInv, TypeOK
    <3>2. QED BY <2>1, <3>1 DEF Check
  <2>6. d = IF info[i].lifeSpan > 0 /\ EndOfLife(i) > now
            THEN Nearer(EndOfLife(i) - now, check[p].smallest)
            ELSE check[p].smallest
    BY <2>3, <2>4 DEF VisitWith
  <2>7. EndOfLife(i) \in Nat /\ LatestEnd(i) \in Nat /\ EndOfLife(i) <= LatestEnd(i)
    BY <2>4, CacheAssumption DEF EndOfLife, LatestEnd, CacheItem, Lives
  <2>8. check[p].smallest > 0 => d > 0 /\ d <= check[p].smallest
    BY <2>4, <2>6, <2>7 DEF Nearer
  <2>9. info[i].lifeSpan > 0 => d > 0 /\ now + d <= LatestEnd(i)
    <3>1. info[i].lifeSpan > 0 => EndOfLife(i) > now
      <4>1. CASE info[i].lifeSpan > 0 /\ EndOfLife(i) <= now
        <5>1. Goto(p, "expire")
          BY <2>1, <2>2, <2>4, <4>1, CacheAssumption DEF Visit, RangeExact
        <5>2. QED BY <1>1, <1>5, <5>1 DEF Goto, LockInv, TypeOK
      <4>2. QED BY <2>4, <2>7, <4>1
    <3>2. QED BY <2>4, <2>6, <2>7, <3>1 DEF Nearer
  <2>10. ASSUME NEW j \in Keys, NEW l \in Items, l = items[j], info[l].lifeSpan > 0
         PROVE  \/ check'[p].left[j] = "must"
                \/ d > 0 /\ now + d <= LatestEnd(l)
    <3>1. CASE j = k
      BY <2>4, <2>9, <2>10, <3>1
    <3>2. CASE j # k
      <4>1. check'[p].left[j] = check[p].left[j]
        BY <2>5, <3>2
      <4>2. \/ check[p].left[j] = "must"
            \/ check[p].smallest > 0 /\ now + check[p].smallest <= LatestEnd(l)
        BY <2>1, <2>10, CacheAssumption DEF RangeExact
      <4>3. LatestEnd(l) \in Nat
        <5>1. info[l] \in CacheItem
          BY <1>2, <2>10, CacheAssumption DEF StoredMade, Made
        <5>2. QED BY <5>1, CacheAssumption DEF LatestEnd, CacheItem, Lives
      <4>4. QED BY <2>4, <2>8, <4>1, <4>2, <4>3
    <3>3. QED BY <3>1, <3>2
  <2>11. QED
    BY <1>1, <1>2, <1>5, <2>1, <2>4, <2>5, <2>10 DEF RangeExact, LatestEnd
<1>6. QED BY <1>1, <1>3, <1>4, <1>5, IntoLoop

\* The end of a check that nobody has interrupted: every item is accounted for.
LEMMA EndCheckExact ==
  ASSUME CacheInv, NEW p \in Procs, EndCheck(p), ItemLocksSound
  PROVE  /\ cleanupInterval' = check[p].smallest
         /\ UNCHANGED <<items, info, strayTimers>>
         /\ check[p].smallest > 0 => cleanupTimer' = now + check[p].smallest
         /\ \A k \in Keys : (items[k] # NoItem /\ info[items[k]].lifeSpan > 0) =>
              check[p].smallest > 0 /\ now + check[p].smallest <= LatestEnd(items[k])
<1>1. pc[p] = "loop" /\ RangeExact(p)
  BY DEF CacheInv, TimerExact, EndCheck
<1>2. QED BY <1>1 DEF EndCheck, NewInterval, RangeExact

LEMMA OneTimerPreserved ==
  ASSUME CacheInv, NEW p \in Procs, Call(p)
  PROVE  OneTimer'
<1> SUFFICES ASSUME ItemLocksSound', NEW t \in Times PROVE strayTimers'[t] = 0
  BY DEF OneTimer
<1>1. ItemLocksSound /\ \A u \in Times : strayTimers[u] = 0
  BY SoundBefore DEF CacheInv, OneTimer
<1>2. CASE TimerFires(p)
  <2>1. PICK u \in 1 .. now, stray \in 0 .. 1 :
          /\ IF stray = 1 THEN strayTimers[u] > 0 ELSE cleanupTimer = u
          /\ strayTimers' = [strayTimers EXCEPT ![u] = @ - stray]
    BY <1>2 DEF TimerFires
  <2>2. u \in Times
    BY <2>1, CacheAssumption DEF CacheInv, LockInv, TypeOK, Times
  <2>3. stray = 0
    BY <1>1, <2>1, <2>2
  <2>4. QED BY <1>1, <2>1, <2>2, <2>3 DEF CacheInv, LockInv, TypeOK
<1>3. CASE EndCheck(p)
  BY <1>1, <1>3, EndCheckExact
<1>4. QED BY <1>1, <1>2, <1>3, CallTimingStep DEF TimingStep, timing

LEMMA TimerExactPreserved ==
  ASSUME CacheInv, NEW p \in Procs, Call(p)
  PROVE  TimerExact'
<1> SUFFICES ASSUME ItemLocksSound' PROVE TimerExact'
  BY DEF TimerExact
<1>1. /\ LockInv /\ ItemLocksSound /\ now' = now /\ now \in Nat /\ TypeOK'
  BY SoundBefore, CallKeepsNow, TypesPreserved, CacheAssumption
  DEF CacheInv, LockInv, TypeOK
<1>2. \A q \in Procs : pc'[q] = "loop" => RangeExact(q)'
  BY RangeExactPreserved
<1>3. ASSUME cleanupInterval' > 0, ~Checking'
      PROVE  cleanupTimer' \in 1 .. now + cleanupInterval'
  <2>1. cleanupInterval' \in Nat /\ cleanupTimer' \in Nat
    BY <1>1, CacheAssumption DEF TypeOK, Times
  <2>2. CASE EndCheck(p)
    <3>1. cleanupTimer' = now + cleanupInterval'
      BY <1>1, <1>3, <2>2, EndCheckExact
    <3>2. now \in Nat /\ cleanupInterval' \in Nat /\ cleanupInterval' > 0
      BY <1>1, <1>3, <2>1
    <3>3. \A n, d \in Nat : d > 0 => n + d \in 1 .. n + d
      OBVIOUS
    <3>4. QED BY <3>1, <3>2, <3>3
  <2>3. CASE EndFlush(p) /\ cleanupInterval' = 0
    BY <1>3, <2>3
  <2>4. CASE BeginCheck(p)
    <3>1. check'[p] # NoCheck
      BY <1>1, <2>4 DEF BeginCheck, LockInv, TypeOK, NoCheck
    <3>2. QED BY <1>3, <3>1 DEF Checking
  <2>5. CASE TimerFires(p)
    <3>1. pc'[p] = "check"
      BY <1>1, <2>5 DEF TimerFires, Goto, LockInv, TypeOK
    <3>2. QED BY <1>3, <3>1 DEF Checking
  <2>6. CASE UNCHANGED timing /\ ~EndCheck(p)
    <3>1. ~Checking
      BY <1>1, <1>3, <2>6, CheckingGoesOn
    <3>2. QED BY <1>1, <1>3, <2>6, <3>1 DEF CacheInv, TimerExact, timing
  <2>7. QED BY <2>2, <2>3, <2>4, <2>5, <2>6, CallTimingStep DEF TimingStep
<1>4. QED BY <1>1, <1>2, <1>3 DEF TimerExact

\* Who stores an item checks at once, or a check is due before the item's end.
LEMMA StoreStep ==
  ASSUME LockInv, NEW p \in Procs, Call(p), NEW k \in Keys, NEW i \in Items,
         items'[k] = i, items[k] # i
  PROVE  /\ UNCHANGED timing /\ ~EndCheck(p) /\ Made(i)'
         /\ info'[i].storedOn = now
         /\ info'[i].lifeSpan > 0 /\ pc'[p] # "check" =>
              cleanupInterval # 0 /\ ~(info'[i].lifeSpan < cleanupInterval)
<1>1. items \in [Keys -> Items \cup {NoItem}] /\ DOMAIN pc = Procs
  BY DEF LockInv, TypeOK, Table
<1>2. i # NoItem
  BY CacheAssumption
<1>3. CASE EndAdd(p)
  <2>1. key[p] \in Keys /\ item[p] \in Items /\ Made(item[p])
    BY <1>3 DEF EndAdd, HasTable, LockInv, LocalsKnown
  <2>2. items' = [items EXCEPT ![key[p]] = item[p]]
    BY <1>3 DEF EndAdd, addInternal
  <2>3. i = item[p]
    BY <1>1, <2>1, <2>2
  <2>4. info' = [info EXCEPT ![i] = [info[i] EXCEPT !.storedOn = now]]
    BY <1>3, <2>3 DEF EndAdd
  <2>5. info'[i] = [info[i] EXCEPT !.storedOn = now] /\ info[i] \in CacheItem
    BY <2>1, <2>3, <2>4 DEF LockInv, TypeOK, Made
  <2>6. /\ info'[i].storedOn = now /\ info'[i].lifeSpan = info[i].lifeSpan
        /\ info'[i] \in CacheItem
    BY <2>5 DEF CacheItem, LockInv, TypeOK
  <2>7. addInternal(p, i, key[p], info[i].lifeSpan) /\ pc[p] = "add"
    BY <1>3, <2>3 DEF EndAdd, HasTable
  <2>8. info[i].lifeSpan > 0 /\ pc'[p] # "check" =>
          cleanupInterval # 0 /\ ~(info[i].lifeSpan < cleanupInterval)
    BY <1>1, <2>7 DEF addInternal, Goto
  <2>9. UNCHANGED timing /\ ~EndCheck(p)
    BY <2>7 DEF addInternal, EndCheck
  <2>10. QED BY <2>6, <2>8, <2>9 DEF Made
<1>4. CASE EndNotFoundAdd(p)
  <2>1. key[p] \in Keys /\ pc[p] = "addNew"
    BY <1>4 DEF EndNotFoundAdd, HasTable, LockInv, LocalsKnown
  <2>2. PICK j \in Items, life \in Lives :
          NewCacheItem(j, life) /\ addInternal(p, j, key[p], life)
    BY <1>4 DEF EndNotFoundAdd
  <2>3. i = j
    BY <1>1, <2>1, <2>2 DEF addInternal
  <2>4. /\ info'[i] = [lifeSpan |-> life, accessedOn |-> now, storedOn |-> now]
        /\ Made(i)'
    BY <2>2, <2>3, NewItemMade DEF LockInv
  <2>5. life > 0 /\ pc'[p] # "check" => cleanupInterval # 0 /\ ~(life < cleanupInterval)
    BY <1>1, <2>2 DEF addInternal, Goto
  <2>6. UNCHANGED timing /\ ~EndCheck(p)
    BY <2>1, <2>2 DEF addInternal, EndCheck
  <2>7. QED BY <2>4, <2>5, <2>6
<1>5. CASE Remove(p)
  BY <1>1, <1>2, <1>5 DEF Remove
<1>6. CASE EndFlush(p)
  BY <1>2, <1>6 DEF EndFlush
<1>7. EndAdd(p) \/ EndNotFoundAdd(p) \/ Remove(p) \/ EndFlush(p)
  BY DEF Call, LockTable, Add, BeginAdd, Loaded, NotFoundAdd, BeginCall, Value, LockItem,
         KeepAlive, NotLoaded, Exists, EndExists, Delete, BeginDelete, ReadLockItem,
         Flush, TimerFires, BeginCheck, CheckItem, EndCheck
<1>8. QED BY <1>3, <1>4, <1>5, <1>6, <1>7

LEMMA ExpiryPreserved ==
  ASSUME CacheInv, NEW p \in Procs, Call(p)
  PROVE  ExpiryInTime'
<1> SUFFICES ASSUME ItemLocksSound', ~Checking',
                    NEW k \in Keys, NEW i \in Items, items'[k] = i,
                    info'[i].lifeSpan > 0
             PROVE  cleanupTimer' \in 1 .. LatestEnd(i)'
  <2>1. items' \in [Keys -> Items \cup {NoItem}]
    BY TypesPreserved DEF CacheInv, TypeOK, Table
  <2>2. QED BY <2>1 DEF ExpiryInTime, Checking
<1>1. /\ LockInv /\ InThePast /\ ItemLocksSound /\ now' = now /\ i # NoItem
      /\ Made(i)'
  <2>1. StoredMade'
    BY StoredMadePreserved DEF CacheInv
  <2>2. QED
    BY <2>1, SoundBefore, CallKeepsNow, CacheAssumption DEF CacheInv, StoredMade
<1>2. now \in Nat /\ LatestEnd(i)' \in Nat /\ cleanupTimer' \in Nat
  <2>1. now \in Nat /\ cleanupTimer' \in Nat
    BY <1>1, TypesPreserved, CacheAssumption DEF LockInv, TypeOK, Times
  <2>2. info'[i].lifeSpan \in Nat /\ info'[i].accessedOn \in Nat /\ info'[i].storedOn \in Nat
    BY <1>1, CacheAssumption DEF Made, CacheItem, Lives
  <2>3. QED BY <2>1, <2>2 DEF LatestEnd
<1>3. ASSUME items[k] = i
      PROVE  /\ info[i].lifeSpan > 0 /\ LatestEnd(i) \in Nat
             /\ LatestEnd(i) <= LatestEnd(i)'
  <2>1. Made(i)
    BY <1>1, <1>3 DEF LockInv, StoredMade
  <2>2. QED BY <1>1, <2>1, LatestEndGrows
<1>4. CASE EndCheck(p)
  <2>1. /\ items[k] = i /\ info[i].lifeSpan > 0 /\ UNCHANGED info
        /\ cleanupTimer' = now + check[p].smallest
        /\ check[p].smallest > 0 /\ now + check[p].smallest <= LatestEnd(i)
    BY <1>1, <1>4, EndCheckExact
  <2>2. LatestEnd(i) \in Nat /\ LatestEnd(i) <= LatestEnd(i)'
    BY <1>3, <2>1
  <2>3. check[p].smallest \in Nat
    BY <1>1, <1>4, CacheAssumption DEF EndCheck, LockInv, LocalsKnown, Check
  <2>4. QED BY <1>2, <2>1, <2>2, <2>3
<1>5. CASE EndFlush(p)
  BY <1>1, <1>5 DEF EndFlush
<1>6. CASE BeginCheck(p) \/ TimerFires(p)
  <2>1. ASSUME BeginCheck(p) PROVE check'[p] # NoCheck
    BY <1>1, <2>1 DEF BeginCheck, LockInv, TypeOK, NoCheck
  <2>2. ASSUME TimerFires(p) PROVE pc'[p] = "check"
    BY <1>1, <2>2 DEF TimerFires, Goto, LockInv, TypeOK
  <2>3. QED BY <1>6, <2>1, <2>2 DEF Checking
<1>7. CASE UNCHANGED timing /\ ~EndCheck(p)
  <2>1. ~Checking
    BY <1>1, <1>7, CheckingGoesOn
  <2>2. CASE items[k] = i
    <3>1. cleanupTimer \in 1 .. LatestEnd(i)
      BY <1>1, <1>3, <2>1, <2>2 DEF CacheInv, ExpiryInTime, Checking
    <3>2. cleanupTimer' = cleanupTimer
      BY <1>7 DEF timing
    <3>3. QED BY <1>2, <1>3, <2>2, <3>1, <3>2
  <2>3. CASE items[k] # i
    <3>1. /\ info'[i].storedOn = now
          /\ pc'[p] # "check" =>
               cleanupInterval # 0 /\ ~(info'[i].lifeSpan < cleanupInterval)
      BY <1>1, <2>3, StoreStep
    <3>2. pc'[p] # "check"
      BY DEF Checking
    <3>3. cleanupInterval \in Nat /\ cleanupTimer' = cleanupTimer
      BY <1>1, <1>7, CacheAssumption DEF LockInv, TypeOK, timing
    <3>4. cleanupTimer \in 1 .. now + cleanupInterval
      BY <1>1, <2>1, <3>1, <3>2, <3>3 DEF CacheInv, TimerExact
    <3>5. info'[i].lifeSpan \in Nat /\ info'[i].accessedOn \in Nat
      BY <1>1, CacheAssumption DEF Made, CacheItem, Lives
    <3>6. info'[i].lifeSpan + now <= LatestEnd(i)'
      BY <1>2, <3>1, <3>5 DEF LatestEnd
    <3>7. QED BY <1>2, <3>1, <3>2, <3>3, <3>4, <3>5, <3>6
  <2>4. QED BY <2>2, <2>3
<1>8. QED BY <1>4, <1>5, <1>6, <1>7, CallTimingStep DEF TimingStep

LEMMA CacheInit == Init => CacheInv
<1> SUFFICES ASSUME Init PROVE CacheInv
  OBVIOUS
<1>1. InThePast
  BY NoItemAssumption DEF Init, InThePast, Made
<1>2. TimerExact
  BY DEF Init, TimerExact
<1>3. OneTimer /\ ExpiryInTime
  BY DEF Init, OneTimer, ExpiryInTime
<1>4. QED BY <1>1, <1>2, <1>3, LockInit DEF CacheInv

LEMMA CacheCall == ASSUME CacheInv, NEW p \in Procs, Call(p) PROVE CacheInv'
<1>1. LockInv' /\ InThePast'
  BY LockCall, InThePastPreserved DEF CacheInv
<1>2. QED
  BY <1>1, TimerExactPreserved, OneTimerPreserved, ExpiryPreserved DEF CacheInv

\* Time passes between the calls of a check only, so a range stays exact.
LEMMA CacheTimePasses == ASSUME CacheInv, TimePasses PROVE CacheInv'
<1>1. /\ UNCHANGED <<items, info, itemLock, cleanupInterval, cleanupTimer, strayTimers>>
      /\ UNCHANGED <<pc, check>> /\ \A p \in Procs : pc[p] # "loop"
  BY DEF TimePasses, timing
<1>2. LockInv' /\ now \in Nat /\ cleanupInterval \in Nat /\ now' = now + 1
  BY LockTimePasses, CacheAssumption DEF CacheInv, LockInv, TypeOK, TimePasses
<1>3. InThePast'
  <2> SUFFICES ASSUME NEW i \in Items, info[i] \in CacheItem
               PROVE  info[i].accessedOn <= now + 1 /\ info[i].storedOn <= now + 1
    BY <1>1, <1>2 DEF InThePast, Made
  <2>1. info[i].accessedOn <= now /\ info[i].storedOn <= now
    BY DEF CacheInv, InThePast, Made
  <2>2. info[i].accessedOn \in Nat /\ info[i].storedOn \in Nat
    BY CacheAssumption DEF CacheItem
  <2>3. QED BY <1>2, <2>1, <2>2
<1>4. TimerExact'
  <2>1. cleanupTimer \in 1 .. now + cleanupInterval =>
          cleanupTimer \in 1 .. now + 1 + cleanupInterval
    BY <1>2
  <2>2. Checking' = Checking
    BY <1>1 DEF Checking
  <2>3. ItemLocksSound' = ItemLocksSound
    BY <1>1 DEF ItemLocksSound
  <2>4. QED BY <1>1, <1>2, <2>1, <2>2, <2>3 DEF CacheInv, TimerExact
<1>5. OneTimer' /\ ExpiryInTime'
  BY <1>1 DEF CacheInv, OneTimer, ExpiryInTime, ItemLocksSound, LatestEnd
<1>6. QED BY <1>2, <1>3, <1>4, <1>5 DEF CacheInv

LEMMA CacheNext == CacheInv /\ [Next]_vars => CacheInv'
<1> SUFFICES ASSUME CacheInv, [Next]_vars PROVE CacheInv'
  OBVIOUS
<1>1. CASE UNCHANGED vars
  <2>1. LockInv'
    BY <1>1, LockNext DEF CacheInv
  <2>2. InThePast' /\ OneTimer' /\ ExpiryInTime'
    BY <1>1
    DEF CacheInv, InThePast, Made, OneTimer, ExpiryInTime, ItemLocksSound, LatestEnd,
        vars, timing
  <2>3. TimerExact'
    BY <1>1
    DEF CacheInv, TimerExact, RangeExact, Checking, ItemLocksSound, LatestEnd, vars,
        timing
  <2>4. QED BY <2>1, <2>2, <2>3 DEF CacheInv
<1>2. QED BY <1>1, CacheCall, CacheTimePasses DEF Next

LEMMA CacheInvariant == Spec => []CacheInv
<1>1. QED BY CacheInit, CacheNext, PTL DEF Spec

\* For any goroutines, keys and items a table has no timer but its own: addInternal,
\* the timer and Flush may start as many checks as they like, each stops the timer
\* before the next one is started (cachetable.go:84-86,119-123,262-264).
THEOREM OnlyOneTimer == Spec => []OneTimer
<1>1. CacheInv => OneTimer
  BY DEF CacheInv
<1>2. QED BY <1>1, CacheInvariant, PTL

\* For any goroutines, keys and items an item that may expire is looked at when its
\* life span is over: a check is due by then or going on, however adds, accesses,
\* flushes and checks overlap (cachetable.go:92-123,145-148,254-265).
THEOREM ExpiryLookedAtInTime == Spec => []ExpiryInTime
<1>1. CacheInv => ExpiryInTime
  BY DEF CacheInv
<1>2. QED BY <1>1, CacheInvariant, PTL
=============================================================================
