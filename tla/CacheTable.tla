------------------------------ MODULE CacheTable ------------------------------
(***************************************************************************)
(* One table of cache2go, used by goroutines at the same time: the lock of *)
(* the table, which addInternal and deleteInternal release in the middle,  *)
(* the locks of the items, and the timer that removes what nobody has      *)
(* accessed for its life span.  Callbacks are steps in which no lock of    *)
(* the table is held; what they do is left out.                            *)
(***************************************************************************)
EXTENDS RWMutex

CONSTANTS Keys,
          Items,      \* bound: the items that are ever made
          NoItem,     \* no item
          MaxLife,    \* bound: the longest life span; 0 means to live for ever
          MaxTime     \* bound: the time that passes

ASSUME CacheAssumption == MaxLife \in Nat /\ MaxTime \in Nat /\ NoItem \notin Items

VARIABLES
  items,            \* table.items: the item under each key
  info,             \* the items made so far: life span, last access, and, as a history,
                    \* when they were stored in the table
  lock,             \* the mutex of the table
  itemLock,         \* the mutex of each item
  cleanupInterval,
  cleanupTimer,     \* when the table's timer fires; 0 when it does not
  strayTimers,      \* how many timers that nothing refers to fire at a time
  now,
  pc,               \* what a goroutine is doing
  key, item,        \* the key and the item it is doing that with
  check,            \* the locals of its expirationCheck
  crashed           \* the process has ended

vars == <<items, info, lock, itemLock, cleanupInterval, cleanupTimer, strayTimers,
          now, pc, key, item, check, crashed>>
timing  == <<cleanupInterval, cleanupTimer, strayTimers>>
locals  == <<key, item>>

Lives == 0 .. MaxLife
Times == 1 .. 2 * MaxTime + MaxLife
Table == [Keys -> Items \cup {NoItem}]
CacheItem == [lifeSpan : Lives, accessedOn : 0 .. MaxTime, storedOn : 0 .. MaxTime]

ASSUME NoItemAssumption == NoItem \notin CacheItem

\* What a goroutine is doing; in the first places it calls table.Lock() with
\* something done before, in the next three as the first thing.
Writers == {"add", "remove", "check"}
Places  == Writers \cup {"addNew", "delete", "flush"}
           \cup {"idle", "load", "keep", "expire", "loop", "exists"}

\* since: the time the check started; smallest: the time to the next one; left:
\* which keys its range over the items must, may or will not visit; flushed: the
\* old items it ranges over when Flush has replaced them.
NoCheck    == <<>>
NotFlushed == <<>>
Check == [since : 0 .. MaxTime, smallest : 0 .. MaxTime + MaxLife,
          left : [Keys -> {"must", "may", "done"}], flushed : Table \cup {NotFlushed}]

Init ==
  /\ items = [k \in Keys |-> NoItem]
  /\ info = [i \in Items |-> NoItem]
  /\ lock = Unlocked
  /\ itemLock = [i \in Items |-> Unlocked]
  /\ cleanupInterval = 0
  /\ cleanupTimer = 0
  /\ strayTimers = [t \in Times |-> 0]
  /\ now = 0
  /\ pc = [p \in Procs |-> "idle"]
  /\ key = [p \in Procs |-> None]
  /\ item = [p \in Procs |-> NoItem]
  /\ check = [p \in Procs |-> NoCheck]
  /\ crashed = FALSE

RangesOverItems(q) == check[q] # NoCheck /\ check[q].flushed = NotFlushed

Goto(p, place) == pc' = [pc EXCEPT ![p] = place]

\* The call is over.
Return(p) ==
  /\ Goto(p, "idle")
  /\ key' = [key EXCEPT ![p] = None]
  /\ item' = [item EXCEPT ![p] = NoItem]

\* table.Lock(), first half; the second half is the guard HasTable of what follows.
LockTable(p) ==
  /\ pc[p] \in Writers
  /\ CanAnnounce(lock, p)
  /\ lock' = Announce(lock, p)
  /\ UNCHANGED <<items, info, itemLock, timing, now, pc, locals, check, crashed>>

HasTable(p, place) == pc[p] = place /\ Acquired(lock, p)

-----------------------------------------------------------------------------
(* Adding. *)

NewCacheItem(i, life) ==
  /\ info[i] = NoItem
  /\ info' = [info EXCEPT ![i] = [lifeSpan |-> life, accessedOn |-> now, storedOn |-> now]]

\* Stores item i, unlocks the table, and checks for expired items when no check is
\* due or one is due later than the new item.
addInternal(p, i, k, life) ==
  /\ items' = [items EXCEPT ![k] = i]
  /\ lock' = Unlock(lock)
  /\ IF life > 0 /\ (cleanupInterval = 0 \/ life < cleanupInterval)
       THEN /\ Goto(p, "check")
            /\ key' = [key EXCEPT ![p] = None]
            /\ item' = [item EXCEPT ![p] = NoItem]
       ELSE Return(p)
  /\ UNCHANGED <<itemLock, timing, now, check, crashed>>

BeginAdd(p, k) ==
  /\ Goto(p, "add")
  /\ key' = [key EXCEPT ![p] = k]
  /\ \E i \in Items, life \in Lives :
       NewCacheItem(i, life) /\ item' = [item EXCEPT ![p] = i]
  /\ UNCHANGED <<items, lock, itemLock, timing, now, check, crashed>>

Add(p) == pc[p] = "idle" /\ \E k \in Keys : BeginAdd(p, k)

\* Fault: Add calls addInternal without the lock.
EndAddUnlocked(p) ==
  /\ pc[p] = "add"
  /\ addInternal(p, item[p], key[p], info[item[p]].lifeSpan)
  /\ info' = [info EXCEPT ![item[p]].storedOn = now]

EndAdd(p) ==
  /\ HasTable(p, "add")
  /\ addInternal(p, item[p], key[p], info[item[p]].lifeSpan)
  /\ info' = [info EXCEPT ![item[p]].storedOn = now]

\* A call that begins with table.Lock().
BeginCall(p, place) ==
  /\ pc[p] = "idle" /\ CanAnnounce(lock, p)
  /\ lock' = Announce(lock, p)
  /\ Goto(p, place)
  /\ \E k \in Keys : key' = [key EXCEPT ![p] = k]
  /\ UNCHANGED <<items, info, itemLock, timing, now, item, check, crashed>>

NotFoundAdd(p) == BeginCall(p, "addNew")

\* The key is looked up and the item added under one lock.
EndNotFoundAdd(p) ==
  /\ HasTable(p, "addNew")
  /\ \/ /\ items[key[p]] # NoItem
        /\ lock' = Unlock(lock)
        /\ Return(p)
        /\ UNCHANGED <<items, info, itemLock, timing, now, check, crashed>>
     \/ /\ items[key[p]] = NoItem
        /\ \E i \in Items, life \in Lives :
             NewCacheItem(i, life) /\ addInternal(p, i, key[p], life)

-----------------------------------------------------------------------------
(* Reading. *)

\* Value looks the key up under the read lock.  What it found is kept alive, after
\* the table was unlocked; what it did not find may have a loader.
Value(p) ==
  /\ pc[p] = "idle" /\ CanRead(lock)
  /\ lock' = PassRead(lock)
  /\ \E k \in Keys :
       /\ key' = [key EXCEPT ![p] = k]
       /\ item' = [item EXCEPT ![p] = items[k]]
       /\ Goto(p, IF items[k] # NoItem THEN "keep" ELSE "load")
  /\ UNCHANGED <<items, info, itemLock, timing, now, check, crashed>>

\* KeepAlive, called by Value.
LockItem(p) ==
  /\ pc[p] = "keep"
  /\ CanAnnounce(itemLock[item[p]], p)
  /\ itemLock' = [itemLock EXCEPT ![item[p]] = Announce(@, p)]
  /\ UNCHANGED <<items, info, lock, timing, now, pc, locals, check, crashed>>

KeepAlive(p) ==
  /\ pc[p] = "keep" /\ Acquired(itemLock[item[p]], p)
  /\ info' = [info EXCEPT ![item[p]].accessedOn = now]
  /\ itemLock' = [itemLock EXCEPT ![item[p]] = Unlock(@)]
  /\ Return(p)
  /\ UNCHANGED <<items, lock, timing, now, check, crashed>>

\* There is no loader or it has nothing.
NotLoaded(p) ==
  /\ pc[p] = "load"
  /\ Return(p)
  /\ UNCHANGED <<items, info, lock, itemLock, timing, now, check, crashed>>

\* What the loader returns is added with its life span, as a new item.
Loaded(p) == pc[p] = "load" /\ BeginAdd(p, key[p])

Exists(p) ==
  /\ pc[p] = "idle" /\ CanRead(lock)
  /\ lock' = RLock(lock, p)
  /\ Goto(p, "exists")
  /\ UNCHANGED <<items, info, itemLock, timing, now, locals, check, crashed>>

\* The read lock is released by Unlock.
EndExists(p) ==
  /\ pc[p] = "exists"
  /\ IF UnlockIsFatal(lock) THEN crashed' = TRUE /\ UNCHANGED <<lock, pc>>
     ELSE lock' = UnlockReader(lock, p) /\ Goto(p, "idle") /\ UNCHANGED crashed
  /\ UNCHANGED <<items, info, itemLock, timing, now, locals, check>>

-----------------------------------------------------------------------------
(* Deleting. *)

Delete(p) == BeginCall(p, "delete")

\* deleteInternal unlocks the table to call back before it removes what it found.
BeginDelete(p) ==
  /\ HasTable(p, "delete")
  /\ lock' = Unlock(lock)
  /\ IF items[key[p]] = NoItem THEN Return(p)
     ELSE /\ Goto(p, "expire")
          /\ item' = [item EXCEPT ![p] = items[key[p]]]
          /\ UNCHANGED key
  /\ UNCHANGED <<items, info, itemLock, timing, now, check, crashed>>

\* The item is read-locked while its own callbacks run, then the table is locked.
ReadLockItem(p) ==
  /\ pc[p] = "expire" /\ CanRead(itemLock[item[p]])
  /\ itemLock' = [itemLock EXCEPT ![item[p]] = RLock(@, p)]
  /\ Goto(p, "remove")
  /\ UNCHANGED <<items, info, lock, timing, now, locals, check, crashed>>

\* A removed key need not be visited by those who range over the items.
Forget(k) ==
  check' = [q \in Procs |-> IF RangesOverItems(q) THEN [check[q] EXCEPT !.left[k] = "may"]
                            ELSE check[q]]

\* The key is deleted, whatever is under it by now, and the item's read lock released
\* by Unlock.  Delete then unlocks the table, a check goes on with its loop.
Remove(p) ==
  /\ HasTable(p, "remove")
  /\ items' = [items EXCEPT ![key[p]] = NoItem]
  /\ Forget(key[p])
  /\ IF UnlockIsFatal(itemLock[item[p]])
       THEN crashed' = TRUE /\ UNCHANGED <<itemLock, lock, pc, key, item>>
       ELSE /\ itemLock' = [itemLock EXCEPT ![item[p]] = UnlockReader(@, p)]
            /\ IF check[p] = NoCheck
                 THEN lock' = Unlock(lock) /\ Return(p)
                 ELSE /\ Goto(p, "loop")
                      /\ key' = [key EXCEPT ![p] = None]
                      /\ item' = [item EXCEPT ![p] = NoItem]
                      /\ UNCHANGED lock
            /\ UNCHANGED crashed
  /\ UNCHANGED <<info, timing, now>>

\* Fault: the timer goes on.
KeepTimer == UNCHANGED cleanupTimer

\* cleanupTimer.Stop()
StopTimer == cleanupTimer' = 0

Flush(p) ==
  /\ pc[p] = "idle" /\ CanAnnounce(lock, p)
  /\ lock' = Announce(lock, p)
  /\ Goto(p, "flush")
  /\ UNCHANGED <<items, info, itemLock, timing, now, locals, check, crashed>>

\* A check that is calling back goes on with the old items.
EndFlush(p) ==
  /\ HasTable(p, "flush")
  /\ items' = [k \in Keys |-> NoItem]
  /\ check' = [q \in Procs |-> IF RangesOverItems(q) THEN [check[q] EXCEPT !.flushed = items]
                               ELSE check[q]]
  /\ cleanupInterval' = 0
  /\ StopTimer
  /\ lock' = Unlock(lock)
  /\ Return(p)
  /\ UNCHANGED <<info, itemLock, strayTimers, now, crashed>>

-----------------------------------------------------------------------------
(* Expiration. *)

\* AfterFunc calls the check in a goroutine of its own; stray = 1 when it was not the
\* table's own timer that fired.
TimerFires(p) ==
  /\ pc[p] = "idle"
  /\ Goto(p, "check")
  /\ \E t \in 1 .. now, stray \in 0 .. 1 :
       /\ IF stray = 1 THEN strayTimers[t] > 0 ELSE cleanupTimer = t
       /\ strayTimers' = [strayTimers EXCEPT ![t] = @ - stray]
       /\ cleanupTimer' = stray * cleanupTimer
  /\ UNCHANGED <<items, info, lock, itemLock, cleanupInterval, now, locals, check, crashed>>

\* expirationCheck stops the timer and ranges over the items.
BeginCheck(p) ==
  /\ HasTable(p, "check")
  /\ StopTimer
  /\ check' = [check EXCEPT ![p] =
       [since |-> now, smallest |-> 0, flushed |-> NotFlushed,
        left |-> [k \in Keys |-> IF items[k] # NoItem THEN "must" ELSE "may"]]]
  /\ Goto(p, "loop")
  /\ UNCHANGED <<items, info, lock, itemLock, cleanupInterval, strayTimers, now, locals, crashed>>

EndOfLife(i) == info[i].accessedOn + info[i].lifeSpan

\* Fault: the next check is due when the last of the items expires.
Farther(d, smallest) == IF d > smallest THEN d ELSE smallest

\* The time to the next check, with an item that has time d left.
Nearer(d, smallest) == IF smallest = 0 \/ d < smallest THEN d ELSE smallest

\* One round of the loop.  deleteInternal looks the key up again and, when there is
\* something, unlocks the table.
Visit(p, k) ==
  LET c == check[p]
      i == IF c.flushed = NotFlushed THEN items[k] ELSE c.flushed[k]
  IN  /\ c.left[k] # "done" /\ i # NoItem
      /\ CanRead(itemLock[i])
      /\ itemLock' = [itemLock EXCEPT ![i] = PassRead(@)]
      /\ check' = [check EXCEPT ![p].left[k] = "done",
                     ![p].smallest = IF info[i].lifeSpan > 0 /\ EndOfLife(i) > c.since
                                       THEN Nearer(EndOfLife(i) - c.since, @) ELSE @]
      /\ IF info[i].lifeSpan > 0 /\ EndOfLife(i) <= c.since /\ items[k] # NoItem
           THEN /\ lock' = Unlock(lock)
                /\ Goto(p, "expire")
                /\ key' = [key EXCEPT ![p] = k]
                /\ item' = [item EXCEPT ![p] = items[k]]
           ELSE UNCHANGED <<lock, pc, key, item>>

CheckItem(p) ==
  /\ pc[p] = "loop"
  /\ \E k \in Keys : Visit(p, k)
  /\ UNCHANGED <<items, info, timing, now, crashed>>

\* Fault: the intervals add up.
IntervalAddsUp(p) == cleanupInterval + check[p].smallest

NewInterval(p) == check[p].smallest

\* The next check is due when the first of the items seen expires.
EndCheck(p) ==
  /\ pc[p] = "loop"
  /\ \A k \in Keys : check[p].left[k] # "must"
  /\ cleanupInterval' = NewInterval(p)
  /\ IF check[p].smallest > 0
       THEN /\ cleanupTimer' = now + check[p].smallest
            /\ strayTimers' = IF cleanupTimer = 0 THEN strayTimers
                              ELSE [strayTimers EXCEPT ![cleanupTimer] = @ + 1]
       ELSE UNCHANGED <<cleanupTimer, strayTimers>>
  /\ check' = [check EXCEPT ![p] = NoCheck]
  /\ lock' = Unlock(lock)
  /\ Goto(p, "idle")
  /\ UNCHANGED <<items, info, itemLock, now, locals, crashed>>

\* A check that calls nobody back takes less than a unit of time.
TimePasses ==
  /\ now < MaxTime
  /\ \A p \in Procs : pc[p] # "loop"
  /\ now' = now + 1
  /\ UNCHANGED <<items, info, lock, itemLock, timing, pc, locals, check, crashed>>

Call(p) ==
  \/ LockTable(p)
  \/ Add(p) \/ EndAdd(p) \/ NotFoundAdd(p) \/ EndNotFoundAdd(p)
  \/ Value(p) \/ LockItem(p) \/ KeepAlive(p) \/ NotLoaded(p) \/ Loaded(p)
  \/ Exists(p) \/ EndExists(p)
  \/ Delete(p) \/ BeginDelete(p) \/ ReadLockItem(p) \/ Remove(p)
  \/ Flush(p) \/ EndFlush(p)
  \/ TimerFires(p) \/ BeginCheck(p) \/ CheckItem(p) \/ EndCheck(p)

Next == ~crashed /\ (TimePasses \/ \E p \in Procs : Call(p))

Spec == Init /\ [][Next]_vars

-----------------------------------------------------------------------------
(* Properties *)

TypeOK ==
  /\ items \in Table
  /\ info \in [Items -> CacheItem \cup {NoItem}]
  /\ lock \in Mutex
  /\ itemLock \in [Items -> Mutex]
  /\ cleanupInterval \in 0 .. MaxTime + MaxLife
  /\ cleanupTimer \in Times \cup {0}
  /\ strayTimers \in [Times -> Nat]
  /\ now \in 0 .. MaxTime
  /\ pc \in [Procs -> Places]
  /\ key \in [Procs -> Keys \cup {None}]
  /\ item \in [Procs -> Items \cup {NoItem}]
  /\ check \in [Procs -> Check \cup {NoCheck}]
  /\ crashed \in BOOLEAN

\* No writer of an item waits for ever.  Otherwise an expired item was removed and
\* its lock left broken, after which checks may overlap.
ItemLocksSound == \A i \in Items : itemLock[i].hung = {}

\* An item is looked at when its life span since it was stored or accessed is over:
\* the timer fires by then or a check has begun, whatever adds, accesses, flushes and
\* checks come in between (cachetable.go:92-123,145-148,254-265).  An item that waits
\* to be stored grows old meanwhile (157-161) and is looked at later than its end.
LatestEnd(i) ==
  info[i].lifeSpan + (IF info[i].accessedOn > info[i].storedOn THEN info[i].accessedOn
                                                              ELSE info[i].storedOn)
ExpiryInTime ==
  ItemLocksSound =>
    \A k \in Keys :
      (items[k] # NoItem /\ info[items[k]].lifeSpan > 0) =>
        \/ cleanupTimer \in 1 .. LatestEnd(items[k])
        \/ \E p \in Procs : pc[p] = "check" \/ check[p] # NoCheck

\* A timer is always stopped before another one is started, so that no check runs
\* that nothing asked for (cachetable.go:84-86,119-123,262-264).
OneTimer == ItemLocksSound => \A t \in Times : strayTimers[t] = 0

\* Nobody changes the items while a check ranges over them with the table locked,
\* though the lock goes through addInternal and deleteInternal (cachetable.go:96-115,
\* 136,172,189).
ItemsStable ==
  [][\A p \in Procs : (pc[p] = "loop" /\ pc'[p] = "loop") => items' = items]_vars
=============================================================================
