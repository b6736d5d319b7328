------------------------------- MODULE RWMutex -------------------------------
(***************************************************************************)
(* Go's sync.RWMutex as a value.  A writer first announces itself, which   *)
(* keeps new readers out, and then waits for the readers inside.  Unlock   *)
(* checks only that some writer has announced itself: a reader that calls  *)
(* it by mistake ends the process, or, when a writer was waiting, lets new *)
(* readers and writers in and leaves itself counted as a reader for ever.  *)
(***************************************************************************)
EXTENDS FiniteSets, Naturals

CONSTANTS Procs,    \* goroutines
          None      \* no goroutine

ASSUME MutexAssumption == None \notin Procs

\* w: the writer announced; readers: the goroutines inside; hung: the writers
\* that wait for a reader that is never counted out; spare: tokens that let a
\* reader pass an announced writer.
Mutex == [w : Procs \cup {None}, readers : SUBSET Procs,
          hung : SUBSET Procs, spare : Nat]

Unlocked == [w |-> None, readers |-> {}, hung |-> {}, spare |-> 0]

\* Lock: announce, then have the lock.
CanAnnounce(m, p) == m.w = None /\ p \notin m.hung
Announce(m, p)    == [m EXCEPT !.w = p]
Acquired(m, p)    == m.w = p /\ m.readers = {} /\ m.hung = {}

\* Unlock by the writer.
Unlock(m) == [m EXCEPT !.w = None]

\* RLock; a reader that releases the lock at once only needs CanRead.
CanRead(m) == m.w = None \/ m.spare > 0
PassRead(m) == IF m.w = None THEN m ELSE [m EXCEPT !.spare = @ - 1]
RLock(m, p) == [PassRead(m) EXCEPT !.readers = @ \cup {p}]

\* Unlock by a reader: fatal unless a writer has announced itself.
UnlockIsFatal(m) == m.w = None
UnlockReader(m, p) ==
  [w |-> None, readers |-> m.readers \ {p}, hung |-> m.hung \cup {m.w},
   spare |-> m.spare + Cardinality(m.readers)]
=============================================================================
