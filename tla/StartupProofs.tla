---------------------------- MODULE StartupProofs ----------------------------
(***************************************************************************)
(* Proofs about Startup for every number of prospectors and every set of   *)
(* files: the crawler counts its prospectors exactly and returns only when *)
(* every first scan is over and what it handed over is stored.             *)
(***************************************************************************)
EXTENDS Startup, TLAPS, FiniteSetTheorems

-----------------------------------------------------------------------------
(* The inductive invariant. *)

\* The prospectors that are started and have not announced themselves.
Awaited == firstScan \cap (1 .. started)

\* A prospector that is not started does nothing and announces nothing.
UnstartedIdle ==
  \A p \in Prospectors : p > started => pc[p] = "new" /\ p \in firstScan

\* Who asks the registrar, and what the crawler stores, has a path.
PathsNamed ==
  /\ \A p \in Prospectors :
       pc[p] \in {"looking", "searching", "sending"} => file[p] \in Paths
  /\ crawlerPc = "storing" => storing \in Paths

\* The crawler receives only after the last prospector is started.
StartedBeforeWait == crawlerPc # "starting" => started = N

\* At most the state that is being stored has been handed over but not stored.
DueStored ==
  due \subseteq resaved \cup (IF crawlerPc = "storing" THEN {storing} ELSE {})

Returned == crawlerPc = "returned" => firstScan = {}

StartupInv ==
  /\ TypeOK /\ PendingExact
  /\ UnstartedIdle /\ PathsNamed /\ StartedBeforeWait /\ DueStored /\ Returned

-----------------------------------------------------------------------------
(* Counting. *)

\* The prospectors up to a number are finitely many, and as many.
LEMMA CountUpTo ==
  ASSUME NEW n \in Nat, NEW A \in SUBSET (1 .. n)
  PROVE  IsFiniteSet(A) /\ Cardinality(A) \in 0 .. n
<1>1. IsFiniteSet(1 .. n) /\ Cardinality(1 .. n) = n
  BY FS_Interval
<1>2. IsFiniteSet(A) /\ Cardinality(A) <= Cardinality(1 .. n)
  BY <1>1, FS_Subset
<1>3. Cardinality(A) \in Nat
  BY <1>2, FS_CardinalityType
<1>4. QED BY <1>1, <1>2, <1>3

\* One more prospector is awaited once it is started.
LEMMA StartCounts ==
  ASSUME StartupInv, StartProspector
  PROVE  /\ Cardinality(Awaited') = Cardinality(Awaited) + 1
         /\ Cardinality(Awaited') \in 0 .. N
<1> DEFINE new == started + 1
<1>1. /\ N \in Nat /\ started \in Nat /\ started' = new /\ new \in 1 .. N
      /\ firstScan' = firstScan
  BY StartupAssumption DEF StartupInv, TypeOK, StartProspector
<1>2. new \in firstScan
  BY <1>1 DEF StartupInv, UnstartedIdle, Prospectors
<1>3. Awaited' = Awaited \cup {new} /\ new \notin Awaited
  BY <1>1, <1>2 DEF Awaited
<1>4. IsFiniteSet(Awaited)
  BY <1>1, CountUpTo DEF Awaited
<1>5. Cardinality(Awaited') = Cardinality(Awaited) + 1
  BY <1>3, <1>4, FS_AddElement
<1>6. Awaited' \subseteq 1 .. N
  BY <1>1 DEF Awaited
<1>7. QED BY <1>1, <1>5, <1>6, CountUpTo

\* One prospector less is awaited once it has announced itself, and the
\* crawler returns exactly when nobody is left.
LEMMA AnnounceCounts ==
  ASSUME StartupInv, NEW p \in Prospectors, Announce(p)
  PROVE  /\ pendingProspectorCnt' = Cardinality(Awaited')
         /\ pendingProspectorCnt' \in 0 .. N
         /\ crawlerPc' = "returned" => firstScan' = {}
<1>1. /\ N \in Nat /\ started = N /\ started' = N
      /\ firstScan \subseteq 1 .. N /\ firstScan' = firstScan \ {p}
      /\ p \in firstScan
  BY StartupAssumption
  DEF StartupInv, TypeOK, StartedBeforeWait, Announce, CountAnnounced,
      Prospectors
<1>2. Awaited = firstScan /\ Awaited' = firstScan \ {p}
  BY <1>1 DEF Awaited
<1>3. IsFiniteSet(firstScan) /\ Cardinality(firstScan) \in 0 .. N
  BY <1>1, CountUpTo
<1>4. /\ IsFiniteSet(firstScan \ {p})
      /\ Cardinality(firstScan \ {p}) = Cardinality(firstScan) - 1
  BY <1>1, <1>3, FS_RemoveElement
<1>5. Cardinality(firstScan \ {p}) \in 0 .. N
  BY <1>1, CountUpTo
<1>6. /\ pendingProspectorCnt = Cardinality(firstScan)
      /\ pendingProspectorCnt' = pendingProspectorCnt - 1
      /\ crawlerPc' = "returned" => pendingProspectorCnt = 1
  BY <1>2 DEF StartupInv, PendingExact, Awaited, Announce, CountAnnounced
<1>7. ASSUME crawlerPc' = "returned" PROVE firstScan' = {}
  <2>1. Cardinality(firstScan \ {p}) = 0
    BY <1>3, <1>4, <1>6, <1>7
  <2>2. QED BY <1>1, <1>4, <2>1, FS_EmptySet
<1>8. QED BY <1>2, <1>3, <1>4, <1>5, <1>6, <1>7

-----------------------------------------------------------------------------
(* The invariant holds initially and every step preserves it. *)

LEMMA StartupInit == Init => StartupInv
<1> SUFFICES ASSUME Init PROVE StartupInv
  OBVIOUS
<1>1. 0 \in 0 .. N
  BY StartupAssumption
<1>2. TypeOK
  BY <1>1 DEF Init, TypeOK
<1>3. PendingExact
  <2>1. firstScan \cap (1 .. started) = {}
    BY DEF Init
  <2>2. QED BY <2>1, FS_EmptySet DEF Init, PendingExact
<1>4. UnstartedIdle /\ PathsNamed /\ StartedBeforeWait /\ DueStored /\ Returned
  BY DEF Init, UnstartedIdle, PathsNamed, StartedBeforeWait, DueStored,
         Returned
<1>5. QED BY <1>2, <1>3, <1>4 DEF StartupInv

LEMMA StartPreserves == StartupInv /\ StartProspector => StartupInv'
<1> SUFFICES ASSUME StartupInv, StartProspector PROVE StartupInv'
  OBVIOUS
<1> USE DEF StartupInv, StartProspector, given
<1>1. /\ N \in Nat /\ started \in Nat /\ started' = started + 1
      /\ started + 1 \in Prospectors
  BY StartupAssumption DEF TypeOK, Prospectors
<1>2. PendingExact' /\ pendingProspectorCnt' \in 0 .. N
  BY StartCounts DEF PendingExact, Awaited
<1>3. TypeOK'
  BY <1>1, <1>2 DEF TypeOK, Prospectors
<1>4. UnstartedIdle'
  BY <1>1 DEF UnstartedIdle, TypeOK, Prospectors
<1>5. PathsNamed'
  BY DEF PathsNamed, TypeOK
<1>6. StartedBeforeWait' /\ DueStored' /\ Returned'
  BY DEF StartedBeforeWait, DueStored, Returned
<1>7. QED BY <1>2, <1>3, <1>4, <1>5, <1>6

LEMMA AnnouncePreserves ==
  StartupInv /\ (\E p \in Prospectors : Announce(p)) => StartupInv'
<1> SUFFICES ASSUME StartupInv, NEW p \in Prospectors, Announce(p)
             PROVE  StartupInv'
  OBVIOUS
<1> USE DEF StartupInv, Announce, CountAnnounced, given
<1>1. N \in Nat /\ started = N
  BY StartupAssumption DEF StartedBeforeWait
<1>2. /\ PendingExact' /\ pendingProspectorCnt' \in 0 .. N
      /\ Returned'
  BY AnnounceCounts DEF PendingExact, Awaited, Returned
<1>3. TypeOK'
  BY <1>2 DEF TypeOK
<1>4. UnstartedIdle'
  BY <1>1 DEF UnstartedIdle, Prospectors
<1>5. PathsNamed' /\ StartedBeforeWait' /\ DueStored'
  BY <1>1 DEF PathsNamed, StartedBeforeWait, DueStored
<1>6. QED BY <1>2, <1>3, <1>4, <1>5

LEMMA HandOverPreserves ==
  StartupInv /\ (\E p \in Prospectors : HandOver(p)) => StartupInv'
<1> SUFFICES ASSUME StartupInv, NEW p \in Prospectors, HandOver(p)
             PROVE  StartupInv'
  OBVIOUS
<1> USE DEF StartupInv, HandOver, BeginStore, crawlerVars, given, Move
<1>1. file[p] \in Paths
  BY DEF PathsNamed
<1>2. started' = started /\ firstScan' = firstScan
      /\ pendingProspectorCnt' = pendingProspectorCnt
  OBVIOUS
<1>3. TypeOK'
  BY <1>1 DEF TypeOK
<1>4. PendingExact' /\ UnstartedIdle'
  BY <1>2 DEF PendingExact, UnstartedIdle, TypeOK
<1>5. PathsNamed'
  BY <1>1 DEF PathsNamed, TypeOK
<1>6. StartedBeforeWait' /\ Returned'
  BY DEF StartedBeforeWait, Returned
<1>7. DueStored'
  <2>1. CASE crawlerPc = "waiting"
    BY <2>1 DEF DueStored
  <2>2. CASE crawlerPc = "returned"
    BY <2>2 DEF DueStored, Returned
  <2>3. QED BY <2>1, <2>2
<1>8. QED BY <1>3, <1>4, <1>5, <1>6, <1>7

\* The other steps of a prospector leave the crawler and its count alone.
LEMMA AskPreserves ==
  ASSUME StartupInv, NEW p \in Prospectors,
         ReturnEarly(p) \/ Scan(p) \/ LookUp(p) \/ LookedUp(p) \/ Searched(p)
  PROVE  StartupInv'
<1> USE DEF StartupInv, ReturnEarly, Scan, LookUp, LookedUp, Searched, Move,
            given, crawlerVars
<1>1. UNCHANGED <<given, crawlerVars, firstScan, due>> /\ pc[p] # "new"
  OBVIOUS
<1>2. \E to \in {"returned", "scanning", "looking", "searching", "sending"} :
        pc' = [pc EXCEPT ![p] = to]
  OBVIOUS
<1>3. file' \in [Prospectors -> Paths \cup {NoPath}]
  <2>1. todo[p] \subseteq Paths
    BY DEF TypeOK
  <2>2. QED BY <2>1 DEF TypeOK
<1>4. todo' \in [Prospectors -> SUBSET Paths]
  <2>1. Globbed[p] \subseteq Paths
    BY StartupAssumption
  <2>2. QED BY <2>1 DEF TypeOK
<1>5. dead' \in BOOLEAN
  BY DEF TypeOK
<1>6. TypeOK'
  BY <1>1, <1>2, <1>3, <1>4, <1>5 DEF TypeOK
<1>7. PendingExact' /\ StartedBeforeWait' /\ DueStored' /\ Returned'
  BY <1>1 DEF PendingExact, StartedBeforeWait, DueStored, Returned
<1>8. UnstartedIdle'
  BY <1>1, <1>2 DEF UnstartedIdle, TypeOK
<1>9. PathsNamed'
  <2>1. crawlerPc' = "storing" => storing' \in Paths
    BY <1>1 DEF PathsNamed
  <2>2. ASSUME NEW q \in Prospectors,
               pc'[q] \in {"looking", "searching", "sending"}
        PROVE  file'[q] \in Paths
    <3>1. CASE q # p
      BY <2>2, <3>1 DEF PathsNamed, TypeOK
    <3>2. CASE q = p
      BY <2>2, <3>2 DEF PathsNamed, TypeOK
    <3>3. QED BY <3>1, <3>2
  <2>3. QED BY <2>1, <2>2 DEF PathsNamed
<1>10. QED BY <1>6, <1>7, <1>8, <1>9

LEMMA StartupNext == StartupInv /\ [Next]_vars => StartupInv'
<1> SUFFICES ASSUME StartupInv, [Next]_vars PROVE StartupInv'
  OBVIOUS
<1>1. CASE StartProspector
  BY <1>1, StartPreserves
<1>2. CASE AllStarted
  BY <1>2
  DEF AllStarted, StartupInv, TypeOK, PendingExact, UnstartedIdle, PathsNamed,
      StartedBeforeWait, DueStored, Returned, given, prospectorVars
<1>3. CASE EndStore
  BY <1>3
  DEF EndStore, StartupInv, TypeOK, PendingExact, UnstartedIdle, PathsNamed,
      StartedBeforeWait, DueStored, Returned, given, prospectorVars
<1>4. ASSUME UNCHANGED <<given, crawlerVars, prospectorVars>>,
             dead' = TRUE \/ UNCHANGED dead
      PROVE  StartupInv'
  BY <1>4
  DEF StartupInv, TypeOK, PendingExact, UnstartedIdle, PathsNamed,
      StartedBeforeWait, DueStored, Returned, given, crawlerVars,
      prospectorVars
<1>5. CASE InitFails \/ (\E p \in Prospectors : MapRace(p)) \/ UNCHANGED vars
  BY <1>4, <1>5 DEF InitFails, MapRace, vars
<1>6. ASSUME NEW p \in Prospectors, Run(p)
      PROVE  StartupInv'
  BY <1>6, AskPreserves, HandOverPreserves, AnnouncePreserves DEF Run
<1>7. QED
  BY <1>1, <1>2, <1>3, <1>5, <1>6 DEF Next, Step, Crawler

-----------------------------------------------------------------------------
(* The theorems. *)

LEMMA StartupInvHolds == SafeSpec => []StartupInv
  BY StartupInit, StartupNext, PTL DEF SafeSpec

\* For every number of prospectors, every reachable state is well typed.
THEOREM StartupTypeCorrect == SafeSpec => []TypeOK
<1>1. StartupInv => TypeOK
  BY DEF StartupInv
<1>2. QED BY <1>1, StartupInvHolds, PTL

\* For every number of prospectors, the counter of Crawler.Start is exact.
THEOREM PendingIsExact == SafeSpec => []PendingExact
<1>1. StartupInv => PendingExact
  BY DEF StartupInv
<1>2. QED BY <1>1, StartupInvHolds, PTL

\* For every number of prospectors, Crawler.Start returns only when every first
\* scan is over and every state one handed over is stored.
THEOREM HandoffComplete == SafeSpec => []Handoff
<1>1. StartupInv => Handoff
  BY DEF StartupInv, Returned, DueStored, Handoff
<1>2. QED BY <1>1, StartupInvHolds, PTL
=============================================================================
