------------------------------- MODULE Startup -------------------------------
(***************************************************************************)
(* The start of the crawler.  Crawler.Start starts one prospector after    *)
(* the other, then receives from Registrar.Persist: the states of the      *)
(* files the prospectors resume, which it stores again, and from each      *)
(* prospector one event without a source, when its first scan is over.     *)
(* When it has one from every prospector, it returns; Registrar.Run, which *)
(* is not part of the source, receives from then on.                       *)
(*                                                                         *)
(* Registrar.State is a map without a lock.  A read or a write of it takes *)
(* two steps here, and the Go runtime may end the process when it sees a   *)
(* write during a read.  The files stay as they are; which of them a scan  *)
(* asks the registrar about is any choice (module Prospector has the       *)
(* rest).  What the crawler stores is what is there, so State is constant. *)
(***************************************************************************)
EXTENDS Registrar, FiniteSets

CONSTANTS N,       \* the prospectors configured
          Globbed, \* the paths a prospector's globs match
          Stdin    \* prospectors whose first path is "-"

Prospectors == 1 .. N

ASSUME StartupAssumption ==
  /\ N \in Nat
  /\ Globbed \in [Prospectors -> SUBSET Paths]
  /\ Stdin \subseteq Prospectors

VARIABLES
  unknownEncoding, \* prospectors NewHarvester fails for
  fs,           \* the file at each path
  State,        \* Registrar.State
  crawlerPc,    \* where Crawler.Start is
  started,      \* prospectors 1 .. started have been started
  pendingProspectorCnt,
  storing,      \* the path whose state the crawler is storing
  resaved,      \* the paths whose states it has stored
  pc,           \* where each prospector is
  todo,         \* paths its scan has still to ask the registrar about
  file,         \* the path it asks about
  firstScan,    \* the prospectors that have not announced themselves
  due,          \* paths of the states handed over in a first scan
  dead          \* the process has ended

crawlerVars == <<crawlerPc, started, pendingProspectorCnt, storing, resaved>>
prospectorVars == <<pc, todo, file, firstScan, due>>
given == <<unknownEncoding, fs, State>>
vars == <<given, crawlerVars, prospectorVars, dead>>

\* A prospector is inside a read of the map; the crawler inside a write.
Reading(p) == pc[p] \in {"looking", "searching"}
Writing == crawlerPc = "storing"

Init ==
  /\ unknownEncoding \in SUBSET Prospectors
  /\ fs \in [Paths -> Ids \cup {NoFile}]
  /\ State \in Registry
  /\ crawlerPc = "starting" /\ started = 0 /\ pendingProspectorCnt = 0
  /\ storing = NoPath /\ resaved = {}
  /\ pc = [p \in Prospectors |-> "new"]
  /\ todo = [p \in Prospectors |-> {}]
  /\ file = [p \in Prospectors |-> NoPath]
  /\ firstScan = Prospectors /\ due = {}
  /\ dead = FALSE

-----------------------------------------------------------------------------
(* Crawler.Start. *)

\* Fault: the paths are counted, not the prospectors.
StartProspectorCountsPaths ==
  /\ crawlerPc = "starting" /\ started < N
  /\ started' = started + 1
  /\ pendingProspectorCnt' =
       pendingProspectorCnt + Cardinality(Globbed[started + 1])
  /\ pc' = [pc EXCEPT ![started + 1] = "started"]
  /\ UNCHANGED <<given, crawlerPc, storing, resaved, todo, file, firstScan,
                 due, dead>>

\* prospector.Init succeeds and the prospector runs.
StartProspector ==
  /\ crawlerPc = "starting" /\ started < N
  /\ started' = started + 1
  /\ pendingProspectorCnt' = pendingProspectorCnt + 1
  /\ pc' = [pc EXCEPT ![started + 1] = "started"]
  /\ UNCHANGED <<given, crawlerPc, storing, resaved, todo, file, firstScan,
                 due, dead>>

\* prospector.Init fails, because a duration it sets up does not parse: os.Exit(1).
InitFails ==
  /\ crawlerPc = "starting" /\ started < N
  /\ dead' = TRUE
  /\ UNCHANGED <<given, crawlerVars, prospectorVars>>

AllStarted ==
  /\ crawlerPc = "starting" /\ started = N
  /\ crawlerPc' = "waiting"
  /\ UNCHANGED <<given, started, pendingProspectorCnt, storing, resaved,
                 prospectorVars, dead>>

\* crawler.Registrar.State[*event.Source] = event, in two steps.
BeginStore(path) ==
  /\ crawlerPc' = "storing"
  /\ storing' = path
  /\ UNCHANGED <<started, pendingProspectorCnt, resaved>>

EndStore ==
  /\ crawlerPc = "storing"
  /\ crawlerPc' = "waiting"
  /\ resaved' = resaved \cup {storing}
  /\ storing' = NoPath
  /\ UNCHANGED <<given, started, pendingProspectorCnt, prospectorVars, dead>>

\* Fault: the first announcement ends the wait.
CountAnnouncedOnce ==
  /\ pendingProspectorCnt' = pendingProspectorCnt - 1
  /\ crawlerPc' = "returned"
  /\ UNCHANGED <<started, storing, resaved>>

\* An event without a source: one prospector less to wait for.
CountAnnounced ==
  /\ pendingProspectorCnt' = pendingProspectorCnt - 1
  /\ crawlerPc' = IF pendingProspectorCnt = 1 THEN "returned" ELSE "waiting"
  /\ UNCHANGED <<started, storing, resaved>>

-----------------------------------------------------------------------------
(* Prospector.Run and scan, as far as the registrar is concerned. *)

Move(p, to) == pc' = [pc EXCEPT ![p] = to]

\* The harvester of "-" cannot be made: Run returns.
ReturnEarly(p) ==
  /\ pc[p] = "started" /\ p \in Stdin \cap unknownEncoding
  /\ Move(p, "returned")
  /\ UNCHANGED <<given, crawlerVars, todo, file, firstScan, due, dead>>

\* A scan, the first or a later one.  Without a harvester, checkNewFile does
\* not ask the registrar.
Scan(p) ==
  /\ \/ pc[p] = "started" /\ p \notin Stdin \cap unknownEncoding
     \/ pc[p] = "scanning" /\ todo[p] = {} /\ p \notin firstScan
  /\ Move(p, "scanning")
  /\ \E asked \in SUBSET {path \in Globbed[p] : fs[path] # NoFile} :
       /\ p \in unknownEncoding => asked = {}
       /\ todo' = [todo EXCEPT ![p] = asked]
  /\ UNCHANGED <<given, crawlerVars, file, firstScan, due, dead>>

\* fetchState, GetFileState: the path is looked up.
LookUp(p) == \E path \in todo[p] :
  /\ pc[p] = "scanning"
  /\ \A q \in todo[p] : path <= q
  /\ file' = [file EXCEPT ![p] = path]
  /\ todo' = [todo EXCEPT ![p] = @ \ {path}]
  /\ Move(p, "looking")
  /\ UNCHANGED <<given, crawlerVars, firstScan, due, dead>>

\* The state is handed over, or getPreviousFile goes through the whole map.
LookedUp(p) ==
  /\ pc[p] = "looking"
  /\ LET path == file[p] IN
     Move(p, IF Resumes(State, path, fs[path], fs[path])
             THEN "sending" ELSE "searching")
  /\ UNCHANGED <<given, crawlerVars, todo, file, firstScan, due, dead>>

\* A state under an old name: on with the next file.  None at all: as written,
\* a nil state is dereferenced and the process panics.
Searched(p) ==
  /\ pc[p] = "searching"
  /\ dead' = ~HasOldName(State, file[p], fs[file[p]])
  /\ Move(p, "scanning")
  /\ file' = [file EXCEPT ![p] = NoPath]
  /\ UNCHANGED <<given, crawlerVars, todo, firstScan, due>>

\* The runtime sees the crawler's write during a read and ends the process.
MapRace(p) ==
  /\ Reading(p) /\ Writing
  /\ dead' = TRUE
  /\ UNCHANGED <<given, crawlerVars, prospectorVars>>

-----------------------------------------------------------------------------
(* Registrar.Persist, a channel without a buffer. *)

\* r.Persist <- lastState, received by the crawler or, later, the registrar.
HandOver(p) ==
  /\ pc[p] = "sending"
  /\ \/ crawlerPc = "waiting" /\ BeginStore(file[p])
     \/ crawlerPc = "returned" /\ UNCHANGED crawlerVars
  /\ due' = due \cup (IF p \in firstScan THEN {file[p]} ELSE {})
  /\ Move(p, "scanning")
  /\ file' = [file EXCEPT ![p] = NoPath]
  /\ UNCHANGED <<given, todo, firstScan, dead>>

\* Fault: every scan is announced.
AnnounceEveryScan(p) ==
  /\ pc[p] = "scanning" /\ todo[p] = {}
  /\ crawlerPc = "waiting"
  /\ CountAnnounced
  /\ firstScan' = firstScan \ {p}
  /\ UNCHANGED <<given, pc, todo, file, due, dead>>

\* p.registrar.Persist <- event without a source, received by the crawler.
Announce(p) ==
  /\ pc[p] = "scanning" /\ todo[p] = {} /\ p \in firstScan
  /\ crawlerPc = "waiting"
  /\ CountAnnounced
  /\ firstScan' = firstScan \ {p}
  /\ UNCHANGED <<given, pc, todo, file, due, dead>>

-----------------------------------------------------------------------------
Crawler == StartProspector \/ AllStarted \/ EndStore

Run(p) == \/ ReturnEarly(p) \/ Scan(p) \/ LookUp(p) \/ LookedUp(p)
          \/ Searched(p) \/ HandOver(p) \/ Announce(p)

Step == \/ Crawler \/ InitFails
        \/ \E p \in Prospectors : Run(p) \/ MapRace(p)

Next == ~dead /\ Step

SafeSpec == Init /\ [][Next]_vars

\* Goroutines are scheduled; a sender that waits is served in its turn.
Spec ==
  /\ SafeSpec
  /\ WF_vars(~dead /\ Crawler)
  /\ \A p \in Prospectors :
       /\ WF_vars(~dead /\ Run(p))
       /\ SF_vars(~dead /\ Announce(p)) /\ SF_vars(~dead /\ HandOver(p))

-----------------------------------------------------------------------------
TypeOK ==
  /\ unknownEncoding \subseteq Prospectors
  /\ fs \in [Paths -> Ids \cup {NoFile}] /\ State \in Registry
  /\ crawlerPc \in {"starting", "waiting", "storing", "returned"}
  /\ started \in 0 .. N /\ pendingProspectorCnt \in 0 .. N
  /\ storing \in Paths \cup {NoPath} /\ resaved \subseteq Paths
  /\ pc \in [Prospectors -> {"new", "started", "returned", "scanning",
                             "looking", "searching", "sending"}]
  /\ todo \in [Prospectors -> SUBSET Paths]
  /\ file \in [Prospectors -> Paths \cup {NoPath}]
  /\ firstScan \subseteq Prospectors /\ due \subseteq Paths
  /\ dead \in BOOLEAN

\* The counter tells how many of the prospectors started have not announced
\* themselves: it can neither miss one nor count one twice.
PendingExact ==
  pendingProspectorCnt = Cardinality(firstScan \cap (1 .. started))

\* When Crawler.Start returns, so that the registrar takes over, every first
\* scan is over and every state that one handed over has been stored.
Handoff ==
  crawlerPc = "returned" => firstScan = {} /\ due \subseteq resaved

\* Prospectors that return before their first scan.
ReturnsEarly == Stdin \cap unknownEncoding

\* Crawler.Start returns, so that publishing begins, unless the process ends,
\* if every prospector gets to its first scan.
StartReturns == ReturnsEarly = {} => <>(crawlerPc = "returned" \/ dead)

\* A prospector whose standard input cannot be read does not keep the others
\* from finishing their first scans (unless the process ends).
EveryOtherAnnounced ==
  \A p \in Prospectors :
    p \in ReturnsEarly \/ <>(p \notin firstScan \/ dead)
=============================================================================
