----------------------------- MODULE Prospector -----------------------------
(***************************************************************************)
(* One prospector: it scans the files of its glob over and over, starts a  *)
(* harvester for a file when it should be read, and learns from a          *)
(* harvester's signal channel at which offset it stopped.  Meanwhile files *)
(* are created, written, renamed and removed, and age past ignore_older.   *)
(*                                                                         *)
(* The prospector and each harvester are goroutines.  A directory counts   *)
(* as no file.  A file only grows, so its modification time is its size;   *)
(* it is stale when it was written before the last scan and longer ago     *)
(* than ignore_older.                                                      *)
(***************************************************************************)
EXTENDS Registrar, FiniteSets

CONSTANTS Irregular,       \* files that are pipes or devices
          TailFiles,       \* the option tail_files
          MaxChanges,      \* bound: changes of the file system
          MaxHarvesters,   \* bound: harvesters at a time
          MaxChans,        \* bound: signal channels in use at a time
          IterationLimit   \* iterations are counted modulo this (2^32)

ASSUME ProspectorAssumption ==
  /\ Irregular \subseteq Ids
  /\ TailFiles \in BOOLEAN
  /\ MaxChanges \in Nat /\ MaxHarvesters \in Nat /\ MaxChans \in Nat
  /\ IterationLimit \in Nat \ {0}

VARIABLES
  encodingKnown,   \* does NewHarvester know the configured encoding?
  fs,              \* the file system: the file at each path
  size,            \* the lines written to each file
  stale,           \* files not written for longer than ignore_older
  created,         \* files that exist or existed
  changes,         \* how often the file system has changed
  State,           \* Registrar.State
  pc,              \* where the prospector is
  announced,       \* has it told the crawler that its first scan is over?
  todo,            \* the matches the scan has still to check
  info,            \* os.Stat of the file being checked
  sent,            \* the state being sent to Registrar.Persist
  prospectorList,  \* what is known of each path
  missingFiles,    \* files that lost their path in this scan
  iteration,       \* Prospector.iteration
  chans,           \* contents of the signal channels
  harvesters       \* the harvester goroutines

fsVars == <<encodingKnown, fs, size, stale, created, changes>>
scanVars == <<pc, announced, todo, info, sent, prospectorList, missingFiles,
              iteration>>
vars == <<fsVars, State, scanVars, chans, harvesters>>

Chans == 1 .. MaxChans
NoChan == 0            \* a nil channel
Slots == 1 .. MaxHarvesters

\* What a signal channel holds: an offset, with the file it belongs to.
Signal == [id : Ids, offset : 0 .. MaxSize]
Empty == NoState

Unknown == [id |-> NoFile, size |-> 0, chan |-> NoChan, lastIteration |-> 0]
Entry == [id : Ids, size : 0 .. MaxSize, chan : Chans \cup {NoChan},
          lastIteration : 0 .. IterationLimit - 1]

\* of is the file that the initial offset was recorded for.
Harvester == [path : Paths, id : Ids \cup {NoFile}, chan : Chans \cup {NoChan},
              offset : 0 .. MaxSize, of : Ids \cup {NoFile},
              at : {"opening", "reading", "finishing"}]
NoHarvester == [at |-> "none"]

NoInfo == [path |-> NoPath, id |-> NoFile, size |-> 0, stale |-> FALSE]

Running == pc # "panicked"
Known(path) == prospectorList[path] # Unknown
Full(c) == c # NoChan /\ chans[c] # Empty
Active == {i \in Slots : harvesters[i].at # "none"}
Matches == {p \in Paths : fs[p] # NoFile}

Init ==
  /\ encodingKnown \in BOOLEAN
  /\ fs \in [Paths -> Ids \cup {NoFile}]
  /\ \A p, q \in Paths : p # q /\ fs[p] # NoFile => fs[p] # fs[q]
  /\ size \in [Ids -> 0 .. MaxSize]
  /\ created \in SUBSET Ids /\ Matches = {p \in Paths : fs[p] \in created}
  /\ \A i \in Ids \ created : size[i] = 0
  /\ stale \in SUBSET created
  /\ changes = 0
  /\ State \in Registry
  /\ \A p, q \in Paths :
       p # q /\ IsFound(State, p) => State[p].id # State[q].id
  /\ \A p \in Paths : IsFound(State, p) =>
       State[p].id \in created /\ State[p].offset <= size[State[p].id]
  /\ pc = "scanning" /\ announced = FALSE
  /\ todo = Matches /\ info = NoInfo /\ sent = NoState
  /\ prospectorList = [p \in Paths |-> Unknown]
  /\ missingFiles = {} /\ iteration = 0
  /\ chans = [c \in Chans |-> Empty]
  /\ harvesters = [i \in Slots |-> NoHarvester]

-----------------------------------------------------------------------------
(* The file system. *)

Create(p) == \E i \in Ids \ created :
  /\ fs[p] = NoFile
  /\ fs' = [fs EXCEPT ![p] = i]
  /\ created' = created \cup {i}
  /\ UNCHANGED <<size, stale>>

Write(i) ==
  /\ i \in created /\ size[i] < MaxSize
  /\ size' = [size EXCEPT ![i] = @ + 1]
  /\ stale' = stale \ {i}
  /\ UNCHANGED <<fs, created>>

Age(i) ==
  /\ i \in created \ stale
  /\ stale' = stale \cup {i}
  /\ UNCHANGED <<fs, size, created>>

Rename(p, q) ==
  /\ p # q /\ fs[p] # NoFile
  /\ fs' = [fs EXCEPT ![p] = NoFile, ![q] = fs[p]]
  /\ UNCHANGED <<size, stale, created>>

Remove(p) ==
  /\ fs[p] # NoFile
  /\ fs' = [fs EXCEPT ![p] = NoFile]
  /\ UNCHANGED <<size, stale, created>>

FileSystem ==
  /\ Running /\ changes < MaxChanges
  /\ changes' = changes + 1
  /\ \/ \E p \in Paths : Create(p) \/ Remove(p)
     \/ \E i \in Ids : Write(i) \/ Age(i)
     \/ \E p, q \in Paths : Rename(p, q)
  /\ UNCHANGED <<encodingKnown, State, scanVars, chans, harvesters>>

-----------------------------------------------------------------------------
(* Helpers of the prospector. *)

\* make(chan int64, 1): a signal channel nobody refers to any more, with this
\* contents.
InUse == {prospectorList[p].chan : p \in Paths}
           \cup {harvesters[i].chan : i \in Active}
Make(c, contents) ==
  /\ c \in Chans \ InUse
  /\ \A d \in Chans \ InUse : c <= d
  /\ chans' = [chans EXCEPT ![c] = contents]

\* h.Start() for a harvester with these fields.
Start(path, c, signal) == \E i \in Slots \ Active :
  /\ \A j \in Slots \ Active : i <= j
  /\ harvesters' = [harvesters EXCEPT ![i] =
       [path |-> path, id |-> NoFile, chan |-> c, offset |-> signal.offset,
        of |-> signal.id, at |-> "opening"]]

\* The end of one round of scan's loop: the entry of the file is replaced.
Track(c) ==
  /\ prospectorList' = [prospectorList EXCEPT ![info.path] =
       [id |-> info.id, size |-> info.size, chan |-> c,
        lastIteration |-> iteration]]
  /\ pc' = "scanning" /\ info' = NoInfo
  /\ UNCHANGED <<fsVars, announced, todo, iteration>>

\* getPreviousFile finds the identity of the file under another path, or among
\* the files that lost their path in this scan.
HasPrevious ==
  \/ \E p \in Paths \ {info.path} : prospectorList[p].id = info.id
  \/ info.id \in missingFiles

\* os.SameFile of the known file and the file examined.
SameFile == prospectorList[info.path].id = info.id

-----------------------------------------------------------------------------
(* Prospector.scan. *)

\* A new scan: the glob is evaluated and the missing files are forgotten.
BeginScan ==
  /\ todo' = Matches
  /\ missingFiles' = {}

\* The next match is examined; it may be gone by now.
StatFile == \E p \in todo :
  /\ pc = "scanning"
  /\ \A q \in todo : p <= q
  /\ todo' = todo \ {p}
  /\ IF fs[p] = NoFile
     THEN UNCHANGED <<pc, info>>
     ELSE /\ info' = [path |-> p, id |-> fs[p], size |-> size[fs[p]],
                      stale |-> fs[p] \in stale]
          /\ pc' = "checking"
  /\ UNCHANGED <<fsVars, State, announced, sent, prospectorList, missingFiles,
                 iteration, chans, harvesters>>

\* Fault: an unknown encoding is only dealt with for a new file.
CheckNewWithoutHarvester == \E c \in Chans :
  /\ pc = "checking" /\ ~encodingKnown /\ ~Known(info.path)
  /\ Make(c, Empty)
  /\ Track(c)
  /\ UNCHANGED <<State, sent, missingFiles, harvesters>>

\* An unknown encoding: no harvester is made, the file is tracked all the same.
CheckWithoutHarvester ==
  /\ pc = "checking" /\ ~encodingKnown
  /\ \/ /\ Known(info.path)
        /\ Track(prospectorList[info.path].chan)
        /\ UNCHANGED chans
     \/ /\ ~Known(info.path)
        /\ \E c \in Chans : Make(c, Empty) /\ Track(c)
  /\ UNCHANGED <<State, sent, missingFiles, harvesters>>

-----------------------------------------------------------------------------
(* Prospector.checkNewFile. *)

CheckingNew == pc = "checking" /\ encodingKnown /\ ~Known(info.path)

\* A recently written file without a previous path: as written, the test of
\* getPreviousFile's error is inverted, and the entry gets the channel of the
\* unknown path "", which is nil; no harvester is started.
NewFileTakenForRenamed ==
  /\ CheckingNew /\ ~info.stale /\ ~HasPrevious
  /\ Track(NoChan)
  /\ UNCHANGED <<State, sent, missingFiles, chans, harvesters>>

\* The other new files ask the registrar for their state.
FetchesState == CheckingNew /\ (info.stale \/ HasPrevious)
FetchResumes == Resumes(State, info.path, info.id, fs[info.path])

\* fetchState: the last state is to be persisted again before it is used.
FetchState ==
  /\ FetchesState /\ FetchResumes
  /\ sent' = State[info.path]
  /\ pc' = "persisting"
  /\ UNCHANGED <<fsVars, State, announced, todo, info, prospectorList,
                 missingFiles, iteration, chans, harvesters>>

\* r.Persist <- lastState meets its receiver, who records the state; the
\* harvester resumes at the offset.
Persist == \E c \in Chans :
  /\ pc = "persisting"
  /\ State' = [State EXCEPT ![info.path] = sent]
  /\ Make(c, Empty)
  /\ Start(info.path, c, sent)
  /\ Track(c)
  /\ sent' = NoState
  /\ UNCHANGED missingFiles

\* fetchState finds the state under an old name: as written it returns 0.  A
\* stale file is skipped, its size waits in its channel.
SkipStaleFile == \E c \in Chans :
  /\ FetchesState /\ ~FetchResumes /\ HasOldName(State, info.path, info.id)
  /\ info.stale
  /\ Make(c, [id |-> info.id, offset |-> info.size])
  /\ Track(c)
  /\ UNCHANGED <<State, sent, missingFiles, harvesters>>

\* The same for a file that was written recently: harvested from its start.
StartNewFile == \E c \in Chans :
  /\ FetchesState /\ ~FetchResumes /\ HasOldName(State, info.path, info.id)
  /\ ~info.stale
  /\ Make(c, Empty)
  /\ Start(info.path, c, NoState)
  /\ Track(c)
  /\ UNCHANGED <<State, sent, missingFiles>>

\* No state at all: as written, fetchState writes through the nil state of the
\* path "" and the process panics.
Panic ==
  /\ FetchesState /\ ~FetchResumes /\ ~HasOldName(State, info.path, info.id)
  /\ pc' = "panicked"
  /\ UNCHANGED <<fsVars, State, announced, todo, info, sent, prospectorList,
                 missingFiles, iteration, chans, harvesters>>

-----------------------------------------------------------------------------
(* Prospector.checkExistingFile. *)

CheckingKnown == pc = "checking" /\ encodingKnown /\ Known(info.path)

\* Another file at the path.  As written, a file seen under another path
\* counts as rotated and is harvested from its start by a harvester with the
\* old channel, while the entry gets a new one; any other file counts as
\* renamed and gets the nil channel.
FileReplaced ==
  /\ CheckingKnown /\ ~SameFile
  /\ missingFiles' = missingFiles \cup {prospectorList[info.path].id}
  /\ \/ /\ HasPrevious
        /\ Start(info.path, prospectorList[info.path].chan, NoState)
        /\ \E c \in Chans : Make(c, Empty) /\ Track(c)
     \/ /\ ~HasPrevious
        /\ Track(NoChan)
        /\ UNCHANGED <<chans, harvesters>>
  /\ UNCHANGED <<State, sent>>

\* Fault: only a file that has shrunk counts as modified.
ModifiedWhenShrunk ==
  LET known == prospectorList[info.path] IN
  Full(known.chan) /\ known.size > info.size

\* Fault: it is not asked whether the harvester has stopped.
ModifiedWhileHarvested == prospectorList[info.path].size # info.size

\* Modified since the last scan, and its harvester has stopped.
Modified ==
  LET known == prospectorList[info.path] IN
  Full(known.chan) /\ known.size # info.size

\* Fault: the offset is read and left in the channel.
ResumeFileKeepsSignal ==
  LET c == prospectorList[info.path].chan IN
  /\ CheckingKnown /\ SameFile /\ Modified /\ Full(c)
  /\ Start(info.path, c, chans[c])
  /\ Track(c)
  /\ UNCHANGED <<State, sent, missingFiles, chans>>

\* Fault: the harvester begins at the start of the file.
ResumeFileFromStart ==
  LET c == prospectorList[info.path].chan IN
  /\ CheckingKnown /\ SameFile /\ Modified /\ Full(c)
  /\ Start(info.path, c, NoState)
  /\ chans' = [chans EXCEPT ![c] = Empty]
  /\ Track(c)
  /\ UNCHANGED <<State, sent, missingFiles>>

\* The harvesting of a file that was stopped is resumed at the offset in the
\* channel, which is emptied; the receive would wait for one.
ResumeFile ==
  LET c == prospectorList[info.path].chan IN
  /\ CheckingKnown /\ SameFile /\ Modified /\ Full(c)
  /\ Start(info.path, c, chans[c])
  /\ chans' = [chans EXCEPT ![c] = Empty]
  /\ Track(c)
  /\ UNCHANGED <<State, sent, missingFiles>>

FileUnchanged ==
  /\ CheckingKnown /\ SameFile /\ ~Modified
  /\ Track(prospectorList[info.path].chan)
  /\ UNCHANGED <<State, sent, missingFiles, chans, harvesters>>

-----------------------------------------------------------------------------
(* Prospector.Run: the loop around scan. *)

\* The first scan ends with a nil source on Registrar.Persist, and the next
\* scan follows at once; the others end with a sleep.
Announce ==
  /\ pc = "scanning" /\ todo = {} /\ ~announced
  /\ announced' = TRUE
  /\ BeginScan
  /\ UNCHANGED <<fsVars, State, pc, info, sent, prospectorList, iteration,
                 chans, harvesters>>

Sleep ==
  /\ pc = "scanning" /\ todo = {} /\ announced
  /\ pc' = "sleeping"
  /\ UNCHANGED <<fsVars, State, announced, todo, info, sent, prospectorList,
                 missingFiles, iteration, chans, harvesters>>

\* Fault: a file that disappeared is forgotten while it is harvested.
ForgettableWhileHarvested(p) ==
  Known(p) /\ prospectorList[p].lastIteration < iteration

\* Disappeared, and no longer harvested.
Forgettable(p) ==
  /\ Full(prospectorList[p].chan)
  /\ prospectorList[p].lastIteration < iteration

Wake ==
  /\ pc = "sleeping"
  /\ prospectorList' = [p \in Paths |->
       IF Forgettable(p) THEN Unknown ELSE prospectorList[p]]
  /\ iteration' = (iteration + 1) % IterationLimit
  /\ pc' = "scanning"
  /\ BeginScan
  /\ UNCHANGED <<fsVars, State, announced, info, sent, chans, harvesters>>

-----------------------------------------------------------------------------
(* A harvester, as far as its prospector is concerned. *)

\* Fault: the recorded offset is taken from the end of the file.
StartOffsetFromEnd(h, id) ==
  IF h.offset > 0 \/ TailFiles THEN size[id] + h.offset ELSE 0

\* setFileOffset and initOffset: where a harvester starts to read.
StartOffset(h, id) ==
  IF h.offset > 0 THEN h.offset ELSE IF TailFiles THEN size[id] ELSE 0

\* open retries until there is a file at the path.  A file that is not regular
\* or cannot be examined, and an encoding that cannot encode a line end, stop
\* the harvester.
Open(i) ==
  LET h == harvesters[i]
      id == fs[h.path] IN
  /\ Running /\ h.at = "opening" /\ id # NoFile
  /\ \/ harvesters' = [harvesters EXCEPT ![i].id = id, ![i].at = "finishing"]
     \/ /\ id \notin Irregular
        /\ \E next \in {"reading", "finishing"} :
             harvesters' = [harvesters EXCEPT
               ![i].id = id, ![i].at = next, ![i].offset = StartOffset(h, id)]
  /\ UNCHANGED <<fsVars, State, scanVars, chans>>

\* A line is read.
Read(i) ==
  LET h == harvesters[i] IN
  /\ Running /\ h.at = "reading" /\ h.offset < size[h.id]
  /\ harvesters' = [harvesters EXCEPT ![i].offset = @ + 1]
  /\ UNCHANGED <<fsVars, State, scanVars, chans>>

\* h.FinishChan <- h.Offset, then the file is closed; a full or nil channel
\* blocks.
Finish(i) ==
  LET h == harvesters[i] IN
  /\ Running /\ h.at = "finishing"
  /\ h.chan # NoChan /\ chans[h.chan] = Empty
  /\ chans' = [chans EXCEPT ![h.chan] = [id |-> h.id, offset |-> h.offset]]
  /\ harvesters' = [harvesters EXCEPT ![i] = NoHarvester]
  /\ UNCHANGED <<fsVars, State, scanVars>>

\* The registrar records what was acknowledged of the harvester's file.
Record(i) ==
  LET h == harvesters[i] IN
  /\ Running /\ h.at = "reading"
  /\ State' = [State EXCEPT ![h.path] = [id |-> h.id, offset |-> h.offset]]
  /\ UNCHANGED <<fsVars, scanVars, chans, harvesters>>

-----------------------------------------------------------------------------
CheckNewFile == \/ NewFileTakenForRenamed \/ FetchState \/ Persist
                \/ SkipStaleFile \/ StartNewFile \/ Panic

CheckExistingFile == FileReplaced \/ ResumeFile \/ FileUnchanged

Run == \/ StatFile \/ CheckWithoutHarvester
       \/ CheckNewFile \/ CheckExistingFile
       \/ Announce \/ Sleep \/ Wake

Harvest(i) == Open(i) \/ Read(i) \/ Finish(i)

Next == \/ Run
        \/ \E i \in Slots : Harvest(i) \/ Record(i)
        \/ FileSystem

SafeSpec == Init /\ [][Next]_vars

\* The prospector is scheduled, and its sends to Registrar.Persist are
\* received: by the crawler, and after the start by the registrar.
Spec == SafeSpec /\ WF_vars(Run) /\ \A i \in Slots : WF_vars(Harvest(i))

-----------------------------------------------------------------------------
TypeOK ==
  /\ encodingKnown \in BOOLEAN
  /\ fs \in [Paths -> Ids \cup {NoFile}]
  /\ size \in [Ids -> 0 .. MaxSize]
  /\ stale \subseteq created /\ created \subseteq Ids
  /\ changes \in 0 .. MaxChanges
  /\ State \in Registry
  /\ pc \in {"scanning", "checking", "persisting", "sleeping", "panicked"}
  /\ announced \in BOOLEAN
  /\ todo \subseteq Paths
  /\ info = NoInfo \/ info \in [path : Paths, id : Ids, size : 0 .. MaxSize,
                                 stale : BOOLEAN]
  /\ sent \in FileState \cup {NoState}
  /\ prospectorList \in [Paths -> Entry \cup {Unknown}]
  /\ missingFiles \subseteq Ids
  /\ iteration \in 0 .. IterationLimit - 1
  /\ chans \in [Chans -> Signal \cup {Empty}]
  /\ harvesters \in [Slots -> Harvester \cup {NoHarvester}]

\* An unfinished harvester that will stop through this channel.
Harvested(c) == {i \in Active : c # NoChan /\ harvesters[i].chan = c}

\* The channel of an entry tells whether its file is harvested: it belongs to
\* one entry, at most one harvester will ever send to it, and none once it is
\* full (checkExistingFile resumes, and Run forgets, by its length alone).
ChannelTellsHarvested ==
  \A p \in Paths : LET c == prospectorList[p].chan IN c # NoChan =>
    /\ \A q \in Paths \ {p} : prospectorList[q].chan # c
    /\ Full(c) => Harvested(c) = {}
    /\ \A i, j \in Harvested(c) : i = j

\* What is known of a path is only forgotten when nobody harvests the file any
\* more (Run's clean-up between two scans).
ForgetsOnlyStopped ==
  [][\A p \in Paths : Known(p) /\ ~Known(p)' =>
       Harvested(prospectorList[p].chan) = {}]_vars

\* What is promised of each path (FileWatch), with what its entry and its channel
\* tell: however files change meanwhile, a file is followed by one harvester at a time,
\* each from where the one before has stopped (checkExistingFile, Run, Harvest).
AnyOf(slots) == CHOOSE i \in slots : TRUE
Follower(c) == harvesters[AnyOf(Harvested(c))]
Followed(id, c) ==
  [id       |-> id,
   phase    |-> IF Full(c) THEN "stopped"
                ELSE IF Harvested(c) # {} THEN "reading" ELSE "unfollowed",
   position |-> IF Full(c) THEN chans[c].offset
                ELSE IF Harvested(c) # {} THEN Follower(c).offset ELSE 0]
Watched(p) == Followed(prospectorList[p].id, prospectorList[p].chan)
Watch == INSTANCE FileWatch
           WITH watch <- [p \in Paths |-> Watched(p)], MaxPosition <- MaxSize
ImplementsWatch == Watch!WSafeSpec

\* Every scan comes to its end, whatever happens to the files meanwhile: no
\* receive from a signal channel and no send to one stops the prospector.
EveryScanEnds == []<>(pc \in {"sleeping", "panicked"})

\* A file whose harvester has stopped and that is written afterwards gets a
\* harvester again, unless it is gone from its path (checkExistingFile).
ModifiedSinceStop(p) ==
  /\ Full(prospectorList[p].chan)
  /\ fs[p] # NoFile /\ fs[p] = prospectorList[p].id
  /\ size[fs[p]] # prospectorList[p].size
ModifiedFileResumed ==
  \A p \in Paths : ModifiedSinceStop(p) ~>
    \/ Harvested(prospectorList[p].chan) # {}
    \/ fs[p] = NoFile \/ fs[p] # prospectorList[p].id
    \/ pc = "panicked"
-----------------------------------------------------------------------------
(* What the comments say and the code does not do. *)

\* "start a new channel to use with the new harvester" (checkExistingFile):
\* no two unfinished harvesters share a channel.
EveryHarvesterHasItsChannel ==
  \A i, j \in Active : harvesters[i].chan = harvesters[j].chan => i = j

\* "Not resuming rotated file" (fetchState), "continue where we left off if we
\* relaunch on the same file" (Harvest): a recorded offset is only used for the
\* file it was recorded for.
OffsetOfSameFile == \A i \in Active :
  LET h == harvesters[i] IN
  h.at = "reading" /\ h.of # NoFile => h.of = h.id
=============================================================================
