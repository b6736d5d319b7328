--------------------------- MODULE ProspectorProofs ---------------------------
(***************************************************************************)
(* Proofs about Prospector for any number of paths, files, harvesters and  *)
(* channels, and any changes of the file system: what an entry's signal    *)
(* channel tells of the harvester of its file.                             *)
(***************************************************************************)
EXTENDS Prospector, TLAPS

-----------------------------------------------------------------------------
(* The inductive invariant. *)

FileInfo == [path : Paths, id : Ids, size : 0 .. MaxSize, stale : BOOLEAN]

\* While a match is checked, scan knows which file it is.
MatchExamined == pc \in {"checking", "persisting"} => info \in FileInfo

\* A harvester reads, and reports on, a file that it has opened.
FileOpened == \A i \in Active : harvesters[i].at # "opening" =>
                                  harvesters[i].id \in Ids

ProspectorInv ==
  /\ TypeOK /\ MatchExamined /\ FileOpened
  /\ ChannelTellsHarvested

-----------------------------------------------------------------------------
(* The helpers of the prospector. *)

\* A new channel is nobody's, and no other channel changes.
LEMMA MakeChannel ==
  ASSUME TypeOK, NEW c \in Chans, NEW contents \in Signal \cup {Empty},
         Make(c, contents)
  PROVE  /\ chans' \in [Chans -> Signal \cup {Empty}]
         /\ chans'[c] = contents
         /\ \A d \in Chans \ {c} : chans'[d] = chans[d]
         /\ c # NoChan
         /\ \A p \in Paths : prospectorList[p].chan # c
         /\ \A i \in Active : harvesters[i].chan # c
BY DEF TypeOK, Make, InUse, Chans, NoChan

\* A new harvester has a slot of its own and has not opened its file.
LEMMA StartHarvester ==
  ASSUME TypeOK, FileOpened, NEW path \in Paths,
         NEW c \in Chans \cup {NoChan}, NEW signal \in Signal \cup {Empty},
         Start(path, c, signal)
  PROVE  /\ harvesters' \in [Slots -> Harvester \cup {NoHarvester}]
         /\ FileOpened'
         /\ \E i \in Slots \ Active :
              /\ Active' = Active \cup {i}
              /\ harvesters'[i].chan = c /\ harvesters'[i].offset = signal.offset
              /\ \A j \in Active : harvesters'[j] = harvesters[j]
<1>1. PICK i \in Slots \ Active :
        harvesters' = [harvesters EXCEPT ![i] =
          [path |-> path, id |-> NoFile, chan |-> c, offset |-> signal.offset,
           of |-> signal.id, at |-> "opening"]]
  BY DEF Start
<1> DEFINE h == [path |-> path, id |-> NoFile, chan |-> c,
                 offset |-> signal.offset, of |-> signal.id, at |-> "opening"]
<1>2. h \in Harvester
  BY RegistrarAssumption DEF Harvester, Signal, Empty, NoState
<1>3. harvesters' \in [Slots -> Harvester \cup {NoHarvester}]
  BY <1>1, <1>2 DEF TypeOK
<1>4. /\ harvesters'[i] = h
      /\ \A j \in Slots \ {i} : harvesters'[j] = harvesters[j]
  BY <1>1 DEF TypeOK
<1>5. Active' = Active \cup {i}
  BY <1>4 DEF Active
<1>6. FileOpened'
  BY <1>4, <1>5 DEF FileOpened, Active
<1>7. \A j \in Active : harvesters'[j] = harvesters[j]
  BY <1>4 DEF Active
<1>8. QED BY <1>1, <1>3, <1>4, <1>5, <1>6, <1>7

\* The entry of the match is replaced, the others stay, and the scan goes on.
LEMMA TrackMatch ==
  ASSUME TypeOK, info \in FileInfo, NEW c \in Chans \cup {NoChan}, Track(c)
  PROVE  /\ prospectorList' \in [Paths -> Entry \cup {Unknown}]
         /\ prospectorList'[info.path].chan = c
         /\ prospectorList'[info.path].id \in Ids
         /\ \A q \in Paths \ {info.path} : prospectorList'[q] = prospectorList[q]
         /\ pc' = "scanning" /\ info' = NoInfo /\ MatchExamined'
BY DEF TypeOK, Track, FileInfo, Entry, MatchExamined

-----------------------------------------------------------------------------
(* What a step does to the channels of the entries. *)

\* Nobody's channel, contents or harvester changes.
LEMMA NothingTold ==
  ASSUME ChannelTellsHarvested, UNCHANGED chans,
         \A p \in Paths : prospectorList'[p].chan = prospectorList[p].chan,
         Active' = Active,
         \A i \in Active : harvesters'[i].chan = harvesters[i].chan
  PROVE  ChannelTellsHarvested'
BY DEF ChannelTellsHarvested, Full, Harvested

\* An entry gets a new channel, and a harvester is started with that channel,
\* with the one the entry had before, or not at all.
LEMMA NewChannelTells ==
  ASSUME TypeOK, FileOpened, ChannelTellsHarvested, info \in FileInfo,
         NEW c \in Chans, NEW contents \in Signal \cup {Empty},
         Make(c, contents), Track(c),
         \/ UNCHANGED harvesters
         \/ /\ contents = Empty
            /\ \E d \in {c, prospectorList[info.path].chan},
                  signal \in Signal \cup {Empty} : Start(info.path, d, signal)
  PROVE  ChannelTellsHarvested'
<1>1. /\ prospectorList'[info.path].chan = c
      /\ \A q \in Paths \ {info.path} : prospectorList'[q] = prospectorList[q]
      /\ info.path \in Paths
  BY TrackMatch, c \in Chans \cup {NoChan} DEF FileInfo
<1>2. /\ chans'[c] = contents /\ c # NoChan
      /\ \A d \in Chans \ {c} : chans'[d] = chans[d]
      /\ \A p \in Paths : prospectorList[p].chan # c
      /\ \A i \in Active : harvesters[i].chan # c
  BY MakeChannel
<1>3. \A p \in Paths : prospectorList[p].chan \in Chans \cup {NoChan}
  BY DEF TypeOK, Entry, Unknown
<1>4. CASE UNCHANGED harvesters
  BY <1>1, <1>2, <1>3, <1>4 DEF ChannelTellsHarvested, Full, Harvested, Active
<1>5. CASE contents = Empty
           /\ \E d \in {c, prospectorList[info.path].chan},
                 signal \in Signal \cup {Empty} : Start(info.path, d, signal)
  <2>1. PICK d \in {c, prospectorList[info.path].chan} :
               \E signal \in Signal \cup {Empty} : Start(info.path, d, signal)
    BY <1>5
  <2>2. d \in Chans \cup {NoChan}
    BY <1>1, <1>3
  <2>3. PICK i \in Slots \ Active :
          /\ Active' = Active \cup {i} /\ harvesters'[i].chan = d
          /\ \A j \in Active : harvesters'[j] = harvesters[j]
    BY <1>1, <2>1, <2>2, StartHarvester
  <2>4. ASSUME NEW p \in Paths, NEW e, prospectorList'[p].chan = e, e # NoChan
        PROVE  /\ \A q \in Paths \ {p} : prospectorList'[q].chan # e
               /\ Full(e)' => Harvested(e)' = {}
               /\ \A j, k \in Harvested(e)' : j = k
    <3>1. CASE p = info.path
      <4>1. e = c /\ \A q \in Paths \ {p} : prospectorList'[q].chan # e
        BY <1>1, <1>2, <2>4, <3>1
      <4>2. Harvested(e)' \subseteq {i} /\ ~Full(e)'
        BY <1>2, <1>5, <2>3, <4>1 DEF Full, Harvested
      <4>3. QED BY <4>1, <4>2
    <3>2. CASE p # info.path
      <4>1. prospectorList[p].chan = e /\ e # c /\ e # d /\ e \in Chans
        BY <1>1, <1>2, <1>3, <2>4, <3>2 DEF ChannelTellsHarvested
      <4>2. Full(e)' = Full(e)
        BY <1>2, <4>1 DEF Full
      <4>3. Harvested(e)' = Harvested(e)
        BY <2>3, <4>1 DEF Harvested
      <4>4. \A q \in Paths \ {p} : prospectorList'[q].chan # e
        BY <1>1, <1>2, <2>4, <4>1 DEF ChannelTellsHarvested
      <4>5. QED
        BY <2>4, <4>1, <4>2, <4>3, <4>4 DEF ChannelTellsHarvested
    <3>3. QED BY <3>1, <3>2
  <2>5. QED BY <2>4 DEF ChannelTellsHarvested
<1>6. QED BY <1>4, <1>5

\* An entry keeps its channel or gets the nil one.
LEMMA OldChannelTells ==
  ASSUME TypeOK, ChannelTellsHarvested, info \in FileInfo,
         NEW c \in {NoChan, prospectorList[info.path].chan}, Track(c),
         UNCHANGED <<chans, harvesters>>
  PROVE  ChannelTellsHarvested'
<1>1. c \in Chans \cup {NoChan} /\ info.path \in Paths
  BY DEF TypeOK, Entry, Unknown, FileInfo
<1>2. /\ prospectorList'[info.path].chan = c
      /\ \A q \in Paths \ {info.path} : prospectorList'[q] = prospectorList[q]
  BY <1>1, TrackMatch
<1>3. \A e : Full(e)' = Full(e) /\ Harvested(e)' = Harvested(e)
  BY DEF Full, Harvested, Active
<1>4. QED BY <1>1, <1>2, <1>3 DEF ChannelTellsHarvested

\* What is left to show of a step that ends with Track.
LEMMA TrackPreserves ==
  ASSUME ProspectorInv, info \in FileInfo, NEW c \in Chans \cup {NoChan}, Track(c),
         State' \in Registry, sent' \in FileState \cup {NoState},
         missingFiles' \subseteq Ids,
         chans' \in [Chans -> Signal \cup {Empty}],
         harvesters' \in [Slots -> Harvester \cup {NoHarvester}],
         FileOpened', ChannelTellsHarvested'
  PROVE  ProspectorInv'
<1>1. /\ prospectorList' \in [Paths -> Entry \cup {Unknown}]
      /\ pc' = "scanning" /\ info' = NoInfo /\ MatchExamined'
  BY TrackMatch DEF ProspectorInv
<1>2. UNCHANGED <<fsVars, announced, todo, iteration>>
  BY DEF Track
<1>3. TypeOK'
  BY <1>1, <1>2 DEF ProspectorInv, TypeOK, fsVars
<1>4. QED BY <1>1, <1>3 DEF ProspectorInv

-----------------------------------------------------------------------------
(* The invariant holds initially and every step preserves it. *)

LEMMA ProspectorInit == Init => ProspectorInv
<1> SUFFICES ASSUME Init PROVE ProspectorInv
  OBVIOUS
<1>1. 0 \in 0 .. MaxSize /\ 0 \in 0 .. MaxChanges /\ 0 \in 0 .. IterationLimit - 1
  BY RegistrarAssumption, ProspectorAssumption
<1>2. Active = {}
  BY DEF Init, Active, NoHarvester
<1>3. TypeOK
  BY <1>1 DEF Init, TypeOK, Matches, Empty
<1>4. ChannelTellsHarvested
  BY DEF Init, ChannelTellsHarvested, Unknown
<1>5. MatchExamined /\ FileOpened
  BY <1>2 DEF Init, MatchExamined, FileOpened
<1>6. QED BY <1>3, <1>4, <1>5 DEF ProspectorInv

\* The file system changes neither channels nor harvesters.
LEMMA FileSystemPreserves == ProspectorInv /\ FileSystem => ProspectorInv'
<1> SUFFICES ASSUME ProspectorInv, FileSystem PROVE ProspectorInv'
  OBVIOUS
<1>1. UNCHANGED <<encodingKnown, State, scanVars, chans, harvesters>>
  BY DEF FileSystem
<1>2. /\ fs' \in [Paths -> Ids \cup {NoFile}]
      /\ size' \in [Ids -> 0 .. MaxSize]
      /\ stale' \subseteq created' /\ created' \subseteq Ids
  <2> USE DEF ProspectorInv, TypeOK
  <2>1. ASSUME NEW p \in Paths, Create(p) \/ Remove(p) PROVE <1>2!:
    BY <2>1 DEF Create, Remove
  <2>2. ASSUME NEW i \in Ids, Write(i) \/ Age(i) PROVE <1>2!:
    <3>1. CASE Write(i)
      BY <3>1, RegistrarAssumption DEF Write
    <3>2. CASE Age(i)
      BY <3>2 DEF Age
    <3>3. QED BY <2>2, <3>1, <3>2
  <2>3. ASSUME NEW p \in Paths, NEW q \in Paths, Rename(p, q) PROVE <1>2!:
    BY <2>3 DEF Rename
  <2>4. QED BY <2>1, <2>2, <2>3 DEF FileSystem
<1>3. changes' \in 0 .. MaxChanges
  BY ProspectorAssumption DEF ProspectorInv, TypeOK, FileSystem
<1>4. TypeOK'
  BY <1>1, <1>2, <1>3 DEF ProspectorInv, TypeOK, scanVars
<1>5. ChannelTellsHarvested'
  BY <1>1, NothingTold DEF ProspectorInv, Active, scanVars
<1>6. MatchExamined' /\ FileOpened'
  BY <1>1 DEF ProspectorInv, MatchExamined, FileOpened, Active, scanVars
<1>7. QED BY <1>4, <1>5, <1>6 DEF ProspectorInv

\* Steps of scan and Run that neither replace nor forget an entry.
LEMMA ScanPreserves ==
  ProspectorInv /\ (StatFile \/ FetchState \/ Panic \/ Announce \/ Sleep)
    => ProspectorInv'
<1> SUFFICES ASSUME ProspectorInv,
                    StatFile \/ FetchState \/ Panic \/ Announce \/ Sleep
             PROVE  ProspectorInv'
  OBVIOUS
<1>1. UNCHANGED <<fsVars, State, prospectorList, iteration, chans, harvesters>>
  BY DEF StatFile, FetchState, Panic, Announce, Sleep
<1>2. ChannelTellsHarvested' /\ FileOpened'
  BY <1>1, NothingTold DEF ProspectorInv, FileOpened, Active
<1>3. /\ pc' \in {"scanning", "checking", "persisting", "sleeping", "panicked"}
      /\ announced' \in BOOLEAN /\ todo' \subseteq Paths
      /\ info' = NoInfo \/ info' \in FileInfo
      /\ sent' \in FileState \cup {NoState} /\ missingFiles' \subseteq Ids
      /\ MatchExamined'
  <2> USE DEF ProspectorInv, TypeOK, MatchExamined
  <2>1. CASE StatFile
    <3>1. PICK p \in todo :
            /\ pc = "scanning" /\ todo' = todo \ {p}
            /\ IF fs[p] = NoFile
               THEN UNCHANGED <<pc, info>>
               ELSE /\ info' = [path |-> p, id |-> fs[p], size |-> size[fs[p]],
                                stale |-> fs[p] \in stale]
                    /\ pc' = "checking"
            /\ UNCHANGED <<announced, sent, missingFiles>>
      BY <2>1 DEF StatFile
    <3>2. ASSUME fs[p] # NoFile PROVE info' \in FileInfo
      <4> DEFINE old == fs[p] \in stale
      <4>1. p \in Paths /\ fs[p] \in Ids /\ size[fs[p]] \in 0 .. MaxSize
        BY <3>2
      <4>2. old \in BOOLEAN
        OBVIOUS
      <4>3. info' = [path |-> p, id |-> fs[p], size |-> size[fs[p]], stale |-> old]
        BY <3>1, <3>2
      <4> HIDE DEF old
      <4>4. QED BY <4>1, <4>2, <4>3 DEF FileInfo
    <3>3. QED BY <3>1, <3>2 DEF FileInfo
  <2>2. CASE FetchState
    <3>1. info \in FileInfo /\ pc = "checking"
      BY <2>2 DEF FetchState, FetchesState, CheckingNew
    <3>2. sent' \in FileState \cup {NoState}
      BY <2>2, <3>1 DEF FetchState, FileInfo, Registry
    <3>3. QED BY <2>2, <3>1, <3>2 DEF FetchState
  <2>3. CASE Panic
    BY <2>3 DEF Panic, FileInfo
  <2>4. CASE Announce
    BY <2>4 DEF Announce, BeginScan, Matches, FileInfo
  <2>5. CASE Sleep
    BY <2>5 DEF Sleep, FileInfo
  <2>6. QED BY <2>1, <2>2, <2>3, <2>4, <2>5
<1>4. TypeOK'
  BY <1>1, <1>3 DEF ProspectorInv, TypeOK, fsVars, FileInfo
<1>5. QED BY <1>2, <1>3, <1>4 DEF ProspectorInv

\* Steps that leave the entry its channel or give it the nil one.
LEMMA KeepPreserves ==
  ASSUME ProspectorInv, pc = "checking",
         NEW c \in {NoChan, prospectorList[info.path].chan}, Track(c),
         UNCHANGED <<State, sent, chans, harvesters>>,
         missingFiles' \subseteq Ids
  PROVE  ProspectorInv'
<1>1. info \in FileInfo /\ c \in Chans \cup {NoChan}
  BY DEF ProspectorInv, MatchExamined, TypeOK, FileInfo, Entry, Unknown
<1>2. ChannelTellsHarvested'
  BY <1>1, OldChannelTells DEF ProspectorInv
<1>3. FileOpened'
  BY DEF ProspectorInv, FileOpened, Active
<1>4. QED BY <1>1, <1>2, <1>3, TrackPreserves DEF ProspectorInv, TypeOK

\* Steps that give the entry a new channel without starting a harvester.
LEMMA RenewPreserves ==
  ASSUME ProspectorInv, pc = "checking",
         NEW c \in Chans, NEW contents \in Signal \cup {Empty},
         Make(c, contents), Track(c),
         UNCHANGED <<State, sent, missingFiles, harvesters>>
  PROVE  ProspectorInv'
<1>1. info \in FileInfo
  BY DEF ProspectorInv, MatchExamined
<1>2. ChannelTellsHarvested' /\ chans' \in [Chans -> Signal \cup {Empty}]
  BY <1>1, NewChannelTells, MakeChannel DEF ProspectorInv
<1>3. FileOpened'
  BY DEF ProspectorInv, FileOpened, Active
<1>4. QED BY <1>1, <1>2, <1>3, TrackPreserves DEF ProspectorInv, TypeOK

\* Steps that start a harvester and give the entry a new channel.
LEMMA HarvestPreserves ==
  ASSUME ProspectorInv, info \in FileInfo,
         NEW c \in Chans, NEW d \in {c, prospectorList[info.path].chan},
         NEW signal \in Signal \cup {Empty},
         Make(c, Empty), Start(info.path, d, signal), Track(c),
         State' \in Registry, sent' \in FileState \cup {NoState},
         missingFiles' \subseteq Ids
  PROVE  ProspectorInv'
<1>1. info.path \in Paths /\ d \in Chans \cup {NoChan}
  BY DEF ProspectorInv, TypeOK, FileInfo, Entry, Unknown
<1>2. Empty \in Signal \cup {Empty}
  OBVIOUS
<1>3. ChannelTellsHarvested'
  BY <1>2, NewChannelTells DEF ProspectorInv
<1>4. chans' \in [Chans -> Signal \cup {Empty}]
  BY <1>2, MakeChannel DEF ProspectorInv
<1>5. FileOpened' /\ harvesters' \in [Slots -> Harvester \cup {NoHarvester}]
  BY <1>1, StartHarvester DEF ProspectorInv
<1>6. QED BY <1>3, <1>4, <1>5, TrackPreserves DEF ProspectorInv

LEMMA CheckWithoutHarvesterPreserves ==
  ProspectorInv /\ CheckWithoutHarvester => ProspectorInv'
<1> SUFFICES ASSUME ProspectorInv, CheckWithoutHarvester PROVE ProspectorInv'
  OBVIOUS
<1>1. /\ pc = "checking" /\ UNCHANGED <<State, sent, missingFiles, harvesters>>
      /\ missingFiles' \subseteq Ids
  BY DEF CheckWithoutHarvester, ProspectorInv, TypeOK
<1>2. CASE Track(prospectorList[info.path].chan) /\ UNCHANGED chans
  BY <1>1, <1>2, KeepPreserves
<1>3. CASE \E c \in Chans : Make(c, Empty) /\ Track(c)
  BY <1>1, <1>3, RenewPreserves
<1>4. QED BY <1>2, <1>3 DEF CheckWithoutHarvester

LEMMA CheckNewFilePreserves == ProspectorInv /\ CheckNewFile => ProspectorInv'
<1> SUFFICES ASSUME ProspectorInv, CheckNewFile PROVE ProspectorInv'
  OBVIOUS
<1>1. missingFiles \subseteq Ids /\ State \in Registry /\ sent \in FileState \cup {NoState}
  BY DEF ProspectorInv, TypeOK
<1>2. pc \in {"checking", "persisting"} => info \in FileInfo
  BY DEF ProspectorInv, MatchExamined
<1>3. CASE NewFileTakenForRenamed
  <2>1. pc = "checking" /\ Track(NoChan)
        /\ UNCHANGED <<State, sent, missingFiles, chans, harvesters>>
    BY <1>3 DEF NewFileTakenForRenamed, CheckingNew
  <2>2. QED BY <1>1, <2>1, KeepPreserves
<1>4. CASE SkipStaleFile
  <2>1. PICK c \in Chans :
          /\ Make(c, [id |-> info.id, offset |-> info.size]) /\ Track(c)
          /\ pc = "checking" /\ UNCHANGED <<State, sent, missingFiles, harvesters>>
    BY <1>4 DEF SkipStaleFile, FetchesState, CheckingNew
  <2>2. [id |-> info.id, offset |-> info.size] \in Signal \cup {Empty}
    BY <1>2, <2>1 DEF FileInfo, Signal
  <2>3. QED BY <2>1, <2>2, RenewPreserves
<1>5. CASE StartNewFile
  <2>1. PICK c \in Chans :
          /\ Make(c, Empty) /\ Start(info.path, c, NoState) /\ Track(c)
          /\ pc = "checking" /\ UNCHANGED <<State, sent, missingFiles>>
    BY <1>5 DEF StartNewFile, FetchesState, CheckingNew
  <2>2. NoState \in Signal \cup {Empty}
    BY DEF Empty
  <2>3. QED BY <1>1, <1>2, <2>1, <2>2, HarvestPreserves
<1>6. CASE Persist
  <2>1. PICK c \in Chans :
          /\ Make(c, Empty) /\ Start(info.path, c, sent) /\ Track(c)
          /\ pc = "persisting" /\ UNCHANGED missingFiles
          /\ State' = [State EXCEPT ![info.path] = sent] /\ sent' = NoState
    BY <1>6 DEF Persist
  <2>2. sent \in Signal \cup {Empty}
    BY <1>1 DEF Signal, FileState, Empty
  <2>3. State' \in Registry
    BY <1>1, <2>1 DEF Registry
  <2>4. QED BY <1>1, <1>2, <2>1, <2>2, <2>3, HarvestPreserves
<1>7. CASE FetchState \/ Panic
  BY <1>7, ScanPreserves
<1>8. QED BY <1>3, <1>4, <1>5, <1>6, <1>7 DEF CheckNewFile

\* A stopped harvester's channel is emptied and handed to the next one.
LEMMA ResumePreserves == ProspectorInv /\ ResumeFile => ProspectorInv'
<1> SUFFICES ASSUME ProspectorInv, ResumeFile PROVE ProspectorInv'
  OBVIOUS
<1>1. PICK c \in {prospectorList[info.path].chan} :
        /\ pc = "checking" /\ Full(c) /\ Start(info.path, c, chans[c]) /\ Track(c)
        /\ chans' = [chans EXCEPT ![c] = Empty]
        /\ UNCHANGED <<State, sent, missingFiles>>
  BY DEF ResumeFile, CheckingKnown
<1>2. info \in FileInfo /\ info.path \in Paths /\ c \in Chans /\ c # NoChan
  BY <1>1 DEF ProspectorInv, MatchExamined, FileInfo, TypeOK, Entry, Unknown, Full
<1>3. /\ chans[c] \in Signal \cup {Empty}
      /\ chans' \in [Chans -> Signal \cup {Empty}] /\ chans'[c] = Empty
      /\ \A e \in Chans \ {c} : chans'[e] = chans[e]
  BY <1>1, <1>2 DEF ProspectorInv, TypeOK
<1>4. Harvested(c) = {} /\ \A p \in Paths \ {info.path} : prospectorList[p].chan # c
  BY <1>1, <1>2 DEF ProspectorInv, ChannelTellsHarvested
<1>5. /\ prospectorList'[info.path].chan = c
      /\ \A q \in Paths \ {info.path} : prospectorList'[q] = prospectorList[q]
  BY <1>1, <1>2, TrackMatch DEF ProspectorInv
<1>6. FileOpened' /\ harvesters' \in [Slots -> Harvester \cup {NoHarvester}]
  BY <1>1, <1>2, <1>3, StartHarvester DEF ProspectorInv
<1>7. PICK i \in Slots \ Active :
        /\ Active' = Active \cup {i} /\ harvesters'[i].chan = c
        /\ \A j \in Active : harvesters'[j] = harvesters[j]
  BY <1>1, <1>2, <1>3, StartHarvester DEF ProspectorInv
<1>8. ASSUME NEW p \in Paths, NEW e, prospectorList'[p].chan = e, e # NoChan
      PROVE  /\ \A q \in Paths \ {p} : prospectorList'[q].chan # e
             /\ Full(e)' => Harvested(e)' = {}
             /\ \A j, k \in Harvested(e)' : j = k
  <2>1. \A q \in Paths : prospectorList'[q].chan = prospectorList[q].chan
    BY <1>1, <1>5
  <2>2. \A q \in Paths \ {p} : prospectorList'[q].chan # e
    BY <1>8, <2>1 DEF ProspectorInv, ChannelTellsHarvested
  <2>3. CASE e = c
    <3>1. ~Full(e)' /\ Harvested(e)' \subseteq {i}
      BY <1>3, <1>4, <1>7, <2>3 DEF Full, Harvested
    <3>2. QED BY <2>2, <3>1
  <2>4. CASE e # c
    <3>1. e \in Chans
      BY <1>8, <2>1 DEF ProspectorInv, TypeOK, Entry, Unknown
    <3>2. Full(e)' = Full(e) /\ Harvested(e)' = Harvested(e)
      BY <1>3, <1>7, <2>4, <3>1 DEF Full, Harvested
    <3>3. QED BY <1>8, <2>1, <2>2, <3>2 DEF ProspectorInv, ChannelTellsHarvested
  <2>5. QED BY <2>3, <2>4
<1>9. ChannelTellsHarvested'
  BY <1>8 DEF ChannelTellsHarvested
<1>10. QED
  BY <1>1, <1>2, <1>3, <1>6, <1>9, TrackPreserves DEF ProspectorInv, TypeOK

LEMMA CheckExistingFilePreserves ==
  ProspectorInv /\ CheckExistingFile => ProspectorInv'
<1> SUFFICES ASSUME ProspectorInv, CheckExistingFile PROVE ProspectorInv'
  OBVIOUS
<1>1. pc = "checking" /\ Known(info.path) /\ info \in FileInfo
  BY DEF CheckExistingFile, FileReplaced, ResumeFile, FileUnchanged, CheckingKnown,
         ProspectorInv, MatchExamined
<1>2. CASE FileReplaced
  <2>1. missingFiles' \subseteq Ids
    BY <1>1, <1>2
    DEF FileReplaced, Known, FileInfo, ProspectorInv, TypeOK, Entry
  <2>2. UNCHANGED <<State, sent>>
    BY <1>2 DEF FileReplaced
  <2>3. ASSUME Start(info.path, prospectorList[info.path].chan, NoState),
               NEW c \in Chans, Make(c, Empty), Track(c)
        PROVE  ProspectorInv'
    BY <1>1, <2>1, <2>2, <2>3, HarvestPreserves DEF ProspectorInv, TypeOK, Empty
  <2>4. CASE Track(NoChan) /\ UNCHANGED <<chans, harvesters>>
    BY <1>1, <2>1, <2>2, <2>4, KeepPreserves
  <2>5. QED BY <1>2, <2>3, <2>4 DEF FileReplaced
<1>3. CASE FileUnchanged
  <2>1. /\ Track(prospectorList[info.path].chan)
        /\ UNCHANGED <<State, sent, missingFiles, chans, harvesters>>
    BY <1>3 DEF FileUnchanged
  <2>2. missingFiles' \subseteq Ids
    BY <2>1 DEF ProspectorInv, TypeOK
  <2>3. QED BY <1>1, <2>1, <2>2, KeepPreserves
<1>4. CASE ResumeFile
  BY <1>4, ResumePreserves
<1>5. QED BY <1>2, <1>3, <1>4 DEF CheckExistingFile

\* Run's clean-up takes channels from entries and gives none.
LEMMA WakePreserves == ProspectorInv /\ Wake => ProspectorInv'
<1> SUFFICES ASSUME ProspectorInv, Wake PROVE ProspectorInv'
  OBVIOUS
<1>1. /\ prospectorList' \in [Paths -> Entry \cup {Unknown}]
      /\ \A p \in Paths : prospectorList'[p] \in {prospectorList[p], Unknown}
  BY DEF Wake, ProspectorInv, TypeOK
<1>2. iteration' \in 0 .. IterationLimit - 1
  BY ProspectorAssumption DEF Wake, ProspectorInv, TypeOK
<1>3. /\ pc' = "scanning" /\ todo' = Matches /\ missingFiles' = {}
      /\ UNCHANGED <<fsVars, State, announced, info, sent, chans, harvesters>>
  BY DEF Wake, BeginScan
<1>4. TypeOK'
  BY <1>1, <1>2, <1>3 DEF ProspectorInv, TypeOK, fsVars, Matches
<1>5. \A e : Full(e)' = Full(e) /\ Harvested(e)' = Harvested(e)
  BY <1>3 DEF Full, Harvested, Active
<1>6. ChannelTellsHarvested'
  BY <1>1, <1>5 DEF ProspectorInv, ChannelTellsHarvested, Unknown
<1>7. MatchExamined' /\ FileOpened'
  BY <1>3 DEF ProspectorInv, MatchExamined, FileOpened, Active
<1>8. QED BY <1>4, <1>6, <1>7 DEF ProspectorInv

-----------------------------------------------------------------------------
(* The harvesters. *)

\* Where a harvester starts to read is within the longest file, and not before the
\* offset it was given.
LEMMA StartOffsetBounded ==
  ASSUME TypeOK, NEW h \in Harvester, NEW id \in Ids
  PROVE  StartOffset(h, id) \in h.offset .. MaxSize
BY RegistrarAssumption DEF TypeOK, Harvester, StartOffset

\* A harvester that opens its file or reads a line moves on.
LEMMA OpenReadStep ==
  ASSUME ProspectorInv, NEW i \in Slots, Open(i) \/ Read(i)
  PROVE  /\ i \in Active /\ harvesters[i] \in Harvester
         /\ UNCHANGED <<fsVars, State, scanVars, chans>>
         /\ \E id \in Ids, at \in {"reading", "finishing"},
               offset \in harvesters[i].offset .. MaxSize :
              harvesters' = [harvesters EXCEPT ![i] = [harvesters[i] EXCEPT
                               !.id = id, !.at = at, !.offset = offset]]
<1> DEFINE h == harvesters[i]
<1>1. i \in Active /\ h \in Harvester
      /\ UNCHANGED <<fsVars, State, scanVars, chans>>
  BY DEF Open, Read, Active, ProspectorInv, TypeOK, NoHarvester
<1>2. \E id \in Ids, at \in {"reading", "finishing"}, offset \in h.offset .. MaxSize :
        harvesters' = [harvesters EXCEPT ![i] =
                         [h EXCEPT !.id = id, !.at = at, !.offset = offset]]
  <2>1. h.offset \in h.offset .. MaxSize
    BY <1>1, RegistrarAssumption DEF Harvester
  <2>2. CASE Open(i)
    <3>1. fs[h.path] \in Ids
      BY <1>1, <2>2 DEF Open, ProspectorInv, TypeOK, Harvester
    <3>2. StartOffset(h, fs[h.path]) \in h.offset .. MaxSize
      BY <1>1, <3>1, StartOffsetBounded DEF ProspectorInv
    <3>3. CASE harvesters' = [harvesters EXCEPT ![i].id = fs[h.path],
                                                ![i].at = "finishing"]
      <4>1. harvesters' = [harvesters EXCEPT ![i] = [h EXCEPT
              !.id = fs[h.path], !.at = "finishing", !.offset = h.offset]]
        BY <1>1, <3>3 DEF ProspectorInv, TypeOK, Harvester
      <4>2. QED BY <2>1, <3>1, <4>1
    <3>4. CASE \E next \in {"reading", "finishing"} :
                 harvesters' = [harvesters EXCEPT
                   ![i].id = fs[h.path], ![i].at = next,
                   ![i].offset = StartOffset(h, fs[h.path])]
      <4>1. PICK next \in {"reading", "finishing"} :
              harvesters' = [harvesters EXCEPT ![i] = [h EXCEPT
                !.id = fs[h.path], !.at = next,
                !.offset = StartOffset(h, fs[h.path])]]
        BY <3>4 DEF ProspectorInv, TypeOK
      <4>2. QED BY <3>1, <3>2, <4>1
    <3>5. QED BY <2>2, <3>3, <3>4 DEF Open
  <2>3. CASE Read(i)
    <3>1. h.at = "reading" /\ h.offset < size[h.id] /\ h.id \in Ids
      BY <1>1, <2>3 DEF Read, ProspectorInv, FileOpened
    <3>2. h.offset + 1 \in h.offset .. MaxSize
      BY <1>1, <3>1, RegistrarAssumption DEF ProspectorInv, TypeOK, Harvester
    <3>3. harvesters' = [harvesters EXCEPT ![i] =
            [h EXCEPT !.id = h.id, !.at = "reading", !.offset = h.offset + 1]]
      BY <1>1, <2>3, <3>1 DEF Read, ProspectorInv, TypeOK, Harvester
    <3>4. QED BY <3>1, <3>2, <3>3
  <2>4. QED BY <2>2, <2>3
<1>3. QED BY <1>1, <1>2

\* What an open or reading harvester does concerns neither its channel nor others.
LEMMA OpenReadPreserves ==
  ASSUME ProspectorInv, NEW i \in Slots, Open(i) \/ Read(i)
  PROVE  ProspectorInv'
<1> DEFINE h == harvesters[i]
<1>1. i \in Active /\ h \in Harvester
      /\ UNCHANGED <<fsVars, State, scanVars, chans>>
  BY OpenReadStep
<1>2. PICK id \in Ids, at \in {"reading", "finishing"}, offset \in 0 .. MaxSize :
        harvesters' = [harvesters EXCEPT ![i] =
                         [h EXCEPT !.id = id, !.at = at, !.offset = offset]]
  <2>1. h.offset .. MaxSize \subseteq 0 .. MaxSize
    BY <1>1, RegistrarAssumption DEF Harvester
  <2>2. PICK id \in Ids, at \in {"reading", "finishing"}, offset \in h.offset .. MaxSize :
          harvesters' = [harvesters EXCEPT ![i] =
                           [h EXCEPT !.id = id, !.at = at, !.offset = offset]]
    BY OpenReadStep
  <2>3. QED BY <2>1, <2>2
<1>3. [h EXCEPT !.id = id, !.at = at, !.offset = offset] \in Harvester
  BY <1>1, <1>2 DEF Harvester
<1>4. harvesters' \in [Slots -> Harvester \cup {NoHarvester}]
  BY <1>2, <1>3 DEF ProspectorInv, TypeOK
<1>5. /\ harvesters'[i].at = at /\ harvesters'[i].id = id
      /\ harvesters'[i].chan = h.chan
      /\ \A j \in Slots \ {i} : harvesters'[j] = harvesters[j]
  BY <1>1, <1>2 DEF ProspectorInv, TypeOK, Harvester
<1>6. Active' = Active
  BY <1>1, <1>5 DEF Active
<1>7. TypeOK'
  BY <1>1, <1>4 DEF ProspectorInv, TypeOK, fsVars, scanVars
<1>8. ChannelTellsHarvested'
  <2>1. \A j \in Active : harvesters'[j].chan = harvesters[j].chan
    BY <1>5 DEF Active
  <2>2. QED BY <1>1, <1>6, <2>1, NothingTold DEF ProspectorInv, scanVars
<1>9. FileOpened' /\ MatchExamined'
  BY <1>1, <1>5, <1>6 DEF ProspectorInv, FileOpened, MatchExamined, Active, scanVars
<1>10. QED BY <1>7, <1>8, <1>9 DEF ProspectorInv

\* Whoever fills a channel was the last to use it, if an entry has it.
LEMMA FinishPreserves ==
  ASSUME ProspectorInv, NEW i \in Slots, Finish(i)
  PROVE  ProspectorInv'
<1> DEFINE h == harvesters[i]
<1>1. i \in Active /\ h \in Harvester /\ h.id \in Ids
      /\ h.chan \in Chans /\ h.chan # NoChan
      /\ UNCHANGED <<fsVars, State, scanVars>>
  BY DEF Finish, Active, ProspectorInv, TypeOK, FileOpened, Harvester, NoHarvester
<1>2. [id |-> h.id, offset |-> h.offset] \in Signal
  BY <1>1 DEF Harvester, Signal
<1>3. /\ chans' \in [Chans -> Signal \cup {Empty}]
      /\ \A e \in Chans \ {h.chan} : chans'[e] = chans[e]
  BY <1>1, <1>2 DEF Finish, ProspectorInv, TypeOK
<1>4. /\ harvesters' \in [Slots -> Harvester \cup {NoHarvester}]
      /\ \A j \in Slots \ {i} : harvesters'[j] = harvesters[j]
      /\ harvesters'[i].at = "none"
  BY DEF Finish, ProspectorInv, TypeOK, NoHarvester
<1>5. Active' = Active \ {i}
  BY <1>4 DEF Active
<1>6. TypeOK'
  BY <1>1, <1>3, <1>4 DEF ProspectorInv, TypeOK, fsVars, scanVars
<1>7. FileOpened' /\ MatchExamined'
  BY <1>1, <1>4, <1>5 DEF ProspectorInv, FileOpened, MatchExamined, Active, scanVars
<1>8. ASSUME NEW p \in Paths, NEW e, prospectorList[p].chan = e, e # NoChan
      PROVE  /\ \A q \in Paths \ {p} : prospectorList[q].chan # e
             /\ Full(e)' => Harvested(e)' = {}
             /\ \A j, k \in Harvested(e)' : j = k
  <2>1. e \in Chans /\ \A q \in Paths \ {p} : prospectorList[q].chan # e
    BY <1>8 DEF ProspectorInv, TypeOK, Entry, Unknown, ChannelTellsHarvested
  <2>2. Harvested(e)' = Harvested(e) \ {i}
    BY <1>4, <1>5 DEF Harvested, Active
  <2>3. e = h.chan => i \in Harvested(e)
    BY <1>1, <1>8 DEF Harvested
  <2>4. e # h.chan => Full(e)' = Full(e)
    BY <1>3, <2>1 DEF Full
  <2>5. QED BY <1>8, <2>1, <2>2, <2>3, <2>4 DEF ProspectorInv, ChannelTellsHarvested
<1>9. ChannelTellsHarvested'
  BY <1>1, <1>8 DEF ChannelTellsHarvested, scanVars
<1>10. QED BY <1>6, <1>7, <1>9 DEF ProspectorInv

LEMMA RecordPreserves ==
  ASSUME ProspectorInv, NEW i \in Slots, Record(i)
  PROVE  ProspectorInv'
<1> DEFINE h == harvesters[i]
<1>1. i \in Active /\ h \in Harvester /\ h.id \in Ids
      /\ UNCHANGED <<fsVars, scanVars, chans, harvesters>>
  BY DEF Record, Active, ProspectorInv, TypeOK, FileOpened, NoHarvester
<1>2. [id |-> h.id, offset |-> h.offset] \in FileState /\ h.path \in Paths
  BY <1>1 DEF Harvester, FileState
<1>3. State' \in Registry
  BY <1>2 DEF Record, ProspectorInv, TypeOK, Registry
<1>4. TypeOK'
  BY <1>1, <1>3 DEF ProspectorInv, TypeOK, fsVars, scanVars
<1>5. ChannelTellsHarvested' /\ FileOpened' /\ MatchExamined'
  BY <1>1, NothingTold DEF ProspectorInv, FileOpened, MatchExamined, Active, scanVars
<1>6. QED BY <1>4, <1>5 DEF ProspectorInv

-----------------------------------------------------------------------------
LEMMA ProspectorNext == ProspectorInv /\ [Next]_vars => ProspectorInv'
<1> SUFFICES ASSUME ProspectorInv, [Next]_vars PROVE ProspectorInv'
  OBVIOUS
<1>1. CASE Run
  BY <1>1, ScanPreserves, CheckWithoutHarvesterPreserves, CheckNewFilePreserves,
     CheckExistingFilePreserves, WakePreserves DEF Run
<1>2. CASE \E i \in Slots : Harvest(i) \/ Record(i)
  BY <1>2, OpenReadPreserves, FinishPreserves, RecordPreserves DEF Harvest
<1>3. CASE FileSystem
  BY <1>3, FileSystemPreserves
<1>4. CASE UNCHANGED vars
  <2>1. UNCHANGED <<fsVars, State, scanVars, chans, harvesters>>
    BY <1>4 DEF vars
  <2>2. TypeOK' /\ MatchExamined' /\ FileOpened'
    BY <2>1 DEF ProspectorInv, TypeOK, MatchExamined, FileOpened, Active, fsVars,
                scanVars
  <2>3. ChannelTellsHarvested'
    BY <2>1, NothingTold DEF ProspectorInv, Active, scanVars
  <2>4. QED BY <2>2, <2>3 DEF ProspectorInv
<1>5. QED BY <1>1, <1>2, <1>3, <1>4 DEF Next

LEMMA ProspectorInvariant == SafeSpec => []ProspectorInv
<1>1. QED BY ProspectorInit, ProspectorNext, PTL DEF SafeSpec

\* For any paths, files, harvesters and channels, every reachable state of the
\* prospector is well typed: no harvester reads past the longest file and every
\* signal is an offset in a file (log.go:143-209).
THEOREM ProspectorTypeCorrect == SafeSpec => []TypeOK
<1>1. ProspectorInv => TypeOK
  BY DEF ProspectorInv
<1>2. QED BY <1>1, ProspectorInvariant, PTL

\* For any paths, files, harvesters and channels, the channel of an entry belongs
\* to it alone, at most one unfinished harvester will send to it, and none once it
\* is full, whatever is renamed, replaced or removed in between: the length of the
\* channel is a sound test in checkExistingFile and Run.
THEOREM OneHarvesterPerChannel == SafeSpec => []ChannelTellsHarvested
<1>1. ProspectorInv => ChannelTellsHarvested
  BY DEF ProspectorInv
<1>2. QED BY <1>1, ProspectorInvariant, PTL

\* Only Run's clean-up takes an entry out of the list: whoever replaces one
\* writes the identity of the file that was examined.
LEMMA OnlyWakeForgets ==
  ASSUME ProspectorInv, [Next]_vars, NEW p \in Paths, Known(p), ~Known(p)'
  PROVE  Wake
<1>1. ASSUME NEW c, Track(c), pc \in {"checking", "persisting"} PROVE FALSE
  <2>1. info \in FileInfo /\ prospectorList \in [Paths -> Entry \cup {Unknown}]
    BY <1>1 DEF ProspectorInv, TypeOK, MatchExamined
  <2>2. CASE p = info.path
    <3>1. prospectorList'[p].id = info.id /\ info.id \in Ids
      BY <1>1, <2>1, <2>2 DEF Track, FileInfo
    <3>2. prospectorList'[p].id # NoFile
      BY <3>1, RegistrarAssumption
    <3>3. QED BY <3>2 DEF Known, Unknown
  <2>3. CASE p # info.path
    BY <1>1, <2>1, <2>3 DEF Track, Known
  <2>4. QED BY <2>2, <2>3
<1>2. prospectorList' # prospectorList
  BY DEF Known
<1>3. CASE CheckWithoutHarvester
  BY <1>1, <1>3 DEF CheckWithoutHarvester
<1>4. CASE CheckNewFile
  BY <1>1, <1>2, <1>4
  DEF CheckNewFile, NewFileTakenForRenamed, FetchState, Persist, SkipStaleFile,
      StartNewFile, Panic, FetchesState, CheckingNew
<1>5. CASE CheckExistingFile
  BY <1>1, <1>5
  DEF CheckExistingFile, FileReplaced, ResumeFile, FileUnchanged, CheckingKnown
<1>6. CASE StatFile \/ Announce \/ Sleep
  BY <1>2, <1>6 DEF StatFile, Announce, Sleep
<1>7. CASE \E i \in Slots : Harvest(i) \/ Record(i)
  BY <1>2, <1>7 DEF Harvest, Open, Read, Finish, Record, scanVars
<1>8. CASE FileSystem
  BY <1>2, <1>8 DEF FileSystem, scanVars
<1>9. CASE UNCHANGED vars
  BY <1>2, <1>9 DEF vars, scanVars
<1>10. QED BY <1>3, <1>4, <1>5, <1>6, <1>7, <1>8, <1>9 DEF Next, Run

\* For any paths, files, harvesters and channels, the prospector forgets a path
\* only when no harvester will ever report on it (prospector.go:178-182).
THEOREM OnlyStoppedForgotten == SafeSpec => ForgetsOnlyStopped
<1>1. ProspectorInv /\ [Next]_vars =>
        [\A p \in Paths : Known(p) /\ ~Known(p)' =>
           Harvested(prospectorList[p].chan) = {}]_vars
  <2> SUFFICES ASSUME ProspectorInv, [Next]_vars, NEW p \in Paths,
                      Known(p), ~Known(p)'
               PROVE  Harvested(prospectorList[p].chan) = {}
    OBVIOUS
  <2>1. Wake
    BY OnlyWakeForgets
  <2>2. Forgettable(p)
    BY <2>1 DEF Wake, Known
  <2>3. QED BY <2>2 DEF Forgettable, Full, ProspectorInv, ChannelTellsHarvested
<1>2. QED BY <1>1, ProspectorInvariant, PTL DEF SafeSpec, ForgetsOnlyStopped

-----------------------------------------------------------------------------
(* Prospector implements FileWatch. *)

\* Whoever waits for the crawler to receive a state is about to start the first
\* harvester of a path that it does not know.
PersistingNew == pc = "persisting" => encodingKnown /\ ~Known(info.path)

\* Without a known encoding nothing is ever harvested.
EncodingNeeded ==
  ~encodingKnown => Active = {} /\ \A c \in Chans : chans[c] = Empty

WatchInv == ProspectorInv /\ PersistingNew /\ EncodingNeeded

LEMMA AnyOfIn == ASSUME NEW S, S # {} PROVE AnyOf(S) \in S
BY DEF AnyOf

LEMMA NothingFollows ==
  ASSUME NEW id
  PROVE  Followed(id, NoChan) = [id |-> id, phase |-> "unfollowed", position |-> 0]
<1>1. Harvested(NoChan) = {} /\ ~Full(NoChan)
  BY DEF Harvested, Full
<1>2. QED BY <1>1 DEF Followed

\* What a channel tells is its contents and where its harvester is.
LEMMA SameFollowed ==
  ASSUME NEW id, NEW c,
         c # NoChan => chans'[c] = chans[c] /\ Harvested(c)' = Harvested(c),
         \A i \in Harvested(c) : harvesters'[i].offset = harvesters[i].offset
  PROVE  Followed(id, c)' = Followed(id, c)
<1>1. /\ Harvested(c)' = Harvested(c)
      /\ Full(c)' <=> Full(c)
      /\ Full(c) => chans'[c] = chans[c]
  BY DEF Harvested, Full
<1>2. Harvested(c) # {} => AnyOf(Harvested(c)) \in Harvested(c)
  BY AnyOfIn
<1>3. Harvested(c) # {} => Follower(c)'.offset = Follower(c).offset
  BY <1>1, <1>2 DEF Follower
<1>4. QED BY <1>1, <1>3 DEF Followed

LEMMA QuietStep ==
  ASSUME UNCHANGED <<prospectorList, chans, harvesters>>, NEW p \in Paths
  PROVE  Watched(p)' = Watched(p)
<1>1. PICK id, c : id = prospectorList[p].id /\ c = prospectorList[p].chan
  OBVIOUS
<1>2. Followed(id, c)' = Followed(id, c)
  BY SameFollowed DEF Harvested, Active
<1>3. QED BY <1>1, <1>2 DEF Watched

\* One path changes.
LEMMA OnlyOneChanges ==
  ASSUME NEW p \in Paths, NEW id, NEW phase, NEW n,
         Watched(p)' = [id |-> id, phase |-> phase, position |-> n],
         \A q \in Paths \ {p} : Watched(q)' = Watched(q)
  PROVE  Watch!Becomes(p, id, phase, n)
BY DEF Watch!Becomes

LEMMA NoneChanges ==
  ASSUME \A p \in Paths : Watched(p)' = Watched(p)
  PROVE  UNCHANGED [p \in Paths |-> Watched(p)]
OBVIOUS

LEMMA WatchInit == Init => WatchInv
<1> SUFFICES ASSUME Init PROVE WatchInv
  OBVIOUS
<1>1. PersistingNew /\ EncodingNeeded
  BY DEF Init, PersistingNew, EncodingNeeded, Active, NoHarvester
<1>2. QED BY <1>1, ProspectorInit DEF WatchInv

LEMMA PersistingNewPreserved == WatchInv /\ [Next]_vars => PersistingNew'
<1> SUFFICES ASSUME WatchInv, [Next]_vars, pc' = "persisting"
             PROVE  encodingKnown' /\ ~Known(info.path)'
  BY DEF PersistingNew
<1>1. CASE FetchState
  BY <1>1 DEF FetchState, FetchesState, CheckingNew, Known, fsVars
<1>2. CASE UNCHANGED <<encodingKnown, pc, info, prospectorList>>
  BY <1>2 DEF WatchInv, PersistingNew, Known
<1>3. ASSUME StatFile PROVE FALSE
  BY <1>3 DEF StatFile
<1>4. ASSUME NEW c, Track(c) PROVE FALSE
  BY <1>4 DEF Track
<1>5. CASE CheckWithoutHarvester \/ CheckNewFile \/ CheckExistingFile
  BY <1>1, <1>4, <1>5
  DEF CheckWithoutHarvester, CheckNewFile, NewFileTakenForRenamed, Persist, SkipStaleFile,
      StartNewFile, Panic, CheckExistingFile, FileReplaced, ResumeFile, FileUnchanged
<1>6. CASE Announce \/ Sleep \/ Wake
  BY <1>6 DEF Announce, Sleep, Wake
<1>7. CASE \E i \in Slots : Harvest(i) \/ Record(i)
  BY <1>2, <1>7 DEF Harvest, Open, Read, Finish, Record, fsVars, scanVars
<1>8. CASE FileSystem
  BY <1>2, <1>8 DEF FileSystem, scanVars
<1>9. CASE UNCHANGED vars
  BY <1>2, <1>9 DEF vars, fsVars, scanVars
<1>10. QED BY <1>3, <1>5, <1>6, <1>7, <1>8, <1>9 DEF Next, Run

LEMMA EncodingNeededPreserved == WatchInv /\ [Next]_vars => EncodingNeeded'
<1> SUFFICES ASSUME WatchInv, [Next]_vars, ~encodingKnown'
             PROVE  Active' = {} /\ \A c \in Chans : chans'[c] = Empty
  BY DEF EncodingNeeded
<1>1. encodingKnown' = encodingKnown
  <2>1. ASSUME NEW c, Track(c) PROVE encodingKnown' = encodingKnown
    BY <2>1 DEF Track, fsVars
  <2>2. QED
    BY <2>1
    DEF Next, Run, StatFile, CheckWithoutHarvester, CheckNewFile, NewFileTakenForRenamed,
        FetchState, Persist, SkipStaleFile, StartNewFile, Panic, CheckExistingFile,
        FileReplaced, ResumeFile, FileUnchanged, Announce, Sleep, Wake, Harvest, Open,
        Read, Finish, Record, FileSystem, vars, fsVars
<1>2. Active = {} /\ \A c \in Chans : chans[c] = Empty
  BY <1>1 DEF WatchInv, EncodingNeeded
<1>3. CASE UNCHANGED <<chans, harvesters>>
  BY <1>2, <1>3 DEF Active
<1>4. CASE CheckWithoutHarvester
  <2>1. UNCHANGED harvesters
    BY <1>4 DEF CheckWithoutHarvester
  <2>2. ASSUME NEW c \in Chans, Make(c, Empty) PROVE \A d \in Chans : chans'[d] = Empty
    BY <1>2, <2>2 DEF Make, WatchInv, ProspectorInv, TypeOK
  <2>3. QED BY <1>2, <1>4, <2>1, <2>2 DEF CheckWithoutHarvester, Active
<1>5. CASE CheckNewFile
  <2>1. FetchState \/ Panic
    BY <1>1, <1>5
    DEF CheckNewFile, NewFileTakenForRenamed, Persist, SkipStaleFile, StartNewFile,
        FetchesState, CheckingNew, WatchInv, PersistingNew
  <2>2. QED BY <1>3, <2>1 DEF FetchState, Panic
<1>6. ASSUME CheckExistingFile PROVE FALSE
  BY <1>1, <1>6 DEF CheckExistingFile, FileReplaced, ResumeFile, FileUnchanged, CheckingKnown
<1>7. CASE StatFile \/ Announce \/ Sleep \/ Wake
  BY <1>3, <1>7 DEF StatFile, Announce, Sleep, Wake
<1>8. ASSUME NEW i \in Slots, Harvest(i) \/ Record(i) PROVE FALSE
  BY <1>2, <1>8 DEF Harvest, Open, Read, Finish, Record, Active
<1>9. CASE FileSystem
  BY <1>3, <1>9 DEF FileSystem
<1>10. CASE UNCHANGED vars
  BY <1>3, <1>10 DEF vars
<1>11. QED BY <1>4, <1>5, <1>6, <1>7, <1>8, <1>9, <1>10 DEF Next, Run

LEMMA WatchNext == WatchInv /\ [Next]_vars => WatchInv'
BY ProspectorNext, PersistingNewPreserved, EncodingNeededPreserved DEF WatchInv

\* Nothing that an entry other than that of the match tells has changed.
OthersKept(p) == \A e \in Chans : (\E q \in Paths \ {p} : prospectorList[q].chan = e) =>
  /\ chans'[e] = chans[e] /\ Harvested(e)' = Harvested(e)
  /\ \A i \in Harvested(e) : harvesters'[i].offset = harvesters[i].offset

LEMMA TrackOne ==
  ASSUME ProspectorInv, info \in FileInfo, NEW p, p = info.path, NEW id, id = info.id,
         NEW c \in Chans \cup {NoChan}, Track(c), OthersKept(p)
  PROVE  /\ p \in Paths /\ id \in Ids
         /\ Watched(p)' = Followed(id, c)'
         /\ \A q \in Paths \ {p} : Watched(q)' = Watched(q)
<1>1. /\ p \in Paths /\ id \in Ids
      /\ prospectorList'[p].id = id /\ prospectorList'[p].chan = c
      /\ \A q \in Paths \ {p} : prospectorList'[q] = prospectorList[q]
  BY DEF Track, FileInfo, ProspectorInv, TypeOK
<1>2. ASSUME NEW q \in Paths \ {p} PROVE Watched(q)' = Watched(q)
  <2>1. PICK old, e : old = prospectorList[q].id /\ e = prospectorList[q].chan
    OBVIOUS
  <2>2. e \in Chans \cup {NoChan}
    BY <1>2, <2>1 DEF ProspectorInv, TypeOK, Entry, Unknown
  <2>3. \A i \in Harvested(e) : harvesters'[i].offset = harvesters[i].offset
    BY <1>2, <2>1, <2>2 DEF OthersKept, Harvested
  <2>4. Followed(old, e)' = Followed(old, e)
    BY <1>2, <2>1, <2>2, <2>3, SameFollowed DEF OthersKept
  <2>5. QED BY <1>1, <1>2, <2>1, <2>4 DEF Watched
<1>3. QED BY <1>1, <1>2 DEF Watched

\* The entry keeps its channel or gets the nil one.
LEMMA KeepOne ==
  ASSUME ProspectorInv, info \in FileInfo, NEW p, p = info.path, NEW id, id = info.id,
         NEW c \in {NoChan, prospectorList[info.path].chan}, Track(c),
         UNCHANGED <<chans, harvesters>>
  PROVE  /\ p \in Paths /\ id \in Ids
         /\ Watched(p)' = Followed(id, c)
         /\ \A q \in Paths \ {p} : Watched(q)' = Watched(q)
<1>1. \A e : Harvested(e)' = Harvested(e)
  BY DEF Harvested, Active
<1>2. c \in Chans \cup {NoChan}
  BY DEF ProspectorInv, TypeOK, FileInfo, Entry, Unknown
<1>3. Followed(id, c)' = Followed(id, c)
  BY <1>1, SameFollowed
<1>4. QED BY <1>1, <1>2, <1>3, TrackOne DEF OthersKept

\* The entry gets a new channel that nobody uses.
LEMMA RenewOne ==
  ASSUME ProspectorInv, info \in FileInfo, NEW p, p = info.path, NEW id, id = info.id,
         NEW c \in Chans, NEW contents \in Signal \cup {Empty},
         Make(c, contents), Track(c), UNCHANGED harvesters
  PROVE  /\ p \in Paths /\ id \in Ids
         /\ Watched(p)' = IF contents = Empty
              THEN [id |-> id, phase |-> "unfollowed", position |-> 0]
              ELSE [id |-> id, phase |-> "stopped", position |-> contents.offset]
         /\ \A q \in Paths \ {p} : Watched(q)' = Watched(q)
<1>1. /\ chans'[c] = contents /\ c # NoChan
      /\ \A d \in Chans \ {c} : chans'[d] = chans[d]
      /\ \A q \in Paths : prospectorList[q].chan # c
      /\ \A i \in Active : harvesters[i].chan # c
  BY MakeChannel DEF ProspectorInv
<1>2. \A e : Harvested(e)' = Harvested(e)
  BY DEF Harvested, Active
<1>3. Harvested(c)' = {}
  BY <1>1, <1>2 DEF Harvested
<1>4. Followed(id, c)' = IF contents = Empty
        THEN [id |-> id, phase |-> "unfollowed", position |-> 0]
        ELSE [id |-> id, phase |-> "stopped", position |-> contents.offset]
  BY <1>1, <1>3 DEF Followed, Full
<1>5. OthersKept(p)
  BY <1>1, <1>2 DEF OthersKept
<1>6. QED BY <1>4, <1>5, TrackOne

\* A harvester starts with an empty channel: the entry's own, which no other one
\* uses, or the one the entry gives up.
LEMMA HarvestOne ==
  ASSUME ProspectorInv, info \in FileInfo, NEW p, p = info.path, NEW id, id = info.id,
         NEW c \in Chans, NEW d \in {c, prospectorList[info.path].chan},
         NEW signal \in Signal \cup {Empty},
         Start(p, d, signal), Track(c),
         c # NoChan, chans'[c] = Empty, Harvested(c) = {},
         \A e \in Chans \ {c} : chans'[e] = chans[e],
         \A q \in Paths \ {p} : prospectorList[q].chan # c
  PROVE  /\ p \in Paths /\ id \in Ids
         /\ Watched(p)' = IF d = c
              THEN [id |-> id, phase |-> "reading", position |-> signal.offset]
              ELSE [id |-> id, phase |-> "unfollowed", position |-> 0]
         /\ \A q \in Paths \ {p} : Watched(q)' = Watched(q)
<1>1. p \in Paths /\ d \in Chans \cup {NoChan}
  BY DEF ProspectorInv, TypeOK, FileInfo, Entry, Unknown
<1>2. PICK i \in Slots \ Active :
        /\ Active' = Active \cup {i}
        /\ harvesters'[i].chan = d /\ harvesters'[i].offset = signal.offset
        /\ \A j \in Active : harvesters'[j] = harvesters[j]
  BY <1>1, StartHarvester DEF ProspectorInv
<1>3. \A e : e # d => Harvested(e)' = Harvested(e)
  BY <1>2 DEF Harvested
<1>4. OthersKept(p)
  <2>1. \A e \in Chans, q \in Paths \ {p} : prospectorList[q].chan = e =>
          e # c /\ e # d
    BY <1>1, RegistrarAssumption
    DEF ProspectorInv, ChannelTellsHarvested, Chans, NoChan
  <2>2. \A e : \A j \in Harvested(e) : harvesters'[j].offset = harvesters[j].offset
    BY <1>2 DEF Harvested
  <2>3. QED BY <1>3, <2>1, <2>2 DEF OthersKept
<1>5. Followed(id, c)' = IF d = c
        THEN [id |-> id, phase |-> "reading", position |-> signal.offset]
        ELSE [id |-> id, phase |-> "unfollowed", position |-> 0]
  <2>1. CASE d = c
    <3>1. Harvested(c)' = {i}
      BY <1>2, <2>1 DEF Harvested
    <3>2. AnyOf(Harvested(c)') = i
      BY <3>1, AnyOfIn
    <3>3. Follower(c)' = harvesters'[i]
      BY <3>2 DEF Follower
    <3>4. QED BY <1>2, <2>1, <3>1, <3>3 DEF Followed, Full
  <2>2. CASE d # c
    <3>1. Harvested(c)' = {}
      BY <1>3, <2>2
    <3>2. QED BY <2>2, <3>1 DEF Followed, Full
  <2>3. QED BY <2>1, <2>2
<1>6. QED BY <1>4, <1>5, TrackOne

\* The steps of FileWatch that a new or another file at the path makes.
LEMMA FindStep ==
  ASSUME ProspectorInv, NEW p \in Paths, ~Known(p),
         NEW id \in Ids, NEW phase \in {"unfollowed", "reading", "stopped"},
         NEW n \in 0 .. MaxSize,
         Watched(p)' = [id |-> id, phase |-> phase, position |-> n],
         \A q \in Paths \ {p} : Watched(q)' = Watched(q)
  PROVE  Watch!WNext
<1>1. Watched(p).id = NoFile
  BY DEF Known, Unknown, Watched, Followed
<1>2. Watch!Becomes(p, id, phase, n)
  BY OnlyOneChanges
<1>3. QED
  BY <1>1, <1>2 DEF Watch!WNext, Watch!Find, Watch!Phases, Watch!Positions

LEMMA ReplaceStep ==
  ASSUME ProspectorInv, NEW p \in Paths, Known(p),
         NEW id \in Ids, id # prospectorList[p].id,
         Watched(p)' = [id |-> id, phase |-> "unfollowed", position |-> 0],
         \A q \in Paths \ {p} : Watched(q)' = Watched(q)
  PROVE  Watch!WNext
<1>1. Watched(p).id = prospectorList[p].id /\ prospectorList[p].id # NoFile
  BY RegistrarAssumption
  DEF Known, ProspectorInv, TypeOK, Entry, Watched, Followed
<1>2. Watch!Becomes(p, id, "unfollowed", 0)
  BY OnlyOneChanges
<1>3. QED BY <1>1, <1>2 DEF Watch!WNext, Watch!Replace

WatchStep == Watch!WNext \/ UNCHANGED [p \in Paths |-> Watched(p)]

LEMMA CheckWithoutHarvesterWatches == WatchInv /\ CheckWithoutHarvester => WatchStep
<1> SUFFICES ASSUME WatchInv, CheckWithoutHarvester PROVE WatchStep
  OBVIOUS
<1>1. PICK p, id : p = info.path /\ id = info.id
  OBVIOUS
<1>2. /\ pc = "checking" /\ ~encodingKnown /\ UNCHANGED harvesters
      /\ ProspectorInv /\ info \in FileInfo
  BY DEF CheckWithoutHarvester, WatchInv, ProspectorInv, MatchExamined
<1>3. \A x : \A e \in Chans \cup {NoChan} :
        Followed(x, e) = [id |-> x, phase |-> "unfollowed", position |-> 0]
  BY <1>2 DEF WatchInv, EncodingNeeded, Harvested, Full, Followed
<1>4. CASE /\ Known(p) /\ Track(prospectorList[info.path].chan)
           /\ UNCHANGED chans
  <2>1. /\ p \in Paths /\ id \in Ids
        /\ Watched(p)' = Followed(id, prospectorList[info.path].chan)
        /\ \A q \in Paths \ {p} : Watched(q)' = Watched(q)
    BY <1>1, <1>2, <1>4, KeepOne
  <2>2. prospectorList[p].chan \in Chans \cup {NoChan}
    BY <1>2, <2>1 DEF ProspectorInv, TypeOK, Entry, Unknown
  <2>3. Watched(p)' = [id |-> id, phase |-> "unfollowed", position |-> 0]
    BY <1>1, <1>3, <2>1, <2>2
  <2>4. CASE id = prospectorList[p].id
    <3>1. Watched(p)' = Watched(p)
      BY <1>3, <2>2, <2>3, <2>4 DEF Watched
    <3>2. QED BY <2>1, <3>1, NoneChanges DEF WatchStep
  <2>5. CASE id # prospectorList[p].id
    BY <1>2, <1>4, <2>1, <2>3, <2>5, ReplaceStep DEF WatchStep
  <2>6. QED BY <2>4, <2>5
<1>5. ASSUME ~Known(p), NEW c \in Chans, Make(c, Empty), Track(c)
      PROVE  WatchStep
  <2>1. /\ p \in Paths /\ id \in Ids
        /\ Watched(p)' = [id |-> id, phase |-> "unfollowed", position |-> 0]
        /\ \A q \in Paths \ {p} : Watched(q)' = Watched(q)
    BY <1>1, <1>2, <1>5, RenewOne
  <2>2. 0 \in 0 .. MaxSize
    BY RegistrarAssumption
  <2>3. QED BY <1>2, <1>5, <2>1, <2>2, FindStep DEF WatchStep
<1>6. QED BY <1>1, <1>4, <1>5 DEF CheckWithoutHarvester

LEMMA CheckNewFileWatches == WatchInv /\ CheckNewFile => WatchStep
<1> SUFFICES ASSUME WatchInv, CheckNewFile PROVE WatchStep
  OBVIOUS
<1>1. PICK p, id : p = info.path /\ id = info.id
  OBVIOUS
<1>2. ProspectorInv /\ 0 \in 0 .. MaxSize
  BY RegistrarAssumption DEF WatchInv
<1>3. CASE FetchState \/ Panic
  <2>1. UNCHANGED <<prospectorList, chans, harvesters>>
    BY <1>3 DEF FetchState, Panic
  <2>2. QED BY <2>1, QuietStep, NoneChanges DEF WatchStep
<1>4. CASE NewFileTakenForRenamed \/ SkipStaleFile \/ StartNewFile \/ Persist
  <2>1. info \in FileInfo /\ ~Known(p) /\ p \in Paths /\ id \in Ids
    BY <1>1, <1>4
    DEF NewFileTakenForRenamed, SkipStaleFile, StartNewFile, Persist, FetchesState,
        CheckingNew, WatchInv, PersistingNew, ProspectorInv, MatchExamined, FileInfo
  <2>2. CASE NewFileTakenForRenamed
    <3>1. /\ Watched(p)' = [id |-> id, phase |-> "unfollowed", position |-> 0]
          /\ \A q \in Paths \ {p} : Watched(q)' = Watched(q)
      BY <1>1, <1>2, <2>1, <2>2, KeepOne, NothingFollows DEF NewFileTakenForRenamed
    <3>2. QED BY <1>2, <2>1, <3>1, FindStep DEF WatchStep
  <2>3. CASE SkipStaleFile
    <3>1. PICK c \in Chans, n \in 0 .. MaxSize :
            Make(c, [id |-> id, offset |-> n]) /\ Track(c) /\ UNCHANGED harvesters
      BY <1>1, <2>1, <2>3 DEF SkipStaleFile, FileInfo
    <3>2. [id |-> id, offset |-> n] \in Signal /\ [id |-> id, offset |-> n] # Empty
      BY <2>1, RegistrarAssumption DEF Signal, Empty, NoState
    <3>3. /\ Watched(p)' = [id |-> id, phase |-> "stopped", position |-> n]
          /\ \A q \in Paths \ {p} : Watched(q)' = Watched(q)
      BY <1>1, <1>2, <2>1, <3>1, <3>2, RenewOne
    <3>4. QED BY <1>2, <2>1, <3>1, <3>3, FindStep DEF WatchStep
  <2>4. CASE StartNewFile \/ Persist
    <3>1. PICK c \in Chans, signal \in Signal \cup {Empty} :
            Make(c, Empty) /\ Start(info.path, c, signal) /\ Track(c)
      BY <2>4 DEF StartNewFile, Persist, WatchInv, ProspectorInv, TypeOK, FileState,
                  Signal, Empty
    <3>2. /\ c # NoChan /\ chans'[c] = Empty /\ Harvested(c) = {}
          /\ \A e \in Chans \ {c} : chans'[e] = chans[e]
          /\ \A q \in Paths \ {p} : prospectorList[q].chan # c
      BY <1>2, <3>1, MakeChannel DEF ProspectorInv, Harvested
    <3>3. /\ Watched(p)' = [id |-> id, phase |-> "reading", position |-> signal.offset]
          /\ \A q \in Paths \ {p} : Watched(q)' = Watched(q)
      BY <1>1, <1>2, <2>1, <3>1, <3>2, HarvestOne
    <3>4. signal.offset \in 0 .. MaxSize
      BY <1>2, <3>1 DEF Signal, Empty, NoState
    <3>5. QED BY <1>2, <2>1, <3>3, <3>4, FindStep DEF WatchStep
  <2>5. QED BY <1>4, <2>2, <2>3, <2>4
<1>5. QED BY <1>3, <1>4 DEF CheckNewFile

LEMMA CheckExistingFileWatches == WatchInv /\ CheckExistingFile => WatchStep
<1> SUFFICES ASSUME WatchInv, CheckExistingFile PROVE WatchStep
  OBVIOUS
<1>1. PICK p, id, old : p = info.path /\ id = info.id /\ old = prospectorList[p].chan
  OBVIOUS
<1>2. /\ ProspectorInv /\ info \in FileInfo /\ Known(p)
      /\ p \in Paths /\ id \in Ids /\ old \in Chans \cup {NoChan}
  BY <1>1
  DEF CheckExistingFile, FileReplaced, ResumeFile, FileUnchanged, CheckingKnown, WatchInv,
      ProspectorInv, MatchExamined, FileInfo, TypeOK, Entry, Unknown
<1>3. CASE FileReplaced
  <2>1. id # prospectorList[p].id
    BY <1>1, <1>3 DEF FileReplaced, SameFile
  <2>2. /\ Watched(p)' = [id |-> id, phase |-> "unfollowed", position |-> 0]
        /\ \A q \in Paths \ {p} : Watched(q)' = Watched(q)
    <3>1. CASE Track(NoChan) /\ UNCHANGED <<chans, harvesters>>
      BY <1>1, <1>2, <3>1, KeepOne, NothingFollows
    <3>2. ASSUME Start(info.path, old, NoState), NEW c \in Chans, Make(c, Empty), Track(c)
          PROVE  <2>2!:
      <4>1. /\ c # NoChan /\ chans'[c] = Empty /\ Harvested(c) = {} /\ old # c
            /\ \A e \in Chans \ {c} : chans'[e] = chans[e]
            /\ \A q \in Paths \ {p} : prospectorList[q].chan # c
        BY <1>1, <1>2, <3>2, MakeChannel DEF ProspectorInv, Harvested
      <4>2. NoState \in Signal \cup {Empty}
        BY DEF Empty
      <4>3. QED BY <1>1, <1>2, <3>2, <4>1, <4>2, HarvestOne
    <3>3. QED BY <1>1, <1>3, <3>1, <3>2 DEF FileReplaced
  <2>3. QED BY <1>2, <2>1, <2>2, ReplaceStep DEF WatchStep
<1>4. CASE FileUnchanged
  <2>1. /\ Watched(p)' = Followed(id, old)
        /\ \A q \in Paths \ {p} : Watched(q)' = Watched(q)
    BY <1>1, <1>2, <1>4, KeepOne DEF FileUnchanged
  <2>2. Watched(p) = Followed(id, old)
    BY <1>1, <1>4 DEF FileUnchanged, SameFile, Watched
  <2>3. QED BY <2>1, <2>2, NoneChanges DEF WatchStep
<1>5. CASE ResumeFile
  <2>1. /\ Full(old) /\ Start(p, old, chans[old]) /\ Track(old)
        /\ chans' = [chans EXCEPT ![old] = Empty] /\ id = prospectorList[p].id
    BY <1>1, <1>5 DEF ResumeFile, SameFile
  <2>2. /\ old \in Chans /\ old # NoChan /\ chans[old] \in Signal \cup {Empty}
        /\ chans'[old] = Empty /\ \A e \in Chans \ {old} : chans'[e] = chans[e]
    BY <1>2, <2>1 DEF Full, ProspectorInv, TypeOK
  <2>3. Harvested(old) = {} /\ \A q \in Paths \ {p} : prospectorList[q].chan # old
    BY <1>1, <1>2, <2>1, <2>2 DEF ProspectorInv, ChannelTellsHarvested
  <2>4. /\ Watched(p)' = [id |-> id, phase |-> "reading", position |-> chans[old].offset]
        /\ \A q \in Paths \ {p} : Watched(q)' = Watched(q)
    BY <1>1, <1>2, <2>1, <2>2, <2>3, HarvestOne
  <2>5. Watched(p) = [id |-> id, phase |-> "stopped", position |-> chans[old].offset]
    BY <1>1, <2>1 DEF Watched, Followed
  <2>6. Watch!Becomes(p, id, "reading", chans[old].offset)
    BY <1>2, <2>4, OnlyOneChanges
  <2>7. Watch!Resume(p)
    BY <1>2, <2>5, <2>6 DEF Watch!Resume
  <2>8. QED BY <1>2, <2>7 DEF WatchStep, Watch!WNext
<1>6. QED BY <1>3, <1>4, <1>5 DEF CheckExistingFile

LEMMA WakeWatches == WatchInv /\ Wake => WatchStep
<1> SUFFICES ASSUME WatchInv, Wake PROVE WatchStep
  OBVIOUS
<1> DEFINE gone == {p \in Paths : Forgettable(p)}
<1>1. ASSUME NEW p \in gone PROVE Watched(p).phase = "stopped"
  BY <1>1 DEF Forgettable, Watched, Followed
<1>2. UNCHANGED <<chans, harvesters>>
  BY DEF Wake
<1>3. ASSUME NEW p \in Paths, p \notin gone PROVE Watched(p)' = Watched(p)
  <2>1. PICK id, c : id = prospectorList[p].id /\ c = prospectorList[p].chan
    OBVIOUS
  <2>2. prospectorList'[p] = prospectorList[p]
    BY <1>3 DEF Wake
  <2>3. Followed(id, c)' = Followed(id, c)
    BY <1>2, SameFollowed DEF Harvested, Active
  <2>4. QED BY <2>1, <2>2, <2>3 DEF Watched
<1>4. ASSUME NEW p \in gone PROVE Watched(p)' = Watch!Unwatched
  <2>1. prospectorList'[p] = Unknown
    BY <1>4 DEF Wake
  <2>2. prospectorList'[p].id = NoFile /\ prospectorList'[p].chan = NoChan
    BY <2>1 DEF Unknown
  <2>3. Followed(NoFile, NoChan)' = Watch!Unwatched
    <3>1. Harvested(NoChan)' = {} /\ ~Full(NoChan)'
      BY DEF Harvested, Full
    <3>2. QED BY <3>1 DEF Followed, Watch!Unwatched
  <2>4. QED BY <2>2, <2>3 DEF Watched
<1> HIDE DEF gone
<1>5. gone \in SUBSET Paths
  BY DEF gone
<1>6. Watch!Forget(gone)
  BY <1>1, <1>3, <1>4, <1>5 DEF Watch!Forget
<1>7. QED BY <1>5, <1>6 DEF WatchStep, Watch!WNext

\* The file of a channel is followed by the one harvester that has the channel.
LEMMA ReadBy ==
  ASSUME ProspectorInv, NEW p \in Paths, NEW i \in Active,
         prospectorList[p].chan = harvesters[i].chan, harvesters[i].chan # NoChan
  PROVE  /\ Harvested(harvesters[i].chan) = {i} /\ ~Full(harvesters[i].chan)
         /\ Watched(p) = [id |-> prospectorList[p].id, phase |-> "reading",
                          position |-> harvesters[i].offset]
         /\ \A q \in Paths \ {p} : prospectorList[q].chan # harvesters[i].chan
<1>1. PICK c : c = harvesters[i].chan
  OBVIOUS
<1>2. i \in Harvested(c)
  BY <1>1 DEF Harvested
<1>3. Harvested(c) = {i} /\ ~Full(c)
  BY <1>1, <1>2 DEF ProspectorInv, ChannelTellsHarvested
<1>4. AnyOf(Harvested(c)) = i
  BY <1>3, AnyOfIn
<1>5. Watched(p) = [id |-> prospectorList[p].id, phase |-> "reading",
                    position |-> harvesters[i].offset]
  BY <1>1, <1>3, <1>4 DEF Watched, Followed, Follower
<1>6. \A q \in Paths \ {p} : prospectorList[q].chan # c
  BY <1>1 DEF ProspectorInv, ChannelTellsHarvested
<1>7. QED BY <1>1, <1>3, <1>5, <1>6

LEMMA OpenReadWatches ==
  ASSUME WatchInv, NEW i \in Slots, Open(i) \/ Read(i)
  PROVE  WatchStep
<1> DEFINE h == harvesters[i]
<1>1. /\ ProspectorInv /\ i \in Active /\ h \in Harvester
      /\ UNCHANGED <<prospectorList, chans>>
  BY OpenReadStep DEF WatchInv, scanVars
<1>2. PICK id \in Ids, at \in {"reading", "finishing"}, n \in h.offset .. MaxSize :
        harvesters' = [harvesters EXCEPT ![i] =
                         [h EXCEPT !.id = id, !.at = at, !.offset = n]]
  BY <1>1, OpenReadStep
<1>3. PICK c : c = h.chan
  OBVIOUS
<1>4. /\ harvesters'[i].at = at /\ harvesters'[i].chan = c /\ harvesters'[i].offset = n
      /\ \A j \in Slots \ {i} : harvesters'[j] = harvesters[j]
  BY <1>1, <1>2, <1>3 DEF ProspectorInv, TypeOK, Harvester
<1>5. Active' = Active
  BY <1>1, <1>4 DEF Active
<1>6. \A e : Harvested(e)' = Harvested(e)
  BY <1>3, <1>4, <1>5 DEF Harvested, Active
<1>7. ASSUME NEW q \in Paths, prospectorList[q].chan # c \/ c = NoChan
      PROVE  Watched(q)' = Watched(q)
  <2>1. PICK x, e : x = prospectorList[q].id /\ e = prospectorList[q].chan
    OBVIOUS
  <2>2. \A j \in Harvested(e) : harvesters'[j].offset = harvesters[j].offset
    BY <1>3, <1>4, <1>7, <2>1 DEF Harvested, Active
  <2>3. Followed(x, e)' = Followed(x, e)
    BY <1>1, <1>6, <2>2, SameFollowed
  <2>4. QED BY <1>1, <2>1, <2>3 DEF Watched
<1>8. CASE \E p \in Paths : prospectorList[p].chan = c /\ c # NoChan
  <2>0. PICK p \in Paths : prospectorList[p].chan = c /\ c # NoChan
    BY <1>8
  <2>1. PICK id0 : prospectorList[p].chan = c /\ c # NoChan /\ id0 = prospectorList[p].id
    BY <2>0
  <2>2. /\ Harvested(c) = {i} /\ ~Full(c)
        /\ Watched(p) = [id |-> id0, phase |-> "reading", position |-> h.offset]
        /\ \A q \in Paths \ {p} : prospectorList[q].chan # c
    BY <1>1, <1>3, <2>1, ReadBy
  <2>3. Harvested(c)' = {i} /\ ~Full(c)'
    BY <1>1, <1>6, <2>2 DEF Full
  <2>4. AnyOf(Harvested(c)') = i
    BY <2>3, AnyOfIn
  <2>5. Followed(id0, c)' = [id |-> id0, phase |-> "reading", position |-> n]
    BY <1>4, <2>3, <2>4 DEF Followed, Follower
  <2>6. Watched(p)' = [id |-> id0, phase |-> "reading", position |-> n]
    BY <1>1, <2>1, <2>5 DEF Watched
  <2>7. Watch!Becomes(p, id0, "reading", n)
    BY <1>7, <2>2, <2>6, OnlyOneChanges
  <2>8. Watch!Advance(p)
    BY <1>2, <2>2, <2>7 DEF Watch!Advance
  <2>9. QED BY <2>8 DEF WatchStep, Watch!WNext
<1>9. CASE ~\E p \in Paths : prospectorList[p].chan = c /\ c # NoChan
  BY <1>7, <1>9, NoneChanges DEF WatchStep
<1>10. QED BY <1>8, <1>9

LEMMA FinishWatches == ASSUME WatchInv, NEW i \in Slots, Finish(i) PROVE WatchStep
<1> DEFINE h == harvesters[i]
<1>1. PICK c, n : c = h.chan /\ n = h.offset
  OBVIOUS
<1>2. /\ ProspectorInv /\ i \in Active /\ h.id \in Ids /\ c \in Chans /\ c # NoChan
      /\ UNCHANGED prospectorList
  BY <1>1
  DEF Finish, WatchInv, Active, ProspectorInv, TypeOK, FileOpened, Harvester, NoHarvester,
      scanVars
<1>3. /\ chans'[c] = [id |-> h.id, offset |-> n]
      /\ \A e \in Chans \ {c} : chans'[e] = chans[e]
  BY <1>1, <1>2 DEF Finish, ProspectorInv, TypeOK
<1>4. /\ \A j \in Slots \ {i} : harvesters'[j] = harvesters[j]
      /\ harvesters'[i].at = "none"
  BY DEF Finish, WatchInv, ProspectorInv, TypeOK, NoHarvester
<1>5. Active' = Active \ {i}
  BY <1>4 DEF Active
<1>6. \A e : Harvested(e)' = Harvested(e) \ {i}
  BY <1>4, <1>5 DEF Harvested, Active
<1>7. ASSUME NEW q \in Paths, prospectorList[q].chan # c PROVE Watched(q)' = Watched(q)
  <2>1. PICK x, e : x = prospectorList[q].id /\ e = prospectorList[q].chan
    OBVIOUS
  <2>2. e \in Chans \cup {NoChan} /\ i \notin Harvested(e)
    BY <1>1, <1>2, <1>7, <2>1 DEF ProspectorInv, TypeOK, Entry, Unknown, Harvested
  <2>3. /\ Harvested(e)' = Harvested(e)
        /\ \A j \in Harvested(e) : harvesters'[j].offset = harvesters[j].offset
    BY <1>4, <1>6, <2>2 DEF Harvested, Active
  <2>4. Followed(x, e)' = Followed(x, e)
    BY <1>3, <1>7, <2>1, <2>2, <2>3, SameFollowed
  <2>5. QED BY <1>2, <2>1, <2>4 DEF Watched
<1>8. CASE \E p \in Paths : prospectorList[p].chan = c
  <2>0. PICK p \in Paths : prospectorList[p].chan = c
    BY <1>8
  <2>1. PICK id : prospectorList[p].chan = c /\ id = prospectorList[p].id
    BY <2>0
  <2>2. /\ Watched(p) = [id |-> id, phase |-> "reading", position |-> n]
        /\ \A q \in Paths \ {p} : prospectorList[q].chan # c
    BY <1>1, <1>2, <2>1, ReadBy
  <2>3. Full(c)'
    <3>1. [id |-> h.id, offset |-> n] # Empty
      BY <1>2, RegistrarAssumption DEF Empty, NoState
    <3>2. QED BY <1>2, <1>3, <3>1 DEF Full
  <2>4. Followed(id, c)' = [id |-> id, phase |-> "stopped", position |-> n]
    BY <1>3, <2>3 DEF Followed
  <2>5. Watched(p)' = [id |-> id, phase |-> "stopped", position |-> n]
    BY <1>2, <2>1, <2>4 DEF Watched
  <2>6. Watch!Becomes(p, id, "stopped", n)
    BY <1>7, <2>2, <2>5, OnlyOneChanges
  <2>7. Watch!Stop(p)
    BY <2>2, <2>6 DEF Watch!Stop
  <2>8. QED BY <2>7 DEF WatchStep, Watch!WNext
<1>9. CASE ~\E p \in Paths : prospectorList[p].chan = c
  BY <1>7, <1>9, NoneChanges DEF WatchStep
<1>10. QED BY <1>8, <1>9

LEMMA NextWatches == WatchInv /\ [Next]_vars => WatchStep
<1> SUFFICES ASSUME WatchInv, [Next]_vars PROVE WatchStep
  OBVIOUS
<1>1. CASE UNCHANGED <<prospectorList, chans, harvesters>>
  BY <1>1, QuietStep, NoneChanges DEF WatchStep
<1>2. CASE StatFile \/ Announce \/ Sleep \/ FileSystem \/ UNCHANGED vars
  BY <1>1, <1>2 DEF StatFile, Announce, Sleep, FileSystem, vars, scanVars
<1>3. ASSUME NEW i \in Slots, Harvest(i) \/ Record(i) PROVE WatchStep
  BY <1>1, <1>3, OpenReadWatches, FinishWatches DEF Harvest, Record, scanVars
<1>4. QED
  BY <1>2, <1>3, CheckWithoutHarvesterWatches, CheckNewFileWatches,
     CheckExistingFileWatches, WakeWatches DEF Next, Run

\* For any paths, files, harvesters and changes of the file system, the prospector
\* keeps its promise of each path: as long as the same file is there, its harvesters
\* follow one another, each from where the one before has stopped, and the path is not
\* forgotten before the last one has (prospector.go:178-182,355-398, log.go:138-209).
THEOREM ProspectorWatches == SafeSpec => ImplementsWatch
<1>1. Init => Watch!WInit
  <2> SUFFICES ASSUME Init, NEW p \in Paths PROVE Watched(p) = Watch!Unwatched
    BY DEF Watch!WInit
  <2>1. prospectorList[p].id = NoFile /\ prospectorList[p].chan = NoChan
    BY DEF Init, Unknown
  <2>2. QED BY <2>1, NothingFollows DEF Watched, Watch!Unwatched
<1>2. WatchInv /\ [Next]_vars => [Watch!WNext]_([p \in Paths |-> Watched(p)])
  BY NextWatches DEF WatchStep
<1>3. QED
  BY <1>1, <1>2, WatchInit, WatchNext, PTL
  DEF SafeSpec, ImplementsWatch, Watch!WSafeSpec
=============================================================================
