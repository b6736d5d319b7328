# Formal models of go-source-learn

This directory holds TLA+ specifications of the programs in `src/`, the TLC
configurations that check them on small instances, and TLAPS proofs of their
most important theorems for all instances. `PROJECT.json` lists components,
runs, the faults each property is shown to catch, the lines each definition
stands for, the hazards and the findings.

The repository collects programs the author rewrites to learn from them. The
main one is `beats-v1.0.0`, a filebeat: it follows log files and ships their
lines to an output, remembering how far it got so that a restart goes on from
there. The others are a cache with expiration (`cache2go`), pieces of groupcache
(consistent hash, LRU), a memory viewer (`swapview`) and a stub of prometheus.
About 3300 lines are the author's; the vendored libraries are left aside.

## What the source lacks

The rewrite is unfinished, and part of it does not compile. What is written is
modelled as it is written; what is missing is external and marked so in the map.

- `Registrar.Run`, called at `filebeat.go:105`, the writing of the registry file
  and `FileEvent.GetState` do not exist. The models assume what
  `filebeat.go:103-105,149-151` and `registrar.go:19-24` say of them: a goroutine
  that receives `Registrar.Channel` and `Registrar.Persist` and records the last
  acknowledged position of each file.
- `Beat.Events`, the publisher client, is only an interface: an output that
  accepts a batch or reports failure.
- All `Stop` functions are empty, against the comments at `filebeat.go:123-126`, and
  `running` is never cleared, so no loop ends and a signal, which `HandleSignals`
  turns into `Stop`, ends nothing. The code behind those exits is unreachable and has no action.
- Several functions lack a return or use something undefined (`reader.go`
  `advance` and `decode`, `streambuf.Write`, `cachetable.go:139`, `lru.go`,
  the prometheus stub). `LineReader` and `StreamBuf` follow them as far as they are
  written; the last two are left out.

## Inventory

| Component | State it keeps | Operations | Interacts with | What makes it correct |
|---|---|---|---|---|
| Spooler (`beat/spooler.go`) | spool, nextFlushTime, ticker, Channel | Run's select, flush | receives from harvesters, sends to publisherChan | nothing lost, duplicated or reordered; a partly filled spool is flushed in time |
| Filebeat.Run and Publish (`beat/filebeat.go`) | publisherChan | start order, Publish loop, a new start after a crash | spooler, output, registrar | only what the output was given is acknowledged; across restarts no line that is owed to the output is passed over |
| Harvester (`harvester/log.go`) | Offset, file, FinishChan, last partial length | open, seek, read loop, finish | spooler, its prospector | goes on where it stopped, sends each line once, each beginning of a line only when it has grown |
| Line reader (`harvester/reader.go`) | input and output buffers, offsets | next, advance, partial, decode, timed Read | harvester | the sizes it reports add up to the bytes of the file |
| Stream buffer (`libbeat/common/streambuf`) | data, mark, offset, available, error | Append, Collect, Advance, IndexFrom... | line reader | marks ordered; each byte taken once; a failed buffer hands nothing out |
| Crawler (`crawler/crawler.go`) | pendingProspectorCnt | Start | prospectors and registrar, by Persist | returns when all first scans are over, with their states stored |
| Registrar (`crawler/registrar.go`) | State, Persist, Channel | Init, LoadState, fetchState, getPreviousFile | crawler, prospectors, Publish | a file goes on from its own offset; a new one starts at 0 |
| Prospector (`crawler/prospector.go`) | prospectorList, missingFiles, iteration, lastscan | Run, scan, checkNewFile, checkExistingFile | harvesters by signal channels, registrar, crawler | one harvester per file, also when it is renamed or rotated; a stopped one is resumed when the file grows |
| Configuration (`config/config.go`, `cfgfile`) | Prospectors | FetchConfigs, mergeConfigFiles | filebeat | at least one prospector |
| Beat framework (`libbeat/beat`, `service`) | none | Config, Setup, Run, Cleanup in order | filebeat | the order |
| cache2go | tables, items, timer, callbacks | Add, NotFoundAdd, Value, Delete, Flush, expirationCheck | callers, timer goroutine, callbacks | an item kept alive stays, an expired one goes; no deadlock; one table per name |
| consistenthash | keys, hashMap | Add, Get | callers | a key goes to the nearest point and moves only to an added node |
| LRU, swapview, prometheus | little | unfinished; reading and formatting sizes; none | | |

The hard behaviour is in filebeat. Its parts are goroutines that meet on channels
of different capacities, in the order of `Filebeat.Run`; files change between two
steps of any of them; the number of elements in a signal channel stands for
"this harvester has stopped"; a map without a lock is read and written at once.
`PROJECT.json` has each hazard at its line, the ones of parts that are not
modelled yet too.

## Modules

| Module | Models | Extends |
|---|---|---|
| `EventQueue` | the promise: a bounded, lossless, ordered queue from harvesters to registrar | |
| `EventPipeline` | the harvesters' sends, Spooler, Publish and the registrar's receiver | |
| `EventPipelineProofs` | its invariant, and that it implements `EventQueue` | `EventPipeline` |
| `Delivery` | the promise across restarts: a position only grows, and passes a line only when the output has accepted or refused it or `tail_files` has passed it over | |
| `Filebeat` | the pipeline over files that grow, with crashes and restarts | `EventPipeline` |
| `FilebeatProofs` | its invariant, and that it implements `Delivery` | `Filebeat`, `EventPipelineProofs` |
| `Registrar` | what a saved state is and when `fetchState` resumes from it | |
| `FileWatch` | the promise for a path: the harvesters of its file follow one another, each from where the last one stopped | |
| `Prospector` | one prospector with its harvesters over a changing file system | `Registrar` |
| `ProspectorProofs` | its invariant, what a signal channel tells, and that it implements `FileWatch` | `Prospector` |
| `Startup` | `Crawler.Start` and the first scans of N prospectors | `Registrar` |
| `StartupProofs` | the invariant of the start | `Startup` |
| `StreamBuf` | the methods of `streambuf.Buffer` as operators on a buffer | |
| `StreamBufCalls` | one buffer and any calls | `StreamBuf` |
| `StreamBufProofs` | its invariant | `StreamBufCalls` |
| `LineReader` | `readLine` with its line reader, timed reader and two buffers | `StreamBuf` |
| `ConsistentHash` | the ring of groupcache | |
| `ConsistentHashProofs` | that a sort sorts, and the invariant of the ring | `ConsistentHash` |
| `RWMutex` | Go's `sync.RWMutex`, with what happens when a reader calls `Unlock` | |
| `CacheTable` | one table of cache2go and its goroutines | `RWMutex` |
| `CacheTableProofs` | the invariants of its lock and of its timer | `CacheTable` |
| `MC*` | symmetry and constants for TLC | the module named |

In each module a definition that starts with "Fault" in its comment is a
plausible bug. No action uses it; it shows that a property would notice.

### EventPipeline

One harvester per source; a line is the number of its position in the source. A
goroutine blocked on a channel is an action whose guard is false. Each variable is
named for the field it stands for. `tmpCopy` not empty means that `flush` is at
its blocking send; `overdue` is `time.Now().After(nextFlushTime)`, true at the
start because `NewSpooler` computes the time before `Config` sets the timeout;
`tick` is the one-place channel of the ticker. A step of `Harvest` both moves the
offset and sends, because nobody else sees the offset. `StartPublish` comes at
any time: it is the return of `Crawler.Start`. `shipped`, `published`, `givenUp` and
`acked` are histories, never read by a guard.

What the output gets is not what was read. `Publish` hands it the documents that
`FileEvent.ToMapStr` makes, and that function returns a map without any field
(`input/file.go:44-49`); `output` is therefore a sequence of empty maps. The history
`published` says for which events the output accepted a document, and the properties speak
of these events: that a line is "published" means that a document made from it was
accepted, not that the output could tell its text. `PublishEvents` may return false; the
batch is acknowledged all the same, and its complete lines are noted in `givenUp` as
refused. No property says that a refused line is sent again, since it is not (finding 1):
`RecordedIsSettled` says that a position passes only lines that were accepted or refused.

An unfinished line (`isPartial`) is sent again as it grows, with the offset of its
start; the position after it is that offset, since `h.Offset` has not moved
(`log.go:132`). What position an acknowledged event stands for is external
(`GetState` is missing): the one from which the harvester would read on.

### Filebeat

Composes `EventPipeline` with the files and the registry. A source is a file that the
registry knows, at its own path, at first with position 0 (`Prospector` has the other
cases: a file without a state is never harvested as the code is written). After each
start the first scan comes to each file once (`status`), and finds it in one of two cases:

- It is stale, that is not written for longer than `ignore_older`. Then `fetchState`
  resumes it (`Resume`), and its harvester seeks to `StartOffset`: the recorded position;
  but with `tail_files` a recorded 0 counts as none, and the file is read from its end
  (`log.go:183-192`). The lines between go to `givenUp` as skipped. The end is taken to be
  the start of a line.
- It was written recently, or its encoding is unknown (`LeaveAlone`). Then no harvester is
  started: the inverted error test at `prospector.go:300` takes it for a renamed file and
  leaves it the nil channel of an entry that does not exist, on which every later scan
  finds nothing to resume from. It is left alone until the next start.

Which case it is, is left open at each start for each file; a file may also be written
before the scan comes. Between any two steps the process may end: by a kill, by a panic, of
which `Run` recovers only those of its own goroutine, to exit (`filebeat.go:49-57`), or with
the machine. `CrashAndRestart` keeps `positions`, the registry file, together with the files
and the output; channels, spool, batch and offsets are made anew. `shipped` and `acked` are
histories of one life of the process, `published` and `givenUp` of all. That the missing
`Registrar.Run` writes the file in the step in which it receives a batch is the assumption
that this external part makes.

`Delivery` is what remains promised: positions never go back, and pass a line only when it
was accepted, refused, or skipped while nothing was recorded of its file. Only where the
output refuses nothing and no file is tailed is that delivery at least once.

### Registrar and Prospector

A file is an identity that it keeps under any name, and a size, in lines. Files are
created, written, renamed, removed and grow stale at any step, `MaxChanges` times
in all. A directory is not a file. The modification time of a file is its size, for
it only grows. `pc` follows `Run` and `scan`: a file is examined (`StatFile`, which
fills `info`), then checked by one action that uses what `info` and
`prospectorList` say, though the file may have changed since. Only the send on
`Registrar.Persist` waits in between (`FetchState`, then `Persist`). The entry is
replaced at the end of every round of the loop (`Track`). A scan takes the matches
in the order of `Glob`.

Signal channels are numbers with contents (`chans`); 0 is the nil channel. A number
nobody refers to is free to be made again. A content is the offset the code sends,
with the file it belongs to; the code has only the offset, and no guard looks at
the file. `of` in a harvester likewise says which file its first offset was
recorded for.

Two error tests are inverted in the source (`prospector.go:300,366` and
`registrar.go:103`). The model follows the source: a recently written new file
without a previous path gets a nil channel and no harvester; a stale file without
a state makes the process panic; a file known under an old name is read from its
start.

A harvester opens whatever file is at its path by then, retries while there is
none, stops at once when the file is not regular, cannot be examined or cannot be
decoded, and otherwise reads for ever: `handleReadlineError` (`log.go:211`)
returns nil, so no read error stops it. `Record` is the missing registrar.

`FileWatch` says of a path what a user sees of it: its file, whether a harvester reads it or
has stopped, and at which position. `Watched` reads this off the entry of the path and its
channel: a full channel is a harvester that has stopped at the offset in it, and an empty
one is read by the harvester that will send to it, if there is one. A position never moves
back; with `tail_files` a resumed harvester may skip ahead (`log.go:185`), which is an
`Advance`.

### Startup

`Crawler.Start` starts N prospectors, then receives: a state is stored in two
steps (`BeginStore`, `EndStore`), an event without a source is counted, and the
last one ends the wait. A prospector runs scan after scan; each asks the registrar
about some of the paths it matches (`LookUp`, `LookedUp`, `Searched`), hands over
the state it resumes from (`HandOver`, an unbuffered send) and after the first
scan announces itself. Which files of a scan are new or stale is left open here,
so what holds, holds for every choice `Prospector` makes. The process ends when a
prospector cannot be initialised, when a new file has no state, or when the runtime
detects the map race.

### StreamBuf and LineReader

A buffer is a record with the fields of `Buffer`. `fixed` is false in every buffer, for
nothing sets it. `doAppend` fails in any case, so `Append` and `Write` are errors and no
more, and an error stays until somebody calls `SetError(nil)`, since `Reset` does not exist
(`OnlySetErrorRevives`). `Advance` moves on a failed buffer
too; "almost all operations will fail" (`streambuf.go:108`) allows for it.

In `LineReader` a byte is a line feed or not. `Returned` is the return of
`timeReader.Read`, whose loop assigns to variables of its own (`reader.go:45`): nothing
and no error, whatever was read. So `ReadOn`, the part of `advance` that fetches bytes,
ends `next` with `ErrNoMoreBytes`, and `readLine` sleeps and tries again until nothing has
been read for `partial_line_waiting`; then `Partial` makes a line of no bytes and
`lineEndingChars` indexes it at -1. `lastReadTime` begins at zero, so for an empty file
that is at once. `FoundLine` is the branch that is never reached. The other models take
`readLine` to return what its comment says, lines and beginnings of lines.

### ConsistentHash

The hash function is a variable that `Init` chooses and nothing changes: any function
from replica names and keys to the hashes, so points and keys may coincide in all ways.
An `Add` of several nodes is one of each in turn. `Sort` says what `sort.Ints` returns by
ranks: position i has the value with fewer than i smaller ones and at least i not greater.

### CacheTable

Goroutines call the table in any order; each call is cut where the code releases or
waits for a lock. `pc` is where a goroutine is: `remove`, for instance, is
`deleteInternal` between its callbacks and `table.Lock()` at line 189. To lock is two
steps, to announce (which keeps new readers out) and to acquire, because a writer that
waits changes what the others can do. A section under a read lock that waits for
nothing is one step. `Value` is two sections, the lookup and `KeepAlive`; what it does
not find it may load and add.

A check ranges over a map that changes meanwhile: `left` says which keys Go must, may
or will not visit. A `Flush` replaces the map, and a check that is calling back goes on
with the old one (`flushed`). `cleanupTimer` is when the table's timer fires;
`strayTimers` are those still armed that the table has lost track of. Time is a bounded
clock, which stands still while a check holds the table. Callbacks are moments without
the table's lock; what they do, and setting them, is left out. Line 139 does not compile
(`addedItem := nil`) and is read as a test for nil. `info` is a history where it says
when an item was stored.

`Exists` and `deleteInternal` release a read lock with `Unlock` (lines 209, 181). Go ends
the process, unless a writer waits at that moment: then the call goes through, that
writer waits for ever and the lock cannot be written again. The model does the same.
Its properties about timers hold until a removal has gone through in that way, which is
their condition `ItemLocksSound`.

## Runs

| Run | Shows | Bounds |
|---|---|---|
| `pipeline_safety` | the stages are a lossless ordered bounded queue (`NothingLost`, `ImplementsQueue`); no recorded position passes a line that the output has neither accepted nor refused, none moves back (`RecordedIsSettled`, `PositionsAdvance`), with unfinished lines | 2 sources, 2 lines and a beginning of each: 8 events for the 9 places, so every stage fills and blocks the one before it; the output may refuse any batch |
| `filebeat_restart` | over crashes and restarts the pipeline implements `Delivery` (`ImplementsDelivery`), a file that the last start has not left alone is worked off again and again (`EveryLineSettled`) and no line is sent again that was recorded (`NothingRecordedAgain`) | 2 files of 2 lines, one of them tailed, channels of 1, spool of 2, 1 crash; the output may refuse, and each start may find each file stale or recent |
| `pipeline_output_fails` | finding: a batch the output refused is acknowledged | as for safety, without unfinished lines |
| `prospector_safety` | `ChannelTellsHarvested`, `ForgetsOnlyStopped` | 2 paths, 2 files, 2 changes, 2 harvesters, 3 channels, every registry and file system to start with, encoding known or not |
| `prospector_liveness` | no scan gets stuck and a file that grows gets a harvester again (`EveryScanEnds`, `ModifiedFileResumed`); the prospector implements `FileWatch` (`ImplementsWatch`) | 1 path, 2 files of up to 2 lines, 3 changes, `tail_files` on |
| `prospector_rotation`, `prospector_replaced` | findings, below | as for safety |
| `startup_crawler` | `PendingExact`, `Handoff`, `StartReturns`, `EveryOtherAnnounced` | 2 prospectors that match the same 2 paths, one on "-", every set of unknown encodings |
| `cache_safety` | `ExpiryInTime`, `OneTimer`, `ItemsStable` | 3 goroutines, 2 keys, 2 items, life spans 0 to 2, 1 unit of time |
| `stream_buffer` | the documented invariants of the marks (`TypeOK`), `TakenOnce`, only `SetError(nil)` ends a failure (`OnlySetErrorRevives`) | every buffer of up to 4 bytes, counts up to 5 |
| `reader` | finding, below | 3 bytes, a buffer of 2 |
| `consistent_hash` | `GetIsNearest`, `MovesOnlyToAdded` | 3 additions of 3 nodes with 2 points each, 5 hashes, every hash function |

Why these bounds are enough. The code of the pipeline compares lengths only with
the capacities, so a spool of two and channels of one reach every case (empty, in
between, full, blocked), and the proofs cover all others. Two lines of a file can be in
different stages when a crash comes, and the last of four lines does not fill a spool, so
that only the timer flushes it; one crash is enough to find the stages in any state, and
the proof allows any number. The prospector compares
a path with other paths and an identity with other identities; two of each are
enough for a rename over another file, a rotation, a replacement while filebeat was
down and a file at an old path, and two changes are enough to have one before and
one after the scan reached the file.
Three channels are the most that two harvesters and a replaced entry use in those
scenarios. Iterations count modulo 2 for the wrap-around of `uint32`. In Startup
two prospectors let one announce or look up while the crawler stores the state of
the other, and the proofs cover every number. In the cache three goroutines are one that
deletes or checks, one that keeps the item alive and a third that adds or flushes; two
items with different life spans are enough for a nearest one, and one unit of time lets
the shorter life end. On a ring of five hashes the points of three nodes must coincide in
some cases and wrap around in others, and a node may be added twice; a buffer of four
bytes allows several reads, a skip and a failure. A stray timer is created within these bounds but fires only beyond
them.

`CHECK_DEADLOCK FALSE` is set where the system may stop: the process ends (panic,
exit, race), the crawler waits for ever (the findings), or the model has used up
its lines or changes while harvesters wait at the end of a file.

### Fairness

A goroutine that can take a step takes one: Go's scheduler is preemptive. Tickers
fire and time passes. In `Filebeat` the publisher, the registrar and the
output go on: an output that never returns blocks everything and is excluded. The
first scan after a start comes to each file, but nothing says whether it resumes the file or
leaves it alone, so no file is certain to have a harvester. A harvester finds the lines that
its file has; nothing says that a file grows, and nothing makes the process crash. A restart
follows every crash, in the same step.
In `Prospector` the fairness of `Run` includes that its sends on
`Registrar.Persist` are received, which before the end of the start is
`Crawler.Start` (see `Startup`) and afterwards the missing `Registrar.Run`. Files
are not fair. In `Startup` a prospector that waits to send is served in its turn
(strong fairness), since a Go channel queues its senders first in, first out. None
of these is put on a failure: a panic, a race, `InitFails`.

## Findings

Each is a run that TLC ends with a counterexample; `PROJECT.json` quotes the line of
the repository the code disagrees with.

1. `filebeat.go:145`: the result of `PublishEvents` is ignored, the batch is
   acknowledged anyway, and a restart skips its lines.
2. `prospector.go:379`: the harvester of a rotated file keeps the old signal
   channel; of two that finish through it, one blocks for ever.
3. `registrar.go:95`: the identity in a saved state is never compared, so a file
   that replaced another while filebeat was down is read from the wrong offset.
4. `reader.go:45`: what is read from a file is lost before it reaches the line reader's
   buffer (and `streambuf.go:64-68` would not store it).

The models contain, as actions, more that the source does and its comments do not
say, without a run of its own: the document of every event is empty, though `Publish` is
said to publish events to the output (`input/file.go:44`, `filebeat.go:99`, `ToMapStr`); a
recently written new file is taken for a renamed one, gets a nil channel and never a
harvester, a file the registry knows included (`prospector.go:300`,
`NewFileTakenForRenamed`, `LeaveAlone`);
a prospector of "-" with an unknown encoding never announces itself, so that the start
hangs (`prospector.go:136`, `ReturnEarly`); the removal of a key of a cache ends the
process (`cachetable.go:181`, `Remove`); `lineEndingChars` tests `isLine` the wrong way
round, so that lines keep their line feed and a line of no bytes makes the process panic
(`log.go:270`, `PanicsOn`); a stale file without any state makes `fetchState`
dereference nil (`registrar.go:103`, `Panic`); a file that is renamed while it is
harvested gets a second harvester (`prospector.go:366`, `StartNewFile`,
`FileReplaced`); with `tail_files` the offset 0 counts as none (`log.go:185`,
`StartOffset`); `Registrar.State` is written while prospectors read it
(`crawler.go:77`, `MapRace`). Without any prospector the crawler waits for ever
(`crawler.go:66`). In `CacheTable`: three goroutines deadlock when a check holds the table
and wants to read an item (line 98), a `KeepAlive` waits for that item and a deleter
holds it and waits for the table (189); after a removal that went through, an item added
during its callbacks may be removed in place of the old one (191) or be left without a
timer (134, 118).

## Proofs

`EventPipelineProofs` proves for all sources, capacities, spool sizes and numbers
of lines, from `PipelineAssumption` (capacities are positive naturals):

- `TypeCorrect`: `SafeSpec => []TypeOK`, with it that the spool is below its
  capacity whenever the spooler selects, since the event that fills it flushes it;
- `PipelineLosesNothing`: `SafeSpec => []NothingLost`;
- `PipelineImplementsQueue`: the pipeline implements `EventQueue`, with the histories
  as what was accepted and delivered.

The inductive invariant `PipelineInv` adds to `TypeOK` and `NothingLost` that a
publisher between two batches holds none, that no batch is longer than the spool
and that the history of acknowledgements is a copy of a prefix of what was sent.
`NothingLost` alone is not inductive: a publisher that held a batch while receiving
would drop it. The refinement then needs only lengths: the concatenation of the
stages is at most `ChanCap + 4 * SpoolSize` long, so a send is an `Accept`, and a
step of the registrar is a `Deliver`. That a batch's last event of a source exists
for any length is by well-foundedness of the naturals.

`FilebeatProofs` proves for the same constants, any number of crashes and any set of tailed
files, from `FilebeatAssumption`, which says no more than that, for `FSafeSpec`. The output
may refuse.

- `RecordedOnlySettled`: `[]RecordedIsSettled`; `PositionsOnlyAdvance`: `PositionsAdvance`;
- `OnlyUnrecordedAgain`: `NothingRecordedAgain`;
- `FilebeatImplementsDelivery`: `Filebeat` implements `Delivery`.

`FilebeatInv` adds to `PipelineInv` that the events of each source on their way are in order,
and that no line is missing between the recorded position and the offset of its harvester
but the ones that were given up (`Reading`). Without that a batch could move the position
over a line that is still in a channel. A source without a harvester has nothing on its way
(`HarvestedFirst`), so `Resume` may move its offset. What is acknowledged was accepted or
refused (`AckedSettled`). A crash empties the stages and puts the offset back to the
position, which makes all of this true again; a record moves the position over the first
events that are left.

`StartupProofs` proves for every number of prospectors, from `StartupAssumption` and
`RegistrarAssumption`: `StartupTypeCorrect`, `PendingIsExact` and `HandoffComplete`.
The inductive invariant `StartupInv` adds to `TypeOK` and `PendingExact` that a
prospector that is not started has not announced itself, that the crawler receives
only when all are started (so that the count cannot reach zero early), that at most
the state being stored is handed over and not stored, and that a crawler that has
returned has heard of everybody. The counter is the cardinality of the prospectors
awaited; it changes by the lemmas on finite sets.

`ConsistentHashProofs` proves for all hash functions, nodes, keys and numbers of replicas,
from `RingAssumption`: `RingTypeCorrect`, `NearestFound` and `KeysMoveOnlyToAdded`. First,
that the positions of a sequence have exactly one value of their rank each, so that `Sort`
exists, is sorted and keeps the values. The inductive invariant `RingInv` adds to `TypeOK`
that every point of an added node is in use and that every point in use leads to the last
node added that has it. `Get` then finds a point at the least distance; two points at the
same distance from a key are the same, so a key that moves moved to a new point.

`StreamBufProofs` proves for all buffers and calls, from `BufferAssumption`: `MarksKept`,
`EveryByteTakenOnce` and `FailureEndsBySetError`. `TypeOK` and `TakenOnce` together are inductive:
a call either sets the error alone or passes the next bytes (`Passed`).

`ProspectorProofs` proves for any paths, files, harvesters, channels and changes, from
`ProspectorAssumption` and `RegistrarAssumption`, for `SafeSpec`: `ProspectorTypeCorrect`,
`OneHarvesterPerChannel` (`[]ChannelTellsHarvested`), `OnlyStoppedForgotten`
(`ForgetsOnlyStopped`) and `ProspectorWatches` (`ImplementsWatch`). `ProspectorInv` adds to `TypeOK` and `ChannelTellsHarvested` that
a match that is checked was examined (`MatchExamined`) and that a harvester that reads has
opened a file (`FileOpened`); without them `Track` could store, and `Stop` send, something
that is no file. A step that gives an entry a channel makes it, so nobody else has it
(`MakeChannel`, `NewChannelTells`): that is also true where the harvester of a rotated
file is started with the old channel, because in that step the last entry that had
it takes another (finding 2 is what becomes of the two harvesters left on it, which no
entry looks at). `checkExistingFile` starts a harvester on a channel only after the channel
told that there is none (`OldChannelTells`). `OnlyWakeForgets` then leaves one step that
forgets, whose guard is a full channel.

That `Prospector` implements `FileWatch` needs two facts more, in `WatchInv`. A state that is
handed to the registrar belongs to a path that has no entry yet (`PersistingNew`), or the
step after it could drop a harvester. And without a known encoding nothing is harvested
(`EncodingNeeded`): `checkExistingFile` then returns before it compares the files
(`CheckWithoutHarvester`), and the entry takes a new file with the channel of the old one,
which would be wrong if anybody could send to it. TLC agrees with both facts on the instance
of `prospector_safety`. Each step then changes what is told of one path at most
(`OnlyOneChanges`), since no two entries share a channel on which somebody harvests; `Wake`
alone forgets several. Of a harvester that has lost its entry nothing is told.

`CacheTableProofs` proves for any goroutines, keys, items, life spans and time, from
`CacheAssumption`, `NoItemAssumption` and `MutexAssumption`, in two layers.

- `LockInv` gives `CacheTypeCorrect` and `RangeUndisturbed` (`ItemsStable`). Beside
  `TypeOK` it says that only items that were made are stored and ranged over
  (`StoredMade`), that a goroutine in the middle of a call knows its key and item
  (`LocalsKnown`), and that a goroutine in the loop of a check has the lock
  (`LoopHasTable`). The last is not obvious, because `Exists` releases its read lock as a
  writer's: it holds since whoever is in `Exists` is counted as a reader, so a writer that
  has the lock has it alone, and since a reader passes a writer only on a lock that such a
  release has broken (`spare`), which nobody can write again (`hung`).
- `CacheInv` gives `OnlyOneTimer` (`[]OneTimer`) and `ExpiryLookedAtInTime`
  (`[]ExpiryInTime`). It adds that nothing was accessed in the future (`InThePast`), and
  `TimerExact`: a check that ranges has stopped the timer, began at this very time, and
  each item it has passed ends no earlier than the next check it has computed
  (`RangeExact`); and between checks the timer is due within `cleanupInterval`, which is
  what `addInternal` compares the new life span with. `RangeExact` is preserved only while
  no check calls back and goes on. While the locks of the items are sound there is none:
  a removal either ends the process or breaks the lock of its item (`SoundBefore`).
  `ExpiryInTime` alone is not inductive: an add that starts no check relies on the interval.

Model-checked only: liveness (`EveryLineSettled`, `EveryScanEnds`,
`ModifiedFileResumed`, `StartReturns`, `EveryOtherAnnounced`), which is out of the
prover's reach since it needs fairness and `ENABLED`, and the four findings, each of which
is one counterexample. `LineReader` is checked by its finding alone. Every safety
property of a passing run, and all three refinements, are proved.

## Plan

Done: the event pipeline with its abstract queue; prospector, registrar and the start of
the crawler; the cache table; restarts (`Filebeat`); stream buffer and line reader; the
ring; what a prospector promises (`FileWatch`); the proofs of all their safety properties. Left, in this order:

1. `CacheRegistry`, the double check of `Cache` (one table per name; as written the
   creator of a table gets nil), and the callbacks of items.
2. `StdinPaths` (removing "-" while ranging), the merge of configurations, the units of
   `swapview`.

## Not modelled

Parsing of YAML and of durations, the registry file's format, log output, the
service flags and the vendored code are I/O or data without state of their own.
Encodings count only as known or unknown. A prospector has one glob; several globs
share `prospectorList` and only reset `missingFiles` more often. Symbolic links and
the reuse of an inode by a new file are left out, as are the lengths of lines. `main.go` and `libbeat/beat` call `Config`,
`Setup`, `Run` and `Cleanup` in order and keep no state that changes; back-off is a field
that `handleReadlineError` does not use. The LRU, the protobuf and the prometheus stub
have no behaviour, and the merge of configurations is a concatenation of what was parsed.
