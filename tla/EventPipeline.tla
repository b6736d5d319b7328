---------------------------- MODULE EventPipeline ----------------------------
(***************************************************************************)
(* The event path of filebeat: harvesters -> Spooler.Channel -> spool ->   *)
(* publisherChan -> Publish -> Registrar.Channel -> registrar.             *)
(*                                                                         *)
(* One harvester reads each source.  A line of a source is identified by   *)
(* its offset counted in lines, so an event is a source with an offset and *)
(* a flag that tells the beginning of an unfinished line from a line.      *)
(* The Spooler, Publish and the registrar are one goroutine each; a        *)
(* goroutine blocked on a channel is an action whose guard is false.       *)
(*                                                                         *)
(* Spooler.Stop is empty and nothing clears Spooler.running, so the exit   *)
(* of the spooler's loop is unreachable and has no action.                 *)
(***************************************************************************)
EXTENDS Naturals, Sequences

CONSTANTS Sources,        \* the files with a harvester
          ChanCap,        \* capacity of Spooler.Channel (16 in the code)
          SpoolSize,      \* FilebeatConfig.SpoolSize
          MaxLines,       \* bound: lines a source has
          MaxPartial,     \* bound: times an unfinished line is sent
          OutputMayFail   \* may Client.PublishEvents return false?

ASSUME PipelineAssumption ==
  /\ ChanCap \in Nat \ {0}
  /\ SpoolSize \in Nat \ {0}
  /\ MaxLines \in Nat
  /\ MaxPartial \in Nat
  /\ OutputMayFail \in BOOLEAN

VARIABLES
  offset,         \* Harvester.Offset, per source
  lastPartialLen, \* what was last sent of the unfinished line, per source
  spoolChan,      \* Spooler.Channel
  spool,          \* Spooler.spool
  tmpCopy,        \* flush's copy, non-empty while flush blocks on its send
  tick,           \* an unread tick in the ticker's channel (capacity 1)
  overdue,        \* time.Now().After(nextFlushTime)
  publisherChan,  \* Filebeat.publisherChan, a channel of batches
  batch,          \* the batch Publish is working on
  publisherPc,    \* where Publish is: not started, or one of its three steps
  registrarChan,  \* Registrar.Channel, a channel of batches
  positions,      \* the registrar's recorded position of each source
  output,         \* the documents the output accepted, in order
  shipped,        \* history: events sent by the harvesters, in order
  published,      \* history: events whose documents the output accepted, in order
  givenUp,        \* history: lines that were read or passed in vain, and why
  acked           \* history: events the registrar received, in order

harvesterVars == <<offset, lastPartialLen, shipped>>
spoolerVars   == <<spool, tmpCopy, tick, overdue>>
outputVars    == <<output, published, givenUp>>
publisherVars == <<batch, publisherPc, outputVars>>
registrarVars == <<positions, acked>>
vars == <<harvesterVars, spoolChan, spoolerVars, publisherChan,
          publisherVars, registrarChan, registrarVars>>

Event == [source : Sources, offset : 0 .. MaxLines - 1, isPartial : BOOLEAN]

\* A line is given up when the output refuses it (Publish) or when a harvester
\* begins after it (Filebeat).
Reasons == {"refused", "skipped"}

\* FileEvent.ToMapStr: a map without any field, whatever the event.
MapStr == {<<>>}
ToMapStr(event) == <<>>

\* publisherChan and Registrar.Channel are both made with room for one batch.
BatchChanCap == 1

Init ==
  /\ offset = [s \in Sources |-> 0]
  /\ lastPartialLen = [s \in Sources |-> 0]
  /\ spoolChan = <<>> /\ spool = <<>> /\ tmpCopy = <<>>
  /\ tick = FALSE
  /\ overdue = TRUE  \* NewSpooler runs before Config: the idle timeout is 0
  /\ publisherChan = <<>> /\ batch = <<>> /\ publisherPc = "off"
  /\ registrarChan = <<>>
  /\ positions = [s \in Sources |-> 0]
  /\ output = <<>> /\ shipped = <<>> /\ published = <<>> /\ acked = <<>>
  /\ givenUp = {}

-----------------------------------------------------------------------------
(* Harvester.Harvest.  Only this goroutine reads its offset, so moving the  *)
(* offset and sending the event are one step.                              *)

\* h.SpoolerChan <- event
Send(e) ==
  /\ Len(spoolChan) < ChanCap
  /\ spoolChan' = Append(spoolChan, e)
  /\ shipped' = Append(shipped, e)

\* A complete line: the offset moves past it.
ShipLine(s) ==
  /\ offset[s] < MaxLines
  /\ Send([source |-> s, offset |-> offset[s], isPartial |-> FALSE])
  /\ offset' = [offset EXCEPT ![s] = @ + 1]
  /\ lastPartialLen' = [lastPartialLen EXCEPT ![s] = 0]

\* The beginning of an unfinished line is sent again only when it has grown;
\* the offset stays.
ShipPartial(s) ==
  /\ offset[s] < MaxLines
  /\ lastPartialLen[s] < MaxPartial
  /\ Send([source |-> s, offset |-> offset[s], isPartial |-> TRUE])
  /\ lastPartialLen' = [lastPartialLen EXCEPT ![s] = @ + 1]
  /\ UNCHANGED offset

Ship(s) ==
  /\ ShipLine(s) \/ ShipPartial(s)
  /\ UNCHANGED <<spoolerVars, publisherChan, publisherVars, registrarChan,
                 registrarVars>>

-----------------------------------------------------------------------------
(* Spooler.Run: a loop around one select. *)

\* The spooler is at its select, not blocked in flush.
Selecting == tmpCopy = <<>>

\* Fault: flush does not clear the spool.
BeginFlushKeepsSpool(events) ==
  /\ tmpCopy' = events
  /\ spool' = events

\* Spooler.flush up to its send: copy the spool and empty it.
BeginFlush(events) ==
  /\ tmpCopy' = events
  /\ spool' = <<>>

\* Fault: the spool is flushed one event late.
SpoolFullLate(events) == Len(events) > SpoolSize

\* A spool as long as its capacity is full.
SpoolFull(events) == Len(events) = SpoolSize

\* case event := <-s.Channel, with the flush of a full spool.
SpoolEvent ==
  LET grown == Append(spool, Head(spoolChan)) IN
  /\ Selecting
  /\ spoolChan # <<>>
  /\ spoolChan' = Tail(spoolChan)
  /\ IF SpoolFull(grown)
     THEN BeginFlush(grown)
     ELSE spool' = grown /\ UNCHANGED tmpCopy
  /\ UNCHANGED <<harvesterVars, tick, overdue, publisherChan, publisherVars,
                 registrarChan, registrarVars>>

\* Fault: Before(nextFlushTime) for After, so an overdue spooler never flushes.
HandleTickNotOverdue ==
  /\ Selecting
  /\ tick
  /\ tick' = FALSE
  /\ IF ~overdue /\ spool # <<>>
     THEN BeginFlush(spool) /\ UNCHANGED overdue
     ELSE UNCHANGED <<overdue, spool, tmpCopy>>
  /\ UNCHANGED <<harvesterVars, spoolChan, publisherChan, publisherVars,
                 registrarChan, registrarVars>>

\* case <-ticker.C: an overdue spooler flushes; flushing an empty spool sends
\* nothing and only moves nextFlushTime.
HandleTick ==
  /\ Selecting
  /\ tick
  /\ tick' = FALSE
  /\ IF overdue /\ spool # <<>>
     THEN BeginFlush(spool) /\ UNCHANGED overdue
     ELSE overdue' = FALSE /\ UNCHANGED <<spool, tmpCopy>>
  /\ UNCHANGED <<harvesterVars, spoolChan, publisherChan, publisherVars,
                 registrarChan, registrarVars>>

\* Fault: a send that does not block: a batch without room is dropped.
FlushSendOrDrop ==
  /\ ~Selecting
  /\ publisherChan' = IF Len(publisherChan) < BatchChanCap
                      THEN Append(publisherChan, tmpCopy) ELSE publisherChan
  /\ tmpCopy' = <<>>
  /\ overdue' = FALSE
  /\ UNCHANGED <<harvesterVars, spoolChan, spool, tick, publisherVars,
                 registrarChan, registrarVars>>

\* The end of flush: the blocking send, then the new nextFlushTime.
FlushSend ==
  /\ ~Selecting
  /\ Len(publisherChan) < BatchChanCap
  /\ publisherChan' = Append(publisherChan, tmpCopy)
  /\ tmpCopy' = <<>>
  /\ overdue' = FALSE
  /\ UNCHANGED <<harvesterVars, spoolChan, spool, tick, publisherVars,
                 registrarChan, registrarVars>>

\* time.NewTicker: a tick that finds the last one unread is dropped.
TickerFires ==
  /\ ~tick
  /\ tick' = TRUE
  /\ UNCHANGED <<harvesterVars, spoolChan, spool, tmpCopy, overdue,
                 publisherChan, publisherVars, registrarChan, registrarVars>>

\* The clock passes nextFlushTime.
IdleTimeoutPasses ==
  /\ ~overdue
  /\ overdue' = TRUE
  /\ UNCHANGED <<harvesterVars, spoolChan, spool, tmpCopy, tick,
                 publisherChan, publisherVars, registrarChan, registrarVars>>

-----------------------------------------------------------------------------
(* Filebeat.Run starts Publish and the registrar when Crawler.Start has    *)
(* returned; harvesters and the spooler already run by then.               *)
StartPublish ==
  /\ publisherPc = "off"
  /\ publisherPc' = "receive"
  /\ UNCHANGED <<harvesterVars, spoolChan, spoolerVars, publisherChan,
                 batch, outputVars, registrarChan, registrarVars>>

\* Publish: for events := range fb.publisherChan.
ReceiveBatch ==
  /\ publisherPc = "receive"
  /\ publisherChan # <<>>
  /\ batch' = Head(publisherChan)
  /\ publisherChan' = Tail(publisherChan)
  /\ publisherPc' = "publish"
  /\ UNCHANGED <<harvesterVars, spoolChan, spoolerVars, outputVars,
                 registrarChan, registrarVars>>

\* beat.Events.PublishEvents with the documents of these events.
Accepted(events) ==
  /\ output' = output \o [k \in DOMAIN events |-> ToMapStr(events[k])]
  /\ published' = published \o events
  /\ UNCHANGED givenUp

Refused(events) ==
  /\ givenUp' = givenUp \cup {<<events[k].source, events[k].offset, "refused">> :
                              k \in {i \in DOMAIN events : ~events[i].isPartial}}
  /\ UNCHANGED <<output, published>>

\* Fault: pubEvents misses the first event of the batch.
PublishBatchShort ==
  /\ publisherPc = "publish"
  /\ Accepted(Tail(batch)) \/ (OutputMayFail /\ Refused(Tail(batch)))
  /\ publisherPc' = "ack"
  /\ UNCHANGED <<harvesterVars, spoolChan, spoolerVars, publisherChan,
                 batch, registrarChan, registrarVars>>

\* Publish: PublishEvents, whose result is not looked at.
PublishBatch ==
  /\ publisherPc = "publish"
  /\ Accepted(batch) \/ (OutputMayFail /\ Refused(batch))
  /\ publisherPc' = "ack"
  /\ UNCHANGED <<harvesterVars, spoolChan, spoolerVars, publisherChan,
                 batch, registrarChan, registrarVars>>

\* Publish: fb.registrar.Channel <- events.
AckBatch ==
  /\ publisherPc = "ack"
  /\ Len(registrarChan) < BatchChanCap
  /\ registrarChan' = Append(registrarChan, batch)
  /\ batch' = <<>>
  /\ publisherPc' = "receive"
  /\ UNCHANGED <<harvesterVars, spoolChan, spoolerVars, publisherChan,
                 outputVars, registrarVars>>

\* Where an event ends: an unfinished line will be read again.
EndOf(e) == IF e.isPartial THEN e.offset ELSE e.offset + 1

\* Fault: a source without an event in the batch loses its position.
PositionAfterForgets(events, s) ==
  LET ofSource == {i \in 1 .. Len(events) : events[i].source = s} IN
  IF ofSource = {}
  THEN 0
  ELSE EndOf(events[CHOOSE i \in ofSource : \A j \in ofSource : j <= i])

\* The position after a batch: the end of its last event of s.
PositionAfter(events, s) ==
  LET ofSource == {i \in 1 .. Len(events) : events[i].source = s} IN
  IF ofSource = {}
  THEN positions[s]
  ELSE EndOf(events[CHOOSE i \in ofSource : \A j \in ofSource : j <= i])

\* The registrar goroutine records the last acknowledged position of every
\* file of a batch.
RecordBatch ==
  /\ publisherPc # "off"
  /\ registrarChan # <<>>
  /\ registrarChan' = Tail(registrarChan)
  /\ positions' = [s \in Sources |-> PositionAfter(Head(registrarChan), s)]
  /\ acked' = acked \o Head(registrarChan)
  /\ UNCHANGED <<harvesterVars, spoolChan, spoolerVars, publisherChan,
                 publisherVars>>

-----------------------------------------------------------------------------
Spooler   == SpoolEvent \/ HandleTick \/ FlushSend
Clock     == TickerFires \/ IdleTimeoutPasses
Publisher == StartPublish \/ ReceiveBatch \/ PublishBatch \/ AckBatch

Next == \/ \E s \in Sources : Ship(s)
        \/ Spooler
        \/ Clock
        \/ Publisher
        \/ RecordBatch

SafeSpec == Init /\ [][Next]_vars

-----------------------------------------------------------------------------
\* The output has accepted a document for the complete line n of s.
Published(s, n) ==
  \E i \in DOMAIN published :
    published[i] = [source |-> s, offset |-> n, isPartial |-> FALSE]

GivenUp(s, n) == \E why \in Reasons : <<s, n, why>> \in givenUp

Settled(s, n) == Published(s, n) \/ GivenUp(s, n)

\* The contents of a channel of batches that has room for one.
Held(ch) == IF ch = <<>> THEN <<>> ELSE ch[1]

TypeOK ==
  /\ offset \in [Sources -> 0 .. MaxLines]
  /\ lastPartialLen \in [Sources -> 0 .. MaxPartial]
  /\ spoolChan \in Seq(Event) /\ Len(spoolChan) <= ChanCap
  /\ spool \in Seq(Event) /\ Len(spool) < SpoolSize
  /\ tmpCopy \in Seq(Event) /\ Len(tmpCopy) <= SpoolSize
  /\ tick \in BOOLEAN
  /\ overdue \in BOOLEAN
  /\ publisherChan \in Seq(Seq(Event)) /\ Len(publisherChan) <= BatchChanCap
  /\ batch \in Seq(Event)
  /\ publisherPc \in {"off", "receive", "publish", "ack"}
  /\ registrarChan \in Seq(Seq(Event)) /\ Len(registrarChan) <= BatchChanCap
  /\ positions \in [Sources -> Nat]
  /\ output \in Seq(MapStr)
  /\ shipped \in Seq(Event)
  /\ published \in Seq(Event)
  /\ givenUp \subseteq Sources \X (0 .. MaxLines - 1) \X Reasons
  /\ acked \in Seq(Event)

\* The pipeline loses, duplicates and reorders nothing: at any moment what the
\* harvesters sent is what the registrar got followed by what each stage holds
\* (spooler.go:96-144, filebeat.go:139-152).
NothingLost ==
  shipped = acked \o Held(registrarChan) \o batch \o Held(publisherChan)
              \o tmpCopy \o spool \o spoolChan

\* A position is recorded only after its lines: each line before it has been given
\* to the output, which has accepted or refused its document, also when batches mix
\* lines of several sources with unfinished ones, whose event has the offset of the
\* line (filebeat.go:141-151, log.go:108-132).  What the documents hold is no part of it.
RecordedIsSettled ==
  \A s \in Sources : \A n \in 0 .. positions[s] - 1 : Settled(s, n)

\* A recorded position never moves back, whatever the batches that reach the
\* registrar hold (filebeat.go:103-105, 151).
PositionsAdvance ==
  [][\A s \in Sources : positions'[s] >= positions[s]]_vars

\* The channels of the code hold what EventQueue promises: the order of
\* acceptance, and a bounded backlog: one full Spooler.Channel, and a batch in
\* flush, in publisherChan, in Publish and in Registrar.Channel.
Backlog == ChanCap + 4 * SpoolSize
Queue == INSTANCE EventQueue
           WITH accepted <- shipped, delivered <- acked, Capacity <- Backlog
ImplementsQueue == Queue!QSafeSpec

-----------------------------------------------------------------------------
(* What a comment says and the code does not do. *)

\* "Tell the registrar that we've successfully sent these events" (Publish): no
\* position is past a line whose document the output has not accepted.
RestartLosesNothing ==
  \A s \in Sources : \A n \in 0 .. positions[s] - 1 : Published(s, n)
=============================================================================
