--------------------------- MODULE FilebeatProofs ---------------------------
(***************************************************************************)
(* Proofs about Filebeat for every set of files, every capacity and every  *)
(* number of lines, unfinished lines and crashes.                          *)
(***************************************************************************)
EXTENDS Filebeat, EventPipelineProofs

\* The complete line n of s.
Line(s, n) == [source |-> s, offset |-> n, isPartial |-> FALSE]

\* The events sent since the start that the registrar has not received, as
\* indices of the history.
Pending == Len(acked) + 1 .. Len(shipped)

\* The pending events of a source are in the order of its file, between what is
\* recorded and what is read, ...
InOrder == \A i, j \in Pending :
  i < j /\ shipped[i].source = shipped[j].source
    => EndOf(shipped[i]) <= shipped[j].offset
NotAhead == \A i \in Pending : EndOf(shipped[i]) <= offset[shipped[i].source]
NotBehind == \A i \in Pending :
  positions[shipped[i].source] <= shipped[i].offset
Read == /\ lines \in [Sources -> 0 .. MaxLines]
        /\ status \in [Sources -> Statuses]
        /\ \A s \in Sources : positions[s] <= offset[s] /\ offset[s] <= lines[s]

\* ... no line between is missing but those given up, ...
NoGapBefore == \A i \in Pending :
  \A n \in positions[shipped[i].source] .. shipped[i].offset - 1 :
    \/ GivenUp(shipped[i].source, n)
    \/ \E j \in Pending : j < i /\ shipped[j] = Line(shipped[i].source, n)
NoGap == \A s \in Sources : \A n \in positions[s] .. offset[s] - 1 :
  GivenUp(s, n) \/ \E j \in Pending : shipped[j] = Line(s, n)

\* ... and a source without a harvester has none pending.
HarvestedFirst == \A i \in Pending : status[shipped[i].source] = "harvested"

Reading == /\ InOrder /\ NotAhead /\ NotBehind /\ Read
           /\ NoGapBefore /\ NoGap /\ HarvestedFirst

\* What Publish has been through was accepted or refused by the output.
AllSettled(events) ==
  \A k \in 1 .. Len(events) : ~events[k].isPartial =>
    Settled(events[k].source, events[k].offset)
AckedSettled == /\ AllSettled(Held(registrarChan))
                /\ publisherPc = "ack" => AllSettled(batch)

FilebeatInv == /\ PipelineInv
               /\ Reading
               /\ AckedSettled
               /\ RecordedIsSettled

-----------------------------------------------------------------------------
(* The batches in the last two stages are the first pending events. *)

Starts(p, s) == Len(p) <= Len(s) /\ \A i \in 1 .. Len(p) : s[i] = p[i]

LEMMA ConcatStarts ==
  ASSUME NEW S, NEW p \in Seq(S), NEW t \in Seq(S)
  PROVE  /\ Starts(p, p \o t)
         /\ p \o t \in Seq(S)
         /\ Len(p \o t) = Len(p) + Len(t)
         /\ \A k \in 1 .. Len(t) : (p \o t)[Len(p) + k] = t[k]
<1>1. /\ Len(p) \in Nat /\ Len(t) \in Nat
      /\ p \o t \in Seq(S)
      /\ Len(p \o t) = Len(p) + Len(t)
      /\ \A i \in 1 .. Len(p) + Len(t) :
           (p \o t)[i] = IF i <= Len(p) THEN p[i] ELSE t[i - Len(p)]
  BY ConcatProperties, LenProperties
<1>2. \A i \in 1 .. Len(p) : i \in 1 .. Len(p) + Len(t) /\ i <= Len(p)
  BY <1>1
<1>3. \A k \in 1 .. Len(t) :
        /\ Len(p) + k \in 1 .. Len(p) + Len(t) /\ ~(Len(p) + k <= Len(p))
        /\ (Len(p) + k) - Len(p) = k
  BY <1>1
<1>4. QED BY <1>1, <1>2, <1>3 DEF Starts

LEMMA StartsTransitive ==
  ASSUME NEW S, NEW p \in Seq(S), NEW q \in Seq(S), NEW r \in Seq(S),
         Starts(p, q), Starts(q, r)
  PROVE  Starts(p, r)
BY LenProperties DEF Starts

LEMMA StagesArePending ==
  ASSUME PipelineInv
  PROVE  /\ \A k \in 1 .. Len(Held(registrarChan)) :
              /\ Len(acked) + k \in Pending
              /\ shipped[Len(acked) + k] = Held(registrarChan)[k]
         /\ \A k \in 1 .. Len(batch) :
              \E i \in Pending : shipped[i] = batch[k]
         /\ Len(acked) \in Nat /\ Len(shipped) \in Nat
         /\ Len(Held(registrarChan)) \in Nat
         /\ Len(acked) + Len(Held(registrarChan)) <= Len(shipped)
         /\ \A i \in Pending : shipped[i] \in Event
<1>1. TypeOK /\ shipped = ToSpool \o spoolChan
  BY NothingLostByStages DEF PipelineInv
<1>2. /\ acked \in Seq(Event) /\ batch \in Seq(Event) /\ tmpCopy \in Seq(Event)
      /\ spool \in Seq(Event) /\ spoolChan \in Seq(Event)
      /\ Held(registrarChan) \in Seq(Event) /\ Held(publisherChan) \in Seq(Event)
      /\ shipped \in Seq(Event)
      /\ ToRegistrar \in Seq(Event) /\ ToPublisher \in Seq(Event)
      /\ ToPublisherChan \in Seq(Event) /\ ToFlush \in Seq(Event)
      /\ ToSpool \in Seq(Event)
  BY <1>1, StagesType DEF TypeOK
<1>3. /\ Starts(ToSpool, shipped) /\ Starts(ToFlush, ToSpool)
      /\ Starts(ToPublisherChan, ToFlush) /\ Starts(ToPublisher, ToPublisherChan)
      /\ Starts(ToRegistrar, ToPublisher)
  BY <1>1, <1>2, ConcatStarts
  DEF ToSpool, ToFlush, ToPublisherChan, ToPublisher
<1>4. Starts(ToFlush, shipped)
  BY <1>2, <1>3, StartsTransitive
<1>5. Starts(ToPublisherChan, shipped)
  BY <1>2, <1>3, <1>4, StartsTransitive
<1>6. Starts(ToPublisher, shipped)
  BY <1>2, <1>3, <1>5, StartsTransitive
<1>7. Starts(ToRegistrar, shipped)
  BY <1>2, <1>3, <1>6, StartsTransitive
<1>8. /\ Len(ToRegistrar) = Len(acked) + Len(Held(registrarChan))
      /\ \A k \in 1 .. Len(Held(registrarChan)) :
           ToRegistrar[Len(acked) + k] = Held(registrarChan)[k]
  BY <1>2, ConcatStarts DEF ToRegistrar
<1>9. /\ Len(ToPublisher) = Len(ToRegistrar) + Len(batch)
      /\ \A k \in 1 .. Len(batch) : ToPublisher[Len(ToRegistrar) + k] = batch[k]
  BY <1>2, ConcatStarts DEF ToPublisher
<1>10. /\ Len(acked) \in Nat /\ Len(shipped) \in Nat /\ Len(batch) \in Nat
       /\ Len(Held(registrarChan)) \in Nat
  BY <1>2, LenProperties
<1>11. ASSUME NEW k \in 1 .. Len(Held(registrarChan))
       PROVE  /\ Len(acked) + k \in Pending
              /\ shipped[Len(acked) + k] = Held(registrarChan)[k]
  <2>1. Len(acked) + k \in 1 .. Len(ToRegistrar)
    BY <1>8, <1>10
  <2>2. QED BY <1>7, <1>8, <1>10, <2>1 DEF Starts, Pending
<1>12. ASSUME NEW k \in 1 .. Len(batch)
       PROVE  \E i \in Pending : shipped[i] = batch[k]
  <2>1. Len(ToRegistrar) + k \in 1 .. Len(ToPublisher)
    BY <1>8, <1>9, <1>10
  <2>2. shipped[Len(ToRegistrar) + k] = batch[k]
    BY <1>6, <1>9, <2>1 DEF Starts
  <2>3. Len(ToRegistrar) + k \in Pending
    BY <1>6, <1>8, <1>9, <1>10, <2>1 DEF Starts, Pending
  <2>4. QED BY <2>2, <2>3
<1>13. Len(acked) + Len(Held(registrarChan)) <= Len(shipped)
  BY <1>7, <1>8 DEF Starts
<1>14. \A i \in Pending : shipped[i] \in Event
  BY <1>2, <1>10, ElementOfSeq DEF Pending
<1>15. QED BY <1>10, <1>11, <1>12, <1>13, <1>14
-----------------------------------------------------------------------------
(* What is pending stays in order and without gaps. *)
LEMMA ReadingFrame ==
  ASSUME Reading, UNCHANGED <<shipped, acked, offset, positions, lines, status>>,
         givenUp \subseteq givenUp'
  PROVE  Reading'
<1>1. /\ Pending' = Pending
      /\ \A s, n : GivenUp(s, n) => GivenUp(s, n)'
  BY DEF Pending, GivenUp
<1>2. InOrder' /\ NotAhead' /\ NotBehind'
  BY <1>1 DEF Reading, InOrder, NotAhead, NotBehind, EndOf
<1>3. Read' /\ NoGapBefore' /\ NoGap' /\ HarvestedFirst'
  BY <1>1 DEF Reading, Read, NoGapBefore, NoGap, HarvestedFirst, Line
<1>4. QED BY <1>2, <1>3 DEF Reading

LEMMA PendingTypes ==
  ASSUME PipelineInv
  PROVE  /\ \A i \in Pending : /\ shipped[i].source \in Sources
                               /\ shipped[i].offset \in 0 .. MaxLines - 1
                               /\ EndOf(shipped[i]) \in Nat
         /\ \A s \in Sources : positions[s] \in Nat /\ offset[s] \in 0 .. MaxLines
         /\ Pending \subseteq Nat
         /\ MaxLines \in Nat
<1>1. \A i \in Pending : shipped[i] \in Event
  BY StagesArePending
<1>2. \A s \in Sources : positions[s] \in Nat /\ offset[s] \in 0 .. MaxLines
  BY DEF PipelineInv, TypeOK
<1>3. Pending \subseteq Nat
  BY StagesArePending DEF Pending
<1>4. \A e \in Event : e.source \in Sources /\ e.offset \in 0 .. MaxLines - 1
  BY DEF Event
<1>5. MaxLines \in Nat
  BY PipelineAssumption
<1>6. \A e \in Event : EndOf(e) \in Nat
  BY <1>4, <1>5 DEF EndOf
<1>7. QED BY <1>1, <1>2, <1>3, <1>4, <1>5, <1>6

\* What a harvester sends, and where it is afterwards.
LEMMA HarvestSends ==
  ASSUME PipelineInv, Reading, NEW s \in Sources, Harvest(s)
  PROVE  \E e \in Event :
           /\ shipped' = Append(shipped, e)
           /\ e.source = s /\ e.offset = offset[s]
           /\ offset'[s] = EndOf(e)
           /\ \A t \in Sources : t # s => offset'[t] = offset[t]
           /\ EndOf(e) <= lines[s]
<1>1. /\ offset \in [Sources -> 0 .. MaxLines] /\ MaxLines \in Nat
      /\ offset[s] <= lines[s] /\ lines[s] \in Nat
  BY PipelineAssumption DEF PipelineInv, TypeOK, Reading, Read
<1>2. CASE offset[s] < lines[s]
  <2> DEFINE e == [source |-> s, offset |-> offset[s], isPartial |-> FALSE]
  <2>1. ShipLine(s)
    BY <1>2 DEF Harvest
  <2>2. e \in Event
    BY <1>1, <2>1 DEF ShipLine, Event
  <2>3. EndOf(e) = offset[s] + 1
    BY DEF EndOf
  <2>4. QED BY <1>1, <1>2, <2>1, <2>2, <2>3 DEF ShipLine, Send
<1>3. CASE ~(offset[s] < lines[s])
  <2> DEFINE e == [source |-> s, offset |-> offset[s], isPartial |-> TRUE]
  <2>1. ShipPartial(s)
    BY <1>3 DEF Harvest
  <2>2. e \in Event
    BY <1>1, <2>1 DEF ShipPartial, Event
  <2>3. EndOf(e) = offset[s]
    BY DEF EndOf
  <2>4. QED BY <1>1, <1>3, <2>1, <2>2, <2>3 DEF ShipPartial, Send
<1>4. QED BY <1>2, <1>3

LEMMA ReadingHarvest ==
  ASSUME PipelineInv, Reading, NEW s \in Sources, Harvest(s)
  PROVE  Reading'
<1> DEFINE last == Len(shipped) + 1
<1>1. PICK e \in Event :
        /\ shipped' = Append(shipped, e)
        /\ e.source = s /\ e.offset = offset[s]
        /\ offset'[s] = EndOf(e)
        /\ \A t \in Sources : t # s => offset'[t] = offset[t]
        /\ EndOf(e) <= lines[s]
  BY HarvestSends
<1>2. UNCHANGED <<acked, positions, lines, status, givenUp>>
  BY DEF Harvest, registrarVars, publisherVars, outputVars
<1>3. /\ shipped \in Seq(Event) /\ Len(acked) \in Nat /\ Len(shipped) \in Nat
      /\ Len(acked) <= Len(shipped)
  BY StagesArePending DEF PipelineInv, TypeOK
<1>4. /\ Len(shipped') = last
      /\ shipped'[last] = e
      /\ \A i \in 1 .. Len(shipped) : shipped'[i] = shipped[i]
  BY <1>1, <1>3, AppendProperties
<1>5. /\ \A i \in Pending : shipped'[i] = shipped[i] /\ i < last
      /\ Pending' = Pending \cup {last}
      /\ last \in Nat
  BY <1>2, <1>3, <1>4 DEF Pending
<1>6. EndOf(e) \in {offset[s], offset[s] + 1}
      /\ (EndOf(e) # offset[s] => e = Line(s, offset[s]))
  BY <1>1 DEF EndOf, Event, Line
<1>7. \A t \in Sources : /\ positions'[t] = positions[t]
                         /\ offset[t] <= offset'[t]
  BY <1>1, <1>2, <1>6, PendingTypes
<1> HIDE DEF last
<1>8. InOrder'
  <2> SUFFICES ASSUME NEW i \in Pending', NEW j \in Pending',
                      i < j, shipped'[i].source = shipped'[j].source
               PROVE  EndOf(shipped'[i]) <= shipped'[j].offset
    BY DEF InOrder, EndOf
  <2>1. i \in Pending
    BY <1>5, PendingTypes
  <2>2. CASE j \in Pending
    BY <1>5, <2>1, <2>2 DEF Reading, InOrder
  <2>3. CASE j = last
    BY <1>1, <1>4, <1>5, <2>1, <2>3 DEF Reading, NotAhead
  <2>4. QED BY <1>5, <2>2, <2>3
<1>9. NotAhead'
  <2> SUFFICES ASSUME NEW i \in Pending'
               PROVE  EndOf(shipped'[i]) <= offset'[shipped'[i].source]
    BY DEF NotAhead, EndOf
  <2>1. CASE i \in Pending
    <3>1. /\ EndOf(shipped[i]) \in Nat /\ shipped[i].source \in Sources
          /\ EndOf(shipped[i]) <= offset[shipped[i].source]
          /\ offset[shipped[i].source] \in Nat
      BY <2>1, PendingTypes DEF Reading, NotAhead
    <3>2. /\ offset'[shipped[i].source] \in {offset[shipped[i].source],
                                             offset[shipped[i].source] + 1}
      BY <1>1, <1>6, <3>1
    <3>3. QED BY <1>5, <2>1, <3>1, <3>2
  <2>2. CASE i = last
    BY <1>1, <1>4, <1>6, <2>2, PendingTypes
  <2>3. QED BY <1>5, <2>1, <2>2
<1>10. NotBehind'
  <2> SUFFICES ASSUME NEW i \in Pending'
               PROVE  positions'[shipped'[i].source] <= shipped'[i].offset
    BY DEF NotBehind
  <2>1. CASE i \in Pending
    BY <1>2, <1>5, <2>1 DEF Reading, NotBehind
  <2>2. CASE i = last
    BY <1>1, <1>2, <1>4, <2>2 DEF Reading, Read
  <2>3. QED BY <1>5, <2>1, <2>2
<1>11. Read'
  <2> SUFFICES ASSUME NEW t \in Sources
               PROVE  positions'[t] <= offset'[t] /\ offset'[t] <= lines'[t]
    BY <1>2 DEF Reading, Read
  <2>1. CASE t = s
    BY <1>1, <1>2, <1>6, <2>1, PendingTypes DEF Reading, Read
  <2>2. CASE t # s
    BY <1>1, <1>2, <2>2 DEF Reading, Read
  <2>3. QED BY <2>1, <2>2
<1>12. NoGapBefore'
  <2> SUFFICES ASSUME NEW i \in Pending',
                      NEW n \in positions[shipped'[i].source]
                                  .. shipped'[i].offset - 1
               PROVE  \/ GivenUp(shipped'[i].source, n)
                      \/ \E j \in Pending : /\ j < i
                                            /\ shipped[j] = Line(shipped'[i].source, n)
    BY <1>2, <1>5 DEF NoGapBefore, Line, GivenUp
  <2>1. CASE i \in Pending
    BY <1>5, <2>1 DEF Reading, NoGapBefore
  <2>2. CASE i = last
    <3>1. n \in positions[s] .. offset[s] - 1
      BY <1>1, <1>4, <2>2
    <3>2. GivenUp(s, n) \/ \E j \in Pending : shipped[j] = Line(s, n)
      BY <3>1 DEF Reading, NoGap
    <3>3. QED BY <1>1, <1>4, <1>5, <2>2, <3>2
  <2>3. QED BY <1>5, <2>1, <2>2
<1>13. NoGap'
  <2> SUFFICES ASSUME NEW t \in Sources,
                      NEW n \in positions[t] .. offset'[t] - 1
               PROVE  GivenUp(t, n) \/ \E j \in Pending' : shipped'[j] = Line(t, n)
    BY <1>2 DEF NoGap, Line, GivenUp
  <2>1. CASE n \in positions[t] .. offset[t] - 1
    <3>1. GivenUp(t, n) \/ \E j \in Pending : shipped[j] = Line(t, n)
      BY <2>1 DEF Reading, NoGap
    <3>2. QED BY <1>5, <3>1
  <2>2. CASE n \notin positions[t] .. offset[t] - 1
    <3>1. offset'[t] # offset[t]
      BY <2>2
    <3>2. t = s /\ EndOf(e) = offset[s] + 1 /\ e = Line(s, offset[s])
      BY <1>1, <1>6, <3>1
    <3>3. n = offset[s]
      BY <1>1, <2>2, <3>2, PendingTypes
    <3>4. QED BY <1>4, <1>5, <3>2, <3>3
  <2>3. QED BY <2>1, <2>2
<1>14. HarvestedFirst'
  BY <1>1, <1>2, <1>4, <1>5 DEF Reading, HarvestedFirst, Harvest
<1>15. QED BY <1>8, <1>9, <1>10, <1>11, <1>12, <1>13, <1>14 DEF Reading

-----------------------------------------------------------------------------
(* The registrar receives a batch: positions pass only what was published. *)

\* The position after a batch is the end of its last event of s.
LEMMA PositionAfterCases ==
  ASSUME NEW events \in Seq(Event), NEW s \in Sources
  PROVE  \/ /\ \A k \in 1 .. Len(events) : events[k].source # s
            /\ PositionAfter(events, s) = positions[s]
         \/ \E l \in 1 .. Len(events) :
              /\ events[l].source = s
              /\ \A k \in 1 .. Len(events) : events[k].source = s => k <= l
              /\ PositionAfter(events, s) = EndOf(events[l])
<1> DEFINE ofSource == {k \in 1 .. Len(events) : events[k].source = s}
           l == CHOOSE k \in ofSource : \A j \in ofSource : j <= k
<1>1. CASE ofSource = {}
  BY <1>1 DEF PositionAfter
<1>2. CASE ofSource # {}
  <2>1. l \in ofSource /\ \A j \in ofSource : j <= l
    <3>1. Len(events) \in Nat
      BY LenProperties
    <3>2. \E k \in ofSource : \A j \in ofSource : j <= k
      BY <1>2, <3>1, LastExists
    <3>3. QED BY <3>2
  <2>2. PositionAfter(events, s) = EndOf(events[l])
    BY <1>2 DEF PositionAfter
  <2> HIDE DEF l
  <2>3. QED BY <2>1, <2>2
<1>3. QED BY <1>1, <1>2

\* What a step of the registrar does to the pending events and the positions.
LEMMA RecordMoves ==
  ASSUME PipelineInv, Reading, AckedSettled, RecordBatch
  PROVE  /\ Pending' \subseteq Pending
         /\ \A s \in Sources :
              /\ positions'[s] \in Nat
              /\ positions[s] <= positions'[s]
              /\ positions'[s] <= offset[s]
              /\ \A n \in positions[s] .. positions'[s] - 1 : Settled(s, n)
              /\ \A i \in Pending' :
                   shipped[i].source = s => positions'[s] <= shipped[i].offset
              /\ \A j \in Pending \ Pending' : \A n \in Nat :
                   shipped[j] = Line(s, n) => n < positions'[s]
<1> DEFINE b == Held(registrarChan)
           A == Len(acked)
<1>1. /\ TypeOK
      /\ b = Head(registrarChan) /\ b \in Seq(Event)
      /\ acked' = acked \o b
      /\ UNCHANGED <<shipped, offset>>
      /\ positions' = [s \in Sources |-> PositionAfter(b, s)]
  BY HeldProperties DEF PipelineInv, TypeOK, RecordBatch, harvesterVars
<1>2. /\ A \in Nat /\ Len(shipped) \in Nat /\ Len(b) \in Nat
      /\ A + Len(b) <= Len(shipped)
      /\ \A k \in 1 .. Len(b) : /\ A + k \in Pending
                                /\ shipped[A + k] = b[k]
  BY StagesArePending
<1>3. Len(acked') = A + Len(b)
  BY <1>1, ConcatProperties DEF TypeOK
<1>4. Pending' = A + Len(b) + 1 .. Len(shipped)
  BY <1>1, <1>3 DEF Pending
<1>5. Pending' \subseteq Pending
  BY <1>2, <1>4 DEF Pending
<1>6. \A j \in Pending \ Pending' : \E k \in 1 .. Len(b) : j = A + k
  <2> SUFFICES ASSUME NEW j \in Pending \ Pending'
               PROVE  \E k \in 1 .. Len(b) : j = A + k
    OBVIOUS
  <2>1. j - A \in 1 .. Len(b) /\ j = A + (j - A)
    BY <1>2, <1>4 DEF Pending
  <2>2. QED BY <2>1
<1>7. ASSUME NEW s \in Sources
      PROVE  /\ positions'[s] \in Nat
             /\ positions[s] <= positions'[s]
             /\ positions'[s] <= offset[s]
             /\ \A n \in positions[s] .. positions'[s] - 1 : Settled(s, n)
             /\ \A i \in Pending' :
                  shipped[i].source = s => positions'[s] <= shipped[i].offset
             /\ \A j \in Pending \ Pending' : \A n \in Nat :
                  shipped[j] = Line(s, n) => n < positions'[s]
  <2>1. positions'[s] = PositionAfter(b, s)
    BY <1>1
  <2>2. positions[s] \in Nat /\ offset[s] \in Nat /\ positions[s] <= offset[s]
    BY PendingTypes DEF Reading, Read
  <2> HIDE DEF b, A
  <2>3. CASE /\ \A k \in 1 .. Len(b) : b[k].source # s
             /\ positions'[s] = positions[s]
    <3>1. \A j \in Pending \ Pending' : \A n \in Nat : shipped[j] # Line(s, n)
      BY <1>2, <1>6, <2>3 DEF Line
    <3>2. \A i \in Pending' :
            shipped[i].source = s => positions[s] <= shipped[i].offset
      BY <1>5 DEF Reading, NotBehind
    <3>3. QED BY <2>2, <2>3, <3>1, <3>2
  <2>4. ASSUME NEW l \in 1 .. Len(b), b[l].source = s,
               \A k \in 1 .. Len(b) : b[k].source = s => k <= l,
               positions'[s] = EndOf(b[l])
        PROVE  /\ positions'[s] \in Nat
               /\ positions[s] <= positions'[s]
               /\ positions'[s] <= offset[s]
               /\ \A n \in positions[s] .. positions'[s] - 1 : Settled(s, n)
               /\ \A i \in Pending' :
                    shipped[i].source = s => positions'[s] <= shipped[i].offset
               /\ \A j \in Pending \ Pending' : \A n \in Nat :
                    shipped[j] = Line(s, n) => n < positions'[s]
    <3>1. /\ A + l \in Pending /\ shipped[A + l] = b[l]
          /\ b[l].offset \in Nat /\ EndOf(b[l]) \in Nat
          /\ positions[s] <= b[l].offset
          /\ EndOf(b[l]) <= offset[s]
      <4>1. A + l \in Pending /\ shipped[A + l] = b[l]
        BY <1>2
      <4>2. /\ shipped[A + l].offset \in 0 .. MaxLines - 1
            /\ EndOf(shipped[A + l]) \in Nat
        BY <4>1, PendingTypes
      <4>3. positions[shipped[A + l].source] <= shipped[A + l].offset
        BY <4>1 DEF Reading, NotBehind
      <4>4. EndOf(shipped[A + l]) <= offset[shipped[A + l].source]
        BY <4>1 DEF Reading, NotAhead
      <4>5. QED BY <2>4, <4>1, <4>2, <4>3, <4>4
    <3>2. EndOf(b[l]) \in {b[l].offset, b[l].offset + 1}
          /\ (EndOf(b[l]) # b[l].offset => ~b[l].isPartial)
      BY DEF EndOf
    <3>3. ASSUME NEW n \in positions[s] .. positions'[s] - 1
          PROVE  Settled(s, n)
      <4>1. AllSettled(b)
        BY DEF AckedSettled, b
      <4>2. CASE n = b[l].offset
        <5>1. ~b[l].isPartial
          BY <2>4, <3>1, <3>2, <4>2
        <5>2. QED BY <2>4, <4>1, <4>2, <5>1 DEF AllSettled
      <4>3. CASE n # b[l].offset
        <5>1. n \in positions[s] .. b[l].offset - 1
          BY <2>2, <2>4, <3>1, <3>2, <4>3
        <5>2. CASE GivenUp(s, n)
          BY <5>2 DEF Settled
        <5>3. ASSUME NEW j \in Pending, j < A + l, shipped[j] = Line(s, n)
              PROVE  Settled(s, n)
          <6>1. j - A \in 1 .. Len(b) /\ j = A + (j - A)
            BY <1>2, <5>3 DEF Pending, A
          <6>2. b[j - A] = Line(s, n)
            BY <1>2, <5>3, <6>1
          <6>3. QED BY <4>1, <6>1, <6>2 DEF AllSettled, Line
        <5>4. QED BY <2>4, <3>1, <5>1, <5>2, <5>3 DEF Reading, NoGapBefore
      <4>4. QED BY <4>2, <4>3
    <3>4. ASSUME NEW i \in Pending', shipped[i].source = s
          PROVE  positions'[s] <= shipped[i].offset
      <4>1. i \in Pending /\ A + l < i
        BY <1>2, <1>4, <1>5
      <4>2. QED BY <2>4, <3>1, <3>4, <4>1 DEF Reading, InOrder
    <3>5. ASSUME NEW j \in Pending \ Pending', NEW n \in Nat,
                 shipped[j] = Line(s, n)
          PROVE  n < positions'[s]
      <4>1. PICK k \in 1 .. Len(b) : j = A + k
        BY <1>6
      <4>2. b[k] = Line(s, n) /\ k <= l /\ EndOf(b[k]) = n + 1
        BY <1>2, <2>4, <3>5, <4>1 DEF Line, EndOf
      <4>3. CASE k = l
        BY <2>4, <4>2, <4>3
      <4>4. CASE k # l
        <5>1. A + k < A + l /\ A + k \in Pending
          BY <1>2, <4>2, <4>4
        <5>2. EndOf(shipped[A + k]) <= shipped[A + l].offset
          <6>1. shipped[A + k].source = shipped[A + l].source
            BY <2>4, <3>1, <3>5, <4>1 DEF Line
          <6>2. InOrder
            BY DEF Reading
          <6>3. QED BY <3>1, <5>1, <6>1, <6>2 DEF InOrder
        <5>3. n + 1 <= b[l].offset
          BY <1>2, <3>1, <4>2, <5>2
        <5>4. QED BY <2>4, <3>1, <3>2, <5>3
      <4>5. QED BY <4>3, <4>4
    <3>6. /\ positions'[s] \in Nat /\ positions[s] <= positions'[s]
          /\ positions'[s] <= offset[s]
      BY <2>2, <2>4, <3>1, <3>2
    <3>7. QED BY <3>3, <3>4, <3>5, <3>6
  <2>5. QED
    BY <1>1, <2>1, <2>3, <2>4, PositionAfterCases
<1>8. QED BY <1>5, <1>7

LEMMA ReadingRecord ==
  ASSUME PipelineInv, Reading, AckedSettled, RecordBatch, UNCHANGED <<lines, status>>
  PROVE  Reading'
<1>1. UNCHANGED <<shipped, offset, givenUp>>
  BY DEF RecordBatch, harvesterVars, publisherVars, outputVars
<1>2. Pending' \subseteq Pending
  BY RecordMoves
<1>3. InOrder' /\ NotAhead'
  BY <1>1, <1>2 DEF Reading, InOrder, NotAhead, EndOf
<1>4. NotBehind' /\ Read'
  <2>1. Read'
    BY <1>1, RecordMoves DEF Reading, Read
  <2>2. \A i \in Pending' : shipped[i].source \in Sources
    BY <1>2, PendingTypes
  <2>3. NotBehind'
    BY <1>1, <2>2, RecordMoves DEF NotBehind
  <2>4. QED BY <2>1, <2>3
<1>5. \A s \in Sources : \A n : \A j \in Pending :
        n \in Nat /\ n >= positions'[s] /\ shipped[j] = Line(s, n) => j \in Pending'
  <2> SUFFICES ASSUME NEW s \in Sources, NEW n \in Nat, NEW j \in Pending,
                      n >= positions'[s], shipped[j] = Line(s, n), j \notin Pending'
               PROVE  FALSE
    OBVIOUS
  <2>1. n < positions'[s] /\ positions'[s] \in Nat
    BY RecordMoves
  <2>2. QED BY <2>1
<1>6. NoGapBefore'
  <2> SUFFICES ASSUME NEW i \in Pending',
                      NEW n \in positions'[shipped[i].source]
                                  .. shipped[i].offset - 1
               PROVE  \/ GivenUp(shipped[i].source, n)
                      \/ \E j \in Pending' :
                           j < i /\ shipped[j] = Line(shipped[i].source, n)
    BY <1>1 DEF NoGapBefore, Line, GivenUp
  <2>1. /\ i \in Pending /\ shipped[i].source \in Sources
        /\ shipped[i].offset \in Nat
    BY <1>2, PendingTypes
  <2>2. n \in positions[shipped[i].source] .. shipped[i].offset - 1
        /\ n \in Nat /\ n >= positions'[shipped[i].source]
    BY <2>1, RecordMoves, PendingTypes
  <2>3. \/ GivenUp(shipped[i].source, n)
        \/ \E j \in Pending : j < i /\ shipped[j] = Line(shipped[i].source, n)
    BY <2>1, <2>2 DEF Reading, NoGapBefore
  <2>4. QED BY <1>5, <2>1, <2>2, <2>3
<1>7. NoGap'
  <2> SUFFICES ASSUME NEW s \in Sources,
                      NEW n \in positions'[s] .. offset[s] - 1
               PROVE  GivenUp(s, n) \/ \E j \in Pending' : shipped[j] = Line(s, n)
    BY <1>1 DEF NoGap, Line, GivenUp
  <2>1. n \in positions[s] .. offset[s] - 1 /\ n \in Nat /\ n >= positions'[s]
    BY RecordMoves, PendingTypes
  <2>2. GivenUp(s, n) \/ \E j \in Pending : shipped[j] = Line(s, n)
    BY <2>1 DEF Reading, NoGap
  <2>3. QED BY <1>5, <2>1, <2>2
<1>8. HarvestedFirst'
  BY <1>1, <1>2 DEF Reading, HarvestedFirst
<1>9. QED BY <1>3, <1>4, <1>6, <1>7, <1>8 DEF Reading

-----------------------------------------------------------------------------
(* The inductive invariant. *)
LEMMA NothingPending ==
  /\ Held(<<>>) = <<>>
  /\ Len(<<>>) + 1 .. Len(<<>>) = {}
  /\ <<>> \o <<>> = <<>>
<1>1. <<>> \o <<>> = <<>>
  BY NoEvents, ConcatEmptySeq
<1>2. QED BY <1>1, NoEvents DEF Held

LEMMA FilebeatInit == FInit => FilebeatInv
<1> SUFFICES ASSUME FInit
             PROVE  FilebeatInv
  OBVIOUS
<1>1. PipelineInv
  BY InvInit DEF FInit
<1>2. Pending = {}
  BY NothingPending DEF FInit, Init, Pending
<1>3. Reading
  BY <1>2, PipelineAssumption
  DEF FInit, Init, Statuses, Reading, InOrder, NotAhead, NotBehind, Read, NoGapBefore,
      NoGap, HarvestedFirst
<1>4. AckedSettled
  BY NothingPending, NoEvents DEF FInit, Init, AckedSettled, AllSettled
<1>5. RecordedIsSettled
  BY DEF FInit, Init, RecordedIsSettled
<1>6. QED BY <1>1, <1>3, <1>4, <1>5 DEF FilebeatInv

\* A start makes everything as the first one did, but for the positions.
LEMMA CrashInv ==
  ASSUME FilebeatInv, CrashAndRestart
  PROVE  FilebeatInv'
<1>1. /\ offset' = positions /\ positions' = positions
      /\ lines' = lines /\ status' = [s \in Sources |-> "unseen"]
      /\ output' = output /\ published' = published /\ givenUp' = givenUp
      /\ lastPartialLen' = [s \in Sources |-> 0]
      /\ spoolChan' = <<>> /\ spool' = <<>> /\ tmpCopy' = <<>>
      /\ tick' = FALSE /\ overdue' = TRUE
      /\ publisherChan' = <<>> /\ batch' = <<>> /\ publisherPc' = "off"
      /\ registrarChan' = <<>> /\ shipped' = <<>> /\ acked' = <<>>
  BY DEF CrashAndRestart, outputVars
<1>2. TypeOK /\ Reading /\ RecordedIsSettled
  BY DEF FilebeatInv, PipelineInv
<1>3. TypeOK'
  <2>1. /\ 0 \in 0 .. MaxPartial
        /\ 0 < SpoolSize /\ 0 <= SpoolSize /\ 0 <= ChanCap /\ 0 <= BatchChanCap
    BY PipelineAssumption DEF BatchChanCap
  <2>2. positions \in [Sources -> 0 .. MaxLines]
    <3>1. \A s \in Sources : positions[s] \in 0 .. MaxLines
      <4> SUFFICES ASSUME NEW s \in Sources
                   PROVE  positions[s] \in 0 .. MaxLines
        OBVIOUS
      <4>1. positions[s] \in Nat /\ offset[s] \in 0 .. MaxLines
        BY <1>2 DEF TypeOK
      <4>2. positions[s] <= offset[s]
        BY <1>2 DEF Reading, Read
      <4>3. QED BY <4>1, <4>2, PipelineAssumption
    <3>2. QED BY <1>2, <3>1 DEF TypeOK
  <2>3. /\ offset' \in [Sources -> 0 .. MaxLines]
        /\ lastPartialLen' \in [Sources -> 0 .. MaxPartial]
        /\ positions' \in [Sources -> Nat]
    BY <1>1, <1>2, <2>1, <2>2 DEF TypeOK
  <2>4. /\ output' \in Seq(MapStr) /\ published' \in Seq(Event)
        /\ givenUp' \subseteq Sources \X (0 .. MaxLines - 1) \X Reasons
    BY <1>1, <1>2 DEF TypeOK
  <2>5. QED BY <1>1, <2>1, <2>3, <2>4, NoEvents DEF TypeOK
<1>4. PublisherIdle' /\ OneCopy'
  BY <1>1 DEF PublisherIdle, OneCopy
<1>5. BatchesFit'
  BY <1>1, NothingPending, NoEvents, PipelineAssumption DEF BatchesFit
<1>6. NothingLost'
  BY <1>1, NothingPending DEF NothingLost
<1>7. Pending' = {}
  BY <1>1, NothingPending DEF Pending
<1>8. Reading'
  <2>1. Read'
    BY <1>1, <1>2, PipelineAssumption DEF Reading, Read, Statuses, TypeOK
  <2>2. NoGap'
    BY <1>1, <1>2 DEF NoGap, TypeOK
  <2>3. QED
    BY <1>7, <2>1, <2>2
    DEF Reading, InOrder, NotAhead, NotBehind, NoGapBefore, HarvestedFirst
<1>9. AckedSettled'
  BY <1>1, NothingPending, NoEvents DEF AckedSettled, AllSettled
<1>10. RecordedIsSettled'
  BY <1>1, <1>2 DEF RecordedIsSettled, Settled, Published, GivenUp
<1>11. QED
  BY <1>3, <1>4, <1>5, <1>6, <1>8, <1>9, <1>10 DEF FilebeatInv, PipelineInv

-----------------------------------------------------------------------------
(* What Publish settles stays settled. *)
LEMMA SettledFrame ==
  ASSUME UNCHANGED published, givenUp \subseteq givenUp'
  PROVE  \A s, n : Settled(s, n) => Settled(s, n)'
BY DEF Settled, Published, GivenUp

\* What the output has accepted, it keeps, and accepts the batch besides.
LEMMA AcceptedPublishes ==
  ASSUME TypeOK, Accepted(batch), UNCHANGED batch
  PROVE  /\ \A s, n : Published(s, n) => Published(s, n)'
         /\ \A k \in 1 .. Len(batch) : ~batch[k].isPartial =>
              Published(batch[k].source, batch[k].offset)'
         /\ \A i \in DOMAIN published : published'[i] = published[i]
         /\ \A i \in DOMAIN published' \ DOMAIN published :
              \E k \in 1 .. Len(batch) : published'[i] = batch[k]
<1>1. published' = published \o batch
  BY DEF Accepted
<1>2. /\ published \in Seq(Event) /\ batch \in Seq(Event)
      /\ Len(published) \in Nat /\ Len(batch) \in Nat
      /\ Len(published') = Len(published) + Len(batch)
      /\ \A i \in 1 .. Len(published) : published'[i] = published[i]
      /\ \A k \in 1 .. Len(batch) : published'[Len(published) + k] = batch[k]
      /\ published' \in Seq(Event)
  <2>1. published \in Seq(Event) /\ batch \in Seq(Event)
    BY DEF TypeOK
  <2>2. /\ Starts(published, published \o batch)
        /\ published \o batch \in Seq(Event)
        /\ Len(published \o batch) = Len(published) + Len(batch)
        /\ \A k \in 1 .. Len(batch) :
             (published \o batch)[Len(published) + k] = batch[k]
    BY <2>1, ConcatStarts
  <2>3. QED BY <1>1, <2>1, <2>2, LenProperties DEF Starts
<1>3. /\ DOMAIN published = 1 .. Len(published)
      /\ DOMAIN published' = 1 .. Len(published')
  BY <1>2, LenProperties
<1>4. ASSUME NEW s, NEW n, Published(s, n)
      PROVE  Published(s, n)'
  <2>1. PICK i \in DOMAIN published :
          published[i] = [source |-> s, offset |-> n, isPartial |-> FALSE]
    BY <1>4 DEF Published
  <2>2. i \in DOMAIN published' /\ published'[i] = published[i]
    BY <1>2, <1>3
  <2>3. QED BY <2>1, <2>2 DEF Published
<1>5. ASSUME NEW k \in 1 .. Len(batch), ~batch[k].isPartial
      PROVE  Published(batch[k].source, batch[k].offset)'
  <2>1. batch[k] \in Event
    BY <1>2, ElementOfSeq
  <2>2. batch[k] = Line(batch[k].source, batch[k].offset)
    BY <1>5, <2>1 DEF Event, Line
  <2>3. /\ Len(published) + k \in DOMAIN published'
        /\ published'[Len(published) + k] = batch[k]
    BY <1>2, <1>3
  <2>4. QED BY <2>2, <2>3 DEF Published, Line
<1>6. ASSUME NEW i \in DOMAIN published' \ DOMAIN published
      PROVE  \E k \in 1 .. Len(batch) : published'[i] = batch[k]
  <2>1. /\ i - Len(published) \in 1 .. Len(batch)
        /\ i = Len(published) + (i - Len(published))
    BY <1>2, <1>3
  <2>2. QED BY <1>2, <2>1
<1>7. QED BY <1>2, <1>3, <1>4, <1>5, <1>6

\* What was settled stays settled, and the batch is settled besides.
LEMMA PublishBatchSettles ==
  ASSUME TypeOK, PublishBatch
  PROVE  /\ \A s, n : Settled(s, n) => Settled(s, n)'
         /\ AllSettled(batch)'
         /\ givenUp \subseteq givenUp'
<1>1. batch \in Seq(Event) /\ batch' = batch
  BY DEF TypeOK, PublishBatch
<1>2. CASE Accepted(batch)
  <2>1. givenUp' = givenUp
    BY <1>2 DEF Accepted
  <2>2. QED
    BY <1>1, <1>2, <2>1, AcceptedPublishes DEF AllSettled, Settled, GivenUp
<1>3. CASE Refused(batch)
  <2>1. published' = published /\ givenUp \subseteq givenUp'
    BY <1>3 DEF Refused
  <2>2. ASSUME NEW k \in 1 .. Len(batch), ~batch[k].isPartial
        PROVE  GivenUp(batch[k].source, batch[k].offset)'
    <3>1. k \in DOMAIN batch
      BY <1>1, LenProperties
    <3>2. <<batch[k].source, batch[k].offset, "refused">> \in givenUp'
      BY <1>3, <2>2, <3>1 DEF Refused
    <3>3. QED BY <1>1, <3>2 DEF GivenUp, Reasons
  <2>3. QED BY <1>1, <2>1, <2>2, SettledFrame DEF AllSettled, Settled
<1>4. QED BY <1>2, <1>3 DEF PublishBatch

LEMMA StageReads ==
  ASSUME FilebeatInv, Stage
  PROVE  Reading'
<1>1. /\ TypeOK /\ PipelineInv /\ Reading /\ AckedSettled
      /\ UNCHANGED <<lines, status>>
  BY DEF FilebeatInv, PipelineInv, Stage
<1>2. CASE RecordBatch
  BY <1>1, <1>2, ReadingRecord
<1>3. CASE Spooler \/ Clock \/ Publisher
  <2>1. UNCHANGED <<shipped, acked, offset, positions>>
    BY <1>3
    DEF Spooler, SpoolEvent, HandleTick, FlushSend, Clock, TickerFires,
        IdleTimeoutPasses, Publisher, StartPublish, ReceiveBatch, PublishBatch,
        AckBatch, harvesterVars, registrarVars
  <2>2. PublishBatch \/ givenUp' = givenUp
    BY <1>3
    DEF Spooler, SpoolEvent, HandleTick, FlushSend, Clock, TickerFires,
        IdleTimeoutPasses, Publisher, StartPublish, ReceiveBatch, AckBatch,
        publisherVars, outputVars
  <2>3. givenUp \subseteq givenUp'
    BY <1>1, <2>2, PublishBatchSettles
  <2>4. QED BY <1>1, <2>1, <2>3, ReadingFrame
<1>4. QED BY <1>2, <1>3 DEF Stage

\* A step that leaves Publish, the registrar and what the output accepted alone.
LEMMA SettledKept ==
  ASSUME AckedSettled, RecordedIsSettled, givenUp \subseteq givenUp',
         UNCHANGED <<published, registrarChan, positions>>,
         publisherPc' = "ack" => publisherPc = "ack" /\ batch' = batch
  PROVE  AckedSettled' /\ RecordedIsSettled'
<1>1. \A s, n : Settled(s, n) => Settled(s, n)'
  BY SettledFrame
<1>2. Held(registrarChan)' = Held(registrarChan)
  BY DEF Held
<1>3. AckedSettled'
  BY <1>1, <1>2 DEF AckedSettled, AllSettled
<1>4. RecordedIsSettled'
  BY <1>1 DEF RecordedIsSettled
<1>5. QED BY <1>3, <1>4

LEMMA StageSettles ==
  ASSUME FilebeatInv, Stage
  PROVE  AckedSettled' /\ RecordedIsSettled'
<1>1. TypeOK /\ PipelineInv /\ Reading /\ AckedSettled /\ RecordedIsSettled
  BY DEF FilebeatInv, PipelineInv
<1>2. CASE Spooler \/ Clock \/ StartPublish \/ ReceiveBatch
  <2>1. UNCHANGED <<published, givenUp, registrarChan, positions>>
    BY <1>2
    DEF Spooler, SpoolEvent, HandleTick, FlushSend, Clock, TickerFires,
        IdleTimeoutPasses, StartPublish, ReceiveBatch, publisherVars, outputVars,
        registrarVars
  <2>2. publisherPc' = "ack" => publisherPc = "ack" /\ batch' = batch
    BY <1>2
    DEF Spooler, SpoolEvent, HandleTick, FlushSend, Clock, TickerFires,
        IdleTimeoutPasses, StartPublish, ReceiveBatch, publisherVars
  <2>3. QED BY <1>1, <2>1, <2>2, SettledKept
<1>3. CASE PublishBatch
  <2>1. UNCHANGED <<registrarChan, positions>>
    BY <1>3 DEF PublishBatch, registrarVars
  <2>2. Held(registrarChan)' = Held(registrarChan)
    BY <2>1 DEF Held
  <2>3. AckedSettled'
    BY <1>1, <1>3, <2>2, PublishBatchSettles DEF AckedSettled, AllSettled
  <2>4. RecordedIsSettled'
    BY <1>1, <1>3, <2>1, PublishBatchSettles DEF RecordedIsSettled
  <2>5. QED BY <2>3, <2>4
<1>4. CASE AckBatch
  <2>1. /\ UNCHANGED <<published, givenUp, positions>>
        /\ publisherPc = "ack" /\ publisherPc' = "receive"
    BY <1>4 DEF AckBatch, outputVars, registrarVars
  <2>2. Held(registrarChan)' = batch
    <3>1. /\ registrarChan \in Seq(Seq(Event)) /\ batch \in Seq(Event)
          /\ Len(registrarChan) < BatchChanCap /\ Len(registrarChan) <= BatchChanCap
          /\ registrarChan' = Append(registrarChan, batch)
      BY <1>1, <1>4 DEF AckBatch, TypeOK
    <3>2. Held(Append(registrarChan, batch)) = batch
      BY <3>1, HeldProperties
    <3>3. QED BY <3>1, <3>2 DEF Held
  <2>3. \A s, n : Settled(s, n) => Settled(s, n)'
    BY <2>1, SettledFrame
  <2>4. QED BY <1>1, <2>1, <2>2, <2>3
    DEF AckedSettled, AllSettled, RecordedIsSettled
<1>5. CASE RecordBatch
  <2>1. UNCHANGED <<published, givenUp, batch, publisherPc>>
    BY <1>5 DEF RecordBatch, publisherVars, outputVars
  <2>2. Held(registrarChan)' = <<>>
    BY <1>1, <1>5, HeldProperties DEF RecordBatch, TypeOK, Held
  <2>3. \A s, n : Settled(s, n) => Settled(s, n)'
    BY <2>1, SettledFrame
  <2>4. AckedSettled'
    BY <1>1, <2>1, <2>2, <2>3, NoEvents DEF AckedSettled, AllSettled
  <2>5. RecordedIsSettled'
    <3> SUFFICES ASSUME NEW s \in Sources, NEW n \in 0 .. positions'[s] - 1
                 PROVE  Settled(s, n)
      BY <2>3 DEF RecordedIsSettled
    <3>1. n \in 0 .. positions[s] - 1 \/ n \in positions[s] .. positions'[s] - 1
      BY <1>1, <1>5, RecordMoves, PendingTypes
    <3>2. QED BY <1>1, <1>5, <3>1, RecordMoves DEF RecordedIsSettled
  <2>6. QED BY <2>4, <2>5
<1>6. QED BY <1>2, <1>3, <1>4, <1>5 DEF Stage, Publisher

-----------------------------------------------------------------------------
(* The first scan comes to a file. *)
LEMMA StartOffsetBetween ==
  ASSUME PipelineInv, Reading, NEW s \in Sources
  PROVE  /\ StartOffset(s) \in 0 .. MaxLines
         /\ positions[s] <= StartOffset(s) /\ StartOffset(s) <= lines[s]
<1>1. /\ positions[s] \in Nat /\ offset[s] \in 0 .. MaxLines /\ MaxLines \in Nat
  BY PendingTypes
<1>2. lines[s] \in 0 .. MaxLines /\ positions[s] <= offset[s] /\ offset[s] <= lines[s]
  BY DEF Reading, Read
<1>3. StartOffset(s) \in {lines[s], positions[s]}
  BY DEF StartOffset
<1>4. QED BY <1>1, <1>2, <1>3

\* A step that changes nothing of the pipeline but an offset and what is given up.
LEMMA ResumePipelineInv ==
  ASSUME FilebeatInv, NEW s \in Sources, Resume(s)
  PROVE  PipelineInv'
<1>1. /\ TypeOK /\ PublisherIdle /\ BatchesFit /\ OneCopy /\ NothingLost
      /\ StartOffset(s) \in 0 .. MaxLines /\ positions[s] \in Nat
      /\ StartOffset(s) \in Nat /\ MaxLines \in Nat
  BY StartOffsetBetween, PendingTypes DEF FilebeatInv, PipelineInv
<1>2. /\ offset' = [offset EXCEPT ![s] = StartOffset(s)]
      /\ UNCHANGED <<lastPartialLen, shipped, spoolChan, spool, tmpCopy, tick, overdue,
                     publisherChan, batch, publisherPc, output, published,
                     registrarChan, positions, acked>>
  BY DEF Resume, spoolerVars, registrarVars
<1>3. givenUp' \subseteq Sources \X (0 .. MaxLines - 1) \X Reasons
  <2>1. \A n \in positions[s] .. StartOffset(s) - 1 :
          <<s, n, "skipped">> \in Sources \X (0 .. MaxLines - 1) \X Reasons
    BY <1>1 DEF Reasons
  <2>2. QED BY <1>1, <2>1 DEF Resume, TypeOK
<1>4. offset' \in [Sources -> 0 .. MaxLines]
  BY <1>1, <1>2 DEF TypeOK
<1>5. TypeOK'
  BY <1>1, <1>2, <1>3, <1>4 DEF TypeOK
<1>6. PublisherIdle' /\ OneCopy'
  BY <1>1, <1>2 DEF PublisherIdle, OneCopy
<1>7. BatchesFit' /\ NothingLost'
  BY <1>1, <1>2 DEF BatchesFit, NothingLost, Held
<1>8. QED BY <1>5, <1>6, <1>7 DEF PipelineInv

\* A file that has no harvester has nothing pending, so that its offset is free to
\* move; what it moves over is given up.
LEMMA ResumeReads ==
  ASSUME FilebeatInv, NEW s \in Sources, Resume(s)
  PROVE  Reading'
<1>1. /\ PipelineInv /\ Reading /\ TypeOK
      /\ InOrder /\ NotAhead /\ NotBehind /\ Read /\ NoGapBefore /\ NoGap
      /\ HarvestedFirst
  BY DEF FilebeatInv, PipelineInv, Reading
<1>2. /\ UNCHANGED <<shipped, acked, positions, lines>>
      /\ status[s] = "unseen"
      /\ status' = [status EXCEPT ![s] = "harvested"]
      /\ offset' = [offset EXCEPT ![s] = StartOffset(s)]
      /\ givenUp \subseteq givenUp'
  BY DEF Resume, registrarVars
<1>3. /\ Pending' = Pending
      /\ \A t, n : GivenUp(t, n) => GivenUp(t, n)'
  BY <1>2 DEF Pending, GivenUp
<1>4. \A i \in Pending : shipped[i].source \in Sources /\ shipped[i].source # s
  BY <1>1, <1>2, PendingTypes DEF HarvestedFirst
<1>5. \A t \in Sources : t # s => offset'[t] = offset[t] /\ status'[t] = status[t]
  BY <1>1, <1>2 DEF TypeOK, Read
<1>6. offset'[s] = StartOffset(s) /\ status'[s] = "harvested"
  BY <1>1, <1>2 DEF TypeOK, Read
<1>7. InOrder' /\ NotBehind'
  BY <1>1, <1>2, <1>3 DEF InOrder, NotBehind, EndOf
<1>8. NotAhead' /\ HarvestedFirst'
  BY <1>1, <1>2, <1>3, <1>4, <1>5 DEF NotAhead, HarvestedFirst, EndOf
<1>9. NoGapBefore'
  BY <1>1, <1>2, <1>3 DEF NoGapBefore, Line
<1>10. Read'
  <2>1. \A t \in Sources : positions[t] <= offset'[t] /\ offset'[t] <= lines[t]
    BY <1>1, <1>5, <1>6, StartOffsetBetween DEF Read
  <2>2. status' \in [Sources -> Statuses]
    BY <1>1, <1>2 DEF Read, Statuses
  <2>3. QED BY <1>1, <1>2, <2>1, <2>2 DEF Read
<1>11. NoGap'
  <2> SUFFICES ASSUME NEW t \in Sources, NEW n \in positions[t] .. offset'[t] - 1
               PROVE  GivenUp(t, n)' \/ \E j \in Pending : shipped[j] = Line(t, n)
    BY <1>2, <1>3 DEF NoGap, Line
  <2>1. CASE t = s
    <3>1. <<s, n, "skipped">> \in givenUp'
      BY <1>6, <2>1 DEF Resume
    <3>2. QED BY <2>1, <3>1 DEF GivenUp, Reasons
  <2>2. CASE t # s
    BY <1>1, <1>3, <1>5, <2>2 DEF NoGap
  <2>3. QED BY <2>1, <2>2
<1>12. QED BY <1>7, <1>8, <1>9, <1>10, <1>11 DEF Reading

LEMMA FilebeatNext == FilebeatInv /\ [FNext]_fvars => FilebeatInv'
<1> SUFFICES ASSUME FilebeatInv, [FNext]_fvars
             PROVE  FilebeatInv'
  OBVIOUS
<1>1. PipelineInv /\ Reading /\ AckedSettled /\ RecordedIsSettled
  BY DEF FilebeatInv
<1>2. CASE (\E s \in Sources : WriteLine(s) \/ LeaveAlone(s)) \/ UNCHANGED fvars
  <2>1. UNCHANGED vars /\ PipelineInv'
    BY <1>1, <1>2, InvNext DEF WriteLine, LeaveAlone, fvars
  <2>2. UNCHANGED <<shipped, acked, offset, positions, published, givenUp, registrarChan,
                    batch, publisherPc>>
    BY <2>1 DEF vars, harvesterVars, publisherVars, outputVars, registrarVars
  <2>3. AckedSettled' /\ RecordedIsSettled'
    BY <1>1, <2>2, SettledKept
  <2>4. /\ Pending' = Pending
        /\ \A s, n : GivenUp(s, n)' = GivenUp(s, n)
    BY <2>2 DEF Pending, GivenUp
  <2>5. InOrder' /\ NotAhead' /\ NotBehind' /\ NoGapBefore' /\ NoGap'
    BY <1>1, <2>2, <2>4
    DEF Reading, InOrder, NotAhead, NotBehind, NoGapBefore, NoGap, EndOf, Line
  <2>6. Read'
    <3>1. ASSUME NEW s \in Sources, WriteLine(s)
          PROVE  Read'
      BY <1>1, <2>2, <3>1, PendingTypes DEF WriteLine, Reading, Read
    <3>2. ASSUME NEW s \in Sources, LeaveAlone(s)
          PROVE  Read'
      BY <1>1, <2>2, <3>2 DEF LeaveAlone, Reading, Read, Statuses
    <3>3. CASE UNCHANGED <<lines, status>>
      BY <1>1, <2>2, <3>3 DEF Reading, Read
    <3>4. QED BY <1>2, <3>1, <3>2, <3>3 DEF fvars
  <2>7. HarvestedFirst'
    <3>1. ASSUME NEW s \in Sources, LeaveAlone(s)
          PROVE  HarvestedFirst'
      BY <1>1, <2>2, <2>4, <3>1, PendingTypes
      DEF LeaveAlone, Reading, Read, HarvestedFirst
    <3>2. CASE status' = status
      BY <1>1, <2>2, <2>4, <3>2 DEF Reading, HarvestedFirst
    <3>3. QED BY <1>2, <3>1, <3>2 DEF WriteLine, fvars
  <2>8. QED BY <2>1, <2>3, <2>5, <2>6, <2>7 DEF FilebeatInv, Reading
<1>3. ASSUME NEW s \in Sources, Harvest(s)
      PROVE  FilebeatInv'
  <2>1. Ship(s)
    BY <1>3 DEF Harvest, Ship
  <2>2. PipelineInv'
    BY <1>1, <2>1, InvNext DEF Next
  <2>3. Reading'
    BY <1>1, <1>3, ReadingHarvest
  <2>4. UNCHANGED <<published, givenUp, registrarChan, batch, publisherPc, positions>>
    BY <1>3 DEF Harvest, publisherVars, outputVars, registrarVars
  <2>5. AckedSettled' /\ RecordedIsSettled'
    BY <1>1, <2>4, SettledKept
  <2>6. QED BY <2>2, <2>3, <2>5 DEF FilebeatInv
<1>4. ASSUME NEW s \in Sources, Resume(s)
      PROVE  FilebeatInv'
  <2>1. /\ UNCHANGED <<published, registrarChan, batch, publisherPc, positions>>
        /\ givenUp \subseteq givenUp'
    BY <1>4 DEF Resume, registrarVars
  <2>2. AckedSettled' /\ RecordedIsSettled'
    BY <1>1, <2>1, SettledKept
  <2>3. QED BY <1>4, <2>2, ResumePipelineInv, ResumeReads DEF FilebeatInv
<1>5. CASE Stage
  <2>1. PipelineInv'
    BY <1>1, <1>5, InvNext DEF Stage, Next
  <2>2. QED BY <1>5, <2>1, StageReads, StageSettles DEF FilebeatInv
<1>6. CASE CrashAndRestart
  BY <1>6, CrashInv
<1>7. QED BY <1>2, <1>3, <1>4, <1>5, <1>6 DEF FNext

LEMMA FilebeatInvHolds == FSafeSpec => []FilebeatInv
BY FilebeatInit, FilebeatNext, PTL DEF FSafeSpec

\* However often and whenever the process ends, whatever the output refuses and
\* whatever files are tailed: no position, from which the next start goes on, is past a
\* line that the output has not been given, but for those that tail_files passed over.
THEOREM RecordedOnlySettled == FSafeSpec => []RecordedIsSettled
<1>1. FilebeatInv => RecordedIsSettled
  BY DEF FilebeatInv
<1>2. QED BY <1>1, FilebeatInvHolds, PTL

\* A step of the registrar moves no position back, whatever the batch holds.
THEOREM PositionsOnlyAdvance == FSafeSpec => PositionsAdvance
<1>1. ASSUME FilebeatInv, [FNext]_fvars
      PROVE  [\A s \in Sources : positions'[s] >= positions[s]]_vars
  <2>1. CASE RecordBatch
    BY <1>1, <2>1, RecordMoves, PendingTypes DEF FilebeatInv
  <2>2. CASE positions' = positions
    BY <1>1, <2>2, PendingTypes DEF FilebeatInv
  <2>3. RecordBatch \/ positions' = positions
    BY <1>1
    DEF FNext, fvars, vars, WriteLine, Resume, LeaveAlone, Harvest, Stage,
        CrashAndRestart, Spooler, SpoolEvent, HandleTick, FlushSend, Clock,
        TickerFires, IdleTimeoutPasses, Publisher, StartPublish, ReceiveBatch,
        PublishBatch, AckBatch, registrarVars
  <2>4. QED BY <2>1, <2>2, <2>3
<1>2. QED BY <1>1, FilebeatInvHolds, PTL DEF FSafeSpec, PositionsAdvance

-----------------------------------------------------------------------------
(* What Publish hands to the output. *)

\* The events of the batch being published are pending.
LEMMA PublishedFresh ==
  ASSUME FilebeatInv, PublishBatch
  PROVE  \A k \in 1 .. Len(batch) :
           /\ batch[k].source \in Sources
           /\ batch[k].offset \in 0 .. MaxLines - 1
           /\ positions[batch[k].source] <= batch[k].offset
           /\ ~batch[k].isPartial => batch[k].offset < lines[batch[k].source]
<1> SUFFICES ASSUME NEW k \in 1 .. Len(batch)
             PROVE  /\ batch[k].source \in Sources
                    /\ batch[k].offset \in 0 .. MaxLines - 1
                    /\ positions[batch[k].source] <= batch[k].offset
                    /\ ~batch[k].isPartial => batch[k].offset < lines[batch[k].source]
  OBVIOUS
<1>1. PipelineInv /\ Reading
  BY DEF FilebeatInv
<1>2. PICK i \in Pending : shipped[i] = batch[k]
  BY <1>1, StagesArePending
<1>3. batch[k].source \in Sources /\ batch[k].offset \in 0 .. MaxLines - 1
  BY <1>1, <1>2, PendingTypes
<1>4. positions[batch[k].source] <= batch[k].offset
  BY <1>1, <1>2 DEF Reading, NotBehind
<1>5. /\ EndOf(batch[k]) <= offset[batch[k].source]
      /\ offset[batch[k].source] <= lines[batch[k].source]
      /\ offset[batch[k].source] \in 0 .. MaxLines
      /\ lines[batch[k].source] \in Nat
  BY <1>1, <1>2, <1>3, PendingTypes DEF Reading, NotAhead, Read
<1>6. ~batch[k].isPartial => batch[k].offset < lines[batch[k].source]
  <2>1. ~batch[k].isPartial => EndOf(batch[k]) = batch[k].offset + 1
    BY DEF EndOf
  <2>2. QED BY <1>3, <1>5, <2>1, PipelineAssumption
<1>7. QED BY <1>3, <1>4, <1>6

\* An event new to the output is one of the batch, which the output accepts.
LEMMA NewWithOutput ==
  ASSUME FilebeatInv, PublishBatch, NEW i \in DOMAIN published' \ DOMAIN published
  PROVE  \E k \in 1 .. Len(batch) : published'[i] = batch[k]
<1>1. TypeOK /\ batch' = batch
  BY DEF FilebeatInv, PipelineInv, PublishBatch
<1>2. Accepted(batch)
  BY DEF PublishBatch, Refused
<1>3. QED BY <1>1, <1>2, AcceptedPublishes

\* Whatever a start sends again was not recorded before.
THEOREM OnlyUnrecordedAgain == FSafeSpec => NothingRecordedAgain
<1> DEFINE Fresh == \A i \in DOMAIN published' \ DOMAIN published :
                      published'[i].offset >= positions[published'[i].source]
<1>1. ASSUME FilebeatInv, [FNext]_fvars
      PROVE  Fresh
  <2>1. CASE PublishBatch
    <3> SUFFICES ASSUME NEW i \in DOMAIN published' \ DOMAIN published
                 PROVE  published'[i].offset >= positions[published'[i].source]
      OBVIOUS
    <3>1. PICK k \in 1 .. Len(batch) : published'[i] = batch[k]
      BY <1>1, <2>1, NewWithOutput
    <3>2. /\ batch[k].offset \in 0 .. MaxLines - 1
          /\ positions[batch[k].source] \in Nat
          /\ positions[batch[k].source] <= batch[k].offset
      BY <1>1, <2>1, PublishedFresh, PendingTypes DEF FilebeatInv
    <3>3. QED BY <3>1, <3>2, PipelineAssumption
  <2>2. CASE published' = published
    BY <2>2
  <2>3. PublishBatch \/ published' = published
    BY <1>1
    DEF FNext, fvars, vars, WriteLine, Resume, LeaveAlone, Harvest, Stage,
        CrashAndRestart, Spooler, SpoolEvent, HandleTick, FlushSend, Clock,
        TickerFires, IdleTimeoutPasses, Publisher, StartPublish, ReceiveBatch,
        RecordBatch, AckBatch, publisherVars, outputVars
  <2>4. QED BY <2>1, <2>2, <2>3
<1>2. QED BY <1>1, FilebeatInvHolds, PTL DEF FSafeSpec, NothingRecordedAgain

-----------------------------------------------------------------------------
(* Filebeat implements Delivery: a crash is a stutter. *)
LEMMA DeliveredFrame ==
  ASSUME UNCHANGED published
  PROVE  Delivered' = Delivered
BY DEF Delivered, Published

LEMMA AcceptDelivers ==
  ASSUME FilebeatInv, PublishBatch, Accepted(batch), UNCHANGED lines
  PROVE  Promise!Deliver
<1>1. TypeOK /\ batch' = batch /\ UNCHANGED <<givenUp, positions>>
  BY DEF FilebeatInv, PipelineInv, PublishBatch, Accepted, registrarVars
<1>2. Delivered \subseteq Delivered'
  BY <1>1, AcceptedPublishes DEF Delivered
<1>3. ASSUME NEW l \in Delivered' \ Delivered
      PROVE  l[2] < lines[l[1]]
  <2>1. /\ Published(l[1], l[2])' /\ ~Published(l[1], l[2])
    BY DEF Delivered
  <2>2. PICK i \in DOMAIN published' : published'[i] = Line(l[1], l[2])
    BY <2>1 DEF Published, Line
  <2>3. i \notin DOMAIN published
    BY <1>1, <2>1, <2>2, AcceptedPublishes DEF Published, Line
  <2>4. PICK k \in 1 .. Len(batch) : published'[i] = batch[k]
    BY <2>3, NewWithOutput
  <2>5. batch[k].source = l[1] /\ batch[k].offset = l[2] /\ ~batch[k].isPartial
    BY <2>2, <2>4 DEF Line
  <2>6. QED BY <2>5, PublishedFresh
<1>4. QED BY <1>1, <1>2, <1>3 DEF Promise!Deliver

LEMMA RefuseGivesUp ==
  ASSUME FilebeatInv, PublishBatch, OutputMayFail, Refused(batch), UNCHANGED lines
  PROVE  Promise!Refuse
<1>1. TypeOK /\ UNCHANGED <<published, positions>>
  BY DEF FilebeatInv, PipelineInv, PublishBatch, Refused, registrarVars
<1>2. Delivered' = Delivered
  BY <1>1, DeliveredFrame
<1>3. ASSUME NEW l \in givenUp' \ givenUp
      PROVE  l[2] < lines[l[1]] /\ l[3] = "refused"
  <2>1. PICK k \in DOMAIN batch : /\ ~batch[k].isPartial
                                 /\ l = <<batch[k].source, batch[k].offset, "refused">>
    BY DEF Refused
  <2>2. k \in 1 .. Len(batch)
    BY <1>1, LenProperties DEF TypeOK
  <2>3. QED BY <2>1, <2>2, PublishedFresh
<1>4. givenUp \subseteq givenUp'
  BY DEF Refused
<1>5. QED BY <1>1, <1>2, <1>3, <1>4 DEF Promise!Refuse

LEMMA ResumeSkips ==
  ASSUME FilebeatInv, NEW s \in Sources, Resume(s)
  PROVE  Promise!Skip \/ UNCHANGED <<lines, Delivered, givenUp, positions>>
<1>1. /\ UNCHANGED <<lines, published, positions>>
      /\ givenUp' = givenUp \cup
           {<<s, n, "skipped">> : n \in positions[s] .. StartOffset(s) - 1}
  BY DEF Resume, registrarVars
<1>2. Delivered' = Delivered
  BY <1>1, DeliveredFrame
<1>3. positions[s] \in Nat /\ lines[s] \in Nat
  BY PendingTypes, PipelineAssumption DEF FilebeatInv, Reading, Read
<1>4. CASE positions[s] = 0 /\ s \in Tailed
  <2>1. StartOffset(s) = lines[s]
    BY <1>4 DEF StartOffset
  <2>2. \A l \in givenUp' \ givenUp : l[1] = s /\ l[2] < lines[s] /\ l[3] = "skipped"
    BY <1>1, <1>3, <2>1
  <2>3. givenUp \subseteq givenUp'
    BY <1>1
  <2>4. Promise!Skip
    BY <1>1, <1>2, <1>4, <2>2, <2>3 DEF Promise!Skip
  <2>5. QED BY <2>4
<1>5. CASE ~(positions[s] = 0 /\ s \in Tailed)
  <2>1. StartOffset(s) = positions[s]
    BY <1>5 DEF StartOffset
  <2>2. positions[s] .. positions[s] - 1 = {}
    BY <1>3
  <2>3. givenUp' = givenUp
    BY <1>1, <2>1, <2>2
  <2>4. QED BY <1>1, <1>2, <2>3
<1>6. QED BY <1>4, <1>5

LEMMA RecordRecords ==
  ASSUME FilebeatInv, FilebeatInv', RecordBatch, UNCHANGED lines
  PROVE  Promise!Record
<1>1. /\ PipelineInv /\ Reading /\ AckedSettled /\ RecordedIsSettled'
      /\ PipelineInv' /\ Reading'
  BY DEF FilebeatInv
<1>2. UNCHANGED <<offset, published, givenUp>>
  BY DEF RecordBatch, harvesterVars, publisherVars, outputVars
<1>3. positions' \in [Sources -> 0 .. MaxLines]
  <2>1. positions' \in [Sources -> Nat]
    BY <1>1 DEF PipelineInv, TypeOK
  <2>2. \A s \in Sources : positions'[s] \in 0 .. MaxLines
    <3>1. \A s \in Sources : /\ positions'[s] \in Nat /\ positions'[s] <= offset[s]
                             /\ offset[s] \in 0 .. MaxLines
      BY <1>1, RecordMoves, PendingTypes
    <3>2. QED BY <3>1, PipelineAssumption
  <2>3. QED BY <2>1, <2>2
<1>4. \A s \in Sources : positions'[s] >= positions[s]
  BY <1>1, RecordMoves, PendingTypes
<1>5. ASSUME NEW s \in Sources, NEW n \in 0 .. positions'[s] - 1
      PROVE  Promise!Settled(s, n)
  <2>1. Published(s, n) \/ GivenUp(s, n)
    BY <1>1, <1>2 DEF RecordedIsSettled, Settled, Published, GivenUp
  <2>2. n \in 0 .. MaxLines - 1
    BY <1>3, PipelineAssumption
  <2>3. QED
    BY <2>1, <2>2 DEF Delivered, GivenUp, Reasons, Promise!Settled
<1>6. Delivered' = Delivered
  BY <1>2, DeliveredFrame
<1>7. QED BY <1>2, <1>3, <1>4, <1>5, <1>6 DEF Promise!Record

LEMMA FilebeatStepRefines ==
  FilebeatInv /\ FilebeatInv' /\ [FNext]_fvars => [Promise!DNext]_(Promise!dvars)
<1> SUFFICES ASSUME FilebeatInv, FilebeatInv', [FNext]_fvars
             PROVE  \/ Promise!DNext
                    \/ UNCHANGED <<lines, Delivered, givenUp, positions>>
  BY DEF Promise!dvars
<1>1. ASSUME NEW s \in Sources, WriteLine(s)
      PROVE  Promise!DNext
  <2>1. UNCHANGED <<positions, published, givenUp>>
    BY <1>1 DEF WriteLine, vars, registrarVars, publisherVars, outputVars
  <2>2. Delivered' = Delivered
    BY <2>1, DeliveredFrame
  <2>3. Promise!Write
    BY <1>1, <2>1, <2>2 DEF WriteLine, Promise!Write
  <2>4. QED BY <2>3 DEF Promise!DNext
<1>2. ASSUME NEW s \in Sources, Resume(s)
      PROVE  \/ Promise!DNext
             \/ UNCHANGED <<lines, Delivered, givenUp, positions>>
  BY <1>2, ResumeSkips DEF Promise!DNext
<1>3. CASE PublishBatch /\ UNCHANGED lines
  BY <1>3, AcceptDelivers, RefuseGivesUp DEF PublishBatch, Promise!DNext
<1>4. CASE RecordBatch /\ UNCHANGED lines
  BY <1>4, RecordRecords DEF Promise!DNext
<1>5. CASE UNCHANGED <<lines, positions, published, givenUp>>
  BY <1>5, DeliveredFrame
<1>6. \/ \E s \in Sources : WriteLine(s) \/ Resume(s)
      \/ PublishBatch /\ UNCHANGED lines
      \/ RecordBatch /\ UNCHANGED lines
      \/ UNCHANGED <<lines, positions, published, givenUp>>
  BY DEF FNext, fvars, vars, LeaveAlone, Harvest, Stage, CrashAndRestart, Spooler,
         SpoolEvent, HandleTick, FlushSend, Clock, TickerFires,
         IdleTimeoutPasses, Publisher, StartPublish, ReceiveBatch, AckBatch,
         publisherVars, outputVars, registrarVars
<1>7. QED BY <1>1, <1>2, <1>3, <1>4, <1>5, <1>6

\* Filebeat with any number of crashes, with tailed files and an output that may refuse
\* what it gets keeps its promise.
THEOREM FilebeatImplementsDelivery == FSafeSpec => ImplementsDelivery
<1>1. FInit => Promise!DInit
  <2> SUFFICES ASSUME FInit PROVE Promise!DInit
    OBVIOUS
  <2>1. Delivered = {}
    <3>1. DOMAIN published = {}
      BY NoEvents DEF FInit, Init
    <3>2. QED BY <3>1 DEF Delivered, Published
  <2>2. QED BY <2>1 DEF FInit, Init, Promise!DInit
<1>2. QED
  BY <1>1, FilebeatStepRefines, FilebeatInvHolds, PTL
  DEF FSafeSpec, ImplementsDelivery, Promise!DSafeSpec
=============================================================================
