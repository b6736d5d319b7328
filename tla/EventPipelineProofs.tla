------------------------- MODULE EventPipelineProofs -------------------------
(***************************************************************************)
(* Proofs about EventPipeline for every set of sources, every channel and  *)
(* spool size and every number of lines.                                   *)
(***************************************************************************)
EXTENDS EventPipeline, TLAPS, SequenceTheorems, NaturalsInduction,
        WellFoundedInduction

-----------------------------------------------------------------------------
(* A set of indices has a last one: the naturals are well founded. *)
LEMMA LastExists ==
  ASSUME NEW n \in Nat, NEW A \in SUBSET (1 .. n), A # {}
  PROVE  \E i \in A : \A j \in A : j <= i
<1> DEFINE R == {ij \in Nat \X Nat : ij[1] < ij[2]}
           T == {n - i : i \in A}
<1>1. IsWellFoundedOn(R, Nat)
  BY NatLessThanWellFounded DEF OpToRel
<1>2. T \subseteq Nat /\ T # {}
  <2>1. \A i \in 1 .. n : n - i \in Nat
    OBVIOUS
  <2>2. T \subseteq Nat
    BY <2>1
  <2>3. T # {}
    OBVIOUS
  <2>4. QED BY <2>2, <2>3
<1>3. PICK x \in T : \A y \in T : ~ (<<y, x>> \in R)
  BY <1>1, <1>2, WFMin
<1>4. \A y \in T : ~ (y < x)
  BY <1>2, <1>3
<1>5. PICK i \in A : x = n - i
  OBVIOUS
<1>6. \A j \in A : n - j \in T
  OBVIOUS
<1> HIDE DEF T, R
<1>7. \A j \in A : ~ (n - j < n - i)
  BY <1>4, <1>5, <1>6
<1>8. QED BY <1>7

-----------------------------------------------------------------------------
(* Facts about sequences and about one-place channels. *)

\* Appending to the right operand of a concatenation appends to the whole.
LEMMA ConcatAppend ==
  ASSUME NEW S, NEW s \in Seq(S), NEW t \in Seq(S), NEW e \in S
  PROVE  s \o Append(t, e) = Append(s \o t, e)
<1>1. /\ Append(t, e) = t \o <<e>>
      /\ s \o t \in Seq(S)
      /\ <<e>> \in Seq(S)
  BY AppendIsConcat, ConcatProperties
<1>2. Append(s \o t, e) = (s \o t) \o <<e>>
  BY <1>1, AppendIsConcat
<1>3. QED BY <1>1, <1>2, ConcatAssociative

\* Moving the head of a queue to the end of what precedes it changes nothing.
LEMMA MoveHead ==
  ASSUME NEW S, NEW s \in Seq(S), NEW t \in Seq(S), t # <<>>
  PROVE  Append(s, Head(t)) \o Tail(t) = s \o t
<1>1. /\ Head(t) \in S /\ Tail(t) \in Seq(S)
      /\ t = <<Head(t)>> \o Tail(t)
      /\ <<Head(t)>> \in Seq(S)
  OBVIOUS
<1>2. Append(s, Head(t)) = s \o <<Head(t)>>
  BY <1>1, AppendIsConcat
<1>3. QED BY <1>1, <1>2, ConcatAssociative

\* A one-place queue is empty or holds one element.
LEMMA OnePlace ==
  ASSUME NEW T, NEW ch \in Seq(T), Len(ch) <= 1
  PROVE  \/ /\ ch = <<>> /\ Len(ch) = 0
            /\ \A b \in T : /\ Append(ch, b) = <<b>>
                            /\ Append(ch, b) \in Seq(T)
         \/ /\ ch # <<>> /\ Len(ch) = 1
            /\ Head(ch) = ch[1] /\ ch[1] \in T /\ Tail(ch) = <<>>
<1>1. CASE ch = <<>>
  BY <1>1
<1>2. CASE ch # <<>>
  <2>1. Len(ch) = 1
    BY <1>2, EmptySeq
  <2>2. /\ Head(ch) = ch[1] /\ ch[1] \in T
        /\ Tail(ch) \in Seq(T) /\ Len(Tail(ch)) = 0
    BY <1>2, <2>1, HeadTailProperties
  <2>3. Tail(ch) = <<>>
    BY <2>2, EmptySeq
  <2>4. QED BY <1>2, <2>1, <2>2, <2>3
<1>3. QED BY <1>1, <1>2

\* What a channel with room for one batch holds before and after a send and
\* a receive.
LEMMA HeldProperties ==
  ASSUME NEW S, NEW ch \in Seq(Seq(S)), Len(ch) <= BatchChanCap
  PROVE  /\ Held(ch) \in Seq(S)
         /\ ch = <<>> => Held(ch) = <<>>
         /\ Len(ch) < BatchChanCap =>
              /\ Held(ch) = <<>>
              /\ \A b \in Seq(S) : /\ Held(Append(ch, b)) = b
                                   /\ Append(ch, b) \in Seq(Seq(S))
                                   /\ Len(Append(ch, b)) <= BatchChanCap
         /\ ch # <<>> => /\ Held(ch) = Head(ch)
                         /\ Head(ch) \in Seq(S)
                         /\ Held(Tail(ch)) = <<>>
                         /\ Tail(ch) \in Seq(Seq(S))
                         /\ Len(Tail(ch)) <= BatchChanCap
<1>1. CASE ch = <<>>
  <2>1. \A b \in Seq(S) : /\ Append(ch, b) = <<b>>
                          /\ Append(ch, b) \in Seq(Seq(S))
    BY <1>1
  <2>2. \A b \in Seq(S) : Held(<<b>>) = b /\ Len(<<b>>) = 1
    BY DEF Held
  <2>3. QED BY <1>1, <2>1, <2>2 DEF Held, BatchChanCap
<1>2. CASE ch # <<>>
  <2>1. Len(ch) = 1 /\ Head(ch) = ch[1] /\ ch[1] \in Seq(S) /\ Tail(ch) = <<>>
    BY <1>2, OnePlace DEF BatchChanCap
  <2>2. Held(ch) = ch[1]
    BY <1>2 DEF Held
  <2>3. Held(Tail(ch)) = <<>> /\ Tail(ch) \in Seq(Seq(S)) /\ Len(Tail(ch)) = 0
    <3>1. Held(<<>>) = <<>>
      BY DEF Held
    <3>2. Tail(ch) \in Seq(Seq(S)) /\ Len(Tail(ch)) = 0
      BY <1>2, <2>1, HeadTailProperties
    <3>3. QED BY <2>1, <3>1, <3>2
  <2>4. ~ (Len(ch) < BatchChanCap)
    BY <2>1 DEF BatchChanCap
  <2>5. Len(Tail(ch)) <= BatchChanCap
    BY <2>3 DEF BatchChanCap
  <2>6. QED BY <1>2, <2>1, <2>2, <2>3, <2>4, <2>5, Zenon
<1>3. QED BY <1>1, <1>2

\* What one stage passes to the next leaves the whole as it was.
LEMMA PassOn ==
  ASSUME NEW S, NEW a \in Seq(S), NEW b \in Seq(S)
  PROVE  (a \o <<>>) \o b = (a \o b) \o <<>>
BY ConcatEmptySeq, ConcatProperties

-----------------------------------------------------------------------------
(* Type correctness. *)

\* The position after a batch is a position.
LEMMA PositionAfterType ==
  ASSUME TypeOK, NEW events \in Seq(Event), NEW s \in Sources
  PROVE  PositionAfter(events, s) \in Nat
<1> DEFINE ofSource == {i \in 1 .. Len(events) : events[i].source = s}
           last == CHOOSE i \in ofSource : \A j \in ofSource : j <= i
<1>1. CASE ofSource = {}
  BY <1>1 DEF PositionAfter, TypeOK
<1>2. CASE ofSource # {}
  <2>1. Len(events) \in Nat
    BY LenProperties
  <2>2. \E i \in ofSource : \A j \in ofSource : j <= i
    BY <1>2, <2>1, LastExists
  <2>3. last \in 1 .. Len(events)
    BY <2>2
  <2>4. events[last] \in Event
    BY <2>3, ElementOfSeq
  <2>5. EndOf(events[last]) \in Nat
    BY <2>4, PipelineAssumption DEF Event, EndOf
  <2>6. QED BY <1>2, <2>5 DEF PositionAfter
<1>3. QED BY <1>1, <1>2

\* The empty sequence as a sequence of events and as a channel of batches.
LEMMA NoEvents ==
  /\ <<>> \in Seq(Event)
  /\ <<>> \in Seq(Seq(Event))
  /\ Len(<<>>) = 0
BY EmptySeq

\* TypeOK holds initially.
LEMMA TypeInit == Init => TypeOK
<1>1. /\ 0 \in 0 .. MaxLines /\ 0 \in 0 .. MaxPartial
      /\ 0 < SpoolSize /\ 0 <= SpoolSize /\ 0 <= ChanCap
  BY PipelineAssumption
<1>2. ASSUME Init
      PROVE  /\ offset \in [Sources -> 0 .. MaxLines]
             /\ lastPartialLen \in [Sources -> 0 .. MaxPartial]
             /\ positions \in [Sources -> Nat]
  BY <1>1, <1>2 DEF Init
<1>3. ASSUME Init
      PROVE  /\ Len(spoolChan) <= ChanCap
             /\ Len(spool) < SpoolSize /\ Len(tmpCopy) <= SpoolSize
             /\ Len(publisherChan) <= BatchChanCap
             /\ Len(registrarChan) <= BatchChanCap
  <2>1. 0 <= BatchChanCap
    BY DEF BatchChanCap
  <2>2. QED BY <1>1, <1>3, <2>1, NoEvents DEF Init
<1>4. ASSUME Init
      PROVE  output \in Seq(MapStr) /\ published \in Seq(Event)
  BY <1>4, NoEvents, EmptySeq DEF Init
<1>5. QED
  BY <1>2, <1>3, <1>4, NoEvents DEF Init, TypeOK

\* What the output accepts or refuses is well typed.
LEMMA PublishType ==
  ASSUME TypeOK, PublishBatch
  PROVE  /\ output' \in Seq(MapStr) /\ published' \in Seq(Event)
         /\ givenUp' \subseteq Sources \X (0 .. MaxLines - 1) \X Reasons
<1>1. /\ output \in Seq(MapStr) /\ published \in Seq(Event) /\ batch \in Seq(Event)
      /\ givenUp \subseteq Sources \X (0 .. MaxLines - 1) \X Reasons
  BY DEF TypeOK
<1>2. CASE Accepted(batch)
  <2>1. [k \in DOMAIN batch |-> ToMapStr(batch[k])] \in Seq(MapStr)
    <3>1. Len(batch) \in Nat /\ DOMAIN batch = 1 .. Len(batch)
      BY <1>1, LenProperties
    <3>2. \A k \in DOMAIN batch : ToMapStr(batch[k]) \in MapStr
      BY DEF ToMapStr, MapStr
    <3>3. [k \in DOMAIN batch |-> ToMapStr(batch[k])] \in [1 .. Len(batch) -> MapStr]
      BY <3>1, <3>2
    <3>4. QED BY <3>1, <3>3, SeqDef
  <2>2. /\ output \o [k \in DOMAIN batch |-> ToMapStr(batch[k])] \in Seq(MapStr)
        /\ published \o batch \in Seq(Event)
    BY <1>1, <2>1, ConcatProperties
  <2>3. QED BY <1>1, <1>2, <2>2 DEF Accepted
<1>3. CASE Refused(batch)
  <2>1. \A k \in DOMAIN batch : batch[k] \in Event
    BY <1>1, ElementOfSeq, LenProperties
  <2>2. \A k \in DOMAIN batch :
          <<batch[k].source, batch[k].offset, "refused">>
            \in Sources \X (0 .. MaxLines - 1) \X Reasons
    BY <2>1 DEF Event, Reasons
  <2>3. QED BY <1>1, <1>3, <2>2 DEF Refused
<1>4. QED BY <1>2, <1>3 DEF PublishBatch

\* A harvester's step sends one event.
LEMMA ShipSends ==
  ASSUME TypeOK, NEW s \in Sources, Ship(s)
  PROVE  \E e \in Event : Send(e)
<1>1. offset[s] \in 0 .. MaxLines - 1
  BY PipelineAssumption DEF Ship, ShipLine, ShipPartial, TypeOK
<1>2. \A b \in BOOLEAN :
        [source |-> s, offset |-> offset[s], isPartial |-> b] \in Event
  BY <1>1 DEF Event
<1>3. QED BY <1>2 DEF Ship, ShipLine, ShipPartial

\* Every step preserves TypeOK.
LEMMA TypeNext == TypeOK /\ [Next]_vars => TypeOK'
<1> SUFFICES ASSUME TypeOK, [Next]_vars
             PROVE  TypeOK'
  OBVIOUS
<1> USE PipelineAssumption
<1>1. ASSUME NEW s \in Sources, Ship(s)
      PROVE  TypeOK'
  <2>1. PICK e \in Event : Send(e)
    BY <1>1, ShipSends
  <2>2. /\ offset' \in [Sources -> 0 .. MaxLines]
        /\ lastPartialLen' \in [Sources -> 0 .. MaxPartial]
    <3>1. CASE ShipLine(s)
      <4>1. 0 \in 0 .. MaxPartial
        OBVIOUS
      <4>2. offset[s] + 1 \in 0 .. MaxLines
        BY <3>1 DEF ShipLine, TypeOK
      <4>3. QED BY <3>1, <4>1, <4>2 DEF ShipLine, TypeOK
    <3>2. CASE ShipPartial(s)
      <4>1. lastPartialLen[s] + 1 \in 0 .. MaxPartial
        BY <3>2 DEF ShipPartial, TypeOK
      <4>2. QED BY <3>2, <4>1 DEF ShipPartial, TypeOK
    <3>3. QED BY <1>1, <3>1, <3>2 DEF Ship
  <2>3. /\ spoolChan' \in Seq(Event) /\ Len(spoolChan') <= ChanCap
        /\ shipped' \in Seq(Event)
    BY <2>1, AppendProperties, LenProperties DEF Send, TypeOK
  <2>4. QED
    BY <1>1, <2>2, <2>3
    DEF Ship, TypeOK, spoolerVars, harvesterVars, publisherVars, outputVars, registrarVars
<1>2. ASSUME SpoolEvent
      PROVE  TypeOK'
  <2> DEFINE grown == Append(spool, Head(spoolChan))
  <2>1. /\ Head(spoolChan) \in Event
        /\ spoolChan' \in Seq(Event)
        /\ Len(spoolChan') <= ChanCap
    BY <1>2, HeadTailProperties, LenProperties DEF SpoolEvent, TypeOK
  <2>2. grown \in Seq(Event) /\ Len(grown) = Len(spool) + 1
    BY <2>1, AppendProperties DEF TypeOK
  <2>3. Len(spool) \in Nat /\ Len(spool) < SpoolSize
    BY LenProperties DEF TypeOK
  <2>4. /\ spool' \in Seq(Event) /\ Len(spool') < SpoolSize
        /\ tmpCopy' \in Seq(Event) /\ Len(tmpCopy') <= SpoolSize
    <3>1. CASE SpoolFull(grown)
      <4>1. spool' = <<>> /\ tmpCopy' = grown
        BY <1>2, <3>1 DEF SpoolEvent, BeginFlush
      <4>2. QED BY <2>2, <3>1, <4>1, NoEvents DEF SpoolFull
    <3>2. CASE ~ SpoolFull(grown)
      <4>1. spool' = grown /\ tmpCopy' = tmpCopy
        BY <1>2, <3>2 DEF SpoolEvent
      <4>2. Len(grown) < SpoolSize
        BY <2>2, <2>3, <3>2 DEF SpoolFull
      <4>3. QED BY <2>2, <4>1, <4>2 DEF TypeOK
    <3>3. QED BY <3>1, <3>2
  <2>5. QED
    BY <1>2, <2>1, <2>4
    DEF SpoolEvent, TypeOK, harvesterVars, publisherVars, outputVars, registrarVars
<1>3. ASSUME HandleTick
      PROVE  TypeOK'
  <2>1. /\ spool' \in Seq(Event) /\ Len(spool') < SpoolSize
        /\ tmpCopy' \in Seq(Event) /\ Len(tmpCopy') <= SpoolSize
        /\ tick' \in BOOLEAN /\ overdue' \in BOOLEAN
    <3>1. CASE overdue /\ spool # <<>>
      <4>1. spool' = <<>> /\ tmpCopy' = spool
        BY <1>3, <3>1 DEF HandleTick, BeginFlush
      <4>2. Len(spool) <= SpoolSize
        BY LenProperties DEF TypeOK
      <4>3. tick' = FALSE /\ overdue' = overdue
        BY <1>3, <3>1 DEF HandleTick
      <4>4. /\ spool' \in Seq(Event) /\ Len(spool') < SpoolSize
            /\ tmpCopy' \in Seq(Event) /\ Len(tmpCopy') <= SpoolSize
        BY <4>1, <4>2, NoEvents DEF TypeOK
      <4>5. QED BY <4>3, <4>4 DEF TypeOK
    <3>2. CASE ~ (overdue /\ spool # <<>>)
      BY <1>3, <3>2 DEF HandleTick, TypeOK
    <3>3. QED BY <3>1, <3>2
  <2>2. QED
    BY <1>3, <2>1
    DEF HandleTick, TypeOK, harvesterVars, publisherVars, outputVars, registrarVars
<1>4. ASSUME FlushSend
      PROVE  TypeOK'
  <2>1. /\ publisherChan' \in Seq(Seq(Event))
        /\ Len(publisherChan') <= BatchChanCap
    BY <1>4, HeldProperties DEF FlushSend, TypeOK
  <2>2. tmpCopy' \in Seq(Event) /\ Len(tmpCopy') <= SpoolSize
    BY <1>4, EmptySeq DEF FlushSend
  <2>3. QED
    BY <1>4, <2>1, <2>2
    DEF FlushSend, TypeOK, harvesterVars, publisherVars, outputVars, registrarVars
<1>5. ASSUME Clock
      PROVE  TypeOK'
  BY <1>5
  DEF Clock, TickerFires, IdleTimeoutPasses, TypeOK, harvesterVars,
      publisherVars, outputVars, registrarVars
<1>6. ASSUME StartPublish
      PROVE  TypeOK'
  BY <1>6
  DEF StartPublish, TypeOK, harvesterVars, spoolerVars, outputVars, registrarVars
<1>7. ASSUME ReceiveBatch
      PROVE  TypeOK'
  <2>1. /\ batch' \in Seq(Event)
        /\ publisherChan' \in Seq(Seq(Event))
        /\ Len(publisherChan') <= BatchChanCap
    BY <1>7, HeldProperties DEF ReceiveBatch, TypeOK
  <2>2. QED
    BY <1>7, <2>1
    DEF ReceiveBatch, TypeOK, harvesterVars, spoolerVars, outputVars, registrarVars
<1>8. ASSUME PublishBatch
      PROVE  TypeOK'
  <2>1. /\ output' \in Seq(MapStr) /\ published' \in Seq(Event)
        /\ givenUp' \subseteq Sources \X (0 .. MaxLines - 1) \X Reasons
    BY <1>8, PublishType
  <2>2. QED
    BY <1>8, <2>1
    DEF PublishBatch, TypeOK, harvesterVars, spoolerVars, registrarVars
<1>9. ASSUME AckBatch
      PROVE  TypeOK'
  <2>1. /\ registrarChan' \in Seq(Seq(Event))
        /\ Len(registrarChan') <= BatchChanCap
        /\ batch' \in Seq(Event)
    BY <1>9, HeldProperties, EmptySeq DEF AckBatch, TypeOK
  <2>2. QED
    BY <1>9, <2>1
    DEF AckBatch, TypeOK, harvesterVars, spoolerVars, outputVars, registrarVars
<1>10. ASSUME RecordBatch
       PROVE  TypeOK'
  <2>1. /\ Head(registrarChan) \in Seq(Event)
        /\ registrarChan' \in Seq(Seq(Event))
        /\ Len(registrarChan') <= BatchChanCap
    BY <1>10, HeldProperties DEF RecordBatch, TypeOK
  <2>2. positions' \in [Sources -> Nat]
    BY <1>10, <2>1, PositionAfterType DEF RecordBatch
  <2>3. acked' \in Seq(Event)
    BY <1>10, <2>1, ConcatProperties DEF RecordBatch, TypeOK
  <2>4. QED
    BY <1>10, <2>1, <2>2, <2>3
    DEF RecordBatch, TypeOK, harvesterVars, spoolerVars, publisherVars, outputVars
<1>11. CASE UNCHANGED vars
  BY <1>11
  DEF vars, TypeOK, spoolerVars, harvesterVars, publisherVars, outputVars, registrarVars
<1>12. QED
  BY <1>1, <1>2, <1>3, <1>4, <1>5, <1>6, <1>7, <1>8, <1>9, <1>10, <1>11
  DEF Next, Spooler, Publisher

\* Every reachable state is well typed: no channel of the code overflows, and
\* the spool is below its capacity at the spooler's select: it is flushed at the
\* event that fills it (spooler.go:99-106).
THEOREM TypeCorrect == SafeSpec => []TypeOK
BY TypeInit, TypeNext, PTL DEF SafeSpec

-----------------------------------------------------------------------------
(* Nothing is lost, duplicated or reordered.  NothingLost is inductive only  *)
(* together with what Publish holds between its steps.                       *)

\* Publish holds a batch only between its receive and its send.
PublisherIdle == publisherPc \in {"off", "receive"} => batch = <<>>

\* No batch is larger than the spool.
BatchesFit == /\ Len(Held(registrarChan)) <= SpoolSize
              /\ Len(batch) <= SpoolSize
              /\ Len(Held(publisherChan)) <= SpoolSize

\* While flush holds its copy, the spool it copied is empty.
OneCopy == tmpCopy = <<>> \/ spool = <<>>

PipelineInv == /\ TypeOK
               /\ PublisherIdle
               /\ BatchesFit
               /\ OneCopy
               /\ NothingLost

\* The stages from the registrar down to the one named, and their types.
ToRegistrar == acked \o Held(registrarChan)
ToPublisher == ToRegistrar \o batch
ToPublisherChan == ToPublisher \o Held(publisherChan)
ToFlush == ToPublisherChan \o tmpCopy
ToSpool == ToFlush \o spool

LEMMA StagesType ==
  ASSUME TypeOK
  PROVE  /\ Held(registrarChan) \in Seq(Event)
         /\ Held(publisherChan) \in Seq(Event)
         /\ ToRegistrar \in Seq(Event)
         /\ ToPublisher \in Seq(Event)
         /\ ToPublisherChan \in Seq(Event)
         /\ ToFlush \in Seq(Event)
         /\ ToSpool \in Seq(Event)
<1>1. /\ Held(registrarChan) \in Seq(Event)
      /\ Held(publisherChan) \in Seq(Event)
  BY HeldProperties DEF TypeOK
<1>2. ToRegistrar \in Seq(Event)
  BY <1>1, ConcatProperties DEF ToRegistrar, TypeOK
<1>3. ToPublisher \in Seq(Event)
  BY <1>2, ConcatProperties DEF ToPublisher, TypeOK
<1>4. ToPublisherChan \in Seq(Event)
  BY <1>1, <1>3, ConcatProperties DEF ToPublisherChan
<1>5. ToFlush \in Seq(Event)
  BY <1>4, ConcatProperties DEF ToFlush, TypeOK
<1>6. ToSpool \in Seq(Event)
  BY <1>5, ConcatProperties DEF ToSpool, TypeOK
<1>7. QED BY <1>1, <1>2, <1>3, <1>4, <1>5, <1>6

LEMMA NothingLostByStages == NothingLost <=> shipped = ToSpool \o spoolChan
BY DEF NothingLost, ToSpool, ToFlush, ToPublisherChan, ToPublisher, ToRegistrar

LEMMA InvInit == Init => PipelineInv
<1> SUFFICES ASSUME Init
             PROVE  PipelineInv
  OBVIOUS
<1>1. TypeOK
  BY TypeInit
<1>2. PublisherIdle
  BY DEF Init, PublisherIdle
<1>3. Held(<<>>) = <<>>
  BY DEF Held
<1>4. BatchesFit
  BY <1>3, NoEvents, PipelineAssumption DEF Init, BatchesFit
<1>5. <<>> \o <<>> = <<>>
  BY NoEvents, ConcatEmptySeq
<1>6. NothingLost
  BY <1>3, <1>5 DEF Init, NothingLost
<1>7. OneCopy
  BY DEF Init, OneCopy
<1>8. QED BY <1>1, <1>2, <1>4, <1>6, <1>7 DEF PipelineInv

\* Every step preserves the shape of what the publisher holds.
LEMMA BatchesNext ==
  PipelineInv /\ [Next]_vars => PublisherIdle' /\ BatchesFit'
<1> SUFFICES ASSUME PipelineInv, [Next]_vars
             PROVE  PublisherIdle' /\ BatchesFit'
  OBVIOUS
<1> USE PipelineAssumption
<1>1. TypeOK /\ PublisherIdle /\ BatchesFit
  BY DEF PipelineInv
<1>2. ASSUME UNCHANGED <<registrarChan, batch, publisherChan>>,
             \/ UNCHANGED publisherPc
             \/ publisherPc = "publish" /\ publisherPc' = "ack"
             \/ publisherPc = "off" /\ publisherPc' = "receive"
      PROVE  PublisherIdle' /\ BatchesFit'
  BY <1>1, <1>2 DEF PublisherIdle, BatchesFit, Held
<1>3. CASE \/ \E s \in Sources : Ship(s)
           \/ SpoolEvent \/ HandleTick \/ Clock
           \/ StartPublish \/ PublishBatch
           \/ UNCHANGED vars
  <2>1. /\ UNCHANGED <<registrarChan, batch, publisherChan>>
        /\ \/ UNCHANGED publisherPc
           \/ publisherPc = "publish" /\ publisherPc' = "ack"
           \/ publisherPc = "off" /\ publisherPc' = "receive"
    BY <1>3
    DEF Ship, SpoolEvent, HandleTick, Clock, TickerFires, IdleTimeoutPasses,
        StartPublish, PublishBatch, vars, harvesterVars, publisherVars
  <2>2. QED BY <1>2, <2>1
<1>4. CASE FlushSend
  <2>1. UNCHANGED <<registrarChan, batch, publisherPc>>
    BY <1>4 DEF FlushSend, harvesterVars, publisherVars
  <2>2. Held(publisherChan') = tmpCopy
    BY <1>1, <1>4, HeldProperties DEF FlushSend, TypeOK
  <2>3. QED
    BY <1>1, <2>1, <2>2 DEF PublisherIdle, BatchesFit, Held, TypeOK
<1>5. CASE ReceiveBatch
  <2>1. /\ registrarChan' = registrarChan
        /\ publisherPc' = "publish"
        /\ batch' = Held(publisherChan)
        /\ Held(publisherChan') = <<>>
    BY <1>1, <1>5, HeldProperties DEF ReceiveBatch, TypeOK
  <2>2. PublisherIdle'
    BY <2>1 DEF PublisherIdle
  <2>3. BatchesFit'
    <3>1. Held(registrarChan)' = Held(registrarChan)
      BY <2>1 DEF Held
    <3>2. QED BY <1>1, <2>1, <3>1, NoEvents DEF BatchesFit
  <2>4. QED BY <2>2, <2>3
<1>6. CASE AckBatch
  <2>1. /\ publisherChan' = publisherChan
        /\ batch' = <<>>
        /\ Held(registrarChan') = batch
    BY <1>1, <1>6, HeldProperties DEF AckBatch, TypeOK
  <2>2. Held(publisherChan)' = Held(publisherChan)
    BY <2>1 DEF Held
  <2>3. QED BY <1>1, <2>1, <2>2, NoEvents DEF PublisherIdle, BatchesFit
<1>7. CASE RecordBatch
  <2>1. /\ UNCHANGED <<publisherChan, batch, publisherPc>>
        /\ Held(registrarChan') = <<>>
    BY <1>1, <1>7, HeldProperties
    DEF RecordBatch, TypeOK, harvesterVars, publisherVars
  <2>2. Held(publisherChan)' = Held(publisherChan)
    BY <2>1 DEF Held
  <2>3. QED BY <1>1, <2>1, <2>2, NoEvents DEF PublisherIdle, BatchesFit
<1>8. QED
  BY <1>3, <1>4, <1>5, <1>6, <1>7 DEF Next, Spooler, Publisher

\* Every step preserves OneCopy.
LEMMA OneCopyNext == PipelineInv /\ [Next]_vars => OneCopy'
<1> SUFFICES ASSUME PipelineInv, [Next]_vars
             PROVE  OneCopy'
  OBVIOUS
<1>1. OneCopy
  BY DEF PipelineInv
<1>2. CASE SpoolEvent
  BY <1>2 DEF SpoolEvent, BeginFlush, Selecting, OneCopy
<1>3. CASE HandleTick
  BY <1>3 DEF HandleTick, BeginFlush, Selecting, OneCopy
<1>4. CASE FlushSend
  BY <1>4 DEF FlushSend, OneCopy
<1>5. CASE \/ \E s \in Sources : Ship(s)
           \/ Clock \/ Publisher \/ RecordBatch
           \/ UNCHANGED vars
  BY <1>1, <1>5
  DEF Ship, Clock, TickerFires, IdleTimeoutPasses, Publisher, StartPublish,
      ReceiveBatch, PublishBatch, AckBatch, RecordBatch, vars, harvesterVars,
      spoolerVars,
      OneCopy
<1>6. QED BY <1>2, <1>3, <1>4, <1>5 DEF Next, Spooler

\* Every step preserves NothingLost: a step moves events from one stage to the
\* next, or appends one to both ends.
LEMMA NothingLostNext ==
  PipelineInv /\ [Next]_vars => NothingLost'
<1> SUFFICES ASSUME PipelineInv, [Next]_vars
             PROVE  NothingLost'
  OBVIOUS
<1>1. TypeOK /\ PublisherIdle /\ shipped = ToSpool \o spoolChan
  BY NothingLostByStages DEF PipelineInv
<1>2. SUFFICES shipped' = ToSpool' \o spoolChan'
  BY DEF NothingLost, ToSpool, ToFlush, ToPublisherChan, ToPublisher,
         ToRegistrar
<1>3. ASSUME NEW s \in Sources, Ship(s)
      PROVE  shipped' = ToSpool' \o spoolChan'
  <2>1. PICK e \in Event : Send(e)
    BY <1>1, <1>3, ShipSends
  <2>2. /\ shipped' = Append(shipped, e)
        /\ spoolChan' = Append(spoolChan, e)
        /\ UNCHANGED <<acked, registrarChan, batch, publisherChan, tmpCopy,
                       spool>>
    BY <1>3, <2>1
    DEF Ship, Send, spoolerVars, harvesterVars, publisherVars, registrarVars
  <2>3. ToSpool' = ToSpool
    BY <2>2
    DEF ToSpool, ToFlush, ToPublisherChan, ToPublisher, ToRegistrar, Held
  <2>4. ToSpool \o Append(spoolChan, e) = Append(ToSpool \o spoolChan, e)
    <3>1. ToSpool \in Seq(Event) /\ spoolChan \in Seq(Event)
      BY <1>1, StagesType DEF TypeOK
    <3>2. QED BY <3>1, ConcatAppend
  <2>5. QED BY <1>1, <2>2, <2>3, <2>4
<1>4. ASSUME SpoolEvent
      PROVE  shipped' = ToSpool' \o spoolChan'
  <2> DEFINE h == Head(spoolChan)
             grown == Append(spool, h)
  <2>1. /\ tmpCopy = <<>> /\ spoolChan # <<>>
        /\ spoolChan' = Tail(spoolChan)
        /\ UNCHANGED <<shipped, acked, registrarChan, batch, publisherChan>>
    BY <1>4
    DEF SpoolEvent, Selecting, harvesterVars, publisherVars, registrarVars
  <2>2. h \in Event /\ grown \in Seq(Event)
    BY <1>1, <2>1, HeadTailProperties, AppendProperties DEF TypeOK
  <2>3. ToPublisherChan' = ToPublisherChan
    BY <2>1 DEF ToPublisherChan, ToPublisher, ToRegistrar, Held
  <2>4. ToFlush = ToPublisherChan
    BY <1>1, <2>1, StagesType, ConcatEmptySeq DEF ToFlush
  <2>5. ToSpool' = ToPublisherChan \o grown
    <3>1. CASE SpoolFull(grown)
      <4>1. tmpCopy' = grown /\ spool' = <<>>
        BY <1>4, <3>1 DEF SpoolEvent, BeginFlush
      <4>2. ToPublisherChan \o grown \in Seq(Event)
        BY <1>1, <2>2, StagesType, ConcatProperties
      <4>3. (ToPublisherChan \o grown) \o <<>> = ToPublisherChan \o grown
        BY <4>2, ConcatEmptySeq
      <4>4. QED BY <2>3, <4>1, <4>3 DEF ToSpool, ToFlush
    <3>2. CASE ~ SpoolFull(grown)
      <4>1. tmpCopy' = tmpCopy /\ spool' = grown
        BY <1>4, <3>2 DEF SpoolEvent
      <4>2. ToFlush' = ToFlush
        BY <2>3, <4>1 DEF ToFlush
      <4>3. QED BY <2>4, <4>1, <4>2 DEF ToSpool
    <3>3. QED BY <3>1, <3>2
  <2>6. ToPublisherChan \o grown = Append(ToSpool, h)
    <3>1. ToFlush \in Seq(Event) /\ spool \in Seq(Event)
      BY <1>1, StagesType DEF TypeOK
    <3> HIDE DEF h
    <3>2. ToFlush \o grown = Append(ToFlush \o spool, h)
      BY <2>2, <3>1, ConcatAppend
    <3>3. QED BY <2>4, <3>2 DEF ToSpool
  <2>7. Append(ToSpool, h) \o Tail(spoolChan) = ToSpool \o spoolChan
    BY <1>1, <2>1, StagesType, MoveHead DEF TypeOK
  <2>8. QED BY <1>1, <2>1, <2>5, <2>6, <2>7
<1>5. ASSUME HandleTick
      PROVE  shipped' = ToSpool' \o spoolChan'
  <2>1. /\ tmpCopy = <<>>
        /\ UNCHANGED <<shipped, acked, registrarChan, batch, publisherChan,
                       spoolChan>>
    BY <1>5
    DEF HandleTick, Selecting, harvesterVars, publisherVars, registrarVars
  <2>2. ToPublisherChan' = ToPublisherChan
    BY <2>1 DEF ToPublisherChan, ToPublisher, ToRegistrar, Held
  <2>3. ToSpool' = ToSpool
    <3>1. CASE tmpCopy' = spool /\ spool' = <<>>
      <4>1. (ToPublisherChan \o <<>>) \o spool
              = (ToPublisherChan \o spool) \o <<>>
        BY <1>1, StagesType, PassOn DEF TypeOK
      <4>2. QED BY <2>1, <2>2, <3>1, <4>1 DEF ToSpool, ToFlush
    <3>2. CASE UNCHANGED <<spool, tmpCopy>>
      BY <2>2, <3>2 DEF ToSpool, ToFlush
    <3>3. QED BY <1>5, <3>1, <3>2 DEF HandleTick, BeginFlush
  <2>4. QED BY <1>1, <2>1, <2>3
<1>6. ASSUME FlushSend
      PROVE  shipped' = ToSpool' \o spoolChan'
  <2>1. UNCHANGED <<shipped, acked, registrarChan, batch, spool, spoolChan>>
    BY <1>6 DEF FlushSend, harvesterVars, publisherVars, registrarVars
  <2>2. /\ Held(publisherChan) = <<>>
        /\ Held(publisherChan') = tmpCopy
        /\ tmpCopy' = <<>>
    BY <1>1, <1>6, HeldProperties DEF FlushSend, TypeOK
  <2>3. ToPublisher' = ToPublisher
    BY <2>1 DEF ToPublisher, ToRegistrar, Held
  <2>4. (ToPublisher \o <<>>) \o tmpCopy = (ToPublisher \o tmpCopy) \o <<>>
    BY <1>1, StagesType, PassOn DEF TypeOK
  <2>5. ToFlush' = ToFlush
    BY <2>2, <2>3, <2>4 DEF ToFlush, ToPublisherChan
  <2>6. QED BY <1>1, <2>1, <2>5 DEF ToSpool
<1>7. ASSUME ReceiveBatch
      PROVE  shipped' = ToSpool' \o spoolChan'
  <2>1. UNCHANGED <<shipped, acked, registrarChan, tmpCopy, spool, spoolChan>>
    BY <1>7 DEF ReceiveBatch, harvesterVars, spoolerVars, registrarVars
  <2>2. /\ batch = <<>>
        /\ batch' = Held(publisherChan)
        /\ Held(publisherChan') = <<>>
    BY <1>1, <1>7, HeldProperties DEF ReceiveBatch, PublisherIdle, TypeOK
  <2>3. ToRegistrar' = ToRegistrar
    BY <2>1 DEF ToRegistrar, Held
  <2>4. (ToRegistrar \o <<>>) \o Held(publisherChan)
          = (ToRegistrar \o Held(publisherChan)) \o <<>>
    BY <1>1, StagesType, PassOn
  <2>5. ToPublisherChan' = ToPublisherChan
    BY <2>2, <2>3, <2>4 DEF ToPublisherChan, ToPublisher
  <2>6. QED BY <1>1, <2>1, <2>5 DEF ToSpool, ToFlush
<1>8. ASSUME AckBatch
      PROVE  shipped' = ToSpool' \o spoolChan'
  <2>1. UNCHANGED <<shipped, acked, publisherChan, tmpCopy, spool, spoolChan>>
    BY <1>8 DEF AckBatch, harvesterVars, spoolerVars, registrarVars
  <2>2. /\ Held(registrarChan) = <<>>
        /\ Held(registrarChan') = batch
        /\ batch' = <<>>
    BY <1>1, <1>8, HeldProperties DEF AckBatch, TypeOK
  <2>3. (acked \o <<>>) \o batch = (acked \o batch) \o <<>>
    BY <1>1, PassOn DEF TypeOK
  <2>4. ToPublisher' = ToPublisher
    BY <2>1, <2>2, <2>3 DEF ToPublisher, ToRegistrar
  <2>5. Held(publisherChan)' = Held(publisherChan)
    BY <2>1 DEF Held
  <2>6. QED
    BY <1>1, <2>1, <2>4, <2>5 DEF ToSpool, ToFlush, ToPublisherChan
<1>9. ASSUME RecordBatch
      PROVE  shipped' = ToSpool' \o spoolChan'
  <2>1. UNCHANGED <<shipped, batch, publisherChan, tmpCopy, spool, spoolChan>>
    BY <1>9 DEF RecordBatch, harvesterVars, spoolerVars, publisherVars
  <2>2. /\ acked' = acked \o Held(registrarChan)
        /\ Held(registrarChan') = <<>>
    BY <1>1, <1>9, HeldProperties DEF RecordBatch, TypeOK
  <2>3. ToRegistrar' = ToRegistrar
    BY <1>1, <2>2, StagesType, ConcatEmptySeq DEF ToRegistrar
  <2>4. Held(publisherChan)' = Held(publisherChan)
    BY <2>1 DEF Held
  <2>5. QED
    BY <1>1, <2>1, <2>3, <2>4
    DEF ToSpool, ToFlush, ToPublisherChan, ToPublisher
<1>10. CASE Clock \/ StartPublish \/ PublishBatch \/ UNCHANGED vars
  <2>1. UNCHANGED <<shipped, acked, registrarChan, batch, publisherChan,
                    tmpCopy, spool, spoolChan>>
    BY <1>10
    DEF Clock, TickerFires, IdleTimeoutPasses, StartPublish, PublishBatch,
        vars, spoolerVars, harvesterVars, publisherVars, registrarVars
  <2>2. ToSpool' = ToSpool
    BY <2>1
    DEF ToSpool, ToFlush, ToPublisherChan, ToPublisher, ToRegistrar, Held
  <2>3. QED BY <1>1, <2>1, <2>2
<1>11. QED
  BY <1>3, <1>4, <1>5, <1>6, <1>7, <1>8, <1>9, <1>10
  DEF Next, Spooler, Publisher

LEMMA InvNext == PipelineInv /\ [Next]_vars => PipelineInv'
BY TypeNext, BatchesNext, OneCopyNext, NothingLostNext DEF PipelineInv

LEMMA InvHolds == SafeSpec => []PipelineInv
BY InvInit, InvNext, PTL DEF SafeSpec

\* Whatever the sizes and the interleaving, the pipeline between the
\* harvesters and the registrar loses, duplicates and reorders no event.
THEOREM PipelineLosesNothing == SafeSpec => []NothingLost
<1>1. PipelineInv => NothingLost
  BY DEF PipelineInv
<1>2. QED BY <1>1, InvHolds, PTL

-----------------------------------------------------------------------------
(* The pipeline implements EventQueue. *)

\* How many events are accepted and not acknowledged.
LEMMA BacklogLength ==
  ASSUME PipelineInv
  PROVE  /\ Len(shipped) - Len(acked) <= Len(spoolChan) + 4 * SpoolSize
         /\ Len(shipped) \in Nat /\ Len(acked) \in Nat
         /\ Len(spoolChan) \in Nat
<1>1. TypeOK /\ BatchesFit /\ OneCopy /\ shipped = ToSpool \o spoolChan
  BY NothingLostByStages DEF PipelineInv
<1>2. /\ Len(ToRegistrar) = Len(acked) + Len(Held(registrarChan))
      /\ Len(ToPublisher) = Len(ToRegistrar) + Len(batch)
      /\ Len(ToPublisherChan) = Len(ToPublisher) + Len(Held(publisherChan))
      /\ Len(ToFlush) = Len(ToPublisherChan) + Len(tmpCopy)
      /\ Len(ToSpool) = Len(ToFlush) + Len(spool)
      /\ Len(shipped) = Len(ToSpool) + Len(spoolChan)
  BY <1>1, StagesType, ConcatProperties
  DEF TypeOK, ToRegistrar, ToPublisher, ToPublisherChan, ToFlush, ToSpool
<1>3. /\ Len(acked) \in Nat /\ Len(Held(registrarChan)) \in Nat
      /\ Len(batch) \in Nat /\ Len(Held(publisherChan)) \in Nat
      /\ Len(tmpCopy) \in Nat /\ Len(spool) \in Nat
      /\ Len(spoolChan) \in Nat
  BY <1>1, StagesType, LenProperties DEF TypeOK
<1>4. Len(tmpCopy) + Len(spool) <= SpoolSize
  BY <1>1, <1>3, NoEvents, PipelineAssumption DEF TypeOK, OneCopy
<1>5. /\ Len(Held(registrarChan)) <= SpoolSize
      /\ Len(batch) <= SpoolSize
      /\ Len(Held(publisherChan)) <= SpoolSize
      /\ SpoolSize \in Nat
  BY <1>1, PipelineAssumption DEF BatchesFit
<1>6. QED BY <1>2, <1>3, <1>4, <1>5

\* What a longer queue starts with.
LEMMA PrefixOfConcat ==
  ASSUME NEW S, NEW s \in Seq(S), NEW t \in Seq(S), NEW n \in 1 .. Len(s)
  PROVE  SubSeq(s \o t, 1, n) = SubSeq(s, 1, n)
<1>1. 1 \in 1 .. Len(s)
  BY LenProperties
<1>2. QED BY <1>1, SubSeqOfConcat1

\* What the registrar has received is a prefix of what was sent, also after
\* it takes the batch in its channel.
LEMMA RegistrarPrefix ==
  ASSUME PipelineInv, ToRegistrar # <<>>
  PROVE  /\ Len(ToRegistrar) \in 1 .. Len(shipped)
         /\ ToRegistrar = SubSeq(shipped, 1, Len(ToRegistrar))
<1> DEFINE n == Len(ToRegistrar)
<1>1. TypeOK /\ shipped = ToSpool \o spoolChan
  BY NothingLostByStages DEF PipelineInv
<1>2. /\ Len(ToPublisher) = n + Len(batch)
      /\ Len(ToPublisherChan) = Len(ToPublisher) + Len(Held(publisherChan))
      /\ Len(ToFlush) = Len(ToPublisherChan) + Len(tmpCopy)
      /\ Len(ToSpool) = Len(ToFlush) + Len(spool)
      /\ Len(shipped) = Len(ToSpool) + Len(spoolChan)
  BY <1>1, StagesType, ConcatProperties
  DEF TypeOK, ToPublisher, ToPublisherChan, ToFlush, ToSpool
<1>3. /\ n \in Nat \ {0}
      /\ Len(batch) \in Nat /\ Len(Held(publisherChan)) \in Nat
      /\ Len(tmpCopy) \in Nat /\ Len(spool) \in Nat
      /\ Len(spoolChan) \in Nat
  BY <1>1, StagesType, LenProperties, EmptySeq DEF TypeOK
<1>4. /\ n \in 1 .. Len(ToRegistrar) /\ n \in 1 .. Len(ToPublisher)
      /\ n \in 1 .. Len(ToPublisherChan) /\ n \in 1 .. Len(ToFlush)
      /\ n \in 1 .. Len(ToSpool) /\ n \in 1 .. Len(shipped)
  BY <1>2, <1>3
<1>5. /\ ToPublisher = ToRegistrar \o batch
      /\ ToPublisherChan = ToPublisher \o Held(publisherChan)
      /\ ToFlush = ToPublisherChan \o tmpCopy
      /\ ToSpool = ToFlush \o spool
  BY DEF ToPublisher, ToPublisherChan, ToFlush, ToSpool
<1>6. /\ batch \in Seq(Event) /\ tmpCopy \in Seq(Event)
      /\ spool \in Seq(Event) /\ spoolChan \in Seq(Event)
  BY <1>1 DEF TypeOK
<1> HIDE DEF n
<1>7. /\ SubSeq(ToPublisher, 1, n) = SubSeq(ToRegistrar, 1, n)
      /\ SubSeq(ToPublisherChan, 1, n) = SubSeq(ToPublisher, 1, n)
      /\ SubSeq(ToFlush, 1, n) = SubSeq(ToPublisherChan, 1, n)
      /\ SubSeq(ToSpool, 1, n) = SubSeq(ToFlush, 1, n)
      /\ SubSeq(shipped, 1, n) = SubSeq(ToSpool, 1, n)
  <2>1. /\ ToRegistrar \in Seq(Event) /\ Held(publisherChan) \in Seq(Event)
        /\ ToPublisher \in Seq(Event) /\ ToPublisherChan \in Seq(Event)
        /\ ToFlush \in Seq(Event) /\ ToSpool \in Seq(Event)
    BY <1>1, StagesType
  <2>2. SubSeq(ToPublisher, 1, n) = SubSeq(ToRegistrar, 1, n)
    BY <1>4, <1>5, <1>6, <2>1, PrefixOfConcat
  <2>3. SubSeq(ToPublisherChan, 1, n) = SubSeq(ToPublisher, 1, n)
    BY <1>4, <1>5, <2>1, PrefixOfConcat
  <2>4. SubSeq(ToFlush, 1, n) = SubSeq(ToPublisherChan, 1, n)
    BY <1>4, <1>5, <1>6, <2>1, PrefixOfConcat
  <2>5. SubSeq(ToSpool, 1, n) = SubSeq(ToFlush, 1, n)
    BY <1>4, <1>5, <1>6, <2>1, PrefixOfConcat
  <2>6. SubSeq(shipped, 1, n) = SubSeq(ToSpool, 1, n)
    BY <1>1, <1>4, <1>6, <2>1, PrefixOfConcat
  <2>7. QED BY <2>2, <2>3, <2>4, <2>5, <2>6
<1>8. SubSeq(ToRegistrar, 1, n) = ToRegistrar
  BY <1>1, StagesType, SubSeqFull DEF n
<1>9. QED BY <1>4, <1>7, <1>8 DEF n

\* A step that accepts an event.
LEMMA ShipAccepts ==
  ASSUME PipelineInv, NEW s \in Sources, Ship(s)
  PROVE  Queue!Accept
<1>1. PICK e \in Event : Send(e)
  BY ShipSends DEF PipelineInv
<1>2. /\ shipped' = Append(shipped, e)
      /\ acked' = acked
      /\ Len(spoolChan) < ChanCap
  BY <1>1 DEF Ship, Send, harvesterVars, registrarVars
<1>3. Len(shipped) - Len(acked) < Backlog
  <2>1. ChanCap \in Nat /\ SpoolSize \in Nat
    BY PipelineAssumption
  <2>2. QED BY <1>2, <2>1, BacklogLength DEF Backlog
<1>4. QED BY <1>1, <1>2, <1>3 DEF Queue!Accept

\* A step of the registrar acknowledges the next events, or an empty batch.
LEMMA RecordDelivers ==
  ASSUME PipelineInv, RecordBatch
  PROVE  Queue!Deliver \/ UNCHANGED <<shipped, acked>>
<1>1. TypeOK
  BY DEF PipelineInv
<1>2. shipped' = shipped /\ acked' = ToRegistrar
  BY <1>1, HeldProperties DEF RecordBatch, ToRegistrar, harvesterVars, TypeOK
<1>3. CASE Held(registrarChan) = <<>>
  BY <1>1, <1>2, <1>3, ConcatEmptySeq DEF ToRegistrar, TypeOK
<1>4. CASE Held(registrarChan) # <<>>
  <2>1. /\ Len(ToRegistrar) = Len(acked) + Len(Held(registrarChan))
        /\ Len(Held(registrarChan)) \in Nat \ {0}
        /\ Len(acked) \in Nat
    BY <1>1, <1>4, StagesType, ConcatProperties, LenProperties, EmptySeq
    DEF ToRegistrar, TypeOK
  <2>2. ToRegistrar # <<>>
    BY <2>1, NoEvents
  <2>3. /\ Len(ToRegistrar) \in 1 .. Len(shipped)
        /\ ToRegistrar = SubSeq(shipped, 1, Len(ToRegistrar))
    BY <2>2, RegistrarPrefix
  <2>4. Len(ToRegistrar) \in Len(acked) + 1 .. Len(shipped)
    BY <2>1, <2>3, BacklogLength
  <2>5. QED BY <1>2, <2>3, <2>4 DEF Queue!Deliver
<1>5. QED BY <1>3, <1>4

\* Every step of the pipeline is a step of the queue or leaves it alone.
LEMMA StepRefines ==
  PipelineInv /\ [Next]_vars => [Queue!QNext]_(Queue!qvars)
<1> SUFFICES ASSUME PipelineInv, [Next]_vars
             PROVE  Queue!QNext \/ UNCHANGED <<shipped, acked>>
  BY DEF Queue!qvars
<1>1. ASSUME NEW s \in Sources, Ship(s)
      PROVE  Queue!QNext
  BY <1>1, ShipAccepts DEF Queue!QNext
<1>2. CASE RecordBatch
  BY <1>2, RecordDelivers DEF Queue!QNext
<1>3. CASE Spooler \/ Clock \/ Publisher \/ UNCHANGED vars
  BY <1>3
  DEF Spooler, SpoolEvent, HandleTick, FlushSend, Clock, TickerFires,
      IdleTimeoutPasses, Publisher, StartPublish, ReceiveBatch, PublishBatch,
      AckBatch, vars, harvesterVars, registrarVars
<1>4. QED BY <1>1, <1>2, <1>3 DEF Next

\* For every number of sources, every channel and spool size, the pipeline is
\* a bounded lossless queue: refinement of EventQueue under the mapping of
\* Queue.
THEOREM PipelineImplementsQueue == SafeSpec => ImplementsQueue
<1>1. Init => Queue!QInit
  BY DEF Init, Queue!QInit
<1>2. QED
  BY <1>1, StepRefines, InvHolds, PTL
  DEF SafeSpec, ImplementsQueue, Queue!QSafeSpec
=============================================================================
