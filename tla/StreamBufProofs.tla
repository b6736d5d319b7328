--------------------------- MODULE StreamBufProofs ---------------------------
(***************************************************************************)
(* Proofs about streambuf.Buffer for every buffer, any bytes and any calls.*)
(***************************************************************************)
EXTENDS StreamBufCalls, TLAPS, SequenceTheorems

BufInv == TypeOK /\ TakenOnce

LEMMA BufInvInit == Init => BufInv
<1> SUFFICES ASSUME Init  PROVE BufInv
  OBVIOUS
<1>1. PICK n \in 0 .. MaxLen, data \in [Positions -> Byte] : buf = New(SubSeq(data, 1, n))
  BY DEF Init
<1>2. /\ SubSeq(data, 1, n) \in Seq(Byte) /\ Len(SubSeq(data, 1, n)) \in Nat
  <2>1. \A i \in 1 .. n : data[i] \in Byte
    BY BufferAssumption DEF Positions
  <2>2. SubSeq(data, 1, n) = [i \in 1 .. n |-> data[i]]
    BY BufferAssumption DEF Positions
  <2>3. [i \in 1 .. n |-> data[i]] \in Seq(Byte)
    <3>1. n \in Nat /\ [i \in 1 .. n |-> data[i]] \in [1 .. n -> Byte]
      BY <2>1, BufferAssumption
    <3>2. QED BY <3>1, SeqDef
  <2>4. QED BY <2>2, <2>3, LenProperties
<1>3. QED BY <1>1, <1>2 DEF Init, BufInv, TypeOK, Marks, TakenOnce, New, Buffer

\* A call that fails changes the error only, and so does SetError.
LEMMA ErrorOnly ==
  ASSUME BufInv, NEW err \in Errors \cup {NoError}, buf' = SetError(buf, err),
         UNCHANGED <<given, skipped>>
  PROVE  BufInv'
BY DEF BufInv, TypeOK, Marks, TakenOnce, SetError, Buffer

\* The bytes passed are the next ones.
LEMMA Passed ==
  ASSUME BufInv, NEW count \in Nat, Avail(buf, count), buf' = Advance(buf, count)
  PROVE  /\ buf' \in Buffer /\ Marks'
         /\ 1 .. buf'.mark = (1 .. buf.mark) \cup (buf.mark + 1 .. buf.mark + count)
         /\ (1 .. buf.mark) \cap (buf.mark + 1 .. buf.mark + count) = {}
<1>1. /\ buf \in Buffer /\ buf.mark \in Nat /\ buf.available \in Nat /\ Len(buf.data) \in Nat
      /\ count <= buf.available /\ buf.available = Len(buf.data) - buf.mark
  BY LenProperties DEF BufInv, TypeOK, Marks, Buffer, Avail
<1>2. /\ buf'.data = buf.data /\ buf'.mark = buf.mark + count
      /\ buf'.offset = buf.mark + count /\ buf'.available = buf.available - count
      /\ buf.mark + count \in Nat /\ buf.available - count \in Nat
  BY <1>1 DEF Advance, Avail, Buffer
<1>3. buf' \in Buffer
  BY <1>1, <1>2 DEF Advance, Avail, Buffer
<1>4. Marks'
  BY <1>1, <1>2 DEF Marks
<1>5. /\ 1 .. buf'.mark = (1 .. buf.mark) \cup (buf.mark + 1 .. buf.mark + count)
      /\ (1 .. buf.mark) \cap (buf.mark + 1 .. buf.mark + count) = {}
  BY <1>1, <1>2
<1>6. QED BY <1>3, <1>4, <1>5

LEMMA BufInvNext == BufInv /\ [Next]_vars => BufInv'
<1> SUFFICES ASSUME BufInv, [Next]_vars  PROVE BufInv'
  OBVIOUS
<1>1. {"UnexpectedEOB", "NoMoreBytes"} = Errors /\ bufferEndError(buf) = SetError(buf, "NoMoreBytes")
  BY DEF Errors, bufferEndError, BufInv, TypeOK, Buffer
<1>2. ASSUME AppendCall  PROVE BufInv'
  BY <1>1, <1>2, ErrorOnly DEF AppendCall, doAppend
<1>3. ASSUME SetErrorCall  PROVE BufInv'
  BY <1>3, ErrorOnly DEF SetErrorCall
<1>4. ASSUME CollectCall  PROVE BufInv'
  <2>1. PICK count \in 0 .. MaxAsk :
          /\ buf' = Collect(buf, count)
          /\ given' = given \cup Collected(buf, count)
          /\ UNCHANGED skipped
    BY <1>4 DEF CollectCall
  <2>2. CASE CanCollect(buf, count)
    <3>1. /\ count \in Nat /\ Avail(buf, count) /\ buf' = Advance(buf, count)
          /\ given' = given \cup (buf.mark + 1 .. buf.mark + count)
      BY <2>1, <2>2, BufferAssumption DEF CanCollect, Collect, Collected
    <3>2. /\ buf' \in Buffer /\ Marks'
          /\ 1 .. buf'.mark = (1 .. buf.mark) \cup (buf.mark + 1 .. buf.mark + count)
          /\ (1 .. buf.mark) \cap (buf.mark + 1 .. buf.mark + count) = {}
      BY <3>1, Passed
    <3>3. /\ given \cup skipped = 1 .. buf.mark /\ given \cap skipped = {}
          /\ given \subseteq Nat /\ skipped \subseteq Nat
          /\ (buf.mark + 1 .. buf.mark + count) \subseteq Nat
      BY <3>1 DEF BufInv, TypeOK, TakenOnce, Buffer
    <3>4. QED BY ONLY <2>1, <3>1, <3>2, <3>3, Zenon DEF BufInv, TypeOK, TakenOnce
  <2>3. CASE ~CanCollect(buf, count)
    <3>1. /\ buf' = buf \/ buf' = SetError(buf, "NoMoreBytes")
          /\ UNCHANGED <<given, skipped>>
      BY <1>1, <2>1, <2>3 DEF Collect, Collected
    <3>2. CASE buf' = buf
      BY <3>1, <3>2 DEF BufInv, TypeOK, Marks, TakenOnce
    <3>3. QED BY <1>1, <3>1, <3>2, ErrorOnly
  <2>4. QED BY <2>2, <2>3
<1>5. ASSUME AdvanceCall  PROVE BufInv'
  <2>1. PICK count \in 0 .. MaxAsk :
          /\ buf' = Advance(buf, count)
          /\ skipped' = skipped \cup
               IF Avail(buf, count) THEN buf.mark + 1 .. buf.mark + count ELSE {}
          /\ UNCHANGED given
    BY <1>5 DEF AdvanceCall
  <2>2. CASE Avail(buf, count)
    <3>1. /\ count \in Nat
          /\ skipped' = skipped \cup (buf.mark + 1 .. buf.mark + count)
      BY <2>1, <2>2, BufferAssumption
    <3>2. /\ buf' \in Buffer /\ Marks'
          /\ 1 .. buf'.mark = (1 .. buf.mark) \cup (buf.mark + 1 .. buf.mark + count)
          /\ (1 .. buf.mark) \cap (buf.mark + 1 .. buf.mark + count) = {}
      BY <2>1, <2>2, <3>1, Passed
    <3>3. /\ given \cup skipped = 1 .. buf.mark /\ given \cap skipped = {}
          /\ given \subseteq Nat /\ skipped \subseteq Nat
          /\ (buf.mark + 1 .. buf.mark + count) \subseteq Nat
      BY <3>1 DEF BufInv, TypeOK, TakenOnce, Buffer
    <3>4. QED BY ONLY <2>1, <3>1, <3>2, <3>3, Zenon DEF BufInv, TypeOK, TakenOnce
  <2>3. CASE ~Avail(buf, count)
    <3>1. buf' = SetError(buf, "NoMoreBytes") /\ UNCHANGED <<given, skipped>>
      BY <1>1, <2>1, <2>3 DEF Advance
    <3>2. QED BY <1>1, <3>1, ErrorOnly
  <2>4. QED BY <2>2, <2>3
<1>6. CASE UNCHANGED vars
  BY <1>6 DEF BufInv, TypeOK, Marks, TakenOnce, vars
<1>7. QED BY <1>2, <1>3, <1>4, <1>5, <1>6 DEF Next

\* The buffer is well typed and keeps its three documented invariants, whatever it is
\* asked for (streambuf.go:33-36).
THEOREM MarksKept == Spec => []TypeOK
<1>1. BufInv => TypeOK
  BY DEF BufInv
<1>2. QED BY <1>1, BufInvInit, BufInvNext, PTL DEF Spec

\* No byte is handed out or skipped twice, and none before the mark is missed
\* (streambuf.go:87-105, 130-140).
THEOREM EveryByteTakenOnce == Spec => []TakenOnce
<1>1. BufInv => TakenOnce
  BY DEF BufInv
<1>2. QED BY <1>1, BufInvInit, BufInvNext, PTL DEF Spec

\* After an error the buffer hands nothing out and keeps an error until SetError(nil),
\* which changes nothing else (streambuf.go:71-74, 87-89).
THEOREM FailureEndsBySetError == Spec => OnlySetErrorRevives
<1> DEFINE Kept == /\ given' = given
                   /\ \/ Failed(buf)'
                      \/ buf' = SetError(buf, NoError) /\ skipped' = skipped
<1>1. BufInv /\ [Next]_vars => [Failed(buf) => Kept]_vars
  <2> SUFFICES ASSUME BufInv, Next, Failed(buf)
               PROVE  Kept
    OBVIOUS
  <2>1. /\ buf \in Buffer /\ buf.err # NoError
        /\ \A err \in Errors : err # NoError
        /\ "NoMoreBytes" \in Errors /\ "UnexpectedEOB" \in Errors
    BY BufferAssumption DEF BufInv, TypeOK, Failed, Errors
  <2>2. \A err \in Errors : SetError(buf, err).err # NoError
    BY <2>1 DEF SetError, Buffer
  <2>3. bufferEndError(buf).err # NoError
    BY <2>1, <2>2 DEF bufferEndError
  <2>4. \A count : Advance(buf, count).err # NoError
    BY <2>1, <2>3 DEF Advance, Buffer
  <2>5. CASE AppendCall
    BY <2>3, <2>5 DEF AppendCall, doAppend, Failed
  <2>6. CASE SetErrorCall
    <3>1. UNCHANGED <<given, skipped>>
      BY <2>6 DEF SetErrorCall
    <3>2. PICK err \in Errors \cup {NoError} : buf' = SetError(buf, err)
      BY <2>6 DEF SetErrorCall
    <3>3. QED BY <2>2, <3>1, <3>2 DEF Failed
  <2>7. CASE CollectCall
    BY <2>1, <2>7 DEF CollectCall, Collect, Collected, CanCollect, Failed
  <2>8. CASE AdvanceCall
    BY <2>4, <2>8 DEF AdvanceCall, Failed
  <2>9. QED BY <2>5, <2>6, <2>7, <2>8 DEF Next
<1>2. QED BY <1>1, BufInvInit, BufInvNext, PTL DEF Spec, OnlySetErrorRevives
=============================================================================
