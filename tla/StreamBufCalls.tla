--------------------------- MODULE StreamBufCalls ---------------------------
(***************************************************************************)
(* A streambuf.Buffer and any legal calls of its methods in any order.     *)
(***************************************************************************)
EXTENDS StreamBuf

CONSTANTS Byte,    \* what a byte may be
          MaxLen,  \* bound: bytes in the buffer
          MaxAsk   \* bound: bytes asked for at once

Errors == {"UnexpectedEOB", "NoMoreBytes"}

ASSUME BufferAssumption == MaxLen \in Nat /\ MaxAsk \in Nat /\ NoError \notin Errors

VARIABLES buf,      \* the Buffer
          given,    \* history: the positions Collect has handed out
          skipped   \* history: the positions Advance has passed

vars == <<buf, given, skipped>>

Positions == 1 .. MaxLen

Buffer == [data : Seq(Byte), err : Errors \cup {NoError}, fixed : {FALSE},
           mark : Nat, offset : Nat, available : Nat]

Init ==
  /\ \E n \in 0 .. MaxLen, data \in [Positions -> Byte] : buf = New(SubSeq(data, 1, n))
  /\ given = {} /\ skipped = {}

\* Append and Write.
AppendCall ==
  /\ \E byte \in Byte : buf' = doAppend(buf, <<byte>>)
  /\ UNCHANGED <<given, skipped>>

\* SetError takes nil too, and then the buffer is not failed any more.
SetErrorCall ==
  /\ \E err \in Errors \cup {NoError} : buf' = SetError(buf, err)
  /\ UNCHANGED <<given, skipped>>

CollectCall ==
  \E count \in 0 .. MaxAsk :
    /\ buf' = Collect(buf, count)
    /\ given' = given \cup Collected(buf, count)
    /\ UNCHANGED skipped

AdvanceCall ==
  \E count \in 0 .. MaxAsk :
    /\ buf' = Advance(buf, count)
    /\ skipped' = skipped \cup
         IF Avail(buf, count) THEN buf.mark + 1 .. buf.mark + count ELSE {}
    /\ UNCHANGED given

Next == AppendCall \/ SetErrorCall \/ CollectCall \/ AdvanceCall

Spec == Init /\ [][Next]_vars

-----------------------------------------------------------------------------
\* The three invariants in the comment of Buffer (streambuf.go:33-36).
Marks ==
  /\ 0 <= buf.mark /\ buf.mark <= buf.offset
  /\ 0 <= buf.available /\ buf.available <= Len(buf.data)
  /\ buf.available = Len(buf.data) - buf.mark

TypeOK ==
  /\ buf \in Buffer
  /\ Marks
  /\ given \subseteq Nat /\ skipped \subseteq Nat

\* Every byte before the mark was handed out or skipped, and none of them twice, also
\* when calls fail in between (streambuf.go:87-105, 130-140).
TakenOnce ==
  /\ given \cup skipped = 1 .. buf.mark
  /\ given \cap skipped = {}

\* A failed buffer hands nothing out, though bytes are left, and only SetError(nil) ends
\* the failure: it leaves the rest as it was, so that what the failure kept back is handed
\* out then (streambuf.go:71-74, 87-89, 107-108).
OnlySetErrorRevives ==
  [][Failed(buf) => /\ given' = given
                    /\ \/ Failed(buf)'
                       \/ buf' = SetError(buf, NoError) /\ skipped' = skipped]_vars
=============================================================================
