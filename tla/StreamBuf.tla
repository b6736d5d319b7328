----------------------------- MODULE StreamBuf -----------------------------
(***************************************************************************)
(* The operations of a streambuf.Buffer, as functions of the buffer.  Go   *)
(* counts bytes from 0: data[mark:] is everything after position mark.     *)
(***************************************************************************)
EXTENDS Integers, Sequences

CONSTANT NoError  \* nil

\* An extensible buffer over data; nothing in the package makes one fixed.
New(data) == [data |-> data, err |-> NoError, fixed |-> FALSE,
              mark |-> 0, offset |-> 0, available |-> Len(data)]

SetError(b, err) == [b EXCEPT !.err = err]

bufferEndError(b) == SetError(b, IF b.fixed THEN "UnexpectedEOB" ELSE "NoMoreBytes")

\* No byte is ever appended: doAppend fails with the error of a buffer that ends.
doAppend(b, bytes) == bufferEndError(b)

Failed(b) == b.err # NoError

Bytes(b) == SubSeq(b.data, b.mark + 1, Len(b.data))

\* The offset of a byte from position mark + from on, -1 without one.
IndexFrom(b, from, byte) ==
  LET Found == {i \in b.mark + from .. Len(b.data) - 1 : b.data[i + 1] = byte}
  IN  IF Failed(b) \/ Found = {} THEN -1
      ELSE CHOOSE i \in Found : \A j \in Found : i <= j

Avail(b, count) == count <= b.available

\* Fault: what has been read stays available.
AdvanceMarkOnly(b, count) ==
  IF Avail(b, count) THEN [b EXCEPT !.mark = b.mark + count, !.offset = b.mark + count]
  ELSE bufferEndError(b)

\* Also a failed buffer moves on.
Advance(b, count) ==
  IF Avail(b, count)
  THEN [b EXCEPT !.mark = b.mark + count, !.offset = b.mark + count,
                 !.available = b.available - count]
  ELSE bufferEndError(b)

\* Fault: a failed buffer still hands bytes out.
CanCollectFailed(b, count) == Avail(b, count)

CanCollect(b, count) == ~Failed(b) /\ Avail(b, count)

\* Fault: the bytes come after the pointer has moved.
CollectedLate(b, count) ==
  IF CanCollect(b, count) THEN b.mark + count + 1 .. b.mark + 2 * count ELSE {}

\* What Collect returns, as positions in data, and what it makes of the buffer.
Collected(b, count) ==
  IF CanCollect(b, count) THEN b.mark + 1 .. b.mark + count ELSE {}

Collect(b, count) ==
  IF CanCollect(b, count) THEN Advance(b, count)
  ELSE IF Failed(b) THEN b ELSE bufferEndError(b)
=============================================================================
