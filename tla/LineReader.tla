----------------------------- MODULE LineReader -----------------------------
(***************************************************************************)
(* The reading loop of a harvester on one open file: readLine, lineReader, *)
(* timeReader and their two buffers.  An encoded line feed is one byte.    *)
(***************************************************************************)
EXTENDS StreamBuf

CONSTANTS LineFeed, Text,  \* the bytes of a file
          BufferSize,      \* HarvesterConfig.BufferSize
          MaxLen           \* bound: bytes in the file

VARIABLES file,       \* the bytes of the file
          pos,        \* position of the open file
          idle,       \* nothing was read for partial_line_waiting
          inBuffer, outBuffer, inOffset, byteCount,  \* lineReader
          pc          \* what readLine does next

vars == <<file, pos, idle, inBuffer, outBuffer, inOffset, byteCount, pc>>

\* timeReader.lastReadTime begins with the zero time, long ago.
Init ==
  /\ file = <<>> /\ pos = 0 /\ idle = TRUE
  /\ inBuffer = New(<<>>) /\ outBuffer = New(<<>>)
  /\ inOffset = 0 /\ byteCount = 0
  /\ pc = "next"

\* What timeReader.Read returns is the outer n: nothing, without an error, and a buffer
\* of which the first n bytes are used.
Returned(n) == 0

\* decode writes what it has decoded to outBuffer, which takes nothing, and counts no
\* byte; it and advance end without a result.
Decode(end) == IF end > 0 THEN doAppend(outBuffer, <<>>) ELSE outBuffer

\* next and readlineString (by lineEndingChars, whose test of isLine is the wrong way
\* round) look at the last byte without asking whether there is one.
PanicsOn(bytes) == bytes = <<>>

\* advance with a line feed in inBuffer, and the rest of next.
FoundLine ==
  /\ pc = "next"
  /\ IndexFrom(inBuffer, inOffset, LineFeed) >= 0
  /\ outBuffer' = Decode(IndexFrom(inBuffer, inOffset, LineFeed) + 1)
  /\ pc' = IF PanicsOn(Bytes(outBuffer')) THEN "panicked" ELSE "line"
  /\ UNCHANGED <<file, pos, idle, inBuffer, inOffset, byteCount>>

\* advance without one reads on, which is the end of next unless it got something.
ReadOn ==
  /\ pc = "next"
  /\ IndexFrom(inBuffer, inOffset, LineFeed) < 0
  /\ inOffset' = IF inBuffer.available - 1 > inOffset THEN inBuffer.available - 1 ELSE inOffset
  /\ \E n \in 0 .. BufferSize :
       /\ n <= Len(file) - pos /\ (n = 0 => pos = Len(file))
       /\ pos' = pos + n
       /\ idle' = (idle /\ n = 0)
       /\ inBuffer' = doAppend(inBuffer, SubSeq(file, pos + 1, pos + Returned(n)))
       /\ pc' = IF Returned(n) = 0 THEN "nothing" ELSE "next"
  /\ UNCHANGED <<file, outBuffer, byteCount>>

\* readLine got no line and sleeps.
Sleep ==
  /\ pc = "nothing" /\ ~idle
  /\ idle' \in BOOLEAN
  /\ pc' = "next"
  /\ UNCHANGED <<file, pos, inBuffer, outBuffer, inOffset, byteCount>>

\* partial, and readlineString of what it returns.
Partial ==
  /\ pc = "nothing" /\ idle
  /\ outBuffer' = Decode(inBuffer.available)
  /\ pc' = IF PanicsOn(Bytes(outBuffer')) THEN "panicked" ELSE "partial"
  /\ UNCHANGED <<file, pos, idle, inBuffer, inOffset, byteCount>>

\* A program appends to the file.
Write ==
  /\ Len(file) < MaxLen
  /\ \E b \in {LineFeed, Text} : file' = Append(file, b)
  /\ UNCHANGED <<pos, idle, inBuffer, outBuffer, inOffset, byteCount, pc>>

Next == FoundLine \/ ReadOn \/ Sleep \/ Partial \/ Write

Spec == Init /\ [][Next]_vars

-----------------------------------------------------------------------------
\* What was read from the file is in the input buffer or counted as decoded: "the reader
\* keeps track of bytes comsumed from raw input stream" (reader.go:22-23).
NothingReadIsLost == pos = Len(Bytes(inBuffer)) + byteCount
=============================================================================
