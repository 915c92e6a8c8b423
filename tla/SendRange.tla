----------------------------- MODULE SendRange ------------------------------
(***************************************************************************)
(* sendRange: a part of a buffer or of a file, which another process may   *)
(* shorten at any time.  Bytes are their positions.  A Range header is     *)
(* [first, last], either of which may be None ("-5", "5-").                *)
(***************************************************************************)
EXTENDS Integers

CONSTANT MaxBytes        \* bound: the entity's size

ASSUME RangeAssumption == MaxBytes \in Nat

VARIABLES request,       \* the header, NoHeader when there is none or it does not parse
          from,          \* buffer or file
          length,        \* bytes in the entity now
          progress,      \* closed, opened, reading, streaming, answered
          handle,        \* times the file has been closed, -1 before it is open
          size,          \* what stat found, or the buffer's length
          got,           \* bytes read
          answer         \* [status, first, last] of the response; body of got bytes

rangeVars == <<request, from, length, progress, handle, size, got, answer>>

None == -1
NoHeader == [first |-> None, last |-> None]
Headers == [first : None..MaxBytes + 1, last : None..MaxBytes + 1]
NoAnswer == [status |-> 0, first |-> 0, last |-> -1]
Invalid == [first |-> 0, last |-> -1]

Lower(a, b) == IF a < b THEN a ELSE b
Higher(a, b) == IF a > b THEN a ELSE b

StartOf(h, n) == IF h.first = None THEN Higher(0, n - h.last) ELSE h.first
EndOf(h, n) == IF h.first = None \/ h.last = None THEN n - 1 ELSE Lower(h.last, n - 1)

\* parseRange, of a header that parses
parseRange(h, n) ==
  LET start == StartOf(h, n)
      end   == EndOf(h, n)
  IN IF (h.first = None /\ h.last = 0) \/ n = 0 \/ start > end \/ start >= n
     THEN Invalid ELSE [first |-> start, last |-> end]

RangeInit ==
  /\ request \in Headers /\ from \in {"buffer", "file"} /\ length \in 0..MaxBytes
  /\ progress = "closed" /\ handle = None /\ size = 0 /\ got = 0 /\ answer = NoAnswer

Wanted == parseRange(request, size')
Whole  == [status |-> 200, first |-> 0, last |-> size' - 1]
Bad    == [status |-> 416, first |-> 0, last |-> -1]

SendBuffer ==
  /\ from = "buffer" /\ progress = "closed"
  /\ size' = length /\ progress' = "answered"
  /\ answer' = CASE request = NoHeader -> Whole
                 [] request # NoHeader /\ Wanted = Invalid -> Bad
                 [] OTHER -> [status |-> 206, first |-> Wanted.first, last |-> Wanted.last]
  /\ got' = answer'.last - answer'.first + 1
  /\ UNCHANGED <<request, from, length, handle>>

\* open throws before any header is set, or the file is there
OpenFile ==
  /\ from = "file" /\ progress = "closed"
  /\ \/ progress' = "answered" /\ UNCHANGED handle
     \/ progress' = "opened" /\ handle' = 0
  /\ UNCHANGED <<request, from, length, size, got, answer>>

CloseFile == handle' = handle + 1

StatFails ==
  /\ progress = "opened" /\ progress' = "answered" /\ CloseFile
  /\ UNCHANGED <<request, from, length, size, got, answer>>

\* the size is known: refuse, stream the whole, or start to read the part
StatFile ==
  /\ progress = "opened" /\ size' = length
  /\ \/ /\ request = NoHeader
        /\ progress' = "streaming" /\ answer' = Whole /\ UNCHANGED handle
     \/ /\ request # NoHeader /\ Wanted = Invalid
        /\ progress' = "answered" /\ answer' = Bad /\ CloseFile
     \/ /\ request # NoHeader /\ Wanted # Invalid
        /\ progress' = "reading" /\ UNCHANGED <<answer, handle>>
  /\ UNCHANGED <<request, from, length, got>>

Part == parseRange(request, size)
PartLength == Part.last - Part.first + 1

\* seeded fault: the header names what was asked for, not what was read
ReadPartAnswer == [status |-> 206, first |-> Part.first, last |-> Part.last]

\* the part that was read, all of it or what the file still had
ReadPart == [status |-> 206, first |-> Part.first, last |-> Part.first + got - 1]

\* a read may be short; one that finds nothing ends the loop
ReadSome ==
  /\ progress = "reading" /\ got < PartLength
  /\ \E n \in 1..(length - Part.first - got) : n <= PartLength - got /\ got' = got + n
  /\ UNCHANGED <<request, from, length, progress, handle, size, answer>>

\* the finally, then the error handler's answer
ReadFails ==
  /\ progress = "reading" /\ progress' = "answered" /\ CloseFile
  /\ UNCHANGED <<request, from, length, size, got, answer>>

ReadEnds ==
  /\ progress = "reading" /\ (got = PartLength \/ length <= Part.first + got)
  /\ progress' = "answered" /\ CloseFile /\ answer' = ReadPart
  /\ UNCHANGED <<request, from, length, size, got>>

\* the read stream closes its handle at its end, on an error and when the driver lets it go
StreamOver ==
  /\ progress = "streaming" /\ progress' = "answered" /\ CloseFile
  /\ UNCHANGED <<request, from, length, size, got, answer>>

Truncate ==
  /\ from = "file" /\ progress \in {"opened", "reading"} /\ length > 0
  /\ length' \in 0..length - 1
  /\ UNCHANGED <<request, from, progress, handle, size, got, answer>>

RangeStep == \/ SendBuffer \/ OpenFile \/ StatFails \/ StatFile \/ ReadSome \/ ReadFails
             \/ ReadEnds \/ StreamOver \/ Truncate

-----------------------------------------------------------------------------
RangeTypeOK ==
  /\ progress \in {"closed", "opened", "reading", "streaming", "answered"}
  /\ size \in 0..MaxBytes /\ got \in 0..MaxBytes /\ answer.first \in 0..MaxBytes

\* the positions the header asks for in an entity of n bytes
Asked(h, n) ==
  {p \in 0..n - 1 : IF h.first = None THEN p >= n - h.last
                    ELSE p >= h.first /\ (h.last = None \/ p <= h.last)}

\* What goes out is what was asked for: a 416 only when nothing of it exists, and a 206
\* with as many bytes as its Content-Range names, all asked for and from the first one on -
\* every one of them unless the file shrank while it was read.
RangeIsAsked ==
  /\ answer.status = 416 => Asked(request, size) = {}
  /\ answer.status = 206 =>
       /\ got = answer.last - answer.first + 1
       /\ answer.first..answer.last \subseteq Asked(request, size)
       /\ answer.first \in Asked(request, size)
       /\ length = size => answer.first..answer.last = Asked(request, size)

\* The file is closed once by whichever path answers, and not before.
HandleReleased == handle # None => (handle = 1) = (progress = "answered") /\ handle <= 1

\* A range is answered exactly and its file closed, also when the file shrinks, cannot be
\* opened or fails to be read (range.ts, parse.ts).
RangeCorrect == RangeTypeOK /\ RangeIsAsked /\ HandleReleased
=============================================================================
