--------------------------- MODULE StreamResponse ---------------------------
(***************************************************************************)
(* A chunked response: the JavaScript loop that pulls chunks from the      *)
(* handler's source (#drive, src/ts/core/app.ts) over the native exports   *)
(* startStream / writeStreamChunk / endStream (src/src/http/stream.zig)    *)
(* and the connection's write path (WriteQueue).                           *)
(*                                                                         *)
(* One HTTP/1.1 connection, suspended on the dispatch that is streamed.    *)
(* A chunk and its framing are one write; the source may take any time to  *)
(* produce a chunk, end, or throw.  Source and peer are external.          *)
(***************************************************************************)
EXTENDS WriteQueue

CONSTANTS
    HighWater,      \* STREAM_HIGH_WATER
    ChunkSizes,     \* sizes of a framed chunk
    HeadLen,        \* size of the response head
    EndLen,         \* size of the terminating chunk
    MaxChunks       \* bound: chunks the source produces

ASSUME HighWaterAssumption == HighWater \in Nat
ASSUME ChunkAssumption ==
    ChunkSizes \subseteq Nat \ {0} /\ HeadLen \in Nat /\ EndLen \in Nat /\ MaxChunks \in Nat

VARIABLES
    pc,             \* where #drive is
    registered,     \* the dispatch id is in eng.pending
    pulled,         \* chunks pulled from the source
    late            \* chunks pulled since the connection began to close

driveVars == <<pc, registered, pulled, late>>
allVars == <<vars, driveVars>>

StreamInit ==
    /\ Init
    /\ pc = "start"
    /\ registered = TRUE
    /\ pulled = 0
    /\ late = 0

(* The part of the write path a call leaves alone. *)
NotClosing == UNCHANGED <<sent_close, in_close, closed>>

-----------------------------------------------------------------------------
(* startStream: the head, unless the connection is gone. *)
startStream ==
    /\ pc = "start"
    /\ pc' = "pull"
    /\ \/ /\ registered /\ ~closing
          /\ rawWriteAll(HeadLen)
          /\ NotClosing
       \/ /\ ~registered \/ closing
          /\ UNCHANGED vars
    /\ UNCHANGED <<registered, pulled, late>>

(***************************************************************************)
(* writeStreamChunk of n bytes, and what #drive does with its result: stop *)
(* when the connection is gone (-1), sleep 1 ms when the backlog is above  *)
(* the high-water mark, else pull the next chunk.                          *)
(***************************************************************************)
AfterBacklog(b) == IF b > HighWater THEN "sleep" ELSE "pull"

ChunkWritten(n) ==
    /\ registered /\ ~closing
    /\ rawWriteAll(n)
    /\ NotClosing
    /\ pc' = AfterBacklog(queued_bytes')

ChunkRefused ==
    /\ ~registered \/ closing
    /\ pc' = "end"
    /\ UNCHANGED vars

pullChunk ==
    /\ pc = "pull"
    /\ pulled < MaxChunks
    /\ pulled' = pulled + 1
    /\ late' = late + (IF closing THEN 1 ELSE 0)
    /\ ChunkRefused \/ \E n \in ChunkSizes : ChunkWritten(n)
    /\ UNCHANGED registered

(* The 1 ms timer fires; the backlog is not looked at again.  (Waiting for  *)
(* the queue to empty instead would hang on a client that stops reading.)   *)
WakeWhenDrained ==                                      \* seeded fault
    /\ pc = "sleep"
    /\ queued_bytes = 0
    /\ pc' = "pull"
    /\ UNCHANGED <<vars, registered, pulled, late>>

wake ==
    /\ pc = "sleep"
    /\ pc' = "pull"
    /\ UNCHANGED <<vars, registered, pulled, late>>

(* The source is exhausted, or threw: either way the finally block runs. *)
sourceDone ==
    /\ pc = "pull"
    /\ pc' = "end"
    /\ UNCHANGED <<vars, registered, pulled, late>>

(***************************************************************************)
(* endStream: the id leaves eng.pending; an open connection gets the       *)
(* terminating chunk.  Whether it then resumes or closes (keep-alive) is   *)
(* the pipeline's business: closeConn below may follow.                    *)
(***************************************************************************)
endStream ==
    /\ pc = "end"
    /\ pc' = "done"
    /\ registered' = FALSE
    /\ \/ /\ registered /\ ~closing
          /\ rawWriteAll(EndLen)
          /\ NotClosing
       \/ /\ ~registered \/ closing
          /\ UNCHANGED vars
    /\ UNCHANGED <<pulled, late>>

(* The socket and the peer; onClose drops the pending entry. *)
Socket ==
    \/ (Flush \/ onWrite \/ closeConn) /\ UNCHANGED driveVars
    \/ onClose /\ registered' = FALSE /\ UNCHANGED <<pc, pulled, late>>

Drive == startStream \/ pullChunk \/ wake \/ sourceDone \/ endStream

StreamNext == Drive \/ Socket

(***************************************************************************)
(* Fairness.  The JavaScript thread runs what it has been handed: a timer, *)
(* a settled promise.  A source is assumed to end (MaxChunks).  Nothing is *)
(* assumed of the peer: it may never read.                                 *)
(***************************************************************************)
StreamSpecification ==
    StreamInit /\ [][StreamNext]_allVars /\ WF_allVars(Drive)

-----------------------------------------------------------------------------
(* The shape of the state. *)
StreamTypeOK ==
    /\ TypeOK
    /\ pc \in {"start", "pull", "sleep", "end", "done"}
    /\ registered \in BOOLEAN
    /\ pulled \in 0..MaxChunks
    /\ late \in 0..MaxChunks

(* Once the connection is closing, at most one more chunk is taken from the *)
(* source: that write reports the connection gone, and #drive stops.        *)
StopsAfterDisconnect == late <= 1

(* A stream whose client goes away, or stops reading, leaves its socket     *)
(* closed once and its source alone (#drive, writeStreamChunk, closeConn).  *)
StreamSafe == StreamTypeOK /\ StopsAfterDisconnect /\ ClosedOnce

(* endStream always runs, whatever the peer does: the backlog wait cannot   *)
(* block a stream whose client never reads again.                           *)
StreamEnds == <>(pc = "done")
=============================================================================
