-------------------------------- MODULE Http2 -------------------------------
(***************************************************************************)
(* One HTTP/2 connection (src/src/http2/connection.zig): its streams, the  *)
(* two levels of flow control in both directions, the budget of request    *)
(* bodies, the ids its handlers answer by, and its end.  Stream 2n - 1 is  *)
(* called n.  A frame's payload is its length; bytes have no values, so a  *)
(* response is what was sent of it and whether END_STREAM followed.        *)
(***************************************************************************)
EXTENDS Integers, FiniteSets, SequencesExt

CONSTANTS MaxStream,       \* bound: requests the peer opens
          MaxConcurrent,   \* h2_max_concurrent
          ResetCap,        \* h2_max_concurrent * 4, on a scale of its own
          RecvInitial,     \* h2_initial_window
          Default,         \* 65535, the window both ends start from
          MaxWindow,       \* 2^31 - 1
          Windows,         \* initial windows the peer may set
          Increments,      \* what its WINDOW_UPDATEs add
          Payloads,        \* lengths of its DATA frames
          MaxBody, BodyBudget, MaxQueue,   \* max_body, bodyBudget(), max_write_queue
          Bodies, Chunks,  \* lengths of responses, and of streamed chunks
          MaxMade,         \* bound: bytes a stream's source produces
          PumpMax          \* 256, the streams one pumpAll can drain

ASSUME Http2Assumption ==
  /\ {MaxStream, ResetCap, MaxBody, BodyBudget, MaxQueue, MaxMade} \subseteq Nat
  /\ {MaxConcurrent, RecvInitial, Default, MaxWindow, PumpMax} \subseteq Nat \ {0}
  /\ Windows \cup Increments \cup Payloads \cup Bodies \cup Chunks \subseteq Nat
  /\ ResetCap >= MaxConcurrent

VARIABLES h2,         \* the Connection, its streams and what the peer knows of them
          h2pending,  \* eng.h2_pending: dispatches that have yet to be answered
          work        \* where the handler of each stream stands

http2Vars == <<h2, h2pending, work>>

Ids == 1..MaxStream
Live(c) == DOMAIN c.streams
TooBig == -1       \* a response whose headers do not fit

\* Stream.init; the last five fields are the peer's side of it: frames it was
\* sent, bytes it was sent of those produced, and what each end may still send
NewStream(c) ==
  [headers |-> FALSE, ended |-> FALSE, dispatched |-> FALSE,
   received |-> 0, recv |-> RecvInitial, unacked |-> 0,
   send |-> c.initial, out |-> 0, held |-> FALSE, fin |-> FALSE,
   heads |-> 0, sent |-> 0, made |-> 0, window |-> c.initial, told |-> RecvInitial]

WithStream(streams, i, s) ==
  [j \in DOMAIN streams \cup {i} |-> IF j = i THEN s ELSE streams[j]]

NoBlock == [id |-> 0, trailer |-> FALSE]

Http2Init ==
  /\ h2 = [streams |-> <<>>, last |-> 0, cont |-> NoBlock,
           send |-> Default, recv |-> RecvInitial, unacked |-> 0,
           initial |-> Default, resets |-> 0, inflight |-> 0,
           closing |-> "no", freed |-> FALSE,
           peer |-> Default, told |-> Max({Default, RecvInitial}), polite |-> TRUE,
           torn |-> FALSE]
  /\ h2pending = {}
  /\ work = [i \in Ids |-> "none"]

-----------------------------------------------------------------------------
(* What the connection sends, and how a stream ends.                        *)

\* END_STREAM: the response is torn unless one head and every byte produced
\* came before it
Ended(c, i) ==
  LET s == c.streams[i]
  IN [c EXCEPT !.torn = @ \/ s.heads # 1 \/ s.sent # s.made]

SendHeaders(c, i, end) ==
  LET d == [c EXCEPT !.streams[i].heads = @ + 1] IN IF end THEN Ended(d, i) ELSE d

SendData(c, i, n, end) ==
  LET s == c.streams[i]
      d == [c EXCEPT !.streams[i] = [s EXCEPT !.send = @ - n, !.window = @ - n, !.sent = @ + n],
                     !.send = @ - n, !.peer = @ - n]
  IN IF end THEN Ended(d, i) ELSE d

\* seeded fault: a stream that closes keeps its share of the body budget
CloseStreamKeepsShare(c, i) ==
  [c EXCEPT !.streams = Restrict(@, Live(c) \ {i})]

CloseStream(c, i) ==
  [c EXCEPT !.streams = Restrict(@, Live(c) \ {i}),
            !.inflight = Max({0, @ - c.streams[i].received})]

StreamError(c, i) == CloseStream(c, i)
ConnError(c, code) == [c EXCEPT !.closing = IF @ = "no" THEN code ELSE @]

\* the entries of h2_pending that remain: closeStream removes its own
StillPending(c) == h2pending \cap Live(c)

-----------------------------------------------------------------------------
(* Responses, within the windows the peer grants.                           *)

Room(c, i) == Max({0, Min({c.streams[i].send, c.send})})

\* seeded fault: only the stream's own window is looked at
RoomOfStream(c, i) == Max({0, c.streams[i].send})

\* sendBody and pumpStream: DATA as long as both windows are open
Allowed(c, i) == Room(c, i)

\* seeded fault: END_STREAM rides on the last frame the window allows
PumpStreamEndsEarly(c, i) ==
  LET s == c.streams[i]
      n == Min({s.out, Allowed(c, i)})
      d == IF n = 0 THEN c ELSE [SendData(c, i, n, s.fin) EXCEPT !.streams[i].out = @ - n]
  IN IF s.held /\ s.fin /\ n > 0 THEN CloseStream(d, i) ELSE d

PumpStream(c, i) ==
  LET s == c.streams[i]
      n == Min({s.out, Allowed(c, i)})
      d == IF n = 0 THEN c
           ELSE [SendData(c, i, n, n = s.out /\ s.fin) EXCEPT !.streams[i].out = @ - n]
  IN IF s.held /\ n = s.out /\ s.fin THEN CloseStream(d, i) ELSE d

Held(c) == {i \in Live(c) : c.streams[i].held}

PumpIfLive(c, i) == IF i \in Live(c) THEN PumpStream(c, i) ELSE c

\* pumpAll, in whatever order the map yields its streams
PumpAll(c) ==
  {FoldLeft(PumpIfLive, c, order) :
     order \in UNION {SetToSeqs(S) : S \in kSubset(Min({PumpMax, Cardinality(Held(c))}), Held(c))}}

\* writeResponse and sendBody: a body longer than the windows waits in `out'
WriteResponse(c, i, n) ==
  LET d == SendHeaders(c, i, n = 0)
      k == Min({n, Allowed(c, i)})
      e == [d EXCEPT !.streams[i].made = @ + n]
      f == IF k = 0 THEN e ELSE SendData(e, i, k, k = n)
  IN IF k = n THEN f
     ELSE [f EXCEPT !.streams[i] = [@ EXCEPT !.out = n - k, !.held = TRUE, !.fin = TRUE]]

Respond(c, i, n) ==
  IF n = TooBig THEN StreamError(c, i)
  ELSE LET d == WriteResponse(c, i, n)
       IN IF d.streams[i].fin THEN d ELSE CloseStream(d, i)

-----------------------------------------------------------------------------
(* The request side: a request that is complete is dispatched.              *)

\* dispatch: progress lets the rapid-reset budget recover
Forgiven(c) == [c EXCEPT !.resets = Max({0, @ - 1})]

\* the frame leaves the connection as `c'
Continue(c) == h2' = c /\ h2pending' = StillPending(c) /\ UNCHANGED work

\* dispatch, dispatchTo: answered at once (a plain response, the rate limit,
\* a static file, no such route), or awaited under the dispatch id
Dispatch(c, i) ==
  LET d == Forgiven([c EXCEPT !.streams[i].dispatched = TRUE])
  IN \/ \E n \in Bodies \cup {TooBig} : Continue(Respond(d, i, n))
     \/ /\ h2' = d
        /\ h2pending' = h2pending \cup {i}
        /\ work' = [work EXCEPT ![i] = "awaits"]

\* finishHeaders: the block is decoded, and the head checked
FinishHeaders(c, i) ==
  LET d == [c EXCEPT !.streams[i].headers = TRUE]
  IN \/ Continue(ConnError(c, "closed"))
     \/ Continue(StreamError(d, i))
     \/ IF d.streams[i].ended THEN Dispatch(d, i) ELSE Continue(d)

\* finishTrailers: trailers are dropped, the END_STREAM they carry is not
FinishTrailers(c, i) ==
  LET d == [c EXCEPT !.streams[i].ended = TRUE]
  IN \/ Continue(ConnError(c, "closed"))
     \/ Continue(StreamError(d, i))
     \/ Dispatch(d, i)

Refuse(c, i) == \/ Continue(ConnError(c, "closed"))
                \/ Continue(c)

-----------------------------------------------------------------------------
(* The frames a peer may send, conforming or not.                           *)

Open == h2.closing = "no"

\* handleFrame: nothing may come between the parts of a header block
BetweenBlocks == Open /\ h2.cont = NoBlock

Interleaves ==
  /\ Open /\ h2.cont # NoBlock
  /\ Continue(ConnError(h2, "closed"))

NextIds == 1..Min({h2.last + 1, MaxStream})

\* a header block opens a request
OpenStream(i, end, whole) ==
  /\ BetweenBlocks /\ i > h2.last
  /\ Cardinality(Live(h2)) < MaxConcurrent
  /\ LET s == [NewStream(h2) EXCEPT !.ended = end]
         c == [h2 EXCEPT !.streams = WithStream(@, i, s), !.last = i]
     IN IF whole THEN FinishHeaders(c, i)
        ELSE Continue([c EXCEPT !.cont = [id |-> i, trailer |-> FALSE]])

\* ... or is one too many: its block is decoded, to keep HPACK in step
RefuseStream(i, whole) ==
  /\ BetweenBlocks /\ i > h2.last
  /\ Cardinality(Live(h2)) >= MaxConcurrent
  /\ LET c == [h2 EXCEPT !.last = i]
     IN IF whole THEN Refuse(c, i)
        ELSE Continue([c EXCEPT !.cont = [id |-> i, trailer |-> FALSE]])

Trailers(i, end, whole) ==
  /\ BetweenBlocks /\ i \in Live(h2)
  /\ LET s == h2.streams[i]
     IN IF ~s.headers \/ s.ended \/ ~end THEN Continue(ConnError(h2, "closed"))
        ELSE IF whole THEN FinishTrailers(h2, i)
        ELSE Continue([h2 EXCEPT !.cont = [id |-> i, trailer |-> TRUE]])

StaleHeaders(i) ==
  /\ BetweenBlocks /\ i <= h2.last /\ i \notin Live(h2)
  /\ Continue(ConnError(h2, "closed"))

\* the block ends, or outgrows its buffer
Continuation ==
  /\ Open /\ h2.cont # NoBlock
  /\ LET i == h2.cont.id
         c == [h2 EXCEPT !.cont = NoBlock]
     IN \/ Continue(ConnError(h2, "closed"))
        \/ i \notin Live(c) /\ Refuse(c, i)
        \/ i \in Live(c) /\ h2.cont.trailer /\ FinishTrailers(c, i)
        \/ i \in Live(c) /\ ~h2.cont.trailer /\ FinishHeaders(c, i)

-----------------------------------------------------------------------------
(* DATA: the credit it uses is given back once half a window is used.       *)

AckConn(c, n) ==
  IF c.unacked + n >= RecvInitial \div 2
  THEN [c EXCEPT !.recv = @ + c.unacked + n, !.told = @ + c.unacked + n, !.unacked = 0]
  ELSE [c EXCEPT !.unacked = @ + n]

AckStream(c, i, n) ==
  LET s == c.streams[i]
  IN IF s.unacked + n >= RecvInitial \div 2 /\ ~s.ended
     THEN [c EXCEPT !.streams[i] = [s EXCEPT !.recv = @ + s.unacked + n,
                                             !.told = @ + s.unacked + n, !.unacked = 0]]
     ELSE [c EXCEPT !.streams[i] = [s EXCEPT !.unacked = @ + n]]

\* the frame as it arrives: what the peer could send, it can send no more
Charged(c, i, n) ==
  LET d == [c EXCEPT !.recv = @ - n, !.told = @ - n]
  IN IF i \in Live(c) THEN [d EXCEPT !.streams[i].told = @ - n] ELSE d

\* seeded fault: DATA on a stream that is gone gives no credit back
ArrivedOnLive(c, i, n) ==
  LET d == Charged(c, i, n)
  IN IF i \in Live(c) THEN AckConn(d, n) ELSE d

\* flow control of the connection counts every DATA frame
Arrived(c, i, n) == AckConn(Charged(c, i, n), n)

\* DATA whose payload of n bytes may be all padding, for the connection alone
DataRefused(i, n) ==
  /\ BetweenBlocks
  /\ LET d == Arrived(h2, i, n)
     IN \/ n > h2.recv /\ Continue(ConnError(Charged(h2, i, n), "flow"))
        \/ n <= h2.recv /\ Continue(ConnError(d, "closed"))      \* bad padding
        \/ /\ n <= h2.recv /\ i \notin Live(h2)
           /\ Continue(IF i > h2.last THEN ConnError(d, "closed") ELSE d)
        \/ /\ n <= h2.recv /\ i \in Live(h2)
           /\ h2.streams[i].ended
           /\ Continue(StreamError(d, i))
        \/ /\ n <= h2.recv /\ i \in Live(h2)
           /\ ~h2.streams[i].ended /\ n > h2.streams[i].recv
           /\ Continue(StreamError(d, i))

\* the body budget of the connection, and the limit of one body
TooLarge(c, i, k) == \/ c.inflight + k > BodyBudget
                     \/ c.streams[i].received + k > MaxBody

\* rejectOversized: 413, then RST_STREAM(NO_ERROR)
RejectOversized(c, i) == CloseStream(WriteResponse(c, i, 1), i)

\* n bytes of payload, k of them data
Data(i, n, k, end) ==
  /\ BetweenBlocks /\ i \in Live(h2) /\ k \in {0, n}
  /\ ~h2.streams[i].ended /\ n <= Min({h2.recv, h2.streams[i].recv})
  /\ LET c == [Arrived(h2, i, n) EXCEPT !.streams[i].recv = @ - n]
         d == AckStream([c EXCEPT !.streams[i].received = @ + k, !.inflight = @ + k], i, n)
         e == [d EXCEPT !.streams[i].ended = TRUE]
     IN IF TooLarge(c, i, k) THEN Continue(RejectOversized(c, i))
        ELSE IF ~end THEN Continue(d)
        ELSE \/ Continue(StreamError(e, i))      \* not its content-length
             \/ IF e.streams[i].headers THEN Dispatch(e, i) ELSE Continue(e)

-----------------------------------------------------------------------------
(* The other frames.  PING, PRIORITY and GOAWAY change nothing here.        *)

Pumped(c) == PumpAll(c)

Shifted(s, n) == [s EXCEPT !.send = @ + n, !.window = @ + n]

\* SETTINGS_INITIAL_WINDOW_SIZE shifts the window of every open stream
Settings(w) ==
  /\ BetweenBlocks
  /\ LET delta == w - h2.initial
         c == [h2 EXCEPT !.initial = w,
                         !.streams = [i \in DOMAIN @ |-> Shifted(@[i], delta)]]
     IN \E d \in Pumped(c) : Continue(d)

\* a SETTINGS, RST_STREAM or WINDOW_UPDATE that is not well formed
BadFrame == BetweenBlocks /\ Continue(ConnError(h2, "closed"))

WindowUpdateConn(n) ==
  /\ BetweenBlocks
  /\ LET c == [h2 EXCEPT !.send = @ + n, !.peer = @ + n]
     IN IF n = 0 THEN Continue(ConnError(h2, "closed"))
        ELSE IF c.send > MaxWindow THEN Continue(ConnError(c, "closed"))
        ELSE \E d \in Pumped(c) : Continue(d)

WindowUpdateStream(i, n) ==
  /\ BetweenBlocks
  /\ LET c == [h2 EXCEPT !.streams[i] = Shifted(@, n)]
     IN \/ i > h2.last /\ Continue(ConnError(h2, "closed"))
        \/ i \in Live(h2) /\ n = 0 /\ Continue(StreamError(h2, i))
        \/ i \in Live(h2) /\ n > 0 /\ c.streams[i].send > MaxWindow /\ Continue(StreamError(c, i))
        \/ i \in Live(h2) /\ n > 0 /\ c.streams[i].send <= MaxWindow /\ Continue(PumpStream(c, i))

\* onRstStream: a cancelled stream, or the one too many of a flood
Reset(i) ==
  /\ BetweenBlocks
  /\ LET c == CloseStream([h2 EXCEPT !.resets = @ + 1,
                                     !.polite = @ /\ h2.streams[i].dispatched], i)
     IN \/ i > h2.last /\ Continue(ConnError(h2, "closed"))
        \/ i \in Live(h2) /\ h2.resets < ResetCap /\ Continue(c)
        \/ i \in Live(h2) /\ h2.resets >= ResetCap /\ Continue(ConnError(c, "calm"))

-----------------------------------------------------------------------------
(* The handlers: submitResponse once, or startStream .. endStream; and the  *)
(* 408 of #armTimeout, after which the handler's own answer still comes.    *)

\* fetchRemove: an answer consumes its id
Unclaimed(i) == h2pending \ {i}

Answer(i, n, next) ==
  LET c == IF i \in h2pending THEN Respond(h2, i, n) ELSE h2
  IN /\ h2' = c
     /\ h2pending' = Unclaimed(i) \cap Live(c)
     /\ work' = [work EXCEPT ![i] = next]

Submit(i, n) == work[i] \in {"awaits", "late"} /\ Answer(i, n, "over")
TimesOut(i)  == work[i] = "awaits" /\ Answer(i, 1, "late")

Works(c, i, next) ==
  /\ h2' = c
  /\ h2pending' = StillPending(c)
  /\ work' = [work EXCEPT ![i] = next]

StreamStart(i) ==
  /\ work[i] \in {"awaits", "late"}
  /\ IF i \notin h2pending THEN Works(h2, i, "streams")
     ELSE \/ Works(SendHeaders(h2, i, FALSE), i, "streams")
          \/ Works(StreamError(h2, i), i, "streams")

Flushed(c, i) == PumpStream(c, i)

\* streamChunk and queueOut; -1 (the stream is gone) ends the source, and the
\* endStream that follows finds no entry either
StreamChunk(i, n) ==
  /\ work[i] = "streams"
  /\ IF i \notin h2pending THEN Works(h2, i, "over")
     ELSE LET s == h2.streams[i]
              c == [h2 EXCEPT !.streams[i].out = @ + n, !.streams[i].held = TRUE,
                              !.streams[i].made = @ + n]
          IN /\ s.made + n <= MaxMade
             /\ IF s.out + n > MaxQueue THEN Works(StreamError(h2, i), i, "over")
                ELSE Works(Flushed(c, i), i, "streams")

\* streamEnd: END_STREAM now, or once the backlog has drained
StreamEnd(i) ==
  /\ work[i] = "streams"
  /\ IF i \notin h2pending THEN Works(h2, i, "over")
     ELSE LET c == [h2 EXCEPT !.streams[i].fin = TRUE]
          IN Works(IF c.streams[i].out = 0 THEN CloseStream(SendData(c, i, 0, TRUE), i)
                   ELSE PumpStream(c, i), i, "over")

-----------------------------------------------------------------------------
(* The end of the connection.                                               *)

\* stalled: a stream is still receiving its request
Stalled == \E i \in Live(h2) : ~h2.streams[i].ended

Sweep == Open /\ Stalled /\ Continue(ConnError(h2, "closed"))
SocketLost == Open /\ Continue(ConnError(h2, "closed"))

Orphaned(c) == h2pending \ Live(c)

\* onClosed: the streams go, and with them what could reach this connection
OnClosed ==
  /\ ~Open /\ ~h2.freed
  /\ h2' = [h2 EXCEPT !.streams = <<>>, !.freed = TRUE]
  /\ h2pending' = Orphaned(h2)
  /\ UNCHANGED work

Frame ==
  \/ \E i \in NextIds, end, whole \in BOOLEAN :
       OpenStream(i, end, whole) \/ RefuseStream(i, whole) \/ Trailers(i, end, whole)
  \/ \E i \in NextIds : StaleHeaders(i) \/ Reset(i)
  \/ \E i \in NextIds, n \in Payloads : DataRefused(i, n) \/ \E end \in BOOLEAN, k \in {0, n} : Data(i, n, k, end)
  \/ \E i \in NextIds, n \in Increments : WindowUpdateStream(i, n)
  \/ \E n \in Increments : WindowUpdateConn(n)
  \/ \E w \in Windows : Settings(w)
  \/ Interleaves \/ Continuation \/ BadFrame

Handler(i) == \/ \E n \in Bodies \cup {TooBig} : Submit(i, n)
              \/ TimesOut(i) \/ StreamStart(i) \/ StreamEnd(i)
              \/ \E n \in Chunks : StreamChunk(i, n)

Http2Next == Frame \/ Sweep \/ SocketLost \/ OnClosed \/ \E i \in Ids : Handler(i)

Http2Spec == Http2Init /\ [][Http2Next]_http2Vars

-----------------------------------------------------------------------------
(* Properties.                                                              *)

\* The state keeps its shape; the bodies of one connection stay within their
\* budget, each within its limit (onDataFrame, bodyBudget), and the backlog of a
\* streamed response within max_write_queue (queueOut).
H2TypeOK ==
  /\ h2.inflight \in 0..BodyBudget
  /\ \A i \in Live(h2) :
       /\ h2.streams[i].received \in 0..MaxBody
       /\ h2.streams[i].out \in Nat
       /\ i \in h2pending /\ work[i] = "streams" => h2.streams[i].out <= MaxQueue
  /\ Cardinality(Live(h2)) <= MaxConcurrent
  /\ h2pending \subseteq DOMAIN work
  /\ \A i \in DOMAIN work : work[i] \in {"none", "awaits", "late", "streams", "over"}

\* body_inflight is what the streams hold: whichever way a stream ends, its
\* share of the budget is released once (closeStream, onDataFrame).
BudgetExact ==
  Open => h2.inflight = MapThenSumSet(LAMBDA i : h2.streams[i].received, Live(h2))

\* An id in h2_pending leads to a stream that lives, on a connection that is
\* not freed (closeStream, onClosed): its handler may call at any time.
PendingLeadsHome == /\ h2pending \subseteq Live(h2)
                    /\ h2.freed => h2pending = {}

\* A dispatched stream can be finished: its response is complete but for the
\* peer's windows, or its handler still finds it (respond, h2_pending).
CanBeFinished ==
  \A i \in Live(h2) :
    h2.streams[i].dispatched => h2.streams[i].fin \/ i \in h2pending

\* A request that has arrived in full is with its handler, or its header block
\* is the one being assembled (handleFrame keeps the parts of a block together).
CompleteIsDispatched ==
  Open => \A i \in Live(h2) : h2.streams[i].ended =>
            h2.streams[i].dispatched \/ h2.cont.id = i

\* Whatever frames, answers, timeouts and ends follow one another, the records of
\* a connection agree: the budget is what its streams hold, every id a handler
\* may still use is alive, no complete or dispatched request is left to nobody.
StreamsAccounted ==
  H2TypeOK /\ BudgetExact /\ PendingLeadsHome /\ CanBeFinished /\ CompleteIsDispatched

\* END_STREAM follows one head and every byte of the response (sendBody,
\* pumpStream, streamEnd): the peer never takes a part for the whole.
NothingTorn == ~h2.torn

\* A timed-out request is answered by its 408 or by its handler, not by both
\* (submitResponse's fetchRemove): no stream is sent a second head.
AnsweredOnce == \A i \in Live(h2) : h2.streams[i].heads <= 1

\* A response is one head and all of its bytes, whichever of the handler, the
\* timeout, the pump and the peer's windows acts last (writeResponse, pumpStream).
ResponsesWhole == NothingTorn /\ AnsweredOnce

\* DATA is sent only within what the peer has granted on the stream and on
\* the connection, also when a SETTINGS has shrunk the window below zero.
NeverOversends ==
  [][\A i \in Live(h2) \cap Live(h2)' :
       h2'.streams[i].sent > h2.streams[i].sent => h2'.streams[i].window >= 0 /\ h2'.peer >= 0]_http2Vars

\* No response waits while both its windows are open: every event that opens
\* one pumps (onSettings, onWindowUpdate, streamChunk, streamEnd).
NothingStuck ==
  Open => \A i \in Live(h2) : h2.streams[i].out > 0 => Room(h2, i) = 0

\* An upload can always go on: what a DATA frame used, of either window, comes
\* back also when its stream is gone or its payload is padding (ackConnWindow).
UploadsMayGoOn ==
  Open => /\ h2.told > 0
          /\ \A i \in Live(h2) : h2.streams[i].ended \/ h2.streams[i].told > 0

\* A connection is closed for DATA beyond its window only if the peer sent more
\* than it was told it may (onDataFrame, start, sendPreface).
FlowErrorsDeserved == h2.closing = "flow" => h2.told < 0

\* A client that only cancels requests that reached their handlers is never
\* closed for a reset flood, however many it cancels (dispatch, onRstStream).
ResetsForgiven == h2.closing = "calm" => ~h2.polite

\* Flow control neither strands a response nor an upload, and no peer that kept
\* to the rules is closed (the windows of onDataFrame, onSettings and
\* onWindowUpdate, the budget of onRstStream).
NothingStarves == NothingStuck /\ UploadsMayGoOn /\ FlowErrorsDeserved /\ ResetsForgiven
=============================================================================
