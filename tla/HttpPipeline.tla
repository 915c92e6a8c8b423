---------------------------- MODULE HttpPipeline ----------------------------
(***************************************************************************)
(* The request pipeline of one HTTP/1.1 connection, plain or TLS           *)
(* (src/src/core/loop.zig, engine.zig, src/src/http/stream.zig): reads     *)
(* into the inline or the overflow buffer, the drain loop over pipelined   *)
(* requests, the cork, suspension on an asynchronous or streaming handler, *)
(* resumption, and the TLS record loop around it.                          *)
(*                                                                         *)
(* The client sends the requests of a script; a request is `head' units of *)
(* head followed by `body' units of body, and <<r, k>> is the k-th unit of *)
(* request r.  drain and tlsDrive are loops on one thread: each iteration  *)
(* is a step (pc), and nothing but the client acts in between.  What a     *)
(* handler computes, the bytes of a response and a failed allocation are   *)
(* left out; the write path is WriteQueue.                                 *)
(***************************************************************************)
EXTENDS Integers, Sequences

CONSTANTS
    BufSize,    \* read_buf_size, in units
    InSize,     \* tlsmod.in_size: room a record needs, and what st.in holds
    CorkMax,    \* responses the cork holds before it is flushed
    MaxBody,    \* eng.max_body
    Clients     \* the clients: over TLS or not, and the requests they send

Modes == {"sync", "native", "direct", "async", "stream", "bad"}

Request == [head : Nat \ {0}, body : Nat, mode : Modes, close : BOOLEAN]

ASSUME SizesAssumption ==
    /\ BufSize \in Nat /\ InSize \in Nat \ {0} /\ InSize <= BufSize
    /\ CorkMax \in Nat \ {0} /\ MaxBody \in Nat
ASSUME ClientsAssumption == Clients \subseteq [tls : BOOLEAN, script : Seq(Request)]

VARIABLES
    tls,        \* the connection terminates TLS (conn.tls)
    script,     \* the requests of this client
    next,       \* the unit the client sends next
    net,        \* segments (TLS: records) under way; <<>> is the client's end
    buf,        \* the buffered plaintext; Len(buf) is conn.filled
    overflow,   \* capacity of the overflow buffer, 0 when inline
    tlsin,      \* records in st.in, not yet decrypted
    conn,       \* awaiting, reading, closing
    pend,       \* pending_consume, pending_keep_alive, and the awaited request
    job,        \* JavaScript's side of the awaited request
    frame,      \* the locals of drain, and where it returns to
    pc,         \* what the thread is doing
    out,        \* what has been written, in order
    dispatched  \* requests handed to a JavaScript handler, in order

vars == <<tls, script, next, net, buf, overflow, tlsin, conn, pend, job, frame, pc, out, dispatched>>
client == <<tls, script, next>>
reply == <<out, dispatched>>

-----------------------------------------------------------------------------
(* Requests, units and buffers. *)
Size(r) == script[r].head + script[r].body
Units(r) == [k \in 1..Size(r) |-> <<r, k>>]
Succ(u) == IF u[2] < Size(u[1]) THEN <<u[1], u[2] + 1>> ELSE <<u[1] + 1, 1>>

activeLen == IF overflow # 0 THEN overflow ELSE BufSize
Room == activeLen - Len(buf)
DropFirst(s, n) == SubSeq(s, n + 1, Len(s))
Min2(a, b) == IF a < b THEN a ELSE b

Response(r, part) == [req |-> r, part |-> part, close |-> script[r].close]
ErrorFor(r) == [req |-> r, part |-> "full", close |-> TRUE]

(* The frame of a drain that has just been entered. *)
NewFrame(ret) == [cursor |-> 0, cork |-> <<>>, keep_alive |-> TRUE, ret |-> ret, space |-> 0]

Init ==
    /\ \E c \in Clients : tls = c.tls /\ script = c.script
    /\ next = <<1, 1>>
    /\ net = <<>>
    /\ buf = <<>>
    /\ overflow = 0
    /\ tlsin = <<>>
    /\ conn = [awaiting |-> FALSE, reading |-> TRUE, closing |-> FALSE]
    /\ pend = [consume |-> 0, keep_alive |-> TRUE, req |-> 0]
    /\ job = "none"
    /\ frame = NewFrame("loop")
    /\ pc = "loop"
    /\ out = <<>>
    /\ dispatched = <<>>

(* closeConn: the guard, the flag; reads stop with the handle. *)
Closed(c) == [c EXCEPT !.closing = TRUE, !.reading = FALSE]

(* finishRequest: an overflow buffer is freed whole, the inline one slides. *)
finishRequest(n) ==
    \/ /\ overflow # 0
       /\ buf' = <<>>
       /\ overflow' = 0
    \/ /\ overflow = 0
       /\ buf' = DropFirst(buf, n)
       /\ UNCHANGED overflow

(* resetConn: discard everything buffered. *)
resetConn == buf' = <<>> /\ overflow' = 0

-----------------------------------------------------------------------------
(* The client (external).  What it sends to a closing connection is never   *)
(* read, and is left out.                                                   *)
Sendable(u) == u[1] \in 1..Len(script) /\ ~conn.closing
Ended == LET sent == tlsin \o net IN sent # <<>> /\ sent[Len(sent)] = <<>>

(* Sends the next n units of a request as one segment (TLS: one record). *)
ClientSend ==
    /\ Sendable(next)
    /\ ~Ended
    /\ \E n \in 1..Min2(Size(next[1]) - next[2] + 1, IF tls THEN InSize ELSE 1) :
        /\ net' = Append(net, [i \in 1..n |-> <<next[1], next[2] + i - 1>>])
        /\ next' = Succ(<<next[1], next[2] + n - 1>>)
    /\ UNCHANGED <<tls, script, buf, overflow, tlsin, conn, pend, job, frame, pc, reply>>

(* The end of two requests in one record: the tail of one, the next entire. *)
ClientSendAcross ==
    /\ tls
    /\ Sendable(next) /\ Sendable(<<next[1] + 1, 1>>)
    /\ ~Ended
    /\ LET rest == [i \in 1..(Size(next[1]) - next[2] + 1) |-> <<next[1], next[2] + i - 1>>]
           both == rest \o Units(next[1] + 1)
       IN  /\ Len(both) <= InSize
           /\ net' = Append(net, both)
    /\ next' = <<next[1] + 2, 1>>
    /\ UNCHANGED <<tls, script, buf, overflow, tlsin, conn, pend, job, frame, pc, reply>>

(* FIN, or the TLS close_notify, after whole requests. *)
ClientEnd ==
    /\ next[2] = 1 /\ next[1] > 1
    /\ ~Ended /\ ~conn.closing
    /\ net' = Append(net, <<>>)
    /\ UNCHANGED <<client, buf, overflow, tlsin, conn, pend, job, frame, pc, reply>>

-----------------------------------------------------------------------------
(* onRead on a plain connection: what fits is appended, then drain. *)
OnRead ==
    /\ ~tls /\ pc = "loop"
    /\ conn.reading
    /\ net # <<>> /\ Head(net) # <<>>
    /\ \E n \in 1..Min2(Room, Len(net)) :
        /\ \A i \in 1..n : net[i] # <<>>
        /\ buf' = buf \o [i \in 1..n |-> net[i][1]]
        /\ net' = DropFirst(net, n)
    /\ pc' = "drain"
    /\ frame' = NewFrame("loop")
    /\ UNCHANGED <<client, overflow, tlsin, conn, pend, job, reply>>

OnReadEof ==
    /\ ~tls /\ pc = "loop"
    /\ conn.reading
    /\ net # <<>> /\ Head(net) = <<>>
    /\ net' = Tail(net)
    /\ conn' = Closed(conn)
    /\ UNCHANGED <<client, buf, overflow, tlsin, pend, job, frame, pc, out, dispatched>>

(* onRead on a TLS connection: whole records into st.in, then tlsDrive. *)
RecordSize(rec) == IF rec = <<>> THEN 1 ELSE Len(rec)

InLen(recs) == \* st.in_len
    LET sum[i \in 0..Len(recs)] == IF i = 0 THEN 0 ELSE sum[i - 1] + RecordSize(recs[i])
    IN  sum[Len(recs)]

OnReadTls ==
    /\ tls /\ pc = "loop"
    /\ conn.reading
    /\ \E n \in 1..Len(net) :
        /\ InLen(tlsin \o SubSeq(net, 1, n)) <= InSize
        /\ tlsin' = tlsin \o SubSeq(net, 1, n)
        /\ net' = DropFirst(net, n)
    /\ pc' = "tls"
    /\ UNCHANGED <<client, buf, overflow, conn, pend, job, frame, reply>>

(***************************************************************************)
(* tlsDrive, past the handshake: decrypt while a record is ready and there *)
(* is room for a whole one, deliver when there is not, deliver at the end. *)
(***************************************************************************)
TlsNoRoom ==
    /\ pc = "tls" /\ tlsin # <<>>
    /\ Room < InSize
    /\ pc' = "drain"
    /\ frame' = [NewFrame("retry") EXCEPT !.space = Room]
    /\ UNCHANGED <<client, net, buf, overflow, tlsin, conn, pend, job, reply>>

TlsRecord ==
    /\ pc = "tls" /\ tlsin # <<>>
    /\ Room >= InSize
    /\ tlsin' = Tail(tlsin)
    /\ buf' = buf \o Head(tlsin)
    /\ \/ /\ Head(tlsin) # <<>>
          /\ UNCHANGED <<pc, frame>>
       \/ /\ Head(tlsin) = <<>>
          /\ pc' = "drain"
          /\ frame' = NewFrame("closed")
    /\ UNCHANGED <<client, net, overflow, conn, pend, job, reply>>

TlsDone ==
    /\ pc = "tls" /\ tlsin = <<>>
    /\ pc' = "drain"
    /\ frame' = NewFrame("loop")
    /\ UNCHANGED <<client, net, buf, overflow, tlsin, conn, pend, job, reply>>

-----------------------------------------------------------------------------
(***************************************************************************)
(* drain.  The head of the request at the cursor ends at the first unit    *)
(* that is the last of some head; the head parses when it starts at the    *)
(* cursor and is well formed.                                              *)
(***************************************************************************)
HeadEnds == {p \in (frame.cursor + 1)..Len(buf) : buf[p][2] = script[buf[p][1]].head}
HeadEnd == CHOOSE p \in HeadEnds : \A q \in HeadEnds : p <= q
Req == buf[HeadEnd][1]
Total == HeadEnd + script[Req].body
RequestLen == Total - frame.cursor
Parses == HeadEnd - frame.cursor = script[Req].head /\ script[Req].mode # "bad"

Draining == pc = "drain" /\ frame.cursor < Len(buf)
Found == Draining /\ HeadEnds # {}
Admitted == Found /\ Parses /\ script[Req].body <= MaxBody
Complete == Admitted /\ RequestLen <= activeLen /\ Len(buf) >= Total

(* Error paths: answer 400 or 413, drop what is buffered, close on the way out. *)
Refuse(r) ==
    /\ resetConn
    /\ frame' = [frame EXCEPT !.cork = Append(@, ErrorFor(r)), !.keep_alive = FALSE, !.cursor = 0]
    /\ pc' = "exit"
    /\ UNCHANGED <<client, net, tlsin, conn, pend, job, reply>>

HeadWontFit == frame.cursor = 0 /\ overflow = 0 /\ Len(buf) = BufSize

HeadTooLarge == Draining /\ HeadEnds = {} /\ HeadWontFit /\ Refuse(buf[1][1])

BadRequest == Found /\ ~Parses /\ Refuse(buf[frame.cursor + 1][1])

PayloadTooLarge == Found /\ Parses /\ script[Req].body > MaxBody /\ Refuse(Req)

(* The loop ends: nothing is left, or the head at the tail is incomplete. *)
DrainWait ==
    /\ pc = "drain"
    /\ \/ frame.cursor >= Len(buf)
       \/ Draining /\ HeadEnds = {} /\ ~HeadWontFit
    /\ pc' = "exit"
    /\ UNCHANGED <<client, net, buf, overflow, tlsin, conn, pend, job, frame, reply>>

(* The request outgrows the buffer: it moves to one of its own size, with   *)
(* room for one more record on a TLS connection (growForBody).              *)
GrowForBody ==
    /\ Admitted
    /\ RequestLen > activeLen
    /\ overflow' = RequestLen + (IF tls THEN InSize ELSE 0)
    /\ buf' = IF frame.cursor > 0 /\ overflow # 0 THEN <<>> ELSE DropFirst(buf, frame.cursor)
    /\ frame' = [frame EXCEPT !.cursor = 0]
    /\ pc' = "exit"
    /\ UNCHANGED <<client, net, tlsin, conn, pend, job, reply>>

(* The body is still arriving and fits: slide what has been handled. *)
AwaitBodyKeepsPrefix ==                                 \* seeded fault
    /\ Admitted
    /\ RequestLen <= activeLen /\ Len(buf) < Total
    /\ UNCHANGED <<buf, overflow>>
    /\ frame' = [frame EXCEPT !.cursor = 0]
    /\ pc' = "exit"
    /\ UNCHANGED <<client, net, tlsin, conn, pend, job, reply>>

AwaitBody ==
    /\ Admitted
    /\ RequestLen <= activeLen /\ Len(buf) < Total
    /\ \/ frame.cursor = 0 /\ UNCHANGED <<buf, overflow>>
       \/ frame.cursor > 0 /\ finishRequest(frame.cursor)
    /\ frame' = [frame EXCEPT !.cursor = 0]
    /\ pc' = "exit"
    /\ UNCHANGED <<client, net, tlsin, conn, pend, job, reply>>

(* A nearly full cork is flushed before the next response goes into it. *)
CorkFull == Len(frame.cork) >= CorkMax
Flushed == IF CorkFull THEN out \o frame.cork ELSE out
Corked == IF CorkFull THEN <<>> ELSE frame.cork

(* Answered natively (429, 405, 404) or by a synchronous handler. *)
AnswerIntoCork ==
    /\ Complete
    /\ script[Req].mode \in {"sync", "native"}
    /\ out' = Flushed
    /\ frame' = [frame EXCEPT !.cork = Append(Corked, Response(Req, "full")),
                              !.cursor = Total,
                              !.keep_alive = @ /\ ~script[Req].close]
    /\ dispatched' = IF script[Req].mode = "sync" THEN Append(dispatched, Req) ELSE dispatched
    /\ UNCHANGED <<client, net, buf, overflow, tlsin, conn, pend, job, pc>>

(* A static file, or a response larger than the cork: it is written past    *)
(* the cork, which is flushed first.                                        *)
AnswerDirect ==
    /\ Complete
    /\ script[Req].mode = "direct"
    /\ out' = Append(out \o frame.cork, Response(Req, "full"))
    /\ frame' = [frame EXCEPT !.cork = <<>>,
                              !.cursor = Total,
                              !.keep_alive = @ /\ ~script[Req].close]
    /\ UNCHANGED <<client, net, buf, overflow, tlsin, conn, pend, job, pc, dispatched>>

(* dispatchAndEmit, .awaiting: flush, suspend, stop reading; drain returns  *)
(* at once, without the bookkeeping at its end.                             *)
SuspendSlides ==                                        \* seeded fault
    /\ Complete
    /\ script[Req].mode \in {"async", "stream"}
    /\ out' = out \o frame.cork
    /\ dispatched' = Append(dispatched, Req)
    /\ pend' = [consume |-> Total, keep_alive |-> ~script[Req].close, req |-> Req]
    /\ job' = script[Req].mode
    /\ finishRequest(frame.cursor)
    /\ conn' = [conn EXCEPT !.awaiting = TRUE, !.reading = FALSE]
    /\ pc' = "loop"
    /\ UNCHANGED <<client, net, tlsin, frame>>

Suspend ==
    /\ Complete
    /\ script[Req].mode \in {"async", "stream"}
    /\ out' = out \o frame.cork
    /\ dispatched' = Append(dispatched, Req)
    /\ pend' = [consume |-> Total, keep_alive |-> ~script[Req].close, req |-> Req]
    /\ job' = script[Req].mode
    /\ pc' = "loop"
    /\ conn' = [conn EXCEPT !.awaiting = TRUE, !.reading = FALSE,
                            !.closing = (frame.ret = "closed")]
    /\ UNCHANGED <<client, net, buf, overflow, tlsin, frame>>

(***************************************************************************)
(* The end of drain: slide what was handled, write the cork, close if a    *)
(* request asked for it; then back to the loop or into tlsDrive, which     *)
(* drops the connection when the delivery made no room.                    *)
(***************************************************************************)
DrainExit ==
    /\ pc = "exit"
    /\ \/ frame.cursor = 0 /\ UNCHANGED <<buf, overflow>>
       \/ frame.cursor > 0 /\ finishRequest(frame.cursor)
    /\ out' = out \o frame.cork
    /\ \/ /\ ~frame.keep_alive \/ frame.ret = "closed"
          /\ conn' = Closed(conn)
          /\ pc' = "loop"
       \/ /\ frame.keep_alive /\ frame.ret # "closed"
          /\ pc' = frame.ret
          /\ UNCHANGED conn
    /\ frame' = [frame EXCEPT !.cursor = 0, !.cork = <<>>]
    /\ UNCHANGED <<client, net, tlsin, pend, job, dispatched>>

TlsRetry ==
    /\ pc = "retry"
    /\ \/ /\ Room <= frame.space
          /\ conn' = Closed(conn)
          /\ pc' = "loop"
       \/ /\ Room > frame.space
          /\ pc' = "tls"
          /\ UNCHANGED conn
    /\ UNCHANGED <<client, net, buf, overflow, tlsin, pend, job, frame, out, dispatched>>

-----------------------------------------------------------------------------
(***************************************************************************)
(* JavaScript settles the awaited request.  The response is the last thing *)
(* written for it; the request leaves the buffer; the connection resumes,  *)
(* or closes.  On a closing connection every export is a no-op.            *)
(***************************************************************************)
Resume(then) ==
    /\ finishRequest(pend.consume)
    /\ frame' = NewFrame("loop")
    /\ \/ /\ pend.keep_alive
          /\ conn' = [conn EXCEPT !.awaiting = FALSE, !.reading = TRUE]
          /\ pc' = then
       \/ /\ ~pend.keep_alive
          /\ conn' = Closed([conn EXCEPT !.awaiting = FALSE])
          /\ UNCHANGED pc

ResumeIntoDrain ==                                      \* seeded fault
    /\ pc = "loop" /\ job = "async"
    /\ ~conn.closing
    /\ job' = "none"
    /\ out' = Append(out, Response(pend.req, "full"))
    /\ Resume("drain")
    /\ UNCHANGED <<client, net, tlsin, pend, dispatched>>

submitResponse ==
    /\ pc = "loop" /\ job = "async"
    /\ ~conn.closing
    /\ job' = "none"
    /\ out' = Append(out, Response(pend.req, "full"))
    /\ Resume(IF tls THEN "tls" ELSE "drain")
    /\ UNCHANGED <<client, net, tlsin, pend, dispatched>>

startStream ==
    /\ pc = "loop" /\ job = "stream"
    /\ ~conn.closing
    /\ job' = "chunks"
    /\ out' = Append(out, Response(pend.req, "head"))
    /\ UNCHANGED <<client, net, buf, overflow, tlsin, conn, pend, frame, pc, dispatched>>

writeStreamChunk ==
    /\ pc = "loop" /\ job = "chunks"
    /\ ~conn.closing
    /\ job' = "last"
    /\ out' = Append(out, Response(pend.req, "chunk"))
    /\ UNCHANGED <<client, net, buf, overflow, tlsin, conn, pend, frame, pc, dispatched>>

endStream ==
    /\ pc = "loop" /\ job \in {"chunks", "last"}
    /\ ~conn.closing
    /\ job' = "none"
    /\ out' = Append(out, Response(pend.req, "end"))
    /\ Resume("drain")
    /\ UNCHANGED <<client, net, tlsin, pend, dispatched>>

(* Too late: the connection is closing, or gone. *)
SettleClosed ==
    /\ pc = "loop" /\ job # "none"
    /\ conn.closing
    /\ job' = "none"
    /\ UNCHANGED <<client, net, buf, overflow, tlsin, conn, pend, frame, pc, reply>>

(* closeServer: every live connection is closed, awaited or not. *)
closeServer ==
    /\ pc = "loop"
    /\ ~conn.closing
    /\ conn' = Closed(conn)
    /\ UNCHANGED <<client, net, buf, overflow, tlsin, pend, job, frame, pc, out, dispatched>>

-----------------------------------------------------------------------------
Client == ClientSend \/ ClientSendAcross \/ ClientEnd

Drain ==
    \/ HeadTooLarge \/ BadRequest \/ PayloadTooLarge
    \/ DrainWait \/ GrowForBody \/ AwaitBody
    \/ AnswerIntoCork \/ AnswerDirect \/ Suspend \/ DrainExit

Engine ==
    \/ OnRead \/ OnReadEof \/ OnReadTls
    \/ TlsNoRoom \/ TlsRecord \/ TlsDone \/ TlsRetry
    \/ Drain

Handler == submitResponse \/ startStream \/ writeStreamChunk \/ endStream \/ SettleClosed

Next == Client \/ Engine \/ Handler \/ closeServer

(***************************************************************************)
(* The event loop runs what is ready, and handlers are assumed to settle;  *)
(* nothing obliges the client to send anything more.                       *)
(***************************************************************************)
Spec == Init /\ [][Next]_vars /\ WF_vars(Engine) /\ WF_vars(Handler)

-----------------------------------------------------------------------------
(* The shape of the state; what is buffered fits the buffer it is in. *)
TypeOK ==
    /\ [tls |-> tls, script |-> script] \in Clients
    /\ next \in Nat \X Nat
    /\ Len(buf) <= activeLen
    /\ overflow \in Nat
    /\ DOMAIN conn = {"awaiting", "reading", "closing"}
    /\ pend.consume \in Nat /\ pend.req \in 0..Len(script)
    /\ job \in {"none", "async", "stream", "chunks", "last"}
    /\ frame.cursor \in 0..Len(buf)
    /\ frame.ret \in {"loop", "retry", "closed"}
    /\ pc \in {"loop", "tls", "drain", "exit", "retry"}

(* Pipelined responses leave in request order, one for each request, and    *)
(* nothing is written between the head of a stream and its end: across      *)
(* corked, direct, suspended and streamed answers.                          *)
ResponsesInOrder ==
    /\ out # <<>> => out[1].req = 1 /\ out[1].part \in {"full", "head"}
    /\ \A i \in 1..(Len(out) - 1) :
        \/ /\ out[i + 1].req = out[i].req
           /\ out[i].part \in {"head", "chunk"} /\ out[i + 1].part \in {"chunk", "end"}
        \/ /\ out[i + 1].req = out[i].req + 1
           /\ out[i].part \in {"full", "end"} /\ out[i + 1].part \in {"full", "head"}

(* A handler runs at most once for a request, although the request stays in *)
(* the buffer while its handler is awaited and drain parses from there.     *)
DispatchOnce == \A i, j \in 1..Len(dispatched) : i < j => dispatched[i] < dispatched[j]

(* While a handler is awaited its request is intact in the buffer: the body *)
(* view it was given points there (the comment in dispatchAndEmit).         *)
AwaitedIntact ==
    conn.awaiting =>
        /\ pend.consume <= Len(buf)
        /\ SubSeq(buf, pend.consume - Size(pend.req) + 1, pend.consume) = Units(pend.req)

(* Whatever way each request is answered, one response leaves for each, in  *)
(* order, to a handler that ran once over a body that stayed in place.      *)
AnswersInOrder == TypeOK /\ ResponsesInOrder /\ DispatchOnce /\ AwaitedIntact

Concat(recs) ==
    LET upto[i \in 0..Len(recs)] == IF i = 0 THEN <<>> ELSE upto[i - 1] \o recs[i]
    IN  upto[Len(recs)]

LastHandled ==
    CASE conn.awaiting -> pend.req
      [] ~conn.awaiting /\ out = <<>> -> 0
      [] OTHER -> out[Len(out)].req

(* Between callbacks every unit the client sent is in exactly one place:    *)
(* part of a handled request, buffered, in st.in, or on its way; what is    *)
(* left starts with the first unit of the next request, with no gap.        *)
NothingLost ==
    pc = "loop" /\ ~conn.closing =>
        LET rest == DropFirst(buf, IF conn.awaiting THEN pend.consume ELSE 0)
                        \o Concat(tlsin) \o Concat(net)
            line == Append(rest, next)
        IN  /\ line[1] = <<LastHandled + 1, 1>>
            /\ \A i \in 1..Len(rest) : line[i + 1] = Succ(line[i])

(* An armed read always has somewhere to put a byte; libuv reports ENOBUFS  *)
(* otherwise, and onRead takes that for the end of the connection.          *)
RoomToRead ==
    pc = "loop" /\ conn.reading =>
        IF tls THEN InLen(tlsin) < InSize ELSE Room > 0

(* Wherever reads cut the requests and whichever buffer holds them, no byte *)
(* is lost and the next has its place (growForBody, finishRequest, drain).  *)
InputKept == NothingLost /\ RoomToRead

(* Every request the client has sent in full is answered, unless the        *)
(* connection closes: no suspended connection stays suspended, no buffered  *)
(* request or record waits for a read that need not come.                   *)
SentInFull(r) == r <= Len(script) /\ next[1] > r
Answered(r) == \E i \in 1..Len(out) : out[i].req = r /\ out[i].part \in {"full", "end"}
EveryRequestAnswered == \A r \in 1..3 : SentInFull(r) ~> (Answered(r) \/ conn.closing)
=============================================================================
