------------------------------ MODULE WebSocket -----------------------------
(***************************************************************************)
(* One upgraded connection: the native session (frames in, reassembly,     *)
(* control frames, the close handshake) with the TokiWebSocket above it.   *)
(* The application's handler and listeners run inside the native calls.  A *)
(* payload is the number of the frame it came in; sizes count payloads.    *)
(***************************************************************************)
EXTENDS Integers, Sequences, SequencesExt

CONSTANTS MaxFrames,     \* bound: frames the client sends
          MaxSends,      \* bound: frames the application sends
          MaxMessage     \* maxWsMessageBytes

ASSUME WebSocketAssumption == MaxFrames \in Nat /\ MaxSends \in Nat /\ MaxMessage \in Nat \ {0}

VARIABLES ws,        \* the connection: stage, fragments, close code, closing, closed, backlog
          frames,    \* the frames handled so far
          told,      \* the events given to the JavaScript side
          sends

wsVars == <<ws, frames, told, sends>>

Normal        == 1000
GoingAway     == 1001
ProtocolError == 1002
Abnormal      == 1006
BadData       == 1007
TooBig        == 1009
NoCode        == 0

\* A client's frames.  `good': the payload is what the opcode and the compression bit say
\* it is (of a close frame, its reason is UTF-8); `big': it alone is longer than MaxMessage;
\* `code': what a close frame says, NoCode where it is malformed.
Frame(ops, fins, codes) ==
  [op : ops, fin : fins, z : BOOLEAN, good : BOOLEAN, big : BOOLEAN, code : codes]

DataFrames ==
  {f \in Frame({"text", "binary", "cont"}, BOOLEAN, {NoCode}) :
     /\ ~ f.big \/ (f.op = "binary" /\ f.fin /\ f.good /\ ~ f.z)
     /\ f.op = "cont" => ~ f.z
     /\ f.op = "binary" /\ ~ f.z => f.good}     \* any bytes will do

ControlFrames ==
  {f \in Frame({"ping", "close", "reserved"}, {TRUE}, {NoCode, Normal, GoingAway}) :
     /\ ~ f.z /\ ~ f.big
     /\ f.good \/ (f.op = "close" /\ f.code # NoCode)
     /\ f.op = "close" \/ f.code = NoCode}

Frames == DataFrames \cup ControlFrames

\* `stage': what the native call under way does next.  "request": it answers the upgrade;
\* "opening": the 101 is written, the open event is next; "behind": the handler has returned
\* and what is buffered behind the request is next; "ping": the pong is written, the ping
\* event is next; "open": nothing is under way.
WebSocketInit ==
  /\ ws = [stage |-> "request", frag |-> <<>>, code |-> Abnormal, closing |-> FALSE,
           closed |-> FALSE, backlog |-> FALSE]
  /\ frames = <<>> /\ told = <<>> /\ sends = 0

-----------------------------------------------------------------------------
(* Outgoing frames, and the end of a connection.                            *)

\* sendFrame: it is flushed, some of it stays queued, or the write queue overflows and the
\* connection goes down
Written(w) == IF w.closing THEN {w}
              ELSE {w, [w EXCEPT !.backlog = TRUE], [w EXCEPT !.closing = TRUE]}

\* closeWs: the code, the close frame, closeConn; the first close wins
ClosedWs(w, code) ==
  IF w.closing THEN {w} ELSE {[v EXCEPT !.code = code, !.closing = TRUE] : v \in Written(w)}

\* what a listener does while its event is dispatched: it may send, and then close()
Listened(w) == UNION {{v} \cup ClosedWs(v, Normal) : v \in Written(w)}

Event(ev, what) == <<[ev |-> ev, what |-> what]>>

-----------------------------------------------------------------------------
(* The upgrade, in one native call: the 101, the application's handler, and the frames     *)
(* buffered behind the request.                                                            *)

\* the responses held back and the 101; the write queue may overflow
Handshake ==
  /\ ws.stage = "request"
  /\ \E w \in Written(ws) : ws' = [w EXCEPT !.stage = "opening"]
  /\ UNCHANGED <<frames, told, sends>>

\* the open event, whatever became of the 101
TellOpen ==
  /\ ws.stage = "opening"
  /\ \E w \in Listened(ws) : ws' = [w EXCEPT !.stage = "behind"]
  /\ told' = told \o Event("open", 0)
  /\ UNCHANGED <<frames, sends>>

NothingBehind ==
  /\ ws.stage = "behind"
  /\ ws' = [ws EXCEPT !.stage = "open"]
  /\ UNCHANGED <<frames, told, sends>>

-----------------------------------------------------------------------------
(* Frames in.                                                               *)

\* frame.validate: the code to close with, if the frame breaks the protocol
Validate(f) ==
  CASE f.op = "reserved" -> ProtocolError
    [] f.op \in {"text", "binary"} /\ ws.frag # <<>> -> ProtocolError
    [] f.op = "cont" /\ ws.frag = <<>> -> ProtocolError
    [] f.big -> TooBig
    [] OTHER -> NoCode

\* the frames a message is made of: the fragments, and the one that ends it
Parts(f) ==
  LET first == IF ws.frag = <<>> THEN f ELSE Head(ws.frag)
  IN Append(ws.frag, [op |-> first.op, z |-> first.z, good |-> f.good, at |-> Len(frames) + 1])

\* the connection once the frame in hand is done with, and with its message done with
FrameDone == [ws EXCEPT !.stage = "open"]
MessageDone == [FrameDone EXCEPT !.frag = <<>>]

\* dispatchMessage to _message, then freeFragment
Deliver(ps) ==
    /\ ws' \in Listened(MessageDone)
    /\ told' = told \o Event("message", [of   |-> [i \in DOMAIN ps |-> ps[i].at],
                                         text |-> ps[1].op = "text"])

Refuse(w, code) == ws' \in ClosedWs(w, code) /\ UNCHANGED told

\* the last frame of a message: bad UTF-8 in a text, or a payload that does not inflate
Complete(f) ==
  LET ps  == Parts(f)
      bad == \E i \in DOMAIN ps : ~ ps[i].good
  IN \/ bad /\ ps[1].z /\ Refuse(MessageDone, TooBig)
     \/ bad /\ ps[1].op = "text" /\ Refuse(MessageDone, BadData)
     \/ (bad => ~ ps[1].z /\ ps[1].op = "binary") /\ Deliver(ps)

ReceiveData(f) ==
  /\ f.op \in {"text", "binary", "cont"}
  /\ IF Len(ws.frag) >= MaxMessage THEN Refuse(FrameDone, TooBig)
     ELSE IF f.fin THEN Complete(f)
     ELSE ws' = [FrameDone EXCEPT !.frag = Parts(f)] /\ UNCHANGED told

\* a ping is answered first: the pong may bring the connection down
ReceivePing(f) ==
  /\ f.op = "ping"
  /\ \E w \in Written(ws) : ws' = [w EXCEPT !.stage = "ping"]
  /\ UNCHANGED told

\* and then its listener is told, whatever became of the pong
TellPing ==
  /\ ws.stage = "ping"
  /\ ws' \in Listened(FrameDone)
  /\ told' = told \o Event("ping", Len(frames))
  /\ UNCHANGED <<frames, sends>>

\* handleClose: the peer's code, its echo, closeConn, on a closing connection too
ReceiveClose(f) ==
  /\ f.op = "close"
  /\ IF f.code = NoCode THEN Refuse(FrameDone, ProtocolError)
     ELSE IF ~ f.good THEN Refuse(FrameDone, BadData)
     ELSE /\ \E w \in Written(FrameDone) : ws' = [w EXCEPT !.code = f.code, !.closing = TRUE]
          /\ UNCHANGED told

\* seeded fault: the frames behind one whose listener closed the socket are still handled
MoreInAnyCase == ws.stage \in {"behind", "open"} /\ ~ ws.closed

\* onData goes on to the next frame unless the last one tore the connection down; the
\* upgrade enters it without looking, whatever the handler did
More == ws.stage = "behind" \/ (ws.stage = "open" /\ ~ ws.closing)

Receive(f) ==
  /\ More /\ Len(frames) < MaxFrames
  /\ frames' = Append(frames, f)
  /\ IF Validate(f) # NoCode
     THEN Refuse(FrameDone, Validate(f))
     ELSE ReceiveData(f) \/ ReceivePing(f) \/ ReceiveClose(f)
  /\ UNCHANGED sends

-----------------------------------------------------------------------------
(* The application outside its listeners, and the socket.                   *)

\* TokiWebSocket.send, ping and pong
SendFrame == /\ ws.stage = "open" /\ ~ ws.closed /\ sends < MaxSends
        /\ sends' = sends + 1
        /\ ws' \in Written(ws)
        /\ UNCHANGED <<frames, told>>

\* TokiWebSocket.close
CloseSocket == /\ ws.stage = "open" /\ ~ ws.closed
         /\ ws' \in ClosedWs(ws, Normal)
         /\ UNCHANGED <<frames, told, sends>>

\* onWrite empties the queue
Drain == /\ ws.stage = "open" /\ ws.backlog /\ ~ ws.closing
         /\ ws' = [ws EXCEPT !.backlog = FALSE]
         /\ told' = told \o Event("drain", 0)
         /\ UNCHANGED <<frames, sends>>

\* end of stream, a reset, or the sweep
PeerGone == /\ ws.stage = "open" /\ ~ ws.closing
            /\ ws' = [ws EXCEPT !.closing = TRUE]
            /\ UNCHANGED <<frames, told, sends>>

\* onClosed, from the close callback
SocketClosed == /\ ws.stage = "open" /\ ws.closing /\ ~ ws.closed
          /\ ws' = [ws EXCEPT !.closed = TRUE, !.frag = <<>>]
          /\ told' = told \o Event("close", ws.code)
          /\ UNCHANGED <<frames, sends>>

WebSocketStep ==
  \/ Handshake \/ TellOpen \/ NothingBehind
  \/ (\E f \in Frames : Receive(f)) \/ TellPing
  \/ SendFrame \/ CloseSocket \/ Drain \/ PeerGone \/ SocketClosed

-----------------------------------------------------------------------------
(* Properties.                                                              *)

WebSocketTypeOK ==
  /\ ws.code \in {Normal, GoingAway, ProtocolError, Abnormal, BadData, TooBig}
  /\ Len(ws.frag) <= MaxMessage
  /\ \A i \in DOMAIN told : told[i].ev \in {"open", "message", "ping", "drain", "close"}

\* A message is one whole message of the client: it begins with a text or binary frame,
\* takes every continuation up to the one that ends it and nothing else, in order, and
\* has the first frame's type, whatever control frames come between.
MessagesWhole ==
  \A e \in Range(told) : e.ev = "message" =>
    LET of == e.what.of
    IN /\ frames[of[1]].op = (IF e.what.text THEN "text" ELSE "binary")
       /\ frames[Last(of)].fin
       /\ {i \in of[1]..Last(of) : frames[i].op \in {"text", "binary", "cont"}} = Range(of)
       /\ \A i \in 2..Len(of) : of[i - 1] < of[i] /\ frames[of[i]].op = "cont"

\* A connection that is being torn down is silent, but for its one close event and for
\* what the native call that tore it down still has to tell: the open event of an upgrade
\* whose 101 overflowed the write queue, the first frame behind an upgrade whose handler
\* closed the socket, and the ping whose pong overflowed the queue.  A closed one is silent.
SilentOnceClosing ==
  [][/\ ws.closing => \/ told' = told
                      \/ told' = told \o Event("close", ws.code)
                      \/ ws.stage # "open"
     /\ ws.closed => told' = told]_wsVars

\* The close code is settled once: neither a second close() nor the peer's own close frame
\* changes the one the application will be told.  The exception is a close frame that was
\* already behind the upgrade request when the handler closed the socket.
CodeSettled == [][ws.closing /\ ws.stage # "behind" => ws'.code = ws.code]_wsVars

\* What the application hears of a connection: whole messages, one close with the first
\* code, and, but for those three cases, nothing after it began to close (session.zig).
WebSocketCorrect == [](WebSocketTypeOK /\ MessagesWhole) /\ SilentOnceClosing /\ CodeSettled
=============================================================================
