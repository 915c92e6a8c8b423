----------------------------- MODULE TcpSocket ------------------------------
(* One accepted connection of the raw TCP engine (src/net/tcp.zig) and the  *)
(* Socket that ts/net/tcp.ts puts over it: reads, writes with a backlog,    *)
(* half-close, pause, STARTTLS, and every way it can end.  Bytes count in   *)
(* units; WriteQueue has their order.  As in TcpConnect a function of the   *)
(* source is an operator from a state to a state and an action runs one     *)
(* callback, in which one JavaScript listener may call the socket again.    *)
EXTENDS Integers, Sequences, FiniteSets
LOCAL INSTANCE SequencesExt

CONSTANTS
    Modes,          \* a subset of {"plain", "tls", "starttls"}
    SendBuffer,     \* units the kernel takes before the peer reads
    MaxWriteQueue,  \* max_write_queue
    WriteSizes,     \* units of one write()
    MaxOut,         \* bound: units written by the application
    MaxIn           \* bound: records or segments the peer sends

ASSUME ModesAssumption == Modes \subseteq {"plain", "tls", "starttls"}
ASSUME SizesAssumption == /\ SendBuffer \in Nat \ {0} /\ MaxWriteQueue \in Nat
                          /\ WriteSizes \subseteq Nat /\ MaxOut \in Nat /\ MaxIn \in Nat

VARIABLES
    conn,   \* the Conn
    js,     \* the Socket
    peer,   \* the other end, and what it sent that is not read yet
    uv      \* the kernel's and libuv's side, and what was written

vars == <<conn, js, peer, uv>>

Reasons == {"normal", "peer-reset", "write-queue-overflow", "tls-error", "handshake-timeout"}
Records == {"data", "hello", "notify", "junk"}
NoSocket == [known |-> FALSE, ended |-> FALSE, readEnded |-> FALSE, needDrain |-> FALSE,
             upgrade |-> "none", closes |-> 0]

TypeOK ==
    /\ conn \in [mem : {"none", "live", "released"}, mode : Modes, half_open : BOOLEAN, closing : BOOLEAN,
                 reading : BOOLEAN, paused : BOOLEAN, shutting : BOOLEAN, read_ended : BOOLEAN,
                 tls : {"none", "handshake", "established"}, upgrading : BOOLEAN, sent_close : BOOLEAN,
                 close_reason : Reasons, reqs : Seq(Nat \ {0})]
    /\ js \in [known : BOOLEAN, ended : BOOLEAN, readEnded : BOOLEAN, needDrain : BOOLEAN,
               upgrade : {"none", "pending", "resolved", "rejected"}, closes : 0..1]
    /\ peer \in [end : {"open", "fin", "reset"}, inbox : Seq(Records), sent : 0..MaxIn]
    /\ uv \in [sock : 0..SendBuffer, done : Nat, shutdown : BOOLEAN, fin : BOOLEAN,
               written : Nat, wire : Nat, cut : BOOLEAN]

Init ==
    /\ \E mode \in Modes, half_open \in BOOLEAN :
         conn = [mem |-> "none", mode |-> mode, half_open |-> half_open, closing |-> FALSE, reading |-> FALSE,
                 paused |-> FALSE, shutting |-> FALSE, read_ended |-> FALSE, tls |-> "none",
                 upgrading |-> FALSE, sent_close |-> FALSE, close_reason |-> "normal", reqs |-> <<>>]
    /\ js = NoSocket
    /\ peer = [end |-> "open", inbox |-> <<>>, sent |-> 0]
    /\ uv = [sock |-> 0, done |-> 0, shutdown |-> FALSE, fin |-> FALSE, written |-> 0, wire |-> 0, cut |-> FALSE]

Now == [conn |-> conn, js |-> js, peer |-> peer, uv |-> uv]
Become(t) == /\ conn' = t.conn /\ js' = t.js /\ peer' = t.peer /\ uv' = t.uv

-----------------------------------------------------------------------------
(* Closing and writing.  closeConn's alert may itself pass the ceiling; the *)
(* close inside it then tells the reason (WriteQueue has the second         *)
(* uv_close of that case).                                                  *)

Shut(t) == [t EXCEPT !.conn.closing = TRUE, !.conn.reading = FALSE]
Because(t, reason) == [t EXCEPT !.conn.close_reason = reason]

queued_bytes(t) == FoldSeq(LAMBDA n, sum : n + sum, 0, t.conn.reqs)

queueTail(t, n) ==
    IF queued_bytes(t) + n > MaxWriteQueue THEN Shut(Because(t, "write-queue-overflow"))
    ELSE [t EXCEPT !.conn.reqs = Append(@, n)]

rawWriteAll(t, n) ==
    IF t.conn.closing THEN t
    ELSE LET room == IF t.conn.reqs # <<>> \/ t.peer.end = "reset" THEN 0 ELSE SendBuffer - t.uv.sock
             k == IF n < room THEN n ELSE room
             u == [t EXCEPT !.uv.sock = @ + k, !.uv.wire = @ + k]
         IN IF k = n THEN u ELSE queueTail(u, n - k)

SecureOpen(t) == t.conn.tls = "established" /\ ~t.conn.sent_close
closeNotify(t) == rawWriteAll([t EXCEPT !.conn.sent_close = TRUE], 1)

(* seeded fault *)
closeConnTellsLast(t, reason) ==
    IF t.conn.closing THEN Because(t, reason)
    ELSE Shut(IF SecureOpen(t) THEN closeNotify(Because(t, reason)) ELSE Because(t, reason))

closeConn(t, reason) ==
    IF t.conn.closing THEN t
    ELSE Shut(IF SecureOpen(t) THEN closeNotify(Because(t, reason)) ELSE Because(t, reason))

writeAll(t, n) ==
    IF t.conn.tls = "handshake" THEN t ELSE rawWriteAll([t EXCEPT !.uv.written = @ + n], n)

armRead(t) ==
    IF t.conn.reading \/ t.conn.closing \/ t.conn.paused THEN t ELSE [t EXCEPT !.conn.reading = TRUE]

-----------------------------------------------------------------------------
(* The Socket's methods, over the native calls they make. *)

write(t, n) ==
    IF t.js.ended THEN t
    ELSE IF t.conn.closing \/ t.conn.shutting THEN [t EXCEPT !.js.ended = TRUE]
    ELSE LET u == writeAll(t, n)
         IN IF queued_bytes(u) = 0 THEN u ELSE [u EXCEPT !.js.needDrain = TRUE]

tcpEnd(t) ==
    IF t.conn.closing \/ t.conn.shutting THEN t
    ELSE LET u == IF SecureOpen(t) THEN closeNotify(t) ELSE t
         IN IF u.conn.closing THEN u ELSE [u EXCEPT !.conn.shutting = TRUE, !.uv.shutdown = TRUE]

end(t) == IF t.js.ended THEN t ELSE tcpEnd([t EXCEPT !.js.ended = TRUE])

destroy(t) ==
    IF t.js.ended THEN t
    ELSE closeConn([t EXCEPT !.js.ended = TRUE, !.uv.cut = TRUE], "normal")

pause(t) == [t EXCEPT !.conn.paused = TRUE, !.conn.reading = FALSE]

resume(t) ==
    LET u == [t EXCEPT !.conn.paused = FALSE] IN IF t.conn.read_ended THEN u ELSE armRead(u)

(* Refused, by a throw, when it cannot start. *)
upgradeTLS(t) ==
    IF t.js.upgrade = "pending" \/ t.conn.mode = "plain" \/ t.conn.tls # "none" \/ t.conn.closing \/ t.conn.shutting
    THEN t
    ELSE armRead([t EXCEPT !.conn.tls = "handshake", !.conn.upgrading = TRUE, !.js.upgrade = "pending"])

Calls == [name : {"write"}, n : WriteSizes]
            \cup [name : {"end", "destroy", "pause", "resume", "upgradeTLS"}, n : {0}]

Call(t, c) ==
    CASE c.name = "write" -> IF t.uv.written + c.n > MaxOut THEN t ELSE write(t, c.n)
      [] c.name = "end" -> end(t)
      [] c.name = "destroy" -> destroy(t)
      [] c.name = "pause" -> pause(t)
      [] c.name = "resume" -> resume(t)
      [] c.name = "upgradeTLS" -> upgradeTLS(t)

(* What the one listener that reacts in a callback does, and to which event. *)
Reactions == {[to |-> "nothing"]}
                \cup [to : {"connection", "data", "drain", "end", "secure"}, call : Calls]
Listener(t, event, r) == IF r.to = event THEN Call(t, r.call) ELSE t

maybeAutoEnd(t) ==
    IF t.js.readEnded /\ ~t.conn.half_open /\ ~t.js.needDrain /\ ~t.js.ended THEN end(t) ELSE t

emitData(t, r) == Listener(t, "data", r)

emitDrain(t, r) == maybeAutoEnd(Listener([t EXCEPT !.js.needDrain = FALSE], "drain", r))

emitEnd(t, r) == maybeAutoEnd(Listener([t EXCEPT !.js.readEnded = TRUE], "end", r))
emitSecure(t, r) == [Listener(t, "secure", r) EXCEPT !.js.upgrade = "resolved"]

emitClose(t) ==
    [t EXCEPT !.js.closes = @ + 1, !.js.known = FALSE,
              !.js.upgrade = IF @ = "pending" THEN "rejected" ELSE @]

announce(t, r) == Listener([t EXCEPT !.js.known = TRUE], "connection", r)

-----------------------------------------------------------------------------
(* Accept: a rejected peer, a TLS one that is announced later, a plain one. *)

onConnection ==
    /\ conn.mem = "none"
    /\ LET t == [Now EXCEPT !.conn.mem = "live"]
       IN \/ Become(closeConn(t, "normal"))
          \/ conn.mode = "tls" /\ Become(armRead([t EXCEPT !.conn.tls = "handshake"]))
          \/ conn.mode # "tls" /\ \E r \in Reactions : Become(armRead(announce(t, r)))

JsCalls == js.known /\ \E c \in Calls : Become(Call(Now, c))

(* Reads.  One takes any part of what has arrived. *)
Readable == conn.mem = "live" /\ conn.reading

Taken(k) == [Now EXCEPT !.peer.inbox = SubSeq(@, k + 1, Len(@))]

onReadPlain ==
    /\ Readable /\ conn.tls = "none"
    /\ \E k \in 1..Len(peer.inbox), r \in Reactions : Become(emitData(Taken(k), r))

HalfClosed(t, r) ==
    IF t.conn.read_ended THEN t
    ELSE emitEnd([t EXCEPT !.conn.read_ended = TRUE, !.conn.reading = FALSE], r)

(* seeded fault *)
onReadEofCloses ==
    /\ Readable /\ peer.inbox = <<>> /\ peer.end # "open"
    /\ Become(closeConn(Now, IF conn.tls = "none" THEN "normal" ELSE "peer-reset"))

onReadEof ==
    /\ Readable /\ peer.inbox = <<>> /\ peer.end # "open"
    /\ IF conn.tls # "none" THEN Become(closeConn(Now, "peer-reset"))
       ELSE \E r \in Reactions : Become(HalfClosed(Now, r))

(* The records of one read: data up to a close_notify. *)
decryptBatch(t, records, r) ==
    LET notifies == {i \in DOMAIN records : records[i] = "notify"}
        upTo == IF notifies = {} THEN records
                ELSE SubSeq(records, 1, (CHOOSE i \in notifies : \A j \in notifies : i <= j) - 1)
        heard == IF upTo = <<>> THEN t ELSE emitData(t, r)
    IN IF \E i \in DOMAIN upTo : upTo[i] # "data" THEN closeConn(t, "tls-error")
       ELSE IF notifies = {} \/ heard.conn.closing THEN heard
       ELSE HalfClosed(heard, r)

established(t, r) ==
    LET u == [t EXCEPT !.conn.tls = "established", !.conn.upgrading = FALSE]
    IN IF t.conn.upgrading THEN emitSecure(u, r) ELSE announce(u, r)

tlsDrive(t, records, r) ==
    IF t.conn.tls = "established" THEN decryptBatch(t, records, r)
    ELSE IF Head(records) # "hello" THEN closeConn(t, "tls-error")
    ELSE LET u == established(t, r)
         IN IF u.conn.closing THEN u ELSE decryptBatch(u, Tail(records), r)

onReadTls ==
    /\ Readable /\ conn.tls # "none"
    /\ \E k \in 1..Len(peer.inbox), r \in Reactions : Become(tlsDrive(Taken(k), SubSeq(peer.inbox, 1, k), r))

-----------------------------------------------------------------------------
(* The kernel moves a unit of the oldest request; a request that is done,   *)
(* or failed by a reset, calls onWrite.                                     *)

(* seeded fault *)
onWriteAfterEof(t, r) ==
    LET u == [t EXCEPT !.conn.reqs = Tail(@), !.uv.done = 0]
    IN IF ~t.conn.closing /\ ~t.conn.read_ended /\ u.conn.reqs = <<>> THEN emitDrain(u, r) ELSE u

onWrite(t, r) ==
    LET u == [t EXCEPT !.conn.reqs = Tail(@), !.uv.done = 0]
    IN IF ~t.conn.closing /\ u.conn.reqs = <<>> THEN emitDrain(u, r) ELSE u

Sending == conn.mem = "live" /\ ~conn.closing /\ conn.reqs # <<>>

Flush ==
    /\ Sending /\ peer.end # "reset" /\ uv.sock < SendBuffer
    /\ LET t == [Now EXCEPT !.uv.sock = @ + 1, !.uv.wire = @ + 1, !.uv.done = @ + 1]
       IN IF t.uv.done < Head(conn.reqs) THEN Become(t) ELSE \E r \in Reactions : Become(onWrite(t, r))

WriteFails == Sending /\ peer.end = "reset" /\ \E r \in Reactions : Become(onWrite(Now, r))

(* The queue is empty: the FIN goes out, and onShutdown closes. *)
onShutdown ==
    /\ uv.shutdown /\ ~conn.closing /\ conn.reqs = <<>>
    /\ Become(closeConn([Now EXCEPT !.uv.shutdown = FALSE, !.uv.fin = TRUE], "normal"))

(* libuv cancels a pending shutdown and the queued writes, then onClose. *)
onClose ==
    /\ conn.mem = "live" /\ conn.closing
    /\ LET cancelled == IF uv.shutdown THEN closeConn([Now EXCEPT !.uv.shutdown = FALSE], "normal") ELSE Now
           t == [cancelled EXCEPT !.conn.mem = "released", !.conn.reqs = <<>>]
       IN Become(IF js.known THEN emitClose(t) ELSE t)

(* The sweep (an idle connection, a slow handshake) and close(). *)
Cut(reason) ==
    /\ conn.mem = "live" /\ ~conn.closing
    /\ Become(closeConn([Now EXCEPT !.uv.cut = TRUE], reason))
sweepConns == Cut(IF conn.tls = "handshake" THEN "handshake-timeout" ELSE "normal")
closeServer == Cut("normal")

(* The peer: it sends, reads, half-closes, resets. *)
PeerSends ==
    /\ conn.mem # "none" /\ peer.end = "open" /\ peer.sent < MaxIn
    /\ \E record \in IF conn.tls = "none" THEN {"data"} ELSE Records :
         peer' = [peer EXCEPT !.inbox = Append(@, record), !.sent = @ + 1]
    /\ UNCHANGED <<conn, js, uv>>
PeerReads ==
    /\ uv.sock > 0
    /\ uv' = [uv EXCEPT !.sock = @ - 1]
    /\ UNCHANGED <<conn, js, peer>>
PeerEnds ==
    /\ conn.mem # "none" /\ peer.end = "open"
    /\ \/ peer' = [peer EXCEPT !.end = "fin"]
       \/ peer' = [peer EXCEPT !.end = "reset", !.inbox = <<>>]
    /\ UNCHANGED <<conn, js, uv>>

Reads == onReadPlain \/ onReadEof \/ onReadTls
Writes == Flush \/ WriteFails \/ onShutdown

Next ==
    \/ onConnection \/ JsCalls
    \/ Reads \/ Writes \/ onClose \/ sweepConns \/ closeServer
    \/ PeerSends \/ PeerReads \/ PeerEnds

(* libuv and the kernel do what is due, and the peer reads what it is sent; *)
(* it need not send or end, and neither must the application or the sweep.  *)
Fairness == WF_vars(Reads) /\ WF_vars(Writes) /\ WF_vars(onClose) /\ WF_vars(PeerReads)

Spec == Init /\ [][Next]_vars /\ Fairness

-----------------------------------------------------------------------------
(* end(), by the application or after the peer's FIN, loses nothing: when   *)
(* such a connection is gone, all that was written had gone to the kernel   *)
(* (an alert can only follow it on the wire).                               *)
EndDelivers ==
    (conn.mem = "released" /\ conn.close_reason = "normal" /\ ~uv.cut /\ peer.end # "reset")
        => uv.wire >= uv.written

(* A paused connection is not read: not by the first read after the         *)
(* connection listener paused, nor by an upgrade.                           *)
PausedNotReading == conn.paused => ~conn.reading

(* Half-closes, pauses, upgrades and writes in any order: nothing written   *)
(* before an end is lost, and nothing is read behind a pause.               *)
SocketSafe == TypeOK /\ EndDelivers /\ PausedNotReading

(* A socket that was announced hears `close' once, when its connection is   *)
(* released, and no upgrade is left pending then.                           *)
CloseTold ==
    /\ js.closes = 1 => conn.mem = "released" /\ js.upgrade # "pending"
    /\ conn.mem = "released" => ~js.known

(* The reason of the first close is the one reported, whatever closes come  *)
(* after it (a cancelled shutdown, a destroy in a listener).                *)
FirstReasonKept == [][conn.closing => conn'.close_reason = conn.close_reason]_vars

(* However a connection ends, its socket hears of it once, with the reason  *)
(* of the first close (closeConn, onClose, emitClose).                      *)
CloseIsTold == []CloseTold /\ FirstReasonKept

(* A write() that found the socket backed up is followed by a drain, or     *)
(* the socket closes.                                                       *)
DrainComes == js.needDrain ~> (~js.needDrain \/ conn.mem = "released")

(* After the peer's FIN or reset a connection that is not half-open ends by *)
(* itself, unless the application has paused it.                            *)
EndsAfterPeer ==
    (conn.mem = "live" /\ peer.end # "open" /\ ~conn.half_open) ~> (conn.mem = "released" \/ conn.paused)

(* Neither a producer that waits for a drain nor a connection whose peer    *)
(* has ended waits for ever (onWrite, onReadEof, #maybeAutoEnd).            *)
WritersGoOn == DrainComes /\ EndsAfterPeer
=============================================================================
