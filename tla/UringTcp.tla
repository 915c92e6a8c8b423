------------------------------ MODULE UringTcp ------------------------------
(* The io_uring backend of the raw TCP server (src/net/tcp_uring.zig) and   *)
(* the Socket that ts/net/tcp.ts puts over a connection.  The kernel works  *)
(* on what was submitted and posts completions; a callback handles one,     *)
(* and in it one JavaScript listener may call any socket.  As in TcpSocket  *)
(* a function of the source is an operator from a state to a state.         *)
(*                                                                          *)
(* Assumed: a failed send fails those after it too (a reset, a shutdown),   *)
(* the submission queue has room after a submit, except, when a choice says *)
(* so, for a receive that is armed again; allocations succeed.              *)
EXTENDS Integers, Sequences, FiniteSets
LOCAL INSTANCE FiniteSetsExt

CONSTANTS
    MaxConns,      \* bound: connections accepted, numbered by nextId
    BufCount,      \* buf_count: receive buffers shared by all connections
    SendBuffer,    \* units the kernel takes before the peer reads
    UringQueue,    \* max_write_queue
    MaxOut,        \* bound: units written in all, by the number of connections
    MaxIn,         \* bound: segments the peers send in all, likewise
    BusyShutdown   \* a close listener run by closeServer may call other sockets

ASSUME UringAssumption ==
    /\ {MaxConns, BufCount, SendBuffer} \subseteq Nat \ {0} /\ UringQueue \in Nat
    /\ {MaxOut, MaxIn} \subseteq [1..MaxConns -> Nat] /\ BusyShutdown \in BOOLEAN

VARIABLES
    conns,    \* the Conn of each id
    sockets,  \* the Socket of each id, and what was written to it
    kernel,   \* the descriptors, the operations in flight on them, and the peers
    ring      \* the ring: completions posted, buffers it may fill

uringVars == <<conns, sockets, kernel, ring>>

ConnIds == 1..MaxConns
Sum(S, f(_)) == FoldSet(LAMBDA x, total : f(x) + total, 0, S)
Span == [from : Nat, to : Nat]
Cqe == [tag : {"accept", "recv", "send"}, id : 0..MaxConns, more : BOOLEAN,
        res : {"ok", "eof", "nobufs", "error"}, n : Nat]

UringInit ==
    /\ conns = [c \in ConnIds |->
           [mem |-> "none", closing |-> FALSE, recv_active |-> FALSE, read_ended |-> FALSE,
            queued_bytes |-> 0, in_flight |-> 0, sends |-> <<>>, sending |-> FALSE,
            end_pending |-> FALSE, write_shutdown |-> FALSE]]
    /\ sockets = [c \in ConnIds |->
           [known |-> FALSE, ended |-> FALSE, readEnded |-> FALSE, needDrain |-> FALSE,
            closes |-> 0, written |-> 0]]
    /\ kernel = [c \in ConnIds |->
           [fd |-> "none", shut |-> FALSE, fin |-> FALSE, recv |-> FALSE, sends |-> {},
            peer |-> "open", inbox |-> 0, arrived |-> 0, unread |-> 0, wire |-> 0, gap |-> FALSE]]
    /\ \E n \in ConnIds, half_open \in BOOLEAN :
           ring = [up |-> TRUE, accept |-> TRUE, cq |-> <<>>, buffers |-> BufCount,
                   allow_half_open |-> half_open, callers |-> n, misuse |-> {}]

RingNow == [conns |-> conns, sockets |-> sockets, kernel |-> kernel, ring |-> ring]
RingBecome(t) ==
    conns' = t.conns /\ sockets' = t.sockets /\ kernel' = t.kernel /\ ring' = t.ring

Misused(t, what) == [t EXCEPT !.ring.misuse = @ \cup {what}]

(* Code that goes on with a Conn after JavaScript ran. *)
StillThere(t, c) == IF t.conns[c].mem = "freed" THEN Misused(t, "use after free") ELSE t

(* An entry of the submission queue, which is gone with the ring. *)
Submitted(t) == IF t.ring.up THEN t ELSE Misused(t, "ring gone")

-----------------------------------------------------------------------------
(* Teardown.                                                                *)

emitUringClose(t, c) ==
    [t EXCEPT !.sockets[c].known = FALSE, !.sockets[c].closes = @ + 1]

(* The Conn's memory stays until the outermost callback has unwound. *)
finalize(t, c) ==
    IF t.conns[c].mem # "live" \/ ~t.conns[c].closing \/ t.conns[c].in_flight # 0 THEN t
    ELSE emitUringClose([t EXCEPT !.conns[c].mem = "dead", !.conns[c].sends = <<>>,
                                  !.kernel[c].fd = "closed"], c)

startCloseQuietly(t, c) ==   \* seeded fault
    IF t.conns[c].closing THEN t
    ELSE LET u == [t EXCEPT !.conns[c].closing = TRUE]
         IN IF t.conns[c].recv_active \/ t.conns[c].sending THEN u ELSE finalize(u, c)

(* The shutdown makes what is in flight complete; closing the descriptor    *)
(* would not.                                                               *)
startClose(t, c) ==
    IF t.conns[c].closing THEN t
    ELSE LET u == [t EXCEPT !.conns[c].closing = TRUE]
         IN IF t.conns[c].recv_active \/ t.conns[c].sending
            THEN [u EXCEPT !.kernel[c].shut = TRUE] ELSE finalize(u, c)

closeIfDone(t, c) ==
    IF ~t.conns[c].closing /\ t.conns[c].read_ended /\ t.conns[c].write_shutdown
    THEN startClose(t, c) ELSE t

shutdownWrite(t, c) ==
    IF t.conns[c].write_shutdown \/ t.conns[c].closing THEN t
    ELSE closeIfDone([t EXCEPT !.conns[c].write_shutdown = TRUE, !.kernel[c].fin = TRUE], c)

drainDead(t) ==
    [t EXCEPT !.conns = [c \in ConnIds |->
        IF t.conns[c].mem = "dead" THEN [t.conns[c] EXCEPT !.mem = "freed"] ELSE t.conns[c]]]

leaveAtOnce(t, outermost) == drainDead(t)   \* seeded fault

(* cb_depth: only the outermost callback or native call frees. *)
leave(t, outermost) == IF outermost THEN drainDead(t) ELSE t

-----------------------------------------------------------------------------
(* Receiving and sending.                                                   *)

armRecv(t, c, full) ==
    IF t.conns[c].closing \/ t.conns[c].recv_active THEN t
    ELSE IF full THEN startClose(t, c)
    ELSE [Submitted(t) EXCEPT !.conns[c].recv_active = TRUE, !.conns[c].in_flight = @ + 1,
                              !.kernel[c].recv = TRUE]

(* One send of a connection is in flight at a time: the kernel does not     *)
(* order those that are.                                                    *)
kickSend(t, c) ==
    IF t.conns[c].sending \/ t.conns[c].closing \/ t.conns[c].sends = <<>> THEN t
    ELSE [Submitted(t) EXCEPT !.conns[c].sending = TRUE, !.conns[c].in_flight = @ + 1,
                              !.kernel[c].sends = @ \cup {Head(t.conns[c].sends)}]

enqueueSend(t, c, n) ==
    IF t.conns[c].queued_bytes + n > UringQueue THEN startClose(t, c)
    ELSE LET w == t.sockets[c].written
         IN [t EXCEPT !.conns[c].sends = Append(@, [from |-> w + 1, to |-> w + n]),
                      !.conns[c].queued_bytes = @ + n, !.sockets[c].written = w + n]

-----------------------------------------------------------------------------
(* The Socket's methods over the native calls.                              *)

uringWrite(t, c, n) ==
    IF t.conns[c].mem # "live" \/ t.conns[c].closing THEN [t EXCEPT !.sockets[c].ended = TRUE]
    ELSE LET u == kickSend(enqueueSend(t, c, n), c)
         IN IF u.conns[c].queued_bytes = 0 THEN u ELSE [u EXCEPT !.sockets[c].needDrain = TRUE]

uringEnd(t, c) ==
    LET u == [t EXCEPT !.sockets[c].ended = TRUE] IN
    IF t.conns[c].mem # "live" \/ t.conns[c].closing \/ t.conns[c].write_shutdown
           \/ t.conns[c].end_pending THEN u
    ELSE IF t.conns[c].sends = <<>> /\ ~t.conns[c].sending THEN shutdownWrite(u, c)
    ELSE [u EXCEPT !.conns[c].end_pending = TRUE]

uringDestroy(t, c) ==
    LET u == [t EXCEPT !.sockets[c].ended = TRUE] IN
    IF t.conns[c].mem # "live" THEN u ELSE finalize(startClose(u, c), c)

Writes == {"write", "writeTwo"}
Length(op) == IF op = "writeTwo" THEN 2 ELSE 1
Ops(t) ==
    {op \in Writes : Length(op) <= MaxOut[t.ring.callers] - Sum(ConnIds, LAMBDA c : t.sockets[c].written)}
      \cup {"end", "destroy"}

OnSocket(t, c, op) ==
    IF t.sockets[c].ended \/ op \notin Ops(t) THEN t
    ELSE CASE op = "end" -> uringEnd(t, c)
           [] op = "destroy" -> uringDestroy(t, c)
           [] op \in Writes -> uringWrite(t, c, Length(op))

(* The listener that reacts in a callback: to which event, and its call. *)
ToNothing == [to |-> "nothing"]
UringReactions(events) ==
    {ToNothing} \cup
        [to : events, on : {c \in ConnIds : ~sockets[c].ended}, op : Ops(RingNow)]

Reacts(t, r, outermost) ==
    IF t.sockets[r.on].known THEN leave(OnSocket(t, r.on, r.op), outermost) ELSE t

Heard(t, event, r) == IF r.to = event THEN Reacts(t, r, FALSE) ELSE t

(* From t to u, c may have been finalized: its close listeners ran. *)
TellClose(t, u, c, r) ==
    IF u.sockets[c].closes > t.sockets[c].closes THEN Heard(u, "close", r) ELSE u

autoEnd(t, c, r) ==
    IF t.sockets[c].readEnded /\ ~t.ring.allow_half_open /\ ~t.sockets[c].needDrain
           /\ ~t.sockets[c].ended
    THEN TellClose(t, uringEnd(t, c), c, r) ELSE t

emitUringDrain(t, c, r) ==
    autoEnd(Heard([t EXCEPT !.sockets[c].needDrain = FALSE], "drain", r), c, r)

emitUringEnd(t, c, r) ==
    autoEnd(Heard([t EXCEPT !.sockets[c].readEnded = TRUE], "end", r), c, r)

-----------------------------------------------------------------------------
(* Completions.                                                             *)

onAccept(t, cqe, r) ==
    LET u == IF cqe.more THEN t ELSE [Submitted(t) EXCEPT !.ring.accept = TRUE]
        v == [u EXCEPT !.conns[cqe.id].mem = "live", !.sockets[cqe.id].known = TRUE]
    IN IF cqe.res = "error" THEN u
       ELSE StillThere(Heard(armRecv(v, cqe.id, FALSE), "connection", r), cqe.id)

Rearmed(t, c, full, r) ==
    IF t.conns[c].closing \/ t.conns[c].read_ended THEN t
    ELSE TellClose(t, armRecv(t, c, full), c, r)

Received(t, cqe, full, r) ==
    LET c == cqe.id
        heard == IF t.conns[c].closing THEN t ELSE StillThere(Heard(t, "data", r), c)
        u == [heard EXCEPT !.ring.buffers = @ + 1]
    IN IF cqe.more THEN u ELSE Rearmed(u, c, full, r)

ReadEnds(t, c, r) ==
    IF t.conns[c].read_ended THEN t
    ELSE LET u == [t EXCEPT !.conns[c].read_ended = TRUE]
             v == IF t.conns[c].closing THEN u ELSE StillThere(emitUringEnd(u, c, r), c)
         IN TellClose(v, closeIfDone(v, c), c, r)

onRecv(t, cqe, full, r) ==
    LET c == cqe.id
        u == IF cqe.more THEN t
             ELSE [t EXCEPT !.conns[c].recv_active = FALSE, !.conns[c].in_flight = @ - 1]
        v == CASE cqe.res = "ok" -> Received(u, cqe, full, r)
               [] cqe.res = "eof" -> ReadEnds(u, c, r)
               [] cqe.res = "nobufs" -> Rearmed(u, c, full, r)
               [] cqe.res = "error" -> TellClose(u, startClose(u, c), c, r)
    IN IF t.conns[c].mem # "live" THEN t
       ELSE IF cqe.more THEN v ELSE LET w == StillThere(v, c) IN TellClose(w, finalize(w, c), c, r)

(* The head of the queue is done, or gave up: the next one is sent, and an  *)
(* empty queue lets a deferred FIN and a waiting producer go.               *)
NextSend(t, c, r) ==
    LET u == kickSend([t EXCEPT !.conns[c].sends = Tail(@)], c)
        v == IF u.conns[c].end_pending /\ ~u.conns[c].closing
             THEN TellClose(u, shutdownWrite([u EXCEPT !.conns[c].end_pending = FALSE], c), c, r) ELSE u
    IN IF u.conns[c].sends # <<>> \/ u.conns[c].sending THEN u
       ELSE IF v.conns[c].closing THEN v ELSE StillThere(emitUringDrain(v, c, r), c)

onSend(t, cqe, r) ==
    LET c == cqe.id
        head == Head(t.conns[c].sends)
        left == head.to - head.from + 1
        n == IF cqe.res = "error" THEN left ELSE cqe.n
        u == [t EXCEPT !.conns[c].sending = FALSE, !.conns[c].in_flight = @ - 1]
        v == [u EXCEPT !.conns[c].queued_bytes = @ - n]
        w == IF cqe.res # "error" /\ n < left
             THEN kickSend([v EXCEPT !.conns[c].sends[1].from = @ + n], c)
             ELSE NextSend(v, c, r)
    IN IF t.conns[c].mem # "live" THEN t
       ELSE IF t.conns[c].sends = <<>> THEN u
       ELSE TellClose(w, finalize(w, c), c, r)

onRingReadable ==
    /\ ring.up /\ ring.cq # <<>>
    /\ LET t == [RingNow EXCEPT !.ring.cq = Tail(@)]
           cqe == Head(ring.cq)
       IN \/ /\ cqe.tag = "accept"
             /\ \E r \in UringReactions({"connection"}) :
                    RingBecome(leave(onAccept(t, cqe, r), TRUE))
          \/ /\ cqe.tag = "recv"
             /\ \E r \in UringReactions(IF cqe.res = "ok" THEN {"data", "close"} ELSE {"end", "close"}), full \in BOOLEAN :
                    /\ full => ~cqe.more
                    /\ RingBecome(leave(onRecv(t, cqe, full, r), TRUE))
          \/ /\ cqe.tag = "send"
             /\ \E r \in UringReactions({"drain", "close"}) :
                    RingBecome(leave(onSend(t, cqe, r), TRUE))

JsCallsRing ==
    \E c \in ConnIds, op \in Ops(RingNow) :
        LET t == OnSocket(RingNow, c, op)
            closed == t.sockets[c].closes > sockets[c].closes
        IN /\ sockets[c].known
           /\ \E r \in UringReactions(IF closed THEN {"close"} ELSE {}) :
                  RingBecome(leave(TellClose(RingNow, t, c, r), TRUE))

(* server.close(), called from outside the ring's callback: the ring goes   *)
(* first, then every connection, the latest first; `nxt' is read before the *)
(* close listeners run.  The one that reacts is the latest's; a native call *)
(* it makes is an outermost one, and frees what that finalizes.             *)
RingGone ==
    [RingNow EXCEPT !.ring.up = FALSE, !.ring.cq = <<>>, !.ring.accept = FALSE,
        !.kernel = [c \in ConnIds |-> [kernel[c] EXCEPT !.recv = FALSE, !.sends = {}]]]

CloseConns(t, those) ==
    LET u == IF \E c \in those : t.conns[c].mem = "freed" THEN Misused(t, "use after free") ELSE t
        left == {c \in those : t.conns[c].mem = "live"}
    IN [u EXCEPT
         !.conns = [c \in ConnIds |-> IF c \in left
                      THEN [t.conns[c] EXCEPT !.mem = "freed", !.sends = <<>>] ELSE t.conns[c]],
         !.kernel = [c \in ConnIds |-> IF c \in left
                      THEN [t.kernel[c] EXCEPT !.fd = "closed"] ELSE t.kernel[c]],
         !.sockets = [c \in ConnIds |-> IF c \in left
                      THEN [t.sockets[c] EXCEPT !.known = FALSE, !.closes = @ + 1] ELSE t.sockets[c]]]

closeUringServer ==
    /\ ring.up
    /\ \E r \in UringReactions(IF BusyShutdown THEN {"close"} ELSE {}) :
        LET open == {c \in ConnIds : conns[c].mem = "live"}
            latest == {c \in open : \A d \in open : d <= c}
            t == CloseConns(RingGone, latest)
            u == IF r.to = "close" /\ open # {} THEN Reacts(t, r, TRUE) ELSE t
        IN RingBecome(drainDead(CloseConns(u, open \ latest)))

-----------------------------------------------------------------------------
(* The kernel and the peers.                                                *)

Post(cqe, k) == [ring EXCEPT !.cq = Append(@, cqe), !.buffers = @ - k]

AcceptCompletes ==
    /\ ring.up /\ ring.accept
    /\ \E more \in BOOLEAN :
        \/ \E c \in ConnIds :
             /\ c <= ring.callers /\ kernel[c].fd = "none" /\ \A d \in ConnIds : d < c => kernel[d].fd # "none"
             /\ kernel' = [kernel EXCEPT ![c].fd = "open"]
             /\ ring' = [Post([tag |-> "accept", id |-> c, more |-> more, res |-> "ok", n |-> 0], 0)
                            EXCEPT !.accept = more]
        \/ /\ ~more /\ kernel[ring.callers].fd = "none"
           /\ UNCHANGED kernel
           /\ ring' = [Post([tag |-> "accept", id |-> 0, more |-> FALSE, res |-> "error", n |-> 0], 0)
                          EXCEPT !.accept = FALSE]
    /\ UNCHANGED <<conns, sockets>>

RecvCompletes(c) ==
    /\ kernel[c].recv
    /\ \E res \in {"ok", "eof", "nobufs", "error"}, more \in BOOLEAN :
        /\ more => res = "ok"
        /\ LET readable == kernel[c].inbox > 0 /\ kernel[c].peer # "reset" IN
           CASE res = "ok" -> readable /\ ring.buffers > 0
             [] res = "nobufs" -> readable /\ ring.buffers = 0
             [] res = "eof" -> ~readable /\ (kernel[c].peer = "fin" \/ kernel[c].shut)
             [] res = "error" -> kernel[c].peer = "reset"
        /\ kernel' = [kernel EXCEPT ![c].recv = more,
                                    ![c].inbox = IF res = "ok" THEN @ - 1 ELSE @]
        /\ ring' = Post([tag |-> "recv", id |-> c, more |-> more, res |-> res, n |-> 0],
                        IF res = "ok" THEN 1 ELSE 0)
    /\ UNCHANGED <<conns, sockets>>

SendCompletes(c) ==
    /\ \E s \in kernel[c].sends :
        LET dead == kernel[c].peer = "reset" \/ kernel[c].shut
            room == SendBuffer - kernel[c].unread
            size == s.to - s.from + 1
        IN \/ \E n \in 1..(IF room < size THEN room ELSE size) :
                /\ ~dead
                /\ kernel' = [kernel EXCEPT ![c].sends = @ \ {s}, ![c].unread = @ + n,
                                 ![c].wire = @ + n, ![c].gap = @ \/ s.from # kernel[c].wire + 1]
                /\ ring' = Post([tag |-> "send", id |-> c, more |-> FALSE, res |-> "ok", n |-> n], 0)
           \/ /\ dead
              /\ kernel' = [kernel EXCEPT ![c].sends = @ \ {s}]
              /\ ring' = Post([tag |-> "send", id |-> c, more |-> FALSE, res |-> "error", n |-> 0], 0)
    /\ UNCHANGED <<conns, sockets>>

PeerReadsRing(c) ==
    /\ kernel[c].fd = "open" /\ kernel[c].unread > 0
    /\ kernel' = [kernel EXCEPT ![c].unread = 0]
    /\ UNCHANGED <<conns, sockets, ring>>

PeerActs(c) ==
    /\ kernel[c].fd = "open" /\ kernel[c].peer = "open"
    /\ \/ /\ Sum(ConnIds, LAMBDA d : kernel[d].arrived) < MaxIn[ring.callers]
          /\ kernel' = [kernel EXCEPT ![c].inbox = @ + 1, ![c].arrived = @ + 1]
       \/ \E how \in {"fin", "reset"} : kernel' = [kernel EXCEPT ![c].peer = how]
    /\ UNCHANGED <<conns, sockets, ring>>

KernelWorks(c) == RecvCompletes(c) \/ SendCompletes(c)

UringStep ==
    \/ onRingReadable \/ JsCallsRing \/ closeUringServer
    \/ AcceptCompletes
    \/ \E c \in ConnIds : KernelWorks(c) \/ PeerReadsRing(c) \/ PeerActs(c)

UringSpec == UringInit /\ [][UringStep]_uringVars

(* A completion is handled. *)
HandlesOne == ring.cq # <<>> /\ ring'.cq = Tail(ring.cq)
-----------------------------------------------------------------------------
(* Completions of c that end an operation and are not handled yet. *)
Posted(c, tag) ==
    {i \in DOMAIN ring.cq : ring.cq[i].id = c /\ ring.cq[i].tag = tag /\ ~ring.cq[i].more}

Follow(q, last) ==   \* the spans of q follow each other, up to last
    \A i \in DOMAIN q : /\ q[i].from <= q[i].to
                        /\ q[i].to = IF i = Len(q) THEN last ELSE q[i + 1].from - 1
Backlog(c) ==
    IF conns[c].sends = <<>> THEN 0 ELSE sockets[c].written - conns[c].sends[1].from + 1
Alive(c) == conns[c].mem = "live"
Over(c) == conns[c].mem \in {"dead", "freed"}

UringTypeOK ==
    /\ conns \in [ConnIds -> [mem : {"none", "live", "dead", "freed"}, closing : BOOLEAN,
           recv_active : BOOLEAN, read_ended : BOOLEAN, queued_bytes : Nat, in_flight : 0..2,
           sends : Seq(Span), sending : BOOLEAN, end_pending : BOOLEAN, write_shutdown : BOOLEAN]]
    /\ sockets \in [ConnIds -> [known : BOOLEAN, ended : BOOLEAN, readEnded : BOOLEAN,
           needDrain : BOOLEAN, closes : Nat, written : Nat]]
    /\ kernel \in [ConnIds -> [fd : {"none", "open", "closed"}, shut : BOOLEAN, fin : BOOLEAN,
           recv : BOOLEAN, sends : SUBSET Span, peer : {"open", "fin", "reset"}, inbox : Nat,
           arrived : Nat, unread : 0..SendBuffer, wire : Nat, gap : BOOLEAN]]
    /\ ring.cq \in Seq(Cqe) /\ ring.buffers \in 0..BufCount

(* in_flight counts exactly what the kernel holds of a connection, so that  *)
(* a connection is closed and its send bodies are freed only when the       *)
(* kernel is done with them, and no completion is left to find it gone.     *)
HeldIsCounted ==
    \A c \in ConnIds :
        /\ Alive(c) => conns[c].in_flight =
               Cardinality(Posted(c, "recv")) + Cardinality(Posted(c, "send"))
                 + Cardinality(kernel[c].sends) + (IF kernel[c].recv THEN 1 ELSE 0)
        /\ Over(c) => /\ ~kernel[c].recv /\ kernel[c].sends = {}
                      /\ \A i \in DOMAIN ring.cq : ring.cq[i].id # c

(* No connection is accepted but never read, nor the listener left without  *)
(* an accept, and every receive buffer is with the kernel or on its way to  *)
(* a listener: a connection that ends in between strands none.              *)
ReadingGoesOn ==
    /\ \A c \in ConnIds :
           Alive(c) /\ ~conns[c].closing /\ ~conns[c].read_ended => conns[c].recv_active
    /\ ring.up => ring.accept \/ \E i \in Posted(0, "accept") \cup
                      UNION {Posted(c, "accept") : c \in ConnIds} : TRUE
    /\ ring.up => ring.buffers + Cardinality({i \in DOMAIN ring.cq :
                      ring.cq[i].tag = "recv" /\ ring.cq[i].res = "ok"}) = BufCount

(* What a connection was given to send reaches the kernel once, in order,   *)
(* with nothing left out before what follows it, and before the FIN; the    *)
(* queue is what was written last, and its backlog is counted exactly and   *)
(* stays under its ceiling.  (The backlog still has what one posted         *)
(* completion says was sent.)                                               *)
SentInOrder ==
    \A c \in ConnIds :
        /\ ~kernel[c].gap
        /\ Alive(c) => /\ Follow(conns[c].sends, sockets[c].written)
                       /\ conns[c].queued_bytes = Backlog(c) /\ Backlog(c) <= UringQueue
        /\ Alive(c) /\ ~conns[c].closing /\ kernel[c].peer # "reset" =>
               \/ /\ Posted(c, "send") = {}
                  /\ kernel[c].wire + Backlog(c) = sockets[c].written
               \/ \E i \in Posted(c, "send") :
                    /\ Posted(c, "send") = {i}
                    /\ kernel[c].wire + Backlog(c) = sockets[c].written + ring.cq[i].n
        /\ kernel[c].fin /\ kernel[c].peer # "reset" => kernel[c].wire = sockets[c].written

(* A socket hears of its close once, when its connection is finalized. *)
CloseToldOnce ==
    \A c \in ConnIds : /\ sockets[c].closes = (IF Over(c) THEN 1 ELSE 0)
                       /\ sockets[c].known <=> Alive(c)

(* Whatever the listeners call, on their own socket or another, and in      *)
(* whatever order completions come: no Conn is used after it was freed, and *)
(* the kernel, the buffers and the sockets agree with the table.            *)
UringSafe ==
    /\ UringTypeOK /\ ring.misuse = {}
    /\ HeldIsCounted /\ ReadingGoesOn /\ SentInOrder /\ CloseToldOnce

(* A connection that is closing is finalized: the shutdown makes what is in *)
(* flight complete.  A write that was backed up is followed by a drain, and *)
(* after the peer's FIN or reset a socket that is not half-open is closed.  *)
UringSettles ==
    \A c \in ConnIds :
        /\ conns[c].closing ~> Over(c)
        /\ sockets[c].needDrain ~> ~sockets[c].needDrain \/ Over(c)
        /\ Alive(c) /\ kernel[c].peer # "open" /\ ~ring.allow_half_open ~> Over(c)
=============================================================================
