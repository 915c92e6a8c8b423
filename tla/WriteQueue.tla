----------------------------- MODULE WriteQueue -----------------------------
(***************************************************************************)
(* The write path of one HTTP connection (src/src/core/loop.zig): a        *)
(* synchronous uv_try_write first, a queued uv_write for whatever the      *)
(* socket did not take, a byte counter that tells the two apart, a ceiling *)
(* on the backlog past which the connection is reset, and the close.       *)
(*                                                                         *)
(* A byte is a number: the position at which the engine took it over.      *)
(* Everything runs on one thread, so a call is one action; only closeConn  *)
(* on a TLS connection takes two, because the close_notify it sends goes   *)
(* through the write path and may itself reset the connection.             *)
(***************************************************************************)
EXTENDS Integers, Sequences

CONSTANTS
    Tls,            \* the connection terminates TLS
    AlertLen,       \* size of the close_notify record
    MaxWriteQueue,  \* eng.max_write_queue: the backlog ceiling in bytes
    WriteSizes,     \* how many bytes one write may carry
    MaxBytes,       \* bound: bytes taken over in one behaviour
    MaxReqs         \* bound: requests libuv holds (an empty write costs no bytes)

ASSUME TlsAssumption == Tls \in BOOLEAN /\ AlertLen \in Nat
ASSUME MaxWriteQueueAssumption == MaxWriteQueue \in Nat \ {0}
ASSUME WriteSizesAssumption == WriteSizes \subseteq Nat
ASSUME BoundsAssumption == MaxBytes \in Nat /\ MaxReqs \in Nat

VARIABLES
    accepted,       \* bytes taken over: handed to the kernel or to libuv
    wire,           \* the bytes the kernel has received
    reqs,           \* libuv's FIFO of uv_write requests whose onWrite is due
    queued_bytes,   \* conn.queued_bytes
    closing,        \* conn.closing
    sent_close,     \* st.sent_close: the close_notify has been written
    in_close,       \* closeConn has written its alert and not yet called uv_close
    uv_closes,      \* how often the uv handle has been closed
    closed          \* onClose has run: the Conn is back in the pool

queue == <<reqs, queued_bytes>>
closeVars == <<closing, sent_close, in_close, uv_closes, closed>>
vars == <<accepted, wire, queue, closeVars>>

(* A uv_write request carries the bytes lo+1 .. lo+len. *)
WriteReq == [lo : Nat, len : Nat]

BytesOf(r) == (r.lo + 1)..(r.lo + r.len)

(* The bytes of every request libuv still owes a callback for. *)
Covered(q) == UNION {BytesOf(q[i]) : i \in 1..Len(q)}
QueuedSet == Covered(reqs)

(* Bytes libuv holds and the kernel has not received yet. *)
Unsent == QueuedSet \ wire

Init ==
    /\ accepted = 0
    /\ wire = {}
    /\ reqs = <<>>
    /\ queued_bytes = 0
    /\ closing = FALSE
    /\ sent_close = FALSE
    /\ in_close = FALSE
    /\ uv_closes = 0
    /\ closed = FALSE

-----------------------------------------------------------------------------
(***************************************************************************)
(* queueTail: w bytes of this write went out by uv_try_write, the tail of  *)
(* t bytes did not.  Over the ceiling the connection is reset (forceClose) *)
(* and the tail goes with it.  Otherwise the tail is duplicated and given  *)
(* to uv_write; a failed allocation, or a refusal by uv_write (always, on  *)
(* a handle that is closing), drops it and leaves the counter as it was.   *)
(***************************************************************************)
OverCap(t) == queued_bytes + t > MaxWriteQueue

forceClose ==
    \/ closing /\ UNCHANGED <<closing, uv_closes>>
    \/ ~closing /\ closing' = TRUE /\ uv_closes' = uv_closes + 1

Reset(w, t) ==
    /\ OverCap(t)
    /\ accepted' = accepted + w
    /\ forceClose
    /\ UNCHANGED queue

DropCounted(w, t) ==                                    \* seeded fault
    /\ ~OverCap(t)
    /\ accepted' = accepted + w
    /\ queued_bytes' = queued_bytes + t
    /\ UNCHANGED <<reqs, closing, uv_closes>>

Drop(w, t) ==
    /\ ~OverCap(t)
    /\ accepted' = accepted + w
    /\ UNCHANGED <<queue, closing, uv_closes>>

EnqueueFromStart(w, t) ==                               \* seeded fault
    /\ ~OverCap(t)
    /\ ~closing
    /\ accepted' = accepted + w + t
    /\ reqs' = Append(reqs, [lo |-> accepted, len |-> t])
    /\ queued_bytes' = queued_bytes + t
    /\ UNCHANGED <<closing, uv_closes>>

Enqueue(w, t) ==
    /\ ~OverCap(t)
    /\ ~closing
    /\ accepted' = accepted + w + t
    /\ reqs' = Append(reqs, [lo |-> accepted + w, len |-> t])
    /\ queued_bytes' = queued_bytes + t
    /\ UNCHANGED <<closing, uv_closes>>

queueTail(w, t) == Reset(w, t) \/ Drop(w, t) \/ Enqueue(w, t)

-----------------------------------------------------------------------------
(***************************************************************************)
(* uv_try_write (external): the kernel takes any number of the n bytes at  *)
(* once, whatever libuv has queued; none on a handle that is closing.      *)
(***************************************************************************)
TryWrite(n) == IF closing THEN {0} ELSE 0..n

(* rawWriteAll: once anything is queued, every later write queues too. *)
WriteBehindQueue(n) ==
    /\ queued_bytes # 0
    /\ wire' = wire
    /\ queueTail(0, n)

TryWriteAhead(n) ==                                     \* seeded fault
    \E w \in TryWrite(n) :
        /\ wire' = wire \cup (accepted + 1)..(accepted + w)
        /\ \/ /\ w = n
              /\ accepted' = accepted + n
              /\ UNCHANGED <<queue, closing, uv_closes>>
           \/ w < n /\ queueTail(w, n - w)

WriteDirect(n) ==
    /\ queued_bytes = 0
    /\ \E w \in TryWrite(n) :
        /\ wire' = wire \cup (accepted + 1)..(accepted + w)
        /\ \/ /\ w = n
              /\ accepted' = accepted + n
              /\ UNCHANGED <<queue, closing, uv_closes>>
           \/ w < n /\ queueTail(w, n - w)

rawWriteAll(n) == WriteBehindQueue(n) \/ WriteDirect(n)

(* writeAll, called by whatever the engine is doing for the connection. *)
Write ==
    /\ ~closed /\ ~in_close
    /\ Len(reqs) < MaxReqs
    /\ \E n \in WriteSizes : accepted + n <= MaxBytes /\ rawWriteAll(n)
    /\ UNCHANGED <<sent_close, in_close, closed>>

-----------------------------------------------------------------------------
(* libuv hands queued bytes to the kernel, oldest request first (external). *)
Flush ==
    /\ ~closing /\ ~in_close
    /\ \E last \in Unsent : wire' = wire \cup {b \in Unsent : b <= last}
    /\ UNCHANGED <<accepted, queue, closeVars>>

(* onWrite: the oldest request is done, or was cancelled by the close. *)
onWrite ==
    /\ reqs # <<>> /\ ~in_close
    /\ closing \/ BytesOf(Head(reqs)) \subseteq wire
    /\ reqs' = Tail(reqs)
    /\ queued_bytes' = IF queued_bytes >= Head(reqs).len
                       THEN queued_bytes - Head(reqs).len ELSE 0
    /\ UNCHANGED <<accepted, wire, closeVars>>

(***************************************************************************)
(* closeConn.  A plain connection, or one whose handshake is not finished, *)
(* is closed at once.  An established TLS connection first writes its      *)
(* close_notify; the guard on closing is not looked at again before the    *)
(* uv_close.                                                               *)
(***************************************************************************)
closeConn ==
    /\ ~closing /\ ~in_close
    /\ closing' = TRUE
    /\ uv_closes' = uv_closes + 1
    /\ UNCHANGED <<accepted, wire, queue, sent_close, in_close, closed>>

closeConnAlert ==
    /\ Tls /\ ~sent_close
    /\ ~closing /\ ~in_close
    /\ sent_close' = TRUE
    /\ in_close' = TRUE
    /\ rawWriteAll(AlertLen)
    /\ UNCHANGED closed

closeConnFinish ==
    /\ in_close
    /\ in_close' = FALSE
    /\ closing' = TRUE
    /\ uv_closes' = uv_closes + 1
    /\ UNCHANGED <<accepted, wire, queue, sent_close, closed>>

(* onClose: libuv runs it after every write callback; the Conn is freed. *)
onClose ==
    /\ closing /\ ~closed /\ ~in_close
    /\ reqs = <<>>
    /\ closed' = TRUE
    /\ UNCHANGED <<accepted, wire, queue, closing, sent_close, in_close, uv_closes>>

Next ==
    \/ Write \/ Flush \/ onWrite
    \/ closeConn \/ closeConnAlert \/ closeConnFinish \/ onClose

Spec == Init /\ [][Next]_vars

-----------------------------------------------------------------------------
(* The shape of the state. *)
TypeOK ==
    /\ accepted \in Nat
    /\ wire \subseteq 1..accepted
    /\ reqs \in Seq(WriteReq)
    /\ queued_bytes \in Nat
    /\ closing \in BOOLEAN
    /\ sent_close \in BOOLEAN
    /\ in_close \in BOOLEAN
    /\ uv_closes \in Nat
    /\ closed \in BOOLEAN

(* The kernel has received a prefix of what the engine took over: no        *)
(* uv_try_write ran ahead of bytes still queued (the comment above          *)
(* rawWriteAll), and no byte in between was skipped.                        *)
WireIsPrefix == \E n \in 0..accepted : wire = 1..n

(* queued_bytes is exactly the bytes of the requests whose callback is due: *)
(* the subtraction in onWrite never saturates, and the counter reaches zero *)
(* only when libuv holds no byte of this connection.                        *)
QueuedBytesExact == QueuedSet = (accepted - queued_bytes + 1)..accepted

(* A peer that stops reading costs at most the ceiling. *)
BacklogBounded == queued_bytes <= MaxWriteQueue

(* The counter that rawWriteAll and queueTail go by tells the truth, over   *)
(* partial writes, failed allocations, refusals by uv_write and callbacks   *)
(* cancelled by the close: it is at every moment what libuv holds, so zero  *)
(* lets uv_try_write past nothing that is queued, and what libuv holds for  *)
(* a peer that stops reading is at most the ceiling.                        *)
BacklogCounted == QueuedBytesExact /\ BacklogBounded

(* On an open connection a byte that is not on the wire is held by libuv,   *)
(* so nothing the engine took over is forgotten short of a close.           *)
NothingForgotten == ~closing => (1..accepted) \ wire \subseteq QueuedSet

(* The uv handle is closed at most once; a second uv_close aborts the       *)
(* process on libuv's own assertion.  conn.closing is there to ensure it.   *)
ClosedOnce == uv_closes <= 1

(* The write path implements the abstract byte stream: a prefix is          *)
(* delivered, and nothing at all once the connection is closing.            *)
Stream == INSTANCE ByteStream WITH accepted <- accepted, wire <- wire, closing <- closing
StreamSpec == Stream!Spec
=============================================================================
