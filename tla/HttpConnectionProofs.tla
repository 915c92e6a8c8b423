------------------------ MODULE HttpConnectionProofs ------------------------
(***************************************************************************)
(* Proofs about a server connection: its write path, the response streamed *)
(* over it, and the dispatch ids, handlers and timers around it.           *)
(*                                                                         *)
(* The write path.  The properties checked by TLC are not inductive one by *)
(* one: that uv_try_write finds every earlier byte on the wire follows     *)
(* from the counter being zero, which says something only because the      *)
(* counter is exact, which holds because libuv's requests lie one behind   *)
(* the other.  IInv ties the three together.                               *)
(*                                                                         *)
(* The dispatches.  For every set of slots and every bound, as long as the *)
(* dispatches do not outnumber the ids (NoWrap): with fewer ids one comes  *)
(* round again while its first holder still runs, and RepliesMatch fails.  *)
(***************************************************************************)
EXTENDS StreamResponse, HttpDispatch, TLAPS

(* Requests are in order, do not overlap, and cover only bytes taken over. *)
RequestsOrdered ==
    /\ \A i, j \in 1..Len(reqs) : i < j => reqs[i].lo + reqs[i].len <= reqs[j].lo
    /\ \A i \in 1..Len(reqs) : reqs[i].lo + reqs[i].len <= accepted

(* Without TLS the handle is closed exactly when closing is set. *)
PlainCloseCount ==
    ~Tls => ~in_close /\ uv_closes = (IF closing THEN 1 ELSE 0)

IInv ==
    /\ TypeOK
    /\ WireIsPrefix
    /\ QueuedBytesExact
    /\ BacklogBounded
    /\ NothingForgotten
    /\ RequestsOrdered
    /\ PlainCloseCount

-----------------------------------------------------------------------------
(* The fields of a queued request. *)
LEMMA RequestFields ==
    ASSUME NEW q \in Seq(WriteReq), NEW i \in 1..Len(q)
    PROVE  q[i] \in WriteReq /\ q[i].lo \in Nat /\ q[i].len \in Nat
<1>1. q[i] \in WriteReq OBVIOUS
<1> QED BY <1>1 DEF WriteReq

(* What a request appended to the queue adds to the bytes it covers. *)
LEMMA CoveredAppend ==
    ASSUME NEW q \in Seq(WriteReq), NEW r \in WriteReq
    PROVE  Covered(Append(q, r)) = Covered(q) \cup BytesOf(r)
<1>1. ASSUME NEW b PROVE b \in Covered(Append(q, r)) <=> b \in Covered(q) \cup BytesOf(r)
  <2>1. Len(Append(q, r)) = Len(q) + 1 /\ Len(q) \in Nat
    OBVIOUS
  <2>2. ASSUME b \in Covered(Append(q, r)) PROVE b \in Covered(q) \cup BytesOf(r)
    <3>1. PICK i \in 1..(Len(q) + 1) : b \in BytesOf(Append(q, r)[i])
      BY <2>1, <2>2 DEF Covered
    <3>2. CASE i = Len(q) + 1
      BY <3>1, <3>2
    <3>3. CASE i \in 1..Len(q)
      BY <3>1, <3>3 DEF Covered
    <3> QED BY <3>2, <3>3, <2>1
  <2>3. ASSUME b \in Covered(q) PROVE b \in Covered(Append(q, r))
    <3>1. PICK i \in 1..Len(q) : b \in BytesOf(q[i])
      BY <2>3 DEF Covered
    <3>2. i \in 1..Len(Append(q, r)) /\ Append(q, r)[i] = q[i]
      BY <2>1
    <3> QED BY <3>1, <3>2 DEF Covered
  <2>4. ASSUME b \in BytesOf(r) PROVE b \in Covered(Append(q, r))
    <3>1. Len(q) + 1 \in 1..Len(Append(q, r)) /\ Append(q, r)[Len(q) + 1] = r
      BY <2>1
    <3> QED BY <2>4, <3>1 DEF Covered
  <2> QED BY <2>2, <2>3, <2>4
<1> QED BY <1>1

(* The oldest request and the others between them cover the queue. *)
LEMMA CoveredTail ==
    ASSUME NEW q \in Seq(WriteReq), q # <<>>
    PROVE  Covered(q) = BytesOf(Head(q)) \cup Covered(Tail(q))
<1>1. /\ Len(q) \in Nat \ {0} /\ Len(Tail(q)) = Len(q) - 1
      /\ Head(q) = q[1]
      /\ \A i \in 1..Len(Tail(q)) : Tail(q)[i] = q[i + 1]
  OBVIOUS
<1>2. ASSUME NEW b \in Covered(q) PROVE b \in BytesOf(Head(q)) \cup Covered(Tail(q))
  <2>1. PICK i \in 1..Len(q) : b \in BytesOf(q[i])
    BY <1>2 DEF Covered
  <2>2. CASE i = 1
    BY <2>1, <2>2, <1>1
  <2>3. CASE i # 1
    <3>1. i - 1 \in 1..Len(Tail(q)) /\ Tail(q)[i - 1] = q[i]
      BY <2>3, <1>1
    <3> QED BY <2>1, <3>1 DEF Covered
  <2> QED BY <2>2, <2>3
<1>3. ASSUME NEW b \in BytesOf(Head(q)) PROVE b \in Covered(q)
  <2>1. 1 \in 1..Len(q) BY <1>1
  <2> QED BY <1>3, <1>1, <2>1 DEF Covered
<1>4. ASSUME NEW b \in Covered(Tail(q)) PROVE b \in Covered(q)
  <2>1. PICK i \in 1..Len(Tail(q)) : b \in BytesOf(Tail(q)[i])
    BY <1>4 DEF Covered
  <2>2. i + 1 \in 1..Len(q) /\ Tail(q)[i] = q[i + 1]
    BY <1>1
  <2> QED BY <2>1, <2>2 DEF Covered
<1> QED BY <1>2, <1>3, <1>4

(* The oldest request holds the oldest queued bytes: what onWrite takes off *)
(* the counter is exactly what leaves the queue.                            *)
LEMMA OldestFirst ==
    ASSUME TypeOK, QueuedBytesExact, RequestsOrdered, reqs # <<>>
    PROVE  /\ Head(reqs).len <= queued_bytes
           /\ Covered(Tail(reqs)) =
                (accepted - (queued_bytes - Head(reqs).len) + 1)..accepted
<1> DEFINE h == Head(reqs)
           rest == Covered(Tail(reqs))
           front == accepted - queued_bytes
<1>a. reqs \in Seq(WriteReq) /\ accepted \in Nat /\ queued_bytes \in Nat
  BY DEF TypeOK
<1>b. 1 \in 1..Len(reqs) /\ h = reqs[1]
  BY <1>a
<1>1. /\ reqs \in Seq(WriteReq) /\ accepted \in Nat /\ queued_bytes \in Nat
      /\ h = reqs[1] /\ h.lo \in Nat /\ h.len \in Nat
      /\ front \in Int
  <2>1. h.lo \in Nat /\ h.len \in Nat BY <1>a, <1>b, RequestFields
  <2> QED BY <1>a, <1>b, <2>1
<1>2. QueuedSet = BytesOf(h) \cup rest
  BY <1>1, CoveredTail DEF QueuedSet
<1>3. QueuedSet = (front + 1)..accepted
  BY DEF QueuedBytesExact
<1>4. \A b \in rest : b \in Int /\ b > h.lo + h.len
  <2>1. SUFFICES ASSUME NEW b \in rest PROVE b \in Int /\ b > h.lo + h.len
    OBVIOUS
  <2>2. PICK i \in 1..Len(Tail(reqs)) : b \in BytesOf(Tail(reqs)[i])
    BY <2>1 DEF Covered
  <2>3. i + 1 \in 1..Len(reqs) /\ 1 \in 1..Len(reqs) /\ Tail(reqs)[i] = reqs[i + 1] /\ 1 < i + 1
    BY <1>1
  <2>4. h.lo + h.len <= reqs[i + 1].lo
    BY <2>3, <1>1 DEF RequestsOrdered
  <2>5. reqs[i + 1].lo \in Nat /\ reqs[i + 1].len \in Nat
    BY <2>3, <1>1, RequestFields
  <2> QED BY <2>2, <2>3, <2>4, <2>5, <1>1 DEF BytesOf
<1>5. CASE h.len = 0
  <2>1. BytesOf(h) = {} BY <1>1, <1>5 DEF BytesOf
  <2>2. rest = (front + 1)..accepted BY <1>2, <1>3, <2>1
  <2>3. accepted - (queued_bytes - h.len) + 1 = front + 1 BY <1>1, <1>5
  <2> QED BY <1>1, <1>5, <2>2, <2>3
<1>6. CASE h.len # 0
  <2>1. h.lo + 1 \in BytesOf(h) BY <1>1, <1>6 DEF BytesOf
  <2>2. h.lo >= front /\ h.lo + h.len <= accepted
    <3>1. h.lo + 1 \in (front + 1)..accepted BY <2>1, <1>2, <1>3
    <3>2. 1 \in 1..Len(reqs) BY <1>1
    <3>3. h.lo + h.len <= accepted BY <3>2, <1>1 DEF RequestsOrdered
    <3> QED BY <3>1, <3>3, <1>1
  <2>3. front + 1 \in BytesOf(h)
    <3>1. front + 1 \in (front + 1)..accepted BY <2>2, <1>1, <1>6
    <3>2. ~(front + 1 > h.lo + h.len) BY <2>2, <1>1, <1>6
    <3> QED BY <3>1, <3>2, <1>2, <1>3, <1>4
  <2>4. h.lo = front BY <2>2, <2>3, <1>1 DEF BytesOf
  <2>5. rest = (front + h.len + 1)..accepted
    <3>1. ASSUME NEW b \in rest PROVE b \in (front + h.len + 1)..accepted
      BY <1>1, <1>2, <1>3, <1>4, <2>4
    <3>2. ASSUME NEW b \in (front + h.len + 1)..accepted PROVE b \in rest
      <4>1. b \in (front + 1)..accepted BY <1>1, <1>6
      <4>2. b \notin BytesOf(h) BY <1>1, <2>4 DEF BytesOf
      <4> QED BY <4>1, <4>2, <1>2, <1>3
    <3> QED BY <3>1, <3>2
  <2> QED BY <1>1, <2>2, <2>4, <2>5
<1> QED BY <1>5, <1>6

-----------------------------------------------------------------------------
(* With nothing queued on an open connection, everything is on the wire. *)
LEMMA EmptyQueueAllSent ==
    ASSUME TypeOK, QueuedBytesExact, NothingForgotten, ~closing, queued_bytes = 0
    PROVE  wire = 1..accepted
<1>1. accepted \in Nat /\ wire \subseteq 1..accepted BY DEF TypeOK
<1>2. QueuedSet = {} BY <1>1 DEF QueuedBytesExact
<1> QED BY <1>1, <1>2 DEF NothingForgotten

(* queueTail keeps the queue exact, ordered and under the ceiling, after w  *)
(* bytes of the same write went straight out.                               *)
LEMMA QueueTailStep ==
    ASSUME IInv, NEW w \in Nat, NEW t \in Nat, queueTail(w, t),
           queued_bytes = 0 \/ w = 0
    PROVE  /\ QueuedBytesExact' /\ BacklogBounded' /\ RequestsOrdered'
           /\ accepted' \in Nat /\ accepted' >= accepted + w
           /\ reqs' \in Seq(WriteReq) /\ queued_bytes' \in Nat
           /\ closing' \in BOOLEAN /\ uv_closes' \in Nat
           /\ closing => closing'
           /\ ~closing' => ((accepted + w + 1)..accepted') \subseteq QueuedSet'
           /\ ~closing' => QueuedSet \subseteq QueuedSet'
<1> USE MaxWriteQueueAssumption
<1>1. /\ reqs \in Seq(WriteReq) /\ accepted \in Nat /\ queued_bytes \in Nat
      /\ closing \in BOOLEAN /\ uv_closes \in Nat
  BY DEF IInv, TypeOK
<1>2. QueuedSet = (accepted - queued_bytes + 1)..accepted
  BY DEF IInv, QueuedBytesExact
<1>3. CASE Reset(w, t) \/ Drop(w, t)
  <2>1. accepted' = accepted + w /\ reqs' = reqs /\ queued_bytes' = queued_bytes
    BY <1>3 DEF Reset, Drop, queue
  <2>2. closing' \in BOOLEAN /\ uv_closes' \in Nat /\ (closing => closing')
    <3>1. CASE UNCHANGED <<closing, uv_closes>>
      BY <1>1, <3>1
    <3>2. CASE closing' = TRUE /\ uv_closes' = uv_closes + 1
      BY <1>1, <3>2
    <3> QED BY <1>3, <3>1, <3>2 DEF Reset, Drop, forceClose
  <2>3. QueuedSet' = QueuedSet BY <2>1 DEF QueuedSet
  <2>4. QueuedSet = (accepted' - queued_bytes' + 1)..accepted'
    BY <1>1, <1>2, <2>1
  <2>5. BacklogBounded' BY <2>1 DEF IInv, BacklogBounded
  <2>6. RequestsOrdered'
    <3>1. \A i \in 1..Len(reqs) : reqs[i].lo \in Nat /\ reqs[i].len \in Nat
      BY <1>1, RequestFields
    <3>2. /\ \A i, j \in 1..Len(reqs) : i < j => reqs[i].lo + reqs[i].len <= reqs[j].lo
          /\ \A i \in 1..Len(reqs) : reqs[i].lo + reqs[i].len <= accepted
      BY DEF IInv, RequestsOrdered
    <3>3. \A i \in 1..Len(reqs) : reqs[i].lo + reqs[i].len <= accepted'
      BY <1>1, <2>1, <3>1, <3>2
    <3> QED BY <2>1, <3>2, <3>3 DEF RequestsOrdered
  <2> QED BY <1>1, <2>1, <2>2, <2>3, <2>4, <2>5, <2>6 DEF QueuedBytesExact
<1>4. CASE Enqueue(w, t)
  <2> DEFINE r == [lo |-> accepted + w, len |-> t]
  <2>1. /\ accepted' = accepted + w + t /\ reqs' = Append(reqs, r)
        /\ queued_bytes' = queued_bytes + t /\ closing' = closing /\ uv_closes' = uv_closes
        /\ ~(queued_bytes + t > MaxWriteQueue)
    BY <1>4 DEF Enqueue, OverCap
  <2>2. r \in WriteReq BY <1>1 DEF WriteReq
  <2>3. QueuedSet' = QueuedSet \cup BytesOf(r)
    BY <1>1, <2>1, <2>2, CoveredAppend DEF QueuedSet
  <2>4. BytesOf(r) = (accepted + w + 1)..(accepted + w + t)
    BY DEF BytesOf
  <2>5. QueuedSet' = (accepted' - queued_bytes' + 1)..accepted'
    BY <1>1, <1>2, <2>1, <2>3, <2>4
  <2>6. RequestsOrdered'
    <3>0. /\ Len(Append(reqs, r)) = Len(reqs) + 1 /\ Len(reqs) \in Nat
          /\ Append(reqs, r)[Len(reqs) + 1] = r
          /\ \A i \in 1..Len(reqs) : Append(reqs, r)[i] = reqs[i]
      <4> HIDE DEF r
      <4> QED BY <1>1, <2>2
    <3>1. /\ Len(reqs') = Len(reqs) + 1 /\ Len(reqs) \in Nat
          /\ reqs'[Len(reqs) + 1] = r
          /\ \A i \in 1..Len(reqs) : reqs'[i] = reqs[i] /\ reqs[i].lo \in Nat /\ reqs[i].len \in Nat
      BY <1>1, <2>1, <3>0, RequestFields
    <3>2. \A i \in 1..Len(reqs) : reqs[i].lo + reqs[i].len <= accepted
      BY DEF IInv, RequestsOrdered
    <3>3. \A i \in 1..Len(reqs') : i \in 1..Len(reqs) \/ i = Len(reqs) + 1
      BY <3>1
    <3>4. r.lo = accepted + w /\ r.len = t
      OBVIOUS
    <3>5. ASSUME NEW i \in 1..Len(reqs'), NEW j \in 1..Len(reqs'), i < j
          PROVE  reqs'[i].lo + reqs'[i].len <= reqs'[j].lo
      <4>1. i \in 1..Len(reqs) BY <3>1, <3>5
      <4>2. CASE j \in 1..Len(reqs)
        BY <3>1, <3>5, <4>1, <4>2 DEF IInv, RequestsOrdered
      <4>3. CASE j = Len(reqs) + 1
        BY <1>1, <3>1, <3>2, <3>4, <4>1, <4>3
      <4> QED BY <3>3, <4>2, <4>3
    <3>6. ASSUME NEW i \in 1..Len(reqs') PROVE reqs'[i].lo + reqs'[i].len <= accepted'
      BY <1>1, <2>1, <3>1, <3>2, <3>3, <3>4
    <3> QED BY <3>5, <3>6 DEF RequestsOrdered
  <2> HIDE DEF r
  <2> QED
    BY <1>1, <2>1, <2>2, <2>3, <2>4, <2>5, <2>6 DEF QueuedBytesExact, BacklogBounded
<1> QED BY <1>3, <1>4 DEF queueTail

(* A write closes the handle at most once, and only an open one. *)
LEMMA WriteCloses ==
    ASSUME NEW n, rawWriteAll(n)
    PROVE  \/ closing' = closing /\ uv_closes' = uv_closes
           \/ ~closing /\ closing' = TRUE /\ uv_closes' = uv_closes + 1
<1>1. ASSUME NEW w, NEW t, queueTail(w, t)
      PROVE  \/ closing' = closing /\ uv_closes' = uv_closes
             \/ ~closing /\ closing' = TRUE /\ uv_closes' = uv_closes + 1
  BY <1>1 DEF queueTail, Reset, Drop, Enqueue, forceClose
<1> QED BY <1>1 DEF rawWriteAll, WriteBehindQueue, WriteDirect

(* A write on a closing connection changes nothing the peer can see. *)
LEMMA WriteWhenClosing ==
    ASSUME IInv, NEW n \in Nat, rawWriteAll(n), closing
    PROVE  accepted' = accepted /\ wire' = wire /\ closing'
<1>1. accepted \in Nat BY DEF IInv, TypeOK
<1>2. ASSUME NEW t, queueTail(0, t) PROVE accepted' = accepted /\ closing'
  <2>1. accepted' = accepted + 0 /\ closing'
    BY <1>2, Zenon DEF queueTail, Reset, Drop, Enqueue, forceClose
  <2> QED BY <1>1, <2>1
<1>3. CASE WriteBehindQueue(n)
  BY <1>2, <1>3 DEF WriteBehindQueue
<1>4. CASE WriteDirect(n)
  <2>1. PICK w \in TryWrite(n) :
            /\ wire' = wire \cup (accepted + 1)..(accepted + w)
            /\ \/ w = n /\ accepted' = accepted + n /\ closing' = closing
               \/ w < n /\ queueTail(w, n - w)
    BY <1>4 DEF WriteDirect
  <2>2. w = 0 BY DEF TryWrite
  <2>3. wire' = wire BY <1>1, <2>1, <2>2
  <2>4. CASE w = n /\ accepted' = accepted + n /\ closing' = closing
    BY <1>1, <2>2, <2>3, <2>4
  <2>5. CASE w < n /\ queueTail(w, n - w)
    BY <1>2, <2>2, <2>3, <2>5
  <2> QED BY <2>1, <2>4, <2>5
<1> QED BY <1>3, <1>4 DEF rawWriteAll

(* The parts of the invariant a write can disturb. *)
LEMMA WriteStep ==
    ASSUME IInv, NEW n \in Nat, rawWriteAll(n)
    PROVE  /\ accepted' \in Nat /\ accepted' >= accepted
           /\ wire' \subseteq 1..accepted' /\ wire \subseteq wire'
           /\ reqs' \in Seq(WriteReq) /\ queued_bytes' \in Nat
           /\ closing' \in BOOLEAN /\ uv_closes' \in Nat
           /\ WireIsPrefix' /\ QueuedBytesExact' /\ BacklogBounded'
           /\ NothingForgotten' /\ RequestsOrdered'
<1>1. /\ accepted \in Nat /\ wire \subseteq 1..accepted /\ reqs \in Seq(WriteReq)
      /\ queued_bytes \in Nat /\ closing \in BOOLEAN /\ uv_closes \in Nat
  BY DEF IInv, TypeOK
<1>2. PICK k \in 0..accepted : wire = 1..k
  BY DEF IInv, WireIsPrefix
<1>3. ~closing => (1..accepted) \ wire \subseteq QueuedSet
  BY DEF IInv, NothingForgotten
<1>4. CASE WriteBehindQueue(n)
  <2>1. wire' = wire /\ queueTail(0, n)
    BY <1>4 DEF WriteBehindQueue
  <2>2. /\ QueuedBytesExact' /\ BacklogBounded' /\ RequestsOrdered'
        /\ accepted' \in Nat /\ accepted' >= accepted
        /\ reqs' \in Seq(WriteReq) /\ queued_bytes' \in Nat
        /\ closing' \in BOOLEAN /\ uv_closes' \in Nat
        /\ closing => closing'
        /\ ~closing' => ((accepted + 1)..accepted') \subseteq QueuedSet'
        /\ ~closing' => QueuedSet \subseteq QueuedSet'
    BY <1>1, <2>1, QueueTailStep
  <2>3. WireIsPrefix' BY <1>1, <1>2, <2>1, <2>2 DEF WireIsPrefix
  <2>4. NothingForgotten'
    <3>1. SUFFICES ASSUME ~closing', NEW b \in (1..accepted') \ wire' PROVE b \in QueuedSet'
      BY DEF NothingForgotten
    <3>2. CASE b <= accepted BY <1>1, <1>3, <2>1, <2>2, <3>1, <3>2
    <3>3. CASE b > accepted BY <1>1, <2>2, <3>1, <3>3
    <3> QED BY <1>1, <2>2, <3>1, <3>2, <3>3
  <2> QED BY <1>1, <2>1, <2>2, <2>3, <2>4
<1>5. CASE WriteDirect(n)
  <2>1. PICK w \in TryWrite(n) :
            /\ wire' = wire \cup (accepted + 1)..(accepted + w)
            /\ \/ /\ w = n /\ accepted' = accepted + n
                  /\ reqs' = reqs /\ queued_bytes' = queued_bytes
                  /\ closing' = closing /\ uv_closes' = uv_closes
               \/ w < n /\ queueTail(w, n - w)
    BY <1>5 DEF WriteDirect, queue
  <2>2. w \in Nat /\ w <= n /\ queued_bytes = 0 /\ (closing => w = 0)
    BY <1>5 DEF TryWrite, WriteDirect
  <2>3. /\ QueuedBytesExact' /\ BacklogBounded' /\ RequestsOrdered'
        /\ accepted' \in Nat /\ accepted' >= accepted + w
        /\ reqs' \in Seq(WriteReq) /\ queued_bytes' \in Nat
        /\ closing' \in BOOLEAN /\ uv_closes' \in Nat
        /\ closing => closing'
        /\ ~closing' => ((accepted + w + 1)..accepted') \subseteq QueuedSet'
    <3>1. CASE w < n /\ queueTail(w, n - w)
      <4>1. n - w \in Nat BY <2>2, <3>1
      <4> QED BY <2>2, <3>1, <4>1, QueueTailStep
    <3>2. CASE /\ w = n /\ accepted' = accepted + n
               /\ reqs' = reqs /\ queued_bytes' = queued_bytes
               /\ closing' = closing /\ uv_closes' = uv_closes
      <4>1. QueuedBytesExact'
        <5>1. QueuedSet = {} BY <1>1, <2>2 DEF IInv, QueuedBytesExact
        <5>2. QueuedSet' = QueuedSet BY <3>2 DEF QueuedSet
        <5>3. (accepted' - queued_bytes' + 1)..accepted' = {} BY <1>1, <2>2, <3>2
        <5> QED BY <5>1, <5>2, <5>3 DEF QueuedBytesExact
      <4>2. BacklogBounded' BY <3>2 DEF IInv, BacklogBounded
      <4>3. RequestsOrdered'
        <5>1. \A i \in 1..Len(reqs) : reqs[i].lo \in Nat /\ reqs[i].len \in Nat
          BY <1>1, RequestFields
        <5>2. \A i \in 1..Len(reqs) : reqs[i].lo + reqs[i].len <= accepted'
          BY <1>1, <2>2, <3>2, <5>1 DEF IInv, RequestsOrdered
        <5> QED BY <3>2, <5>2 DEF IInv, RequestsOrdered
      <4> QED BY <1>1, <2>2, <3>2, <4>1, <4>2, <4>3
    <3> QED BY <2>1, <3>1, <3>2
  <2>4. CASE closing
    <3>1. wire' = wire BY <1>1, <2>1, <2>2, <2>4
    <3>2. closing' BY <2>3, <2>4
    <3>3. WireIsPrefix' BY <1>1, <1>2, <2>2, <2>3, <3>1 DEF WireIsPrefix
    <3>4. NothingForgotten' BY <3>2 DEF NothingForgotten
    <3> QED BY <1>1, <2>2, <2>3, <3>1, <3>3, <3>4
  <2>5. CASE ~closing
    <3>1. wire = 1..accepted
      BY <2>2, <2>5, EmptyQueueAllSent DEF IInv
    <3>2. wire' = 1..(accepted + w) BY <1>1, <2>1, <2>2, <3>1
    <3>3. WireIsPrefix'
      <4>1. accepted + w \in 0..accepted' BY <1>1, <2>2, <2>3
      <4> QED BY <3>2, <4>1 DEF WireIsPrefix
    <3>4. NothingForgotten'
      <4>1. SUFFICES ASSUME ~closing', NEW b \in (1..accepted') \ wire' PROVE b \in QueuedSet'
        BY DEF NothingForgotten
      <4>2. b \in (accepted + w + 1)..accepted' BY <1>1, <2>2, <2>3, <3>2, <4>1
      <4> QED BY <2>3, <4>1, <4>2
    <3> QED BY <1>1, <2>2, <2>3, <3>1, <3>2, <3>3, <3>4
  <2> QED BY <2>4, <2>5
<1> QED BY <1>4, <1>5 DEF rawWriteAll

-----------------------------------------------------------------------------
(* A fresh connection: nothing taken over, nothing queued. *)
LEMMA InitInvariant == Init => IInv
<1> SUFFICES ASSUME Init PROVE IInv OBVIOUS
<1>1. TypeOK
  <2>1. accepted \in Nat /\ wire \subseteq 1..accepted /\ queued_bytes \in Nat /\ uv_closes \in Nat
    BY DEF Init
  <2>2. reqs \in Seq(WriteReq) BY DEF Init
  <2>3. /\ closing \in BOOLEAN /\ sent_close \in BOOLEAN
        /\ in_close \in BOOLEAN /\ closed \in BOOLEAN
    BY DEF Init
  <2> QED BY <2>1, <2>2, <2>3, Zenon DEF TypeOK
<1>2. WireIsPrefix
  <2>1. 0 \in 0..accepted /\ wire = 1..0 BY DEF Init
  <2> QED BY <2>1 DEF WireIsPrefix
<1>3. QueuedBytesExact
  <2>1. QueuedSet = {} BY DEF Init, QueuedSet, Covered
  <2>2. (accepted - queued_bytes + 1)..accepted = {} BY DEF Init
  <2> QED BY <2>1, <2>2 DEF QueuedBytesExact
<1>4. BacklogBounded BY MaxWriteQueueAssumption DEF Init, BacklogBounded
<1>5. NothingForgotten BY DEF Init, NothingForgotten
<1>6. RequestsOrdered BY DEF Init, RequestsOrdered
<1>7. PlainCloseCount BY DEF Init, PlainCloseCount
<1> QED BY <1>1, <1>2, <1>3, <1>4, <1>5, <1>6, <1>7 DEF IInv

(* Every step keeps the invariant, one case per action. *)
LEMMA NextInvariant == IInv /\ [Next]_vars => IInv'
<1> SUFFICES ASSUME IInv, [Next]_vars PROVE IInv' OBVIOUS
<1>1. /\ accepted \in Nat /\ wire \subseteq 1..accepted /\ reqs \in Seq(WriteReq)
      /\ queued_bytes \in Nat /\ closing \in BOOLEAN /\ sent_close \in BOOLEAN
      /\ in_close \in BOOLEAN /\ uv_closes \in Nat /\ closed \in BOOLEAN
  BY DEF IInv, TypeOK
<1>2. CASE Write
  <2>1. PICK n \in WriteSizes : rawWriteAll(n) BY <1>2 DEF Write
  <2>2. n \in Nat BY WriteSizesAssumption
  <2>3. sent_close' = sent_close /\ in_close' = in_close /\ closed' = closed
    BY <1>2 DEF Write
  <2>4. TypeOK' BY <1>1, <2>1, <2>2, <2>3, WriteStep DEF TypeOK
  <2>5. PlainCloseCount'
    <3>1. SUFFICES ASSUME ~Tls PROVE ~in_close' /\ uv_closes' = (IF closing' THEN 1 ELSE 0)
      BY DEF PlainCloseCount
    <3>2. ~in_close /\ uv_closes = (IF closing THEN 1 ELSE 0)
      BY <3>1 DEF IInv, PlainCloseCount
    <3>3. CASE closing' = closing /\ uv_closes' = uv_closes
      BY <2>3, <3>2, <3>3
    <3>4. CASE ~closing /\ closing' = TRUE /\ uv_closes' = uv_closes + 1
      BY <2>3, <3>2, <3>4
    <3> QED BY <2>1, <3>3, <3>4, WriteCloses
  <2> QED BY <2>1, <2>2, <2>4, <2>5, WriteStep DEF IInv
<1>3. CASE closeConnAlert
  <2>1. rawWriteAll(AlertLen) /\ AlertLen \in Nat /\ Tls
    BY <1>3, TlsAssumption DEF closeConnAlert
  <2>2. sent_close' = TRUE /\ in_close' = TRUE /\ closed' = closed
    BY <1>3 DEF closeConnAlert
  <2>3. TypeOK' BY <1>1, <2>1, <2>2, WriteStep DEF TypeOK
  <2>4. PlainCloseCount' BY <2>1 DEF PlainCloseCount
  <2> QED BY <2>1, <2>3, <2>4, WriteStep DEF IInv
<1>4. CASE Flush
  <2>1. /\ ~closing /\ accepted' = accepted /\ reqs' = reqs /\ queued_bytes' = queued_bytes
        /\ closing' = closing /\ sent_close' = sent_close /\ in_close' = in_close
        /\ uv_closes' = uv_closes /\ closed' = closed
    BY <1>4 DEF Flush, queue, closeVars
  <2>2. PICK last \in Unsent : wire' = wire \cup {b \in Unsent : b <= last}
    BY <1>4 DEF Flush
  <2>3. PICK k \in 0..accepted : wire = 1..k
    BY DEF IInv, WireIsPrefix
  <2>4. QueuedSet = (accepted - queued_bytes + 1)..accepted
    BY DEF IInv, QueuedBytesExact
  <2>5. (1..accepted) \ wire \subseteq QueuedSet
    BY <2>1 DEF IInv, NothingForgotten
  <2>6. last \in Int /\ last <= accepted /\ last \notin 1..k /\ last >= accepted - queued_bytes + 1
    BY <1>1, <2>2, <2>3, <2>4 DEF Unsent
  <2>7. \A b \in 1..accepted : b > k => b \in QueuedSet
    BY <1>1, <2>3, <2>5
  <2>8. last > k
    <3>1. CASE last >= 1 BY <2>3, <2>6, <3>1
    <3>2. CASE last < 1
      <4>1. accepted - queued_bytes < 0 BY <1>1, <2>6, <3>2
      <4>2. QueuedSet \subseteq 1..accepted
        <5>1. \A i \in 1..Len(reqs) : BytesOf(reqs[i]) \subseteq 1..accepted
          BY <1>1, RequestFields DEF IInv, RequestsOrdered, BytesOf
        <5> QED BY <5>1 DEF QueuedSet, Covered
      <4>3. last \in QueuedSet BY <2>2 DEF Unsent
      <4> QED BY <3>2, <4>2, <4>3
    <3> QED BY <2>6, <3>1, <3>2
  <2>9. wire' = 1..last
    <3>1. ASSUME NEW b \in wire' PROVE b \in 1..last
      <4>1. CASE b \in wire BY <2>3, <2>6, <2>8, <4>1
      <4>2. CASE b \in Unsent /\ b <= last
        <5>1. b \in QueuedSet BY <4>2 DEF Unsent
        <5>2. \A i \in 1..Len(reqs) : BytesOf(reqs[i]) \subseteq 1..accepted
          BY <1>1, RequestFields DEF IInv, RequestsOrdered, BytesOf
        <5>3. b \in 1..accepted BY <5>1, <5>2 DEF QueuedSet, Covered
        <5> QED BY <2>6, <4>2, <5>3
      <4> QED BY <2>2, <3>1, <4>1, <4>2
    <3>2. ASSUME NEW b \in 1..last PROVE b \in wire'
      <4>1. CASE b <= k BY <2>2, <2>3, <3>2, <4>1
      <4>2. CASE b > k
        <5>1. b \in 1..accepted BY <1>1, <2>6, <3>2
        <5>2. b \in QueuedSet /\ b \notin wire BY <2>3, <2>7, <4>2, <5>1
        <5> QED BY <2>2, <3>2, <5>2 DEF Unsent
      <4> QED BY <2>3, <4>1, <4>2
    <3> QED BY <3>1, <3>2
  <2>10. WireIsPrefix'
    <3>1. last \in 0..accepted' BY <1>1, <2>1, <2>3, <2>6, <2>8
    <3> QED BY <2>9, <3>1 DEF WireIsPrefix
  <2>11. TypeOK'
    <3>1. wire' \subseteq 1..accepted' BY <1>1, <2>1, <2>6, <2>9
    <3> QED BY <1>1, <2>1, <3>1 DEF TypeOK
  <2>12. QueuedSet' = QueuedSet BY <2>1 DEF QueuedSet
  <2>13. NothingForgotten'
    BY <1>1, <2>1, <2>2, <2>5, <2>12 DEF NothingForgotten
  <2>14. QueuedBytesExact' /\ BacklogBounded' /\ RequestsOrdered' /\ PlainCloseCount'
    BY <2>1, <2>4, <2>12 DEF IInv, QueuedBytesExact, BacklogBounded, RequestsOrdered, PlainCloseCount
  <2> QED BY <2>10, <2>11, <2>13, <2>14 DEF IInv
<1>5. CASE onWrite
  <2> DEFINE h == Head(reqs)
  <2>1. /\ reqs # <<>> /\ (closing \/ BytesOf(h) \subseteq wire) /\ reqs' = Tail(reqs)
        /\ queued_bytes' = (IF queued_bytes >= h.len THEN queued_bytes - h.len ELSE 0)
        /\ accepted' = accepted /\ wire' = wire
        /\ closing' = closing /\ sent_close' = sent_close /\ in_close' = in_close
        /\ uv_closes' = uv_closes /\ closed' = closed
    BY <1>5 DEF onWrite, closeVars
  <2>2. h.len <= queued_bytes /\ Covered(Tail(reqs)) = (accepted - (queued_bytes - h.len) + 1)..accepted
    BY <2>1, OldestFirst DEF IInv
  <2>3. 1 \in 1..Len(reqs) /\ h = reqs[1] /\ Tail(reqs) \in Seq(WriteReq)
    BY <1>1, <2>1
  <2>4. h.len \in Nat BY <1>1, <2>3, RequestFields
  <2>5. queued_bytes' = queued_bytes - h.len BY <1>1, <2>1, <2>2, <2>4
  <2>6. QueuedSet' = Covered(Tail(reqs)) BY <2>1 DEF QueuedSet
  <2>7. QueuedBytesExact' BY <2>1, <2>2, <2>5, <2>6 DEF QueuedBytesExact
  <2>8. TypeOK' BY <1>1, <2>1, <2>2, <2>3, <2>4, <2>5 DEF TypeOK
  <2>9. BacklogBounded'
    BY <1>1, <2>4, <2>5, MaxWriteQueueAssumption DEF IInv, BacklogBounded
  <2>10. RequestsOrdered'
    <3>1. Len(reqs') = Len(reqs) - 1 /\ Len(reqs) \in Nat
      BY <1>1, <2>1
    <3>2. \A i \in 1..Len(reqs') : i + 1 \in 1..Len(reqs) /\ reqs'[i] = reqs[i + 1]
      BY <1>1, <2>1, <3>1
    <3>3. ASSUME NEW i \in 1..Len(reqs'), NEW j \in 1..Len(reqs'), i < j
          PROVE  reqs'[i].lo + reqs'[i].len <= reqs'[j].lo
      <4>1. i + 1 < j + 1 BY <3>3
      <4> QED BY <3>2, <4>1 DEF IInv, RequestsOrdered
    <3>4. ASSUME NEW i \in 1..Len(reqs') PROVE reqs'[i].lo + reqs'[i].len <= accepted'
      BY <2>1, <3>2 DEF IInv, RequestsOrdered
    <3> QED BY <3>3, <3>4 DEF RequestsOrdered
  <2>11. NothingForgotten'
    <3>1. SUFFICES ASSUME ~closing, NEW b \in (1..accepted) \ wire PROVE b \in QueuedSet'
      BY <2>1 DEF NothingForgotten
    <3>2. b \in QueuedSet BY <3>1 DEF IInv, NothingForgotten
    <3>3. b \notin BytesOf(h) BY <2>1, <3>1
    <3>4. QueuedSet = BytesOf(h) \cup Covered(Tail(reqs))
      BY <1>1, <2>1, CoveredTail DEF QueuedSet
    <3> QED BY <2>6, <3>2, <3>3, <3>4
  <2>12. WireIsPrefix' /\ PlainCloseCount'
    BY <2>1 DEF IInv, WireIsPrefix, PlainCloseCount
  <2> QED BY <2>7, <2>8, <2>9, <2>10, <2>11, <2>12 DEF IInv
<1>6. CASE closeConn \/ closeConnFinish
  <2>1. /\ accepted' = accepted /\ wire' = wire /\ reqs' = reqs /\ queued_bytes' = queued_bytes
        /\ closing' = TRUE /\ uv_closes' = uv_closes + 1 /\ sent_close' = sent_close
        /\ in_close' = FALSE /\ closed' = closed
    BY <1>1, <1>6 DEF closeConn, closeConnFinish, queue
  <2>a. uv_closes' \in Nat BY <1>1, <2>1
  <2>2. TypeOK' BY <1>1, <2>1, <2>a, Zenon DEF TypeOK
  <2>3. QueuedSet' = QueuedSet BY <2>1 DEF QueuedSet
  <2>4. WireIsPrefix' /\ QueuedBytesExact' /\ BacklogBounded' /\ NothingForgotten' /\ RequestsOrdered'
    BY <2>1, <2>3 DEF IInv, WireIsPrefix, QueuedBytesExact, BacklogBounded, NothingForgotten, RequestsOrdered
  <2>5. PlainCloseCount'
    <3>1. ~Tls => ~closing /\ uv_closes = 0
      BY <1>6 DEF IInv, PlainCloseCount, closeConn, closeConnFinish
    <3> QED BY <2>1, <3>1 DEF PlainCloseCount
  <2> QED BY <2>2, <2>4, <2>5 DEF IInv
<1>7. CASE onClose \/ UNCHANGED vars
  <2>1. /\ accepted' = accepted /\ wire' = wire /\ reqs' = reqs /\ queued_bytes' = queued_bytes
        /\ closing' = closing /\ uv_closes' = uv_closes /\ sent_close' = sent_close
        /\ in_close' = in_close /\ closed' \in BOOLEAN
    BY <1>1, <1>7 DEF onClose, vars, queue, closeVars
  <2>2. TypeOK' BY <1>1, <2>1 DEF TypeOK
  <2>3. QueuedSet' = QueuedSet BY <2>1 DEF QueuedSet
  <2>4. WireIsPrefix' /\ QueuedBytesExact' /\ BacklogBounded' /\ NothingForgotten' /\ RequestsOrdered'
    BY <2>1, <2>3 DEF IInv, WireIsPrefix, QueuedBytesExact, BacklogBounded, NothingForgotten, RequestsOrdered
  <2>5. PlainCloseCount' BY <2>1 DEF IInv, PlainCloseCount
  <2> QED BY <2>2, <2>4, <2>5 DEF IInv
<1> QED BY <1>2, <1>3, <1>4, <1>5, <1>6, <1>7 DEF Next

(* The inductive invariant holds throughout, for every ceiling, every size *)
(* of write and every behaviour of the socket.                             *)
THEOREM WriteQueueInvariant == Spec => []IInv
<1> QED BY InitInvariant, NextInvariant, PTL DEF Spec

(* The state keeps its shape (TypeOK) in every behaviour. *)
THEOREM TypeCorrect == Spec => []TypeOK
<1>1. IInv => TypeOK BY DEF IInv
<1> QED BY <1>1, WriteQueueInvariant, PTL

(* rawWriteAll never lets uv_try_write run ahead of queued bytes: the       *)
(* kernel has always received a prefix of what the engine took over.        *)
THEOREM WirePrefixTheorem == Spec => []WireIsPrefix
<1>1. IInv => WireIsPrefix BY DEF IInv
<1> QED BY <1>1, WriteQueueInvariant, PTL

(* conn.queued_bytes is exactly what libuv holds of the connection, and     *)
(* never passes maxWriteQueue.                                              *)
THEOREM BacklogTheorem == Spec => []BacklogCounted
<1>1. IInv => BacklogCounted BY DEF IInv, BacklogCounted
<1> QED BY <1>1, WriteQueueInvariant, PTL

(* No byte taken over is forgotten while the connection is open. *)
THEOREM NothingForgottenTheorem == Spec => []NothingForgotten
<1>1. IInv => NothingForgotten BY DEF IInv
<1> QED BY <1>1, WriteQueueInvariant, PTL

(* Without TLS, closeConn and forceClose between them close the uv handle   *)
(* at most once.  (With TLS a close_notify that overflows the backlog closes *)
(* it twice; see the README.)                                              *)
THEOREM ClosedOnceTheorem == ASSUME ~Tls PROVE Spec => []ClosedOnce
<1>1. IInv => ClosedOnce BY DEF IInv, PlainCloseCount, ClosedOnce
<1> QED BY <1>1, WriteQueueInvariant, PTL

-----------------------------------------------------------------------------
(* A step of the write path is a step of the byte stream, or invisible. *)
LEMMA StepRefines ==
    ASSUME IInv, IInv', [Next]_vars
    PROVE  [Stream!Next]_(Stream!streamVars)
<1>1. /\ accepted' \in Nat /\ closing' \in BOOLEAN /\ accepted \in Nat
      /\ \E n \in 0..accepted' : wire' = 1..n
  BY DEF IInv, TypeOK, WireIsPrefix
<1>2. SUFFICES \/ ~closing /\ accepted' >= accepted /\ wire \subseteq wire'
               \/ accepted' = accepted /\ wire' = wire /\ closing' = closing
  BY <1>1 DEF Stream!Next, Stream!Advance, Stream!streamVars
<1>3. ASSUME NEW n \in Nat, rawWriteAll(n)
      PROVE  \/ ~closing /\ accepted' >= accepted /\ wire \subseteq wire'
             \/ accepted' = accepted /\ wire' = wire /\ closing' = closing
  <2>1. CASE closing
    <3>1. accepted' = accepted /\ wire' = wire /\ closing'
      BY <1>3, <2>1, WriteWhenClosing
    <3>2. closing = TRUE /\ closing' = TRUE
      BY <2>1, <3>1 DEF IInv, TypeOK
    <3> QED BY <3>1, <3>2
  <2>2. CASE ~closing BY <1>3, <2>2, WriteStep
  <2> QED BY <2>1, <2>2
<1>4. CASE Write
  <2>1. PICK n \in WriteSizes : rawWriteAll(n) BY <1>4 DEF Write
  <2> QED BY <1>3, <2>1, WriteSizesAssumption
<1>5. CASE closeConnAlert
  BY <1>3, <1>5, TlsAssumption DEF closeConnAlert
<1>6. CASE Flush
  <2>1. ~closing /\ accepted' = accepted /\ wire \subseteq wire'
    BY <1>6 DEF Flush
  <2> QED BY <1>1, <2>1
<1>7. CASE closeConn
  <2>1. ~closing /\ accepted' = accepted /\ wire' = wire BY <1>7 DEF closeConn
  <2> QED BY <1>1, <2>1
<1>8. CASE closeConnFinish
  <2>1. accepted' = accepted /\ wire' = wire /\ closing' = TRUE
    BY <1>8 DEF closeConnFinish
  <2>2. CASE closing
    <3>1. closing = TRUE BY <2>2 DEF IInv, TypeOK
    <3> QED BY <2>1, <3>1
  <2>3. CASE ~closing
    <3>1. accepted' >= accepted BY <1>1, <2>1
    <3>2. wire \subseteq wire' BY <2>1
    <3> QED BY <2>3, <3>1, <3>2
  <2> QED BY <2>2, <2>3
<1>9. CASE onWrite \/ onClose \/ UNCHANGED vars
  BY <1>9 DEF onWrite, onClose, vars, closeVars
<1> QED BY <1>4, <1>5, <1>6, <1>7, <1>8, <1>9 DEF Next

(* The write path implements the byte stream: whatever the socket takes and *)
(* whenever it closes, a prefix is delivered and nothing follows a close.   *)
THEOREM Refinement == Spec => StreamSpec
<1>1. Init => Stream!Init BY DEF Init, Stream!Init
<1>2. IInv /\ IInv' /\ [Next]_vars => [Stream!Next]_(Stream!streamVars)
  BY StepRefines
<1> QED BY <1>1, <1>2, WriteQueueInvariant, PTL DEF Spec, StreamSpec, Stream!Spec

-----------------------------------------------------------------------------
(* A streamed response writes and closes without an alert, so its socket is *)
(* closed exactly when closing is set; who has pulled a chunk since then    *)
(* was told so and is on its way to endStream.                              *)
StreamInv ==
    /\ IInv
    /\ ~in_close /\ uv_closes = (IF closing THEN 1 ELSE 0)
    /\ pc \in {"start", "pull", "sleep", "end", "done"}
    /\ registered \in BOOLEAN
    /\ pulled \in 0..MaxChunks /\ late \in 0..pulled
    /\ late # 0 => late = 1 /\ pc \in {"end", "done"}

LEMMA StreamWriteKeeps ==
    ASSUME StreamInv, NEW n \in Nat, rawWriteAll(n), NotClosing
    PROVE  IInv' /\ ~in_close' /\ uv_closes' = (IF closing' THEN 1 ELSE 0)
<1>1. IInv /\ ~in_close /\ uv_closes = (IF closing THEN 1 ELSE 0)
  BY DEF StreamInv
<1>2. /\ sent_close \in BOOLEAN /\ closed \in BOOLEAN /\ in_close \in BOOLEAN
      /\ sent_close' = sent_close /\ in_close' = in_close /\ closed' = closed
  BY <1>1 DEF IInv, TypeOK, NotClosing
<1>3. TypeOK'
  BY <1>1, <1>2, WriteStep DEF TypeOK
<1>4. uv_closes' = (IF closing' THEN 1 ELSE 0)
  <2>1. CASE closing' = closing /\ uv_closes' = uv_closes
    BY <1>1, <2>1
  <2>2. CASE ~closing /\ closing' = TRUE /\ uv_closes' = uv_closes + 1
    BY <1>1, <2>2
  <2> QED BY <2>1, <2>2, WriteCloses
<1>5. PlainCloseCount'
  BY <1>1, <1>2, <1>4 DEF PlainCloseCount
<1> QED BY <1>1, <1>2, <1>3, <1>4, <1>5, WriteStep DEF IInv

LEMMA StreamStep == StreamInv /\ [StreamNext]_allVars => StreamInv'
<1> SUFFICES ASSUME StreamInv, [StreamNext]_allVars PROVE StreamInv'
  OBVIOUS
<1>1. /\ IInv /\ ~in_close /\ uv_closes = (IF closing THEN 1 ELSE 0)
      /\ pc \in {"start", "pull", "sleep", "end", "done"} /\ registered \in BOOLEAN
      /\ MaxChunks \in Nat /\ pulled \in Nat /\ pulled <= MaxChunks /\ late \in Nat /\ late <= pulled
      /\ late # 0 => late = 1 /\ pc \in {"end", "done"}
  BY ChunkAssumption DEF StreamInv
<1>2. ASSUME NEW n \in Nat, rawWriteAll(n), NotClosing, late' = late, pulled' \in Nat,
             pulled <= pulled', pulled' <= MaxChunks,
             pc' \in {"pull", "sleep", "done"}, late # 0 => pc' = "done", registered' \in BOOLEAN
      PROVE  StreamInv'
  <2>1. IInv' /\ ~in_close' /\ uv_closes' = (IF closing' THEN 1 ELSE 0)
    BY <1>2, StreamWriteKeeps
  <2>2. pulled' \in 0..MaxChunks /\ late' \in 0..pulled'
    BY <1>1, <1>2
  <2> QED BY <1>1, <1>2, <2>1, <2>2 DEF StreamInv
<1>3. ASSUME UNCHANGED vars, pulled' \in Nat, pulled' <= MaxChunks, late' \in Nat, late' <= pulled',
             pc' \in {"pull", "end", "done"}, late' # 0 => late' = 1 /\ pc' \in {"end", "done"},
             registered' \in BOOLEAN
      PROVE  StreamInv'
  <2>1. IInv' /\ ~in_close' /\ uv_closes' = (IF closing' THEN 1 ELSE 0)
    BY <1>1, <1>3, NextInvariant DEF vars, closeVars
  <2>2. pulled' \in 0..MaxChunks /\ late' \in 0..pulled'
    BY <1>1, <1>3
  <2> QED BY <1>3, <2>1, <2>2 DEF StreamInv
<1>4. CASE startStream
  <2>1. /\ pc' = "pull" /\ registered' = registered /\ pulled' = pulled /\ late' = late /\ late = 0
        /\ (rawWriteAll(HeadLen) /\ NotClosing) \/ UNCHANGED vars
    BY <1>1, <1>4 DEF startStream
  <2> QED BY <1>1, <1>2, <1>3, <2>1, ChunkAssumption
<1>5. CASE pullChunk
  <2>1. /\ pulled' = pulled + 1 /\ pulled' \in Nat /\ pulled' <= MaxChunks /\ late = 0
        /\ registered' = registered
        /\ late' = late + (IF closing THEN 1 ELSE 0)
        /\ ChunkRefused \/ \E n \in ChunkSizes : ChunkWritten(n)
    BY <1>1, <1>5 DEF pullChunk
  <2>2. CASE ChunkRefused
    BY <1>1, <1>3, <2>1, <2>2 DEF ChunkRefused
  <2>3. ASSUME NEW n \in ChunkSizes, ChunkWritten(n) PROVE StreamInv'
    <3>1. /\ rawWriteAll(n) /\ NotClosing /\ ~closing /\ n \in Nat
          /\ pc' \in {"pull", "sleep"}
      BY <2>3, ChunkAssumption DEF ChunkWritten, AfterBacklog
    <3> QED BY <1>1, <1>2, <2>1, <3>1
  <2> QED BY <2>1, <2>2, <2>3
<1>6. CASE wake \/ sourceDone
  <2>1. /\ pc' \in {"pull", "end"} /\ registered' = registered /\ pulled' = pulled /\ late' = late /\ late = 0
        /\ UNCHANGED vars
    BY <1>1, <1>6 DEF wake, sourceDone
  <2> QED BY <1>1, <1>3, <2>1
<1>7. CASE endStream
  <2>1. /\ pc' = "done" /\ registered' = FALSE /\ pulled' = pulled /\ late' = late
        /\ (rawWriteAll(EndLen) /\ NotClosing) \/ UNCHANGED vars
    BY <1>7 DEF endStream
  <2>2. HeadLen \in Nat /\ EndLen \in Nat
    BY ChunkAssumption
  <2>3. CASE rawWriteAll(EndLen) /\ NotClosing
    <3>1. /\ late' = late /\ pulled' \in Nat /\ pulled <= pulled' /\ pulled' <= MaxChunks
          /\ pc' \in {"pull", "sleep", "done"} /\ (late # 0 => pc' = "done") /\ registered' = FALSE
      BY <1>1, <2>1
    <3>2. registered' \in BOOLEAN
      BY <3>1
    <3> QED BY <1>2, <2>2, <2>3, <3>1, <3>2
  <2>4. CASE UNCHANGED vars
    BY <1>1, <1>3, <2>1, <2>4
  <2> QED BY <2>1, <2>3, <2>4
<1>8. CASE Socket \/ UNCHANGED allVars
  <2>1. /\ Flush \/ onWrite \/ closeConn \/ onClose \/ UNCHANGED vars
        /\ pc' = pc /\ pulled' = pulled /\ late' = late /\ registered' \in BOOLEAN
    BY <1>1, <1>8 DEF Socket, driveVars, allVars
  <2>2. IInv'
    BY <1>1, <2>1, NextInvariant DEF Next
  <2>3. ~in_close' /\ uv_closes' = (IF closing' THEN 1 ELSE 0)
    BY <1>1, <2>1 DEF Flush, onWrite, closeConn, onClose, vars, closeVars
  <2>4. pulled' \in 0..MaxChunks /\ late' \in 0..pulled'
    BY <1>1, <2>1
  <2>5. /\ pc' \in {"start", "pull", "sleep", "end", "done"} /\ registered' \in BOOLEAN
        /\ late' # 0 => late' = 1 /\ pc' \in {"end", "done"}
    BY <1>1, <2>1
  <2> QED BY <2>2, <2>3, <2>4, <2>5, Zenon DEF StreamInv
<1> QED BY <1>4, <1>5, <1>6, <1>7, <1>8 DEF StreamNext, Drive

(* StreamSafe: once the connection is closing, at most one more chunk is    *)
(* taken from the source, and the socket is closed once (#drive, stream.zig *)
(* and closeConn), whatever is written and whatever the peer does.          *)
THEOREM StreamTheorem == StreamSpecification => []StreamSafe
<1>1. StreamInit => StreamInv
  <2> SUFFICES ASSUME StreamInit PROVE StreamInv
    OBVIOUS
  <2>1. IInv /\ ~in_close /\ uv_closes = 0 /\ closing = FALSE
    BY InitInvariant DEF StreamInit, Init
  <2>2. pulled \in 0..MaxChunks /\ late \in 0..pulled /\ late = 0
    BY ChunkAssumption DEF StreamInit
  <2> QED BY <2>1, <2>2 DEF StreamInit, StreamInv
<1>2. StreamInv => StreamSafe
  <2> SUFFICES ASSUME StreamInv PROVE StreamSafe
    OBVIOUS
  <2>1. TypeOK /\ uv_closes <= 1
    BY DEF StreamInv, IInv
  <2>2. MaxChunks \in Nat
    BY ChunkAssumption
  <2>3. pulled \in 0..MaxChunks /\ late \in 0..MaxChunks /\ late <= 1
    BY <2>2 DEF StreamInv
  <2> QED BY <2>1, <2>3 DEF StreamInv, StreamSafe, StreamTypeOK, StopsAfterDisconnect, ClosedOnce
<1> QED BY <1>1, <1>2, StreamStep, PTL DEF StreamSpecification

-----------------------------------------------------------------------------
(* Every dispatch has an id of its own. *)
NoWrap == MaxDispatch <= IdSpace

(* Job k carries id k, and nothing has been sent for a job not yet issued. *)
Numbered ==
    /\ count < IdSpace => next_id = count + 1
    /\ \A k \in Dispatches : k <= count => jobs[k].id = k
    /\ \A k \in Dispatches : k > count => jobs[k].st = "none" /\ ~jobs[k].timer /\ sent[k] = "none"
    /\ \A k \in Dispatches : jobs[k].timer => jobs[k].st = "running"

(* An entry of `pending' is the connection suspended on that very request. *)
Entries ==
    \A i \in Ids : pending[i] # NoSlot =>
        /\ i <= count
        /\ conn[pending[i]].awaiting
        /\ conn[pending[i]].dispatch_id = i
        /\ conn[pending[i]].req = i

(* Suspended connections are in use, and no two share an id, also when one  *)
(* is closing and has lost its entry to a late answer.                      *)
Suspensions ==
    /\ \A s \in Slots : conn[s].awaiting => conn[s].st # "free" /\ conn[s].dispatch_id \in 1..count
    /\ \A s, t \in Slots : conn[s].awaiting /\ conn[t].awaiting /\ s # t
                              => conn[s].dispatch_id # conn[t].dispatch_id

(* A connection that reads is open and not suspended; one that is drained   *)
(* is not suspended.                                                        *)
Awake ==
    /\ \A s \in Slots : conn[s].reading => conn[s].st = "open" /\ ~conn[s].awaiting
    /\ draining # NoSlot => ~conn[draining].awaiting /\ conn[draining].st # "free"

(* What has been sent for a request that still has its entry. *)
Progress ==
    \A k \in Dispatches : pending[k] # NoSlot =>
        /\ jobs[k].st \in {"running", "starting"} => sent[k] = "none"
        /\ jobs[k].st = "streaming" /\ conn[pending[k]].st = "open" => sent[k] = "streaming"

DispatchInv == DispatchTypeOK /\ Numbered /\ Entries /\ Suspensions /\ AwaitingRegistered /\ Awake /\ Progress
            /\ RepliesMatch

(* Records a step stores are records of the right shape. *)
LEMMA FreeConn == Free \in Conn
  <1>1. 0 \in 0..IdSpace /\ 0 \in 0..MaxDispatch /\ 0 \in 0..MaxReady
    BY DispatchBounds
  <1>2. QED
    BY <1>1, Zenon DEF Free, Conn

(* A connection that begins to close keeps its shape. *)
LEMMA ClosingConn ==
  ASSUME NEW c \in Conn
  PROVE  [c EXCEPT !.st = "closing", !.reading = FALSE] \in Conn
  BY DEF Conn

(* A suspended connection is a connection. *)
LEMMA SuspendedConn ==
  ASSUME NEW c \in Conn, c.ready > 0, NEW i \in Ids, NEW r \in Dispatches
  PROVE  [c EXCEPT !.ready = @ - 1, !.awaiting = TRUE, !.reading = FALSE,
                   !.dispatch_id = i, !.req = r] \in Conn
  <1>1. c.ready - 1 \in 0..MaxReady /\ i \in 0..IdSpace /\ r \in 0..MaxDispatch
    BY DispatchBounds DEF Conn, Ids, Dispatches
  <1>2. QED
    BY <1>1 DEF Conn

(* What submitResponse leaves of a connection is a connection. *)
LEMMA ResumedConn ==
  ASSUME NEW c \in Conn, NEW how \in Outcomes
  PROVE  /\ Resumed(c, how) \in Conn
         /\ ~Resumed(c, how).awaiting
         /\ Resumed(c, how).reading => Resumed(c, how).st = "open"
         /\ Resumed(c, how).st # "free"
  BY DEF Conn, Resumed, Outcomes

(* No job is a job. *)
LEMMA NoJobJob == NoJob \in Job
  <1>1. 1 \in Ids
    BY DispatchBounds DEF Ids
  <1>2. QED
    BY <1>1, Zenon DEF NoJob, Job

(* The initial state: no connection, no entry, no job. *)
LEMMA InitIInv == DispatchInit => DispatchInv
  <1> SUFFICES ASSUME DispatchInit PROVE DispatchInv
    OBVIOUS
  <1> USE NoSlotAssumption, DispatchBounds DEF DispatchInit, Ids, Dispatches
  <1>1. DispatchTypeOK
    <2>1. conn \in [Slots -> Conn]
      BY FreeConn
    <2>2. jobs \in [Dispatches -> Job]
      BY NoJobJob
    <2>3. 1 \in Ids /\ 0 \in 0..MaxDispatch
      OBVIOUS
    <2>4. QED
      BY <2>1, <2>2, <2>3 DEF DispatchTypeOK
  <1>2. Numbered
    BY DEF Numbered, Free, NoJob
  <1>3. Entries
    BY DEF Entries, Free, NoJob
  <1>4. Suspensions
    BY DEF Suspensions, Free, NoJob
  <1>5. AwaitingRegistered
    BY DEF AwaitingRegistered, Free, NoJob
  <1>6. Awake
    BY DEF Awake, Free, NoJob
  <1>7. Progress
    BY DEF Progress, Free, NoJob
  <1>8. RepliesMatch
    BY DEF RepliesMatch, Free, NoJob
  <1>9. QED
    BY <1>1, <1>2, <1>3, <1>4, <1>5, <1>6, <1>7, <1>8 DEF DispatchInv

(* A slot is taken. *)
LEMMA AcceptStep ==
  ASSUME NoWrap, DispatchInv, NEW s \in Slots, onConnection(s)
  PROVE  DispatchInv'
  <1> USE NoSlotAssumption, DispatchBounds
      DEF NoWrap, DispatchInv, Ids, Dispatches, Idle, js, onConnection
  <1>1. DispatchTypeOK'
    <2> DEFINE c == conn[s]
               d == [Free EXCEPT !.st = "open", !.reading = TRUE]
    <2>1. c \in Conn
      BY DEF DispatchTypeOK
    <2>2. d \in Conn
      BY FreeConn DEF Conn
    <2>3. conn' = [conn EXCEPT ![s] = d]
      BY DEF DispatchTypeOK, Conn
    <2>4. conn' \in [Slots -> Conn]
      BY <2>2, <2>3 DEF DispatchTypeOK
    <2>5. QED
      BY <2>4 DEF DispatchTypeOK, Job
  <1>2. Numbered'
    BY DEF DispatchTypeOK, Numbered, Job
  <1>3. Entries'
    BY DEF DispatchTypeOK, Conn, Free, Entries, Suspensions
  <1>4. Suspensions'
    BY DEF DispatchTypeOK, Conn, Free, Suspensions
  <1>5. AwaitingRegistered'
    BY DEF DispatchTypeOK, Conn, Free, AwaitingRegistered
  <1>6. Awake'
    BY DEF DispatchTypeOK, Conn, Free, Awake
  <1>7. Progress'
    BY DEF DispatchTypeOK, Conn, Free, Numbered, Entries, Progress, Suspensions
  <1>8. RepliesMatch'
    BY DEF DispatchTypeOK, RepliesMatch
  <1>9. QED
    BY <1>1, <1>2, <1>3, <1>4, <1>5, <1>6, <1>7, <1>8 DEF DispatchInv

(* Bytes arrive. *)
LEMMA ReadStep ==
  ASSUME NoWrap, DispatchInv, NEW s \in Slots, NEW k \in 0..MaxReady, NEW rest \in BOOLEAN,
         onRead(s, k, rest)
  PROVE  DispatchInv'
  <1> USE NoSlotAssumption, DispatchBounds
      DEF NoWrap, DispatchInv, Ids, Dispatches, Idle, js, onRead
  <1>1. DispatchTypeOK'
    <2> DEFINE c == conn[s]
               d == [c EXCEPT !.ready = k, !.partial = rest, !.aged = FALSE]
    <2>1. c \in Conn
      BY DEF DispatchTypeOK
    <2>2. d \in Conn
      BY <2>1 DEF Conn
    <2>3. conn' = [conn EXCEPT ![s] = d]
      BY DEF DispatchTypeOK, Conn
    <2>4. conn' \in [Slots -> Conn]
      BY <2>2, <2>3 DEF DispatchTypeOK
    <2>5. QED
      BY <2>4 DEF DispatchTypeOK, Job
  <1>2. Numbered'
    BY DEF DispatchTypeOK, Numbered, Job
  <1>3. Entries'
    BY DEF DispatchTypeOK, Conn, Free, Entries
  <1>4. Suspensions'
    BY SMTT(60) DEF DispatchTypeOK, Conn, Free, Suspensions, Awake
  <1>5. AwaitingRegistered'
    BY DEF DispatchTypeOK, Conn, Free, AwaitingRegistered
  <1>6. Awake'
    BY DEF DispatchTypeOK, Conn, Free, Awake
  <1>7. Progress'
    BY DEF DispatchTypeOK, Conn, Free, Numbered, Entries, Progress
  <1>8. RepliesMatch'
    BY DEF DispatchTypeOK, RepliesMatch
  <1>9. QED
    BY <1>1, <1>2, <1>3, <1>4, <1>5, <1>6, <1>7, <1>8 DEF DispatchInv

(* The peer ends the connection. *)
LEMMA ReadEndStep ==
  ASSUME NoWrap, DispatchInv, NEW s \in Slots, onReadEnd(s)
  PROVE  DispatchInv'
  <1> USE NoSlotAssumption, DispatchBounds
      DEF NoWrap, DispatchInv, Ids, Dispatches, Idle, js, onReadEnd
  <1>1. DispatchTypeOK'
    <2> DEFINE c == conn[s]
               d == [c EXCEPT !.st = "closing", !.reading = FALSE]
    <2>1. c \in Conn
      BY DEF DispatchTypeOK
    <2>2. d \in Conn
      BY <2>1, ClosingConn
    <2>3. conn' = [conn EXCEPT ![s] = d]
      BY DEF DispatchTypeOK, Conn
    <2>4. conn' \in [Slots -> Conn]
      BY <2>2, <2>3 DEF DispatchTypeOK
    <2>5. QED
      BY <2>4 DEF DispatchTypeOK, Job
  <1>2. Numbered'
    BY DEF DispatchTypeOK, Numbered, Job
  <1>3. Entries'
    BY DEF DispatchTypeOK, Conn, Free, Entries
  <1>4. Suspensions'
    BY SMTT(60) DEF DispatchTypeOK, Conn, Free, Suspensions
  <1>5. AwaitingRegistered'
    BY DEF DispatchTypeOK, Conn, Free, AwaitingRegistered
  <1>6. Awake'
    BY DEF DispatchTypeOK, Conn, Free, Awake
  <1>7. Progress'
    BY DEF DispatchTypeOK, Conn, Free, Numbered, Entries, Progress
  <1>8. RepliesMatch'
    BY DEF DispatchTypeOK, RepliesMatch
  <1>9. QED
    BY <1>1, <1>2, <1>3, <1>4, <1>5, <1>6, <1>7, <1>8 DEF DispatchInv

(* The header timeout passes. *)
LEMMA AgeStep ==
  ASSUME NoWrap, DispatchInv, NEW s \in Slots, Age(s)
  PROVE  DispatchInv'
  <1> USE NoSlotAssumption, DispatchBounds
      DEF NoWrap, DispatchInv, Ids, Dispatches, Idle, js, Age
  <1>1. DispatchTypeOK'
    <2> DEFINE c == conn[s]
               d == [c EXCEPT !.aged = TRUE]
    <2>1. c \in Conn
      BY DEF DispatchTypeOK
    <2>2. d \in Conn
      BY <2>1 DEF Conn
    <2>3. conn' = [conn EXCEPT ![s] = d]
      BY DEF DispatchTypeOK, Conn
    <2>4. conn' \in [Slots -> Conn]
      BY <2>2, <2>3 DEF DispatchTypeOK
    <2>5. QED
      BY <2>4 DEF DispatchTypeOK, Job
  <1>2. Numbered'
    BY DEF DispatchTypeOK, Numbered, Job
  <1>3. Entries'
    BY DEF DispatchTypeOK, Conn, Free, Entries
  <1>4. Suspensions'
    BY SMTT(60) DEF DispatchTypeOK, Conn, Free, Suspensions
  <1>5. AwaitingRegistered'
    BY DEF DispatchTypeOK, Conn, Free, AwaitingRegistered
  <1>6. Awake'
    BY DEF DispatchTypeOK, Conn, Free, Awake
  <1>7. Progress'
    BY DEF DispatchTypeOK, Conn, Free, Numbered, Entries, Progress
  <1>8. RepliesMatch'
    BY DEF DispatchTypeOK, RepliesMatch
  <1>9. QED
    BY <1>1, <1>2, <1>3, <1>4, <1>5, <1>6, <1>7, <1>8 DEF DispatchInv

(* A drain ends. *)
LEMMA DrainEndStep ==
  ASSUME NoWrap, DispatchInv, NEW s \in Slots, NEW close \in BOOLEAN, DrainEnd(s, close)
  PROVE  DispatchInv'
  <1> USE NoSlotAssumption, DispatchBounds
      DEF NoWrap, DispatchInv, Ids, Dispatches, Idle, js, DrainEnd
  <1>1. DispatchTypeOK'
    <2> DEFINE c == conn[s]
               d == [c EXCEPT !.ready = 0]
               e == [d EXCEPT !.st = "closing", !.reading = FALSE]
    <2>1. c \in Conn
      BY DEF DispatchTypeOK
    <2>2. d \in Conn /\ e \in Conn
      <3>1. 0 \in 0..MaxReady
        OBVIOUS
      <3>2. d \in Conn
        BY <2>1, <3>1 DEF Conn
      <3>3. QED
        BY <3>2, ClosingConn
    <2>3. conn' = [conn EXCEPT ![s] = IF close THEN e ELSE d]
      BY DEF DispatchTypeOK, Conn
    <2>4. conn' \in [Slots -> Conn]
      BY <2>2, <2>3 DEF DispatchTypeOK
    <2>5. QED
      BY <2>4 DEF DispatchTypeOK, Job
  <1>2. Numbered'
    BY DEF DispatchTypeOK, Numbered, Job
  <1>3. Entries'
    BY DEF DispatchTypeOK, Conn, Free, Entries
  <1>4. Suspensions'
    BY SMTT(60) DEF DispatchTypeOK, Conn, Free, Suspensions, Awake
  <1>5. AwaitingRegistered'
    BY DEF DispatchTypeOK, Conn, Free, AwaitingRegistered
  <1>6. Awake'
    BY DEF DispatchTypeOK, Conn, Free, Awake
  <1>7. Progress'
    BY DEF DispatchTypeOK, Conn, Free, Numbered, Entries, Progress
  <1>8. RepliesMatch'
    BY DEF DispatchTypeOK, RepliesMatch
  <1>9. QED
    BY <1>1, <1>2, <1>3, <1>4, <1>5, <1>6, <1>7, <1>8 DEF DispatchInv

(* A synchronous handler answers. *)
LEMMA SyncStep ==
  ASSUME NoWrap, DispatchInv, NEW s \in Slots, DispatchSync(s)
  PROVE  DispatchInv'
  <1> USE NoSlotAssumption, DispatchBounds
      DEF NoWrap, DispatchInv, Ids, Dispatches, Idle, js, DispatchSync, Issue, nextId
  <1>1. DispatchTypeOK'
    <2> DEFINE c == conn[s]
               d == [c EXCEPT !.ready = @ - 1]
               j == [st |-> "done", id |-> next_id, timer |-> FALSE]
    <2>1. c \in Conn
      BY DEF DispatchTypeOK
    <2>2. d \in Conn
      BY <2>1 DEF Conn
    <2>3. j \in Job
      BY DEF DispatchTypeOK, Job
    <2>4. conn' = [conn EXCEPT ![s] = d] /\ jobs' = [jobs EXCEPT ![count + 1] = j]
      BY DEF DispatchTypeOK, Conn
    <2>5. conn' \in [Slots -> Conn] /\ jobs' \in [Dispatches -> Job]
      BY <2>2, <2>3, <2>4 DEF DispatchTypeOK
    <2>6. QED
      BY <2>5 DEF DispatchTypeOK
  <1>2. Numbered'
    BY DEF DispatchTypeOK, Numbered, Job
  <1>3. Entries'
    BY DEF DispatchTypeOK, Conn, Free, Entries
  <1>4. Suspensions'
    BY SMTT(60) DEF DispatchTypeOK, Conn, Free, Suspensions
  <1>5. AwaitingRegistered'
    BY DEF DispatchTypeOK, Conn, Free, AwaitingRegistered
  <1>6. Awake'
    BY DEF DispatchTypeOK, Conn, Free, Awake
  <1>7. Progress'
    BY DEF DispatchTypeOK, Conn, Free, Numbered, Entries, Progress
  <1>8. RepliesMatch'
    BY DEF DispatchTypeOK, RepliesMatch
  <1>9. QED
    BY <1>1, <1>2, <1>3, <1>4, <1>5, <1>6, <1>7, <1>8 DEF DispatchInv

(* A connection is suspended. *)
LEMMA AsyncStep ==
  ASSUME NoWrap, DispatchInv, NEW s \in Slots, NEW kind \in {"running", "starting"},
         DispatchAsync(s, kind)
  PROVE  DispatchInv'
  <1> DEFINE c == conn[s]
             d == [c EXCEPT !.ready = @ - 1, !.awaiting = TRUE, !.reading = FALSE,
                            !.dispatch_id = next_id, !.req = count + 1]
             j == [st |-> kind, id |-> next_id, timer |-> armTimeout(kind)]
  <1> USE NoSlotAssumption, DispatchBounds DEF NoWrap, DispatchInv, Ids, Dispatches
  <1>1. /\ draining = s /\ c.ready > 0 /\ count < MaxDispatch
        /\ count' = count + 1 /\ next_id' = nextId
        /\ pending' = [pending EXCEPT ![next_id] = s]
        /\ conn' = [conn EXCEPT ![s] = d]
        /\ jobs' = [jobs EXCEPT ![count + 1] = j]
        /\ draining' = NoSlot /\ sent' = sent /\ server_closing' = server_closing
    BY DEF DispatchAsync, Issue, DispatchTypeOK, Conn
  <1>2. c \in Conn /\ next_id = count + 1 /\ next_id \in Ids /\ count \in 0..MaxDispatch
    BY <1>1 DEF DispatchTypeOK, Numbered
  <1>3. d \in Conn
    <2>1. count + 1 \in Dispatches
      BY <1>1, <1>2
    <2>2. QED
      BY <1>1, <1>2, <2>1, SuspendedConn
  <1>4. j \in Job
    BY <1>2 DEF Job, armTimeout
  <1>5. nextId \in Ids /\ (count + 1 < IdSpace => nextId = count + 2)
    BY <1>2 DEF nextId
  <1>6. /\ j.st = kind /\ j.id = count + 1 /\ (j.timer => j.st = "running")
        /\ d.awaiting /\ ~d.reading /\ d.dispatch_id = count + 1 /\ d.req = count + 1
        /\ d.st = c.st
    BY <1>2 DEF Conn, armTimeout
  <1> HIDE DEF c, d, j
  <1>7. DispatchTypeOK'
    <2>1. conn' \in [Slots -> Conn] /\ jobs' \in [Dispatches -> Job]
      BY <1>1, <1>3, <1>4 DEF DispatchTypeOK
    <2>2. QED
      BY <1>1, <1>2, <1>5, <2>1 DEF DispatchTypeOK
  <1>8. Numbered'
    BY <1>1, <1>2, <1>5, <1>6 DEF DispatchTypeOK, Numbered
  <1>9. Entries'
    BY <1>1, <1>2, <1>6 DEF DispatchTypeOK, Entries, Awake, c
  <1>10. Suspensions'
    BY <1>1, <1>2, <1>6 DEF DispatchTypeOK, Suspensions, Awake, c
  <1>11. AwaitingRegistered'
    BY <1>1, <1>2, <1>6 DEF DispatchTypeOK, Suspensions, AwaitingRegistered
  <1>12. Awake'
    BY <1>1, <1>6 DEF DispatchTypeOK, Awake
  <1>13. Progress'
    BY <1>1, <1>2, <1>6 DEF DispatchTypeOK, Numbered, Entries, Progress, Awake, c
  <1>14. RepliesMatch'
    BY <1>1 DEF RepliesMatch
  <1>15. QED
    BY <1>7, <1>8, <1>9, <1>10, <1>11, <1>12, <1>13, <1>14 DEF DispatchInv

(* The step of a submit: the job ends or goes on; its entry, if it has one,  *)
(* goes; the connection found there, if it is open, is sent the last part.  *)
LEMMA SubmitStep ==
  ASSUME NoWrap, DispatchInv, Idle, NEW j \in Dispatches, NEW part, NEW jb \in Job,
         \/ part = "full" /\ jobs[j].st = "running"
         \/ part = "end" /\ jobs[j].st = "streaming",
         jb.id = jobs[j].id, jb.timer => jb.st = "running",
         jobs' = [jobs EXCEPT ![j] = jb],
         submitResponse(j, part),
         UNCHANGED <<next_id, count, server_closing>>
  PROVE  DispatchInv'
  <1> DEFINE t == pending[j]
  <1> USE NoSlotAssumption, DispatchBounds DEF NoWrap, DispatchInv, Ids, Dispatches
  <1>1. j <= count /\ jobs[j].id = j /\ j \in 1..IdSpace
    BY DEF DispatchTypeOK, Numbered, Job
  <1>2. jobs' \in [Dispatches -> Job]
    BY DEF DispatchTypeOK
  <1>3. CASE submitMiss(j)
    <2>1. t = NoSlot /\ UNCHANGED <<conn, pending, sent, draining>>
      BY <1>1, <1>3 DEF submitMiss, Found
    <2>2. DispatchTypeOK'
      BY <1>2, <2>1 DEF DispatchTypeOK
    <2>3. Numbered'
      BY <1>1, <2>1 DEF DispatchTypeOK, Numbered
    <2>4. Entries' /\ Suspensions' /\ AwaitingRegistered' /\ Awake' /\ RepliesMatch'
      BY <2>1 DEF Entries, Suspensions, AwaitingRegistered, Awake, RepliesMatch
    <2>5. Progress'
      BY <2>1 DEF DispatchTypeOK, Progress
    <2>6. QED
      BY <2>2, <2>3, <2>4, <2>5
  <1>4. CASE submitClosing(j)
    <2>1. /\ t \in Slots /\ conn[t].st # "open"
          /\ pending' = [pending EXCEPT ![j] = NoSlot]
          /\ UNCHANGED <<conn, sent, draining>>
      BY <1>1, <1>4 DEF submitClosing, Found, Live, Target, Forget, DispatchTypeOK
    <2>2. DispatchTypeOK'
      BY <1>2, <2>1 DEF DispatchTypeOK
    <2>3. Numbered'
      BY <1>1, <2>1 DEF DispatchTypeOK, Numbered
    <2>4. Entries' /\ Suspensions' /\ Awake' /\ RepliesMatch'
      BY <2>1 DEF DispatchTypeOK, Entries, Suspensions, Awake, RepliesMatch
    <2>5. AwaitingRegistered'
      BY <2>1, <1>1 DEF DispatchTypeOK, AwaitingRegistered, Suspensions
    <2>6. Progress'
      BY <2>1 DEF DispatchTypeOK, Progress
    <2>7. QED
      BY <2>2, <2>3, <2>4, <2>5, <2>6
  <1>5. CASE submitLive(j, part)
    <2>1. PICK how \in Outcomes :
            /\ conn' = [conn EXCEPT ![t] = Resumed(conn[t], how)]
            /\ draining' = IF how = "close" THEN NoSlot ELSE t
      BY <1>1, <1>5 DEF submitLive, Target
    <2>2. /\ t \in Slots /\ conn[t].st = "open" /\ conn[t].awaiting
          /\ conn[t].dispatch_id = j /\ conn[t].req = j
          /\ pending' = [pending EXCEPT ![j] = NoSlot]
      BY <1>1, <1>5 DEF submitLive, Found, Live, Target, Forget, DispatchTypeOK, Entries
    <2>3. sent' = [sent EXCEPT ![j] = AfterPart(sent[j], part)]
      BY <1>1, <1>5, <2>2 DEF submitLive, Deliver, Target, DispatchTypeOK
    <2>4. AfterPart(sent[j], part) = "complete"
      BY <1>1, <2>2 DEF AfterPart, Progress, DispatchTypeOK
    <2> DEFINE d == Resumed(conn[t], how)
    <2>5. d \in Conn /\ ~d.awaiting /\ (d.reading => d.st = "open") /\ d.st # "free"
      BY <2>2, ResumedConn DEF DispatchTypeOK
    <2> HIDE DEF d
    <2>6. conn' = [conn EXCEPT ![t] = d]
      BY <2>1 DEF d
    <2>7. DispatchTypeOK'
      BY <1>2, <2>1, <2>2, <2>3, <2>4, <2>5, <2>6 DEF DispatchTypeOK
    <2>8. Numbered'
      BY <1>1, <2>3 DEF DispatchTypeOK, Numbered
    <2>9. Entries'
      BY <2>2, <2>6 DEF DispatchTypeOK, Entries
    <2>10. Suspensions'
      BY <2>2, <2>5, <2>6 DEF DispatchTypeOK, Suspensions
    <2>11. AwaitingRegistered'
      BY <1>1, <2>2, <2>5, <2>6 DEF DispatchTypeOK, AwaitingRegistered, Suspensions
    <2>12. Awake'
      BY <2>1, <2>2, <2>5, <2>6 DEF DispatchTypeOK, Awake
    <2>13. Progress'
      BY <2>2, <2>3, <2>6 DEF DispatchTypeOK, Progress, Entries
    <2>14. RepliesMatch'
      BY <2>3, <2>4 DEF DispatchTypeOK, RepliesMatch
    <2>15. QED
      BY <2>7, <2>8, <2>9, <2>10, <2>11, <2>12, <2>13, <2>14
  <1>6. QED
    BY <1>3, <1>4, <1>5 DEF submitResponse

(* The three steps that submit: a response, a 408, the end of a stream. *)
LEMMA SettleStep ==
  ASSUME NoWrap, DispatchInv, NEW j \in Dispatches, Settle(j) \/ TimeoutFires(j) \/ SourceEnds(j)
  PROVE  DispatchInv'
  <1>1. jobs[j] \in Job /\ (jobs[j].timer => jobs[j].st = "running")
    BY DEF DispatchInv, DispatchTypeOK, Numbered
  <1>2. CASE Settle(j)
    <2> DEFINE jb == [jobs[j] EXCEPT !.st = "done", !.timer = FALSE]
    <2>1. jb \in Job /\ jb.id = jobs[j].id /\ ~jb.timer
      BY <1>1 DEF Job
    <2>2. jobs' = [jobs EXCEPT ![j] = jb]
      BY <1>1, <1>2 DEF Settle, DispatchInv, DispatchTypeOK, Job
    <2> HIDE DEF jb
    <2>3. QED
      BY <1>2, <2>1, <2>2, SubmitStep DEF Settle
  <1>3. CASE TimeoutFires(j)
    <2> DEFINE jb == [jobs[j] EXCEPT !.timer = FALSE]
    <2>1. jb \in Job /\ jb.id = jobs[j].id /\ ~jb.timer
      BY <1>1 DEF Job
    <2>2. jobs' = [jobs EXCEPT ![j] = jb]
      BY <1>1, <1>3 DEF TimeoutFires, DispatchInv, DispatchTypeOK, Job
    <2> HIDE DEF jb
    <2>3. QED
      BY <1>1, <1>3, <2>1, <2>2, SubmitStep DEF TimeoutFires
  <1>4. CASE SourceEnds(j)
    <2> DEFINE jb == [jobs[j] EXCEPT !.st = "done"]
    <2>1. jb \in Job /\ jb.id = jobs[j].id /\ (jb.timer => jobs[j].timer)
      BY <1>1 DEF Job
    <2>2. jobs' = [jobs EXCEPT ![j] = jb]
      BY <1>1, <1>4 DEF SourceEnds, DispatchInv, DispatchTypeOK, Job
    <2>3. ~jb.timer
      BY <1>1, <1>4, <2>1 DEF SourceEnds
    <2> HIDE DEF jb
    <2>4. QED
      BY <1>4, <2>1, <2>2, <2>3, SubmitStep DEF SourceEnds
  <1>5. QED
    BY <1>2, <1>3, <1>4

(* A write over the cap may close the connection it was made on, and       *)
(* changes nothing else of it.                                              *)
CloseUnder(t) ==
    /\ conn' \in [Slots -> Conn]
    /\ \A s \in Slots :
        /\ conn'[s].awaiting = conn[s].awaiting /\ conn'[s].dispatch_id = conn[s].dispatch_id
        /\ conn'[s].req = conn[s].req /\ conn'[s].reading = conn[s].reading
        /\ conn'[s].st = conn[s].st \/ (s = t /\ conn'[s].st = "closing")

(* A connection that a stream's write may have closed. *)
LEMMA CutConn ==
  ASSUME conn \in [Slots -> Conn], NEW t \in Slots, NEW over \in BOOLEAN,
         conn' = IF over THEN [conn EXCEPT ![t].st = "closing"] ELSE conn
  PROVE  CloseUnder(t)
  BY DEF CloseUnder, Conn

(* A stream starts: nothing, or its head, has been sent, and the job is     *)
(* driven from now on.                                                      *)
LEMMA DriveStep ==
  ASSUME NoWrap, DispatchInv, NEW j \in Dispatches, driveSafe(j)
  PROVE  DispatchInv'
  <1> DEFINE jb == [jobs[j] EXCEPT !.st = "streaming", !.timer = FALSE]
             t == pending[j]
  <1> USE NoSlotAssumption, DispatchBounds DEF NoWrap, DispatchInv, Ids, Dispatches
  <1>1. jb \in Job /\ jb.id = jobs[j].id /\ ~jb.timer /\ jb.st = "streaming"
    BY DEF DispatchTypeOK, Job
  <1>2. /\ jobs' = [jobs EXCEPT ![j] = jb]
        /\ jobs[j].st \in {"running", "starting"}
        /\ UNCHANGED <<pending, next_id, count, draining, server_closing>>
    BY DEF driveSafe, DispatchTypeOK, Job
  <1> HIDE DEF jb
  <1>3. j <= count /\ jobs[j].id = j /\ j \in 1..IdSpace
    BY <1>2 DEF DispatchTypeOK, Numbered
  <1>4. jobs' \in [Dispatches -> Job]
    BY <1>1, <1>2 DEF DispatchTypeOK
  <1>5. CASE ~Live(j)
    <2>1. UNCHANGED <<conn, sent>>
      BY <1>5 DEF driveSafe, streamWrite
    <2>2. t # NoSlot => conn[t].st # "open"
      BY <1>3, <1>5 DEF Live, Found, Target
    <2>3. DispatchTypeOK'
      BY <1>2, <1>4, <2>1 DEF DispatchTypeOK
    <2>4. Numbered'
      BY <1>1, <1>2, <1>3, <2>1 DEF DispatchTypeOK, Numbered
    <2>5. Entries' /\ Suspensions' /\ AwaitingRegistered' /\ Awake' /\ RepliesMatch'
      BY <1>2, <2>1 DEF Entries, Suspensions, AwaitingRegistered, Awake, RepliesMatch
    <2>6. Progress'
      BY <1>1, <1>2, <2>1, <2>2 DEF DispatchTypeOK, Progress
    <2>7. QED
      BY <2>3, <2>4, <2>5, <2>6
  <1>6. CASE Live(j)
    <2>1. /\ t \in Slots /\ conn[t].st = "open" /\ conn[t].awaiting
          /\ conn[t].dispatch_id = j /\ conn[t].req = j
      BY <1>3, <1>6 DEF Live, Found, Target, DispatchTypeOK, Entries
    <2>2. sent' = [sent EXCEPT ![j] = AfterPart(sent[j], "head")]
      BY <1>3, <1>6, <2>1 DEF driveSafe, streamWrite, Deliver, Target, DispatchTypeOK
    <2>3. AfterPart(sent[j], "head") = "streaming"
      BY <1>2, <2>1 DEF AfterPart, Progress, DispatchTypeOK
    <2>4. PICK over \in BOOLEAN :
            conn' = IF over THEN [conn EXCEPT ![t].st = "closing"] ELSE conn
      BY <1>3, <1>6 DEF driveSafe, streamWrite, Target
    <2>5. CloseUnder(t)
      BY <2>1, <2>4, CutConn DEF DispatchTypeOK
    <2>6. DispatchTypeOK'
      BY <1>2, <1>4, <2>2, <2>3, <2>5 DEF DispatchTypeOK, CloseUnder
    <2>7. Numbered'
      BY <1>1, <1>2, <1>3, <2>2 DEF DispatchTypeOK, Numbered
    <2>8. Entries' /\ Suspensions' /\ AwaitingRegistered' /\ Awake'
      <3>1. Entries'
        BY <1>2, <2>1, <2>5 DEF DispatchTypeOK, Entries, CloseUnder
      <3>2. Suspensions'
        BY <1>2, <2>1, <2>5 DEF Suspensions, CloseUnder
      <3>3. AwaitingRegistered'
        BY <1>2, <2>1, <2>5 DEF AwaitingRegistered, CloseUnder
      <3>4. Awake'
        <4>1. draining' = NoSlot
          BY <1>2 DEF driveSafe, Idle
        <4>2. QED
          BY <2>1, <2>5, <4>1 DEF Awake, CloseUnder
      <3>5. QED
        BY <3>1, <3>2, <3>3, <3>4
    <2>9. Progress'
      <3> SUFFICES ASSUME NEW k \in Dispatches, pending'[k] # NoSlot
                   PROVE  /\ jobs'[k].st \in {"running", "starting"} => sent'[k] = "none"
                          /\ jobs'[k].st = "streaming" /\ conn'[pending'[k]].st = "open"
                                => sent'[k] = "streaming"
        BY DEF Progress
      <3>1. CASE k = j
        BY <1>1, <1>2, <2>2, <2>3, <3>1 DEF DispatchTypeOK
      <3>2. CASE k # j
        <4>1. jobs'[k] = jobs[k] /\ sent'[k] = sent[k] /\ pending'[k] = pending[k]
          BY <1>2, <2>2, <3>2 DEF DispatchTypeOK
        <4>2. pending[k] \in Slots
          BY <1>2 DEF DispatchTypeOK
        <4>3. conn'[pending[k]].st = "open" => conn[pending[k]].st = "open"
          BY <2>5, <4>2 DEF CloseUnder
        <4>4. QED
          BY <4>1, <4>3 DEF Progress
      <3>3. QED
        BY <3>1, <3>2
    <2>10. RepliesMatch'
      BY <2>2, <2>3 DEF DispatchTypeOK, RepliesMatch
    <2>11. QED
      BY <2>6, <2>7, <2>8, <2>9, <2>10
  <1>7. QED
    BY <1>5, <1>6

(* The next chunk: sent, or the job ends because the connection is gone. *)
LEMMA ChunkStep ==
  ASSUME NoWrap, DispatchInv, NEW j \in Dispatches, Chunk(j)
  PROVE  DispatchInv'
  <1> DEFINE t == pending[j]
  <1> USE NoSlotAssumption, DispatchBounds DEF NoWrap, DispatchInv, Ids, Dispatches
  <1>1. jobs[j].st = "streaming" /\ UNCHANGED <<next_id, count, draining, server_closing>>
    BY DEF Chunk
  <1>2. j <= count /\ jobs[j].id = j /\ j \in 1..IdSpace
    BY <1>1 DEF DispatchTypeOK, Numbered
  <1>3. CASE ~Live(j)
    <2> DEFINE jb == [jobs[j] EXCEPT !.st = "done"]
    <2>1. jb \in Job /\ jb.id = j /\ ~jb.timer
      BY <1>1, <1>2 DEF DispatchTypeOK, Job, Numbered
    <2>2. /\ jobs' = [jobs EXCEPT ![j] = jb]
          /\ pending' = [pending EXCEPT ![j] = NoSlot]
          /\ UNCHANGED <<conn, sent>>
      BY <1>2, <1>3 DEF Chunk, Forget, DispatchTypeOK, Job
    <2> HIDE DEF jb
    <2>3. t # NoSlot => conn[t].st # "open"
      BY <1>2, <1>3 DEF Live, Found, Target
    <2>4. DispatchTypeOK'
      BY <1>1, <2>1, <2>2 DEF DispatchTypeOK
    <2>5. Numbered'
      BY <1>1, <1>2, <2>1, <2>2 DEF DispatchTypeOK, Numbered
    <2>6. Entries' /\ Suspensions' /\ Awake' /\ RepliesMatch'
      BY <1>1, <2>2 DEF DispatchTypeOK, Entries, Suspensions, Awake, RepliesMatch
    <2>7. AwaitingRegistered'
      BY <2>2, <2>3 DEF DispatchTypeOK, AwaitingRegistered, Suspensions
    <2>8. Progress'
      BY <2>2 DEF DispatchTypeOK, Progress
    <2>9. QED
      BY <2>4, <2>5, <2>6, <2>7, <2>8
  <1>4. CASE Live(j)
    <2>1. /\ t \in Slots /\ conn[t].st = "open" /\ conn[t].awaiting
          /\ conn[t].dispatch_id = j /\ conn[t].req = j
      BY <1>2, <1>4 DEF Live, Found, Target, DispatchTypeOK, Entries
    <2>2. /\ sent' = [sent EXCEPT ![j] = AfterPart(sent[j], "chunk")]
          /\ UNCHANGED <<pending, jobs>>
      BY <1>2, <1>4, <2>1 DEF Chunk, streamWrite, Deliver, Target, DispatchTypeOK
    <2>3. sent[j] = "streaming" /\ AfterPart(sent[j], "chunk") = "streaming"
      BY <1>1, <2>1 DEF AfterPart, Progress, DispatchTypeOK
    <2>4. sent' = sent
      BY <2>2, <2>3 DEF DispatchTypeOK
    <2>5. PICK over \in BOOLEAN :
            conn' = IF over THEN [conn EXCEPT ![t].st = "closing"] ELSE conn
      BY <1>2, <1>4 DEF Chunk, streamWrite, Target
    <2>6. CloseUnder(t)
      BY <2>1, <2>5, CutConn DEF DispatchTypeOK
    <2>7. DispatchTypeOK'
      BY <1>1, <2>2, <2>4, <2>6 DEF DispatchTypeOK, CloseUnder
    <2>8. Numbered' /\ RepliesMatch'
      BY <1>1, <2>2, <2>4 DEF Numbered, RepliesMatch
    <2>9. Entries' /\ Suspensions' /\ AwaitingRegistered' /\ Awake'
      <3>1. Entries'
        BY <1>1, <2>1, <2>2, <2>6 DEF DispatchTypeOK, Entries, CloseUnder
      <3>2. Suspensions'
        BY <1>1, <2>1, <2>2, <2>6 DEF Suspensions, CloseUnder
      <3>3. AwaitingRegistered'
        BY <1>1, <2>1, <2>2, <2>6 DEF AwaitingRegistered, CloseUnder
      <3>4. Awake'
        BY <1>1, <2>1, <2>2, <2>6 DEF DispatchTypeOK, Awake, CloseUnder
      <3>5. QED
        BY <3>1, <3>2, <3>3, <3>4
    <2>10. Progress'
      BY <1>1, <2>2, <2>4, <2>6 DEF DispatchTypeOK, Progress, Entries, CloseUnder
    <2>11. QED
      BY <2>7, <2>8, <2>9, <2>10
  <1>5. QED
    BY <1>3, <1>4

(* Closing some open connections, and changing nothing else of them, keeps  *)
(* the invariant.                                                           *)
OnlyCloses ==
    /\ conn' \in [Slots -> Conn]
    /\ \A s \in Slots :
        /\ conn'[s].awaiting <=> conn[s].awaiting
        /\ conn'[s].dispatch_id = conn[s].dispatch_id
        /\ conn'[s].req = conn[s].req
        /\ conn'[s].reading => conn[s].reading /\ conn'[s].st = conn[s].st
        /\ conn'[s].st = conn[s].st \/ conn'[s].st = "closing"

(* A step that only closes open connections keeps the invariant. *)
LEMMA OnlyClosesStep ==
  ASSUME NoWrap, DispatchInv, OnlyCloses, server_closing' \in BOOLEAN,
         UNCHANGED <<pending, js, sent, draining>>
  PROVE  DispatchInv'
  <1> USE DEF DispatchInv, OnlyCloses
  <1>1. UNCHANGED <<pending, next_id, count, jobs, sent, draining>>
    BY DEF js
  <1>2. \A k \in Dispatches : pending[k] \in Slots \cup {NoSlot}
    BY DispatchBounds DEF NoWrap, DispatchTypeOK, Ids, Dispatches
  <1>3. DispatchTypeOK'
    BY <1>1 DEF DispatchTypeOK
  <1>4. Numbered' /\ RepliesMatch'
    BY <1>1 DEF Numbered, RepliesMatch
  <1>5. Entries'
    BY <1>1 DEF Entries, DispatchTypeOK
  <1>6. Suspensions'
    BY <1>1 DEF Suspensions
  <1>7. AwaitingRegistered'
    BY <1>1 DEF AwaitingRegistered
  <1>8. Awake'
    BY <1>1 DEF Awake, DispatchTypeOK
  <1>9. Progress'
    BY <1>1, <1>2 DEF Progress
  <1>10. QED
    BY <1>3, <1>4, <1>5, <1>6, <1>7, <1>8, <1>9

(* onSweep and closeServer close a set of open connections. *)
LEMMA CloseStep ==
  ASSUME NoWrap, DispatchInv, NEW doomed \in SUBSET Slots,
         conn' = [s \in Slots |->
                    IF s \in doomed THEN [conn[s] EXCEPT !.st = "closing", !.reading = FALSE]
                                     ELSE conn[s]],
         server_closing' \in BOOLEAN,
         UNCHANGED <<pending, js, sent, draining>>
  PROVE  DispatchInv'
  <1>1. conn \in [Slots -> Conn]
    BY DEF DispatchInv, DispatchTypeOK
  <1>2. conn' \in [Slots -> Conn]
    BY <1>1, ClosingConn
  <1>3. OnlyCloses
    <2> SUFFICES ASSUME NEW s \in Slots
                 PROVE  /\ conn'[s].awaiting <=> conn[s].awaiting
                        /\ conn'[s].dispatch_id = conn[s].dispatch_id
                        /\ conn'[s].req = conn[s].req
                        /\ conn'[s].reading => conn[s].reading /\ conn'[s].st = conn[s].st
                        /\ conn'[s].st = conn[s].st \/ conn'[s].st = "closing"
      BY <1>2 DEF OnlyCloses
    <2>1. conn[s] \in Conn
      BY <1>1
    <2>2. CASE s \in doomed
      <3>1. conn'[s] = [conn[s] EXCEPT !.st = "closing", !.reading = FALSE]
        BY <2>2
      <3>2. QED
        BY <2>1, <3>1 DEF Conn
    <2>3. CASE s \notin doomed
      BY <2>3
    <2>4. QED
      BY <2>2, <2>3
  <1>4. QED
    BY <1>3, OnlyClosesStep

(* The close callback frees a slot and drops its entry. *)
LEMMA CloseCallbackStep ==
  ASSUME NoWrap, DispatchInv, NEW s \in Slots, onConnClose(s)
  PROVE  DispatchInv'
  <1> USE NoSlotAssumption, DispatchBounds DEF NoWrap, DispatchInv, Ids, Dispatches, Idle, js
  <1>1. /\ draining = NoSlot /\ conn[s].st = "closing"
        /\ conn' = [conn EXCEPT ![s] = Free]
        /\ UNCHANGED <<next_id, count, jobs, sent, draining, server_closing>>
    BY DEF onConnClose
  <1>2. ~Free.awaiting /\ ~Free.reading /\ Free.st = "free"
    BY DEF Free
  <1>3. \A i \in Ids : pending'[i] = IF pending[i] = s THEN NoSlot ELSE pending[i]
    <2>1. CASE conn[s].awaiting
      <3>1. pending' = [pending EXCEPT ![conn[s].dispatch_id] = NoSlot]
        BY <2>1 DEF onConnClose
      <3>2. \A i \in Ids : pending[i] = s => conn[s].dispatch_id = i
        BY DEF Entries
      <3>3. pending[conn[s].dispatch_id] \in {s, NoSlot}
        <4>1. conn[s].dispatch_id \in Ids
          BY <2>1 DEF Suspensions, DispatchTypeOK
        <4>2. CASE pending[conn[s].dispatch_id] # NoSlot
          <5> DEFINE t == pending[conn[s].dispatch_id]
          <5>1. t \in Slots /\ conn[t].awaiting /\ conn[t].dispatch_id = conn[s].dispatch_id
            BY <4>1, <4>2 DEF Entries, DispatchTypeOK
          <5>2. QED
            BY <2>1, <5>1 DEF Suspensions
        <4>3. QED
          BY <4>2
      <3>4. QED
        BY <3>1, <3>2, <3>3 DEF DispatchTypeOK
    <2>2. CASE ~conn[s].awaiting
      BY <2>2 DEF onConnClose, Entries
    <2>3. QED
      BY <2>1, <2>2
  <1>4. pending' \in [Ids -> Slots \cup {NoSlot}]
    BY DEF onConnClose, DispatchTypeOK
  <1>5. DispatchTypeOK'
    BY <1>1, <1>4, FreeConn DEF DispatchTypeOK
  <1>6. Numbered' /\ RepliesMatch'
    BY <1>1 DEF Numbered, RepliesMatch
  <1>7. Entries'
    BY <1>1, <1>3 DEF Entries, DispatchTypeOK
  <1>8. Suspensions'
    BY <1>1, <1>2 DEF Suspensions, DispatchTypeOK
  <1>9. AwaitingRegistered'
    BY <1>1, <1>2, <1>3 DEF AwaitingRegistered, Suspensions, DispatchTypeOK
  <1>10. Awake'
    BY <1>1, <1>2 DEF Awake, DispatchTypeOK
  <1>11. Progress'
    BY <1>1, <1>3 DEF Progress, DispatchTypeOK
  <1>12. QED
    BY <1>5, <1>6, <1>7, <1>8, <1>9, <1>10, <1>11

(* Every step preserves the invariant. *)
LEMMA NextIInv == ASSUME NoWrap, DispatchInv, [DispatchNext]_dispatchVars PROVE DispatchInv'
  <1>1. ASSUME NEW s \in Slots, Network(s) PROVE DispatchInv'
    BY <1>1, AcceptStep, ReadStep, ReadEndStep, AgeStep DEF Network
  <1>2. ASSUME NEW s \in Slots, Drain(s) PROVE DispatchInv'
    BY <1>2, SyncStep, AsyncStep, DrainEndStep DEF Drain
  <1>3. ASSUME NEW s \in Slots, onConnClose(s) PROVE DispatchInv'
    BY <1>3, CloseCallbackStep
  <1>4. ASSUME NEW j \in Dispatches, Script(j) PROVE DispatchInv'
    BY <1>4, SettleStep, DriveStep, ChunkStep DEF Script
  <1>5. CASE onSweep
    <2> DEFINE doomed == {s \in Slots : Stalled(conn[s])}
    <2>1. /\ server_closing' \in BOOLEAN /\ UNCHANGED <<pending, js, sent, draining>>
          /\ conn' = [s \in Slots |->
                        IF s \in doomed THEN [conn[s] EXCEPT !.st = "closing", !.reading = FALSE]
                                        ELSE conn[s]]
      BY <1>5 DEF onSweep, DispatchInv, DispatchTypeOK
    <2> HIDE DEF doomed
    <2>2. doomed \in SUBSET Slots
      BY DEF doomed
    <2>3. QED
      BY <2>1, <2>2, CloseStep
  <1>6. CASE closeServer
    <2> DEFINE doomed == {s \in Slots : conn[s].st = "open"}
    <2>1. /\ server_closing' \in BOOLEAN /\ UNCHANGED <<pending, js, sent, draining>>
          /\ conn' = [s \in Slots |->
                        IF s \in doomed THEN [conn[s] EXCEPT !.st = "closing", !.reading = FALSE]
                                        ELSE conn[s]]
      BY <1>6 DEF closeServer
    <2> HIDE DEF doomed
    <2>2. doomed \in SUBSET Slots
      BY DEF doomed
    <2>3. QED
      BY <2>1, <2>2, CloseStep
  <1>7. CASE UNCHANGED dispatchVars
    BY <1>7 DEF dispatchVars, js, DispatchInv, DispatchTypeOK, Numbered, Entries, Suspensions, AwaitingRegistered, Awake,
                Progress, RepliesMatch
  <1>8. QED
    BY <1>1, <1>2, <1>3, <1>4, <1>5, <1>6, <1>7 DEF DispatchNext

(* The inductive invariant. *)
THEOREM DispatchInvariant == ASSUME NoWrap PROVE DispatchSpec => []DispatchInv
  <1>1. DispatchInit => DispatchInv
    BY InitIInv
  <1>2. DispatchInv /\ [DispatchNext]_dispatchVars => DispatchInv'
    BY NextIInv
  <1>3. QED
    BY <1>1, <1>2, PTL DEF DispatchSpec

(* DispatchTypeOK: the state keeps its shape. *)
THEOREM DispatchTypeCorrect == ASSUME NoWrap PROVE DispatchSpec => []DispatchTypeOK
  <1>1. DispatchInv => DispatchTypeOK
    BY DEF DispatchInv
  <1>2. QED
    BY <1>1, DispatchInvariant, PTL

(* PendingLive: no entry of `pending' leads to a freed or a reused slot. *)
THEOREM PendingLiveTheorem == ASSUME NoWrap PROVE DispatchSpec => []PendingLive
  <1>1. DispatchInv => PendingLive
    BY DEF DispatchInv, DispatchTypeOK, Entries, Suspensions, PendingLive
  <1>2. QED
    BY <1>1, DispatchInvariant, PTL

(* AwaitingRegistered: what is suspended can be found under its id. *)
THEOREM AwaitingRegisteredTheorem == ASSUME NoWrap PROVE DispatchSpec => []AwaitingRegistered
  <1>1. DispatchInv => AwaitingRegistered
    BY DEF DispatchInv
  <1>2. QED
    BY <1>1, DispatchInvariant, PTL

(* RepliesMatch: each request gets one response, its own. *)
THEOREM RepliesMatchTheorem == ASSUME NoWrap PROVE DispatchSpec => []RepliesMatch
  <1>1. DispatchInv => RepliesMatch
    BY DEF DispatchInv
  <1>2. QED
    BY <1>1, DispatchInvariant, PTL
=============================================================================
