-------------------------- MODULE TcpSocketProofs --------------------------
(***************************************************************************)
(* Proofs about an accepted connection and its Socket.  As in TcpConnect a *)
(* callback is a chain of calls, each from a state to a state, so the      *)
(* invariant is a predicate of a state: each call keeps it, leaves the     *)
(* peer alone, and neither reopens a connection that is closing nor        *)
(* changes the reason it is closing for.                                   *)
(***************************************************************************)
EXTENDS TcpSocket, TLAPS

Conns == [mem : {"none", "live", "released"}, mode : Modes, half_open : BOOLEAN, closing : BOOLEAN,
          reading : BOOLEAN, paused : BOOLEAN, shutting : BOOLEAN, read_ended : BOOLEAN,
          tls : {"none", "handshake", "established"}, upgrading : BOOLEAN, sent_close : BOOLEAN,
          close_reason : Reasons, reqs : Seq(Nat \ {0})]
Sockets == [known : BOOLEAN, ended : BOOLEAN, readEnded : BOOLEAN, needDrain : BOOLEAN,
            upgrade : {"none", "pending", "resolved", "rejected"}, closes : 0..1]
Peers == [end : {"open", "fin", "reset"}, inbox : Seq(Records), sent : 0..MaxIn]
Kernels == [sock : 0..SendBuffer, done : Nat, shutdown : BOOLEAN, fin : BOOLEAN,
            written : Nat, wire : Nat, cut : BOOLEAN]
States == [conn : Conns, js : Sockets, peer : Peers, uv : Kernels]

(* The requests in q hold n units: `rest' gives the units from each request *)
(* to the last.                                                             *)
Holds(q, n) ==
  \E rest \in [1..(Len(q) + 1) -> Nat] :
    /\ rest[1] = n /\ rest[Len(q) + 1] = 0
    /\ \A i \in 1..Len(q) : rest[i] = q[i] + rest[i + 1]

(* What the application wrote is on the wire or in the queue, but for m     *)
(* units that a call is about to put there.                                 *)
Owes(t, m) ==
  ~t.conn.closing /\ t.peer.end # "reset"
    => \E n \in Nat : Holds(t.conn.reqs, n) /\ t.uv.wire + n + m >= t.uv.written + t.uv.done

(* A connection that closes as it should has nothing left to send. *)
Delivered(t) ==
  t.conn.closing /\ t.conn.close_reason = "normal" /\ ~t.uv.cut /\ t.peer.end # "reset"
    => t.uv.wire >= t.uv.written

Paused(t) == t.conn.paused => ~t.conn.reading

(* The Socket lives while its connection does. *)
Lives(t) ==
  /\ t.conn.mem = "none" => ~t.js.known /\ t.uv.written = 0
  /\ t.conn.mem = "released" => ~t.js.known /\ t.conn.closing
  /\ t.js.closes = 1 => t.conn.mem = "released" /\ t.js.upgrade # "pending"

Sound(t) == t \in States /\ Owes(t, 0) /\ Delivered(t) /\ Paused(t) /\ Lives(t)

Follows(t, u) ==
  /\ u.conn.mem = t.conn.mem /\ u.peer = t.peer
  /\ t.conn.closing => u.conn.closing
  /\ t.conn.closing \/ ~u.conn.closing => u.conn.close_reason = t.conn.close_reason

Keeps(t, u) == Sound(u) /\ Follows(t, u)

-----------------------------------------------------------------------------
(* The requests of the queue. *)

LEMMA HoldsNothing ==
  /\ Holds(<<>>, 0)
  /\ \A n : Holds(<<>>, n) => n = 0
<1>1. ASSUME NEW n, Holds(<<>>, n) PROVE n = 0
  BY <1>1 DEF Holds
<1>2. Holds(<<>>, 0)
  <2> DEFINE rest == [i \in 1..1 |-> 0]
  <2>1. rest \in [1..(Len(<<>>) + 1) -> Nat] /\ rest[1] = 0 /\ rest[Len(<<>>) + 1] = 0
    OBVIOUS
  <2> HIDE DEF rest
  <2> QED BY <2>1 DEF Holds
<1> QED BY <1>1, <1>2

LEMMA HoldsAppend ==
  ASSUME NEW q \in Seq(Nat \ {0}), NEW n \in Nat, Holds(q, n), NEW m \in Nat \ {0}
  PROVE  Holds(Append(q, m), n + m)
<1>1. PICK rest \in [1..(Len(q) + 1) -> Nat] :
        /\ rest[1] = n /\ rest[Len(q) + 1] = 0
        /\ \A i \in 1..Len(q) : rest[i] = q[i] + rest[i + 1]
  BY DEF Holds
<1> DEFINE p == Append(q, m)
           more == [i \in 1..(Len(p) + 1) |-> IF i = Len(p) + 1 THEN 0 ELSE rest[i] + m]
<1>2. /\ Len(q) \in Nat /\ Len(p) = Len(q) + 1 /\ p[Len(q) + 1] = m
      /\ \A i \in 1..Len(q) : p[i] = q[i] /\ q[i] \in Nat
  OBVIOUS
<1> HIDE DEF p
<1>3. more \in [1..(Len(p) + 1) -> Nat] BY <1>2
<1>4. more[1] = n + m /\ more[Len(p) + 1] = 0 BY <1>1, <1>2
<1>5. ASSUME NEW i \in 1..Len(p) PROVE more[i] = p[i] + more[i + 1]
  <2>1. CASE i = Len(p)
    <3>1. more[i] = rest[Len(q) + 1] + m /\ more[i + 1] = 0 BY <1>2, <2>1
    <3> QED BY <1>1, <1>2, <2>1, <3>1
  <2>2. CASE i # Len(p)
    <3>1. i \in 1..Len(q) /\ i + 1 \in 1..(Len(q) + 1) BY <1>2, <2>2
    <3>2. more[i] = rest[i] + m /\ more[i + 1] = rest[i + 1] + m BY <1>2, <3>1
    <3>3. rest[i] = q[i] + rest[i + 1] /\ rest[i] \in Nat /\ rest[i + 1] \in Nat BY <1>1, <1>2, <3>1
    <3> QED BY <1>2, <3>1, <3>2, <3>3, SMTT(60)
  <2> QED BY <2>1, <2>2
<1> HIDE DEF more
<1>6. Holds(p, n + m) BY <1>3, <1>4, <1>5 DEF Holds
<1> QED BY <1>6 DEF p

LEMMA HoldsTail ==
  ASSUME NEW q \in Seq(Nat \ {0}), q # <<>>, NEW n \in Nat, Holds(q, n)
  PROVE  \E m \in Nat : n = Head(q) + m /\ Holds(Tail(q), m)
<1>1. PICK rest \in [1..(Len(q) + 1) -> Nat] :
        /\ rest[1] = n /\ rest[Len(q) + 1] = 0
        /\ \A i \in 1..Len(q) : rest[i] = q[i] + rest[i + 1]
  BY DEF Holds
<1> DEFINE p == Tail(q)
           less == [i \in 1..(Len(p) + 1) |-> rest[i + 1]]
<1>2. /\ Len(q) \in Nat \ {0} /\ Len(p) = Len(q) - 1 /\ Head(q) = q[1]
      /\ \A i \in 1..Len(p) : p[i] = q[i + 1]
  OBVIOUS
<1> HIDE DEF p
<1>3. less \in [1..(Len(p) + 1) -> Nat] BY <1>2
<1>4. less[1] = rest[2] /\ less[Len(p) + 1] = 0 BY <1>1, <1>2
<1>5. ASSUME NEW i \in 1..Len(p) PROVE less[i] = p[i] + less[i + 1]
  <2>1. i + 1 \in 1..Len(q) /\ i \in 1..(Len(p) + 1) /\ i + 1 \in 1..(Len(p) + 1) BY <1>2
  <2>2. less[i] = rest[i + 1] /\ less[i + 1] = rest[(i + 1) + 1] BY <2>1
  <2> QED BY <1>1, <1>2, <2>1, <2>2
<1> HIDE DEF less
<1>6. Holds(p, rest[2]) BY <1>3, <1>4, <1>5 DEF Holds
<1>7. n = Head(q) + rest[2] /\ rest[2] \in Nat
  <2>1. 1 \in 1..Len(q) /\ 1 + 1 = 2 /\ 2 \in 1..(Len(q) + 1) BY <1>2
  <2>2. rest[1] = q[1] + rest[1 + 1] BY <1>1, <2>1
  <2> QED BY <1>1, <1>2, <2>1, <2>2
<1> QED BY <1>6, <1>7 DEF p

-----------------------------------------------------------------------------
(* Changes that the invariant hardly sees. *)

LEMMA SameFollows == \A t : Sound(t) => Keeps(t, t)
BY DEF Keeps, Follows

LEMMA Chained == \A t, u, v : Keeps(t, u) /\ Keeps(u, v) => Keeps(t, v)
BY DEF Keeps, Follows

LEMMA ConnFlags ==
  ASSUME NEW t, Sound(t), NEW c \in Conns,
         c.mem = t.conn.mem, c.closing = t.conn.closing, c.close_reason = t.conn.close_reason,
         c.reqs = t.conn.reqs, c.paused => ~c.reading
  PROVE  Keeps(t, [t EXCEPT !.conn = c])
<1> DEFINE u == [t EXCEPT !.conn = c]
<1>1. /\ u \in States /\ u.conn = c /\ u.js = t.js /\ u.peer = t.peer /\ u.uv = t.uv
  BY DEF Sound, States
<1> HIDE DEF u
<1>2. Owes(u, 0) /\ Delivered(u) BY <1>1 DEF Sound, Owes, Delivered
<1>3. Paused(u) /\ Lives(u) BY <1>1 DEF Sound, Paused, Lives
<1>4. Keeps(t, u) BY <1>1, <1>2, <1>3 DEF Keeps, Follows, Sound
<1> QED BY <1>4 DEF u

LEMMA JsFlags ==
  ASSUME NEW t, Sound(t), t.conn.mem = "live", NEW j \in Sockets, j.closes = t.js.closes
  PROVE  Keeps(t, [t EXCEPT !.js = j])
<1> DEFINE u == [t EXCEPT !.js = j]
<1>1. /\ u \in States /\ u.conn = t.conn /\ u.js = j /\ u.peer = t.peer /\ u.uv = t.uv
  BY DEF Sound, States
<1> HIDE DEF u
<1>2. Owes(u, 0) /\ Delivered(u) BY <1>1 DEF Sound, Owes, Delivered
<1>3. Paused(u) /\ Lives(u) BY <1>1 DEF Sound, Paused, Lives
<1>4. Keeps(t, u) BY <1>1, <1>2, <1>3 DEF Keeps, Follows, Sound
<1> QED BY <1>4 DEF u

LEMMA ShutSound ==
  ASSUME NEW t \in States, Paused(t), Lives(t),
         t.conn.close_reason = "normal" /\ ~t.uv.cut /\ t.peer.end # "reset" => t.uv.wire >= t.uv.written
  PROVE  /\ Sound(Shut(t)) /\ Shut(t).conn.closing
         /\ Shut(t).conn.close_reason = t.conn.close_reason
         /\ Shut(t).conn.mem = t.conn.mem /\ Shut(t).peer = t.peer
<1> DEFINE c == [t.conn EXCEPT !.closing = TRUE, !.reading = FALSE]
           u == [t EXCEPT !.conn = c]
<1>1. Shut(t) = u BY DEF Shut, States
<1>2. /\ c \in Conns /\ c.closing = TRUE /\ c.reading = FALSE /\ c.paused = t.conn.paused
      /\ c.close_reason = t.conn.close_reason /\ c.mem = t.conn.mem
  BY DEF States, Conns
<1>3. /\ u \in States /\ u.conn = c /\ u.js = t.js /\ u.peer = t.peer /\ u.uv = t.uv
  BY <1>2 DEF States
<1> HIDE DEF c, u
<1>4. Owes(u, 0) /\ Delivered(u) BY <1>2, <1>3 DEF Owes, Delivered
<1>5. Paused(u) /\ Lives(u) BY <1>2, <1>3 DEF Paused, Lives
<1> QED BY <1>1, <1>2, <1>3, <1>4, <1>5 DEF Sound

-----------------------------------------------------------------------------
(* Closing and writing. *)

(* queueTail puts the rest of a write behind the queue, or closes. *)
LEMMA QueueTail ==
  ASSUME NEW t \in States, ~t.conn.closing, Paused(t), Lives(t), NEW n \in Nat \ {0}, Owes(t, n)
  PROVE  LET u == queueTail(t, n)
         IN /\ Sound(u) /\ u.conn.mem = t.conn.mem /\ u.peer = t.peer
            /\ u.uv = t.uv
            /\ ~u.conn.closing => u.conn.close_reason = t.conn.close_reason
<1> DEFINE c == [t.conn EXCEPT !.reqs = Append(t.conn.reqs, n)]
           q == [t EXCEPT !.conn = c]
           b == [t EXCEPT !.conn = [t.conn EXCEPT !.close_reason = "write-queue-overflow"]]
           u == queueTail(t, n)
<1>1. u = Shut(b) \/ u = q BY DEF queueTail, Because
<1> HIDE DEF u
<1>2. CASE u = Shut(b)
  <2>1. /\ b \in States /\ b.js = t.js /\ b.peer = t.peer /\ b.uv = t.uv
        /\ b.conn = [t.conn EXCEPT !.close_reason = "write-queue-overflow"]
    BY DEF States, Conns, Reasons
  <2> HIDE DEF b
  <2>2. /\ b.conn.mem = t.conn.mem /\ b.conn.close_reason = "write-queue-overflow"
        /\ b.conn.paused = t.conn.paused /\ b.conn.reading = t.conn.reading
        /\ b.conn.closing = t.conn.closing
    BY <2>1 DEF States, Conns
  <2>3. Paused(b) /\ Lives(b) BY <2>1, <2>2 DEF Paused, Lives
  <2>4. /\ Sound(Shut(b)) /\ Shut(b).conn.closing /\ Shut(b).conn.mem = t.conn.mem /\ Shut(b).peer = t.peer
    BY <2>1, <2>2, <2>3, ShutSound
  <2>5. Shut(b).uv = t.uv BY <2>1 DEF Shut, States
  <2> QED BY <1>2, <2>4, <2>5 DEF u
<1>3. CASE u = q
  <2>1. t.conn \in Conns /\ t.conn.reqs \in Seq(Nat \ {0}) BY DEF States, Conns
  <2>2. Append(t.conn.reqs, n) \in Seq(Nat \ {0}) BY <2>1
  <2>3. /\ c \in Conns /\ c.reqs = Append(t.conn.reqs, n) /\ c.mem = t.conn.mem
        /\ c.closing = t.conn.closing /\ c.close_reason = t.conn.close_reason
        /\ c.paused = t.conn.paused /\ c.reading = t.conn.reading
    BY <2>1, <2>2 DEF Conns
  <2> HIDE DEF c
  <2>4. q \in States /\ q.conn = c /\ q.js = t.js /\ q.peer = t.peer /\ q.uv = t.uv
    BY <2>3 DEF States
  <2> HIDE DEF q
  <2>5. Owes(q, 0)
    <3>1. SUFFICES ASSUME t.peer.end # "reset"
                   PROVE  \E m \in Nat : Holds(q.conn.reqs, m) /\ q.uv.wire + m + 0 >= q.uv.written + q.uv.done
      BY <2>4 DEF Owes
    <3>2. PICK m \in Nat : Holds(t.conn.reqs, m) /\ t.uv.wire + m + n >= t.uv.written + t.uv.done
      BY <3>1 DEF Owes
    <3>3. Holds(q.conn.reqs, m + n) BY <2>1, <2>3, <2>4, <3>2, HoldsAppend
    <3>4. t.uv.wire \in Nat /\ t.uv.written \in Nat /\ t.uv.done \in Nat BY DEF States, Kernels
    <3>5. m + n \in Nat /\ t.uv.wire + (m + n) + 0 >= t.uv.written + t.uv.done BY <3>2, <3>4
    <3> QED BY <2>4, <3>3, <3>5
  <2>6. Delivered(q) /\ Paused(q) /\ Lives(q) BY <2>3, <2>4 DEF Delivered, Paused, Lives
  <2> QED BY <1>3, <2>3, <2>4, <2>5, <2>6 DEF Sound, u
<1> QED BY <1>1, <1>2, <1>3 DEF u

(* rawWriteAll puts n units on the wire or in the queue, unless the         *)
(* connection closes; `written' may count them already.                     *)
LEMMA RawWrite ==
  ASSUME NEW t \in States, Delivered(t), Paused(t), Lives(t), NEW n \in Nat, Owes(t, n)
  PROVE  LET u == rawWriteAll(t, n)
         IN Keeps(t, u) /\ u.uv.written = t.uv.written /\ u.uv.wire >= t.uv.wire /\ u.uv.cut = t.uv.cut
<1> DEFINE room == IF t.conn.reqs # <<>> \/ t.peer.end = "reset" THEN 0 ELSE SendBuffer - t.uv.sock
           k == IF n < room THEN n ELSE room
           v == [t EXCEPT !.uv = [[t.uv EXCEPT !.sock = t.uv.sock + k] EXCEPT !.wire = t.uv.wire + k]]
           u == rawWriteAll(t, n)
<1>1. t.uv \in Kernels /\ t.conn \in Conns BY DEF States
<1>2. /\ t.uv.wire \in Nat /\ t.uv.written \in Nat /\ t.uv.done \in Nat /\ t.uv.sock \in 0..SendBuffer
      /\ SendBuffer \in Nat
  BY <1>1, SizesAssumption DEF Kernels
<1>3. CASE t.conn.closing
  <2>1. u = t BY <1>3 DEF rawWriteAll
  <2>2. Owes(t, 0) BY <1>3 DEF Owes
  <2> QED BY <1>2, <2>1, <2>2 DEF Keeps, Follows, Sound
<1>4. CASE ~t.conn.closing
  <2>1. u = IF k = n THEN v ELSE queueTail(v, n - k)
    <3>1. [t EXCEPT !.uv.sock = @ + k, !.uv.wire = @ + k] = v BY DEF States
    <3> QED BY <1>4, <3>1 DEF rawWriteAll
  <2>2. k \in 0..n /\ t.uv.sock + k \in 0..SendBuffer
    <3>1. room \in 0..SendBuffer /\ t.uv.sock + room \in 0..SendBuffer BY <1>2
    <3> HIDE DEF room
    <3> QED BY <1>2, <3>1
  <2> HIDE DEF k
  <2>3. [[t.uv EXCEPT !.sock = t.uv.sock + k] EXCEPT !.wire = t.uv.wire + k] \in Kernels
    <3>1. t.uv.sock + k \in 0..SendBuffer /\ t.uv.wire + k \in Nat BY <1>2, <2>2
    <3>2. [t.uv EXCEPT !.sock = t.uv.sock + k] \in Kernels BY <1>1, <3>1 DEF Kernels
    <3> QED BY <3>1, <3>2 DEF Kernels
  <2>4. /\ v \in States /\ v.conn = t.conn /\ v.js = t.js /\ v.peer = t.peer
        /\ v.uv = [[t.uv EXCEPT !.sock = t.uv.sock + k] EXCEPT !.wire = t.uv.wire + k]
    BY <2>3 DEF States
  <2> HIDE DEF v
  <2>5. /\ v.uv.wire = t.uv.wire + k /\ v.uv.written = t.uv.written /\ v.uv.done = t.uv.done
        /\ v.uv.cut = t.uv.cut
    BY <1>1, <2>4 DEF Kernels
  <2>6. Paused(v) /\ Lives(v) /\ Delivered(v) BY <1>4, <2>4, <2>5 DEF Paused, Lives, Delivered
  <2>7. Owes(v, n - k)
    <3>1. SUFFICES ASSUME t.peer.end # "reset"
                   PROVE  \E m \in Nat : Holds(v.conn.reqs, m) /\ v.uv.wire + m + (n - k) >= v.uv.written + v.uv.done
      BY <2>4 DEF Owes
    <3>2. PICK m \in Nat : Holds(t.conn.reqs, m) /\ t.uv.wire + m + n >= t.uv.written + t.uv.done
      BY <1>4, <3>1 DEF Owes
    <3>3. v.uv.wire + m + (n - k) >= v.uv.written + v.uv.done BY <1>2, <2>2, <2>5, <3>2
    <3> QED BY <2>4, <3>2, <3>3
  <2> HIDE DEF u
  <2>8. CASE k = n
    <3>1. n - k = 0 BY <2>8
    <3>2. Sound(v) /\ u = v BY <2>1, <2>4, <2>6, <2>7, <2>8, <3>1 DEF Sound
    <3>3. u.uv.wire >= t.uv.wire BY <1>2, <2>2, <2>5, <3>2
    <3>4. Keeps(t, u) BY <1>4, <2>4, <3>2 DEF Keeps, Follows
    <3> QED BY <2>5, <3>2, <3>3, <3>4 DEF u
  <2>9. CASE k # n
    <3>1. n - k \in Nat \ {0} BY <2>2, <2>9
    <3> DEFINE w == queueTail(v, n - k)
    <3>2. /\ Sound(w) /\ w.conn.mem = v.conn.mem /\ w.peer = v.peer /\ w.uv = v.uv
          /\ ~w.conn.closing => w.conn.close_reason = v.conn.close_reason
      BY <1>4, <2>4, <2>6, <2>7, <3>1, QueueTail
    <3> HIDE DEF w
    <3>3. u = w BY <2>1, <2>9 DEF w
    <3>4. u.uv.wire >= t.uv.wire BY <1>2, <2>2, <2>5, <3>2, <3>3
    <3>5. Keeps(t, u) BY <1>4, <2>4, <3>2, <3>3 DEF Keeps, Follows
    <3> QED BY <2>5, <3>2, <3>3, <3>4, <3>5 DEF u
  <2> QED BY <2>8, <2>9
<1> QED BY <1>3, <1>4

LEMMA OwesMore == \A t \in States, n \in Nat : Owes(t, 0) => Owes(t, n)
<1> SUFFICES ASSUME NEW t \in States, NEW n \in Nat, Owes(t, 0), ~t.conn.closing, t.peer.end # "reset"
             PROVE  \E m \in Nat : Holds(t.conn.reqs, m) /\ t.uv.wire + m + n >= t.uv.written + t.uv.done
  BY DEF Owes
<1>1. PICK m \in Nat : Holds(t.conn.reqs, m) /\ t.uv.wire + m + 0 >= t.uv.written + t.uv.done
  BY DEF Owes
<1>2. t.uv.wire \in Nat /\ t.uv.written \in Nat /\ t.uv.done \in Nat BY DEF States, Kernels
<1>3. t.uv.wire + m + n >= t.uv.written + t.uv.done BY <1>1, <1>2
<1> QED BY <1>1, <1>3

(* close_notify keeps the bytes; so does a close, which must not forget any. *)
LEMMA CloseNotify ==
  ASSUME NEW t, Sound(t)
  PROVE  LET u == closeNotify(t)
         IN Keeps(t, u) /\ u.uv.written = t.uv.written /\ u.uv.wire >= t.uv.wire /\ u.uv.cut = t.uv.cut
<1> DEFINE c == [t.conn EXCEPT !.sent_close = TRUE]
           v == [t EXCEPT !.conn = c]
<1>1. /\ c \in Conns /\ c.mem = t.conn.mem /\ c.closing = t.conn.closing
      /\ c.close_reason = t.conn.close_reason /\ c.reqs = t.conn.reqs
      /\ c.paused = t.conn.paused /\ c.reading = t.conn.reading
  BY DEF Sound, States, Conns
<1> HIDE DEF c
<1>2. Keeps(t, v) BY <1>1, ConnFlags DEF Sound, Paused
<1>3. v.uv = t.uv BY DEF Sound, States
<1> HIDE DEF v
<1>4. Sound(v) /\ Owes(v, 1) BY <1>2, OwesMore DEF Keeps, Sound
<1> DEFINE u == rawWriteAll(v, 1)
<1>5. Keeps(v, u) /\ u.uv.written = v.uv.written /\ u.uv.wire >= v.uv.wire /\ u.uv.cut = v.uv.cut
  BY <1>4, RawWrite DEF Sound
<1>6. closeNotify(t) = u BY DEF closeNotify, v, c
<1> HIDE DEF u
<1> QED BY <1>2, <1>3, <1>5, <1>6, Chained

LEMMA CloseConn ==
  ASSUME NEW t, Sound(t), NEW reason \in Reasons,
         ~t.conn.closing /\ reason = "normal" /\ ~t.uv.cut /\ t.peer.end # "reset"
           => t.uv.wire >= t.uv.written
  PROVE  Keeps(t, closeConn(t, reason)) /\ closeConn(t, reason).conn.closing
<1>1. CASE t.conn.closing BY <1>1, SameFollows DEF closeConn
<1>2. CASE ~t.conn.closing
  <2> DEFINE c == [t.conn EXCEPT !.close_reason = reason]
             b == [t EXCEPT !.conn = c]
             v == IF SecureOpen(b) THEN closeNotify(b) ELSE b
  <2>1. /\ c \in Conns /\ c.mem = t.conn.mem /\ c.closing = t.conn.closing
        /\ c.close_reason = reason /\ c.reqs = t.conn.reqs
        /\ c.paused = t.conn.paused /\ c.reading = t.conn.reading
        /\ c.tls = t.conn.tls /\ c.sent_close = t.conn.sent_close
    BY DEF Sound, States, Conns
  <2> HIDE DEF c
  <2>2. b \in States /\ b.conn = c /\ b.js = t.js /\ b.peer = t.peer /\ b.uv = t.uv
    BY <2>1 DEF Sound, States
  <2>3. closeConn(t, reason) = Shut(v)
    <3>1. SecureOpen(t) <=> SecureOpen(b) BY <2>1, <2>2 DEF SecureOpen
    <3> QED BY <1>2, <3>1 DEF closeConn, Because, c
  <2> HIDE DEF b
  <2>4. Owes(b, 0) /\ Delivered(b) BY <1>2, <2>1, <2>2 DEF Sound, Owes, Delivered
  <2>5. Paused(b) /\ Lives(b) BY <2>1, <2>2 DEF Sound, Paused, Lives
  <2>6. Sound(b) BY <2>2, <2>4, <2>5 DEF Sound
  <2>7. Keeps(b, v) /\ v.uv.written = b.uv.written /\ v.uv.wire >= b.uv.wire /\ v.uv.cut = b.uv.cut
    <3>1. t.uv.wire \in Nat BY DEF Sound, States, Kernels
    <3>2. CASE SecureOpen(b) BY <2>6, <3>2, CloseNotify
    <3>3. CASE ~SecureOpen(b) BY <2>2, <2>6, <3>1, <3>3, SameFollows
    <3> QED BY <3>2, <3>3
  <2> HIDE DEF v
  <2>8. t.uv.wire \in Nat /\ t.uv.written \in Nat /\ v.uv.wire \in Nat
    BY <2>7 DEF Sound, Keeps, States, Kernels
  <2>9. v.conn.close_reason = "normal" /\ ~v.uv.cut /\ v.peer.end # "reset" => v.uv.wire >= v.uv.written
    <3>1. CASE v.conn.closing BY <2>7, <3>1 DEF Keeps, Sound, Delivered
    <3>2. CASE ~v.conn.closing
      <4>1. v.conn.close_reason = reason BY <2>1, <2>2, <2>7, <3>2 DEF Keeps, Follows
      <4> QED BY <1>2, <2>2, <2>7, <2>8, <4>1 DEF Keeps, Follows
    <3> QED BY <3>1, <3>2
  <2>10. v \in States /\ Paused(v) /\ Lives(v) BY <2>7 DEF Keeps, Sound
  <2>11. /\ Sound(Shut(v)) /\ Shut(v).conn.closing /\ Shut(v).conn.mem = v.conn.mem /\ Shut(v).peer = v.peer
    BY <2>9, <2>10, ShutSound
  <2>12. v.conn.mem = t.conn.mem /\ v.peer = t.peer BY <2>1, <2>2, <2>7 DEF Keeps, Follows
  <2> QED BY <1>2, <2>3, <2>11, <2>12 DEF Keeps, Follows
<1> QED BY <1>1, <1>2

LEMMA KernelFlags ==
  ASSUME NEW t, Sound(t), NEW k \in Kernels,
         k.wire = t.uv.wire, k.written = t.uv.written, k.done = t.uv.done, t.uv.cut => k.cut
  PROVE  Keeps(t, [t EXCEPT !.uv = k])
<1> DEFINE u == [t EXCEPT !.uv = k]
<1>1. u \in States /\ u.conn = t.conn /\ u.js = t.js /\ u.peer = t.peer /\ u.uv = k
  BY DEF Sound, States
<1> HIDE DEF u
<1>2. Owes(u, 0) /\ Delivered(u) BY <1>1 DEF Sound, Owes, Delivered
<1>3. Paused(u) /\ Lives(u) BY <1>1 DEF Sound, Paused, Lives
<1>4. Keeps(t, u) BY <1>1, <1>2, <1>3 DEF Keeps, Follows, Sound
<1> QED BY <1>4 DEF u

LEMMA ArmRead ==
  ASSUME NEW t, Sound(t)
  PROVE  Keeps(t, armRead(t))
<1> DEFINE c == [t.conn EXCEPT !.reading = TRUE]
<1>1. CASE t.conn.reading \/ t.conn.closing \/ t.conn.paused BY <1>1, SameFollows DEF armRead
<1>2. CASE ~(t.conn.reading \/ t.conn.closing \/ t.conn.paused)
  <2>1. /\ c \in Conns /\ c.mem = t.conn.mem /\ c.closing = t.conn.closing
        /\ c.close_reason = t.conn.close_reason /\ c.reqs = t.conn.reqs /\ c.paused = t.conn.paused
    BY DEF Sound, States, Conns
  <2>2. armRead(t) = [t EXCEPT !.conn = c] BY <1>2 DEF armRead
  <2> HIDE DEF c
  <2>3. Keeps(t, [t EXCEPT !.conn = c]) BY <1>2, <2>1, ConnFlags
  <2> QED BY <2>2, <2>3
<1> QED BY <1>1, <1>2

-----------------------------------------------------------------------------
(* The Socket's methods. *)

LEMMA WriteAll ==
  ASSUME NEW t, Sound(t), t.conn.mem = "live", ~t.conn.closing, NEW n \in Nat
  PROVE  Keeps(t, writeAll(t, n))
<1> DEFINE k == [t.uv EXCEPT !.written = t.uv.written + n]
           v == [t EXCEPT !.uv = k]
<1>1. CASE t.conn.tls = "handshake" BY <1>1, SameFollows DEF writeAll
<1>2. CASE t.conn.tls # "handshake"
  <2>1. t.uv.wire \in Nat /\ t.uv.written \in Nat /\ t.uv.done \in Nat BY DEF Sound, States, Kernels
  <2>2. /\ k \in Kernels /\ k.wire = t.uv.wire /\ k.written = t.uv.written + n
        /\ k.done = t.uv.done /\ k.cut = t.uv.cut
    BY <2>1 DEF Sound, States, Kernels
  <2>3. writeAll(t, n) = rawWriteAll(v, n) BY <1>2 DEF writeAll
  <2> HIDE DEF k
  <2>4. v \in States /\ v.conn = t.conn /\ v.js = t.js /\ v.peer = t.peer /\ v.uv = k
    BY <2>2 DEF Sound, States
  <2> HIDE DEF v
  <2>5. Delivered(v) /\ Paused(v) /\ Lives(v) BY <2>4 DEF Sound, Delivered, Paused, Lives
  <2>6. Owes(v, n)
    <3>1. SUFFICES ASSUME t.peer.end # "reset"
                   PROVE  \E m \in Nat : Holds(v.conn.reqs, m) /\ v.uv.wire + m + n >= v.uv.written + v.uv.done
      BY <2>4 DEF Owes
    <3>2. PICK m \in Nat : Holds(t.conn.reqs, m) /\ t.uv.wire + m + 0 >= t.uv.written + t.uv.done
      BY <3>1 DEF Sound, Owes
    <3>3. v.uv.wire + m + n >= v.uv.written + v.uv.done BY <2>1, <2>2, <2>4, <3>2
    <3> QED BY <2>4, <3>2, <3>3
  <2> DEFINE u == rawWriteAll(v, n)
  <2>7. Keeps(v, u) BY <2>4, <2>5, <2>6, RawWrite
  <2> HIDE DEF u
  <2>8. Keeps(t, u) BY <2>4, <2>7 DEF Keeps, Follows
  <2> QED BY <2>3, <2>8 DEF u
<1> QED BY <1>1, <1>2

LEMMA Ended ==
  ASSUME NEW t, Sound(t), t.conn.mem = "live"
  PROVE  Keeps(t, [t EXCEPT !.js.ended = TRUE])
<1> DEFINE j == [t.js EXCEPT !.ended = TRUE]
<1>1. j \in Sockets /\ j.closes = t.js.closes BY DEF Sound, States, Sockets
<1> HIDE DEF j
<1>2. Keeps(t, [t EXCEPT !.js = j]) BY <1>1, JsFlags
<1> QED BY <1>2 DEF j

LEMMA NeedDrain ==
  ASSUME NEW t, Sound(t), t.conn.mem = "live", NEW b \in BOOLEAN
  PROVE  Keeps(t, [t EXCEPT !.js.needDrain = b])
<1> DEFINE j == [t.js EXCEPT !.needDrain = b]
<1>1. j \in Sockets /\ j.closes = t.js.closes BY DEF Sound, States, Sockets
<1> HIDE DEF j
<1>2. Keeps(t, [t EXCEPT !.js = j]) BY <1>1, JsFlags
<1> QED BY <1>2 DEF j

LEMMA WriteCall ==
  ASSUME NEW t, Sound(t), t.conn.mem = "live", NEW n \in Nat
  PROVE  Keeps(t, write(t, n))
<1>1. CASE t.js.ended BY <1>1, SameFollows DEF write
<1>2. CASE ~t.js.ended /\ (t.conn.closing \/ t.conn.shutting) BY <1>2, Ended DEF write
<1>3. CASE ~t.js.ended /\ ~(t.conn.closing \/ t.conn.shutting)
  <2> DEFINE u == writeAll(t, n)
  <2>1. Keeps(t, u) BY <1>3, WriteAll
  <2>2. write(t, n) = IF queued_bytes(u) = 0 THEN u ELSE [u EXCEPT !.js.needDrain = TRUE]
    BY <1>3 DEF write
  <2> HIDE DEF u
  <2>3. Sound(u) /\ u.conn.mem = "live" BY <2>1 DEF Keeps, Follows
  <2>4. Keeps(u, [u EXCEPT !.js.needDrain = TRUE]) BY <2>3, NeedDrain
  <2>5. write(t, n) = u \/ write(t, n) = [u EXCEPT !.js.needDrain = TRUE] BY ONLY <2>2
  <2>6. Keeps(t, [u EXCEPT !.js.needDrain = TRUE]) BY <2>1, <2>4, Chained
  <2> QED BY ONLY <2>1, <2>5, <2>6
<1> QED BY <1>1, <1>2, <1>3

LEMMA TcpEnd ==
  ASSUME NEW t, Sound(t)
  PROVE  Keeps(t, tcpEnd(t))
<1>1. CASE t.conn.closing \/ t.conn.shutting BY <1>1, SameFollows DEF tcpEnd
<1>2. CASE ~(t.conn.closing \/ t.conn.shutting)
  <2> DEFINE u == IF SecureOpen(t) THEN closeNotify(t) ELSE t
             c == [u.conn EXCEPT !.shutting = TRUE]
             v == [u EXCEPT !.conn = c]
             k == [v.uv EXCEPT !.shutdown = TRUE]
             w == [v EXCEPT !.uv = k]
  <2>1. Keeps(t, u)
    <3>1. CASE SecureOpen(t) BY <3>1, CloseNotify
    <3>2. CASE ~SecureOpen(t) BY <3>2, SameFollows
    <3> QED BY <3>1, <3>2
  <2>2. tcpEnd(t) = IF u.conn.closing THEN u ELSE [u EXCEPT !.conn.shutting = TRUE, !.uv.shutdown = TRUE]
    BY <1>2 DEF tcpEnd
  <2> HIDE DEF u
  <2>3. u \in States /\ Sound(u) BY <2>1 DEF Keeps, Sound
  <2>4. [u EXCEPT !.conn.shutting = TRUE, !.uv.shutdown = TRUE] = w BY <2>3 DEF States
  <2>5. /\ c \in Conns /\ c.mem = u.conn.mem /\ c.closing = u.conn.closing
        /\ c.close_reason = u.conn.close_reason /\ c.reqs = u.conn.reqs
        /\ c.paused = u.conn.paused /\ c.reading = u.conn.reading
    BY <2>3 DEF States, Conns
  <2> HIDE DEF c
  <2>6. Keeps(u, v) BY <2>3, <2>5, ConnFlags DEF Sound, Paused
  <2> HIDE DEF v
  <2>7. v \in States /\ Sound(v) BY <2>6 DEF Keeps, Sound
  <2>8. /\ k \in Kernels /\ k.wire = v.uv.wire /\ k.written = v.uv.written /\ k.done = v.uv.done
        /\ k.cut = v.uv.cut
    BY <2>7 DEF States, Kernels
  <2> HIDE DEF k
  <2>9. Keeps(v, w) BY <2>7, <2>8, KernelFlags
  <2> HIDE DEF w
  <2>10. Keeps(t, w) BY <2>1, <2>6, <2>9, Chained
  <2>11. tcpEnd(t) = u \/ tcpEnd(t) = w BY ONLY <2>2, <2>4
  <2> QED BY ONLY <2>1, <2>10, <2>11
<1> QED BY <1>1, <1>2

LEMMA EndCall ==
  ASSUME NEW t, Sound(t), t.conn.mem = "live"
  PROVE  Keeps(t, end(t))
<1> DEFINE u == [t EXCEPT !.js.ended = TRUE]
<1>1. CASE t.js.ended BY <1>1, SameFollows DEF end
<1>2. CASE ~t.js.ended
  <2>1. end(t) = tcpEnd(u) BY <1>2 DEF end
  <2>2. Keeps(t, u) BY Ended
  <2> HIDE DEF u
  <2>3. Keeps(u, tcpEnd(u)) BY <2>2, TcpEnd DEF Keeps
  <2> QED BY <2>1, <2>2, <2>3, Chained
<1> QED BY <1>1, <1>2

(* destroy() gives up what is queued. *)
LEMMA DestroyCall ==
  ASSUME NEW t, Sound(t), t.conn.mem = "live"
  PROVE  Keeps(t, destroy(t))
<1> DEFINE u == [t EXCEPT !.js.ended = TRUE]
           k == [u.uv EXCEPT !.cut = TRUE]
           v == [u EXCEPT !.uv = k]
<1>1. CASE t.js.ended BY <1>1, SameFollows DEF destroy
<1>2. CASE ~t.js.ended
  <2>1. Keeps(t, u) /\ Sound(u) /\ u \in States BY Ended DEF Keeps, Sound
  <2>2. destroy(t) = closeConn(v, "normal") BY <1>2 DEF destroy, Sound, States
  <2> HIDE DEF u
  <2>3. /\ k \in Kernels /\ k.wire = u.uv.wire /\ k.written = u.uv.written /\ k.done = u.uv.done
        /\ k.cut = TRUE
    BY <2>1 DEF States, Kernels
  <2> HIDE DEF k
  <2>4. Keeps(u, v) /\ v.uv = k BY <2>1, <2>3, KernelFlags DEF States
  <2> HIDE DEF v
  <2>5. Sound(v) /\ v.uv.cut BY <2>3, <2>4 DEF Keeps
  <2>6. Keeps(v, closeConn(v, "normal")) BY <2>5, CloseConn DEF Reasons
  <2> QED BY <2>1, <2>2, <2>4, <2>6, Chained
<1> QED BY <1>1, <1>2

LEMMA PauseCall ==
  ASSUME NEW t, Sound(t)
  PROVE  Keeps(t, pause(t))
<1> DEFINE c == [t.conn EXCEPT !.paused = TRUE, !.reading = FALSE]
<1>1. /\ c \in Conns /\ c.mem = t.conn.mem /\ c.closing = t.conn.closing
      /\ c.close_reason = t.conn.close_reason /\ c.reqs = t.conn.reqs /\ c.reading = FALSE
  BY DEF Sound, States, Conns
<1>2. pause(t) = [t EXCEPT !.conn = c] BY DEF pause, Sound, States
<1> HIDE DEF c
<1>3. Keeps(t, [t EXCEPT !.conn = c]) BY <1>1, ConnFlags
<1> QED BY <1>2, <1>3

LEMMA ResumeCall ==
  ASSUME NEW t, Sound(t)
  PROVE  Keeps(t, resume(t))
<1> DEFINE c == [t.conn EXCEPT !.paused = FALSE]
           u == [t EXCEPT !.conn = c]
<1>1. /\ c \in Conns /\ c.mem = t.conn.mem /\ c.closing = t.conn.closing
      /\ c.close_reason = t.conn.close_reason /\ c.reqs = t.conn.reqs /\ c.paused = FALSE
  BY DEF Sound, States, Conns
<1>2. resume(t) = IF t.conn.read_ended THEN u ELSE armRead(u) BY DEF resume
<1> HIDE DEF c
<1>3. Keeps(t, u) BY <1>1, ConnFlags
<1> HIDE DEF u
<1>4. Keeps(u, armRead(u)) BY <1>3, ArmRead DEF Keeps
<1>5. Keeps(t, armRead(u)) BY <1>3, <1>4, Chained
<1>6. resume(t) = u \/ resume(t) = armRead(u) BY ONLY <1>2
<1> QED BY ONLY <1>3, <1>5, <1>6

LEMMA UpgradeCall ==
  ASSUME NEW t, Sound(t), t.conn.mem = "live"
  PROVE  Keeps(t, upgradeTLS(t))
<1> DEFINE c == [t.conn EXCEPT !.tls = "handshake", !.upgrading = TRUE]
           u == [t EXCEPT !.conn = c]
           j == [u.js EXCEPT !.upgrade = "pending"]
           v == [u EXCEPT !.js = j]
<1>1. upgradeTLS(t) = t \/ upgradeTLS(t) = armRead(v)
  <2>1. [t EXCEPT !.conn.tls = "handshake", !.conn.upgrading = TRUE, !.js.upgrade = "pending"] = v
    BY DEF Sound, States
  <2> QED BY <2>1 DEF upgradeTLS
<1>2. /\ c \in Conns /\ c.mem = t.conn.mem /\ c.closing = t.conn.closing
      /\ c.close_reason = t.conn.close_reason /\ c.reqs = t.conn.reqs
      /\ c.paused = t.conn.paused /\ c.reading = t.conn.reading
  BY DEF Sound, States, Conns
<1> HIDE DEF c
<1>3. Keeps(t, u) BY <1>2, ConnFlags DEF Sound, Paused
<1> HIDE DEF u
<1>4. Sound(u) /\ u.conn.mem = "live" BY <1>3 DEF Keeps, Follows
<1>5. j \in Sockets /\ j.closes = u.js.closes BY <1>4 DEF Sound, States, Sockets
<1> HIDE DEF j
<1>6. Keeps(u, v) BY <1>4, <1>5, JsFlags
<1> HIDE DEF v
<1>7. Keeps(v, armRead(v)) BY <1>6, ArmRead DEF Keeps
<1>8. Keeps(t, armRead(v)) BY <1>3, <1>6, <1>7, Chained
<1> QED BY <1>1, <1>8, SameFollows

LEMMA Called ==
  ASSUME NEW t, Sound(t), t.conn.mem = "live", NEW c \in Calls
  PROVE  Keeps(t, Call(t, c))
<1>1. c.name = "write" => c.n \in Nat BY SizesAssumption DEF Calls
<1>2. c.name \in {"write", "end", "destroy", "pause", "resume", "upgradeTLS"} BY DEF Calls
<1>3. CASE c.name = "write"
  <2>1. Call(t, c) = t \/ Call(t, c) = write(t, c.n) BY <1>3 DEF Call
  <2> QED BY <1>1, <1>3, <2>1, WriteCall, SameFollows
<1>4. CASE c.name = "end" BY <1>4, EndCall DEF Call
<1>5. CASE c.name = "destroy" BY <1>5, DestroyCall DEF Call
<1>6. CASE c.name = "pause" BY <1>6, PauseCall DEF Call
<1>7. CASE c.name = "resume" BY <1>7, ResumeCall DEF Call
<1>8. CASE c.name = "upgradeTLS" BY <1>8, UpgradeCall DEF Call
<1> QED BY <1>2, <1>3, <1>4, <1>5, <1>6, <1>7, <1>8

LEMMA Listens ==
  ASSUME NEW t, Sound(t), t.conn.mem = "live", NEW r \in Reactions, NEW event, event # "nothing"
  PROVE  Keeps(t, Listener(t, event, r))
<1>1. CASE r.to = event
  <2>1. r.call \in Calls BY <1>1 DEF Reactions
  <2> QED BY <1>1, <2>1, Called DEF Listener
<1>2. CASE r.to # event BY <1>2, SameFollows DEF Listener
<1> QED BY <1>1, <1>2

-----------------------------------------------------------------------------
(* The events. *)

LEMMA AutoEnd ==
  ASSUME NEW t, Sound(t), t.conn.mem = "live"
  PROVE  Keeps(t, maybeAutoEnd(t))
BY EndCall, SameFollows DEF maybeAutoEnd

LEMMA EmitDrain ==
  ASSUME NEW t, Sound(t), t.conn.mem = "live", NEW r \in Reactions
  PROVE  Keeps(t, emitDrain(t, r))
<1> DEFINE u == [t EXCEPT !.js.needDrain = FALSE]
           v == Listener(u, "drain", r)
<1>1. Keeps(t, u) BY NeedDrain
<1>2. emitDrain(t, r) = maybeAutoEnd(v) BY DEF emitDrain
<1> HIDE DEF u
<1>3. Keeps(u, v) BY <1>1, Listens DEF Keeps, Follows
<1> HIDE DEF v
<1>4. Keeps(t, v) BY <1>1, <1>3, Chained
<1>5. Keeps(v, maybeAutoEnd(v)) BY <1>4, AutoEnd DEF Keeps, Follows
<1> QED BY <1>2, <1>4, <1>5, Chained

LEMMA EmitEnd ==
  ASSUME NEW t, Sound(t), t.conn.mem = "live", NEW r \in Reactions
  PROVE  Keeps(t, emitEnd(t, r))
<1> DEFINE j == [t.js EXCEPT !.readEnded = TRUE]
           u == [t EXCEPT !.js = j]
           v == Listener(u, "end", r)
<1>1. j \in Sockets /\ j.closes = t.js.closes BY DEF Sound, States, Sockets
<1>2. emitEnd(t, r) = maybeAutoEnd(v) BY DEF emitEnd
<1> HIDE DEF j
<1>3. Keeps(t, u) BY <1>1, JsFlags
<1> HIDE DEF u
<1>4. Keeps(u, v) BY <1>3, Listens DEF Keeps, Follows
<1> HIDE DEF v
<1>5. Keeps(t, v) BY <1>3, <1>4, Chained
<1>6. Keeps(v, maybeAutoEnd(v)) BY <1>5, AutoEnd DEF Keeps, Follows
<1> QED BY <1>2, <1>5, <1>6, Chained

LEMMA EmitSecure ==
  ASSUME NEW t, Sound(t), t.conn.mem = "live", NEW r \in Reactions
  PROVE  Keeps(t, emitSecure(t, r))
<1> DEFINE u == Listener(t, "secure", r)
           j == [u.js EXCEPT !.upgrade = "resolved"]
<1>1. Keeps(t, u) BY Listens
<1>2. emitSecure(t, r) = [u EXCEPT !.js = j] BY DEF emitSecure
<1> HIDE DEF u
<1>3. Sound(u) /\ u.conn.mem = "live" BY <1>1 DEF Keeps, Follows
<1>4. j \in Sockets /\ j.closes = u.js.closes BY <1>3 DEF Sound, States, Sockets
<1> HIDE DEF j
<1>5. Keeps(u, [u EXCEPT !.js = j]) BY <1>3, <1>4, JsFlags
<1> QED BY <1>1, <1>2, <1>5, Chained

LEMMA Announce ==
  ASSUME NEW t, Sound(t), t.conn.mem = "live", NEW r \in Reactions
  PROVE  Keeps(t, announce(t, r))
<1> DEFINE j == [t.js EXCEPT !.known = TRUE]
           u == [t EXCEPT !.js = j]
<1>1. j \in Sockets /\ j.closes = t.js.closes BY DEF Sound, States, Sockets
<1>2. announce(t, r) = Listener(u, "connection", r) BY DEF announce
<1> HIDE DEF j
<1>3. Keeps(t, u) BY <1>1, JsFlags
<1> HIDE DEF u
<1>4. Keeps(u, Listener(u, "connection", r)) BY <1>3, Listens DEF Keeps, Follows
<1> QED BY <1>2, <1>3, <1>4, Chained

-----------------------------------------------------------------------------
(* Reads. *)

LEMMA HalfCloses ==
  ASSUME NEW t, Sound(t), t.conn.mem = "live", NEW r \in Reactions
  PROVE  Keeps(t, HalfClosed(t, r))
<1> DEFINE c == [t.conn EXCEPT !.read_ended = TRUE, !.reading = FALSE]
           u == [t EXCEPT !.conn = c]
<1>1. CASE t.conn.read_ended BY <1>1, SameFollows DEF HalfClosed
<1>2. CASE ~t.conn.read_ended
  <2>1. /\ c \in Conns /\ c.mem = t.conn.mem /\ c.closing = t.conn.closing
        /\ c.close_reason = t.conn.close_reason /\ c.reqs = t.conn.reqs /\ c.reading = FALSE
    BY DEF Sound, States, Conns
  <2>2. HalfClosed(t, r) = emitEnd(u, r) BY <1>2 DEF HalfClosed, Sound, States
  <2> HIDE DEF c
  <2>3. Keeps(t, u) BY <2>1, ConnFlags
  <2> HIDE DEF u
  <2>4. Keeps(u, emitEnd(u, r)) BY <2>3, EmitEnd DEF Keeps, Follows
  <2> QED BY <2>2, <2>3, <2>4, Chained
<1> QED BY <1>1, <1>2

(* A close for an error may forget what was written. *)
LEMMA ClosesBadly ==
  ASSUME NEW t, Sound(t), NEW reason \in Reasons, reason # "normal"
  PROVE  Keeps(t, closeConn(t, reason))
BY CloseConn

LEMMA Decrypts ==
  ASSUME NEW t, Sound(t), t.conn.mem = "live", NEW r \in Reactions, NEW records
  PROVE  Keeps(t, decryptBatch(t, records, r))
<1> DEFINE notifies == {i \in DOMAIN records : records[i] = "notify"}
           upTo == IF notifies = {} THEN records
                   ELSE SubSeq(records, 1, (CHOOSE i \in notifies : \A j \in notifies : i <= j) - 1)
           heard == IF upTo = <<>> THEN t ELSE emitData(t, r)
           bad == \E i \in DOMAIN upTo : upTo[i] # "data"
           u == decryptBatch(t, records, r)
<1>1. Keeps(t, heard)
  <2>1. Keeps(t, emitData(t, r)) BY Listens DEF emitData
  <2>2. heard = t \/ heard = emitData(t, r) OBVIOUS
  <2> QED BY <2>1, <2>2, SameFollows
<1>2. u = IF bad THEN closeConn(t, "tls-error")
          ELSE IF notifies = {} \/ heard.conn.closing THEN heard ELSE HalfClosed(heard, r)
  BY DEF decryptBatch
<1> HIDE DEF heard, bad, notifies, u
<1>3. u = closeConn(t, "tls-error") \/ u = heard \/ u = HalfClosed(heard, r) BY ONLY <1>2
<1>4. Keeps(t, closeConn(t, "tls-error")) BY ClosesBadly DEF Reasons
<1>5. Keeps(heard, HalfClosed(heard, r)) BY <1>1, HalfCloses DEF Keeps, Follows
<1>6. Keeps(t, HalfClosed(heard, r)) BY <1>1, <1>5, Chained
<1>7. Keeps(t, u) BY <1>1, <1>3, <1>4, <1>6
<1> QED BY <1>7 DEF u

LEMMA Establishes ==
  ASSUME NEW t, Sound(t), t.conn.mem = "live", NEW r \in Reactions
  PROVE  Keeps(t, established(t, r))
<1> DEFINE c == [t.conn EXCEPT !.tls = "established", !.upgrading = FALSE]
           u == [t EXCEPT !.conn = c]
<1>1. /\ c \in Conns /\ c.mem = t.conn.mem /\ c.closing = t.conn.closing
      /\ c.close_reason = t.conn.close_reason /\ c.reqs = t.conn.reqs
      /\ c.paused = t.conn.paused /\ c.reading = t.conn.reading
  BY DEF Sound, States, Conns
<1>2. established(t, r) = IF t.conn.upgrading THEN emitSecure(u, r) ELSE announce(u, r)
  BY DEF established, Sound, States
<1> HIDE DEF c
<1>3. Keeps(t, u) BY <1>1, ConnFlags DEF Sound, Paused
<1> HIDE DEF u
<1>4. Keeps(u, emitSecure(u, r)) /\ Keeps(u, announce(u, r))
  BY <1>3, EmitSecure, Announce DEF Keeps, Follows
<1>5. Keeps(t, emitSecure(u, r)) /\ Keeps(t, announce(u, r)) BY <1>3, <1>4, Chained
<1> QED BY <1>2, <1>5

LEMMA Drives ==
  ASSUME NEW t, Sound(t), t.conn.mem = "live", NEW r \in Reactions, NEW records
  PROVE  Keeps(t, tlsDrive(t, records, r))
<1> DEFINE u == established(t, r)
           v == tlsDrive(t, records, r)
<1>1. Keeps(t, u) BY Establishes
<1>2. \/ v = decryptBatch(t, records, r) \/ v = closeConn(t, "tls-error")
      \/ v = u \/ v = decryptBatch(u, Tail(records), r)
  BY DEF tlsDrive
<1> HIDE DEF u, v
<1>3. Keeps(t, decryptBatch(t, records, r)) BY Decrypts
<1>4. Keeps(t, closeConn(t, "tls-error")) BY ClosesBadly DEF Reasons
<1>5. Keeps(u, decryptBatch(u, Tail(records), r)) BY <1>1, Decrypts DEF Keeps, Follows
<1>6. Keeps(t, decryptBatch(u, Tail(records), r)) BY <1>1, <1>5, Chained
<1>7. Keeps(t, v) BY <1>1, <1>2, <1>3, <1>4, <1>6
<1> QED BY <1>7 DEF v

-----------------------------------------------------------------------------
(* The steps. *)

IInv == Sound(Now)
ReasonKept == conn.closing => conn'.close_reason = conn.close_reason

LEMMA NowIs == Now.conn = conn /\ Now.js = js /\ Now.peer = peer /\ Now.uv = uv
BY DEF Now

LEMMA Becomes ==
  ASSUME NEW t, Become(t), Sound(t), conn.closing => t.conn.close_reason = conn.close_reason
  PROVE  IInv' /\ ReasonKept
<1>1. Now' = t BY DEF Now, Become, Sound, States
<1>2. conn' = t.conn BY DEF Become
<1> QED BY <1>1, <1>2 DEF IInv, ReasonKept

(* From a sound state that closes for the same reason, to what a call makes of it. *)
LEMMA Leads ==
  ASSUME NEW t, NEW u, conn.closing => t.conn.closing /\ t.conn.close_reason = conn.close_reason,
         Keeps(t, u), Become(u)
  PROVE  IInv' /\ ReasonKept
BY Becomes DEF Keeps, Follows

LEMMA NowFacts ==
  ASSUME IInv
  PROVE  Now \in States /\ Sound(Now) /\ conn \in Conns /\ js \in Sockets /\ peer \in Peers /\ uv \in Kernels
BY NowIs DEF IInv, Sound, States

LEMMA ConnectionStep == IInv /\ onConnection => IInv' /\ ReasonKept
<1> SUFFICES ASSUME IInv, onConnection PROVE IInv' /\ ReasonKept
  OBVIOUS
<1> DEFINE c == [conn EXCEPT !.mem = "live"]
           t == [Now EXCEPT !.conn = c]
           d == [t.conn EXCEPT !.tls = "handshake"]
           h == [t EXCEPT !.conn = d]
<1>1. Now \in States /\ Sound(Now) /\ conn \in Conns /\ conn.mem = "none"
  BY NowFacts DEF onConnection
<1>2. \/ Become(closeConn(t, "normal")) \/ Become(armRead(h))
      \/ \E r \in Reactions : Become(armRead(announce(t, r)))
  BY NowIs DEF onConnection
<1>3. /\ c \in Conns /\ c.mem = "live" /\ c.closing = conn.closing
      /\ c.close_reason = conn.close_reason /\ c.reqs = conn.reqs
      /\ c.paused = conn.paused /\ c.reading = conn.reading
  BY <1>1 DEF Conns
<1> HIDE DEF c
<1>4. /\ t \in States /\ t.conn = c /\ t.js = js /\ t.peer = peer /\ t.uv = uv
  BY <1>1, <1>3, NowIs DEF States
<1> HIDE DEF t
<1>5. js.closes # 1 /\ uv.written = 0 BY <1>1, NowIs DEF Sound, Lives
<1>6. Owes(t, 0) /\ Delivered(t) BY <1>1, <1>3, <1>4, NowIs DEF Sound, Owes, Delivered
<1>7. Paused(t) /\ Lives(t) BY <1>1, <1>3, <1>4, <1>5, NowIs DEF Sound, Paused, Lives
<1>8. Sound(t) /\ t.conn.mem = "live" BY <1>3, <1>4, <1>6, <1>7 DEF Sound
<1>9. conn.closing => t.conn.closing /\ t.conn.close_reason = conn.close_reason BY <1>3, <1>4
<1>10. CASE Become(closeConn(t, "normal"))
  <2>1. t.uv.wire >= t.uv.written BY <1>4, <1>5 DEF States, Kernels
  <2>2. Keeps(t, closeConn(t, "normal")) BY <1>8, <2>1, CloseConn DEF Reasons
  <2> QED BY <1>9, <1>10, <2>2, Leads
<1>11. CASE Become(armRead(h))
  <2>1. /\ d \in Conns /\ d.mem = t.conn.mem /\ d.closing = t.conn.closing
        /\ d.close_reason = t.conn.close_reason /\ d.reqs = t.conn.reqs
        /\ d.paused = t.conn.paused /\ d.reading = t.conn.reading
    BY <1>4 DEF States, Conns
  <2> HIDE DEF d
  <2>2. Keeps(t, h) BY <1>8, <2>1, ConnFlags DEF Sound, Paused
  <2> HIDE DEF h
  <2>3. Keeps(h, armRead(h)) BY <2>2, ArmRead DEF Keeps
  <2>4. Keeps(t, armRead(h)) BY <2>2, <2>3, Chained
  <2> QED BY <1>9, <1>11, <2>4, Leads
<1>12. ASSUME NEW r \in Reactions, Become(armRead(announce(t, r))) PROVE IInv' /\ ReasonKept
  <2> DEFINE u == announce(t, r)
  <2>1. Keeps(t, u) BY <1>8, Announce
  <2> HIDE DEF u
  <2>2. Keeps(u, armRead(u)) BY <2>1, ArmRead DEF Keeps
  <2>3. Keeps(t, armRead(u)) BY <2>1, <2>2, Chained
  <2>4. Become(armRead(u)) BY <1>12 DEF u
  <2> QED BY <1>9, <2>3, <2>4, Leads
<1> QED BY <1>2, <1>10, <1>11, <1>12

LEMMA JsStep == IInv /\ JsCalls => IInv' /\ ReasonKept
<1> SUFFICES ASSUME IInv, JsCalls PROVE IInv' /\ ReasonKept
  OBVIOUS
<1>1. Sound(Now) /\ conn \in Conns /\ js.known BY NowFacts DEF JsCalls
<1>2. conn.mem = "live" BY <1>1, NowIs DEF Sound, Lives, Conns
<1>3. PICK c \in Calls : Become(Call(Now, c)) BY DEF JsCalls
<1>4. Keeps(Now, Call(Now, c)) BY <1>1, <1>2, NowIs, Called
<1> QED BY <1>3, <1>4, NowIs, Leads

LEMMA TakenSound ==
  ASSUME IInv, NEW k \in 1..Len(peer.inbox)
  PROVE  Sound(Taken(k)) /\ Taken(k).conn = conn
<1> DEFINE p == [peer EXCEPT !.inbox = SubSeq(peer.inbox, k + 1, Len(peer.inbox))]
           t == [Now EXCEPT !.peer = p]
<1>1. Now \in States /\ Sound(Now) /\ peer \in Peers BY NowFacts
<1>2. Taken(k) = t BY NowIs DEF Taken
<1>3. SubSeq(peer.inbox, k + 1, Len(peer.inbox)) \in Seq(Records) BY <1>1 DEF Peers
<1>4. p \in Peers /\ p.end = peer.end BY <1>1, <1>3 DEF Peers
<1> HIDE DEF p
<1>5. t \in States /\ t.conn = conn /\ t.js = js /\ t.peer = p /\ t.uv = uv
  BY <1>1, <1>4, NowIs DEF States
<1> HIDE DEF t
<1>6. Owes(t, 0) /\ Delivered(t) BY <1>1, <1>4, <1>5, NowIs DEF Sound, Owes, Delivered
<1>7. Paused(t) /\ Lives(t) BY <1>1, <1>5, NowIs DEF Sound, Paused, Lives
<1> QED BY <1>2, <1>5, <1>6, <1>7 DEF Sound

LEMMA ReadStep == IInv /\ Reads => IInv' /\ ReasonKept
<1> SUFFICES ASSUME IInv, Reads PROVE IInv' /\ ReasonKept
  OBVIOUS
<1>1. conn.mem = "live" BY DEF Reads, onReadPlain, onReadEof, onReadTls, Readable
<1>2. CASE onReadPlain
  <2>1. PICK k \in 1..Len(peer.inbox), r \in Reactions : Become(emitData(Taken(k), r)) BY <1>2 DEF onReadPlain
  <2>2. Keeps(Taken(k), emitData(Taken(k), r)) BY <1>1, TakenSound, Listens DEF emitData
  <2> QED BY <2>1, <2>2, TakenSound, Leads
<1>3. CASE onReadEof
  <2>1. \/ Become(closeConn(Now, "peer-reset")) \/ \E r \in Reactions : Become(HalfClosed(Now, r))
    BY <1>3 DEF onReadEof
  <2>2. Keeps(Now, closeConn(Now, "peer-reset")) BY ClosesBadly DEF IInv, Reasons
  <2>3. \A r \in Reactions : Keeps(Now, HalfClosed(Now, r)) BY <1>1, NowIs, HalfCloses DEF IInv
  <2> QED BY <2>1, <2>2, <2>3, NowIs, Leads
<1>4. CASE onReadTls
  <2>1. PICK k \in 1..Len(peer.inbox), r \in Reactions :
          Become(tlsDrive(Taken(k), SubSeq(peer.inbox, 1, k), r))
    BY <1>4 DEF onReadTls
  <2>2. Keeps(Taken(k), tlsDrive(Taken(k), SubSeq(peer.inbox, 1, k), r)) BY <1>1, TakenSound, Drives
  <2> QED BY <2>1, <2>2, TakenSound, Leads
<1> QED BY <1>2, <1>3, <1>4 DEF Reads

(* A request that is done, or failed with the connection, leaves the queue. *)
LEMMA Written ==
  ASSUME NEW t \in States, t.conn.mem = "live", Delivered(t), Paused(t), Lives(t),
         t.conn.reqs # <<>>, ~t.conn.closing, NEW r \in Reactions,
         \/ t.peer.end = "reset"
         \/ Owes(t, 0) /\ t.uv.done >= Head(t.conn.reqs)
  PROVE  Sound(onWrite(t, r))
<1> DEFINE c == [t.conn EXCEPT !.reqs = Tail(t.conn.reqs)]
           k == [t.uv EXCEPT !.done = 0]
           u == [[t EXCEPT !.conn = c] EXCEPT !.uv = k]
<1>1. t.conn \in Conns /\ t.uv \in Kernels /\ t.conn.reqs \in Seq(Nat \ {0}) BY DEF States, Conns
<1>2. Tail(t.conn.reqs) \in Seq(Nat \ {0}) BY <1>1
<1>3. /\ c \in Conns /\ c.mem = t.conn.mem /\ c.closing = t.conn.closing
      /\ c.close_reason = t.conn.close_reason /\ c.reqs = Tail(t.conn.reqs)
      /\ c.paused = t.conn.paused /\ c.reading = t.conn.reading
  BY <1>1, <1>2 DEF Conns
<1>4. /\ k \in Kernels /\ k.wire = t.uv.wire /\ k.written = t.uv.written /\ k.done = 0 /\ k.cut = t.uv.cut
  BY <1>1 DEF Kernels
<1>5. [t EXCEPT !.conn.reqs = Tail(@), !.uv.done = 0] = u BY DEF States
<1>6. onWrite(t, r) = u \/ onWrite(t, r) = emitDrain(u, r) BY <1>5 DEF onWrite
<1> HIDE DEF c, k
<1>7. u \in States /\ u.conn = c /\ u.js = t.js /\ u.peer = t.peer /\ u.uv = k
  <2>1. [t EXCEPT !.conn = c] \in States BY <1>3 DEF States
  <2> QED BY <1>4, <2>1 DEF States
<1> HIDE DEF u
<1>8. Owes(u, 0)
  <2>1. SUFFICES ASSUME t.peer.end # "reset"
                 PROVE  \E m \in Nat : Holds(u.conn.reqs, m) /\ u.uv.wire + m + 0 >= u.uv.written + u.uv.done
    BY <1>7 DEF Owes
  <2>2. PICK n \in Nat : Holds(t.conn.reqs, n) /\ t.uv.wire + n + 0 >= t.uv.written + t.uv.done
    BY <2>1 DEF Owes
  <2>3. PICK m \in Nat : n = Head(t.conn.reqs) + m /\ Holds(Tail(t.conn.reqs), m)
    BY <1>1, <2>2, HoldsTail
  <2>4. t.uv.wire \in Nat /\ t.uv.written \in Nat /\ t.uv.done \in Nat /\ Head(t.conn.reqs) \in Nat
    BY <1>1 DEF Kernels
  <2>5. t.uv.done >= Head(t.conn.reqs) BY <2>1
  <2>6. t.uv.wire + m + 0 >= t.uv.written + 0 BY ONLY <2>2, <2>3, <2>4, <2>5
  <2> QED BY <1>3, <1>4, <1>7, <2>3, <2>6
<1>9. Delivered(u) /\ Paused(u) /\ Lives(u) BY <1>3, <1>4, <1>7 DEF Delivered, Paused, Lives
<1>10. Sound(u) BY <1>7, <1>8, <1>9 DEF Sound
<1>11. Sound(emitDrain(u, r)) BY <1>3, <1>7, <1>10, EmitDrain DEF Keeps
<1> QED BY <1>6, <1>10, <1>11

LEMMA FlushStep == IInv /\ Flush => IInv' /\ ReasonKept
<1> SUFFICES ASSUME IInv, Flush PROVE IInv' /\ ReasonKept
  OBVIOUS
<1> DEFINE k1 == [uv EXCEPT !.sock = uv.sock + 1]
           k2 == [k1 EXCEPT !.wire = uv.wire + 1]
           k == [k2 EXCEPT !.done = uv.done + 1]
           t == [Now EXCEPT !.uv = k]
<1>1. Now \in States /\ Sound(Now) /\ conn \in Conns /\ uv \in Kernels BY NowFacts
<1>2. conn.mem = "live" /\ ~conn.closing /\ conn.reqs # <<>> /\ peer.end # "reset" /\ uv.sock < SendBuffer
  BY DEF Flush, Sending
<1>3. [Now EXCEPT !.uv.sock = @ + 1, !.uv.wire = @ + 1, !.uv.done = @ + 1] = t
  BY <1>1, NowIs DEF States, Kernels
<1>4. \/ t.uv.done < Head(conn.reqs) /\ Become(t)
      \/ ~(t.uv.done < Head(conn.reqs)) /\ \E r \in Reactions : Become(onWrite(t, r))
  BY <1>3 DEF Flush
<1>5. /\ uv.sock \in 0..SendBuffer /\ uv.wire \in Nat /\ uv.done \in Nat /\ uv.written \in Nat
      /\ SendBuffer \in Nat
  BY <1>1, SizesAssumption DEF Kernels
<1>6. k1 \in Kernels /\ k1.wire = uv.wire /\ k1.done = uv.done /\ k1.written = uv.written /\ k1.cut = uv.cut
  BY <1>1, <1>2, <1>5 DEF Kernels
<1> HIDE DEF k1
<1>7. k2 \in Kernels /\ k2.wire = uv.wire + 1 /\ k2.done = uv.done /\ k2.written = uv.written /\ k2.cut = uv.cut
  BY <1>5, <1>6 DEF Kernels
<1> HIDE DEF k2
<1>8. k \in Kernels /\ k.wire = uv.wire + 1 /\ k.done = uv.done + 1 /\ k.written = uv.written /\ k.cut = uv.cut
  BY <1>5, <1>7 DEF Kernels
<1> HIDE DEF k
<1>9. t \in States /\ t.conn = conn /\ t.js = js /\ t.peer = peer /\ t.uv = k
  BY <1>1, <1>8, NowIs DEF States
<1> HIDE DEF t
<1>10. Owes(t, 0)
  <2>1. PICK n \in Nat : Holds(conn.reqs, n) /\ uv.wire + n + 0 >= uv.written + uv.done
    BY <1>1, <1>2, NowIs DEF Sound, Owes
  <2>2. t.uv.wire + n + 0 >= t.uv.written + t.uv.done BY <1>5, <1>8, <1>9, <2>1
  <2> QED BY <1>9, <2>1, <2>2 DEF Owes
<1>11. Delivered(t) /\ Paused(t) /\ Lives(t)
  BY <1>1, <1>2, <1>8, <1>9, NowIs DEF Sound, Delivered, Paused, Lives
<1>12. CASE t.uv.done < Head(conn.reqs) /\ Become(t)
  <2>1. Sound(t) BY <1>9, <1>10, <1>11 DEF Sound
  <2> QED BY <1>9, <1>12, <2>1, Becomes
<1>13. CASE ~(t.uv.done < Head(conn.reqs)) /\ \E r \in Reactions : Become(onWrite(t, r))
  <2>1. PICK r \in Reactions : Become(onWrite(t, r)) BY <1>13
  <2>2. t.uv.done >= Head(t.conn.reqs)
    <3>1. Head(conn.reqs) \in Nat BY <1>1, <1>2 DEF Conns
    <3> QED BY <1>5, <1>8, <1>9, <1>13, <3>1
  <2>3. Sound(onWrite(t, r)) BY <1>2, <1>9, <1>10, <1>11, <2>2, Written
  <2> QED BY <1>2, <2>1, <2>3, Becomes
<1> QED BY <1>4, <1>12, <1>13

LEMMA WriteStep == IInv /\ Writes => IInv' /\ ReasonKept
<1> SUFFICES ASSUME IInv, Writes PROVE IInv' /\ ReasonKept
  OBVIOUS
<1>1. Now \in States /\ Sound(Now) /\ uv \in Kernels BY NowFacts
<1>2. CASE Flush BY <1>2, FlushStep
<1>3. CASE WriteFails
  <2>1. conn.mem = "live" /\ ~conn.closing /\ conn.reqs # <<>> /\ peer.end = "reset"
    BY <1>3 DEF WriteFails, Sending
  <2>2. PICK r \in Reactions : Become(onWrite(Now, r)) BY <1>3 DEF WriteFails
  <2>3. Sound(onWrite(Now, r)) BY <1>1, <2>1, NowIs, Written DEF Sound
  <2> QED BY <2>1, <2>2, <2>3, Becomes
<1>4. CASE onShutdown
  <2> DEFINE k == [uv EXCEPT !.shutdown = FALSE, !.fin = TRUE]
             t == [Now EXCEPT !.uv = k]
  <2>1. ~conn.closing /\ conn.reqs = <<>> BY <1>4 DEF onShutdown
  <2>2. Become(closeConn(t, "normal")) BY <1>1, <1>4, NowIs DEF onShutdown, States
  <2>3. /\ k \in Kernels /\ k.wire = uv.wire /\ k.written = uv.written /\ k.done = uv.done /\ k.cut = uv.cut
    BY <1>1 DEF Kernels
  <2> HIDE DEF k
  <2>4. Keeps(Now, t) /\ t.uv = k /\ t.conn = conn /\ t.peer = peer
    BY <1>1, <2>3, NowIs, KernelFlags DEF States
  <2> HIDE DEF t
  <2>5. Sound(t) BY <2>4 DEF Keeps
  (* Nothing is queued, so all is on the wire. *)
  <2>6. peer.end # "reset" => t.uv.wire >= t.uv.written
    <3>1. SUFFICES ASSUME peer.end # "reset" PROVE t.uv.wire >= t.uv.written OBVIOUS
    <3>2. PICK n \in Nat : Holds(<<>>, n) /\ uv.wire + n + 0 >= uv.written + uv.done
      BY <1>1, <2>1, <3>1, NowIs DEF Sound, Owes
    <3>3. n = 0 BY <3>2, HoldsNothing
    <3>4. uv.wire \in Nat /\ uv.written \in Nat /\ uv.done \in Nat BY <1>1 DEF Kernels
    <3> QED BY <2>3, <2>4, <3>2, <3>3, <3>4
  <2>7. Keeps(t, closeConn(t, "normal")) BY <2>4, <2>5, <2>6, CloseConn DEF Reasons
  <2> QED BY <2>1, <2>2, <2>7, Leads
<1> QED BY <1>2, <1>3, <1>4 DEF Writes

LEMMA CloseStep == IInv /\ onClose => IInv' /\ ReasonKept
<1> SUFFICES ASSUME IInv, onClose PROVE IInv' /\ ReasonKept
  OBVIOUS
<1> DEFINE k == IF uv.shutdown THEN [uv EXCEPT !.shutdown = FALSE] ELSE uv
           c1 == [conn EXCEPT !.mem = "released"]
           c == [c1 EXCEPT !.reqs = <<>>]
           j1 == [js EXCEPT !.closes = js.closes + 1]
           j2 == [j1 EXCEPT !.known = FALSE]
           j3 == [j2 EXCEPT !.upgrade = IF js.upgrade = "pending" THEN "rejected" ELSE js.upgrade]
           j == IF js.known THEN j3 ELSE js
<1>1. /\ Now \in States /\ Sound(Now) /\ conn \in Conns /\ js \in Sockets /\ uv \in Kernels /\ peer \in Peers
      /\ conn.mem = "live" /\ conn.closing
  BY NowFacts DEF onClose
<1>2. /\ k \in Kernels /\ k.wire = uv.wire /\ k.written = uv.written /\ k.cut = uv.cut
  BY <1>1 DEF Kernels
<1>3. c1 \in Conns /\ c1.mem = "released" /\ c1.closing = conn.closing /\ c1.close_reason = conn.close_reason
      /\ c1.paused = conn.paused /\ c1.reading = conn.reading
  BY <1>1 DEF Conns
<1>4. c \in Conns /\ c.mem = "released" /\ c.closing = conn.closing /\ c.close_reason = conn.close_reason
      /\ c.paused = conn.paused /\ c.reading = conn.reading
  <2> HIDE DEF c1
  <2>1. <<>> \in Seq(Nat \ {0}) OBVIOUS
  <2> QED BY <1>3, <2>1 DEF Conns
<1>5. js.closes = 0 BY <1>1, NowIs DEF Sound, Lives, Sockets
<1>6. /\ j \in Sockets /\ j.known = FALSE
      /\ j.closes = 1 => j.upgrade # "pending"
  <2>1. CASE ~js.known
    <3>1. j = js BY <2>1
    <3>2. js.known = FALSE BY <1>1, <2>1 DEF Sockets
    <3> QED BY <1>1, <1>5, <3>1, <3>2
  <2>2. CASE js.known
    <3>1. j1 \in Sockets /\ j1.upgrade = js.upgrade BY <1>1, <1>5 DEF Sockets
    <3> HIDE DEF j1
    <3>2. j2 \in Sockets /\ j2.known = FALSE /\ j2.upgrade = js.upgrade BY <3>1 DEF Sockets
    <3> HIDE DEF j2
    <3>3. j3 \in Sockets /\ j3.known = FALSE /\ j3.upgrade # "pending" BY <3>2 DEF Sockets
    <3> HIDE DEF j3
    <3>4. j = j3 BY <2>2
    <3> QED BY <3>3, <3>4
  <2> QED BY <2>1, <2>2
<1>7. conn' = c /\ js' = j /\ peer' = peer /\ uv' = k
  <2> DEFINE s == [Now EXCEPT !.uv.shutdown = FALSE]
             cancelled == IF uv.shutdown THEN closeConn(s, "normal") ELSE Now
             t == [cancelled EXCEPT !.conn.mem = "released", !.conn.reqs = <<>>]
  <2>1. Become(IF js.known THEN emitClose(t) ELSE t) BY DEF onClose
  <2>2. s.conn = conn /\ s.js = js /\ s.peer = peer /\ s.uv = [uv EXCEPT !.shutdown = FALSE] /\ s \in States
    BY <1>1, <1>2, NowIs DEF States, Kernels
  <2> HIDE DEF s
  <2>3. closeConn(s, "normal") = s BY <1>1, <2>2 DEF closeConn
  <2>4. /\ cancelled \in States /\ cancelled.conn = conn /\ cancelled.js = js
        /\ cancelled.peer = peer /\ cancelled.uv = k
    BY <1>1, <2>2, <2>3, NowIs
  <2> HIDE DEF cancelled, k
  <2>5. t.conn = c /\ t.js = js /\ t.peer = peer /\ t.uv = k
        /\ t \in [conn : {c}, js : {js}, peer : {peer}, uv : {k}]
    <3>1. t = [cancelled EXCEPT !.conn = [[cancelled.conn EXCEPT !.mem = "released"] EXCEPT !.reqs = <<>>]]
      BY <2>4 DEF States
    <3>2. t = [cancelled EXCEPT !.conn = c] BY <2>4, <3>1
    <3> HIDE DEF t, c
    <3> QED BY <2>4, <3>2 DEF States
  <2> HIDE DEF t, c
  <2>6. CASE ~js.known
    <3>1. j = js BY <2>6
    <3> QED BY <2>1, <2>5, <2>6, <3>1 DEF Become
  <2>7. CASE js.known
    <3>1. j = j3 BY <2>7
    <3>2. emitClose(t) = [t EXCEPT !.js = j3] BY <2>5, <1>1 DEF emitClose, Sockets
    <3> HIDE DEF j3, j
    <3>3. Become([t EXCEPT !.js = j3]) BY <2>1, <2>7, <3>2
    <3> QED BY <2>5, <3>1, <3>3 DEF Become
  <2> QED BY <2>6, <2>7
<1> DEFINE u == Now'
<1>8. u.conn = c /\ u.js = j /\ u.peer = peer /\ u.uv = k BY <1>7 DEF Now
<1> HIDE DEF c, j, k
<1>9. u \in States BY <1>1, <1>2, <1>4, <1>6, <1>7 DEF Now, States
<1> HIDE DEF u
<1>10. Owes(u, 0) BY <1>1, <1>4, <1>8 DEF Owes
<1>11. Delivered(u) BY <1>1, <1>2, <1>4, <1>8, NowIs DEF Sound, Delivered
<1>12. Paused(u) BY <1>1, <1>4, <1>8, NowIs DEF Sound, Paused
<1>13. Lives(u) BY <1>1, <1>4, <1>6, <1>8 DEF Lives
<1>14. Sound(u) BY <1>9, <1>10, <1>11, <1>12, <1>13 DEF Sound
<1> QED BY <1>4, <1>7, <1>14 DEF IInv, ReasonKept, u

(* The sweep and close() give up what is queued, too. *)
LEMMA CutStep ==
  ASSUME IInv, NEW reason \in Reasons, Cut(reason)
  PROVE  IInv' /\ ReasonKept
<1> DEFINE k == [uv EXCEPT !.cut = TRUE]
           t == [Now EXCEPT !.uv = k]
<1>1. Now \in States /\ Sound(Now) /\ uv \in Kernels /\ ~conn.closing BY NowFacts DEF Cut
<1>2. Become(closeConn(t, reason)) BY NowIs DEF Cut
<1>3. /\ k \in Kernels /\ k.wire = uv.wire /\ k.written = uv.written /\ k.done = uv.done /\ k.cut = TRUE
  BY <1>1 DEF Kernels
<1> HIDE DEF k
<1>4. Keeps(Now, t) /\ t.uv = k BY <1>1, <1>3, NowIs, KernelFlags DEF States
<1> HIDE DEF t
<1>5. Sound(t) /\ t.uv.cut BY <1>3, <1>4 DEF Keeps
<1>6. Keeps(t, closeConn(t, reason)) BY <1>5, CloseConn
<1> QED BY <1>1, <1>2, <1>6, Leads

LEMMA PeerStep == IInv /\ (PeerSends \/ PeerReads \/ PeerEnds) => IInv' /\ ReasonKept
<1> SUFFICES ASSUME IInv, PeerSends \/ PeerReads \/ PeerEnds PROVE IInv' /\ ReasonKept
  OBVIOUS
<1> DEFINE u == Now'
<1>1. /\ Now \in States /\ Sound(Now) /\ conn \in Conns /\ js \in Sockets /\ uv \in Kernels /\ peer \in Peers
  BY NowFacts
<1>2. conn' = conn /\ js' = js BY DEF PeerSends, PeerReads, PeerEnds
<1>3. peer' \in Peers
  <2>1. CASE PeerSends
    <3>1. PICK record \in IF conn.tls = "none" THEN {"data"} ELSE Records :
            peer' = [peer EXCEPT !.inbox = Append(peer.inbox, record), !.sent = peer.sent + 1]
      BY <1>1, <2>1 DEF PeerSends, Peers
    <3>2. record \in Records BY DEF Records
    <3>3. Append(peer.inbox, record) \in Seq(Records) BY <1>1, <3>2 DEF Peers
    <3>4. peer.sent + 1 \in 0..MaxIn
      <4>1. peer.sent \in 0..MaxIn /\ peer.sent < MaxIn /\ MaxIn \in Nat
        BY <1>1, <2>1, SizesAssumption DEF PeerSends, Peers
      <4> QED BY ONLY <4>1
    <3> DEFINE p == [peer EXCEPT !.inbox = Append(peer.inbox, record)]
    <3>5. p \in Peers BY <1>1, <3>3 DEF Peers
    <3>6. peer' = [p EXCEPT !.sent = peer.sent + 1] BY <3>1
    <3> HIDE DEF p
    <3> QED BY <3>4, <3>5, <3>6 DEF Peers
  <2>2. CASE PeerReads BY <1>1, <2>2 DEF PeerReads
  <2>3. CASE PeerEnds
    <3>1. \/ peer' = [peer EXCEPT !.end = "fin"]
          \/ peer' = [peer EXCEPT !.end = "reset", !.inbox = <<>>]
      BY <2>3 DEF PeerEnds
    <3>2. <<>> \in Seq(Records) OBVIOUS
    <3>3. CASE peer' = [peer EXCEPT !.end = "fin"] BY <1>1, <3>3 DEF Peers
    <3>4. CASE peer' = [peer EXCEPT !.end = "reset", !.inbox = <<>>] BY <1>1, <3>2, <3>4 DEF Peers
    <3> QED BY <3>1, <3>3, <3>4
  <2> QED BY <2>1, <2>2, <2>3
<1>4. peer'.end # "reset" => peer.end # "reset" BY <1>1 DEF PeerSends, PeerReads, PeerEnds, Peers
<1>5. /\ uv' \in Kernels /\ uv'.wire = uv.wire /\ uv'.written = uv.written
      /\ uv'.done = uv.done /\ uv'.cut = uv.cut
  <2>1. CASE PeerReads
    <3>1. uv.sock \in 0..SendBuffer /\ uv.sock > 0 /\ uv' = [uv EXCEPT !.sock = uv.sock - 1]
      BY <1>1, <2>1 DEF PeerReads, Kernels
    <3>2. uv.sock - 1 \in 0..SendBuffer BY <3>1, SizesAssumption
    <3> QED BY <1>1, <3>1, <3>2 DEF Kernels
  <2>2. CASE ~PeerReads BY <1>1, <2>2 DEF PeerSends, PeerEnds
  <2> QED BY <2>1, <2>2
<1>6. u.conn = conn /\ u.js = js /\ u.peer = peer' /\ u.uv = uv' BY <1>2 DEF Now
<1>7. u \in States BY <1>1, <1>2, <1>3, <1>5 DEF Now, States
<1> HIDE DEF u
<1>8. Owes(u, 0) /\ Delivered(u) BY <1>1, <1>4, <1>5, <1>6, NowIs DEF Sound, Owes, Delivered
<1>9. Paused(u) /\ Lives(u) BY <1>1, <1>5, <1>6, NowIs DEF Sound, Paused, Lives
<1>10. Sound(u) BY <1>7, <1>8, <1>9 DEF Sound
<1> QED BY <1>2, <1>10 DEF IInv, ReasonKept, u

LEMMA Step == IInv /\ [Next]_vars => IInv' /\ (ReasonKept \/ UNCHANGED vars)
<1> SUFFICES ASSUME IInv, [Next]_vars PROVE IInv' /\ (ReasonKept \/ UNCHANGED vars)
  OBVIOUS
<1>1. CASE sweepConns
  <2>1. (IF conn.tls = "handshake" THEN "handshake-timeout" ELSE "normal") \in Reasons BY DEF Reasons
  <2> QED BY <1>1, <2>1, CutStep DEF sweepConns
<1>2. CASE closeServer BY <1>2, CutStep DEF closeServer, Reasons
<1>3. CASE UNCHANGED vars
  <2>1. Now' = Now BY <1>3 DEF Now, vars
  <2> QED BY <1>3, <2>1 DEF IInv
<1> QED BY <1>1, <1>2, <1>3, ConnectionStep, JsStep, ReadStep, WriteStep, CloseStep, PeerStep DEF Next

LEMMA InitSound == Init => IInv
<1> SUFFICES ASSUME Init PROVE IInv
  OBVIOUS
<1>1. PICK mode \in Modes, half_open \in BOOLEAN :
        conn = [mem |-> "none", mode |-> mode, half_open |-> half_open, closing |-> FALSE, reading |-> FALSE,
                paused |-> FALSE, shutting |-> FALSE, read_ended |-> FALSE, tls |-> "none",
                upgrading |-> FALSE, sent_close |-> FALSE, close_reason |-> "normal", reqs |-> <<>>]
  BY DEF Init
<1>2. conn \in Conns /\ conn.mem = "none" /\ ~conn.closing /\ ~conn.paused /\ conn.reqs = <<>>
  BY <1>1 DEF Conns, Reasons
<1>3. js \in Sockets /\ ~js.known /\ js.closes = 0 BY DEF Init, NoSocket, Sockets
<1>4. peer \in Peers BY SizesAssumption DEF Init, Peers
<1>5. uv \in Kernels /\ uv.wire = 0 /\ uv.written = 0 /\ uv.done = 0 BY SizesAssumption DEF Init, Kernels
<1>6. Now \in States BY <1>2, <1>3, <1>4, <1>5 DEF Now, States
<1>7. Owes(Now, 0)
  <2>1. uv.wire + 0 + 0 >= uv.written + uv.done BY <1>5
  <2> QED BY <1>2, <2>1, HoldsNothing, NowIs DEF Owes
<1>8. Delivered(Now) /\ Paused(Now) /\ Lives(Now)
  BY <1>2, <1>3, <1>5, NowIs DEF Delivered, Paused, Lives
<1> QED BY <1>6, <1>7, <1>8 DEF IInv, Sound

LEMMA Invariance == Spec => []IInv
BY InitSound, Step, PTL DEF Spec

(* For any sizes of the kernel's buffer, the queue and the writes: an end,  *)
(* by the application or after the peer's FIN, loses nothing that was       *)
(* written (tcpEnd, onShutdown, closeConn), and a paused connection is not  *)
(* read (pause, armRead), whatever is called in whichever listener.         *)
THEOREM SocketSafeTheorem == Spec => []SocketSafe
<1>1. IInv => SocketSafe
  <2>1. SUFFICES ASSUME IInv PROVE SocketSafe OBVIOUS
  <2>2. Sound(Now) /\ conn \in Conns /\ js \in Sockets /\ peer \in Peers /\ uv \in Kernels
    BY <2>1, NowFacts
  <2>3. TypeOK BY <2>2 DEF TypeOK, Conns, Sockets, Peers, Kernels
  <2>4. EndDelivers BY <2>2, NowIs DEF Sound, Lives, Delivered, EndDelivers
  <2>5. PausedNotReading BY <2>2, NowIs DEF Sound, Paused, PausedNotReading
  <2> QED BY <2>3, <2>4, <2>5 DEF SocketSafe
<1> QED BY <1>1, Invariance, PTL

(* A socket that was announced hears of the end once, with no upgrade left  *)
(* pending (emitClose), and for the reason of the first close, whatever     *)
(* closes come after it (closeConn, queueTail, onClose).                    *)
THEOREM CloseIsToldTheorem == Spec => CloseIsTold
<1>1. IInv => CloseTold BY NowIs DEF IInv, Sound, Lives, CloseTold
<1>2. IInv /\ [Next]_vars => [conn.closing => conn'.close_reason = conn.close_reason]_vars
  BY Step DEF ReasonKept
<1> QED BY <1>1, <1>2, Invariance, PTL DEF Spec, CloseIsTold, FirstReasonKept
============================================================================
