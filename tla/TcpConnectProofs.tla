-------------------------- MODULE TcpConnectProofs --------------------------
(***************************************************************************)
(* Proofs about an outbound connect.  A callback is a chain of calls, each *)
(* from a state to a state, so the invariant is a predicate of a state,    *)
(* too: `Sound' is what every call may rely on, and `Good' adds what is    *)
(* restored when the callback returns: the connect waits for something,    *)
(* and a ClientConnect nobody can reach any more has been freed.           *)
(***************************************************************************)
EXTENDS TcpConnect, TLAPS

CCs == [mem : {"none", "live", "freed"}, gai_pending : BOOLEAN, connect_pending : BOOLEAN,
        timer_pending : BOOLEAN, resolved : BOOLEAN, addr_idx : 0..MaxAddrs, addr_count : 0..MaxAddrs]
Conns == [mem : {"none", "live", "released"}, connect : BOOLEAN, recycling : BOOLEAN, closing : BOOLEAN,
          tls : {"none", "handshake", "established"}, up : BOOLEAN, close_reason : Reasons]
Promises == [promise : {"none", "pending", "resolved"} \cup ConnectErrorReason, pending : BOOLEAN,
             socket : BOOLEAN, closes : 0..1]
Loops == [phase : {"poll", "closing", "timers"}, closing_handles : Seq(Callbacks), endgame : Seq(Callbacks),
          open : SUBSET {"tcp", "timer"}, owed : SUBSET {"gai", "connect"}, deadline : BOOLEAN,
          armed : BOOLEAN, expired : BOOLEAN, tried : 0..MaxAddrs,
          misuse : SUBSET {"use after free", "double free", "double close"}]
States == [cc : CCs, conn : Conns, js : Promises, uv : Loops]

(* The callbacks in a list of closed handles, and those the loop still owes. *)
In(q) == {q[i] : i \in 1..Len(q)}
Once(q) == \A i, j \in 1..Len(q) : q[i] = q[j] => i = j
Due(t) == In(t.uv.closing_handles) \cup In(t.uv.endgame)

(* Before connectTcp there is nothing. *)
Unused(t) ==
  t.conn.mem = "none" =>
    /\ t.cc.mem = "none" /\ t.cc.addr_idx = 0 /\ t.cc.addr_count = 0
    /\ ~t.conn.connect /\ ~t.conn.recycling /\ ~t.conn.closing /\ ~t.conn.up /\ t.conn.tls = "none"
    /\ t.js.promise = "none" /\ ~t.js.socket /\ t.js.closes = 0
    /\ t.uv.tried = 0

(* A connection whose TLS could not be set up has no ClientConnect. *)
NoConnect(t) ==
  t.cc.mem = "none" =>
    /\ ~t.cc.gai_pending /\ ~t.cc.connect_pending /\ ~t.cc.timer_pending /\ ~t.cc.resolved
    /\ ~t.conn.connect /\ ~t.conn.recycling /\ ~t.uv.deadline
    /\ t.conn.mem = "live" => t.conn.closing

(* Each handle is open or has its one callback due, and libuv owes what the *)
(* pending flags say.                                                       *)
Handles(t) ==
  /\ "tcp" \in t.uv.open <=> t.conn.mem = "live" /\ ~t.conn.closing /\ ~t.conn.recycling
  /\ "onClose" \in Due(t) <=> t.conn.mem = "live" /\ t.conn.closing /\ ~t.conn.recycling
  /\ "onRetryClose" \in Due(t) <=> t.conn.mem = "live" /\ t.conn.recycling
  /\ "timer" \in t.uv.open <=> t.cc.timer_pending /\ ~t.cc.resolved
  /\ "onCCClose" \in Due(t) <=> t.cc.timer_pending /\ t.cc.resolved
  /\ t.uv.armed => t.cc.timer_pending /\ ~t.cc.resolved
  /\ "gai" \in t.uv.owed <=> t.cc.gai_pending
  /\ "connect" \in t.uv.owed <=> t.cc.connect_pending
  /\ "double close" \notin t.uv.misuse

Queues(t) ==
  /\ Once(t.uv.closing_handles) /\ Once(t.uv.endgame)
  /\ In(t.uv.closing_handles) \cap In(t.uv.endgame) = {}
  /\ t.uv.phase # "closing" => t.uv.endgame = <<>>

(* Memory goes when nothing is pending, the deadline's timer when the       *)
(* connect is decided.                                                      *)
Memory(t) ==
  /\ t.cc.mem = "freed" => /\ ~t.cc.gai_pending /\ ~t.cc.connect_pending /\ ~t.cc.timer_pending
                           /\ t.cc.resolved
  /\ ~t.cc.resolved => t.cc.timer_pending = t.uv.deadline

(* A connect is at one stage at a time, and decided when it is settled or   *)
(* being closed.                                                            *)
Stage(t) ==
  /\ t.cc.gai_pending => ~t.cc.connect_pending /\ ~t.conn.recycling /\ ~t.conn.up
  /\ t.cc.connect_pending => t.conn.mem = "live" /\ ~t.conn.recycling /\ ~t.conn.up
  /\ t.conn.up => ~t.conn.recycling
  /\ t.conn.recycling => t.conn.connect /\ t.conn.mem = "live"
  /\ t.conn.mem # "none" /\ t.cc.mem # "none" => (t.cc.resolved <=> t.conn.closing \/ ~t.conn.connect)
  /\ t.conn.mem = "live" /\ ~t.conn.closing /\ ~t.conn.connect => t.conn.up
  /\ t.conn.mem = "released" => t.conn.closing /\ ~t.conn.recycling

(* The addresses tried, while the connect is not decided. *)
Tries(t) ==
  ~t.cc.resolved =>
    /\ t.cc.gai_pending => t.uv.tried = 0 /\ t.cc.addr_idx = 0 /\ t.cc.addr_count = 0
    /\ t.cc.connect_pending => t.cc.addr_idx < t.cc.addr_count /\ t.uv.tried = t.cc.addr_idx + 1
    /\ t.conn.recycling => t.cc.addr_idx < t.cc.addr_count /\ t.uv.tried = t.cc.addr_idx

(* What JavaScript knows. *)
Told(t) ==
  /\ t.js.pending = (t.js.promise = "pending")
  /\ t.conn.mem = "live" =>
       /\ t.js.closes = 0 /\ t.js.promise \in {"pending", "resolved"}
       /\ t.js.socket = (t.js.promise = "resolved")
       /\ t.conn.connect => t.js.pending
       /\ ~t.conn.closing /\ t.conn.up /\ t.conn.tls = "handshake" => t.conn.connect
       /\ t.conn.up /\ t.conn.tls # "handshake" => t.js.socket
       /\ t.conn.tls = "established" => t.conn.up /\ t.js.socket
  /\ t.conn.mem = "released" =>
       /\ ~t.js.socket
       /\ \/ t.js.promise = "resolved" /\ t.js.closes = 1
          \/ /\ t.js.promise = connectError(t.conn.close_reason) /\ t.js.closes = 0
             /\ t.conn.up => t.conn.tls = "handshake"

(* Why a connection is being closed. *)
Reason(t) ==
  t.conn.closing =>
    /\ t.conn.close_reason = "refused" => t.uv.tried = t.cc.addr_count
    /\ t.conn.close_reason = "dns" => t.uv.tried = 0
    /\ t.conn.close_reason = "timeout" => t.uv.expired
    /\ t.conn.close_reason \in {"normal", "peer_reset"} => t.conn.up
    /\ t.conn.close_reason = "tls_error" => t.conn.up \/ t.cc.mem = "none"

Sound(t) ==
  /\ t \in States /\ Unused(t) /\ NoConnect(t) /\ Handles(t) /\ Queues(t) /\ Memory(t)
  /\ Stage(t) /\ Tries(t) /\ Told(t) /\ Reason(t)

(* A connect that is not settled waits for one of its callbacks. *)
Waits(t) ==
  t.conn.mem = "live" /\ ~t.conn.closing /\ t.conn.connect
    => t.cc.gai_pending \/ t.cc.connect_pending \/ t.conn.recycling \/ t.conn.up

(* Nothing that can be reached no more is left behind. *)
Freed(t) ==
  t.uv.deadline /\ t.cc.resolved /\ ~t.cc.gai_pending /\ ~t.cc.connect_pending /\ ~t.cc.timer_pending
    => t.cc.mem = "freed"

Good(t) == Sound(t) /\ Waits(t) /\ Freed(t)

(* With connects that never fail at once, the handle of an address that     *)
(* failed is closed before a timer can fire, and so before the              *)
(* ClientConnect it goes back to can be freed.                              *)
Recycled(t) ==
  t.conn.recycling =>
    /\ ~t.cc.resolved
    /\ t.uv.phase # "timers"
    /\ t.uv.phase = "closing" => "onRetryClose" \notin In(t.uv.closing_handles)

Unharmed(t) == t.uv.misuse = {} /\ Recycled(t)

IInv == Good(Now) /\ (SyncFail \/ Unharmed(Now))

-----------------------------------------------------------------------------
(* The lists of closed handles. *)

(* uv_close puts a callback in front. *)
LEMMA PushIn ==
  ASSUME NEW q \in Seq(Callbacks), NEW cb \in Callbacks
  PROVE  /\ <<cb>> \o q \in Seq(Callbacks)
         /\ In(<<cb>> \o q) = In(q) \cup {cb}
         /\ Once(q) /\ cb \notin In(q) => Once(<<cb>> \o q)
<1> DEFINE p == <<cb>> \o q
<1>1. /\ p \in Seq(Callbacks) /\ Len(p) = Len(q) + 1 /\ Len(q) \in Nat
      /\ p[1] = cb
      /\ \A i \in 1..Len(q) : p[i + 1] = q[i]
  OBVIOUS
<1>2. In(p) = In(q) \cup {cb}
  <2>1. ASSUME NEW x \in In(q) \cup {cb} PROVE x \in In(p)
    <3>1. CASE x = cb BY <3>1, <1>1 DEF In
    <3>2. CASE x \in In(q)
      <4>1. PICK i \in 1..Len(q) : x = q[i] BY <3>2 DEF In
      <4>2. i + 1 \in 1..Len(p) /\ p[i + 1] = x BY <4>1, <1>1
      <4> QED BY <4>2 DEF In
    <3> QED BY <2>1, <3>1, <3>2
  <2>2. ASSUME NEW x \in In(p) PROVE x \in In(q) \cup {cb}
    <3>1. PICK i \in 1..Len(p) : x = p[i] BY <2>2 DEF In
    <3>2. CASE i = 1 BY <3>1, <3>2, <1>1
    <3>3. CASE i # 1
      <4>1. i - 1 \in 1..Len(q) /\ p[(i - 1) + 1] = q[i - 1] BY <3>3, <1>1
      <4> QED BY <3>1, <4>1, <1>1 DEF In
    <3> QED BY <3>2, <3>3
  <2> QED BY <2>1, <2>2
<1>3. ASSUME Once(q), cb \notin In(q) PROVE Once(p)
  <2>1. SUFFICES ASSUME NEW i \in 1..Len(p), NEW j \in 1..Len(p), p[i] = p[j], i # j PROVE FALSE
    BY DEF Once
  <2>2. ASSUME NEW k \in 1..Len(p), k # 1 PROVE k - 1 \in 1..Len(q) /\ p[k] = q[k - 1] /\ p[k] \in In(q)
    <3>1. k - 1 \in 1..Len(q) /\ p[(k - 1) + 1] = q[k - 1] BY <2>2, <1>1
    <3> QED BY <3>1, <1>1 DEF In
  <2>3. i # 1 /\ j # 1 BY <2>1, <2>2, <1>3, <1>1
  <2>4. q[i - 1] = q[j - 1] /\ i - 1 \in 1..Len(q) /\ j - 1 \in 1..Len(q) BY <2>1, <2>2, <2>3
  <2>5. i - 1 = j - 1 BY <2>4, <1>3 DEF Once
  <2> QED BY <2>5, <2>1, <1>1
<1> QED BY <1>1, <1>2, <1>3

(* The closing phase takes the first. *)
LEMMA PopIn ==
  ASSUME NEW q \in Seq(Callbacks), q # <<>>, Once(q)
  PROVE  /\ Tail(q) \in Seq(Callbacks)
         /\ Head(q) \in In(q)
         /\ In(Tail(q)) = In(q) \ {Head(q)}
         /\ Once(Tail(q))
<1> DEFINE p == Tail(q)
<1>1. /\ p \in Seq(Callbacks) /\ Len(p) = Len(q) - 1 /\ Len(q) \in Nat \ {0}
      /\ Head(q) = q[1]
      /\ \A i \in 1..Len(p) : p[i] = q[i + 1]
  OBVIOUS
<1>2. Head(q) \in In(q) BY <1>1 DEF In
<1>3. ASSUME NEW x \in In(p) PROVE x \in In(q) \ {Head(q)}
  <2>1. PICK i \in 1..Len(p) : x = p[i] BY <1>3 DEF In
  <2>2. i + 1 \in 1..Len(q) /\ i + 1 # 1 /\ 1 \in 1..Len(q) /\ x = q[i + 1] BY <2>1, <1>1
  <2>3. x # q[1] BY <2>2 DEF Once
  <2> QED BY <2>2, <2>3, <1>1 DEF In
<1>4. ASSUME NEW x \in In(q) \ {Head(q)} PROVE x \in In(p)
  <2>1. PICK i \in 1..Len(q) : x = q[i] BY <1>4 DEF In
  <2>2. i # 1 BY <2>1, <1>1, <1>4
  <2>3. i - 1 \in 1..Len(p) /\ p[i - 1] = q[(i - 1) + 1] /\ (i - 1) + 1 = i BY <2>2, <1>1
  <2>4. x = p[i - 1] BY <2>1, <2>3
  <2> QED BY <2>3, <2>4 DEF In
<1>5. Once(p)
  <2>1. SUFFICES ASSUME NEW i \in 1..Len(p), NEW j \in 1..Len(p), p[i] = p[j] PROVE i = j
    BY DEF Once
  <2>2. /\ i + 1 \in 1..Len(q) /\ j + 1 \in 1..Len(q)
        /\ q[i + 1] = q[j + 1]
    BY <2>1, <1>1
  <2>3. i + 1 = j + 1 BY <2>2 DEF Once
  <2> QED BY <2>3, <1>1
<1> QED BY <1>1, <1>2, <1>3, <1>4, <1>5

-----------------------------------------------------------------------------
(* The calls. *)

(* What closing a handle leaves alone. *)
Steady(u, t) ==
  /\ u.uv.phase = t.uv.phase /\ u.uv.endgame = t.uv.endgame /\ u.uv.owed = t.uv.owed
  /\ u.uv.deadline = t.uv.deadline /\ u.uv.expired = t.uv.expired /\ u.uv.tried = t.uv.tried
  /\ u.uv.misuse = t.uv.misuse

(* An open handle is closed: its callback joins what is due. *)
LEMMA CloseHandle ==
  ASSUME NEW t \in States, Queues(t),
         NEW h \in t.uv.open, NEW cb \in Callbacks, cb \notin Due(t)
  PROVE  LET u == uv_close(t, h, cb)
         IN /\ u \in States /\ Queues(u) /\ Steady(u, t)
            /\ u.cc = t.cc /\ u.conn = t.conn /\ u.js = t.js
            /\ u.uv.open = t.uv.open \ {h} /\ u.uv.armed = t.uv.armed
            /\ In(u.uv.closing_handles) = In(t.uv.closing_handles) \cup {cb}
<1> DEFINE q == t.uv.closing_handles
           u == uv_close(t, h, cb)
<1>1. q \in Seq(Callbacks) /\ t.uv \in Loops BY DEF States, Loops
<1>2. /\ <<cb>> \o q \in Seq(Callbacks)
      /\ In(<<cb>> \o q) = In(q) \cup {cb}
      /\ Once(<<cb>> \o q)
  BY <1>1, PushIn DEF Queues, Due
<1>3. u = [t EXCEPT !.uv = [t.uv EXCEPT !.open = t.uv.open \ {h}, !.closing_handles = <<cb>> \o q]]
  BY DEF uv_close
<1> HIDE DEF u
<1>4. /\ u \in States /\ u.cc = t.cc /\ u.conn = t.conn /\ u.js = t.js /\ Steady(u, t)
      /\ u.uv.open = t.uv.open \ {h} /\ u.uv.armed = t.uv.armed
      /\ u.uv.closing_handles = <<cb>> \o q
  BY <1>1, <1>2, <1>3 DEF States, Loops, Steady
<1>5. Queues(u) BY <1>2, <1>4 DEF Queues, Due, Steady
<1> QED BY <1>2, <1>4, <1>5 DEF u

(* The timer's side of what is owed. *)
TimerKept(t) ==
  /\ "timer" \in t.uv.open <=> t.cc.timer_pending /\ ~t.cc.resolved
  /\ "onCCClose" \in Due(t) <=> t.cc.timer_pending /\ t.cc.resolved
  /\ t.uv.armed => t.cc.timer_pending /\ ~t.cc.resolved

(* A connect is decided: the deadline's timer is stopped and closed. *)
LEMMA MarkResolved ==
  ASSUME NEW t \in States, Queues(t), TimerKept(t)
  PROVE  LET u == markResolved(t)
         IN /\ u \in States /\ Queues(u) /\ Steady(u, t) /\ TimerKept(u)
            /\ u.cc = [t.cc EXCEPT !.resolved = TRUE]
            /\ u.conn = t.conn /\ u.js = t.js
            /\ "tcp" \in u.uv.open <=> "tcp" \in t.uv.open
            /\ In(u.uv.closing_handles) \ {"onCCClose"} = In(t.uv.closing_handles) \ {"onCCClose"}
<1> DEFINE u == markResolved(t)
<1>1. CASE t.cc.resolved
  <2>1. u = t BY <1>1 DEF markResolved
  <2>2. t.cc = [t.cc EXCEPT !.resolved = TRUE] BY <1>1 DEF States, CCs
  <2> QED BY <2>1, <2>2 DEF Steady
<1>2. CASE ~t.cc.resolved /\ ~t.cc.timer_pending
  <2>1. u = [t EXCEPT !.cc = [t.cc EXCEPT !.resolved = TRUE]] BY <1>2 DEF markResolved
  <2> HIDE DEF u
  <2>2. u \in States /\ u.cc = [t.cc EXCEPT !.resolved = TRUE] /\ u.conn = t.conn /\ u.js = t.js /\ u.uv = t.uv
    BY <2>1 DEF States, CCs
  <2>3. Due(u) = Due(t) BY <2>2 DEF Due
  <2>4. TimerKept(u) BY <1>2, <2>2, <2>3 DEF TimerKept, States, CCs
  <2> QED BY <2>2, <2>4 DEF Queues, Steady, u
<1>3. CASE ~t.cc.resolved /\ t.cc.timer_pending
  <2> DEFINE d == [t EXCEPT !.cc = [t.cc EXCEPT !.resolved = TRUE], !.uv = [t.uv EXCEPT !.armed = FALSE]]
  <2>1. u = uv_close(d, "timer", "onCCClose") BY <1>3 DEF markResolved, States, CCs
  <2>2. /\ d \in States /\ d.cc = [t.cc EXCEPT !.resolved = TRUE] /\ d.conn = t.conn /\ d.js = t.js
        /\ d.uv = [t.uv EXCEPT !.armed = FALSE] /\ d.uv.armed = FALSE
        /\ d.uv.open = t.uv.open /\ d.uv.closing_handles = t.uv.closing_handles /\ Steady(d, t)
    BY DEF States, CCs, Loops, Steady
  <2> HIDE DEF d
  <2>3. Queues(d) /\ Due(d) = Due(t) BY <2>2 DEF Queues, Due, Steady
  <2>4. "timer" \in d.uv.open /\ "onCCClose" \notin Due(d) /\ "onCCClose" \in Callbacks
    BY <1>3, <2>2, <2>3 DEF TimerKept, Callbacks
  <2> HIDE DEF u
  <2>5. /\ u \in States /\ Queues(u) /\ Steady(u, d)
        /\ u.cc = d.cc /\ u.conn = d.conn /\ u.js = d.js
        /\ u.uv.open = d.uv.open \ {"timer"} /\ u.uv.armed = d.uv.armed
        /\ In(u.uv.closing_handles) = In(d.uv.closing_handles) \cup {"onCCClose"}
    <3>1. d \in States BY <2>2
    <3> QED BY ONLY <3>1, <2>1, <2>3, <2>4, CloseHandle
  <2>6. u.cc.resolved /\ u.cc.timer_pending BY <1>3, <2>2, <2>5 DEF States, CCs
  <2>7. TimerKept(u) BY <2>2, <2>5, <2>6 DEF TimerKept, Due
  <2>8. Steady(u, t) BY <2>2, <2>5 DEF Steady
  <2> QED BY <2>2, <2>5, <2>7, <2>8 DEF u
<1>4. t.cc.resolved \in BOOLEAN /\ t.cc.timer_pending \in BOOLEAN BY DEF States, CCs
<1> QED BY <1>1, <1>2, <1>3, <1>4

(* closeConn on a connection that is not being closed. *)
LEMMA CloseConn ==
  ASSUME NEW t \in States, Queues(t), TimerKept(t), NEW reason \in Reasons,
         ~t.conn.closing, "tcp" \in t.uv.open, "onClose" \notin Due(t),
         t.conn.connect => t.cc.mem # "freed"
  PROVE  LET u == closeConn(t, reason)
         IN /\ u \in States /\ Queues(u) /\ Steady(u, t) /\ TimerKept(u)
            /\ u.cc = [t.cc EXCEPT !.resolved = t.cc.resolved \/ t.conn.connect]
            /\ u.conn = [t.conn EXCEPT !.closing = TRUE, !.close_reason = reason] /\ u.js = t.js
            /\ "tcp" \notin u.uv.open
            /\ In(u.uv.closing_handles) \ {"onCCClose"}
                 = (In(t.uv.closing_handles) \ {"onCCClose"}) \cup {"onClose"}
<1> DEFINE s == [t EXCEPT !.conn = [t.conn EXCEPT !.close_reason = reason]]
           v == IF s.conn.connect THEN markResolved(touch(s)) ELSE s
           w == [v EXCEPT !.conn = [v.conn EXCEPT !.closing = TRUE]]
           u == closeConn(t, reason)
<1>1. u = uv_close(w, "tcp", "onClose") BY DEF closeConn
<1>2. /\ s \in States /\ s.cc = t.cc /\ s.conn = [t.conn EXCEPT !.close_reason = reason]
      /\ s.js = t.js /\ s.uv = t.uv /\ s.conn.connect = t.conn.connect
  BY DEF States, Conns
<1>3. Queues(s) /\ Due(s) = Due(t) /\ TimerKept(s) /\ Steady(s, t) BY <1>2 DEF Queues, Due, TimerKept, Steady
<1> HIDE DEF s, u
<1>4. /\ v \in States /\ Queues(v) /\ Steady(v, s) /\ TimerKept(v)
      /\ v.cc = [t.cc EXCEPT !.resolved = t.cc.resolved \/ t.conn.connect]
      /\ v.conn = s.conn /\ v.js = t.js
      /\ "tcp" \in v.uv.open
      /\ In(v.uv.closing_handles) \ {"onCCClose"} = In(t.uv.closing_handles) \ {"onCCClose"}
  <2>1. CASE t.conn.connect
    <3>1. touch(s) = s BY <1>2, <2>1 DEF touch
    <3>2. v = markResolved(s) BY <3>1, <1>2, <2>1
    <3> HIDE DEF v
    <3>3. t.cc.resolved \/ t.conn.connect = TRUE BY <2>1
    <3> QED BY <3>2, <3>3, <1>2, <1>3, <2>1, MarkResolved
  <2>2. CASE ~t.conn.connect
    <3>1. v = s BY <1>2, <2>2
    <3>2. t.cc = [t.cc EXCEPT !.resolved = t.cc.resolved \/ t.conn.connect] BY <2>2 DEF States, CCs
    <3> QED BY <3>1, <3>2, <1>2, <1>3 DEF Steady
  <2> QED BY <2>1, <2>2
<1> HIDE DEF v
<1>5. /\ w \in States /\ w.cc = v.cc /\ w.js = v.js /\ w.uv = v.uv
      /\ w.conn = [v.conn EXCEPT !.closing = TRUE]
  BY <1>4 DEF States, Conns
<1> HIDE DEF w
<1>6. w.conn = [t.conn EXCEPT !.closing = TRUE, !.close_reason = reason]
  <2>1. w.conn = [[t.conn EXCEPT !.close_reason = reason] EXCEPT !.closing = TRUE]
    BY <1>2, <1>4, <1>5
  <2> QED BY <2>1 DEF States, Conns
<1>7. Queues(w) /\ TimerKept(w) /\ Steady(w, t) BY <1>3, <1>4, <1>5 DEF Queues, TimerKept, Due, Steady
<1>8. "tcp" \in w.uv.open /\ "onClose" \notin Due(w) /\ "onClose" \in Callbacks
  BY <1>3, <1>4, <1>5, <1>7 DEF Due, Callbacks, Steady
<1>9. /\ u \in States /\ Queues(u) /\ Steady(u, w)
      /\ u.cc = w.cc /\ u.conn = w.conn /\ u.js = w.js
      /\ u.uv.open = w.uv.open \ {"tcp"} /\ u.uv.armed = w.uv.armed
      /\ In(u.uv.closing_handles) = In(w.uv.closing_handles) \cup {"onClose"}
  BY <1>1, <1>5, <1>7, <1>8, CloseHandle
<1>10. TimerKept(u) BY <1>7, <1>9 DEF TimerKept, Due, Steady
<1>11. Steady(u, t) BY <1>7, <1>9 DEF Steady
<1> QED BY <1>4, <1>5, <1>6, <1>9, <1>10, <1>11 DEF u

(* ccMaybeFree of a ClientConnect that is live and decided. *)
LEMMA MaybeFree ==
  ASSUME NEW t, Sound(t), t.cc.resolved, t.cc.mem = "live"
  PROVE  LET u == ccMaybeFree(t)
         IN /\ Sound(u) /\ Freed(u)
            /\ u.conn = t.conn /\ u.js = t.js /\ u.uv = t.uv
            /\ Waits(t) => Waits(u)
            /\ Unharmed(t) => Unharmed(u)
<1> DEFINE u == ccMaybeFree(t)
<1>0. t \in States BY DEF Sound
<1>1. CASE t.cc.gai_pending \/ t.cc.connect_pending \/ t.cc.timer_pending
  <2>1. u = t BY <1>1 DEF ccMaybeFree
  <2> QED BY <1>1, <2>1 DEF Freed
<1>2. CASE ~(t.cc.gai_pending \/ t.cc.connect_pending \/ t.cc.timer_pending)
  <2>1. u = [t EXCEPT !.cc = [t.cc EXCEPT !.mem = "freed"]] BY <1>2 DEF ccMaybeFree
  <2> HIDE DEF u
  <2>2. /\ u \in States /\ u.cc = [t.cc EXCEPT !.mem = "freed"] /\ t.cc \in CCs
        /\ u.conn = t.conn /\ u.js = t.js /\ u.uv = t.uv
    BY <1>0, <2>1 DEF States, CCs
  <2>3. /\ u.cc.mem = "freed" /\ u.cc.resolved
        /\ ~u.cc.gai_pending /\ ~u.cc.connect_pending /\ ~u.cc.timer_pending
        /\ u.cc.addr_count = t.cc.addr_count
    BY <1>2, <2>2 DEF CCs
  <2>4. Due(u) = Due(t) BY <2>2 DEF Due
  <2>5. Handles(u) BY <1>2, <2>2, <2>3, <2>4 DEF Sound, Handles
  <2>6. Unused(u) /\ NoConnect(u) /\ Memory(u) /\ Stage(u) /\ Tries(u) /\ Reason(u)
    BY <2>2, <2>3 DEF Sound, Unused, NoConnect, Memory, Stage, Tries, Reason
  <2>7. Queues(u) /\ Told(u) BY <2>2 DEF Sound, Queues, Told
  <2>8. Freed(u) BY <2>3 DEF Freed
  <2>9. Unharmed(t) => Unharmed(u) BY <2>2, <2>3 DEF Unharmed, Recycled
  <2>10. Waits(t) => Waits(u) BY <1>2, <2>2 DEF Waits
  <2> QED BY <2>2, <2>5, <2>6, <2>7, <2>8, <2>9, <2>10 DEF Sound, u
<1> QED BY <1>1, <1>2

(* A connect under way. *)
Undecided(t) == Sound(t) /\ t.conn.mem = "live" /\ ~t.conn.closing /\ t.conn.connect

LEMMA UndecidedIsLive ==
  ASSUME NEW t, Undecided(t)
  PROVE  /\ t \in States /\ t.cc.mem = "live" /\ ~t.cc.resolved /\ t.cc.timer_pending = t.uv.deadline
         /\ t.js.pending /\ t.js.promise = "pending" /\ ~t.js.socket /\ t.js.closes = 0
<1>1. t \in States /\ t.cc.mem \in {"none", "live", "freed"} /\ t.cc.resolved \in BOOLEAN
  BY DEF Undecided, Sound, States, CCs
<1>2. t.cc.mem # "none" BY DEF Undecided, Sound, NoConnect
<1>3. ~t.cc.resolved BY <1>2 DEF Undecided, Sound, Stage
<1>4. t.cc.mem # "freed" /\ t.cc.timer_pending = t.uv.deadline BY <1>3 DEF Sound, Memory, Undecided
<1>5. t.js.pending /\ t.js.promise = "pending" /\ ~t.js.socket /\ t.js.closes = 0
  BY DEF Undecided, Sound, Told, States, Promises
<1> QED BY <1>1, <1>2, <1>3, <1>4, <1>5

(* abortConnect decides it: the connection is being closed, for a reason    *)
(* that is true, and what nothing can reach any more is freed.              *)
LEMMA Abort ==
  ASSUME NEW t, Undecided(t), NEW reason \in {"refused", "dns", "timeout"},
         reason = "refused" => t.uv.tried = t.cc.addr_count,
         reason = "dns" => t.uv.tried = 0,
         reason = "timeout" => t.uv.expired
  PROVE  LET u == abortConnect(t, reason)
         IN Good(u) /\ (Unharmed(t) /\ ~t.conn.recycling => Unharmed(u))
<1> DEFINE m == markResolved(t)
           s == [m EXCEPT !.conn = [m.conn EXCEPT !.close_reason = reason]]
           u == abortConnect(t, reason)
<1>1. /\ t \in States /\ Queues(t) /\ TimerKept(t) /\ t.cc.mem = "live" /\ ~t.cc.resolved
      /\ t.cc.timer_pending = t.uv.deadline
  BY UndecidedIsLive DEF Undecided, Sound, Handles, TimerKept
<1>2. /\ m \in States /\ Queues(m) /\ Steady(m, t) /\ TimerKept(m)
      /\ m.cc = [t.cc EXCEPT !.resolved = TRUE]
      /\ m.conn = t.conn /\ m.js = t.js
      /\ "tcp" \in m.uv.open <=> "tcp" \in t.uv.open
      /\ In(m.uv.closing_handles) \ {"onCCClose"} = In(t.uv.closing_handles) \ {"onCCClose"}
  BY ONLY <1>1, MarkResolved
<1>3. u = IF s.conn.recycling THEN [s EXCEPT !.conn = [s.conn EXCEPT !.closing = TRUE]]
          ELSE ccMaybeFree(closeConn(s, reason))
  BY <1>1 DEF abortConnect
<1>11. reason \in Reasons BY DEF Reasons
<1> HIDE DEF m, u
<1>4. /\ s \in States /\ s.cc = m.cc /\ s.js = t.js /\ s.uv = m.uv
      /\ s.conn = [t.conn EXCEPT !.close_reason = reason]
  BY <1>2, <1>11 DEF States, Conns
<1> HIDE DEF s
<1>5. Queues(s) /\ TimerKept(s) /\ Steady(s, t) BY <1>2, <1>4 DEF Queues, TimerKept, Due, Steady
<1>6. /\ s.cc.mem = "live" /\ s.cc.resolved /\ s.cc.timer_pending = t.cc.timer_pending
      /\ s.cc.gai_pending = t.cc.gai_pending /\ s.cc.connect_pending = t.cc.connect_pending
      /\ s.cc.addr_idx = t.cc.addr_idx /\ s.cc.addr_count = t.cc.addr_count
  BY <1>1, <1>2, <1>4 DEF States, CCs
<1>7. /\ s.conn.mem = "live" /\ ~s.conn.closing /\ s.conn.connect /\ s.conn.recycling = t.conn.recycling
      /\ s.conn.tls = t.conn.tls /\ s.conn.up = t.conn.up /\ s.conn.close_reason = reason
      /\ s.conn.recycling \in BOOLEAN
  BY <1>1, <1>4 DEF Undecided, States, Conns
<1>8. /\ "onClose" \notin Due(t)
      /\ "onRetryClose" \in Due(t) <=> t.conn.recycling
      /\ "tcp" \in t.uv.open <=> ~t.conn.recycling
      /\ "gai" \in t.uv.owed <=> t.cc.gai_pending
      /\ "connect" \in t.uv.owed <=> t.cc.connect_pending
      /\ "double close" \notin t.uv.misuse
  BY DEF Undecided, Sound, Handles
<1>9. CASE t.conn.recycling
  <2>1. u = [s EXCEPT !.conn = [s.conn EXCEPT !.closing = TRUE]] BY <1>3, <1>7, <1>9
  <2>2. /\ u \in States /\ u.cc = s.cc /\ u.js = t.js /\ u.uv = s.uv
        /\ u.conn = [s.conn EXCEPT !.closing = TRUE]
    BY <1>4, <2>1 DEF States, Conns
  <2>3. /\ u.conn.mem = "live" /\ u.conn.closing /\ u.conn.connect /\ u.conn.recycling
        /\ u.conn.tls = t.conn.tls /\ u.conn.up = t.conn.up /\ u.conn.close_reason = reason
    BY <1>4, <1>7, <1>9, <2>2 DEF States, Conns
  <2>4. Due(u) \ {"onCCClose"} = Due(t) \ {"onCCClose"}
    BY <1>2, <1>4, <1>5, <2>2 DEF Due, Steady
  <2>5. Queues(u) /\ TimerKept(u) /\ Steady(u, t) BY <1>5, <2>2 DEF Queues, TimerKept, Due, Steady
  <2>6. Handles(u)
    <3>1. "onClose" \notin Due(u) /\ "onRetryClose" \in Due(u) BY <1>8, <1>9, <2>4
    <3>2. "tcp" \notin u.uv.open BY <1>2, <1>4, <1>8, <1>9, <2>2
    <3>3. TimerKept(u) /\ u.uv.owed = t.uv.owed /\ u.uv.misuse = t.uv.misuse BY <2>5 DEF Steady
    <3>4. u.cc.gai_pending = t.cc.gai_pending /\ u.cc.connect_pending = t.cc.connect_pending
      BY <1>6, <2>2
    <3> QED BY ONLY <1>8, <2>3, <3>1, <3>2, <3>3, <3>4 DEF Handles, TimerKept
  <2>7. Unused(u) /\ NoConnect(u) /\ Memory(u) /\ Freed(u) /\ Waits(u) /\ Reason(u)
    BY <1>1, <1>6, <2>2, <2>3, <2>5 DEF Unused, NoConnect, Memory, Freed, Waits, Reason, Steady
  <2>8. Stage(u) /\ Tries(u) /\ Told(u)
    BY <1>1, <1>6, <1>9, <2>2, <2>3, <2>5 DEF Undecided, Sound, Stage, Tries, Told
  <2> QED BY <1>9, <2>2, <2>5, <2>6, <2>7, <2>8 DEF Good, Sound, u
<1>10. CASE ~t.conn.recycling
  <2> DEFINE c == closeConn(s, reason)
  <2>1. u = ccMaybeFree(c) BY <1>3, <1>7, <1>10
  <2>2. "tcp" \in s.uv.open /\ "onClose" \notin Due(s)
    BY <1>2, <1>4, <1>5, <1>8, <1>10 DEF Due, Steady
  <2>3. /\ c \in States /\ Queues(c) /\ Steady(c, s) /\ TimerKept(c)
        /\ c.cc = [s.cc EXCEPT !.resolved = s.cc.resolved \/ s.conn.connect]
        /\ c.conn = [s.conn EXCEPT !.closing = TRUE, !.close_reason = reason] /\ c.js = s.js
        /\ "tcp" \notin c.uv.open
        /\ In(c.uv.closing_handles) \ {"onCCClose"}
             = (In(s.uv.closing_handles) \ {"onCCClose"}) \cup {"onClose"}
    BY ONLY <1>4, <1>5, <1>6, <1>7, <1>11, <2>2, CloseConn
  <2> HIDE DEF c
  <2>4. /\ c.cc.mem = "live" /\ c.cc.resolved /\ c.cc.timer_pending = t.cc.timer_pending
        /\ c.cc.gai_pending = t.cc.gai_pending /\ c.cc.connect_pending = t.cc.connect_pending
        /\ c.cc.addr_idx = t.cc.addr_idx /\ c.cc.addr_count = t.cc.addr_count
    BY <1>4, <1>6, <2>3 DEF States, CCs
  <2>5. /\ c.conn.mem = "live" /\ c.conn.closing /\ c.conn.connect /\ ~c.conn.recycling
        /\ c.conn.tls = t.conn.tls /\ c.conn.up = t.conn.up /\ c.conn.close_reason = reason
    BY <1>4, <1>7, <1>10, <2>3 DEF States, Conns
  <2>6. Due(c) \ {"onCCClose"} = (Due(t) \ {"onCCClose"}) \cup {"onClose"} /\ Steady(c, t)
    BY <1>2, <1>4, <1>5, <2>3 DEF Due, Steady
  <2>7. Handles(c)
    <3>1. "onClose" \in Due(c) BY <2>6
    <3>2. "onRetryClose" \notin Due(t) BY <1>8, <1>10
    <3>3. "onRetryClose" \notin Due(c) BY <2>6, <3>2
    <3>4. TimerKept(c) /\ c.uv.owed = t.uv.owed /\ c.uv.misuse = t.uv.misuse BY <2>3, <2>6 DEF Steady
    <3> QED BY ONLY <1>8, <2>3, <2>4, <2>5, <3>1, <3>3, <3>4 DEF Handles, TimerKept
  <2>8. Unused(c) /\ NoConnect(c) /\ Memory(c) /\ Waits(c) /\ Reason(c)
    BY <1>1, <2>4, <2>5, <2>6 DEF Unused, NoConnect, Memory, Waits, Reason, Steady
  <2>9. Stage(c) /\ Tries(c) /\ Told(c)
    BY <1>1, <1>4, <1>10, <2>3, <2>4, <2>5 DEF Undecided, Sound, Stage, Tries, Told
  <2>10. Sound(c) BY <2>3, <2>7, <2>8, <2>9 DEF Sound
  <2>11. Unharmed(t) => Unharmed(c) BY <2>5, <2>6 DEF Unharmed, Recycled, Steady
  <2>12. Sound(u) /\ Freed(u) /\ Waits(u) /\ (Unharmed(c) => Unharmed(u))
    BY ONLY <2>1, <2>4, <2>8, <2>10, MaybeFree
  <2> QED BY <2>11, <2>12 DEF Good, u
<1> QED BY <1>9, <1>10

(* The next address: the handle of the last is closed to be opened again,   *)
(* or all have been tried.                                                  *)
Idle(t) ==
  Undecided(t) /\ ~t.cc.gai_pending /\ ~t.cc.connect_pending /\ ~t.conn.recycling /\ ~t.conn.up

LEMMA NextAddr ==
  ASSUME NEW t, Idle(t), t.cc.addr_idx < t.cc.addr_count, t.uv.tried = t.cc.addr_idx + 1
  PROVE  LET u == nextAddrOrFail(t)
         IN Good(u) /\ (Unharmed(t) /\ t.uv.phase = "poll" => Unharmed(u))
<1> DEFINE s == [t EXCEPT !.cc = [t.cc EXCEPT !.addr_idx = t.cc.addr_idx + 1]]
           r == [s EXCEPT !.conn = [s.conn EXCEPT !.recycling = TRUE]]
           u == nextAddrOrFail(t)
<1>1. /\ t \in States /\ t.cc.mem = "live" /\ ~t.cc.resolved /\ t.cc.timer_pending = t.uv.deadline
      /\ t.js.pending
  BY UndecidedIsLive DEF Idle
<1>2. t.cc.addr_idx + 1 \in 0..MaxAddrs BY <1>1, MaxAddrsAssumption DEF States, CCs
<1>3. /\ s \in States /\ s.conn = t.conn /\ s.js = t.js /\ s.uv = t.uv
      /\ s.cc = [t.cc EXCEPT !.addr_idx = t.cc.addr_idx + 1]
  BY <1>1, <1>2 DEF States, CCs
<1>4. u = IF s.cc.addr_idx >= s.cc.addr_count THEN abortConnect(s, "refused")
          ELSE uv_close(r, "tcp", "onRetryClose")
  BY DEF nextAddrOrFail
<1> HIDE DEF s, u
<1>5. /\ s.cc.mem = "live" /\ ~s.cc.resolved /\ s.cc.timer_pending = s.uv.deadline
      /\ ~s.cc.gai_pending /\ ~s.cc.connect_pending
      /\ s.cc.timer_pending = t.cc.timer_pending /\ s.cc.addr_count = t.cc.addr_count
      /\ s.cc.addr_idx = t.cc.addr_idx + 1
  BY <1>1, <1>3 DEF Idle, States, CCs
<1>6. Undecided(s)
  <2>1. Due(s) = Due(t) BY <1>3 DEF Due
  <2>2. Handles(s) BY <1>1, <1>3, <1>5, <2>1 DEF Idle, Undecided, Sound, Handles
  <2>3. Unused(s) /\ NoConnect(s) /\ Memory(s) /\ Stage(s) /\ Tries(s) /\ Reason(s)
    BY <1>1, <1>3, <1>5
       DEF Idle, Undecided, Sound, Unused, NoConnect, Memory, Stage, Tries, Reason
  <2>4. Queues(s) /\ Told(s) BY <1>3 DEF Idle, Undecided, Sound, Queues, Told
  <2> QED BY <1>3, <2>2, <2>3, <2>4 DEF Idle, Undecided, Sound
<1>7. Unharmed(t) => Unharmed(s) BY <1>3, <1>5 DEF Unharmed, Recycled, Idle
<1>8. s.cc.addr_idx \in Int /\ s.cc.addr_count \in Int BY <1>3 DEF States, CCs
<1>9. CASE s.cc.addr_idx >= s.cc.addr_count
  <2>1. u = abortConnect(s, "refused") BY <1>4, <1>9
  <2>2. s.uv.tried = s.cc.addr_count BY <1>1, <1>3, <1>5, <1>8, <1>9 DEF States, CCs
  <2>3. "refused" \in {"refused", "dns", "timeout"} OBVIOUS
  <2>4. ~s.conn.recycling BY <1>3 DEF Idle
  <2> QED BY ONLY <1>6, <1>7, <2>1, <2>2, <2>3, <2>4, Abort DEF u
<1>10. CASE ~(s.cc.addr_idx >= s.cc.addr_count)
  <2>1. u = uv_close(r, "tcp", "onRetryClose") BY <1>4, <1>10
  <2>2. /\ r \in States /\ r.cc = s.cc /\ r.js = t.js /\ r.uv = t.uv
        /\ r.conn = [t.conn EXCEPT !.recycling = TRUE]
    BY <1>3 DEF States, Conns
  <2> HIDE DEF r
  <2>3. Queues(r) /\ Due(r) = Due(t) BY <2>2 DEF Idle, Undecided, Sound, Queues, Due
  <2>4. "tcp" \in r.uv.open /\ "onRetryClose" \notin Due(r) /\ "onRetryClose" \in Callbacks
    BY <2>2, <2>3 DEF Idle, Undecided, Sound, Handles, Callbacks
  <2>5. /\ u \in States /\ Queues(u) /\ Steady(u, r)
        /\ u.cc = r.cc /\ u.conn = r.conn /\ u.js = r.js
        /\ u.uv.open = r.uv.open \ {"tcp"} /\ u.uv.armed = r.uv.armed
        /\ In(u.uv.closing_handles) = In(r.uv.closing_handles) \cup {"onRetryClose"}
    <3>1. r \in States BY <2>2
    <3> QED BY ONLY <2>1, <2>3, <2>4, <3>1, CloseHandle
  <2>6. /\ u.conn.mem = "live" /\ ~u.conn.closing /\ u.conn.connect /\ u.conn.recycling /\ ~u.conn.up
        /\ u.conn.tls = t.conn.tls
    BY <1>1, <2>2, <2>5 DEF Idle, Undecided, States, Conns
  <2>7. Due(u) = Due(t) \cup {"onRetryClose"} /\ Steady(u, t)
    BY <2>2, <2>3, <2>5 DEF Due, Steady
  <2>8. u.cc = s.cc /\ u.js = t.js BY <2>2, <2>5
  <2>9. Handles(u)
    <3>1. "onClose" \notin Due(u) /\ ("onCCClose" \in Due(u) <=> "onCCClose" \in Due(t))
      BY <2>7 DEF Idle, Undecided, Sound, Handles
    <3>2. /\ "timer" \in t.uv.open <=> t.cc.timer_pending
          /\ "onCCClose" \notin Due(t)
          /\ "gai" \notin t.uv.owed /\ "connect" \notin t.uv.owed
          /\ "double close" \notin t.uv.misuse
          /\ t.uv.armed => t.cc.timer_pending
      BY <1>1 DEF Idle, Undecided, Sound, Handles
    <3>3. /\ "tcp" \notin u.uv.open
          /\ "timer" \in u.uv.open <=> "timer" \in t.uv.open
          /\ u.uv.armed = t.uv.armed
      BY <2>2, <2>5
    <3>4. u.uv.owed = t.uv.owed /\ u.uv.misuse = t.uv.misuse /\ "onRetryClose" \in Due(u)
      BY <2>7 DEF Steady
    <3> QED BY ONLY <1>5, <2>6, <2>8, <3>1, <3>2, <3>3, <3>4 DEF Handles
  <2>10. Unused(u) /\ NoConnect(u) /\ Memory(u) /\ Freed(u) /\ Waits(u) /\ Reason(u)
    BY <1>3, <1>5, <2>6, <2>7, <2>8 DEF Unused, NoConnect, Memory, Freed, Waits, Reason, Steady
  <2>11. Stage(u) /\ Told(u)
    BY <1>5, <2>6, <2>8 DEF Idle, Undecided, Sound, Stage, Told
  <2>12. Tries(u)
    BY <1>1, <1>5, <1>8, <1>10, <2>6, <2>7, <2>8 DEF Tries, Steady, States, CCs
  <2>13. Unharmed(t) /\ t.uv.phase = "poll" => Unharmed(u)
    BY <1>5, <2>7, <2>8 DEF Unharmed, Recycled, Steady
  <2> QED BY <2>5, <2>9, <2>10, <2>11, <2>12, <2>13 DEF Good, Sound, u
<1> QED BY <1>8, <1>9, <1>10

(* uv_tcp_connect, and what follows when it refuses at once. *)
LEMMA StartConnect ==
  ASSUME NEW t, Idle(t), t.cc.addr_idx < t.cc.addr_count, t.uv.tried = t.cc.addr_idx,
         NEW accepted \in BOOLEAN
  PROVE  LET u == startConnect(t, accepted)
         IN Good(u) /\ (Unharmed(t) /\ accepted => Unharmed(u))
<1> DEFINE s == [t EXCEPT !.uv = [t.uv EXCEPT !.tried = t.uv.tried + 1]]
           a == [s EXCEPT !.cc = [s.cc EXCEPT !.connect_pending = TRUE],
                          !.uv = [s.uv EXCEPT !.owed = s.uv.owed \cup {"connect"}]]
           u == startConnect(t, accepted)
<1>1. /\ t \in States /\ t.cc.mem = "live" /\ ~t.cc.resolved /\ t.cc.timer_pending = t.uv.deadline
  BY UndecidedIsLive DEF Idle
<1>2. t.uv.tried + 1 \in 0..MaxAddrs BY <1>1, MaxAddrsAssumption DEF States, CCs
<1>3. /\ s \in States /\ s.cc = t.cc /\ s.conn = t.conn /\ s.js = t.js
      /\ s.uv = [t.uv EXCEPT !.tried = t.uv.tried + 1]
  BY <1>1, <1>2 DEF States, Loops
<1>4. u = IF accepted THEN a ELSE nextAddrOrFail(s)
  BY DEF startConnect
<1> HIDE DEF s, u
<1>5. /\ s.uv.phase = t.uv.phase /\ s.uv.closing_handles = t.uv.closing_handles
      /\ s.uv.endgame = t.uv.endgame /\ s.uv.open = t.uv.open /\ s.uv.owed = t.uv.owed
      /\ s.uv.deadline = t.uv.deadline /\ s.uv.armed = t.uv.armed /\ s.uv.expired = t.uv.expired
      /\ s.uv.misuse = t.uv.misuse /\ s.uv.tried = t.cc.addr_idx + 1 /\ Due(s) = Due(t)
  BY <1>1, <1>3 DEF Due, States, Loops
<1>6. Idle(s)
  <2>1. Handles(s) BY <1>3, <1>5 DEF Idle, Undecided, Sound, Handles
  <2>2. Unused(s) /\ NoConnect(s) /\ Memory(s) /\ Stage(s) /\ Tries(s) /\ Reason(s)
    BY <1>1, <1>3, <1>5
       DEF Idle, Undecided, Sound, Unused, NoConnect, Memory, Stage, Tries, Reason
  <2>3. Queues(s) /\ Told(s) BY <1>3, <1>5 DEF Idle, Undecided, Sound, Queues, Told
  <2> QED BY <1>3, <2>1, <2>2, <2>3 DEF Idle, Undecided, Sound
<1>7. CASE accepted
  <2>1. u = a BY <1>4, <1>7
  <2>2. /\ u \in States /\ u.conn = t.conn /\ u.js = t.js
        /\ u.cc = [t.cc EXCEPT !.connect_pending = TRUE]
        /\ u.uv = [s.uv EXCEPT !.owed = s.uv.owed \cup {"connect"}]
    BY <1>3, <2>1 DEF States, CCs, Loops
  <2>3. /\ u.cc.mem = "live" /\ ~u.cc.resolved /\ u.cc.timer_pending = u.uv.deadline
        /\ ~u.cc.gai_pending /\ u.cc.connect_pending
        /\ u.cc.timer_pending = t.cc.timer_pending /\ u.cc.addr_count = t.cc.addr_count
        /\ u.cc.addr_idx = t.cc.addr_idx
    BY <1>1, <1>3, <1>5, <2>2, ZenonT(60) DEF Idle, States, CCs, Loops
  <2>4. /\ u.uv.phase = t.uv.phase /\ u.uv.closing_handles = t.uv.closing_handles
        /\ u.uv.endgame = t.uv.endgame /\ u.uv.open = t.uv.open
        /\ u.uv.owed = t.uv.owed \cup {"connect"}
        /\ u.uv.armed = t.uv.armed /\ u.uv.expired = t.uv.expired
        /\ u.uv.misuse = t.uv.misuse /\ u.uv.tried = t.cc.addr_idx + 1 /\ Due(u) = Due(t)
    BY <1>3, <1>5, <2>2 DEF Due, States, Loops
  <2>5. Handles(u)
    BY <1>1, <2>2, <2>3, <2>4 DEF Idle, Undecided, Sound, Handles
  <2>6. Unused(u) /\ NoConnect(u) /\ Memory(u) /\ Freed(u) /\ Waits(u) /\ Reason(u)
    BY <2>2, <2>3 DEF Idle, Undecided, Unused, NoConnect, Memory, Freed, Waits, Reason
  <2>7. Stage(u) /\ Tries(u) /\ Told(u) /\ Queues(u)
    BY <1>1, <2>2, <2>3, <2>4 DEF Idle, Undecided, Sound, Stage, Tries, Told, Queues
  <2>8. Unharmed(t) => Unharmed(u) BY <2>2, <2>4 DEF Unharmed, Recycled, Idle
  <2> QED BY <1>7, <2>2, <2>5, <2>6, <2>7, <2>8 DEF Good, Sound, u
<1>8. CASE ~accepted
  <2>1. u = nextAddrOrFail(s) BY <1>4, <1>8
  <2>2. s.cc.addr_idx < s.cc.addr_count /\ s.uv.tried = s.cc.addr_idx + 1 BY <1>3, <1>5
  <2>3. Good(u) BY ONLY <1>6, <2>1, <2>2, NextAddr
  <2> QED BY <1>8, <2>3 DEF u
<1> QED BY <1>7, <1>8

(* closeConn by the peer, the application or the TLS engine. *)
LEMMA CloseSound ==
  ASSUME NEW t, Sound(t), t.conn.mem = "live", ~t.conn.closing, ~t.conn.recycling, t.conn.up,
         t.conn.connect \/ Freed(t),
         NEW reason \in {"normal", "peer_reset", "tls_error"}
  PROVE  LET u == closeConn(t, reason)
         IN Good(u) /\ (Unharmed(t) => Unharmed(u))
<1> DEFINE u == closeConn(t, reason)
<1>1. /\ t \in States /\ Queues(t) /\ TimerKept(t) /\ "tcp" \in t.uv.open /\ "onClose" \notin Due(t)
      /\ "onRetryClose" \notin Due(t) /\ reason \in Reasons
  BY DEF Sound, Handles, TimerKept, Reasons
<1>2. t.cc.mem # "none" /\ t.cc.mem \in {"none", "live", "freed"} /\ t.cc.resolved \in BOOLEAN
      /\ t.conn.connect \in BOOLEAN
  BY <1>1 DEF Sound, NoConnect, States, CCs, Conns
<1>3. t.cc.resolved = ~t.conn.connect BY <1>2 DEF Sound, Stage
<1>4. t.conn.connect => t.cc.mem = "live" /\ t.cc.timer_pending = t.uv.deadline
  BY <1>2, <1>3 DEF Sound, Memory
<1>5. /\ u \in States /\ Queues(u) /\ Steady(u, t) /\ TimerKept(u)
      /\ u.cc = [t.cc EXCEPT !.resolved = t.cc.resolved \/ t.conn.connect]
      /\ u.conn = [t.conn EXCEPT !.closing = TRUE, !.close_reason = reason] /\ u.js = t.js
      /\ "tcp" \notin u.uv.open
      /\ In(u.uv.closing_handles) \ {"onCCClose"}
           = (In(t.uv.closing_handles) \ {"onCCClose"}) \cup {"onClose"}
  <2>1. t.conn.connect => t.cc.mem # "freed" BY <1>4
  <2> QED BY ONLY <1>1, <2>1, ~t.conn.closing, CloseConn
<1> HIDE DEF u
<1>6. /\ u.cc.resolved /\ u.cc.mem = t.cc.mem /\ u.cc.timer_pending = t.cc.timer_pending
      /\ u.cc.gai_pending = t.cc.gai_pending /\ u.cc.connect_pending = t.cc.connect_pending
      /\ u.cc.addr_count = t.cc.addr_count
  BY <1>1, <1>2, <1>3, <1>5 DEF States, CCs
<1>7. /\ u.conn.mem = "live" /\ u.conn.closing /\ ~u.conn.recycling /\ u.conn.connect = t.conn.connect
      /\ u.conn.tls = t.conn.tls /\ u.conn.up = t.conn.up /\ u.conn.close_reason = reason
  BY <1>1, <1>5 DEF States, Conns
<1>8. Due(u) \ {"onCCClose"} = (Due(t) \ {"onCCClose"}) \cup {"onClose"}
  BY <1>5 DEF Due, Steady
<1>9. Handles(u)
  <2>1. "onClose" \in Due(u) BY <1>8
  <2>2. "onRetryClose" \notin Due(u) BY <1>1, <1>8
  <2>3. u.uv.owed = t.uv.owed /\ u.uv.misuse = t.uv.misuse BY <1>5 DEF Steady
  <2>4. /\ "gai" \in t.uv.owed <=> t.cc.gai_pending
        /\ "connect" \in t.uv.owed <=> t.cc.connect_pending
        /\ "double close" \notin t.uv.misuse
    BY DEF Sound, Handles
  <2> QED BY ONLY <1>5, <1>6, <1>7, <2>1, <2>2, <2>3, <2>4 DEF Handles, TimerKept
<1>10. Unused(u) /\ NoConnect(u) /\ Memory(u) /\ Waits(u) /\ Reason(u)
  BY <1>2, <1>4, <1>6, <1>7 DEF Sound, Unused, NoConnect, Memory, Waits, Reason
<1>11. Freed(u) BY <1>4, <1>5, <1>6, <1>3, <1>2 DEF Freed, Steady
<1>12. Stage(u) /\ Tries(u) /\ Told(u)
  BY <1>5, <1>6, <1>7 DEF Sound, Stage, Tries, Told
<1>13. Unharmed(t) => Unharmed(u) BY <1>5, <1>7 DEF Unharmed, Recycled, Steady
<1> QED BY <1>5, <1>9, <1>10, <1>11, <1>12, <1>13 DEF Good, Sound, u

(* resolveConnect of a connect that is under way. *)
LEMMA ResolveConnect ==
  ASSUME NEW t \in States, Queues(t), TimerKept(t), t.conn.connect, t.cc.mem = "live"
  PROVE  LET u == resolveConnect(t)
         IN /\ u \in States /\ Queues(u) /\ Steady(u, t) /\ TimerKept(u)
            /\ u.cc = [t.cc EXCEPT !.resolved = TRUE,
                          !.mem = IF t.cc.gai_pending \/ t.cc.connect_pending \/ t.cc.timer_pending
                                  THEN "live" ELSE "freed"]
            /\ u.conn = [t.conn EXCEPT !.connect = FALSE] /\ u.js = t.js
            /\ "tcp" \in u.uv.open <=> "tcp" \in t.uv.open
            /\ In(u.uv.closing_handles) \ {"onCCClose"} = In(t.uv.closing_handles) \ {"onCCClose"}
<1> DEFINE m == markResolved(t)
           s == [m EXCEPT !.conn = [m.conn EXCEPT !.connect = FALSE]]
           f == [s EXCEPT !.cc = [s.cc EXCEPT !.mem = "freed"]]
           waits == t.cc.gai_pending \/ t.cc.connect_pending \/ t.cc.timer_pending
           u == resolveConnect(t)
<1>1. /\ m \in States /\ Queues(m) /\ Steady(m, t) /\ TimerKept(m)
      /\ m.cc = [t.cc EXCEPT !.resolved = TRUE]
      /\ m.conn = t.conn /\ m.js = t.js
      /\ "tcp" \in m.uv.open <=> "tcp" \in t.uv.open
      /\ In(m.uv.closing_handles) \ {"onCCClose"} = In(t.uv.closing_handles) \ {"onCCClose"}
  <2>1. t \in States /\ Queues(t) /\ TimerKept(t) OBVIOUS
  <2> QED BY ONLY <2>1, MarkResolved
<1>2. touch(t) = t BY DEF touch
<1>3. u = ccMaybeFree(s) BY <1>2 DEF resolveConnect
<1> HIDE DEF m, u
<1>4. /\ s \in States /\ s.cc = m.cc /\ s.js = t.js /\ s.uv = m.uv
      /\ s.conn = [t.conn EXCEPT !.connect = FALSE]
  BY <1>1 DEF States, Conns
<1> HIDE DEF s
<1>5. /\ s.cc.mem = "live" /\ s.cc.resolved /\ s.cc.timer_pending = t.cc.timer_pending
      /\ s.cc.gai_pending = t.cc.gai_pending /\ s.cc.connect_pending = t.cc.connect_pending
  BY <1>1, <1>4 DEF States, CCs
<1>6. Queues(s) /\ TimerKept(s) /\ Steady(s, t) BY <1>1, <1>4 DEF Queues, TimerKept, Due, Steady
<1>7. CASE waits
  <2>1. u = s BY <1>3, <1>5, <1>7 DEF ccMaybeFree
  <2>2. u.cc = [t.cc EXCEPT !.resolved = TRUE, !.mem = "live"]
    BY <1>1, <1>4, <2>1, ZenonT(60) DEF States, CCs
  <2>3. (IF waits THEN "live" ELSE "freed") = "live" BY <1>7
  <2>4. u.cc = [t.cc EXCEPT !.resolved = TRUE, !.mem = IF waits THEN "live" ELSE "freed"]
    BY ONLY <2>2, <2>3
  <2> QED BY <1>1, <1>4, <1>6, <2>1, <2>4 DEF u
<1>8. CASE ~waits
  <2>1. u = f BY <1>3, <1>5, <1>8 DEF ccMaybeFree
  <2>2. /\ u \in States /\ u.cc = [s.cc EXCEPT !.mem = "freed"]
        /\ u.conn = s.conn /\ u.js = s.js /\ u.uv = s.uv
    BY <1>4, <2>1 DEF States, CCs
  <2>3. u.cc = [t.cc EXCEPT !.resolved = TRUE, !.mem = "freed"]
    BY <1>1, <1>4, <2>2 DEF States, CCs
  <2>4. (IF waits THEN "live" ELSE "freed") = "freed" BY <1>8
  <2>5. u.cc = [t.cc EXCEPT !.resolved = TRUE, !.mem = IF waits THEN "live" ELSE "freed"]
    BY ONLY <2>3, <2>4
  <2>6. u.cc.timer_pending = s.cc.timer_pending /\ u.cc.resolved = s.cc.resolved
    BY <1>4, <2>2 DEF States, CCs
  <2>7. Queues(u) /\ TimerKept(u) /\ Steady(u, t)
    BY <1>6, <2>2, <2>6 DEF Queues, TimerKept, Due, Steady
  <2> QED BY <1>1, <1>4, <2>2, <2>5, <2>7 DEF u
<1> QED BY <1>7, <1>8

(* What a connect that came up leaves: the promise resolved, the socket     *)
(* open, the deadline stopped.                                              *)
LEMMA SettledSound ==
  ASSUME NEW t, Undecided(t), t.cc.connect_pending \/ t.conn.up,
         NEW u \in States, Queues(u), TimerKept(u), NEW tls \in {"none", "established"},
         u.cc = [t.cc EXCEPT !.connect_pending = FALSE, !.resolved = TRUE,
                             !.mem = IF t.cc.timer_pending THEN "live" ELSE "freed"],
         u.conn = [t.conn EXCEPT !.connect = FALSE, !.up = TRUE, !.tls = tls],
         u.js = [t.js EXCEPT !.promise = "resolved", !.pending = FALSE, !.socket = TRUE],
         u.uv.phase = t.uv.phase, u.uv.endgame = t.uv.endgame,
         u.uv.owed = t.uv.owed \ {"connect"},
         u.uv.deadline = t.uv.deadline, u.uv.tried = t.uv.tried, u.uv.misuse = t.uv.misuse,
         "tcp" \in u.uv.open <=> "tcp" \in t.uv.open,
         In(u.uv.closing_handles) \ {"onCCClose"} = In(t.uv.closing_handles) \ {"onCCClose"}
  PROVE  Good(u) /\ (Unharmed(t) => Unharmed(u))
<1>1. /\ t \in States /\ t.cc.mem = "live" /\ ~t.cc.resolved /\ t.cc.timer_pending = t.uv.deadline
      /\ t.js.closes = 0
  BY UndecidedIsLive
<1>2. ~t.cc.gai_pending /\ ~t.conn.recycling BY DEF Undecided, Sound, Stage
<1>3. /\ u.cc.mem = IF t.cc.timer_pending THEN "live" ELSE "freed"
      /\ u.cc.resolved /\ ~u.cc.gai_pending /\ ~u.cc.connect_pending
      /\ u.cc.timer_pending = t.cc.timer_pending
  BY <1>1, <1>2 DEF States, CCs
<1>4. /\ u.conn.mem = "live" /\ ~u.conn.closing /\ ~u.conn.connect /\ ~u.conn.recycling
      /\ u.conn.up /\ u.conn.tls = tls
  BY <1>1, <1>2 DEF Undecided, States, Conns
<1>5. u.js.promise = "resolved" /\ u.js.pending = FALSE /\ u.js.socket = TRUE /\ u.js.closes = 0
  BY <1>1 DEF States, Promises
<1>6. Due(u) \ {"onCCClose"} = Due(t) \ {"onCCClose"} BY DEF Due
<1>7. /\ "onClose" \notin Due(t) /\ "onRetryClose" \notin Due(t) /\ "tcp" \in t.uv.open
      /\ "gai" \notin t.uv.owed /\ "double close" \notin t.uv.misuse
  BY <1>2 DEF Undecided, Sound, Handles
<1>8. Handles(u)
  <2>1. "onClose" \notin Due(u) BY <1>6, <1>7
  <2>2. "onRetryClose" \notin Due(u) BY <1>6, <1>7
  <2>3. "gai" \notin u.uv.owed /\ "connect" \notin u.uv.owed /\ "double close" \notin u.uv.misuse
    BY <1>7
  <2>4. TimerKept(u) /\ "tcp" \in u.uv.open BY <1>7
  <2> QED BY ONLY <1>3, <1>4, <2>1, <2>2, <2>3, <2>4 DEF Handles, TimerKept
<1>9. Unused(u) /\ NoConnect(u) /\ Reason(u) /\ Waits(u) BY <1>3, <1>4 DEF Unused, NoConnect, Reason, Waits
<1>10. Memory(u) /\ Freed(u) BY <1>3 DEF Memory, Freed
<1>11. Stage(u) /\ Tries(u) BY <1>3, <1>4 DEF Stage, Tries
<1>12. Told(u) BY ONLY <1>4, <1>5 DEF Told
<1>13. Unharmed(t) => Unharmed(u) BY <1>4 DEF Unharmed, Recycled
<1> QED BY <1>8, <1>9, <1>10, <1>11, <1>12, <1>13 DEF Good, Sound

-----------------------------------------------------------------------------
(* The callbacks. *)

Keeps(t) == Good(t) /\ (~SyncFail /\ Unharmed(Now) => Unharmed(t))

LEMMA NowIs == Now.cc = cc /\ Now.conn = conn /\ Now.js = js /\ Now.uv = uv
BY DEF Now

LEMMA Becomes ==
  ASSUME IInv, NEW t, Keeps(t), Become(t)
  PROVE  IInv'
<1>1. t \in States BY DEF Keeps, Good, Sound
<1>2. Now' = t BY <1>1 DEF States, Become, Now
<1>3. Good(Now') /\ (SyncFail \/ Unharmed(Now'))
  BY <1>2, SyncFailAssumption DEF IInv, Keeps
<1> QED BY <1>3 DEF IInv

LEMMA InEmpty == In(<<>>) = {} /\ Once(<<>>) /\ <<>> \in Seq(Callbacks)
BY DEF In, Once

LEMMA InitIInv == Init => IInv
<1> SUFFICES ASSUME Init PROVE IInv
  OBVIOUS
<1>1. /\ uv.phase = "poll" /\ uv.closing_handles = <<>> /\ uv.endgame = <<>> /\ uv.open = {} /\ uv.owed = {}
      /\ uv.deadline = FALSE /\ ~uv.armed /\ ~uv.expired /\ uv.tried = 0 /\ uv.misuse = {}
      /\ cc.mem = "none" /\ ~cc.gai_pending /\ ~cc.connect_pending /\ cc.timer_pending = FALSE
      /\ ~cc.resolved /\ cc.addr_idx = 0 /\ cc.addr_count = 0
      /\ conn.mem = "none" /\ ~conn.connect /\ ~conn.recycling /\ ~conn.closing /\ conn.tls = "none" /\ ~conn.up
      /\ js.promise = "none" /\ js.pending = FALSE /\ ~js.socket /\ js.closes = 0
  BY DEF Init
<1>2. cc \in CCs /\ conn \in Conns /\ js \in Promises /\ uv \in Loops
  BY MaxAddrsAssumption, InEmpty DEF Init, CCs, Conns, Promises, Loops, Reasons
<1>3. Now \in States BY <1>2 DEF Now, States
<1>4. Due(Now) = {} BY <1>1, NowIs, InEmpty DEF Due
<1>5. Handles(Now) BY ONLY <1>1, <1>4, NowIs DEF Handles
<1>6. Queues(Now) BY ONLY <1>1, NowIs, InEmpty DEF Queues
<1>7. /\ Unused(Now) /\ NoConnect(Now) /\ Memory(Now) /\ Stage(Now) /\ Tries(Now) /\ Reason(Now)
      /\ Waits(Now) /\ Freed(Now)
  BY ONLY <1>1, NowIs DEF Unused, NoConnect, Memory, Stage, Tries, Reason, Waits, Freed
<1>8. Told(Now) /\ Unharmed(Now) BY ONLY <1>1, NowIs DEF Told, Unharmed, Recycled
<1> QED BY <1>3, <1>5, <1>6, <1>7, <1>8 DEF IInv, Good, Sound

(* A new connect: the records connectTcp fills. *)
Fresh(t) ==
  /\ t \in States
  /\ t.cc.mem = "live" /\ t.cc.timer_pending = t.uv.deadline
  /\ t.cc.gai_pending => t.cc.addr_count = 0
  /\ ~t.cc.connect_pending /\ ~t.cc.resolved /\ t.cc.addr_idx = 0
  /\ t.conn.mem = "live" /\ t.conn.tls \in {"none", "handshake"} /\ t.conn.connect
  /\ ~t.conn.recycling /\ ~t.conn.closing /\ ~t.conn.up
  /\ t.js.promise = "pending" /\ t.js.pending = TRUE /\ t.js.socket = FALSE /\ t.js.closes = 0
  /\ "tcp" \in t.uv.open /\ ("timer" \in t.uv.open <=> t.uv.deadline)
  /\ ("gai" \in t.uv.owed <=> t.cc.gai_pending) /\ "connect" \notin t.uv.owed
  /\ t.uv.armed = t.uv.deadline /\ t.uv.tried = 0
  /\ t.uv.phase = uv.phase /\ t.uv.closing_handles = uv.closing_handles
  /\ t.uv.endgame = uv.endgame /\ t.uv.misuse = uv.misuse

LEMMA FreshSound ==
  ASSUME Good(Now), conn.mem = "none", NEW t, Fresh(t)
  PROVE  /\ Undecided(t) /\ (t.cc.gai_pending => Good(t)) /\ (~t.cc.gai_pending => Idle(t))
         /\ Unharmed(Now) => Unharmed(t)
<1>1. Due(t) = Due(Now) BY NowIs DEF Due, Fresh
<1>2. cc.mem = "none" BY NowIs DEF Good, Sound, Unused
<1>3. ~cc.timer_pending BY <1>2, NowIs DEF Good, Sound, NoConnect
<1>4. /\ "onClose" \notin Due(t) /\ "onRetryClose" \notin Due(t) /\ "onCCClose" \notin Due(t)
      /\ "double close" \notin t.uv.misuse
  BY <1>1, <1>3, NowIs DEF Good, Sound, Handles, Fresh
<1>5. Handles(t) BY ONLY <1>4, Fresh(t) DEF Handles, Fresh
<1>6. Queues(t) BY NowIs DEF Good, Sound, Queues, Fresh
<1>7. Unused(t) /\ NoConnect(t) /\ Memory(t) /\ Stage(t) /\ Tries(t) /\ Reason(t) /\ Freed(t)
  BY ONLY Fresh(t) DEF Unused, NoConnect, Memory, Stage, Tries, Reason, Freed, Fresh
<1>8. Told(t) BY ONLY Fresh(t) DEF Told, Fresh
<1>9. t.cc.gai_pending => Waits(t) BY DEF Waits
<1>10. Unharmed(Now) => Unharmed(t) BY NowIs DEF Unharmed, Recycled, Fresh
<1> QED BY <1>5, <1>6, <1>7, <1>8, <1>9, <1>10 DEF Undecided, Idle, Good, Sound, Fresh

(* The connection connectTcp makes. *)
LEMMA NewConnIs ==
  ASSUME Now \in States, NEW tls \in BOOLEAN
  PROVE  LET n == newConn(tls)
         IN /\ n \in States /\ n.cc = cc
            /\ n.conn = [conn EXCEPT !.mem = "live", !.tls = IF tls THEN "handshake" ELSE "none"]
            /\ n.js = [js EXCEPT !.promise = "pending", !.pending = TRUE]
            /\ n.uv = [uv EXCEPT !.open = {"tcp"}]
<1> DEFINE s == IF tls THEN "handshake" ELSE "none"
           b == [[Now EXCEPT !.conn = [Now.conn EXCEPT !.mem = "live"]]
                    EXCEPT !.conn = [[Now EXCEPT !.conn = [Now.conn EXCEPT !.mem = "live"]].conn EXCEPT !.tls = s]]
           d == [[b EXCEPT !.js = [b.js EXCEPT !.promise = "pending"]]
                    EXCEPT !.js = [[b EXCEPT !.js = [b.js EXCEPT !.promise = "pending"]].js EXCEPT !.pending = TRUE]]
           n == [d EXCEPT !.uv = [d.uv EXCEPT !.open = {"tcp"}]]
<1>1. newConn(tls) = n BY DEF newConn
<1>2. s \in {"none", "handshake"} OBVIOUS
<1> HIDE DEF s
<1>3. /\ b \in States /\ b.cc = Now.cc /\ b.js = Now.js /\ b.uv = Now.uv
      /\ b.conn = [Now.conn EXCEPT !.mem = "live", !.tls = s]
  BY <1>2 DEF States, Conns
<1> HIDE DEF b
<1>4. /\ d \in States /\ d.cc = b.cc /\ d.conn = b.conn /\ d.uv = b.uv
      /\ d.js = [b.js EXCEPT !.promise = "pending", !.pending = TRUE]
  BY <1>3 DEF States, Promises
<1> HIDE DEF d
<1>5. /\ n \in States /\ n.cc = d.cc /\ n.conn = d.conn /\ n.js = d.js
      /\ n.uv = [d.uv EXCEPT !.open = {"tcp"}]
  BY <1>4 DEF States, Loops
<1> QED BY <1>1, <1>3, <1>4, <1>5, NowIs DEF s

LEMMA ConnectTlsRefusedKeeps ==
  ASSUME IInv, ConnectTlsRefused
  PROVE  IInv'
<1> DEFINE t == [newConn(TRUE) EXCEPT !.conn.tls = "none"]
           u == closeConn(t, "tls_error")
<1>1. Good(Now) /\ conn.mem = "none" /\ Become(u) BY DEF IInv, ConnectTlsRefused
<1>2. cc \in CCs /\ conn \in Conns /\ js \in Promises /\ uv \in Loops
  BY <1>1, NowIs DEF Good, Sound, States
<1>3. /\ cc.mem = "none" /\ ~conn.connect /\ ~conn.recycling /\ ~conn.closing /\ ~conn.up
      /\ ~js.socket /\ js.closes = 0
  BY <1>1, NowIs DEF Good, Sound, Unused
<1>4. ~cc.gai_pending /\ ~cc.connect_pending /\ cc.timer_pending = FALSE /\ ~cc.resolved /\ uv.deadline = FALSE
  BY <1>2, <1>3, <1>1, NowIs DEF Good, Sound, NoConnect, CCs, Loops
<1>5. /\ newConn(TRUE) \in States /\ newConn(TRUE).cc = cc
      /\ newConn(TRUE).conn = [conn EXCEPT !.mem = "live", !.tls = IF TRUE THEN "handshake" ELSE "none"]
      /\ newConn(TRUE).js = [js EXCEPT !.promise = "pending", !.pending = TRUE]
      /\ newConn(TRUE).uv = [uv EXCEPT !.open = {"tcp"}]
  BY <1>1, NewConnIs DEF Good, Sound
<1>6. /\ t \in States /\ t.cc = cc /\ t.js = newConn(TRUE).js /\ t.uv = newConn(TRUE).uv
      /\ t.conn = [newConn(TRUE).conn EXCEPT !.tls = "none"]
  BY <1>5 DEF States, Conns
<1> HIDE DEF t
<1>7. /\ t.conn.mem = "live" /\ ~t.conn.connect /\ ~t.conn.recycling
      /\ ~t.conn.closing /\ ~t.conn.up /\ t.conn.tls = "none"
      /\ t.js.promise = "pending" /\ t.js.pending = TRUE /\ t.js.socket = FALSE /\ t.js.closes = 0
      /\ t.uv.open = {"tcp"} /\ t.uv.phase = uv.phase /\ t.uv.closing_handles = uv.closing_handles
      /\ t.uv.endgame = uv.endgame /\ t.uv.misuse = uv.misuse /\ t.uv.owed = uv.owed
      /\ t.uv.armed = uv.armed /\ t.uv.deadline = uv.deadline /\ t.conn \in Conns
  <2>1. newConn(TRUE).conn = [conn EXCEPT !.mem = "live", !.tls = "handshake"] BY <1>5
  <2>2. /\ t.conn.mem = "live" /\ ~t.conn.connect /\ ~t.conn.recycling
        /\ ~t.conn.closing /\ ~t.conn.up /\ t.conn.tls = "none" /\ t.conn \in Conns
    <3>1. t.conn = [[conn EXCEPT !.mem = "live", !.tls = "handshake"] EXCEPT !.tls = "none"] BY <1>6, <2>1
    <3> QED BY <1>2, <1>3, <3>1 DEF Conns
  <2>3. t.js.promise = "pending" /\ t.js.pending = TRUE /\ t.js.socket = FALSE /\ t.js.closes = 0
    BY <1>2, <1>3, <1>5, <1>6 DEF Promises
  <2>4. /\ t.uv.open = {"tcp"} /\ t.uv.phase = uv.phase /\ t.uv.closing_handles = uv.closing_handles
        /\ t.uv.endgame = uv.endgame /\ t.uv.misuse = uv.misuse /\ t.uv.owed = uv.owed
        /\ t.uv.armed = uv.armed /\ t.uv.deadline = uv.deadline
    <3>1. t.uv = [uv EXCEPT !.open = {"tcp"}] BY <1>5, <1>6
    <3> QED BY <1>2, <3>1 DEF Loops
  <2> QED BY <2>2, <2>3, <2>4
<1>8. Due(t) = Due(Now) BY <1>7, NowIs DEF Due
<1>9. /\ "onClose" \notin Due(t) /\ "onRetryClose" \notin Due(t) /\ "onCCClose" \notin Due(t)
      /\ "double close" \notin t.uv.misuse /\ ~t.uv.armed
      /\ "gai" \notin t.uv.owed /\ "connect" \notin t.uv.owed
  BY <1>1, <1>3, <1>4, <1>6, <1>7, <1>8, NowIs DEF Good, Sound, Handles
<1>10. TimerKept(t)
  <2>1. "timer" \notin t.uv.open BY <1>7
  <2> QED BY <1>4, <1>6, <1>9, <2>1 DEF TimerKept
<1>11. Queues(t) /\ "tcp" \in t.uv.open BY <1>1, <1>7, NowIs DEF Good, Sound, Queues
<1>12. "tls_error" \in Reasons /\ (t.conn.connect => t.cc.mem # "freed") BY <1>7 DEF Reasons
<1>13. /\ u \in States /\ Queues(u) /\ Steady(u, t) /\ TimerKept(u)
       /\ u.cc = [t.cc EXCEPT !.resolved = t.cc.resolved \/ t.conn.connect]
       /\ u.conn = [t.conn EXCEPT !.closing = TRUE, !.close_reason = "tls_error"] /\ u.js = t.js
       /\ "tcp" \notin u.uv.open
       /\ In(u.uv.closing_handles) \ {"onCCClose"}
            = (In(t.uv.closing_handles) \ {"onCCClose"}) \cup {"onClose"}
  BY ONLY <1>6, <1>7, <1>9, <1>10, <1>11, <1>12, CloseConn
<1> HIDE DEF u
<1>14. /\ u.cc.mem = "none" /\ ~u.cc.gai_pending /\ ~u.cc.connect_pending /\ u.cc.timer_pending = FALSE
       /\ ~u.cc.resolved
  <2>1. u.cc = [cc EXCEPT !.resolved = cc.resolved \/ FALSE] BY <1>3, <1>6, <1>7, <1>13
  <2> QED BY <1>2, <1>3, <1>4, <2>1 DEF CCs
<1>15. /\ u.conn.mem = "live" /\ u.conn.closing /\ ~u.conn.recycling /\ ~u.conn.connect
       /\ ~u.conn.up /\ u.conn.tls = "none" /\ u.conn.close_reason = "tls_error"
  BY <1>7, <1>13 DEF Conns
<1>16. Due(u) \ {"onCCClose"} = (Due(t) \ {"onCCClose"}) \cup {"onClose"}
  BY <1>13 DEF Due, Steady
<1>17. u.uv.owed = t.uv.owed /\ u.uv.misuse = t.uv.misuse /\ u.uv.deadline = FALSE /\ u.uv.phase = t.uv.phase
  BY <1>4, <1>7, <1>13 DEF Steady
<1>18. Handles(u)
  <2>1. "onClose" \in Due(u) BY <1>16
  <2>2. "onRetryClose" \notin Due(u)
    <3>1. "onRetryClose" \notin (Due(t) \ {"onCCClose"}) \cup {"onClose"} BY <1>9
    <3>2. "onRetryClose" \notin Due(u) \ {"onCCClose"} BY ONLY <1>16, <3>1
    <3> QED BY ONLY <3>2
  <2> QED BY ONLY <1>9, <1>13, <1>14, <1>15, <1>17, <2>1, <2>2 DEF Handles, TimerKept
<1>19. /\ Unused(u) /\ NoConnect(u) /\ Memory(u) /\ Stage(u) /\ Tries(u) /\ Reason(u) /\ Waits(u) /\ Freed(u)
  BY ONLY <1>14, <1>15, <1>17 DEF Unused, NoConnect, Memory, Stage, Tries, Reason, Waits, Freed
<1>20. Told(u) BY ONLY <1>7, <1>13, <1>15 DEF Told
<1>21. Unharmed(Now) => Unharmed(u) BY <1>7, <1>15, <1>17, NowIs DEF Unharmed, Recycled
<1>22. Keeps(u) BY <1>13, <1>18, <1>19, <1>20, <1>21 DEF Keeps, Good, Sound
<1> QED BY <1>1, <1>22, Becomes

(* The connection and the ClientConnect of a connect. *)
LEMMA NewConnectIs ==
  ASSUME Good(Now), conn.mem = "none", NEW tls \in BOOLEAN, NEW deadline \in BOOLEAN
  PROVE  LET n == newConnect(tls, deadline)
         IN Fresh(n) /\ ~n.cc.gai_pending /\ n.cc.addr_count = 0
<1> DEFINE a == newConn(tls)
           s == IF tls THEN "handshake" ELSE "none"
           o == IF deadline THEN {"tcp", "timer"} ELSE {"tcp"}
           c == [[a EXCEPT !.cc = [a.cc EXCEPT !.mem = "live"]]
                    EXCEPT !.cc = [[a EXCEPT !.cc = [a.cc EXCEPT !.mem = "live"]].cc EXCEPT !.timer_pending = deadline]]
           d == [c EXCEPT !.conn = [c.conn EXCEPT !.connect = TRUE]]
           e == [[d EXCEPT !.uv = [d.uv EXCEPT !.deadline = deadline]]
                    EXCEPT !.uv = [[d EXCEPT !.uv = [d.uv EXCEPT !.deadline = deadline]].uv EXCEPT !.armed = deadline]]
           n == [e EXCEPT !.uv = [e.uv EXCEPT !.open = o]]
<1>1. newConnect(tls, deadline) = n BY DEF newConnect
<1>2. /\ a \in States /\ a.cc = cc /\ a.conn = [conn EXCEPT !.mem = "live", !.tls = s]
      /\ a.js = [js EXCEPT !.promise = "pending", !.pending = TRUE]
      /\ a.uv = [uv EXCEPT !.open = {"tcp"}]
  BY NewConnIs DEF Good, Sound
<1>3. /\ o \in SUBSET {"tcp", "timer"} /\ "tcp" \in o /\ ("timer" \in o <=> deadline)
      /\ s \in {"none", "handshake"}
  OBVIOUS
<1>4. cc \in CCs /\ conn \in Conns /\ js \in Promises /\ uv \in Loops
  BY NowIs DEF Good, Sound, States
<1> HIDE DEF a, s, o
<1>5. /\ c \in States /\ c.conn = a.conn /\ c.js = a.js /\ c.uv = a.uv
      /\ c.cc = [cc EXCEPT !.mem = "live", !.timer_pending = deadline]
  BY <1>2 DEF States, CCs
<1> HIDE DEF c
<1>6. /\ d \in States /\ d.cc = c.cc /\ d.js = a.js /\ d.uv = a.uv /\ d.conn = [a.conn EXCEPT !.connect = TRUE]
  BY <1>5 DEF States, Conns
<1> HIDE DEF d
<1>7. /\ e \in States /\ e.cc = c.cc /\ e.conn = d.conn /\ e.js = a.js
      /\ e.uv = [a.uv EXCEPT !.deadline = deadline, !.armed = deadline]
  BY <1>6 DEF States, Loops
<1> HIDE DEF e
<1>8. /\ n \in States /\ n.cc = c.cc /\ n.conn = d.conn /\ n.js = a.js
      /\ n.uv = [e.uv EXCEPT !.open = o]
  BY <1>3, <1>7 DEF States, Loops
<1> HIDE DEF n
<1>9. /\ cc.mem = "none" /\ cc.addr_idx = 0 /\ cc.addr_count = 0 /\ ~conn.recycling /\ ~conn.closing
      /\ ~conn.up /\ ~js.socket /\ js.closes = 0 /\ uv.tried = 0
  BY NowIs DEF Good, Sound, Unused
<1>10. cc.gai_pending = FALSE /\ ~cc.connect_pending /\ ~cc.resolved
  BY <1>4, <1>9, NowIs DEF Good, Sound, NoConnect, CCs
<1>11. uv.owed = {}
  <2>1. "gai" \notin uv.owed /\ "connect" \notin uv.owed
    BY <1>10, NowIs DEF Good, Sound, Handles
  <2> QED BY <1>4, <2>1 DEF Loops
<1>12. /\ n.cc.mem = "live" /\ n.cc.timer_pending = deadline /\ n.cc.gai_pending = FALSE
       /\ ~n.cc.connect_pending /\ ~n.cc.resolved /\ n.cc.addr_idx = 0 /\ n.cc.addr_count = 0
  BY <1>4, <1>5, <1>8, <1>9, <1>10 DEF CCs
<1>13. /\ n.conn.mem = "live" /\ n.conn.tls \in {"none", "handshake"} /\ n.conn.connect
       /\ ~n.conn.recycling /\ ~n.conn.closing /\ ~n.conn.up
  BY <1>2, <1>3, <1>4, <1>6, <1>8, <1>9 DEF Conns
<1>14. n.js.promise = "pending" /\ n.js.pending = TRUE /\ n.js.socket = FALSE /\ n.js.closes = 0
  BY <1>2, <1>4, <1>8, <1>9 DEF Promises
<1>15. /\ a.uv.owed = {} /\ a.uv.tried = 0 /\ a.uv.phase = uv.phase
       /\ a.uv.closing_handles = uv.closing_handles /\ a.uv.endgame = uv.endgame
       /\ a.uv.misuse = uv.misuse /\ a.uv \in Loops
  <2>1. a.uv = [uv EXCEPT !.open = {"tcp"}] BY <1>2
  <2>2. uv.owed = {} /\ uv.tried = 0 /\ uv \in Loops BY <1>4, <1>9, <1>11
  <2>3. a.uv \in Loops BY <1>2 DEF States
  <2> QED BY ONLY <2>1, <2>2, <2>3 DEF Loops
<1>16. /\ e.uv.owed = {} /\ e.uv.tried = 0 /\ e.uv.phase = uv.phase
       /\ e.uv.closing_handles = uv.closing_handles /\ e.uv.endgame = uv.endgame
       /\ e.uv.misuse = uv.misuse /\ e.uv.deadline = deadline /\ e.uv.armed = deadline /\ e.uv \in Loops
  BY <1>7, <1>15 DEF Loops
<1>17. /\ n.uv.open = o /\ n.uv.owed = {} /\ n.uv.tried = 0 /\ n.uv.phase = uv.phase
       /\ n.uv.closing_handles = uv.closing_handles /\ n.uv.endgame = uv.endgame
       /\ n.uv.misuse = uv.misuse /\ n.uv.deadline = deadline /\ n.uv.armed = deadline
  BY <1>8, <1>16 DEF Loops
<1>18. n.uv.open = o /\ "gai" \notin n.uv.owed /\ "connect" \notin n.uv.owed BY <1>17
<1>19. Fresh(n) BY ONLY <1>3, <1>8, <1>12, <1>13, <1>14, <1>17, <1>18 DEF Fresh
<1> QED BY <1>1, <1>12, <1>19

LEMMA ConnectLiteralKeeps ==
  ASSUME IInv, NEW tls \in BOOLEAN, NEW deadline \in BOOLEAN, ConnectLiteral(tls, deadline)
  PROVE  IInv'
<1> DEFINE n == newConnect(tls, deadline)
           t == [n EXCEPT !.cc = [n.cc EXCEPT !.addr_count = 1]]
<1>1. Good(Now) /\ conn.mem = "none" BY DEF IInv, ConnectLiteral
<1>2. Fresh(n) /\ ~n.cc.gai_pending BY <1>1, NewConnectIs
<1> HIDE DEF n
<1>3. /\ t \in States /\ t.cc = [n.cc EXCEPT !.addr_count = 1]
      /\ t.conn = n.conn /\ t.js = n.js /\ t.uv = n.uv
  <2>1. 1 \in 0..MaxAddrs /\ n \in States BY <1>2, MaxAddrsAssumption DEF Fresh
  <2> QED BY ONLY <2>1 DEF States, CCs
<1> HIDE DEF t
<1>4. /\ t.cc.mem = n.cc.mem /\ t.cc.timer_pending = n.cc.timer_pending
      /\ t.cc.gai_pending = n.cc.gai_pending /\ t.cc.connect_pending = n.cc.connect_pending
      /\ t.cc.resolved = n.cc.resolved /\ t.cc.addr_idx = n.cc.addr_idx /\ t.cc.addr_count = 1
  BY <1>2, <1>3 DEF Fresh, States, CCs
<1>5. Fresh(t) BY ONLY <1>2, <1>3, <1>4 DEF Fresh
<1>6. Idle(t) /\ (Unharmed(Now) => Unharmed(t)) BY ONLY <1>1, <1>2, <1>4, <1>5, FreshSound
<1>7. PICK accepted \in Accepts : Become(startConnect(t, accepted)) BY DEF ConnectLiteral, t, n
<1>8. accepted \in BOOLEAN /\ (~SyncFail => accepted) BY DEF Accepts
<1>9. t.cc.addr_idx < t.cc.addr_count /\ t.uv.tried = t.cc.addr_idx BY <1>4, <1>5 DEF Fresh
<1>10. Good(startConnect(t, accepted)) /\ (Unharmed(t) /\ accepted => Unharmed(startConnect(t, accepted)))
  BY ONLY <1>6, <1>8, <1>9, StartConnect
<1>11. Keeps(startConnect(t, accepted)) BY <1>6, <1>8, <1>10 DEF Keeps
<1> QED BY <1>7, <1>11, Becomes

LEMMA ConnectNameKeeps ==
  ASSUME IInv, NEW tls \in BOOLEAN, NEW deadline \in BOOLEAN, ConnectName(tls, deadline)
  PROVE  IInv'
<1> DEFINE n == newConnect(tls, deadline)
           t == [n EXCEPT !.cc = [n.cc EXCEPT !.gai_pending = TRUE], !.uv = [n.uv EXCEPT !.owed = {"gai"}]]
           u == abortConnect(n, "dns")
<1>1. Good(Now) /\ conn.mem = "none" BY DEF IInv, ConnectName
<1>2. Fresh(n) /\ ~n.cc.gai_pending /\ n.cc.addr_count = 0 BY <1>1, NewConnectIs
<1>3. Become(t) \/ Become(u) BY DEF ConnectName
<1> HIDE DEF u, n
<1>4. CASE Become(t)
  <2>1. n \in States BY <1>2 DEF Fresh
  <2>2. /\ t \in States /\ t.cc = [n.cc EXCEPT !.gai_pending = TRUE]
        /\ t.conn = n.conn /\ t.js = n.js /\ t.uv = [n.uv EXCEPT !.owed = {"gai"}]
    BY ONLY <2>1 DEF States, CCs, Loops
  <2> HIDE DEF t
  <2>3. /\ t.cc.mem = n.cc.mem /\ t.cc.timer_pending = n.cc.timer_pending /\ t.cc.gai_pending
        /\ t.cc.connect_pending = n.cc.connect_pending
        /\ t.cc.resolved = n.cc.resolved /\ t.cc.addr_idx = n.cc.addr_idx /\ t.cc.addr_count = 0
    BY <1>2, <2>1, <2>2 DEF States, CCs
  <2>4. /\ t.uv.open = n.uv.open /\ "gai" \in t.uv.owed /\ "connect" \notin t.uv.owed
        /\ t.uv.tried = n.uv.tried /\ t.uv.phase = n.uv.phase
        /\ t.uv.closing_handles = n.uv.closing_handles /\ t.uv.endgame = n.uv.endgame
        /\ t.uv.misuse = n.uv.misuse /\ t.uv.deadline = n.uv.deadline /\ t.uv.armed = n.uv.armed
    <3>1. n.uv \in Loops /\ t.uv = [n.uv EXCEPT !.owed = {"gai"}] BY <2>1, <2>2 DEF States
    <3>2. t.uv.owed = {"gai"} BY ONLY <3>1 DEF Loops
    <3>3. "gai" \in t.uv.owed /\ "connect" \notin t.uv.owed BY ONLY <3>2
    <3>4. /\ t.uv.open = n.uv.open
          /\ t.uv.tried = n.uv.tried /\ t.uv.phase = n.uv.phase
          /\ t.uv.closing_handles = n.uv.closing_handles /\ t.uv.endgame = n.uv.endgame
          /\ t.uv.misuse = n.uv.misuse /\ t.uv.deadline = n.uv.deadline /\ t.uv.armed = n.uv.armed
      BY ONLY <3>1 DEF Loops
    <3> QED BY ONLY <3>3, <3>4
  <2>5. Fresh(t) BY ONLY <1>2, <2>2, <2>3, <2>4 DEF Fresh
  <2>6. Good(t) /\ (Unharmed(Now) => Unharmed(t)) BY ONLY <1>1, <2>3, <2>5, FreshSound
  <2>7. Keeps(t) BY <2>6 DEF Keeps
  <2> QED BY <1>4, <2>7, Becomes
<1>5. CASE Become(u)
  <2>1. Undecided(n) /\ (Unharmed(Now) => Unharmed(n)) BY ONLY <1>1, <1>2, FreshSound
  <2>2. "dns" \in {"refused", "dns", "timeout"} /\ n.uv.tried = 0 /\ ~n.conn.recycling BY <1>2 DEF Reasons, Fresh
  <2>3. Good(u) /\ (Unharmed(n) /\ ~n.conn.recycling => Unharmed(u))
    BY ONLY <2>1, <2>2, Abort DEF u
  <2>4. Keeps(u) BY <2>1, <2>2, <2>3 DEF Keeps
  <2> QED BY <1>5, <2>4, Becomes
<1> QED BY <1>3, <1>4, <1>5

(* A connect whose ClientConnect is not decided is under way. *)
LEMMA NotResolved ==
  ASSUME NEW t, Sound(t), t.cc.mem # "none", ~t.cc.resolved
  PROVE  t.conn.mem = "live" /\ ~t.conn.closing /\ t.conn.connect /\ Undecided(t)
<1>1. t.conn.mem \in {"none", "live", "released"} BY DEF Sound, States, Conns
<1>2. t.conn.mem # "none" BY DEF Sound, Unused
<1> QED BY <1>1, <1>2 DEF Sound, Stage, Undecided

(* The resolver's answer is taken. *)
LEMMA Answered ==
  ASSUME Good(Now), "gai" \in uv.owed
  PROVE  LET t == touch([Now EXCEPT !.cc.gai_pending = FALSE, !.uv.owed = @ \ {"gai"}])
         IN /\ Sound(t) /\ t.cc.mem = "live" /\ t.cc.resolved = cc.resolved
            /\ cc.resolved => Waits(t)
            /\ ~cc.resolved => Idle(t) /\ t.uv.tried = 0 /\ t.cc.addr_idx = 0
            /\ Unharmed(Now) => Unharmed(t) /\ ~t.conn.recycling
<1> DEFINE t == [Now EXCEPT !.cc = [Now.cc EXCEPT !.gai_pending = FALSE],
                            !.uv = [Now.uv EXCEPT !.owed = Now.uv.owed \ {"gai"}]]
<1>1. /\ Now \in States /\ Sound(Now) /\ cc \in CCs /\ uv \in Loops BY NowIs DEF Good, Sound, States
<1>2. cc.gai_pending BY <1>1, NowIs DEF Sound, Handles
<1>3. cc.mem = "live" BY <1>1, <1>2, NowIs DEF Sound, NoConnect, Memory, CCs
<1>4. /\ t \in States /\ t.cc = [cc EXCEPT !.gai_pending = FALSE]
      /\ t.conn = conn /\ t.js = js /\ t.uv = [uv EXCEPT !.owed = uv.owed \ {"gai"}]
  BY <1>1, NowIs DEF States, CCs, Loops
<1> HIDE DEF t
<1>5. /\ t.cc.mem = "live" /\ ~t.cc.gai_pending /\ t.cc.connect_pending = cc.connect_pending
      /\ t.cc.timer_pending = cc.timer_pending /\ t.cc.resolved = cc.resolved
      /\ t.cc.addr_idx = cc.addr_idx /\ t.cc.addr_count = cc.addr_count
  BY <1>1, <1>3, <1>4 DEF CCs
<1>6. /\ t.uv.phase = uv.phase /\ t.uv.closing_handles = uv.closing_handles /\ t.uv.endgame = uv.endgame
      /\ t.uv.open = uv.open /\ t.uv.owed = uv.owed \ {"gai"} /\ t.uv.deadline = uv.deadline
      /\ t.uv.armed = uv.armed /\ t.uv.expired = uv.expired /\ t.uv.tried = uv.tried
      /\ t.uv.misuse = uv.misuse
  <2>1. uv \in Loops /\ t.uv = [uv EXCEPT !.owed = uv.owed \ {"gai"}] BY <1>1, <1>4
  <2>2. t.uv.owed = uv.owed \ {"gai"} BY ONLY <2>1 DEF Loops
  <2>3. /\ t.uv.phase = uv.phase /\ t.uv.closing_handles = uv.closing_handles /\ t.uv.endgame = uv.endgame
        /\ t.uv.open = uv.open /\ t.uv.deadline = uv.deadline
        /\ t.uv.armed = uv.armed /\ t.uv.expired = uv.expired /\ t.uv.tried = uv.tried
        /\ t.uv.misuse = uv.misuse
    BY ONLY <2>1 DEF Loops
  <2> QED BY ONLY <2>2, <2>3
<1>7. touch(t) = t BY <1>5 DEF touch
<1>8. Due(t) = Due(Now) BY <1>6, NowIs DEF Due
<1>9. Handles(t)
  <2>1. Handles(Now) BY <1>1 DEF Sound
  <2>2. "gai" \notin t.uv.owed /\ ("connect" \in t.uv.owed <=> "connect" \in uv.owed) BY <1>6
  <2> QED BY ONLY <1>4, <1>5, <1>6, <1>8, <2>1, <2>2, NowIs DEF Handles
<1>10. Unused(t) /\ NoConnect(t) /\ Memory(t) /\ Stage(t) /\ Tries(t) /\ Reason(t)
  BY ONLY <1>1, <1>2, <1>4, <1>5, <1>6, NowIs DEF Sound, Unused, NoConnect, Memory, Stage, Tries, Reason
<1>11. Queues(t) /\ Told(t) BY ONLY <1>1, <1>4, <1>6, NowIs DEF Sound, Queues, Told
<1>12. Sound(t) BY <1>4, <1>9, <1>10, <1>11 DEF Sound
<1>13. ~t.cc.connect_pending /\ ~t.conn.recycling /\ ~t.conn.up
  BY <1>1, <1>2, <1>4, <1>5, NowIs DEF Sound, Stage
<1>14. cc.resolved => Waits(t)
  BY <1>10, <1>5 DEF Waits, Stage
<1>15. ~cc.resolved => Idle(t)
  <2>1. ~cc.resolved => Undecided(t) BY <1>5, <1>12, NotResolved
  <2> QED BY <1>5, <1>13, <2>1 DEF Idle
<1>16. ~cc.resolved => t.uv.tried = 0 /\ t.cc.addr_idx = 0
  BY <1>1, <1>2, <1>5, <1>6, NowIs DEF Sound, Tries
<1>17. Unharmed(Now) => Unharmed(t) BY <1>6, <1>13, NowIs DEF Unharmed, Recycled
<1> QED BY <1>5, <1>7, <1>12, <1>13, <1>14, <1>15, <1>16, <1>17 DEF t

LEMMA ResolveKeeps ==
  ASSUME IInv, NEW found \in Answers, onResolve(found)
  PROVE  IInv'
<1> DEFINE t == touch([Now EXCEPT !.cc.gai_pending = FALSE, !.uv.owed = @ \ {"gai"}])
           s == [t EXCEPT !.cc = [t.cc EXCEPT !.addr_count = collect(found)]]
<1>1. Good(Now) /\ "gai" \in uv.owed BY DEF IInv, onResolve
<1>2. /\ Sound(t) /\ t.cc.mem = "live" /\ t.cc.resolved = cc.resolved
      /\ cc.resolved => Waits(t)
      /\ ~cc.resolved => Idle(t) /\ t.uv.tried = 0 /\ t.cc.addr_idx = 0
      /\ Unharmed(Now) => Unharmed(t) /\ ~t.conn.recycling
  BY <1>1, Answered
<1>3. \/ cc.resolved /\ Become(ccMaybeFree(t))
      \/ ~cc.resolved /\ Become(abortConnect(t, "dns"))
      \/ ~cc.resolved /\ found > 0 /\ \E accepted \in Accepts : Become(startConnect(s, accepted))
  BY DEF onResolve
<1> HIDE DEF t
<1>4. CASE cc.resolved /\ Become(ccMaybeFree(t))
  <2> DEFINE u == ccMaybeFree(t)
  <2>1. /\ Sound(u) /\ Freed(u)
        /\ u.conn = t.conn /\ u.js = t.js /\ u.uv = t.uv
        /\ Waits(t) => Waits(u)
        /\ Unharmed(t) => Unharmed(u)
    <3>1. Sound(t) /\ t.cc.resolved /\ t.cc.mem = "live" BY <1>2, <1>4
    <3> QED BY ONLY <3>1, MaybeFree
  <2>2. Keeps(u) BY <1>2, <1>4, <2>1 DEF Keeps, Good
  <2> QED BY <1>4, <2>2, Becomes
<1>5. CASE ~cc.resolved /\ Become(abortConnect(t, "dns"))
  <2> DEFINE u == abortConnect(t, "dns")
  <2>1. Undecided(t) /\ t.uv.tried = 0 /\ "dns" \in {"refused", "dns", "timeout"} BY <1>2, <1>5 DEF Idle
  <2>2. Good(u) /\ (Unharmed(t) /\ ~t.conn.recycling => Unharmed(u)) BY ONLY <2>1, Abort
  <2>3. Keeps(u) BY <1>2, <2>2 DEF Keeps
  <2> QED BY <1>5, <2>3, Becomes
<1>6. CASE ~cc.resolved /\ found > 0 /\ \E accepted \in Accepts : Become(startConnect(s, accepted))
  <2>1. PICK accepted \in Accepts : Become(startConnect(s, accepted)) BY <1>6
  <2>2. accepted \in BOOLEAN /\ (~SyncFail => accepted) BY DEF Accepts
  <2>3. collect(found) \in 1..MaxAddrs BY <1>6, MaxAddrsAssumption DEF Answers, collect
  <2>4. t \in States BY <1>2 DEF Sound
  <2>5. /\ s \in States /\ s.cc = [t.cc EXCEPT !.addr_count = collect(found)]
        /\ s.conn = t.conn /\ s.js = t.js /\ s.uv = t.uv
    BY ONLY <2>3, <2>4, MaxAddrsAssumption DEF States, CCs
  <2> HIDE DEF s
  <2>6. /\ s.cc.mem = t.cc.mem /\ s.cc.timer_pending = t.cc.timer_pending
        /\ s.cc.gai_pending = t.cc.gai_pending /\ s.cc.connect_pending = t.cc.connect_pending
        /\ s.cc.resolved = t.cc.resolved /\ s.cc.addr_idx = t.cc.addr_idx /\ s.cc.addr_count = collect(found)
    BY ONLY <2>4, <2>5 DEF States, CCs
  <2>7. Idle(t) /\ t.uv.tried = 0 /\ t.cc.addr_idx = 0 BY <1>2, <1>6
  <2>8. Idle(s)
    <3>1. Due(s) = Due(t) BY <2>5 DEF Due
    <3>2. Sound(t) /\ t.conn.mem = "live" /\ ~t.conn.closing BY <2>7 DEF Idle, Undecided
    <3>3. Handles(s) BY ONLY <2>5, <2>6, <3>1, <3>2 DEF Sound, Handles
    <3>4. Unused(s) /\ NoConnect(s) /\ Memory(s) /\ Stage(s) /\ Reason(s)
      BY ONLY <2>5, <2>6, <3>2 DEF Sound, Unused, NoConnect, Memory, Stage, Reason
    <3>5. Queues(s) /\ Told(s) BY ONLY <2>5, <3>2 DEF Sound, Queues, Told
    <3>6. Tries(s) BY ONLY <2>5, <2>6, <2>7 DEF Idle, Tries
    <3> QED BY ONLY <2>5, <2>6, <2>7, <3>3, <3>4, <3>5, <3>6 DEF Idle, Undecided, Sound
  <2>9. s.cc.addr_idx < s.cc.addr_count /\ s.uv.tried = s.cc.addr_idx BY <2>3, <2>5, <2>6, <2>7, MaxAddrsAssumption
  <2> DEFINE u == startConnect(s, accepted)
  <2>10. Good(u) /\ (Unharmed(s) /\ accepted => Unharmed(u)) BY ONLY <2>2, <2>8, <2>9, StartConnect
  <2>11. Unharmed(t) => Unharmed(s) BY <2>5, <2>6 DEF Unharmed, Recycled
  <2>12. Keeps(u) BY <1>2, <2>2, <2>10, <2>11 DEF Keeps
  <2> QED BY <2>1, <2>12, Becomes
<1> QED BY <1>3, <1>4, <1>5, <1>6

(* The kernel's answer to a connect is taken. *)
LEMMA Connected ==
  ASSUME Good(Now), ConnectAnswers
  PROVE  /\ Undecided(Now) /\ cc.mem = "live" /\ ~cc.resolved /\ cc.connect_pending /\ ~cc.gai_pending
         /\ ~conn.recycling /\ ~conn.up /\ conn.tls \in {"none", "handshake"}
         /\ cc.addr_idx < cc.addr_count /\ uv.tried = cc.addr_idx + 1
<1>1. Sound(Now) /\ "connect" \in uv.owed /\ "tcp" \in uv.open BY DEF Good, ConnectAnswers
<1>2. /\ cc.connect_pending /\ conn.mem = "live" /\ ~conn.closing /\ ~conn.recycling
  BY <1>1, NowIs DEF Sound, Handles
<1>3. ~conn.up /\ ~cc.gai_pending BY <1>1, <1>2, NowIs DEF Sound, Stage
<1>4. conn.connect BY <1>1, <1>2, <1>3, NowIs DEF Sound, Stage
<1>5. Undecided(Now) BY <1>1, <1>2, <1>4, NowIs DEF Undecided
<1>6. cc.mem = "live" /\ ~cc.resolved BY <1>5, UndecidedIsLive, NowIs
<1>7. cc.addr_idx < cc.addr_count /\ uv.tried = cc.addr_idx + 1
  BY <1>1, <1>2, <1>6, NowIs DEF Sound, Tries
<1>8. conn.tls \in {"none", "handshake"}
  BY <1>1, <1>2, <1>3, NowIs DEF Sound, Told, States, Conns
<1> QED BY <1>2, <1>3, <1>5, <1>6, <1>7, <1>8

LEMMA ConnectFailedKeeps ==
  ASSUME IInv, onConnectFailed
  PROVE  IInv'
<1> DEFINE t == [Now EXCEPT !.cc = [Now.cc EXCEPT !.connect_pending = FALSE],
                            !.uv = [Now.uv EXCEPT !.owed = Now.uv.owed \ {"connect"}]]
           u == nextAddrOrFail(t)
<1>1. Good(Now) /\ uv.phase = "poll" /\ ConnectAnswers /\ Become(connectFailed(Now))
  BY DEF IInv, onConnectFailed, ConnectAnswers
<1>2. /\ Undecided(Now) /\ cc.mem = "live" /\ ~cc.resolved /\ cc.connect_pending /\ ~cc.gai_pending
      /\ ~conn.recycling /\ ~conn.up
      /\ cc.addr_idx < cc.addr_count /\ uv.tried = cc.addr_idx + 1
  BY <1>1, Connected
<1>3. /\ Now \in States /\ Sound(Now) /\ cc \in CCs /\ uv \in Loops BY <1>1, NowIs DEF Good, Sound, States
<1>4. /\ t \in States /\ t.cc = [cc EXCEPT !.connect_pending = FALSE]
      /\ t.conn = conn /\ t.js = js /\ t.uv = [uv EXCEPT !.owed = uv.owed \ {"connect"}]
  BY <1>3, NowIs DEF States, CCs, Loops
<1> HIDE DEF t
<1>5. /\ t.cc.mem = "live" /\ ~t.cc.gai_pending /\ ~t.cc.connect_pending
      /\ t.cc.timer_pending = cc.timer_pending /\ ~t.cc.resolved
      /\ t.cc.addr_idx = cc.addr_idx /\ t.cc.addr_count = cc.addr_count
  BY <1>2, <1>3, <1>4 DEF CCs
<1>6. /\ t.uv.phase = uv.phase /\ t.uv.closing_handles = uv.closing_handles /\ t.uv.endgame = uv.endgame
      /\ t.uv.open = uv.open /\ t.uv.owed = uv.owed \ {"connect"} /\ t.uv.deadline = uv.deadline
      /\ t.uv.armed = uv.armed /\ t.uv.expired = uv.expired /\ t.uv.tried = uv.tried
      /\ t.uv.misuse = uv.misuse
  <2>1. uv \in Loops /\ t.uv = [uv EXCEPT !.owed = uv.owed \ {"connect"}] BY <1>3, <1>4
  <2>2. t.uv.owed = uv.owed \ {"connect"} BY ONLY <2>1 DEF Loops
  <2>3. /\ t.uv.phase = uv.phase /\ t.uv.closing_handles = uv.closing_handles /\ t.uv.endgame = uv.endgame
        /\ t.uv.open = uv.open /\ t.uv.deadline = uv.deadline
        /\ t.uv.armed = uv.armed /\ t.uv.expired = uv.expired /\ t.uv.tried = uv.tried
        /\ t.uv.misuse = uv.misuse
    BY ONLY <2>1 DEF Loops
  <2> QED BY ONLY <2>2, <2>3
<1>7. u = connectFailed(Now)
  <2>1. touch(t) = t BY <1>5 DEF touch
  <2> QED BY <1>5, <2>1 DEF connectFailed, t
<1>8. Due(t) = Due(Now) BY <1>6, NowIs DEF Due
<1>9. Handles(t)
  <2>1. Handles(Now) BY <1>3 DEF Sound
  <2>2. "connect" \notin t.uv.owed /\ ("gai" \in t.uv.owed <=> "gai" \in uv.owed) BY <1>6
  <2> QED BY ONLY <1>2, <1>4, <1>5, <1>6, <1>8, <2>1, <2>2, NowIs DEF Handles
<1>10. Unused(t) /\ NoConnect(t) /\ Memory(t) /\ Stage(t) /\ Tries(t) /\ Reason(t)
  BY ONLY <1>2, <1>3, <1>4, <1>5, <1>6, NowIs DEF Sound, Unused, NoConnect, Memory, Stage, Tries, Reason
<1>11. Queues(t) /\ Told(t) BY ONLY <1>3, <1>4, <1>6, NowIs DEF Sound, Queues, Told
<1>12. Idle(t)
  BY <1>2, <1>4, <1>5, <1>9, <1>10, <1>11, NowIs DEF Idle, Undecided, Sound
<1>13. t.cc.addr_idx < t.cc.addr_count /\ t.uv.tried = t.cc.addr_idx + 1 BY <1>2, <1>5, <1>6
<1>14. Good(u) /\ (Unharmed(t) /\ t.uv.phase = "poll" => Unharmed(u))
  BY ONLY <1>12, <1>13, NextAddr
<1>15. Unharmed(Now) => Unharmed(t) BY <1>2, <1>4, <1>6, NowIs DEF Unharmed, Recycled
<1>16. Keeps(u) BY <1>1, <1>6, <1>14, <1>15 DEF Keeps
<1> QED BY <1>1, <1>7, <1>16, Becomes

(* The connection is up, and nothing else is decided. *)
LEMMA ConnectionUpIs ==
  ASSUME Good(Now), ConnectAnswers
  PROVE  LET t == ConnectionUp
         IN /\ t \in States /\ Queues(t) /\ TimerKept(t)
            /\ t.cc = [cc EXCEPT !.connect_pending = FALSE]
            /\ t.conn = [conn EXCEPT !.up = TRUE] /\ t.js = js
            /\ t.uv = [uv EXCEPT !.owed = uv.owed \ {"connect"}]
            /\ t.cc.mem = "live" /\ t.conn.connect
            /\ conn.tls # "none" => Good(t) /\ t.conn.mem = "live" /\ ~t.conn.closing /\ ~t.conn.recycling
            /\ Unharmed(Now) => Unharmed(t)
<1> DEFINE t == [Now EXCEPT !.cc = [Now.cc EXCEPT !.connect_pending = FALSE],
                            !.uv = [Now.uv EXCEPT !.owed = Now.uv.owed \ {"connect"}],
                            !.conn = [Now.conn EXCEPT !.up = TRUE]]
<1>1. /\ Undecided(Now) /\ cc.mem = "live" /\ ~cc.resolved /\ cc.connect_pending /\ ~cc.gai_pending
      /\ ~conn.recycling /\ ~conn.up /\ conn.tls \in {"none", "handshake"}
  BY Connected
<1>2. /\ Now \in States /\ Sound(Now) /\ cc \in CCs /\ uv \in Loops /\ conn \in Conns
      /\ conn.mem = "live" /\ ~conn.closing /\ conn.connect
  BY <1>1, NowIs DEF Undecided, Sound, States
<1>3. /\ t \in States /\ t.cc = [cc EXCEPT !.connect_pending = FALSE]
      /\ t.conn = [conn EXCEPT !.up = TRUE] /\ t.js = js
      /\ t.uv = [uv EXCEPT !.owed = uv.owed \ {"connect"}]
  BY <1>2, NowIs, ZenonT(60) DEF States, CCs, Loops, Conns
<1> HIDE DEF t
<1>4. /\ t.cc.mem = "live" /\ ~t.cc.gai_pending /\ ~t.cc.connect_pending
      /\ t.cc.timer_pending = cc.timer_pending /\ ~t.cc.resolved
      /\ t.cc.addr_idx = cc.addr_idx /\ t.cc.addr_count = cc.addr_count
  BY <1>1, <1>2, <1>3 DEF CCs
<1>5. /\ t.uv.phase = uv.phase /\ t.uv.closing_handles = uv.closing_handles /\ t.uv.endgame = uv.endgame
      /\ t.uv.open = uv.open /\ t.uv.owed = uv.owed \ {"connect"} /\ t.uv.deadline = uv.deadline
      /\ t.uv.armed = uv.armed /\ t.uv.expired = uv.expired /\ t.uv.tried = uv.tried
      /\ t.uv.misuse = uv.misuse
  <2>1. uv \in Loops /\ t.uv = [uv EXCEPT !.owed = uv.owed \ {"connect"}] BY <1>2, <1>3
  <2>2. t.uv.owed = uv.owed \ {"connect"} BY ONLY <2>1 DEF Loops
  <2>3. /\ t.uv.phase = uv.phase /\ t.uv.closing_handles = uv.closing_handles /\ t.uv.endgame = uv.endgame
        /\ t.uv.open = uv.open /\ t.uv.deadline = uv.deadline
        /\ t.uv.armed = uv.armed /\ t.uv.expired = uv.expired /\ t.uv.tried = uv.tried
        /\ t.uv.misuse = uv.misuse
    BY ONLY <2>1 DEF Loops
  <2> QED BY ONLY <2>2, <2>3
<1>6. /\ t.conn.mem = "live" /\ ~t.conn.closing /\ t.conn.connect /\ ~t.conn.recycling /\ t.conn.up
      /\ t.conn.tls = conn.tls /\ t.conn.close_reason = conn.close_reason
  BY <1>1, <1>2, <1>3 DEF Conns
<1>7. ConnectionUp = t
  <2>1. touch(t) = t BY <1>4 DEF touch
  <2> QED BY <2>1 DEF ConnectionUp, t
<1>8. Due(t) = Due(Now) BY <1>5, NowIs DEF Due
<1>9. Handles(t)
  <2>1. Handles(Now) BY <1>2 DEF Sound
  <2>2. "connect" \notin t.uv.owed /\ ("gai" \in t.uv.owed <=> "gai" \in uv.owed) BY <1>5
  <2> QED BY ONLY <1>1, <1>2, <1>4, <1>5, <1>6, <1>8, <2>1, <2>2, NowIs DEF Handles
<1>10. Unused(t) /\ NoConnect(t) /\ Memory(t) /\ Tries(t) /\ Reason(t)
  BY ONLY <1>1, <1>2, <1>4, <1>5, <1>6, NowIs DEF Sound, Unused, NoConnect, Memory, Tries, Reason
<1>11. Queues(t) BY ONLY <1>2, <1>5, NowIs DEF Sound, Queues
<1>12. conn.tls # "none" => Good(t)
  <2> SUFFICES ASSUME conn.tls # "none" PROVE Good(t)
    OBVIOUS
  <2>1. t.conn.tls = "handshake" BY <1>1, <1>6
  <2>2. Told(t) BY ONLY <1>2, <1>3, <1>6, <2>1, NowIs DEF Sound, Told
  <2>3. Stage(t) /\ Waits(t) /\ Freed(t) BY ONLY <1>4, <1>6 DEF Stage, Waits, Freed
  <2> QED BY <1>3, <1>9, <1>10, <1>11, <2>2, <2>3 DEF Good, Sound
<1>13. Unharmed(Now) => Unharmed(t) BY <1>5, <1>6, NowIs DEF Unharmed, Recycled
<1>14. TimerKept(t) BY <1>9 DEF Handles, TimerKept
<1> QED BY <1>3, <1>4, <1>6, <1>7, <1>11, <1>12, <1>13, <1>14 DEF t

(* JavaScript is told of the connection. *)
LEMMA ConnectionTold ==
  ASSUME NEW t \in States, t.js.promise = "pending"
  PROVE  LET u == dispatch(t, "connection")
         IN /\ u \in States /\ u.cc = t.cc /\ u.conn = t.conn /\ u.uv = t.uv
            /\ u.js = [t.js EXCEPT !.promise = "resolved", !.pending = FALSE, !.socket = TRUE]
<1> DEFINE a == [t EXCEPT !.js = [t.js EXCEPT !.pending = FALSE]]
           b == [a EXCEPT !.js = [a.js EXCEPT !.socket = TRUE]]
           u == dispatch(t, "connection")
<1>1. u = settle(b, "resolved") BY DEF dispatch
<1> HIDE DEF u
<1>2. /\ a \in States /\ a.cc = t.cc /\ a.conn = t.conn /\ a.uv = t.uv /\ a.js = [t.js EXCEPT !.pending = FALSE]
  BY DEF States, Promises
<1> HIDE DEF a
<1>3. /\ b \in States /\ b.cc = t.cc /\ b.conn = t.conn /\ b.uv = t.uv /\ b.js = [a.js EXCEPT !.socket = TRUE]
  BY <1>2 DEF States, Promises
<1> HIDE DEF b
<1>4. t.js \in Promises BY DEF States
<1>5. b.js.promise = "pending" BY <1>2, <1>3, <1>4 DEF Promises
<1>6. u = [b EXCEPT !.js = [b.js EXCEPT !.promise = "resolved"]] BY <1>1, <1>5 DEF settle
<1>7. /\ u \in States /\ u.cc = b.cc /\ u.conn = b.conn /\ u.uv = b.uv
      /\ u.js = [b.js EXCEPT !.promise = "resolved"]
  BY <1>3, <1>6 DEF States, Promises
<1>8. u.js = [t.js EXCEPT !.promise = "resolved", !.pending = FALSE, !.socket = TRUE]
  BY <1>2, <1>3, <1>4, <1>7, ZenonT(60) DEF Promises
<1> QED BY <1>3, <1>7, <1>8 DEF u

LEMMA ConnectKeeps ==
  ASSUME IInv, onConnect
  PROVE  IInv'
<1> DEFINE t == ConnectionUp
<1>1. Good(Now) /\ ConnectAnswers BY DEF IInv, onConnect
<1>2. /\ t \in States /\ Queues(t) /\ TimerKept(t)
      /\ t.cc = [cc EXCEPT !.connect_pending = FALSE]
      /\ t.conn = [conn EXCEPT !.up = TRUE] /\ t.js = js
      /\ t.uv = [uv EXCEPT !.owed = uv.owed \ {"connect"}]
      /\ t.cc.mem = "live" /\ t.conn.connect
      /\ conn.tls # "none" => Good(t) /\ t.conn.mem = "live" /\ ~t.conn.closing /\ ~t.conn.recycling
      /\ Unharmed(Now) => Unharmed(t)
  BY <1>1, ConnectionUpIs
<1>3. /\ Undecided(Now) /\ cc.mem = "live" /\ ~cc.resolved /\ cc.connect_pending /\ ~cc.gai_pending
      /\ ~conn.recycling
  BY <1>1, Connected
<1>4. /\ cc \in CCs /\ conn \in Conns /\ uv \in Loops /\ js.promise = "pending"
  BY <1>3, UndecidedIsLive, NowIs DEF States
<1> HIDE DEF t
<1>5. CASE conn.tls = "none" /\ Become(resolveConnect(dispatch(t, "connection")))
  <2> DEFINE d == dispatch(t, "connection")
             u == resolveConnect(d)
  <2>1. /\ d \in States /\ d.cc = t.cc /\ d.conn = t.conn /\ d.uv = t.uv
        /\ d.js = [js EXCEPT !.promise = "resolved", !.pending = FALSE, !.socket = TRUE]
    BY <1>2, <1>4, ConnectionTold
  <2> HIDE DEF d
  <2>2. Queues(d) /\ TimerKept(d) /\ d.conn.connect /\ d.cc.mem = "live"
    BY <1>2, <2>1 DEF Queues, TimerKept, Due
  <2>3. /\ u \in States /\ Queues(u) /\ Steady(u, d) /\ TimerKept(u)
        /\ u.cc = [d.cc EXCEPT !.resolved = TRUE,
                      !.mem = IF d.cc.gai_pending \/ d.cc.connect_pending \/ d.cc.timer_pending
                              THEN "live" ELSE "freed"]
        /\ u.conn = [d.conn EXCEPT !.connect = FALSE] /\ u.js = d.js
        /\ "tcp" \in u.uv.open <=> "tcp" \in d.uv.open
        /\ In(u.uv.closing_handles) \ {"onCCClose"} = In(d.uv.closing_handles) \ {"onCCClose"}
    BY ONLY <2>1, <2>2, ResolveConnect
  <2> HIDE DEF u
  <2>4. u.cc = [cc EXCEPT !.connect_pending = FALSE, !.resolved = TRUE,
                          !.mem = IF cc.timer_pending THEN "live" ELSE "freed"]
    <3>1. d.cc = [cc EXCEPT !.connect_pending = FALSE] BY <1>2, <2>1
    <3>2. ~d.cc.gai_pending /\ ~d.cc.connect_pending /\ d.cc.timer_pending = cc.timer_pending
      BY <1>3, <1>4, <3>1 DEF CCs
    <3>3. (IF d.cc.gai_pending \/ d.cc.connect_pending \/ d.cc.timer_pending THEN "live" ELSE "freed")
            = (IF cc.timer_pending THEN "live" ELSE "freed")
      BY <3>2
    <3>4. u.cc = [d.cc EXCEPT !.resolved = TRUE, !.mem = IF cc.timer_pending THEN "live" ELSE "freed"]
      BY <2>3, <3>3
    <3> QED BY ONLY <1>4, <3>1, <3>4 DEF CCs
  <2>5. u.conn = [conn EXCEPT !.connect = FALSE, !.up = TRUE, !.tls = "none"]
    <3>1. u.conn = [[conn EXCEPT !.up = TRUE] EXCEPT !.connect = FALSE] BY <1>2, <2>1, <2>3
    <3> QED BY <1>4, <1>5, <3>1 DEF Conns
  <2>6. /\ t.uv.phase = uv.phase /\ t.uv.endgame = uv.endgame /\ t.uv.deadline = uv.deadline
        /\ t.uv.tried = uv.tried /\ t.uv.misuse = uv.misuse /\ t.uv.open = uv.open
        /\ t.uv.closing_handles = uv.closing_handles
    BY ONLY <1>2, <1>4 DEF Loops
  <2>7. t.uv.owed = uv.owed \ {"connect"} BY ONLY <1>2, <1>4 DEF Loops
  <2>8. /\ u.uv.phase = uv.phase /\ u.uv.endgame = uv.endgame /\ u.uv.deadline = uv.deadline
        /\ u.uv.tried = uv.tried /\ u.uv.misuse = uv.misuse /\ u.uv.owed = uv.owed \ {"connect"}
        /\ "tcp" \in u.uv.open <=> "tcp" \in uv.open
        /\ In(u.uv.closing_handles) \ {"onCCClose"} = In(uv.closing_handles) \ {"onCCClose"}
    BY <2>1, <2>3, <2>6, <2>7 DEF Steady
  <2>9. u.js = [js EXCEPT !.promise = "resolved", !.pending = FALSE, !.socket = TRUE] BY <2>1, <2>3
  <2>10. "none" \in {"none", "established"} OBVIOUS
  <2>11. Good(u) /\ (Unharmed(Now) => Unharmed(u))
    BY ONLY <1>3, <2>3, <2>4, <2>5, <2>8, <2>9, <2>10, NowIs, SettledSound
  <2>12. Keeps(u) BY <2>11 DEF Keeps
  <2> QED BY <1>5, <2>12, Becomes DEF u, d
<1>6. CASE conn.tls # "none" /\ Become(t)
  <2>1. Keeps(t) BY <1>2, <1>6 DEF Keeps
  <2> QED BY <1>6, <2>1, Becomes
<1>7. CASE conn.tls # "none" /\ Become(closeConn(t, "tls_error"))
  <2> DEFINE u == closeConn(t, "tls_error")
  <2>1. /\ Sound(t) /\ t.conn.mem = "live" /\ ~t.conn.closing /\ ~t.conn.recycling /\ t.conn.connect
        /\ t.conn.up
    BY <1>2, <1>4, <1>7 DEF Good, Conns
  <2>2. "tls_error" \in {"normal", "peer_reset", "tls_error"} OBVIOUS
  <2>3. Good(u) /\ (Unharmed(t) => Unharmed(u)) BY ONLY <2>1, <2>2, CloseSound
  <2>4. Keeps(u) BY <1>2, <2>3 DEF Keeps
  <2> QED BY <1>7, <2>4, Becomes
<1> QED BY <1>5, <1>6, <1>7 DEF onConnect, t

(* A handshake still runs: the connect is not decided. *)
LEMMA Handshaking ==
  ASSUME Good(Now), Reading
  PROVE  /\ conn.mem = "live" /\ ~conn.closing /\ ~conn.recycling /\ conn.up
         /\ ~cc.gai_pending /\ ~cc.connect_pending
         /\ conn.tls = "handshake" => Undecided(Now)
<1>1. conn.up /\ ~conn.closing /\ Sound(Now) BY DEF Reading, Good
<1>2. conn.mem \in {"none", "live", "released"} BY <1>1, NowIs DEF Sound, States, Conns
<1>3. conn.mem = "live" BY <1>1, <1>2, NowIs DEF Sound, Unused, Stage
<1>4. ~conn.recycling /\ ~cc.gai_pending /\ ~cc.connect_pending BY <1>1, NowIs DEF Sound, Stage
<1>5. conn.tls = "handshake" => Undecided(Now)
  BY <1>1, <1>3, NowIs DEF Sound, Told, Undecided
<1> QED BY <1>1, <1>3, <1>4, <1>5

LEMMA HandshakeDoneKeeps ==
  ASSUME IInv, HandshakeDone
  PROVE  IInv'
<1> DEFINE t == [Now EXCEPT !.conn = [Now.conn EXCEPT !.tls = "established"]]
           r == resolveConnect(t)
           u == dispatch(r, "connection")
<1>1. Good(Now) /\ Reading /\ conn.tls = "handshake" /\ Become(u) BY DEF IInv, HandshakeDone
<1>2. Undecided(Now) /\ conn.up /\ ~cc.gai_pending /\ ~cc.connect_pending BY <1>1, Handshaking
<1>3. /\ Now \in States /\ cc \in CCs /\ conn \in Conns /\ js \in Promises
      /\ cc.mem = "live" /\ js.promise = "pending" /\ conn.connect /\ Sound(Now)
  BY <1>2, UndecidedIsLive, NowIs DEF States, Undecided
<1>4. /\ t \in States /\ t.cc = cc /\ t.conn = [conn EXCEPT !.tls = "established"] /\ t.js = js /\ t.uv = uv
  BY <1>3, NowIs DEF States, Conns
<1> HIDE DEF t, r, u
<1>5. Queues(t) /\ TimerKept(t) /\ t.conn.connect /\ t.cc.mem = "live"
  <2>1. Queues(t) BY <1>3, <1>4, NowIs DEF Sound, Queues
  <2>2. Due(t) = Due(Now) BY <1>4, NowIs DEF Due
  <2>3. TimerKept(t) BY <1>3, <1>4, <2>2, NowIs DEF Sound, TimerKept, Handles
  <2>4. t.conn.connect BY <1>3, <1>4 DEF Conns
  <2> QED BY <1>3, <1>4, <2>1, <2>3, <2>4
<1>6. /\ r \in States /\ Queues(r) /\ Steady(r, t) /\ TimerKept(r)
      /\ r.cc = [t.cc EXCEPT !.resolved = TRUE,
                    !.mem = IF t.cc.gai_pending \/ t.cc.connect_pending \/ t.cc.timer_pending
                            THEN "live" ELSE "freed"]
      /\ r.conn = [t.conn EXCEPT !.connect = FALSE] /\ r.js = t.js
      /\ "tcp" \in r.uv.open <=> "tcp" \in t.uv.open
      /\ In(r.uv.closing_handles) \ {"onCCClose"} = In(t.uv.closing_handles) \ {"onCCClose"}
  BY ONLY <1>4, <1>5, ResolveConnect DEF r
<1>7. /\ u \in States /\ u.cc = r.cc /\ u.conn = r.conn /\ u.uv = r.uv
      /\ u.js = [js EXCEPT !.promise = "resolved", !.pending = FALSE, !.socket = TRUE]
  <2>1. r \in States /\ r.js = js /\ r.js.promise = "pending" BY <1>3, <1>4, <1>6
  <2> QED BY <2>1, ConnectionTold DEF u
<1>8. u.cc = [cc EXCEPT !.connect_pending = FALSE, !.resolved = TRUE,
                        !.mem = IF cc.timer_pending THEN "live" ELSE "freed"]
  <2>1. (IF t.cc.gai_pending \/ t.cc.connect_pending \/ t.cc.timer_pending THEN "live" ELSE "freed")
          = (IF cc.timer_pending THEN "live" ELSE "freed")
    BY <1>2, <1>4
  <2>2. u.cc = [cc EXCEPT !.resolved = TRUE, !.mem = IF cc.timer_pending THEN "live" ELSE "freed"]
    BY <1>4, <1>6, <1>7, <2>1
  <2>3. cc.connect_pending = FALSE BY <1>2, <1>3 DEF CCs
  <2> QED BY ONLY <1>3, <2>2, <2>3, ZenonT(60) DEF CCs
<1>9. u.conn = [conn EXCEPT !.connect = FALSE, !.up = TRUE, !.tls = "established"]
  <2>1. u.conn = [[conn EXCEPT !.tls = "established"] EXCEPT !.connect = FALSE] BY <1>4, <1>6, <1>7
  <2>2. conn.up = TRUE BY <1>2, <1>3 DEF Conns
  <2> QED BY ONLY <1>3, <2>1, <2>2 DEF Conns
<1>10. Queues(u) /\ TimerKept(u) BY <1>6, <1>7 DEF Queues, TimerKept, Due
<1>11. uv.owed = uv.owed \ {"connect"} BY <1>2, <1>3, NowIs DEF Sound, Handles
<1>12. /\ u.uv.phase = uv.phase /\ u.uv.endgame = uv.endgame /\ u.uv.deadline = uv.deadline
       /\ u.uv.tried = uv.tried /\ u.uv.misuse = uv.misuse /\ u.uv.owed = uv.owed \ {"connect"}
       /\ "tcp" \in u.uv.open <=> "tcp" \in uv.open
       /\ In(u.uv.closing_handles) \ {"onCCClose"} = In(uv.closing_handles) \ {"onCCClose"}
  BY <1>4, <1>6, <1>7, <1>11 DEF Steady
<1>13. "established" \in {"none", "established"} OBVIOUS
<1>14. Good(u) /\ (Unharmed(Now) => Unharmed(u))
  BY ONLY <1>2, <1>7, <1>8, <1>9, <1>10, <1>12, <1>13, NowIs, SettledSound
<1>15. Keeps(u) BY <1>14 DEF Keeps
<1> QED BY <1>1, <1>15, Becomes

(* What closes a connection that is not being closed. *)
LEMMA CloseKeeps ==
  ASSUME IInv, NEW reason \in {"normal", "peer_reset", "tls_error"},
         conn.mem = "live", ~conn.closing, ~conn.recycling, conn.up, Become(closeConn(Now, reason))
  PROVE  IInv'
<1> DEFINE u == closeConn(Now, reason)
<1>1. Sound(Now) /\ Freed(Now) BY DEF IInv, Good
<1>2. Good(u) /\ (Unharmed(Now) => Unharmed(u)) BY <1>1, NowIs, CloseSound
<1>3. Keeps(u) BY <1>2 DEF Keeps
<1> QED BY <1>3, Becomes

LEMMA HandshakeFailsKeeps ==
  ASSUME IInv, HandshakeFails
  PROVE  IInv'
<1>1. Good(Now) /\ Reading BY DEF IInv, HandshakeFails
<1>2. conn.mem = "live" /\ ~conn.closing /\ ~conn.recycling /\ conn.up BY <1>1, Handshaking
<1>3. PICK reason \in {"tls_error", "peer_reset"} : Become(closeConn(Now, reason)) BY DEF HandshakeFails
<1> QED BY <1>2, <1>3, CloseKeeps

LEMMA PeerGoneKeeps ==
  ASSUME IInv, PeerGone
  PROVE  IInv'
<1>1. Good(Now) /\ Reading /\ Become(closeConn(Now, "peer_reset")) BY DEF IInv, PeerGone
<1>2. conn.mem = "live" /\ ~conn.closing /\ ~conn.recycling /\ conn.up BY <1>1, Handshaking
<1> QED BY <1>1, <1>2, CloseKeeps

LEMMA DestroyKeeps ==
  ASSUME IInv, Destroy
  PROVE  IInv'
<1>1. Sound(Now) /\ js.socket /\ ~conn.closing /\ Become(closeConn(Now, "normal")) BY DEF IInv, Good, Destroy
<1>2. conn.mem \in {"none", "live", "released"} BY <1>1, NowIs DEF Sound, States, Conns
<1>3. conn.mem = "live" BY <1>1, <1>2, NowIs DEF Sound, Unused, Told
<1>4. ~js.pending BY <1>1, <1>3, NowIs DEF Sound, Told
<1>5. ~conn.recycling BY <1>1, <1>3, <1>4, NowIs DEF Sound, Told, Stage
<1>6. conn.up
  <2>1. ~conn.connect BY <1>1, <1>3, <1>4, NowIs DEF Sound, Told
  <2> QED BY <1>1, <1>3, <2>1, NowIs DEF Sound, Stage
<1> QED BY <1>1, <1>3, <1>5, <1>6, CloseKeeps

LEMMA TimeoutKeeps ==
  ASSUME IInv, onConnectTimeout
  PROVE  IInv'
<1> DEFINE t == [Now EXCEPT !.uv = [[Now.uv EXCEPT !.armed = FALSE] EXCEPT !.expired = TRUE]]
           u == abortConnect(t, "timeout")
<1>1. Good(Now) /\ uv.phase = "timers" /\ uv.armed BY DEF IInv, onConnectTimeout
<1>2. Now \in States /\ Sound(Now) /\ uv \in Loops BY <1>1, NowIs DEF Good, Sound, States
<1>3. cc.timer_pending /\ ~cc.resolved BY <1>1, <1>2, NowIs DEF Sound, Handles
<1>4. cc.mem # "none" /\ cc.mem # "freed" BY <1>2, <1>3, NowIs DEF Sound, NoConnect, Memory
<1>5. Undecided(Now) BY <1>2, <1>3, <1>4, NotResolved, NowIs
<1>6. /\ t \in States /\ t.cc = cc /\ t.conn = conn /\ t.js = js
      /\ t.uv = [uv EXCEPT !.armed = FALSE, !.expired = TRUE]
  BY <1>2, NowIs DEF States, Loops
<1>7. touch(t) = t BY <1>4, <1>6 DEF touch
<1>8. [Now EXCEPT !.uv.armed = FALSE, !.uv.expired = TRUE] = t
  BY <1>2 DEF States
<1>9. Become(u) BY <1>7, <1>8 DEF onConnectTimeout
<1> HIDE DEF t
<1>10. /\ t.uv.phase = uv.phase /\ t.uv.closing_handles = uv.closing_handles /\ t.uv.endgame = uv.endgame
       /\ t.uv.open = uv.open /\ t.uv.owed = uv.owed /\ t.uv.deadline = uv.deadline
       /\ t.uv.armed = FALSE /\ t.uv.expired = TRUE /\ t.uv.tried = uv.tried
       /\ t.uv.misuse = uv.misuse
  BY ONLY <1>2, <1>6 DEF Loops
<1>11. Due(t) = Due(Now) BY <1>10, NowIs DEF Due
<1>12. Handles(t)
  <2>1. Handles(Now) BY <1>2 DEF Sound
  <2> QED BY ONLY <1>6, <1>10, <1>11, <2>1, NowIs DEF Handles
<1>13. Unused(t) /\ NoConnect(t) /\ Memory(t) /\ Stage(t) /\ Tries(t) /\ Told(t) /\ Queues(t)
  BY ONLY <1>2, <1>6, <1>10, NowIs
     DEF Sound, Unused, NoConnect, Memory, Stage, Tries, Told, Queues
<1>14. Undecided(t)
  BY <1>5, <1>6, <1>12, <1>13, NowIs DEF Undecided, Sound, Reason
<1>15. "timeout" \in {"refused", "dns", "timeout"} /\ t.uv.expired BY <1>10
<1>16. Good(u) /\ (Unharmed(t) /\ ~t.conn.recycling => Unharmed(u)) BY ONLY <1>14, <1>15, Abort
<1>17. Unharmed(Now) => Unharmed(t) /\ ~t.conn.recycling
  BY <1>1, <1>6, <1>10, NowIs DEF Unharmed, Recycled
<1>18. Keeps(u) BY <1>16, <1>17 DEF Keeps
<1> QED BY <1>9, <1>18, Becomes

-----------------------------------------------------------------------------
(* The closing phase. *)

LEMMA PoppedIs ==
  ASSUME Good(Now), NEW cb, Ended(cb)
  PROVE  LET p == Popped
         IN /\ p \in States /\ Queues(p) /\ p.cc = cc /\ p.conn = conn /\ p.js = js
            /\ p.uv.phase = uv.phase /\ p.uv.closing_handles = uv.closing_handles
            /\ p.uv.open = uv.open /\ p.uv.owed = uv.owed /\ p.uv.deadline = uv.deadline
            /\ p.uv.armed = uv.armed /\ p.uv.expired = uv.expired /\ p.uv.tried = uv.tried
            /\ p.uv.misuse = uv.misuse
            /\ uv.phase = "closing" /\ cb \in Due(Now) /\ Due(p) = Due(Now) \ {cb}
<1> DEFINE q == uv.endgame
           p == [Now EXCEPT !.uv = [Now.uv EXCEPT !.endgame = Tail(Now.uv.endgame)]]
<1>1. Now \in States /\ Queues(Now) /\ uv \in Loops BY NowIs DEF Good, Sound, States
<1>2. uv.phase = "closing" /\ q # <<>> /\ Head(q) = cb BY DEF Ended
<1>3. q \in Seq(Callbacks) /\ Once(q) BY <1>1, NowIs DEF Queues, Loops
<1>4. Tail(q) \in Seq(Callbacks) /\ cb \in In(q) /\ In(Tail(q)) = In(q) \ {cb} /\ Once(Tail(q))
  BY <1>2, <1>3, PopIn
<1>5. Popped = p BY DEF Popped
<1>6. /\ p \in States /\ p.cc = cc /\ p.conn = conn /\ p.js = js /\ p.uv = [uv EXCEPT !.endgame = Tail(q)]
  BY <1>1, <1>4, NowIs DEF States, Loops
<1> HIDE DEF p
<1>7. /\ p.uv.phase = uv.phase /\ p.uv.closing_handles = uv.closing_handles
      /\ p.uv.open = uv.open /\ p.uv.owed = uv.owed /\ p.uv.deadline = uv.deadline
      /\ p.uv.armed = uv.armed /\ p.uv.expired = uv.expired /\ p.uv.tried = uv.tried
      /\ p.uv.misuse = uv.misuse /\ p.uv.endgame = Tail(q)
  BY ONLY <1>1, <1>6 DEF Loops
<1>8. In(uv.closing_handles) \cap In(q) = {} /\ Once(uv.closing_handles) BY <1>1, NowIs DEF Queues
<1>9. Queues(p) BY <1>2, <1>4, <1>7, <1>8 DEF Queues
<1>10. Due(Now) = In(uv.closing_handles) \cup In(q) /\ Due(p) = In(uv.closing_handles) \cup In(Tail(q))
  BY <1>7, NowIs DEF Due
<1>11. cb \in Due(Now) /\ Due(p) = Due(Now) \ {cb} BY ONLY <1>4, <1>8, <1>10
<1> QED BY <1>2, <1>5, <1>6, <1>7, <1>9, <1>11

(* releaseConn: JavaScript is told of the end. *)
LEMMA Released ==
  ASSUME NEW t \in States, Queues(t), TimerKept(t), NoConnect(t), Memory(t), Reason(t),
         t.conn.mem = "live", t.conn.closing, ~t.conn.recycling, ~t.cc.connect_pending,
         t.cc.mem # "none" => t.cc.resolved, t.cc.gai_pending => ~t.conn.up,
         "tcp" \notin t.uv.open, "onClose" \notin Due(t), "onRetryClose" \notin Due(t),
         "connect" \notin t.uv.owed, "gai" \in t.uv.owed <=> t.cc.gai_pending,
         "double close" \notin t.uv.misuse,
         t.js.closes = 0, t.js.promise \in {"pending", "resolved"},
         t.js.socket = (t.js.promise = "resolved"), t.js.pending = (t.js.promise = "pending"),
         t.js.promise = "resolved" \/ (t.conn.up => t.conn.tls = "handshake")
  PROVE  LET d == releaseConn(t)
         IN /\ Sound(d) /\ Waits(d) /\ d.cc = t.cc /\ d.uv = t.uv
            /\ Freed(t) => Freed(d)
            /\ Unharmed(t) => Unharmed(d)
<1> DEFINE c == dispatch(t, "close")
           d == releaseConn(t)
           why == connectError(t.conn.close_reason)
<1>1. t.js \in Promises /\ t.conn \in Conns /\ t.conn.close_reason \in Reasons
      /\ why \in ConnectErrorReason
  BY DEF States, Conns, Reasons, ConnectErrorReason, connectError
<1> HIDE DEF why
<1>2. /\ c \in States /\ c.cc = t.cc /\ c.conn = t.conn /\ c.uv = t.uv
      /\ c.js.pending = FALSE /\ c.js.socket = FALSE
      /\ \/ c.js.promise = "resolved" /\ c.js.closes = 1
         \/ c.js.promise = why /\ c.js.closes = 0 /\ (t.conn.up => t.conn.tls = "handshake")
  <2>1. CASE t.js.promise = "pending"
    <3> DEFINE b == [t EXCEPT !.js = [t.js EXCEPT !.pending = FALSE]]
    <3>1. /\ b \in States /\ b.cc = t.cc /\ b.conn = t.conn /\ b.uv = t.uv /\ b.js = [t.js EXCEPT !.pending = FALSE]
      BY DEF States, Promises
    <3>2. c = settle(b, why) BY <2>1 DEF dispatch, why
    <3> HIDE DEF b
    <3>3. b.js.promise = "pending" /\ b.js.pending = FALSE /\ b.js.socket = FALSE /\ b.js.closes = 0
      BY <1>1, <2>1, <3>1 DEF Promises
    <3>4. c = [b EXCEPT !.js = [b.js EXCEPT !.promise = why]] BY <3>2, <3>3 DEF settle
    <3> HIDE DEF c
    <3>5. /\ c \in States /\ c.cc = b.cc /\ c.conn = b.conn /\ c.uv = b.uv
          /\ c.js = [b.js EXCEPT !.promise = why]
      BY <1>1, <3>1, <3>4 DEF States, Promises
    <3>6. b.js \in Promises BY <3>1 DEF States
    <3>7. /\ c.js.promise = why /\ c.js.pending = FALSE /\ c.js.socket = FALSE /\ c.js.closes = 0
      BY ONLY <3>3, <3>5, <3>6 DEF Promises
    <3> QED BY <2>1, <3>1, <3>5, <3>7
  <2>2. CASE t.js.promise = "resolved"
    <3> DEFINE b == [t EXCEPT !.js = [t.js EXCEPT !.socket = FALSE]]
    <3>1. /\ b \in States /\ b.cc = t.cc /\ b.conn = t.conn /\ b.uv = t.uv /\ b.js = [t.js EXCEPT !.socket = FALSE]
      BY DEF States, Promises
    <3>2. c = [b EXCEPT !.js = [b.js EXCEPT !.closes = b.js.closes + 1]] BY <2>2 DEF dispatch
    <3> HIDE DEF b
    <3>3. /\ b.js.promise = "resolved" /\ b.js.pending = FALSE /\ b.js.socket = FALSE /\ b.js.closes = 0
          /\ b.js.closes + 1 = 1 /\ b.js \in Promises
      <4>1. t.js.pending = FALSE BY <2>2
      <4>2. b.js = [t.js EXCEPT !.socket = FALSE] /\ b.js \in Promises BY <3>1 DEF States
      <4>3. b.js.promise = t.js.promise /\ b.js.pending = t.js.pending /\ b.js.socket = FALSE
            /\ b.js.closes = t.js.closes
        BY ONLY <1>1, <4>2 DEF Promises
      <4>4. t.js.closes = 0 OBVIOUS
      <4> QED BY ONLY <2>2, <4>1, <4>2, <4>3, <4>4
    <3> HIDE DEF c
    <3>7. c = [b EXCEPT !.js = [b.js EXCEPT !.closes = 1]] BY ONLY <3>2, <3>3
    <3>4. /\ c \in States /\ c.cc = b.cc /\ c.conn = b.conn /\ c.uv = b.uv
          /\ c.js = [b.js EXCEPT !.closes = 1]
      <4>1. [b.js EXCEPT !.closes = 1] \in Promises BY ONLY <3>3 DEF Promises
      <4> QED BY ONLY <3>1, <3>7, <4>1 DEF States
    <3>5. b.js \in Promises BY <3>1 DEF States
    <3>6. c.js.promise = "resolved" /\ c.js.pending = FALSE /\ c.js.socket = FALSE /\ c.js.closes = 1
      BY ONLY <3>3, <3>4, <3>5 DEF Promises
    <3> QED BY <3>1, <3>4, <3>6
  <2> QED BY <2>1, <2>2
<1>3. d = [c EXCEPT !.conn = [c.conn EXCEPT !.mem = "released"]] BY DEF releaseConn
<1> HIDE DEF c, d
<1>4. /\ d \in States /\ d.cc = t.cc /\ d.js = c.js /\ d.uv = t.uv /\ d.conn = [t.conn EXCEPT !.mem = "released"]
  BY <1>2, <1>3 DEF States, Conns
<1>5. /\ d.conn.mem = "released" /\ d.conn.closing /\ ~d.conn.recycling /\ d.conn.connect = t.conn.connect
      /\ d.conn.up = t.conn.up /\ d.conn.tls = t.conn.tls /\ d.conn.close_reason = t.conn.close_reason
  BY <1>1, <1>4 DEF Conns
<1>6. Due(d) = Due(t) BY <1>4 DEF Due
<1>7. Handles(d)
  <2>1. TimerKept(d) BY <1>4, <1>6 DEF TimerKept
  <2>2. "onClose" \notin Due(d) /\ "onRetryClose" \notin Due(d) BY <1>6
  <2>3. /\ "tcp" \notin d.uv.open /\ "connect" \notin d.uv.owed /\ "double close" \notin d.uv.misuse
        /\ "gai" \in d.uv.owed <=> d.cc.gai_pending
        /\ ~d.cc.connect_pending
    BY <1>4
  <2> QED BY ONLY <1>5, <2>1, <2>2, <2>3 DEF Handles, TimerKept
<1>8. Queues(d) /\ Memory(d) /\ Reason(d) /\ Waits(d) /\ Unused(d)
  BY <1>4, <1>5, ZenonT(60) DEF Queues, Memory, Reason, Waits, Unused
<1>9. NoConnect(d) /\ Stage(d) BY <1>4, <1>5 DEF NoConnect, Stage
<1>10. Tries(d)
  BY <1>4, <1>5 DEF Tries, NoConnect
<1>11. Told(d)
  <2>1. why # "pending" BY <1>1 DEF ConnectErrorReason
  <2>2. connectError(d.conn.close_reason) = why BY <1>5 DEF why
  <2> QED BY ONLY <1>2, <1>4, <1>5, <2>1, <2>2, ZenonT(60) DEF Told
<1>12. (Freed(t) => Freed(d)) /\ (Unharmed(t) => Unharmed(d))
  BY <1>4, <1>5 DEF Freed, Unharmed, Recycled
<1> QED BY <1>4, <1>7, <1>8, <1>9, <1>10, <1>11, <1>12 DEF Sound, d

LEMMA CCCloseKeeps ==
  ASSUME IInv, onCCClose
  PROVE  IInv'
<1> DEFINE p == Popped
           t == [p EXCEPT !.cc = [p.cc EXCEPT !.timer_pending = FALSE]]
           u == ccMaybeFree(t)
<1>1. Good(Now) /\ Ended("onCCClose") BY DEF IInv, onCCClose
<1>2. /\ p \in States /\ Queues(p) /\ p.cc = cc /\ p.conn = conn /\ p.js = js
      /\ p.uv.phase = uv.phase /\ p.uv.closing_handles = uv.closing_handles
      /\ p.uv.open = uv.open /\ p.uv.owed = uv.owed /\ p.uv.deadline = uv.deadline
      /\ p.uv.armed = uv.armed /\ p.uv.expired = uv.expired /\ p.uv.tried = uv.tried
      /\ p.uv.misuse = uv.misuse
      /\ uv.phase = "closing" /\ "onCCClose" \in Due(Now) /\ Due(p) = Due(Now) \ {"onCCClose"}
  BY <1>1, PoppedIs
<1> HIDE DEF p
<1>3. Sound(Now) /\ cc \in CCs BY <1>1, NowIs DEF Good, Sound, States
<1>4. cc.timer_pending /\ cc.resolved BY <1>2, <1>3, NowIs DEF Sound, Handles
<1>5. cc.mem = "live" BY <1>3, <1>4, NowIs DEF Sound, NoConnect, Memory, CCs
<1>6. /\ t \in States /\ t.cc = [cc EXCEPT !.timer_pending = FALSE] /\ t.conn = conn /\ t.js = js
      /\ t.uv = p.uv
  BY <1>2 DEF States, CCs
<1>7. /\ t.cc.mem = "live" /\ t.cc.gai_pending = cc.gai_pending
      /\ t.cc.connect_pending = cc.connect_pending /\ ~t.cc.timer_pending /\ t.cc.resolved
      /\ t.cc.addr_idx = cc.addr_idx /\ t.cc.addr_count = cc.addr_count
  BY <1>3, <1>4, <1>5, <1>6 DEF CCs
<1>8. Become(u)
  <2>1. touch(t) = t BY <1>7 DEF touch
  <2> QED BY <2>1 DEF onCCClose, p
<1> HIDE DEF t
<1>9. /\ Due(t) = Due(Now) \ {"onCCClose"}
      /\ t.uv.phase = uv.phase /\ t.uv.closing_handles = uv.closing_handles
      /\ t.uv.open = uv.open /\ t.uv.owed = uv.owed /\ t.uv.deadline = uv.deadline
      /\ t.uv.armed = uv.armed /\ t.uv.expired = uv.expired /\ t.uv.tried = uv.tried
      /\ t.uv.misuse = uv.misuse
  BY <1>2, <1>6 DEF Due
<1>10. Handles(t)
  <2>1. /\ "tcp" \in uv.open <=> conn.mem = "live" /\ ~conn.closing /\ ~conn.recycling
        /\ "onClose" \in Due(Now) <=> conn.mem = "live" /\ conn.closing /\ ~conn.recycling
        /\ "onRetryClose" \in Due(Now) <=> conn.mem = "live" /\ conn.recycling
        /\ "timer" \notin uv.open /\ ~uv.armed
        /\ "gai" \in uv.owed <=> cc.gai_pending
        /\ "connect" \in uv.owed <=> cc.connect_pending
        /\ "double close" \notin uv.misuse
    BY <1>3, <1>4, NowIs DEF Sound, Handles
  <2>2. /\ "onCCClose" \notin Due(t)
        /\ "onClose" \in Due(t) <=> "onClose" \in Due(Now)
        /\ "onRetryClose" \in Due(t) <=> "onRetryClose" \in Due(Now)
    BY <1>9
  <2> QED BY ONLY <1>6, <1>7, <1>9, <2>1, <2>2 DEF Handles
<1>11. Unused(t) /\ NoConnect(t) /\ Memory(t) /\ Stage(t) /\ Tries(t) /\ Reason(t)
  BY ONLY <1>3, <1>4, <1>5, <1>6, <1>7, <1>9, NowIs, ZenonT(60) DEF Sound, Unused, NoConnect, Memory, Stage, Tries, Reason
<1>12. Told(t) /\ Queues(t) BY ONLY <1>2, <1>3, <1>6, NowIs DEF Sound, Told, Queues
<1>13. Sound(t) BY <1>6, <1>10, <1>11, <1>12 DEF Sound
<1>14. Waits(t) BY <1>1, <1>6, <1>7, NowIs DEF Good, Waits
<1>15. Unharmed(Now) => Unharmed(t)
  BY <1>2, <1>4, <1>6, NowIs DEF Unharmed, Recycled
<1>16. /\ Sound(u) /\ Freed(u)
       /\ u.conn = t.conn /\ u.js = t.js /\ u.uv = t.uv
       /\ Waits(t) => Waits(u)
       /\ Unharmed(t) => Unharmed(u)
  <2>1. t.cc.resolved /\ t.cc.mem = "live" BY <1>7
  <2> QED BY ONLY <1>13, <2>1, MaybeFree
<1>17. Keeps(u) BY <1>14, <1>15, <1>16 DEF Keeps, Good
<1> QED BY <1>8, <1>17, Becomes

LEMMA OnCloseKeeps ==
  ASSUME IInv, onClose
  PROVE  IInv'
<1> DEFINE p == Popped
           t == [p EXCEPT !.cc = [p.cc EXCEPT !.connect_pending = FALSE],
                          !.uv = [p.uv EXCEPT !.owed = p.uv.owed \ {"connect"}]]
           f == [t EXCEPT !.cc = [t.cc EXCEPT !.mem = "freed"]]
           c == Cancelled
           u == releaseConn(c)
<1>1. Good(Now) /\ Ended("onClose") /\ Become(u) BY DEF IInv, onClose
<1>2. /\ p \in States /\ Queues(p) /\ p.cc = cc /\ p.conn = conn /\ p.js = js
      /\ p.uv.phase = uv.phase /\ p.uv.closing_handles = uv.closing_handles
      /\ p.uv.open = uv.open /\ p.uv.owed = uv.owed /\ p.uv.deadline = uv.deadline
      /\ p.uv.armed = uv.armed /\ p.uv.expired = uv.expired /\ p.uv.tried = uv.tried
      /\ p.uv.misuse = uv.misuse
      /\ uv.phase = "closing" /\ "onClose" \in Due(Now) /\ Due(p) = Due(Now) \ {"onClose"}
  BY <1>1, PoppedIs
<1>3. /\ "connect" \in uv.owed => c = connectFailed(p)
      /\ "connect" \notin uv.owed => c = p
  BY DEF Cancelled
<1> HIDE DEF p, c, u
<1>4. Sound(Now) /\ cc \in CCs BY <1>1, NowIs DEF Good, Sound, States
<1>5. conn.mem = "live" /\ conn.closing /\ ~conn.recycling BY <1>2, <1>4, NowIs DEF Sound, Handles
<1>6. cc.mem # "none" => cc.resolved BY <1>4, <1>5, NowIs DEF Sound, Stage
<1>7. cc.gai_pending => ~conn.up /\ ~cc.connect_pending BY <1>4, NowIs DEF Sound, Stage
<1>8. /\ "tcp" \notin uv.open /\ "onRetryClose" \notin Due(Now)
      /\ "gai" \in uv.owed <=> cc.gai_pending
      /\ "connect" \in uv.owed <=> cc.connect_pending
      /\ "double close" \notin uv.misuse
      /\ "timer" \in uv.open <=> cc.timer_pending /\ ~cc.resolved
      /\ "onCCClose" \in Due(Now) <=> cc.timer_pending /\ cc.resolved
      /\ uv.armed => cc.timer_pending /\ ~cc.resolved
  BY <1>4, <1>5, NowIs DEF Sound, Handles
<1>9. /\ js.closes = 0 /\ js.promise \in {"pending", "resolved"} /\ js.socket = (js.promise = "resolved")
      /\ js.pending = (js.promise = "pending")
      /\ (js.promise = "resolved") \/ (conn.up => conn.tls = "handshake")
  BY <1>4, <1>5, NowIs DEF Sound, Told
<1>10. NoConnect(Now) /\ Memory(Now) /\ Reason(Now) /\ Freed(Now) BY <1>1 DEF Good, Sound
(* What is left when the connect the handle owed has been failed. *)
<1>11. /\ c \in States /\ Queues(c) /\ c.conn = conn /\ c.js = js
       /\ c.uv.open = uv.open /\ c.uv.owed = uv.owed \ {"connect"} /\ c.uv.misuse = uv.misuse
       /\ c.uv.armed = uv.armed /\ c.uv.phase = uv.phase /\ c.uv.closing_handles = uv.closing_handles
       /\ c.uv.deadline = uv.deadline /\ c.uv.tried = uv.tried /\ c.uv.expired = uv.expired
       /\ Due(c) = Due(Now) \ {"onClose"}
       /\ c.cc.gai_pending = cc.gai_pending /\ ~c.cc.connect_pending
       /\ c.cc.timer_pending = cc.timer_pending /\ c.cc.resolved = cc.resolved
       /\ c.cc.addr_count = cc.addr_count
       /\ cc.mem = "none" <=> c.cc.mem = "none"
       /\ Memory(c) /\ Freed(c)
  <2>1. CASE "connect" \notin uv.owed
    <3>1. c = p BY <1>3, <2>1
    <3>2. uv.owed = uv.owed \ {"connect"} BY <2>1
    <3>3. ~cc.connect_pending BY <1>8, <2>1
    <3>4. Memory(p) /\ Freed(p) BY ONLY <1>2, <1>10, NowIs DEF Memory, Freed
    <3> QED BY ONLY <1>2, <3>1, <3>2, <3>3, <3>4
  <2>2. CASE "connect" \in uv.owed
    <3>1. cc.connect_pending /\ ~cc.gai_pending BY <1>7, <1>8, <2>2
    <3>2. cc.mem = "live" /\ cc.resolved
      BY <1>4, <1>6, <1>10, <3>1, NowIs DEF NoConnect, Memory, CCs
    <3>3. /\ t \in States /\ t.cc = [cc EXCEPT !.connect_pending = FALSE]
          /\ t.conn = conn /\ t.js = js /\ t.uv = [p.uv EXCEPT !.owed = uv.owed \ {"connect"}]
      BY <1>2 DEF States, CCs, Loops
    <3> HIDE DEF t
    <3>4. /\ t.cc.mem = "live" /\ ~t.cc.gai_pending /\ ~t.cc.connect_pending
          /\ t.cc.timer_pending = cc.timer_pending /\ t.cc.resolved
          /\ t.cc.gai_pending = cc.gai_pending /\ t.cc.resolved = cc.resolved
          /\ t.cc.addr_idx = cc.addr_idx /\ t.cc.addr_count = cc.addr_count
      BY <1>4, <3>1, <3>2, <3>3, ZenonT(60) DEF CCs
    <3>5. p.uv \in Loops BY <1>2 DEF States
    <3>6. t.uv.owed = uv.owed \ {"connect"} BY ONLY <3>3, <3>5 DEF Loops
    <3>7. /\ t.uv.phase = p.uv.phase /\ t.uv.closing_handles = p.uv.closing_handles
          /\ t.uv.endgame = p.uv.endgame /\ t.uv.open = p.uv.open /\ t.uv.deadline = p.uv.deadline
          /\ t.uv.armed = p.uv.armed /\ t.uv.expired = p.uv.expired /\ t.uv.tried = p.uv.tried
          /\ t.uv.misuse = p.uv.misuse
      BY ONLY <3>3, <3>5 DEF Loops
    <3>8. Due(t) = Due(p) /\ Queues(t) BY <1>2, <3>7 DEF Due, Queues
    <3>9. c = ccMaybeFree(t)
      <4>1. touch(t) = t BY <3>4 DEF touch
      <4> QED BY <1>3, <2>2, <3>4, <4>1 DEF connectFailed, t
    <3>10. CASE t.cc.timer_pending
      <4>1. c = t BY <3>9, <3>10 DEF ccMaybeFree
      <4>2. Memory(t) /\ Freed(t) BY <3>4, <3>10 DEF Memory, Freed
      <4> QED BY ONLY <1>2, <3>2, <3>3, <3>4, <3>6, <3>7, <3>8, <3>1, <4>1, <4>2, ZenonT(60)
    <3>11. CASE ~t.cc.timer_pending
      <4>1. c = f BY <3>4, <3>9, <3>11 DEF ccMaybeFree
      <4>2. /\ c \in States /\ c.cc = [t.cc EXCEPT !.mem = "freed"] /\ c.conn = t.conn /\ c.js = t.js
            /\ c.uv = t.uv /\ t.cc \in CCs
        BY <3>3, <4>1 DEF States, CCs
      <4>3. /\ c.cc.mem = "freed" /\ c.cc.gai_pending = t.cc.gai_pending
            /\ c.cc.connect_pending = t.cc.connect_pending
            /\ c.cc.timer_pending = t.cc.timer_pending /\ c.cc.resolved = t.cc.resolved
            /\ c.cc.addr_idx = t.cc.addr_idx /\ c.cc.addr_count = t.cc.addr_count
        BY ONLY <4>2 DEF CCs
      <4>4. Due(c) = Due(t) /\ Queues(c) BY <3>8, <4>2 DEF Due, Queues
      <4>5. Memory(c) /\ Freed(c) BY <3>4, <3>11, <4>3 DEF Memory, Freed
      <4>6. /\ c.conn = conn /\ c.js = js
            /\ c.uv.open = uv.open /\ c.uv.owed = uv.owed \ {"connect"} /\ c.uv.misuse = uv.misuse
            /\ c.uv.armed = uv.armed /\ c.uv.phase = uv.phase /\ c.uv.closing_handles = uv.closing_handles
            /\ c.uv.deadline = uv.deadline /\ c.uv.tried = uv.tried /\ c.uv.expired = uv.expired
        BY ONLY <1>2, <3>3, <3>6, <3>7, <4>2
      <4>7. /\ c.cc.gai_pending = cc.gai_pending /\ ~c.cc.connect_pending
            /\ c.cc.timer_pending = cc.timer_pending /\ c.cc.resolved = cc.resolved
            /\ c.cc.addr_count = cc.addr_count
            /\ c.cc.mem # "none" /\ cc.mem # "none"
        BY ONLY <3>2, <3>4, <4>3
      <4>8. Due(c) = Due(Now) \ {"onClose"} BY ONLY <1>2, <3>8, <4>4
      <4> QED BY ONLY <4>2, <4>4, <4>5, <4>6, <4>7, <4>8
    <3> QED BY <3>10, <3>11
  <2> QED BY <2>1, <2>2
<1>12. TimerKept(c)
  <2>1. "onCCClose" \in Due(c) <=> "onCCClose" \in Due(Now) BY <1>11
  <2> QED BY ONLY <1>8, <1>11, <2>1 DEF TimerKept
<1>13. NoConnect(c) /\ Reason(c)
  BY ONLY <1>5, <1>10, <1>11, NowIs DEF NoConnect, Reason
<1>14. /\ "onClose" \notin Due(c) /\ "onRetryClose" \notin Due(c)
       /\ "connect" \notin c.uv.owed /\ ("gai" \in c.uv.owed <=> c.cc.gai_pending)
       /\ c.cc.mem # "none" => c.cc.resolved
       /\ c.cc.gai_pending => ~c.conn.up
  BY <1>6, <1>7, <1>8, <1>11
<1>15. /\ Sound(u) /\ Waits(u) /\ u.cc = c.cc /\ u.uv = c.uv
       /\ Freed(c) => Freed(u)
       /\ Unharmed(c) => Unharmed(u)
  BY ONLY <1>5, <1>8, <1>9, <1>11, <1>12, <1>13, <1>14, Released DEF u
<1>16. Unharmed(Now) => Unharmed(c) BY <1>5, <1>11, NowIs DEF Unharmed, Recycled
<1>17. Keeps(u) BY <1>11, <1>15, <1>16 DEF Keeps, Good
<1> QED BY <1>1, <1>17, Becomes

LEMMA RetryCloseKeeps ==
  ASSUME IInv, onRetryClose
  PROVE  IInv'
<1> DEFINE p == Popped
           r == [p EXCEPT !.conn = [p.conn EXCEPT !.recycling = FALSE]]
           t == touch(r)
           o == [t EXCEPT !.uv = [t.uv EXCEPT !.open = t.uv.open \cup {"tcp"}]]
<1>1. Good(Now) /\ Ended("onRetryClose") BY DEF IInv, onRetryClose
<1>2. /\ p \in States /\ Queues(p) /\ p.cc = cc /\ p.conn = conn /\ p.js = js
      /\ p.uv.phase = uv.phase /\ p.uv.closing_handles = uv.closing_handles
      /\ p.uv.open = uv.open /\ p.uv.owed = uv.owed /\ p.uv.deadline = uv.deadline
      /\ p.uv.armed = uv.armed /\ p.uv.expired = uv.expired /\ p.uv.tried = uv.tried
      /\ p.uv.misuse = uv.misuse
      /\ uv.phase = "closing" /\ "onRetryClose" \in Due(Now) /\ Due(p) = Due(Now) \ {"onRetryClose"}
  BY <1>1, PoppedIs
<1>3. \/ cc.resolved /\ Become(ccMaybeFree(releaseConn(t)))
      \/ ~cc.resolved /\ \E accepted \in Accepts : Become(startConnect(o, accepted))
  BY DEF onRetryClose
<1> HIDE DEF p
<1>4. Sound(Now) /\ cc \in CCs /\ conn \in Conns BY <1>1, NowIs DEF Good, Sound, States
<1>5. conn.mem = "live" /\ conn.recycling BY <1>2, <1>4, NowIs DEF Sound, Handles
<1>6. conn.connect /\ ~conn.up /\ ~cc.gai_pending /\ ~cc.connect_pending
  BY <1>4, <1>5, NowIs DEF Sound, Stage
<1>7. cc.mem # "none" BY <1>4, <1>5, NowIs DEF Sound, NoConnect
<1>8. cc.resolved <=> conn.closing BY <1>4, <1>5, <1>6, <1>7, NowIs DEF Sound, Stage
<1>9. /\ "tcp" \notin uv.open /\ "onClose" \notin Due(Now)
      /\ "gai" \notin uv.owed /\ "connect" \notin uv.owed
      /\ "double close" \notin uv.misuse
      /\ "timer" \in uv.open <=> cc.timer_pending /\ ~cc.resolved
      /\ "onCCClose" \in Due(Now) <=> cc.timer_pending /\ cc.resolved
      /\ uv.armed => cc.timer_pending /\ ~cc.resolved
  BY <1>4, <1>5, <1>6, NowIs DEF Sound, Handles
<1>10. js.closes = 0 /\ js.promise \in {"pending", "resolved"} /\ js.socket = (js.promise = "resolved")
       /\ js.pending = (js.promise = "pending")
  BY <1>4, <1>5, NowIs DEF Sound, Told
<1>11. NoConnect(Now) /\ Memory(Now) /\ Reason(Now) /\ Freed(Now) /\ Tries(Now) BY <1>1 DEF Good, Sound
<1>12. /\ r \in States /\ r.cc = cc /\ r.conn = [conn EXCEPT !.recycling = FALSE] /\ r.js = js
       /\ r.uv = p.uv
  BY <1>2 DEF States, Conns
<1> HIDE DEF r
<1>13. /\ r.conn.mem = "live" /\ ~r.conn.recycling /\ r.conn.connect /\ ~r.conn.up
       /\ r.conn.closing = conn.closing /\ r.conn.tls = conn.tls /\ r.conn.close_reason = conn.close_reason
  BY <1>4, <1>5, <1>6, <1>12 DEF Conns
<1>14. CASE cc.resolved /\ Become(ccMaybeFree(releaseConn(t)))
  <2>1. /\ t \in States /\ t.cc = cc /\ t.conn = r.conn /\ t.js = js
        /\ t.uv.phase = uv.phase /\ t.uv.closing_handles = uv.closing_handles /\ t.uv.endgame = p.uv.endgame
        /\ t.uv.open = uv.open /\ t.uv.owed = uv.owed /\ t.uv.deadline = uv.deadline
        /\ t.uv.armed = uv.armed /\ t.uv.expired = uv.expired /\ t.uv.tried = uv.tried
        /\ "double close" \notin t.uv.misuse
    <3>1. CASE r.cc.mem # "freed"
      <4>1. t = r BY <3>1 DEF touch
      <4> QED BY ONLY <1>2, <1>9, <1>12, <4>1
    <3>2. CASE r.cc.mem = "freed"
      <4>1. t = [r EXCEPT !.uv = [r.uv EXCEPT !.misuse = r.uv.misuse \cup {"use after free"}]]
        BY <3>2 DEF touch
      <4> HIDE DEF t
      <4>2. /\ t \in States /\ t.cc = r.cc /\ t.conn = r.conn /\ t.js = r.js /\ r.uv \in Loops
            /\ t.uv = [r.uv EXCEPT !.misuse = r.uv.misuse \cup {"use after free"}]
        BY <1>12, <4>1 DEF States, Loops
      <4>3. t.uv.misuse = r.uv.misuse \cup {"use after free"} BY ONLY <4>2 DEF Loops
      <4>4. /\ t.uv.phase = r.uv.phase /\ t.uv.closing_handles = r.uv.closing_handles
            /\ t.uv.endgame = r.uv.endgame /\ t.uv.open = r.uv.open /\ t.uv.owed = r.uv.owed
            /\ t.uv.deadline = r.uv.deadline /\ t.uv.armed = r.uv.armed
            /\ t.uv.expired = r.uv.expired /\ t.uv.tried = r.uv.tried
        BY ONLY <4>2 DEF Loops
      <4>5. "double close" \notin t.uv.misuse BY ONLY <1>2, <1>9, <1>12, <4>3
      <4> QED BY ONLY <1>2, <1>12, <4>2, <4>4, <4>5
    <3> QED BY <3>1, <3>2
  <2> DEFINE d == releaseConn(t)
             u == ccMaybeFree(d)
  <2> HIDE DEF t, d, u
  <2>2. Queues(t) /\ Due(t) = Due(p) BY ONLY <1>2, <2>1 DEF Queues, Due
  <2>3. "onClose" \notin Due(t) /\ "onRetryClose" \notin Due(t) BY <1>2, <1>9, <2>2
  <2>4. TimerKept(t)
    <3>1. "onCCClose" \in Due(t) <=> "onCCClose" \in Due(Now) BY <1>2, <2>2
    <3> QED BY ONLY <1>9, <2>1, <3>1 DEF TimerKept
  <2>5. NoConnect(t) /\ Memory(t) /\ Reason(t)
    <3>1. NoConnect(t) /\ Memory(t)
      BY ONLY <1>7, <1>11, <1>13, <2>1, NowIs, ZenonT(60) DEF NoConnect, Memory
    <3>2. Reason(t) BY ONLY <1>6, <1>11, <1>13, <2>1, NowIs DEF Reason
    <3> QED BY <3>1, <3>2
  <2>6. /\ t.conn.mem = "live" /\ t.conn.closing /\ ~t.conn.recycling /\ ~t.cc.connect_pending
        /\ t.cc.mem # "none" => t.cc.resolved
        /\ t.cc.gai_pending => ~t.conn.up
        /\ "connect" \notin t.uv.owed /\ ("gai" \in t.uv.owed <=> t.cc.gai_pending)
        /\ t.js.closes = 0 /\ t.js.promise \in {"pending", "resolved"}
        /\ t.js.socket = (t.js.promise = "resolved") /\ t.js.pending = (t.js.promise = "pending")
        /\ "tcp" \notin t.uv.open
        /\ t.conn.up => t.conn.tls = "handshake"
    BY ONLY <1>6, <1>8, <1>9, <1>10, <1>13, <1>14, <2>1
  <2>7. Sound(d) /\ Waits(d) /\ d.cc = t.cc /\ d.uv = t.uv /\ (Freed(t) => Freed(d))
    BY ONLY <2>1, <2>2, <2>3, <2>4, <2>5, <2>6, Released DEF d
  <2>8. Good(u)
    <3>1. CASE cc.mem = "live"
      <4>1. d.cc.resolved /\ d.cc.mem = "live" BY <1>14, <2>1, <2>7, <3>1
      <4>2. Sound(u) /\ Freed(u) /\ (Waits(d) => Waits(u)) BY ONLY <2>7, <4>1, MaybeFree DEF u
      <4> QED BY <2>7, <4>2 DEF Good
    <3>2. CASE cc.mem = "freed"
      <4>1. ~d.cc.gai_pending /\ ~d.cc.connect_pending /\ ~d.cc.timer_pending /\ d.cc.mem = "freed"
        BY <1>11, <2>1, <2>7, <3>2, NowIs DEF Memory
      <4>2. u = [d EXCEPT !.uv = [d.uv EXCEPT !.misuse = d.uv.misuse \cup {"double free"}]]
        BY <4>1 DEF ccMaybeFree, u
      <4>3. /\ u \in States /\ u.cc = d.cc /\ u.conn = d.conn /\ u.js = d.js /\ d.uv \in Loops
            /\ u.uv = [d.uv EXCEPT !.misuse = d.uv.misuse \cup {"double free"}]
        BY <2>7, <4>2 DEF Sound, States, Loops
      <4>4. u.uv.misuse = d.uv.misuse \cup {"double free"} BY ONLY <4>3 DEF Loops
      <4>5. /\ u.uv.phase = d.uv.phase /\ u.uv.closing_handles = d.uv.closing_handles
            /\ u.uv.endgame = d.uv.endgame /\ u.uv.open = d.uv.open /\ u.uv.owed = d.uv.owed
            /\ u.uv.deadline = d.uv.deadline /\ u.uv.armed = d.uv.armed
            /\ u.uv.expired = d.uv.expired /\ u.uv.tried = d.uv.tried
        BY ONLY <4>3 DEF Loops
      <4>6. Due(u) = Due(d) BY ONLY <4>5 DEF Due
      <4>7. Handles(u)
        <5>1. "double close" \notin u.uv.misuse BY ONLY <2>1, <2>7, <4>4
        <5> QED BY ONLY <2>7, <4>3, <4>5, <4>6, <5>1 DEF Sound, Handles
      <4>8. /\ Unused(u) /\ NoConnect(u) /\ Memory(u) /\ Stage(u) /\ Tries(u) /\ Reason(u)
            /\ Waits(u) /\ Freed(u)
        <5>1. Unused(u) BY ONLY <2>7, <4>3, <4>5 DEF Sound, Unused
        <5>2. NoConnect(u) BY ONLY <2>7, <4>3, <4>5 DEF Sound, NoConnect
        <5>3. Memory(u) BY ONLY <2>7, <4>3, <4>5 DEF Sound, Memory
        <5>4. Stage(u) BY ONLY <2>7, <4>3 DEF Sound, Stage
        <5>5. Tries(u) BY ONLY <2>7, <4>3, <4>5 DEF Sound, Tries
        <5>6. Reason(u)
          <6>1. Reason(d) BY ONLY <2>7 DEF Sound
          <6>2. /\ u.cc = d.cc /\ u.conn = d.conn
                /\ u.uv.tried = d.uv.tried /\ u.uv.expired = d.uv.expired
            BY ONLY <4>3, <4>5
          <6> QED BY ONLY <6>1, <6>2 DEF Reason
        <5>7. Waits(u) BY ONLY <2>7, <4>3 DEF Waits
        <5>8. Freed(u) BY ONLY <4>1, <4>3 DEF Freed
        <5> QED BY ONLY <5>1, <5>2, <5>3, <5>4, <5>5, <5>6, <5>7, <5>8
      <4>9. Queues(u) /\ Told(u) BY ONLY <2>7, <4>3, <4>5, ZenonT(60) DEF Sound, Queues, Told
      <4> QED BY <4>3, <4>7, <4>8, <4>9 DEF Good, Sound
    <3> QED BY <1>4, <1>7, <3>1, <3>2 DEF CCs
  <2>9. ~Unharmed(Now) BY <1>5, <1>14, NowIs DEF Unharmed, Recycled
  <2>10. Keeps(u) BY <2>8, <2>9 DEF Keeps
  <2> QED BY <1>14, <2>10, Becomes DEF u, d
<1>15. CASE ~cc.resolved /\ \E accepted \in Accepts : Become(startConnect(o, accepted))
  <2>1. cc.mem = "live" /\ cc.timer_pending = uv.deadline /\ ~conn.closing
    BY <1>4, <1>7, <1>8, <1>11, <1>15, NowIs DEF Memory, CCs
  <2>2. t = r BY <1>12, <2>1 DEF touch
  <2> HIDE DEF t
  <2>3. /\ o \in States /\ o.cc = cc /\ o.conn = r.conn /\ o.js = js /\ p.uv \in Loops
        /\ o.uv = [p.uv EXCEPT !.open = p.uv.open \cup {"tcp"}]
    BY <1>2, <1>12, <2>2 DEF States, Loops
  <2> HIDE DEF o
  <2>4. o.uv.open = uv.open \cup {"tcp"}
    <3>1. o.uv.open = p.uv.open \cup {"tcp"} BY ONLY <2>3 DEF Loops
    <3> QED BY ONLY <1>2, <3>1
  <2>5. /\ o.uv.phase = p.uv.phase /\ o.uv.closing_handles = p.uv.closing_handles
        /\ o.uv.endgame = p.uv.endgame /\ o.uv.owed = p.uv.owed
        /\ o.uv.deadline = p.uv.deadline /\ o.uv.armed = p.uv.armed
        /\ o.uv.expired = p.uv.expired /\ o.uv.tried = p.uv.tried /\ o.uv.misuse = p.uv.misuse
    BY ONLY <2>3 DEF Loops
  <2>6. Due(o) = Due(p) /\ Queues(o) BY ONLY <1>2, <2>5 DEF Due, Queues
  <2>7. Handles(o)
    <3>1. /\ "onClose" \notin Due(o) /\ "onRetryClose" \notin Due(o)
          /\ "onCCClose" \in Due(o) <=> "onCCClose" \in Due(Now)
      BY <1>2, <1>9, <2>6
    <3>2. "tcp" \in o.uv.open /\ ("timer" \in o.uv.open <=> "timer" \in uv.open) BY <2>4
    <3> QED BY ONLY <1>2, <1>6, <1>9, <1>13, <2>1, <2>3, <2>5, <3>1, <3>2 DEF Handles
  <2>8. cc.addr_idx < cc.addr_count /\ uv.tried = cc.addr_idx
    BY <1>5, <1>11, <1>15, NowIs DEF Tries
  <2>9. /\ Unused(o) /\ NoConnect(o) /\ Memory(o) /\ Stage(o) /\ Tries(o) /\ Reason(o)
    BY ONLY <1>2, <1>6, <1>13, <1>15, <2>1, <2>3, <2>5
       DEF Unused, NoConnect, Memory, Stage, Tries, Reason
  <2>10. Told(o)
    BY ONLY <1>4, <1>5, <1>6, <1>13, <2>1, <2>3, NowIs DEF Sound, Told
  <2>11. Idle(o)
    BY <1>6, <1>13, <2>1, <2>3, <2>6, <2>7, <2>9, <2>10 DEF Idle, Undecided, Sound
  <2>12. o.cc.addr_idx < o.cc.addr_count /\ o.uv.tried = o.cc.addr_idx BY <1>2, <2>3, <2>5, <2>8
  <2>13. PICK accepted \in Accepts : Become(startConnect(o, accepted)) BY <1>15
  <2>14. accepted \in BOOLEAN /\ (~SyncFail => accepted) BY DEF Accepts
  <2> DEFINE u == startConnect(o, accepted)
  <2>15. Good(u) /\ (Unharmed(o) /\ accepted => Unharmed(u)) BY ONLY <2>11, <2>12, <2>14, StartConnect
  <2>16. Unharmed(Now) => Unharmed(o) BY <1>2, <1>13, <2>3, <2>5, NowIs DEF Unharmed, Recycled
  <2>17. Keeps(u) BY <2>14, <2>15, <2>16 DEF Keeps
  <2> QED BY <2>13, <2>17, Becomes
<1> QED BY <1>3, <1>14, <1>15

-----------------------------------------------------------------------------
(* The phases of the loop change only what the phase and the lists say. *)
LEMMA PhaseSound ==
  ASSUME Good(Now), NEW t \in States, t.cc = cc, t.conn = conn, t.js = js,
         t.uv.open = uv.open, t.uv.owed = uv.owed, t.uv.deadline = uv.deadline,
         t.uv.armed = uv.armed, t.uv.expired = uv.expired, t.uv.tried = uv.tried,
         t.uv.misuse = uv.misuse, Due(t) = Due(Now), Queues(t)
  PROVE  Good(t)
<1>1. Sound(Now) BY DEF Good
<1>2. /\ t.cc = cc /\ t.conn = conn /\ t.js = js
      /\ t.uv.open = uv.open /\ t.uv.owed = uv.owed /\ t.uv.deadline = uv.deadline
      /\ t.uv.armed = uv.armed /\ t.uv.expired = uv.expired /\ t.uv.tried = uv.tried
      /\ t.uv.misuse = uv.misuse /\ Due(t) = Due(Now)
  OBVIOUS
<1>3. Handles(t) BY ONLY <1>1, <1>2, NowIs DEF Sound, Handles
<1>4. Unused(t) /\ NoConnect(t) /\ Memory(t)
  BY ONLY <1>1, <1>2, NowIs DEF Sound, Unused, NoConnect, Memory
<1>5. Stage(t) /\ Tries(t) BY ONLY <1>1, <1>2, NowIs DEF Sound, Stage, Tries
<1>6. Told(t) /\ Reason(t) BY ONLY <1>1, <1>2, NowIs DEF Sound, Told, Reason
<1>7. Waits(t) BY ONLY <1>2, Good(Now), NowIs DEF Good, Waits
<1>8. Freed(t) BY ONLY <1>2, Good(Now), NowIs DEF Good, Freed
<1> QED BY <1>3, <1>4, <1>5, <1>6, <1>7, <1>8 DEF Good, Sound

LEMMA RunClosingKeeps ==
  ASSUME IInv, RunClosing
  PROVE  IInv'
<1> DEFINE t == Now'
<1>1. Good(Now) /\ Queues(Now) /\ cc \in CCs /\ conn \in Conns /\ js \in Promises /\ uv \in Loops
  BY NowIs DEF IInv, Good, Sound, States
<1>2. uv.phase = "poll" /\ uv.endgame = <<>> BY <1>1, NowIs DEF RunClosing, Queues
<1>3. uv' = [uv EXCEPT !.phase = "closing", !.endgame = uv.closing_handles, !.closing_handles = <<>>]
  BY DEF RunClosing
<1>4. uv' \in Loops BY ONLY <1>1, <1>3, InEmpty DEF Loops
<1>5. /\ uv'.phase = "closing" /\ uv'.endgame = uv.closing_handles /\ uv'.closing_handles = <<>>
      /\ uv'.deadline = uv.deadline /\ uv'.armed = uv.armed /\ uv'.expired = uv.expired
      /\ uv'.tried = uv.tried
  BY ONLY <1>1, <1>3 DEF Loops
<1>6. uv'.open = uv.open /\ uv'.owed = uv.owed /\ uv'.misuse = uv.misuse BY ONLY <1>1, <1>3 DEF Loops
<1>7. cc' = cc /\ conn' = conn /\ js' = js BY DEF RunClosing
<1>8. t.cc = cc /\ t.conn = conn /\ t.js = js /\ t.uv = uv' BY <1>7 DEF Now
<1>9. t \in States BY <1>1, <1>4, <1>7 DEF States, Now
<1> HIDE DEF t
<1>10. Due(t) = Due(Now) BY <1>2, <1>5, <1>8, NowIs, InEmpty DEF Due
<1>11. Queues(t) BY <1>1, <1>5, <1>8, NowIs, InEmpty DEF Queues
<1>12. Good(t) BY ONLY <1>1, <1>5, <1>6, <1>8, <1>9, <1>10, <1>11, PhaseSound
<1>13. Unharmed(Now) => Unharmed(t)
  BY ONLY <1>2, <1>5, <1>6, <1>8, NowIs, InEmpty DEF Unharmed, Recycled
<1>14. Keeps(t) BY <1>12, <1>13 DEF Keeps
<1>15. Become(t) BY <1>7, <1>8 DEF Become
<1> QED BY <1>14, <1>15, Becomes

LEMMA RunTimersKeeps ==
  ASSUME IInv, RunTimers
  PROVE  IInv'
<1> DEFINE t == Now'
<1>1. Sound(Now) /\ Good(Now) /\ cc \in CCs /\ conn \in Conns /\ js \in Promises /\ uv \in Loops
  BY NowIs DEF IInv, Good, Sound, States
<1>2. uv.phase = "closing" /\ uv.endgame = <<>> /\ uv' = [uv EXCEPT !.phase = "timers"]
      /\ cc' = cc /\ conn' = conn /\ js' = js
  BY DEF RunTimers
<1>3. uv' \in Loops BY ONLY <1>1, <1>2 DEF Loops
<1>4. /\ uv'.phase = "timers" /\ uv'.endgame = uv.endgame /\ uv'.closing_handles = uv.closing_handles
      /\ uv'.deadline = uv.deadline /\ uv'.armed = uv.armed /\ uv'.expired = uv.expired
      /\ uv'.tried = uv.tried
  BY ONLY <1>1, <1>2 DEF Loops
<1>5. uv'.open = uv.open /\ uv'.owed = uv.owed /\ uv'.misuse = uv.misuse BY ONLY <1>1, <1>2 DEF Loops
<1>6. t.cc = cc /\ t.conn = conn /\ t.js = js /\ t.uv = uv' BY <1>2 DEF Now
<1>7. t \in States BY <1>1, <1>2, <1>3 DEF States, Now
<1> HIDE DEF t
<1>8. Due(t) = Due(Now) BY <1>4, <1>6, NowIs DEF Due
<1>9. Queues(t) BY <1>1, <1>2, <1>4, <1>6, NowIs DEF Sound, Queues
<1>10. Good(t) BY ONLY <1>1, <1>4, <1>5, <1>6, <1>7, <1>8, <1>9, PhaseSound
(* A handle closed for its address has had its callback: none was closed    *)
(* since, and the list the phase took is done.                              *)
<1>11. ASSUME Unharmed(Now) PROVE Unharmed(t)
  <2>1. ~conn.recycling
    <3>1. SUFFICES ASSUME conn.recycling PROVE FALSE OBVIOUS
    <3>2. "onRetryClose" \notin In(uv.closing_handles) BY <1>2, <1>11, <3>1, NowIs DEF Unharmed, Recycled
    <3>3. "onRetryClose" \notin Due(Now) BY <1>2, <3>2, NowIs, InEmpty DEF Due
    <3>4. conn.mem = "live" BY <1>1, <3>1, NowIs DEF Sound, Stage
    <3> QED BY <1>1, <3>1, <3>3, <3>4, NowIs DEF Sound, Handles
  <2> QED BY <1>5, <1>6, <1>11, <2>1, NowIs DEF Unharmed, Recycled
<1>12. Keeps(t) BY <1>10, <1>11 DEF Keeps
<1>13. Become(t) BY <1>6, <1>2 DEF Become
<1> QED BY <1>12, <1>13, Becomes

LEMMA PollKeeps ==
  ASSUME IInv, Poll
  PROVE  IInv'
<1> DEFINE t == Now'
<1>1. Sound(Now) /\ Good(Now) /\ cc \in CCs /\ conn \in Conns /\ js \in Promises /\ uv \in Loops
  BY NowIs DEF IInv, Good, Sound, States
<1>2. uv.phase = "timers" /\ uv' = [uv EXCEPT !.phase = "poll"] /\ cc' = cc /\ conn' = conn /\ js' = js
  BY DEF Poll
<1>3. uv' \in Loops BY ONLY <1>1, <1>2 DEF Loops
<1>4. /\ uv'.phase = "poll" /\ uv'.endgame = uv.endgame /\ uv'.closing_handles = uv.closing_handles
      /\ uv'.deadline = uv.deadline /\ uv'.armed = uv.armed /\ uv'.expired = uv.expired
      /\ uv'.tried = uv.tried
  BY ONLY <1>1, <1>2 DEF Loops
<1>5. uv'.open = uv.open /\ uv'.owed = uv.owed /\ uv'.misuse = uv.misuse BY ONLY <1>1, <1>2 DEF Loops
<1>6. t.cc = cc /\ t.conn = conn /\ t.js = js /\ t.uv = uv' BY <1>2 DEF Now
<1>7. t \in States BY <1>1, <1>2, <1>3 DEF States, Now
<1> HIDE DEF t
<1>8. Due(t) = Due(Now) BY <1>4, <1>6, NowIs DEF Due
<1>9. Queues(t) BY <1>1, <1>2, <1>4, <1>6, NowIs DEF Sound, Queues
<1>10. Good(t) BY ONLY <1>1, <1>4, <1>5, <1>6, <1>7, <1>8, <1>9, PhaseSound
<1>11. Unharmed(Now) => Unharmed(t) BY <1>2, <1>4, <1>5, <1>6, NowIs DEF Unharmed, Recycled
<1>12. Keeps(t) BY <1>10, <1>11 DEF Keeps
<1>13. Become(t) BY <1>6, <1>2 DEF Become
<1> QED BY <1>12, <1>13, Becomes

-----------------------------------------------------------------------------
(* The inductive invariant. *)

LEMMA StepKeeps == IInv /\ [Next]_vars => IInv'
<1> SUFFICES ASSUME IInv, [Next]_vars PROVE IInv'
  OBVIOUS
<1>1. CASE connect
  <2>1. CASE ConnectTlsRefused BY <2>1, ConnectTlsRefusedKeeps
  <2>2. ASSUME NEW tls \in BOOLEAN, NEW deadline \in BOOLEAN, ConnectLiteral(tls, deadline) PROVE IInv'
    BY <2>2, ConnectLiteralKeeps
  <2>3. ASSUME NEW tls \in BOOLEAN, NEW deadline \in BOOLEAN, ConnectName(tls, deadline) PROVE IInv'
    BY <2>3, ConnectNameKeeps
  <2> QED BY <1>1, <2>1, <2>2, <2>3 DEF connect
<1>2. CASE \E found \in Answers : onResolve(found) BY <1>2, ResolveKeeps
<1>3. CASE onConnect BY <1>3, ConnectKeeps
<1>4. CASE onConnectFailed BY <1>4, ConnectFailedKeeps
<1>5. CASE HandshakeDone BY <1>5, HandshakeDoneKeeps
<1>6. CASE HandshakeFails BY <1>6, HandshakeFailsKeeps
<1>7. CASE onConnectTimeout BY <1>7, TimeoutKeeps
<1>8. CASE Destroy BY <1>8, DestroyKeeps
<1>9. CASE PeerGone BY <1>9, PeerGoneKeeps
<1>10. CASE Closing BY <1>10, CCCloseKeeps, OnCloseKeeps, RetryCloseKeeps DEF Closing
<1>11. CASE Loop BY <1>11, RunClosingKeeps, RunTimersKeeps, PollKeeps DEF Loop
<1>12. CASE UNCHANGED vars
  <2>1. Now' = Now BY <1>12 DEF Now, vars
  <2> QED BY <2>1 DEF IInv
<1> QED BY <1>1, <1>2, <1>3, <1>4, <1>5, <1>6, <1>7, <1>8, <1>9, <1>10, <1>11, <1>12 DEF Next

LEMMA Invariance == Spec => []IInv
BY InitIInv, StepKeeps, PTL DEF Spec

-----------------------------------------------------------------------------
(* What it implies. *)

LEMMA GoodIsSafe ==
  ASSUME Good(Now)
  PROVE  TypeOK /\ HandlesClosedOnce /\ NothingLeaks /\ RejectionIsTrue /\ EndToldOnce
<1> DEFINE why == connectError(conn.close_reason)
<1>1. Sound(Now) /\ Freed(Now) /\ cc \in CCs /\ conn \in Conns /\ js \in Promises /\ uv \in Loops
  BY NowIs DEF Good, Sound, States
<1>2. TypeOK BY <1>1 DEF TypeOK, CCs, Conns, Promises, Loops
<1>3. HandlesClosedOnce BY <1>1, NowIs DEF Sound, Handles, HandlesClosedOnce
<1>4. conn.mem \in {"none", "live", "released"} /\ conn.close_reason \in Reasons BY <1>1 DEF Conns
<1>5. NothingLeaks
  <2>1. SUFFICES ASSUME uv.deadline, conn.mem = "released" \/ ~conn.connect,
                        uv.owed = {}, uv.closing_handles = <<>>, uv.endgame = <<>>
                 PROVE  cc.mem = "freed"
    BY DEF NothingLeaks
  <2>2. cc.mem # "none" /\ conn.mem # "none" BY <1>1, <2>1, NowIs DEF Sound, NoConnect, Unused
  <2>3. conn.mem = "released" => conn.closing BY <1>1, NowIs DEF Sound, Stage
  <2>4. cc.resolved BY <1>1, <2>1, <2>2, <2>3, NowIs DEF Sound, Stage
  <2>5. Due(Now) = {} BY <2>1, NowIs, InEmpty DEF Due
  <2>6. ~cc.gai_pending /\ ~cc.connect_pending /\ ~cc.timer_pending
    BY <1>1, <2>1, <2>4, <2>5, NowIs DEF Sound, Handles
  <2> QED BY <1>1, <2>1, <2>4, <2>6, NowIs DEF Freed
<1>6. /\ conn.mem = "none" => js.promise = "none" /\ js.closes = 0
      /\ conn.mem = "live" => js.promise \in {"pending", "resolved"} /\ js.closes = 0
      /\ conn.mem = "released" => \/ js.promise = "resolved" /\ js.closes = 1
                                  \/ /\ js.promise = why /\ js.closes = 0
                                     /\ conn.up => conn.tls = "handshake"
  BY <1>1, NowIs DEF Sound, Unused, Told
<1>9. why \in ConnectErrorReason BY <1>4 DEF Reasons, ConnectErrorReason, connectError
<1>7. RejectionIsTrue
  <2>1. SUFFICES ASSUME js.promise \in ConnectErrorReason PROVE RejectionIsTrue
    BY DEF RejectionIsTrue, ConnectErrorReason
  <2>2. conn.mem = "released" /\ js.promise = why /\ (conn.up => conn.tls = "handshake")
    BY <1>4, <1>6, <2>1 DEF ConnectErrorReason
  <2>3. conn.closing BY <1>1, <2>2, NowIs DEF Sound, Stage
  <2>4. /\ conn.close_reason = "refused" => uv.tried = cc.addr_count
        /\ conn.close_reason = "dns" => uv.tried = 0
        /\ conn.close_reason = "timeout" => uv.expired
        /\ conn.close_reason \in {"normal", "peer_reset"} => conn.up
        /\ conn.close_reason = "tls_error" => conn.up \/ cc.mem = "none"
    BY <1>1, <2>3, NowIs DEF Sound, Reason
  <2> QED BY ONLY <1>4, <2>2, <2>4 DEF RejectionIsTrue, Reasons, ConnectErrorReason, connectError
<1>8. EndToldOnce BY <1>4, <1>6, <1>9 DEF EndToldOnce, ConnectErrorReason
<1> QED BY <1>2, <1>3, <1>5, <1>7, <1>8

(* For any number of addresses, whatever the resolver, the kernel, the      *)
(* deadline and the application do, and even if a connect may fail at once: *)
(* no handle is closed twice (uv_close in nextAddrOrFail, closeConn and     *)
(* markResolved), a settled connect with a deadline leaves no ClientConnect *)
(* behind (ccMaybeFree), and the promise or the socket hears of the end     *)
(* once (releaseConn); a rejection by the code CONNECT_ERRORS gives it is   *)
(* borne out by what happened (dispatch, in the sense of RejectionIsTrue).  *)
THEOREM ConnectEndsOnce ==
  Spec => [](TypeOK /\ HandlesClosedOnce /\ NothingLeaks /\ RejectionIsTrue /\ EndToldOnce)
<1>1. IInv => TypeOK /\ HandlesClosedOnce /\ NothingLeaks /\ RejectionIsTrue /\ EndToldOnce
  BY GoodIsSafe DEF IInv
<1> QED BY <1>1, Invariance, PTL

(* While the kernel takes every connect request, the ClientConnect is, on   *)
(* top of that, never reached after it was freed nor freed twice: the       *)
(* callback of the handle that a failed address closed runs before any      *)
(* timer can settle the connect (onRetryClose, onConnectTimeout).           *)
THEOREM ConnectSafeTheorem ==
  ASSUME ~SyncFail
  PROVE  Spec => []ConnectSafe
<1>1. IInv => ConnectSafe
  <2>1. SUFFICES ASSUME IInv PROVE ConnectSafe OBVIOUS
  <2>2. uv.misuse = {} BY <2>1, NowIs DEF IInv, Unharmed
  <2>3. NoUseAfterFree BY <2>2 DEF NoUseAfterFree
  <2> QED BY <2>1, <2>3, GoodIsSafe DEF IInv, ConnectSafe
<1> QED BY <1>1, Invariance, PTL
============================================================================
