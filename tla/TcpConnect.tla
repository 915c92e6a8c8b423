----------------------------- MODULE TcpConnect -----------------------------
(* One outbound connection of the raw TCP engine, from connectTcp to its    *)
(* last callback: src/net/tcp.zig (connect to ccMaybeFree, closeConn to     *)
(* releaseConn) and the promise of ts/net/tcp.ts.  A ClientConnect (`cc')   *)
(* carries the resolve, connect and deadline requests; it must outlive each *)
(* of their callbacks, and the handle is closed and opened again between    *)
(* two addresses.                                                           *)
(*                                                                          *)
(* A handler calls others before it returns, so each function of the source *)
(* is an operator from a state to a state, and an action runs one callback. *)
EXTENDS Integers, Sequences, FiniteSets

CONSTANTS
    MaxAddrs,   \* max_connect_addrs, bounded
    SyncFail    \* may uv_tcp_connect refuse at once (an unreachable network)?

ASSUME MaxAddrsAssumption == MaxAddrs \in Nat \ {0}
ASSUME SyncFailAssumption == SyncFail \in BOOLEAN

VARIABLES
    cc,     \* the ClientConnect and whether its memory is live
    conn,   \* the Conn
    js,     \* the promise and socket of this id in ts/net/tcp.ts
    uv      \* libuv's side: loop phase, handles, callbacks owed

vars == <<cc, conn, js, uv>>

Reasons == {"normal", "peer_reset", "tls_error", "dns", "refused", "timeout"}
ConnectErrorReason == {"dns", "refused", "timeout", "tls-verify"}
Callbacks == {"onClose", "onRetryClose", "onCCClose"}

TypeOK ==
    /\ cc \in [mem : {"none", "live", "freed"}, gai_pending : BOOLEAN, connect_pending : BOOLEAN,
               timer_pending : BOOLEAN, resolved : BOOLEAN, addr_idx : 0..MaxAddrs, addr_count : 0..MaxAddrs]
    /\ conn \in [mem : {"none", "live", "released"}, connect : BOOLEAN, recycling : BOOLEAN, closing : BOOLEAN,
                 tls : {"none", "handshake", "established"}, up : BOOLEAN, close_reason : Reasons]
    /\ js \in [promise : {"none", "pending", "resolved"} \cup ConnectErrorReason, pending : BOOLEAN, socket : BOOLEAN, closes : 0..1]
    /\ uv \in [phase : {"poll", "closing", "timers"}, closing_handles : Seq(Callbacks), endgame : Seq(Callbacks),
               open : SUBSET {"tcp", "timer"}, owed : SUBSET {"gai", "connect"}, deadline : BOOLEAN,
               armed : BOOLEAN, expired : BOOLEAN, tried : 0..MaxAddrs,
               misuse : SUBSET {"use after free", "double free", "double close"}]

Init ==
    /\ cc = [mem |-> "none", gai_pending |-> FALSE, connect_pending |-> FALSE, timer_pending |-> FALSE,
             resolved |-> FALSE, addr_idx |-> 0, addr_count |-> 0]
    /\ conn = [mem |-> "none", connect |-> FALSE, recycling |-> FALSE, closing |-> FALSE,
               tls |-> "none", up |-> FALSE, close_reason |-> "normal"]
    /\ js = [promise |-> "none", pending |-> FALSE, socket |-> FALSE, closes |-> 0]
    /\ uv = [phase |-> "poll", closing_handles |-> <<>>, endgame |-> <<>>, open |-> {}, owed |-> {},
             deadline |-> FALSE, armed |-> FALSE, expired |-> FALSE, tried |-> 0, misuse |-> {}]

Now == [cc |-> cc, conn |-> conn, js |-> js, uv |-> uv]
Become(t) == /\ cc' = t.cc /\ conn' = t.conn /\ js' = t.js /\ uv' = t.uv

-----------------------------------------------------------------------------
(* libuv.  A closed handle joins the front of the list that the closing     *)
(* phase of the iteration takes; its callback is told by name.  A loop      *)
(* iteration has three phases here: poll, closing, timers.                  *)

uv_close(t, handle, callback) ==
    IF handle \in t.uv.open
    THEN [t EXCEPT !.uv.open = @ \ {handle}, !.uv.closing_handles = <<callback>> \o @]
    ELSE [t EXCEPT !.uv.misuse = @ \cup {"double close"}]

(* A callback that reaches the ClientConnect.  What it reads from freed     *)
(* memory is taken to be what was there; `misuse' records that it did.      *)
touch(t) == IF t.cc.mem = "freed" THEN [t EXCEPT !.uv.misuse = @ \cup {"use after free"}] ELSE t

-----------------------------------------------------------------------------
(* The JavaScript side of an event of this id: `pending' is its entry in    *)
(* pendingConnects, `socket' its entry in sockets.                          *)

(* CONNECT_ERRORS: why a connect failed, by the reason of its close event;  *)
(* a reset of the handshake reads as a refusal, and so does any other end.  *)
connectError(reason) ==
    CASE reason \in {"dns", "timeout"} -> reason
      [] reason = "tls_error" -> "tls-verify"
      [] reason \notin {"dns", "timeout", "tls_error"} -> "refused"

settle(t, outcome) == IF t.js.promise = "pending" THEN [t EXCEPT !.js.promise = outcome] ELSE t

dispatch(t, event) ==
    CASE event = "connection" -> settle([t EXCEPT !.js.pending = FALSE, !.js.socket = TRUE], "resolved")
      [] event = "close" /\ t.js.pending -> settle([t EXCEPT !.js.pending = FALSE], connectError(t.conn.close_reason))
      [] event = "close" /\ ~t.js.pending /\ t.js.socket ->
            [t EXCEPT !.js.socket = FALSE, !.js.closes = @ + 1]

-----------------------------------------------------------------------------
(* The ClientConnect and its end. *)

(* seeded fault *)
ccFreeWithTimer(t) ==
    IF t.cc.gai_pending \/ t.cc.connect_pending THEN t ELSE [t EXCEPT !.cc.mem = "freed"]

ccMaybeFree(t) ==
    IF t.cc.gai_pending \/ t.cc.connect_pending \/ t.cc.timer_pending THEN t
    ELSE IF t.cc.mem = "freed" THEN [t EXCEPT !.uv.misuse = @ \cup {"double free"}]
    ELSE [t EXCEPT !.cc.mem = "freed"]

markResolved(t) ==
    IF t.cc.resolved THEN t
    ELSE LET decided == [t EXCEPT !.cc.resolved = TRUE]
         IN IF t.cc.timer_pending
            THEN uv_close([decided EXCEPT !.uv.armed = FALSE], "timer", "onCCClose")
            ELSE decided

closeConn(t, reason) ==
    IF t.conn.closing THEN t
    ELSE LET u == [t EXCEPT !.conn.close_reason = reason]
             v == IF u.conn.connect THEN markResolved(touch(u)) ELSE u
         IN uv_close([v EXCEPT !.conn.closing = TRUE], "tcp", "onClose")

abortConnect(t, reason) ==
    IF t.cc.resolved THEN ccMaybeFree(t)
    ELSE LET u == [markResolved(t) EXCEPT !.conn.close_reason = reason]
         IN IF u.conn.recycling THEN [u EXCEPT !.conn.closing = TRUE]
            ELSE ccMaybeFree(closeConn(u, reason))

releaseConn(t) == [dispatch(t, "close") EXCEPT !.conn.mem = "released"]

nextAddrOrFail(t) ==
    LET u == [t EXCEPT !.cc.addr_idx = @ + 1]
    IN IF u.cc.addr_idx >= u.cc.addr_count THEN abortConnect(u, "refused")
       ELSE uv_close([u EXCEPT !.conn.recycling = TRUE], "tcp", "onRetryClose")

(* `accepted': did uv_tcp_connect take the request? *)
startConnect(t, accepted) ==
    LET u == [t EXCEPT !.uv.tried = @ + 1]
    IN IF accepted THEN [u EXCEPT !.cc.connect_pending = TRUE, !.uv.owed = @ \cup {"connect"}]
       ELSE nextAddrOrFail(u)

Accepts == IF SyncFail THEN BOOLEAN ELSE {TRUE}

resolveConnect(t) ==
    IF ~t.conn.connect THEN t
    ELSE ccMaybeFree([markResolved(touch(t)) EXCEPT !.conn.connect = FALSE])

-----------------------------------------------------------------------------
(* connectTcp: `tls' may fail to set up, before there is a ClientConnect.   *)

newConn(tls) ==
    [Now EXCEPT !.conn.mem = "live", !.conn.tls = IF tls THEN "handshake" ELSE "none",
                !.js.promise = "pending", !.js.pending = TRUE, !.uv.open = {"tcp"}]

newConnect(tls, deadline) ==
    [newConn(tls) EXCEPT !.cc.mem = "live", !.cc.timer_pending = deadline, !.conn.connect = TRUE,
                         !.uv.deadline = deadline, !.uv.armed = deadline,
                         !.uv.open = IF deadline THEN {"tcp", "timer"} ELSE {"tcp"}]

JsRuns == uv.phase \in {"poll", "timers"}

ConnectTlsRefused ==
    /\ JsRuns /\ conn.mem = "none"
    /\ Become(closeConn([newConn(TRUE) EXCEPT !.conn.tls = "none"], "tls_error"))

ConnectLiteral(tls, deadline) ==
    /\ JsRuns /\ conn.mem = "none"
    /\ \E accepted \in Accepts :
         Become(startConnect([newConnect(tls, deadline) EXCEPT !.cc.addr_count = 1], accepted))

ConnectName(tls, deadline) ==
    /\ JsRuns /\ conn.mem = "none"
    /\ \/ Become([newConnect(tls, deadline) EXCEPT !.cc.gai_pending = TRUE, !.uv.owed = {"gai"}])
       \/ Become(abortConnect(newConnect(tls, deadline), "dns"))

connect == ConnectTlsRefused \/ \E tls, deadline \in BOOLEAN :
                                   ConnectLiteral(tls, deadline) \/ ConnectName(tls, deadline)

(* The resolver answers with `found' addresses, 0 for a failure; the first  *)
(* MaxAddrs are collected.                                                  *)
Answers == 0..(MaxAddrs + 1)

collect(found) == IF found > MaxAddrs THEN MaxAddrs ELSE found

onResolve(found) ==
    /\ uv.phase = "poll" /\ "gai" \in uv.owed
    /\ LET t == touch([Now EXCEPT !.cc.gai_pending = FALSE, !.uv.owed = @ \ {"gai"}])
       IN \/ cc.resolved /\ Become(ccMaybeFree(t))
          \/ ~cc.resolved /\ found = 0 /\ Become(abortConnect(t, "dns"))
          \/ /\ ~cc.resolved /\ found > 0
             /\ \E accepted \in Accepts :
                  Become(startConnect([t EXCEPT !.cc.addr_count = collect(found)], accepted))

(* onConnect for a connect that failed or was cancelled by a close. *)

connectFailed(s) ==
    LET t == touch([s EXCEPT !.cc.connect_pending = FALSE, !.uv.owed = @ \ {"connect"}])
    IN IF t.cc.resolved THEN ccMaybeFree(t) ELSE nextAddrOrFail(t)

ConnectAnswers == uv.phase = "poll" /\ "connect" \in uv.owed /\ "tcp" \in uv.open

onConnectFailed == ConnectAnswers /\ Become(connectFailed(Now))

(* The socket is up (so nothing closed it, and cc is not resolved).         *)
(* Plaintext: the promise is resolved.  TLS: the hello goes out, unless the *)
(* handshake fails at once, and the deadline keeps running.                 *)
ConnectionUp == touch([Now EXCEPT !.cc.connect_pending = FALSE, !.uv.owed = @ \ {"connect"}, !.conn.up = TRUE])

(* seeded fault *)
onConnectSettlesTls ==
    /\ ConnectAnswers
    /\ IF conn.tls = "none" THEN Become(resolveConnect(dispatch(ConnectionUp, "connection")))
       ELSE Become(resolveConnect(ConnectionUp))

onConnect ==
    /\ ConnectAnswers
    /\ \/ conn.tls = "none" /\ Become(resolveConnect(dispatch(ConnectionUp, "connection")))
       \/ conn.tls # "none" /\ Become(ConnectionUp)
       \/ conn.tls # "none" /\ Become(closeConn(ConnectionUp, "tls_error"))

(* tlsDrive while the handshake runs: it completes, fails, or the peer goes. *)
Reading == uv.phase = "poll" /\ conn.up /\ ~conn.closing

HandshakeDone ==
    /\ Reading /\ conn.tls = "handshake"
    /\ Become(dispatch(resolveConnect([Now EXCEPT !.conn.tls = "established"]), "connection"))

HandshakeFails ==
    /\ Reading /\ conn.tls = "handshake"
    /\ \E reason \in {"tls_error", "peer_reset"} : Become(closeConn(Now, reason))

(* The established socket: destroy(), or a TLS peer that vanished. *)
Destroy == JsRuns /\ js.socket /\ ~conn.closing /\ Become(closeConn(Now, "normal"))
PeerGone == Reading /\ conn.tls = "established" /\ Become(closeConn(Now, "peer_reset"))

(* The deadline. *)
onConnectTimeout ==
    /\ uv.phase = "timers" /\ uv.armed
    /\ Become(abortConnect(touch([Now EXCEPT !.uv.armed = FALSE, !.uv.expired = TRUE]), "timeout"))

-----------------------------------------------------------------------------
(* The closing phase.  A closed tcp handle first fails the connect it owes. *)

Ended(callback) ==
    /\ uv.phase = "closing" /\ uv.endgame # <<>> /\ Head(uv.endgame) = callback

Popped == [Now EXCEPT !.uv.endgame = Tail(@)]
Cancelled == IF "connect" \in uv.owed THEN connectFailed(Popped) ELSE Popped

onCCClose ==
    /\ Ended("onCCClose")
    /\ Become(ccMaybeFree(touch([Popped EXCEPT !.cc.timer_pending = FALSE])))

onClose == Ended("onClose") /\ Become(releaseConn(Cancelled))

onRetryClose ==
    /\ Ended("onRetryClose")
    /\ LET t == touch([Popped EXCEPT !.conn.recycling = FALSE])
       IN IF cc.resolved THEN Become(ccMaybeFree(releaseConn(t)))
          ELSE \E accepted \in Accepts :
                  Become(startConnect([t EXCEPT !.uv.open = @ \cup {"tcp"}], accepted))

RunClosing ==
    /\ uv.phase = "poll"
    /\ uv' = [uv EXCEPT !.phase = "closing", !.endgame = uv.closing_handles, !.closing_handles = <<>>]
    /\ UNCHANGED <<cc, conn, js>>
RunTimers ==
    /\ uv.phase = "closing" /\ uv.endgame = <<>>
    /\ uv' = [uv EXCEPT !.phase = "timers"]
    /\ UNCHANGED <<cc, conn, js>>
Poll ==
    /\ uv.phase = "timers"
    /\ uv' = [uv EXCEPT !.phase = "poll"]
    /\ UNCHANGED <<cc, conn, js>>

Closing == onCCClose \/ onClose \/ onRetryClose
Loop == RunClosing \/ RunTimers \/ Poll

Next ==
    \/ connect
    \/ \E found \in Answers : onResolve(found)
    \/ onConnect \/ onConnectFailed \/ HandshakeDone \/ HandshakeFails
    \/ onConnectTimeout
    \/ Destroy \/ PeerGone
    \/ Closing \/ Loop

(* libuv goes round its loop and delivers what is due: the resolver's and   *)
(* the kernel's answer to a connect (strongly: the phases keep disabling    *)
(* them), a deadline that passed.  Nothing makes the peer go on with a      *)
(* handshake.                                                               *)
Fairness ==
    /\ WF_vars(Closing) /\ WF_vars(Loop)
    /\ SF_vars(\E found \in Answers : onResolve(found))
    /\ SF_vars(onConnect \/ onConnectFailed)
    /\ SF_vars(onConnectTimeout)

Spec == Init /\ [][Next]_vars /\ Fairness

-----------------------------------------------------------------------------
(* A ClientConnect is not touched, nor freed again, after it was freed:     *)
(* ccMaybeFree waits for every callback that can reach it.                  *)
NoUseAfterFree == uv.misuse \cap {"use after free", "double free"} = {}

(* No handle is closed twice, whatever closes it: a failed address, the     *)
(* deadline in the gap between two addresses, the application.              *)
HandlesClosedOnce == "double close" \notin uv.misuse

(* When a connection with a deadline is settled and libuv owes nothing      *)
(* more, its ClientConnect has been freed.                                  *)
NothingLeaks ==
    ( /\ uv.deadline
      /\ conn.mem = "released" \/ ~conn.connect
      /\ uv.owed = {} /\ uv.closing_handles = <<>> /\ uv.endgame = <<>> )
        => cc.mem = "freed"

(* A rejection tells what happened.  `dns': no address was tried.           *)
(* `timeout': the deadline passed.  `refused': each address the resolver    *)
(* found was tried, or one was reached and its peer broke off the           *)
(* handshake.  `tls-verify': TLS could not be set up, or failed with a peer *)
(* that was reached.  A plaintext connection that came up, or one whose     *)
(* handshake was completed, is not rejected whatever closes it.             *)
RejectionIsTrue ==
    /\ js.promise = "dns" => uv.tried = 0
    /\ js.promise = "timeout" => uv.expired
    /\ js.promise = "refused" => uv.tried = cc.addr_count \/ conn.up
    /\ js.promise = "tls-verify" => conn.up \/ cc.mem = "none"
    /\ js.promise \in ConnectErrorReason /\ conn.up => conn.tls = "handshake"

(* JavaScript hears of the end exactly once, when the connection is         *)
(* released: as the rejection of the promise, or, if that was resolved, as  *)
(* the close event of its socket.                                           *)
EndToldOnce ==
    IF conn.mem = "released"
    THEN \/ js.promise = "resolved" /\ js.closes = 1
         \/ js.promise \in ConnectErrorReason /\ js.closes = 0
    ELSE js.promise \notin ConnectErrorReason /\ js.closes = 0

(* Answers, addresses that fail, the deadline, the application and libuv's  *)
(* closing phase in any order: the ClientConnect is freed once and last,    *)
(* each handle closed once (ccMaybeFree, nextAddrOrFail, onCCClose), and    *)
(* what the promise and the socket are told is what happened, once.         *)
ConnectSafe ==
    /\ TypeOK /\ NoUseAfterFree /\ HandlesClosedOnce /\ NothingLeaks
    /\ RejectionIsTrue /\ EndToldOnce

(* A connect that has a deadline, or needs no handshake, is settled.        *)
Settles == (js.promise = "pending" /\ (uv.deadline \/ conn.tls = "none")) ~> (js.promise # "pending")
=============================================================================
