------------------------------ MODULE SecureUdp -----------------------------
(***************************************************************************)
(* Encrypted UDP sessions over Noise XX: createSecureUdpServer with its    *)
(* peer table, and the clients connectSecureUdp makes, on a network that   *)
(* delays, reorders, duplicates and loses datagrams.  A client is an       *)
(* attempt, named by its number; an address is used again by a later one.  *)
(* A transport key is the pair <<attempt, sid>> of the two ephemeral keys  *)
(* it comes from: only their two owners can compute it.                    *)
(***************************************************************************)
EXTENDS Integers, FiniteSets, Bags, Sequences

CONSTANTS Addrs,             \* source addresses, ip:port
          MaxAttempts,       \* bound: calls of connectSecureUdp
          MaxCopies,         \* bound: datagrams retransmitted or duplicated
          MaxData,           \* bound: datagrams the applications seal
          MayThrow,          \* whether the application's onSession throws
          MaxPending, MaxSessions, Ttl,   \* SecureUdpServerOptions
          Window             \* ReplayFilter's WINDOW

ASSUME SecureUdpAssumption ==
  /\ {MaxAttempts, MaxCopies, MaxData, Ttl} \subseteq Nat
  /\ {MaxPending, MaxSessions, Window} \subseteq Nat \ {0}
  /\ MayThrow \in BOOLEAN

VARIABLES attempts,     \* the clients: their addresses, handshakes and sessions
          peers,        \* the server's Map: each peer, with the handshake that entered it
          pending, established,   \* the counters beside it
          bound,        \* the server is listening
          nextSid,      \* names the next ephemeral key the server generates
          net,          \* datagrams in flight
          copies,       \* those made so far
          sealed, opened     \* what the applications sent and were handed

server  == <<peers, pending, established, bound, nextSid>>
udpVars == <<attempts, server, net, copies, sealed, opened>>

NoKey == <<>>      \* null: no handshake, no session
Garbage == 0       \* bytes read as an ephemeral key that nobody holds

-----------------------------------------------------------------------------
(* One NoiseSession: its key, its send counter and its ReplayFilter.        *)

NewSession(key) == [key |-> key, counter |-> 0, high |-> -1, bits |-> {}]
None == NewSession(NoKey)

\* NoiseSession.seal takes the next counter
Sent(s) == [s EXCEPT !.counter = @ + 1]

\* ReplayFilter.check: whether counter n is fresh ...
Fresh(s, n) == \/ n > s.high
               \/ n > s.high - Window /\ n \notin s.bits

\* seeded fault: the counter that advances the window is not remembered
RecordedForgetsNewest(s, n) ==
  IF n > s.high THEN [s EXCEPT !.high = n, !.bits = {b \in @ : b > s.high - Window}]
  ELSE [s EXCEPT !.bits = @ \cup {n}]

\* ... and the filter once it is recorded
Recorded(s, n) ==
  IF n > s.high THEN [s EXCEPT !.high = n, !.bits = {b \in @ : b > s.high - Window} \cup {n}]
  ELSE [s EXCEPT !.bits = @ \cup {n}]

\* NoiseSession.open: authentic, and not seen before
Opens(s, d) == d.key = s.key /\ Fresh(s, d.n)

-----------------------------------------------------------------------------
(* The peer table.                                                          *)

Keys == DOMAIN peers

Half(p) == p.hs # NoKey /\ p.session = None      \* half-open, nothing to lose
Shaking(p) == p.hs # NoKey
Holds(p) == p.session # None

\* peers.set and peers.delete
WithPeer(t, a, p) == [b \in DOMAIN t \cup {a} |-> IF b = a THEN p ELSE t[b]]
WithoutPeers(t, as) == [a \in DOMAIN t \ as |-> t[a]]

\* the first of these in the order of the Map, which is that in which they were entered
Oldest(t, among) == {a \in among : \A b \in among : t[a].since <= t[b].since}

\* forget: leaves the table and every counter that counted it
ForgetAll(as) ==
  /\ peers' = WithoutPeers(peers, as)
  /\ pending' = pending - Cardinality({a \in as : Shaking(peers[a])})
  /\ established' = established - Cardinality({a \in as : Holds(peers[a])})

-----------------------------------------------------------------------------
SecureUdpInit ==
  /\ attempts = <<>> /\ peers = <<>> /\ pending = 0 /\ established = 0 /\ bound = TRUE
  /\ nextSid = 1 /\ net = {} /\ copies = 0
  /\ sealed = {} /\ opened = EmptyBag

Message(kind, a, k) == [kind |-> kind, addr |-> a, key |-> k]
Transport(dir, a, k, n) == [kind |-> dir, addr |-> a, key |-> k, n |-> n]

\* A datagram that is lost, that nobody listens for or that its reader drops stays in
\* net for ever: only one that changes something is handed over.  The network keeps
\* a copy of it if it duplicates it, and carries `out` from then on.
Exchange(d, out) ==
  \/ net' = (net \ {d}) \cup out /\ UNCHANGED copies
  \/ copies < MaxCopies /\ copies' = copies + 1 /\ net' = net \cup out

-----------------------------------------------------------------------------
(* The server: onDatagram.                                                  *)

\* evictOldestPending, at the cap
RoomForHandshake ==
  IF pending >= MaxPending THEN Oldest(peers, {a \in Keys : Half(peers[a])}) ELSE {}

\* Any handshake datagram in first position is read as msg1 (XX's first message is not
\* encrypted): msg1 itself, or a msg3 whose handshake is gone.  The answer is msg2.
StartHandshake(d) ==
  LET a    == d.addr
      hs   == <<IF d.kind = "msg1" THEN d.key[1] ELSE Garbage, nextSid>>
      room == RoomForHandshake
      p    == IF a \in Keys THEN peers[a] ELSE [session |-> None, since |-> nextSid]
  IN /\ a \in Keys => ~ Shaking(peers[a])
     /\ peers' = WithPeer(WithoutPeers(peers, room), a,
                          [hs |-> hs, session |-> p.session, idle |-> 0, since |-> p.since])
     /\ pending' = pending - Cardinality(room) + 1
     /\ nextSid' = nextSid + 1
     /\ Exchange(d, {Message("msg2", a, hs)})
     /\ UNCHANGED established

\* seeded fault: msg3 is matched to the client it comes from, not to this handshake
CompletesWith(p, d) == d.kind = "msg3" /\ d.key[1] = p.hs[1]

\* readMessage accepts msg3 only under the keys of this handshake
Completes(p, d) == d.kind = "msg3" /\ d.key = p.hs

\* msg3: the session replaces the peer's old one; the cap evicts the oldest idle session
FinishHandshake(d) ==
  LET a     == d.addr
      p     == peers[a]
      q     == [p EXCEPT !.hs = NoKey, !.session = NewSession(p.hs), !.idle = 0]
      idle  == {b \in Keys \ {a} : Holds(peers[b]) /\ ~ Shaking(peers[b])}
      out   == IF established + 1 > MaxSessions THEN Oldest(peers, idle) ELSE {}
  IN /\ a \in Keys /\ Shaking(p) /\ Completes(p, d)
     /\ peers' = WithoutPeers(WithPeer(peers, a, q), out)
     /\ established' = established + 1 - Cardinality(out)
     /\ \E threw \in {FALSE} \cup {MayThrow} :      \* the catch counts it out again
          pending' = pending - (IF threw THEN 2 ELSE 1)
     /\ Exchange(d, {})
     /\ UNCHANGED nextSid

\* seeded fault: the peer is dropped whether or not it still holds a session
AbandonAlways(d) ==
  LET a == d.addr
  IN /\ a \in Keys /\ Shaking(peers[a]) /\ ~ Completes(peers[a], d)
     /\ pending' = pending - 1
     /\ peers' = WithoutPeers(peers, {a})
     /\ Exchange(d, {})
     /\ UNCHANGED <<established, nextSid>>

\* any other handshake datagram while one is under way: the catch abandons it
Abandon(d) ==
  LET a == d.addr
      p == peers[a]
  IN /\ a \in Keys /\ Shaking(p) /\ ~ Completes(p, d)
     /\ pending' = pending - 1
     /\ peers' = IF Holds(p) THEN WithPeer(peers, a, [p EXCEPT !.hs = NoKey])
                 ELSE WithoutPeers(peers, {a})
     /\ Exchange(d, {})
     /\ UNCHANGED <<established, nextSid>>

ServerHandshake(d) ==
  /\ bound /\ d.kind \in {"msg1", "msg3"}
  /\ StartHandshake(d) \/ FinishHandshake(d) \/ Abandon(d)
  /\ UNCHANGED <<attempts, bound, sealed, opened>>

\* a transport datagram from a client
ServerOpens(d) ==
  LET p == peers[d.addr]
  IN /\ bound /\ d.kind = "up"
     /\ d.addr \in Keys /\ Holds(p) /\ Opens(p.session, d)
     /\ peers' = WithPeer(peers, d.addr, [p EXCEPT !.session = Recorded(@, d.n), !.idle = 0])
     /\ opened' = opened (+) SetToBag({d})
     /\ Exchange(d, {})
     /\ UNCHANGED <<attempts, pending, established, bound, nextSid, sealed>>

\* SecureSession.send
ServerSeals(a) ==
  LET s == peers[a].session
      d == Transport("down", a, s.key, s.counter)
  IN /\ bound /\ a \in Keys /\ Holds(peers[a]) /\ Cardinality(sealed) < MaxData
     /\ peers' = WithPeer(peers, a, [peers[a] EXCEPT !.session = Sent(s)])
     /\ sealed' = sealed \cup {d} /\ net' = net \cup {d}
     /\ UNCHANGED <<attempts, pending, established, bound, nextSid, copies, opened>>

\* SecureSession.close
ServerForgets(a) ==
  /\ bound /\ a \in Keys /\ Holds(peers[a])
  /\ ForgetAll({a})
  /\ UNCHANGED <<attempts, bound, nextSid, net, copies, sealed, opened>>

\* time passes for every peer: lastSeen is kept as the idle time, up to Ttl + 1
Tick ==
  /\ \E a \in Keys : peers[a].idle <= Ttl
  /\ peers' = [a \in Keys |->
                 [peers[a] EXCEPT !.idle = IF @ <= Ttl THEN @ + 1 ELSE @]]
  /\ UNCHANGED <<attempts, pending, established, bound, nextSid, net, copies, sealed, opened>>

Expired == {a \in Keys : peers[a].idle > Ttl}

\* the interval of bind
Sweep == /\ Expired # {}
         /\ ForgetAll(Expired)
         /\ UNCHANGED <<attempts, bound, nextSid, net, copies, sealed, opened>>

CloseServer == /\ bound /\ bound' = FALSE
               /\ peers' = <<>> /\ pending' = 0 /\ established' = 0
               /\ UNCHANGED <<attempts, nextSid, net, copies, sealed, opened>>

-----------------------------------------------------------------------------
(* The clients: connectSecureUdp.                                           *)

\* the client whose socket is bound to address a
AtAddr(a) == {i \in DOMAIN attempts : attempts[i].addr = a /\ attempts[i].state # "closed"}

Connect(a) ==
  LET i == Len(attempts) + 1
  IN /\ i <= MaxAttempts /\ AtAddr(a) = {}
     /\ attempts' = Append(attempts, [addr |-> a, state |-> "shaking", session |-> None])
     /\ net' = net \cup {Message("msg1", a, <<i, Garbage>>)}
     /\ UNCHANGED <<server, copies, sealed, opened>>

\* the retransmit interval, until there is a session
Retransmit(i) ==
  /\ attempts[i].state \in {"shaking", "spoiled"} /\ copies < MaxCopies
  /\ copies' = copies + 1
  /\ net' = net \cup {Message("msg1", attempts[i].addr, <<i, Garbage>>)}
  /\ UNCHANGED <<attempts, server,  sealed, opened>>

\* the handshake timer, an error of the socket, or close()
CloseClient(i) ==
  /\ attempts[i].state # "closed"
  /\ attempts' = [attempts EXCEPT ![i].state = "closed"]
  /\ UNCHANGED <<server, net, copies, sealed, opened>>

\* msg2.  A datagram that fails to authenticate has already been mixed into the handshake
\* state, which then accepts no other.
ClientShakes(d, i) ==
  LET live == attempts[i].state = "shaking" /\ d.key[1] = i
  IN /\ d.kind = "msg2" /\ attempts[i].state \in {"shaking", "spoiled"}
     /\ attempts' = [attempts EXCEPT ![i].state = IF live THEN "live" ELSE "spoiled",
                                     ![i].session = IF live THEN NewSession(d.key) ELSE None]
     /\ Exchange(d, IF live THEN {Message("msg3", d.addr, d.key)} ELSE {})
     /\ UNCHANGED <<server, sealed, opened>>

ClientOpens(d, i) ==
  /\ d.kind = "down" /\ attempts[i].state = "live"
  /\ Opens(attempts[i].session, d)
  /\ attempts' = [attempts EXCEPT ![i].session = Recorded(@, d.n)]
  /\ opened' = opened (+) SetToBag({d})
  /\ Exchange(d, {})
  /\ UNCHANGED <<server, sealed>>

\* SecureClientSession.send
ClientSeals(i) ==
  LET s == attempts[i].session
      d == Transport("up", attempts[i].addr, s.key, s.counter)
  IN /\ attempts[i].state = "live" /\ Cardinality(sealed) < MaxData
     /\ attempts' = [attempts EXCEPT ![i].session = Sent(s)]
     /\ sealed' = sealed \cup {d} /\ net' = net \cup {d}
     /\ UNCHANGED <<server, copies, opened>>

-----------------------------------------------------------------------------
Arrives(d) == \/ ServerHandshake(d) \/ ServerOpens(d)
              \/ \E i \in AtAddr(d.addr) : ClientShakes(d, i) \/ ClientOpens(d, i)

SecureUdpNext ==
  \/ \E d \in net : Arrives(d)
  \/ \E a \in Addrs : Connect(a) \/ ServerSeals(a) \/ ServerForgets(a)
  \/ \E i \in DOMAIN attempts : Retransmit(i) \/ CloseClient(i) \/ ClientSeals(i)
  \/ Tick \/ Sweep \/ CloseServer

\* Timers fire: the clock advances, and the sweep's interval comes round.
SecureUdpSpec == /\ SecureUdpInit /\ [][SecureUdpNext]_udpVars
                 /\ WF_udpVars(Tick) /\ WF_udpVars(Sweep)

-----------------------------------------------------------------------------
(* Properties.                                                              *)

SecureTypeOK ==
  /\ \A i \in DOMAIN attempts :
       /\ attempts[i].addr \in Addrs
       /\ attempts[i].state \in {"shaking", "spoiled", "live", "closed"}
  /\ Keys \subseteq Addrs
  /\ \A a, b \in Keys : peers[a].since = peers[b].since => a = b
  /\ \A a \in Keys : Shaking(peers[a]) \/ Holds(peers[a])
  /\ pending \in Int /\ established \in Int

\* A session on the server is one a client of that very address finished the handshake of,
\* under the same key: createSecureUdpServer hands the application no session that only
\* one side has.
SessionsAreMutual ==
  \A a \in Keys : Holds(peers[a]) =>
    LET i == peers[a].session.key[1]
    IN /\ i \in DOMAIN attempts
       /\ attempts[i].addr = a
       /\ attempts[i].session.key = peers[a].session.key

\* maxPending bounds the half-open handshakes, whatever re-handshakes, evictions and
\* abandoned handshakes came between (as long as onSession does not throw).
HalfOpenBounded == Cardinality({a \in Keys : Half(peers[a])}) <= MaxPending

\* A datagram that is not an authentic msg3 never costs a peer its session: the session
\* goes only for one whose handshake completed, to the sweep, or by close().
SessionSurvives ==
  [][\A a \in Addrs :
       (a \in Keys /\ Holds(peers[a]) /\ (a \in Keys' => peers'[a].session.key # peers[a].session.key))
       => \/ \E b \in Keys' : /\ Holds(peers'[b])
                              /\ b \in Keys => peers[b].session.key # peers'[b].session.key
          \/ peers[a].idle > Ttl
          \/ ServerForgets(a)
          \/ ~ bound']_udpVars

\* The sessions implement OnceOnly: what is opened was sealed, and is opened once, through
\* duplication, reordering, re-handshakes, evictions and restarts of a client.
Session == INSTANCE OnceOnly WITH sealed <- sealed, opened <- opened
OpenedOnce == Session!Spec

\* Every peer that stays silent is forgotten: once the datagrams have run out, nothing is
\* left in the table, half-open or established (sessionTtlMs).
SilentPeersForgotten == <>[](peers = <<>>)

\* The peer table is consistent: half-open handshakes are bounded, and a session is one
\* its client has as well.
SecureSafe == SecureTypeOK /\ SessionsAreMutual /\ HalfOpenBounded

\* A peer is kept while it is alive, and forgotten once it is silent.
PeersKept == SessionSurvives /\ SilentPeersForgotten

\* "connectSecureUdp ... performs the handshake and resolves a live session": the msg3 of a
\* client that resolved, when it arrives, makes the session on the server too.
ResolvedIsLive ==
  [][\A d \in net \ net' : d.kind = "msg3" =>
       \/ \E a \in Keys' : peers'[a].session.key = d.key
       \/ \E i \in DOMAIN attempts : attempts[i].session.key = d.key /\ attempts[i].state = "closed"
    ]_udpVars
=============================================================================
