---------------------------- MODULE TransportProofs --------------------------
(***************************************************************************)
(* Proofs about two transports that share no state: encrypted UDP sessions, *)
(* for any number of clients, addresses and datagrams, whatever the network *)
(* does; and the io_uring server, for any number of connections, buffers    *)
(* and units sent, whatever the listeners call.                             *)
(***************************************************************************)
EXTENDS UringTcp, SecureUdp, FiniteSetTheorems, WellFoundedInduction, TLAPS

-----------------------------------------------------------------------------
(* Encrypted UDP sessions.                                                  *)

Pair == Nat \X Nat
LiveSession == [key : Pair, counter : Nat, high : Int, bits : SUBSET Nat]
SessionOrNone == LiveSession \cup {None}
Peer == [hs : Pair \cup {NoKey}, session : SessionOrNone, idle : Nat, since : Nat]
Attempt == [addr : Addrs, state : {"shaking", "spoiled", "live", "closed"},
            session : SessionOrNone]
HandshakeMessage == [kind : {"msg1", "msg2", "msg3"}, addr : Addrs, key : Pair]
TransportMessage == [kind : {"up", "down"}, addr : Addrs, key : Pair, n : Nat]

Up(S)   == {d \in S : d.kind = "up"}
Down(S) == {d \in S : d.kind = "down"}
Opened  == BagToSet(opened)

(* The shape of the state.  What is in flight of the applications' data was *)
(* sealed, and so was what was opened.                                      *)
Typed ==
  /\ attempts \in Seq(Attempt)
  /\ peers \in UNION {[S -> Peer] : S \in SUBSET Addrs} /\ IsFiniteSet(Keys)
  /\ pending \in Int /\ established \in Int /\ nextSid \in Nat \ {0}
  /\ net \subseteq HandshakeMessage \cup sealed
  /\ sealed \subseteq TransportMessage /\ Opened \subseteq sealed

(* A client's session is the one its own ephemeral key is part of; every     *)
(* datagram sealed or opened under it is accounted for in its counter and    *)
(* its replay filter.                                                       *)
ClientWell(i) ==
  LET c == attempts[i]
  IN /\ c.state \in {"shaking", "spoiled"} => c.session = None
     /\ c.state = "live" => c.session # None
     /\ c.session # None => c.session.key[1] = i

Clients ==
  /\ \A i \in DOMAIN attempts : ClientWell(i)
  /\ \A d \in Up(sealed) :
       /\ d.key[1] \in DOMAIN attempts
       /\ LET s == attempts[d.key[1]].session IN s.key = d.key /\ d.n < s.counter
  /\ \A d \in Down(Opened) :
       /\ d.key[1] \in DOMAIN attempts
       /\ LET s == attempts[d.key[1]].session IN s.key = d.key /\ ~Fresh(s, d.n)

(* A third message is on its way only from a client that has the session,    *)
(* and a session on the server is one such a client has.                     *)
Agrees(a, key) ==
  /\ key[1] \in DOMAIN attempts
  /\ attempts[key[1]].addr = a /\ attempts[key[1]].session.key = key

Mutual ==
  /\ \A d \in net : d.kind = "msg3" => Agrees(d.addr, d.key)
  /\ \A a \in Keys : Holds(peers[a]) => Agrees(a, peers[a].session.key)

(* The server's ephemeral keys: each is used by one handshake or session of  *)
(* one peer, none is used again, and nothing was sealed or opened under the  *)
(* key of a handshake before it is complete.                                 *)
Uses(p, sid) ==
  \/ Shaking(p) /\ p.hs[2] = sid
  \/ Holds(p) /\ p.session.key[2] = sid

PeerWell(p, next, down, up) ==
  /\ Shaking(p) \/ Holds(p)
  /\ p.since < next
  /\ Shaking(p) => /\ p.hs[2] < next
                   /\ \A d \in down \cup up : d.key[2] # p.hs[2]
  /\ Holds(p) => /\ p.session.key[2] < next
                 /\ \A d \in down : d.key = p.session.key => d.n < p.session.counter
                 /\ \A d \in up : d.key = p.session.key => ~Fresh(p.session, d.n)
  /\ Shaking(p) /\ Holds(p) => p.hs[2] # p.session.key[2]

PeersWell(t, next, down, up) ==
  /\ \A d \in down \cup up : d.key[2] < next
  /\ \A a \in DOMAIN t : PeerWell(t[a], next, down, up)
  /\ \A a, b \in DOMAIN t, sid \in Nat : Uses(t[a], sid) /\ Uses(t[b], sid) => a = b
  /\ \A a, b \in DOMAIN t : t[a].since = t[b].since => a = b

Server == PeersWell(peers, nextSid, Down(sealed), Up(Opened))

(* The counter of handshakes is exact as long as onSession does not throw,   *)
(* and it is what bounds the half-open ones.                                 *)
Shakers(t) == {a \in DOMAIN t : Shaking(t[a])}
Halves(t)  == {a \in DOMAIN t : Half(t[a])}

Counted ==
  /\ pending = Cardinality(Shakers(peers))
  /\ Cardinality(Halves(peers)) <= MaxPending

IInv == Typed /\ Clients /\ Mutual /\ Server

-----------------------------------------------------------------------------
(* Keys, sessions and the replay filter. *)

LEMMA KeyFacts ==
  ASSUME NEW k \in Pair
  PROVE  k # NoKey /\ k[1] \in Nat /\ k[2] \in Nat /\ k = <<k[1], k[2]>>
<1>1. PICK x \in Nat, y \in Nat : k = <<x, y>> BY DEF Pair
<1>2. Len(<<x, y>>) = 2 /\ Len(<<>>) = 0 OBVIOUS
<1> QED BY <1>1, <1>2 DEF NoKey

LEMMA NoneFacts ==
  /\ None.key = NoKey /\ None.counter = 0 /\ None.high = -1 /\ None.bits = {}
  /\ None \notin LiveSession /\ NoKey \notin Pair
<1>1. None.key = NoKey /\ None.counter = 0 /\ None.high = -1 /\ None.bits = {}
  BY DEF None, NewSession
<1>2. NoKey \notin Pair BY KeyFacts
<1> QED BY <1>1, <1>2 DEF LiveSession

LEMMA SessionFacts ==
  ASSUME NEW s \in SessionOrNone
  PROVE  /\ s = None => s.key = NoKey
         /\ s # None => /\ s \in LiveSession /\ s.key \in Pair /\ s.counter \in Nat
                        /\ s.high \in Int /\ s.bits \in SUBSET Nat
         /\ s # None <=> s.key \in Pair
BY NoneFacts DEF SessionOrNone, LiveSession

LEMMA NewSessionFacts ==
  ASSUME NEW k \in Pair
  PROVE  LET s == NewSession(k)
         IN /\ s \in LiveSession /\ s \in SessionOrNone /\ s # None
            /\ s.key = k /\ s.counter = 0 /\ s.high = -1 /\ s.bits = {}
<1> DEFINE s == NewSession(k)
<1>1. s.key = k /\ s.counter = 0 /\ s.high = -1 /\ s.bits = {} BY DEF NewSession
<1>2. s \in LiveSession BY DEF NewSession, LiveSession
<1> HIDE DEF s
<1>3. s \in SessionOrNone /\ s # None BY <1>2, NoneFacts DEF SessionOrNone
<1> QED BY <1>1, <1>2, <1>3 DEF s

(* A session never forgets: its key stays, its counter grows, and a counter that
   its filter has seen stays seen. *)
Evolves(s, t) ==
  \/ s = None
  \/ /\ t # None /\ t.key = s.key /\ t.counter >= s.counter
     /\ \A n \in Nat : Fresh(t, n) => Fresh(s, n)

LEMMA EvolvesRefl == ASSUME NEW s \in SessionOrNone PROVE Evolves(s, s)
<1> SUFFICES ASSUME s # None PROVE Evolves(s, s) BY DEF Evolves
<1>1. s.counter \in Nat BY SessionFacts
<1> QED BY <1>1 DEF Evolves

LEMMA SentFacts ==
  ASSUME NEW s \in LiveSession
  PROVE  LET t == Sent(s)
         IN /\ t \in LiveSession /\ t.key = s.key /\ t.counter = s.counter + 1
            /\ t.high = s.high /\ t.bits = s.bits
            /\ t \in SessionOrNone /\ t # None /\ Evolves(s, t)
<1> DEFINE t == Sent(s)
<1>1. t.key = s.key /\ t.counter = s.counter + 1 /\ t.high = s.high /\ t.bits = s.bits
  BY DEF Sent, LiveSession
<1>2. t \in LiveSession BY DEF Sent, LiveSession
<1> HIDE DEF t
<1>3. t \in SessionOrNone /\ t # None BY <1>2, NoneFacts DEF SessionOrNone
<1>4. s.counter \in Nat BY DEF LiveSession
<1>5. Evolves(s, t) BY <1>1, <1>3, <1>4 DEF Evolves, Fresh
<1> QED BY <1>1, <1>2, <1>3, <1>5 DEF t

(* What is recorded is not fresh any more, and neither is what was not before:
   moving the window forward forgets only counters that have left it. *)
LEMMA RecordedFacts ==
  ASSUME NEW s \in LiveSession, NEW n \in Nat
  PROVE  LET t == Recorded(s, n)
         IN /\ t \in LiveSession /\ t.key = s.key /\ t.counter = s.counter
            /\ t \in SessionOrNone /\ t # None /\ Evolves(s, t) /\ ~Fresh(t, n)
<1> DEFINE t == Recorded(s, n)
           kept == {b \in s.bits : b > s.high - Window}
<1>w. Window \in Nat /\ Window > 0 BY SecureUdpAssumption
<1>s. s.high \in Int /\ s.bits \in SUBSET Nat /\ s.counter \in Nat BY DEF LiveSession
<1>1. CASE n > s.high
  <2>1. t = [s EXCEPT !.high = n, !.bits = kept \cup {n}] BY <1>1 DEF Recorded
  <2>2. t.key = s.key /\ t.counter = s.counter /\ t.high = n /\ t.bits = kept \cup {n}
    BY <2>1 DEF LiveSession
  <2>3. kept \cup {n} \in SUBSET Nat BY <1>s
  <2>4. t \in LiveSession
    <3> DEFINE seen == kept \cup {n}
    <3>1. t = [s EXCEPT !.high = n, !.bits = seen] /\ seen \in SUBSET Nat /\ n \in Int
      BY <2>1, <2>3
    <3> HIDE DEF t, seen
    <3> QED BY <3>1 DEF LiveSession
  <2> HIDE DEF t
  <2>5. ~Fresh(t, n) BY <2>2 DEF Fresh
  <2>6. ASSUME NEW m \in Nat, Fresh(t, m), ~Fresh(s, m) PROVE FALSE
    <3>1. m <= s.high /\ (m <= s.high - Window \/ m \in s.bits) BY <1>w, <1>s, <2>6 DEF Fresh
    <3>2. m > n - Window /\ m \notin kept \cup {n}
      BY <1>w, <1>s, <1>1, <2>2, <2>6, <3>1 DEF Fresh
    <3>3. m > s.high - Window BY <1>w, <1>s, <1>1, <3>2
    <3> QED BY <1>w, <1>s, <3>1, <3>2, <3>3
  <2>7. t \in SessionOrNone /\ t # None BY <2>4, NoneFacts DEF SessionOrNone
  <2>8. Evolves(s, t) BY <1>s, <2>2, <2>6, <2>7 DEF Evolves
  <2> QED BY <2>2, <2>4, <2>5, <2>7, <2>8 DEF t
<1>2. CASE ~(n > s.high)
  <2>1. t = [s EXCEPT !.bits = s.bits \cup {n}] BY <1>2 DEF Recorded
  <2>2. t.key = s.key /\ t.counter = s.counter /\ t.high = s.high /\ t.bits = s.bits \cup {n}
    BY <2>1 DEF LiveSession
  <2>3. t \in LiveSession BY <1>s, <2>1 DEF LiveSession
  <2> HIDE DEF t
  <2>5. ~Fresh(t, n) BY <1>2, <2>2 DEF Fresh
  <2>6. \A m \in Nat : Fresh(t, m) => Fresh(s, m) BY <2>2 DEF Fresh
  <2>7. t \in SessionOrNone /\ t # None BY <2>3, NoneFacts DEF SessionOrNone
  <2>8. Evolves(s, t) BY <1>s, <2>2, <2>6, <2>7 DEF Evolves
  <2> QED BY <2>2, <2>3, <2>5, <2>7, <2>8 DEF t
<1> QED BY <1>1, <1>2

LEMMA OpenedMore ==
  ASSUME NEW d, opened' = opened (+) SetToBag({d})
  PROVE  Opened' = Opened \cup {d}
BY DEF Opened, BagToSet, SetToBag, (+)

-----------------------------------------------------------------------------
(* The table of peers. *)

Table == {t \in UNION {[S -> Peer] : S \in SUBSET Addrs} : IsFiniteSet(DOMAIN t)}

LEMMA PeerFacts ==
  ASSUME NEW p \in Peer
  PROVE  /\ p.hs \in Pair \cup {NoKey} /\ p.session \in SessionOrNone
         /\ p.idle \in Nat /\ p.since \in Nat
         /\ Shaking(p) => p.hs \in Pair
         /\ Holds(p) => p.session \in LiveSession /\ p.session.key \in Pair
         /\ Half(p) <=> Shaking(p) /\ ~Holds(p)
BY SessionFacts DEF Peer, Shaking, Holds, Half

LEMMA TableFacts ==
  ASSUME NEW t \in Table
  PROVE  /\ DOMAIN t \subseteq Addrs /\ IsFiniteSet(DOMAIN t)
         /\ \A a \in DOMAIN t : t[a] \in Peer
BY DEF Table

LEMMA WithPeerFacts ==
  ASSUME NEW t \in Table, NEW a \in Addrs, NEW p \in Peer
  PROVE  LET u == WithPeer(t, a, p)
         IN /\ u \in Table /\ DOMAIN u = DOMAIN t \cup {a} /\ u[a] = p
            /\ \A b \in DOMAIN t \ {a} : u[b] = t[b]
<1> DEFINE u == WithPeer(t, a, p)
           S == DOMAIN t \cup {a}
<1>1. S \in SUBSET Addrs /\ IsFiniteSet(S) BY TableFacts, FS_AddElement
<1>2. u \in [S -> Peer] BY TableFacts DEF WithPeer
<1>3. DOMAIN u = S /\ u[a] = p /\ \A b \in DOMAIN t \ {a} : u[b] = t[b] BY DEF WithPeer
<1> HIDE DEF u, S
<1>4. u \in Table BY <1>1, <1>2, <1>3 DEF Table
<1> QED BY <1>3, <1>4 DEF u, S

LEMMA WithoutPeersFacts ==
  ASSUME NEW t \in Table, NEW as
  PROVE  LET u == WithoutPeers(t, as)
         IN /\ u \in Table /\ DOMAIN u = DOMAIN t \ as
            /\ \A b \in DOMAIN u : u[b] = t[b]
<1> DEFINE u == WithoutPeers(t, as)
           S == DOMAIN t \ as
<1>1. S \in SUBSET Addrs /\ IsFiniteSet(S) BY TableFacts, FS_Subset
<1>2. u \in [S -> Peer] BY TableFacts DEF WithoutPeers
<1>3. DOMAIN u = S /\ \A b \in S : u[b] = t[b] BY DEF WithoutPeers
<1> HIDE DEF u, S
<1>4. u \in Table BY <1>1, <1>2, <1>3 DEF Table
<1> QED BY <1>3, <1>4 DEF u, S

LEMMA TypedFacts ==
  ASSUME Typed
  PROVE  /\ attempts \in Seq(Attempt) /\ peers \in Table
         /\ \A i \in DOMAIN attempts : attempts[i] \in Attempt /\ i \in Nat
         /\ DOMAIN attempts = 1..Len(attempts) /\ Len(attempts) \in Nat
         /\ \A a \in Keys : peers[a] \in Peer /\ a \in Addrs
         /\ nextSid \in Nat \ {0} /\ pending \in Int /\ established \in Int
         /\ \A d \in net : /\ d.kind \in {"msg1", "msg2", "msg3"} => d \in HandshakeMessage
                           /\ d.kind \in {"up", "down"} => d \in sealed
         /\ net \subseteq HandshakeMessage \cup sealed
         /\ sealed \subseteq TransportMessage /\ Opened \subseteq sealed
<1>1. attempts \in Seq(Attempt) /\ peers \in Table BY DEF Typed, Table, Keys
<1>2. DOMAIN attempts = 1..Len(attempts) /\ Len(attempts) \in Nat BY <1>1
<1>3. \A i \in DOMAIN attempts : attempts[i] \in Attempt /\ i \in Nat BY <1>1, <1>2
<1>4. \A a \in Keys : peers[a] \in Peer /\ a \in Addrs BY <1>1, TableFacts DEF Keys
<1>5. /\ nextSid \in Nat \ {0} /\ pending \in Int /\ established \in Int
      /\ net \subseteq HandshakeMessage \cup sealed
      /\ sealed \subseteq TransportMessage /\ Opened \subseteq sealed
  BY DEF Typed
<1>6. \A d \in HandshakeMessage : d.kind \notin {"up", "down"} BY DEF HandshakeMessage
<1>7. \A d \in TransportMessage : d.kind \notin {"msg1", "msg2", "msg3"} BY DEF TransportMessage
<1> QED BY <1>1, <1>2, <1>3, <1>4, <1>5, <1>6, <1>7

LEMMA TypedNext ==
  ASSUME Typed'
  PROVE  /\ \A i \in DOMAIN attempts' : attempts'[i] \in Attempt /\ i \in Nat
         /\ peers' \in Table
         /\ \A a \in Keys' : peers'[a] \in Peer /\ a \in Addrs
<1>1. attempts' \in Seq(Attempt) /\ peers' \in Table BY DEF Typed, Table, Keys
<1>2. \A i \in DOMAIN attempts' : attempts'[i] \in Attempt /\ i \in Nat
  <2>1. DOMAIN attempts' = 1..Len(attempts') /\ Len(attempts') \in Nat BY <1>1
  <2> QED BY <1>1, <2>1
<1>3. \A a \in Keys' : peers'[a] \in Peer /\ a \in Addrs BY <1>1, TableFacts DEF Keys
<1> QED BY <1>1, <1>2, <1>3

LEMMA MessageFacts ==
  /\ \A d \in HandshakeMessage : d.addr \in Addrs /\ d.key \in Pair
  /\ \A d \in TransportMessage : d.addr \in Addrs /\ d.key \in Pair /\ d.n \in Nat
BY DEF HandshakeMessage, TransportMessage

-----------------------------------------------------------------------------
(* The clients: what they have sealed, opened and agreed on stays so while   *)
(* their sessions evolve.                                                    *)

AttemptsKept ==
  /\ DOMAIN attempts \subseteq DOMAIN attempts'
  /\ \A i \in DOMAIN attempts :
       attempts'[i].addr = attempts[i].addr /\ Evolves(attempts[i].session, attempts'[i].session)

UpOK(d) ==
  /\ d.key[1] \in DOMAIN attempts
  /\ LET s == attempts[d.key[1]].session IN s.key = d.key /\ d.n < s.counter

DownOK(d) ==
  /\ d.key[1] \in DOMAIN attempts
  /\ LET s == attempts[d.key[1]].session IN s.key = d.key /\ ~Fresh(s, d.n)

LEMMA AttemptsSame == ASSUME Typed, UNCHANGED attempts PROVE AttemptsKept
BY TypedFacts, EvolvesRefl DEF AttemptsKept, Attempt

(* A session that has a key has it for good. *)
LEMMA KeyStays ==
  ASSUME Typed, Typed', AttemptsKept, NEW i \in DOMAIN attempts,
         attempts[i].session.key \in Pair
  PROVE  LET s == attempts[i].session
             t == attempts'[i].session
         IN /\ t.key = s.key /\ t.counter >= s.counter /\ s.counter \in Nat /\ t.counter \in Nat
            /\ \A n \in Nat : Fresh(t, n) => Fresh(s, n)
<1> DEFINE s == attempts[i].session
           t == attempts'[i].session
<1>1. s \in SessionOrNone BY TypedFacts DEF Attempt
<1>2. i \in DOMAIN attempts' /\ Evolves(s, t) BY DEF AttemptsKept
<1>4. t \in SessionOrNone BY <1>2, TypedNext DEF Attempt
<1> HIDE DEF s, t
<1>5. s # None BY <1>1, SessionFacts DEF s
<1>6. t # None /\ t.key = s.key /\ t.counter >= s.counter
      /\ \A n \in Nat : Fresh(t, n) => Fresh(s, n)
  BY <1>2, <1>5 DEF Evolves
<1>7. s.counter \in Nat /\ t.counter \in Nat BY <1>1, <1>4, <1>5, <1>6, SessionFacts
<1> QED BY <1>6, <1>7 DEF s, t

LEMMA ClientsKept ==
  ASSUME Typed, Typed', Clients, AttemptsKept,
         \A i \in DOMAIN attempts' : ClientWell(i)',
         \A d \in Up(sealed)' : d \in Up(sealed) \/ UpOK(d)',
         \A d \in Down(Opened)' : d \in Down(Opened) \/ DownOK(d)'
  PROVE  Clients'
<1>1. \A d \in Up(sealed) \cup Down(Opened) : d.key \in Pair /\ d.n \in Nat
  BY TypedFacts, MessageFacts DEF Up, Down
<1>2. ASSUME NEW d \in Up(sealed) PROVE UpOK(d)'
  <2>1. d.key[1] \in DOMAIN attempts /\ attempts[d.key[1]].session.key = d.key
        /\ d.n < attempts[d.key[1]].session.counter
    BY <1>2 DEF Clients
  <2>2. d.key \in Pair /\ d.n \in Nat BY <1>1
  <2>3. /\ attempts'[d.key[1]].session.key = d.key
        /\ attempts'[d.key[1]].session.counter >= attempts[d.key[1]].session.counter
        /\ attempts'[d.key[1]].session.counter \in Nat
        /\ attempts[d.key[1]].session.counter \in Nat
    BY <2>1, <2>2, KeyStays
  <2>4. d.n < attempts'[d.key[1]].session.counter BY <2>1, <2>2, <2>3
  <2>5. d.key[1] \in DOMAIN attempts' BY <2>1 DEF AttemptsKept
  <2> QED BY <2>3, <2>4, <2>5 DEF UpOK
<1>3. ASSUME NEW d \in Down(Opened) PROVE DownOK(d)'
  <2>1. d.key[1] \in DOMAIN attempts /\ attempts[d.key[1]].session.key = d.key
        /\ ~Fresh(attempts[d.key[1]].session, d.n)
    BY <1>3 DEF Clients
  <2>2. d.key \in Pair /\ d.n \in Nat BY <1>1
  <2>3. /\ attempts'[d.key[1]].session.key = d.key
        /\ ~Fresh(attempts'[d.key[1]].session, d.n)
    BY <2>1, <2>2, KeyStays
  <2>5. d.key[1] \in DOMAIN attempts' BY <2>1 DEF AttemptsKept
  <2> QED BY <2>3, <2>5 DEF DownOK
<1>4. \A d \in Up(sealed)' : UpOK(d)' BY <1>2
<1>5. \A d \in Down(Opened)' : DownOK(d)' BY <1>3
<1> QED BY <1>4, <1>5 DEF Clients, UpOK, DownOK

LEMMA AgreesStays ==
  ASSUME Typed, Typed', AttemptsKept, NEW a, NEW key \in Pair, Agrees(a, key)
  PROVE  Agrees(a, key)'
<1>1. key[1] \in DOMAIN attempts /\ attempts[key[1]].addr = a /\ attempts[key[1]].session.key = key
  BY DEF Agrees
<1>2. attempts'[key[1]].session.key = key BY <1>1, KeyStays
<1> QED BY <1>1, <1>2 DEF AttemptsKept, Agrees

LEMMA MutualKept ==
  ASSUME Typed, Typed', Mutual, AttemptsKept,
         \A d \in net' : d.kind = "msg3" => d \in net \/ Agrees(d.addr, d.key)',
         \A a \in Keys' : Holds(peers'[a]) =>
            \/ a \in Keys /\ Holds(peers[a]) /\ peers'[a].session.key = peers[a].session.key
            \/ Agrees(a, peers'[a].session.key)
  PROVE  Mutual'
<1>1. ASSUME NEW d \in net', d.kind = "msg3" PROVE Agrees(d.addr, d.key)'
  <2>1. CASE d \in net
    <3>1. Agrees(d.addr, d.key) BY <1>1, <2>1 DEF Mutual
    <3>2. d.key \in Pair BY <1>1, <2>1, TypedFacts, MessageFacts
    <3> QED BY <3>1, <3>2, AgreesStays
  <2> QED BY <1>1, <2>1
<1>2. ASSUME NEW a \in Keys', Holds(peers'[a]), NEW key, key = peers'[a].session.key
      PROVE  Agrees(a, key)'
  <2>1. peers'[a] \in Peer BY TypedNext
  <2>2. key \in Pair BY <1>2, <2>1, PeerFacts
  <2>3. Agrees(a, key)
    <3>1. CASE a \in Keys /\ Holds(peers[a]) /\ peers'[a].session.key = peers[a].session.key
      BY <1>2, <3>1 DEF Mutual
    <3> QED BY <1>2, <3>1
  <2> QED BY <2>2, <2>3, AgreesStays
<1>3. \A a \in Keys' : Holds(peers'[a]) =>
         LET key == peers'[a].session.key
         IN key[1] \in DOMAIN attempts' /\ attempts'[key[1]].addr = a
            /\ attempts'[key[1]].session.key = key
  BY <1>2 DEF Agrees
<1>4. \A d \in net' : d.kind = "msg3" =>
         d.key[1] \in DOMAIN attempts' /\ attempts'[d.key[1]].addr = d.addr
         /\ attempts'[d.key[1]].session.key = d.key
  BY <1>1 DEF Agrees
<1> QED BY <1>3, <1>4 DEF Mutual, Agrees

-----------------------------------------------------------------------------
(* The server's ephemeral keys. *)

(* p has become q without a new key. *)
PeerStays(p, q) ==
  /\ q.session = p.session /\ q.since = p.since
  /\ q.hs = p.hs \/ q.hs = NoKey
  /\ Shaking(q) \/ Holds(q)

(* The peers that stay keep their keys, when some go and handshakes end. *)
LEMMA PeersShrink ==
  ASSUME NEW t, NEW u, NEW next, NEW down, NEW up, PeersWell(t, next, down, up),
         \A a \in DOMAIN u : a \in DOMAIN t /\ PeerStays(t[a], u[a])
  PROVE  PeersWell(u, next, down, up)
<1>1. ASSUME NEW a \in DOMAIN u PROVE PeerWell(u[a], next, down, up)
  <2>1. a \in DOMAIN t /\ PeerStays(t[a], u[a]) /\ PeerWell(t[a], next, down, up)
    BY DEF PeersWell
  <2> DEFINE p == t[a]
             q == u[a]
  <2>2. /\ q.session = p.session /\ q.since = p.since /\ (Shaking(q) \/ Holds(q))
        /\ Shaking(q) => Shaking(p) /\ q.hs = p.hs
        /\ Holds(q) => Holds(p)
    BY <2>1 DEF PeerStays, Shaking, Holds
  <2> HIDE DEF p, q
  <2>3. PeerWell(p, next, down, up) BY <2>1 DEF p
  <2>4. PeerWell(q, next, down, up) BY <2>2, <2>3 DEF PeerWell
  <2> QED BY <2>4 DEF q
<1>2. ASSUME NEW a \in DOMAIN u, NEW sid, Uses(u[a], sid) PROVE a \in DOMAIN t /\ Uses(t[a], sid)
  BY <1>2 DEF PeerStays, Uses, Shaking, Holds
<1>3. ASSUME NEW a \in DOMAIN u, NEW b \in DOMAIN u, NEW sid \in Nat, Uses(u[a], sid), Uses(u[b], sid)
      PROVE a = b
  BY <1>2, <1>3 DEF PeersWell
<1>4. ASSUME NEW a \in DOMAIN u, NEW b \in DOMAIN u, u[a].since = u[b].since PROVE a = b
  BY <1>4 DEF PeersWell, PeerStays
<1> QED BY <1>1, <1>3, <1>4 DEF PeersWell

(* One peer changes its keys, or datagrams are sealed or opened under its key. *)
LEMMA PeerChanges ==
  ASSUME NEW t, NEW u, NEW a \in DOMAIN u,
         NEW next \in Nat, NEW down, NEW up, PeersWell(t, next, down, up),
         NEW next2 \in Nat, next2 >= next, NEW down2, NEW up2,
         \A b \in DOMAIN t : t[b] \in Peer,
         \A b \in DOMAIN u \ {a} : b \in DOMAIN t /\ u[b] = t[b],
         \A d \in down2 \cup up2 : d \in TransportMessage /\ d.key[2] < next2,
         \A d \in down2 : d \in down \/ (Holds(u[a]) /\ d.key[2] = u[a].session.key[2]),
         \A d \in up2 : d \in up \/ (Holds(u[a]) /\ d.key[2] = u[a].session.key[2]),
         PeerWell(u[a], next2, down2, up2),
         \A b \in DOMAIN t \ {a}, sid \in Nat : ~(Uses(t[b], sid) /\ Uses(u[a], sid)),
         \A b \in DOMAIN t \ {a} : t[b].since # u[a].since
  PROVE  PeersWell(u, next2, down2, up2)
<1>0. ASSUME NEW b \in DOMAIN u \ {a} PROVE b \in DOMAIN t /\ u[b] = t[b] /\ t[b] \in Peer
  OBVIOUS
<1>1. ASSUME NEW b \in DOMAIN u \ {a} PROVE PeerWell(u[b], next2, down2, up2)
  <2> DEFINE p == t[b]
  <2>1. b \in DOMAIN t \ {a} /\ u[b] = p /\ p \in Peer /\ PeerWell(p, next, down, up)
    BY <1>0 DEF PeersWell
  <2>2. \A sid \in Nat : Uses(p, sid) => ~Uses(u[a], sid) BY <2>1
  <2> HIDE DEF p
  <2>3. /\ p.since \in Nat
        /\ Shaking(p) => p.hs \in Pair
        /\ Holds(p) => p.session.key \in Pair
    BY <2>1, PeerFacts
  <2>4. p.since < next2 BY <2>1, <2>3 DEF PeerWell
  <2>5. ASSUME Shaking(p)
        PROVE  p.hs[2] < next2 /\ \A d \in down2 \cup up2 : d.key[2] # p.hs[2]
    <3>1. p.hs[2] \in Nat /\ p.hs[2] < next BY <2>1, <2>3, <2>5, KeyFacts DEF PeerWell
    <3>2. Uses(p, p.hs[2]) BY <2>5 DEF Uses
    <3>3. ~Uses(u[a], p.hs[2]) BY <2>2, <3>1, <3>2
    <3>4. ASSUME NEW d \in down2 \cup up2, d.key[2] = p.hs[2] PROVE FALSE
      <4>1. CASE d \in down \cup up BY <2>1, <2>5, <3>4, <4>1 DEF PeerWell
      <4>2. CASE Holds(u[a]) /\ d.key[2] = u[a].session.key[2]
        BY <3>3, <3>4, <4>2 DEF Uses
      <4> QED BY <4>1, <4>2
    <3> QED BY <3>1, <3>4
  <2>6. ASSUME Holds(p)
        PROVE  /\ p.session.key[2] < next2
               /\ \A d \in down2 : d.key = p.session.key => d.n < p.session.counter
               /\ \A d \in up2 : d.key = p.session.key => ~Fresh(p.session, d.n)
    <3>1. p.session.key[2] \in Nat /\ p.session.key[2] < next
      BY <2>1, <2>3, <2>6, KeyFacts DEF PeerWell
    <3>2. Uses(p, p.session.key[2]) BY <2>6 DEF Uses
    <3>3. ~Uses(u[a], p.session.key[2]) BY <2>2, <3>1, <3>2
    <3>4. \A d \in down2 : d.key = p.session.key => d \in down BY <3>3 DEF Uses
    <3>5. \A d \in up2 : d.key = p.session.key => d \in up BY <3>3 DEF Uses
    <3> QED BY <2>1, <2>6, <3>1, <3>4, <3>5 DEF PeerWell
  <2>7. PeerWell(p, next2, down2, up2) BY <2>1, <2>4, <2>5, <2>6 DEF PeerWell
  <2> QED BY <2>1, <2>7
<1>2. ASSUME NEW b \in DOMAIN u, NEW c \in DOMAIN u, NEW sid \in Nat, Uses(u[b], sid), Uses(u[c], sid)
      PROVE b = c
  <2>1. CASE b = a BY <1>0, <1>2, <2>1
  <2>2. CASE c = a BY <1>0, <1>2, <2>2
  <2>3. CASE b # a /\ c # a BY <1>0, <1>2, <2>3 DEF PeersWell
  <2> QED BY <2>1, <2>2, <2>3
<1>3. ASSUME NEW b \in DOMAIN u, NEW c \in DOMAIN u, u[b].since = u[c].since PROVE b = c
  <2>1. CASE b = a BY <1>0, <1>3, <2>1
  <2>2. CASE c = a BY <1>0, <1>3, <2>2
  <2>3. CASE b # a /\ c # a BY <1>0, <1>3, <2>3 DEF PeersWell
  <2> QED BY <2>1, <2>2, <2>3
<1> QED BY <1>1, <1>2, <1>3 DEF PeersWell

-----------------------------------------------------------------------------
(* What the server does. *)

LEMMA TypedKept ==
  ASSUME attempts' \in Seq(Attempt), peers' \in Table, pending' \in Int, established' \in Int,
         nextSid' \in Nat \ {0}, net' \subseteq HandshakeMessage \cup sealed',
         sealed' \subseteq TransportMessage, Opened' \subseteq sealed'
  PROVE  Typed'
BY DEF Typed, Table, Keys

LEMMA ExchangeFacts ==
  ASSUME NEW d, NEW out, Exchange(d, out)
  PROVE  net' \subseteq net \cup out
BY DEF Exchange

(* Steps that seal and open nothing. *)
LEMMA ServerActs ==
  ASSUME IInv, UNCHANGED <<attempts, sealed, opened>>,
         peers' \in Table, pending' \in Int, established' \in Int, nextSid' \in Nat \ {0},
         \A d \in net' : d \in net \/ (d \in HandshakeMessage /\ d.kind # "msg3"),
         \A a \in Keys' : Holds(peers'[a]) =>
            \/ a \in Keys /\ Holds(peers[a]) /\ peers'[a].session.key = peers[a].session.key
            \/ Agrees(a, peers'[a].session.key)
  PROVE  /\ Typed' /\ Clients' /\ Mutual'
         /\ Server' <=> PeersWell(peers', nextSid', Down(sealed), Up(Opened))
<1>1. Typed /\ Clients /\ Mutual BY DEF IInv
<1>2. Opened' = Opened BY DEF Opened
<1>3. Typed' BY <1>1, <1>2, TypedFacts, TypedKept
<1>4. AttemptsKept BY <1>1, AttemptsSame
<1>5. Clients'
  <2>1. \A i \in DOMAIN attempts' : ClientWell(i)' BY <1>1 DEF Clients, ClientWell
  <2>2. Up(sealed)' = Up(sealed) /\ Down(Opened)' = Down(Opened) BY <1>2 DEF Up, Down
  <2> QED BY <1>1, <1>3, <1>4, <2>1, <2>2, ClientsKept
<1>6. Mutual' BY <1>1, <1>3, <1>4, MutualKept
<1>7. Down(sealed)' = Down(sealed) /\ Up(Opened)' = Up(Opened) BY <1>2 DEF Up, Down
<1> QED BY <1>3, <1>5, <1>6, <1>7 DEF Server

(* Peers go, or their handshakes end. *)
LEMMA PeersGo ==
  ASSUME IInv, UNCHANGED <<attempts, sealed, opened, nextSid>>, net' \subseteq net,
         peers' \in Table, pending' \in Int, established' \in Int,
         \A a \in Keys' : a \in Keys /\ PeerStays(peers[a], peers'[a])
  PROVE  IInv'
<1>1. Typed /\ Server BY DEF IInv
<1>2. \A a \in Keys' : Holds(peers'[a]) =>
         a \in Keys /\ Holds(peers[a]) /\ peers'[a].session.key = peers[a].session.key
  BY DEF PeerStays, Holds
<1>3. nextSid' \in Nat \ {0} BY <1>1, TypedFacts
<1>4. /\ Typed' /\ Clients' /\ Mutual'
      /\ Server' <=> PeersWell(peers', nextSid', Down(sealed), Up(Opened))
  BY <1>2, <1>3, ServerActs
<1>5. PeersWell(peers', nextSid, Down(sealed), Up(Opened))
  <2>1. \A a \in DOMAIN peers' : a \in DOMAIN peers /\ PeerStays(peers[a], peers'[a]) BY DEF Keys
  <2> QED BY <1>1, <2>1, PeersShrink DEF Server
<1> QED BY <1>4, <1>5 DEF IInv

LEMMA StaysSame == ASSUME NEW p \in Peer, Shaking(p) \/ Holds(p) PROVE PeerStays(p, p)
BY DEF PeerStays

LEMMA KnownPeer ==
  ASSUME IInv, NEW a \in Keys
  PROVE  /\ a \in Addrs /\ peers[a] \in Peer /\ PeerStays(peers[a], peers[a])
         /\ PeerWell(peers[a], nextSid, Down(sealed), Up(Opened))
<1>1. a \in Addrs /\ peers[a] \in Peer BY TypedFacts DEF IInv
<1>2. PeerWell(peers[a], nextSid, Down(sealed), Up(Opened)) BY DEF IInv, Server, PeersWell, Keys
<1> QED BY <1>1, <1>2, StaysSame DEF PeerWell

LEMMA ForgetKeeps ==
  ASSUME IInv, NEW as \in SUBSET Keys, ForgetAll(as),
         UNCHANGED <<attempts, nextSid, net, sealed, opened>>
  PROVE  IInv'
<1>1. /\ peers \in Table /\ pending \in Int /\ established \in Int /\ IsFiniteSet(Keys)
  BY TypedFacts, TableFacts DEF IInv, Keys
<1>2. /\ peers' \in Table /\ Keys' = Keys \ as
      /\ \A a \in Keys' : peers'[a] = peers[a]
  <2> DEFINE u == WithoutPeers(peers, as)
  <2>1. peers' = u BY DEF ForgetAll
  <2>2. u \in Table /\ DOMAIN u = DOMAIN peers \ as /\ \A b \in DOMAIN u : u[b] = peers[b]
    BY <1>1, WithoutPeersFacts
  <2> HIDE DEF u
  <2>3. Keys' = DOMAIN u /\ Keys = DOMAIN peers BY <2>1 DEF Keys
  <2> QED BY <2>1, <2>2, <2>3
<1>3. /\ Cardinality({a \in as : Shaking(peers[a])}) \in Nat
      /\ Cardinality({a \in as : Holds(peers[a])}) \in Nat
  BY <1>1, FS_Subset, FS_CardinalityType
<1>4. pending' \in Int /\ established' \in Int
  <2> DEFINE m == Cardinality({a \in as : Shaking(peers[a])})
             n == Cardinality({a \in as : Holds(peers[a])})
  <2>1. m \in Nat /\ n \in Nat /\ pending' = pending - m /\ established' = established - n
    BY <1>3 DEF ForgetAll
  <2> HIDE DEF m, n
  <2> QED BY <1>1, <2>1
<1>5. \A a \in Keys' : a \in Keys /\ PeerStays(peers[a], peers'[a]) BY <1>2, KnownPeer
<1> QED BY <1>2, <1>4, <1>5, PeersGo

LEMMA ServerForgetsKeeps == ASSUME IInv, NEW a \in Addrs, ServerForgets(a) PROVE IInv'
BY ForgetKeeps DEF ServerForgets

LEMMA SweepKeeps == ASSUME IInv, Sweep PROVE IInv'
<1>1. Expired \in SUBSET Keys BY DEF Expired
<1> QED BY <1>1, ForgetKeeps DEF Sweep

LEMMA CloseServerKeeps == ASSUME IInv, CloseServer PROVE IInv'
<1>1. Keys' = {} BY DEF CloseServer, Keys
<1>2. peers' \in Table
  <2>1. <<>> \in [{} -> Peer] /\ DOMAIN <<>> = {} /\ IsFiniteSet({}) BY FS_EmptySet
  <2>2. <<>> \in UNION {[S -> Peer] : S \in SUBSET Addrs} BY <2>1
  <2> QED BY <2>1, <2>2 DEF CloseServer, Table
<1> QED BY <1>1, <1>2, PeersGo DEF CloseServer

LEMMA TickKeeps == ASSUME IInv, Tick PROVE IInv'
<1>1. peers \in Table /\ pending \in Int /\ established \in Int BY TypedFacts DEF IInv
<1>2. Keys' = Keys BY DEF Tick, Keys
<1>3. ASSUME NEW a \in Keys PROVE peers'[a] \in Peer /\ PeerStays(peers[a], peers'[a])
  <2> DEFINE p == peers[a]
             n == IF p.idle <= Ttl THEN p.idle + 1 ELSE p.idle
  <2>1. peers'[a] = [p EXCEPT !.idle = n] BY DEF Tick
  <2>2. p \in Peer /\ PeerStays(p, p) BY KnownPeer
  <2>3. n \in Nat BY <2>2, PeerFacts
  <2> HIDE DEF p, n
  <2>4. [p EXCEPT !.idle = n] \in Peer BY <2>2, <2>3 DEF Peer
  <2>5. PeerStays(p, [p EXCEPT !.idle = n])
    <3> DEFINE q == [p EXCEPT !.idle = n]
    <3>1. q.hs = p.hs /\ q.session = p.session /\ q.since = p.since BY <2>2 DEF Peer
    <3> QED BY <2>2, <3>1 DEF PeerStays, Shaking, Holds
  <2> QED BY <2>1, <2>4, <2>5 DEF p
<1>4. peers' \in Table
  <2>1. peers' \in [Keys -> Peer] BY <1>3 DEF Tick
  <2>2. Keys \in SUBSET Addrs /\ IsFiniteSet(Keys) BY <1>1, TableFacts DEF Keys
  <2> QED BY <2>1, <2>2 DEF Table
<1> QED BY <1>1, <1>2, <1>3, <1>4, PeersGo DEF Tick

LEMMA MessageTyped ==
  ASSUME NEW kind \in {"msg1", "msg2", "msg3"}, NEW a \in Addrs, NEW k \in Pair
  PROVE  LET d == Message(kind, a, k)
         IN d \in HandshakeMessage /\ d.kind = kind /\ d.addr = a /\ d.key = k
BY DEF Message, HandshakeMessage

LEMMA TransportTyped ==
  ASSUME NEW kind \in {"up", "down"}, NEW a \in Addrs, NEW k \in Pair, NEW n \in Nat
  PROVE  LET d == Transport(kind, a, k, n)
         IN d \in TransportMessage /\ d.kind = kind /\ d.addr = a /\ d.key = k /\ d.n = n
BY DEF Transport, TransportMessage

(* The peer of a server's handshake message. *)
LEMMA HandshakeFacts ==
  ASSUME IInv, NEW d \in net, d.kind \in {"msg1", "msg2", "msg3"}
  PROVE  d \in HandshakeMessage /\ d.addr \in Addrs /\ d.key \in Pair
BY TypedFacts, MessageFacts DEF IInv

LEMMA OldestIn == ASSUME NEW t, NEW among PROVE Oldest(t, among) \subseteq among
BY DEF Oldest

(* A first message: the key the server generates for it is one that nobody uses. *)
LEMMA StartKeeps ==
  ASSUME IInv, NEW d \in net, d.kind \in {"msg1", "msg3"}, StartHandshake(d),
         UNCHANGED <<attempts, bound, sealed, opened>>
  PROVE  IInv'
<1> DEFINE a    == d.addr
           hs   == <<IF d.kind = "msg1" THEN d.key[1] ELSE Garbage, nextSid>>
           room == RoomForHandshake
           p    == IF a \in Keys THEN peers[a] ELSE [session |-> None, since |-> nextSid]
           q    == [hs |-> hs, session |-> p.session, idle |-> 0, since |-> p.since]
           left == WithoutPeers(peers, room)
<1>1. /\ a \in Keys => ~ Shaking(peers[a])
      /\ peers' = WithPeer(left, a, q)
      /\ pending' = pending - Cardinality(room) + 1
      /\ nextSid' = nextSid + 1 /\ established' = established
      /\ Exchange(d, {Message("msg2", a, hs)})
  BY DEF StartHandshake
<1>t. /\ peers \in Table /\ nextSid \in Nat \ {0} /\ pending \in Int /\ established \in Int
      /\ IsFiniteSet(Keys)
  BY TypedFacts, TableFacts DEF IInv, Keys
<1>2. a \in Addrs /\ d.key \in Pair BY HandshakeFacts
<1>3. hs \in Pair /\ hs[2] = nextSid /\ hs # NoKey
  <2> DEFINE x == IF d.kind = "msg1" THEN d.key[1] ELSE Garbage
  <2>1. x \in Nat /\ nextSid \in Nat BY <1>t, <1>2, KeyFacts DEF Garbage
  <2>2. hs = <<x, nextSid>> OBVIOUS
  <2> HIDE DEF x, hs
  <2>3. hs \in Pair /\ hs[2] = nextSid BY <2>1, <2>2 DEF Pair
  <2> QED BY <2>3, KeyFacts
<1>4. room \subseteq Keys /\ \A b \in room : Half(peers[b])
  BY OldestIn DEF RoomForHandshake
<1>5. /\ p.session \in SessionOrNone /\ p.since \in Nat
      /\ a \in Keys => p = peers[a] /\ peers[a] \in Peer
      /\ a \notin Keys => p.session = None /\ p.since = nextSid
  <2>1. CASE a \in Keys BY <2>1, KnownPeer, PeerFacts
  <2>2. CASE a \notin Keys BY <1>t, <2>2 DEF SessionOrNone
  <2> QED BY <2>1, <2>2
<1> HIDE DEF hs, room, p
<1>6. q \in Peer /\ q.hs = hs /\ q.session = p.session /\ q.since = p.since
  BY <1>3, <1>5 DEF Peer
<1> HIDE DEF q
<1>7. left \in Table /\ DOMAIN left = Keys \ room /\ \A b \in DOMAIN left : left[b] = peers[b]
  BY <1>t, WithoutPeersFacts DEF Keys
<1> HIDE DEF left
<1>8. /\ peers' \in Table /\ Keys' = (Keys \ room) \cup {a} /\ peers'[a] = q
      /\ \A b \in (Keys \ room) \ {a} : peers'[b] = peers[b]
  <2> DEFINE u == WithPeer(left, a, q)
  <2>1. /\ u \in Table /\ DOMAIN u = DOMAIN left \cup {a} /\ u[a] = q
        /\ \A b \in DOMAIN left \ {a} : u[b] = left[b]
    BY <1>2, <1>6, <1>7, WithPeerFacts
  <2>2. peers' = u BY <1>1
  <2> HIDE DEF u
  <2>3. Keys' = DOMAIN u BY <2>2 DEF Keys
  <2> HIDE DEF a
  <2> QED BY <1>7, <2>1, <2>2, <2>3
<1>9. pending' \in Int /\ established' \in Int /\ nextSid' \in Nat \ {0}
  <2> DEFINE n == Cardinality(room)
  <2>1. n \in Nat BY <1>t, <1>4, FS_Subset, FS_CardinalityType
  <2>2. pending' = pending - n + 1 BY <1>1
  <2> HIDE DEF n
  <2> QED BY <1>1, <1>t, <2>1, <2>2
<1>10. \A e \in net' : e \in net \/ (e \in HandshakeMessage /\ e.kind # "msg3")
  <2> DEFINE m == Message("msg2", a, hs)
  <2>1. m \in HandshakeMessage /\ m.kind = "msg2" BY <1>2, <1>3, MessageTyped
  <2>2. net' \subseteq net \cup {m} BY <1>1, ExchangeFacts
  <2> HIDE DEF m
  <2> QED BY <2>1, <2>2
<1>11. \A b \in Keys' : Holds(peers'[b]) =>
          b \in Keys /\ Holds(peers[b]) /\ peers'[b].session.key = peers[b].session.key
  <2> SUFFICES ASSUME NEW b \in Keys', Holds(peers'[b])
               PROVE  b \in Keys /\ Holds(peers[b]) /\ peers'[b].session.key = peers[b].session.key
    OBVIOUS
  <2>1. CASE b = a
    <3>1. q.session # None BY <1>8, <2>1 DEF Holds
    <3> QED BY <1>5, <1>6, <1>8, <2>1, <3>1 DEF Holds
  <2>2. CASE b # a BY <1>8, <2>2
  <2> QED BY <2>1, <2>2
<1>12. /\ Typed' /\ Clients' /\ Mutual'
       /\ Server' <=> PeersWell(peers', nextSid', Down(sealed), Up(Opened))
  BY <1>8, <1>9, <1>10, <1>11, ServerActs
<1>13. PeersWell(peers', nextSid', Down(sealed), Up(Opened))
  <2> DEFINE D == Down(sealed)
             U == Up(Opened)
             next == nextSid + 1
             left2 == peers'
  <2>0. PeersWell(peers, nextSid, D, U) /\ nextSid' = next BY <1>1 DEF IInv, Server
  <2>1. \A e \in D \cup U : e \in TransportMessage /\ e.key \in Pair /\ e.key[2] < nextSid
    <3>1. D \cup U \subseteq TransportMessage BY TypedFacts DEF IInv, Down, Up
    <3>2. \A e \in D \cup U : e.key[2] < nextSid BY <2>0 DEF PeersWell
    <3> QED BY <3>1, <3>2, MessageFacts
  <2>2. \A e \in D \cup U : e.key[2] < next /\ e.key[2] # nextSid
    <3> SUFFICES ASSUME NEW e \in D \cup U PROVE e.key[2] < next /\ e.key[2] # nextSid
      OBVIOUS
    <3>1. e.key[2] \in Nat /\ e.key[2] < nextSid BY <2>1, KeyFacts
    <3> QED BY <1>t, <3>1
  <2>3. PeerWell(q, next, D, U)
    <3>1. a \in Keys => PeerWell(peers[a], nextSid, D, U) BY KnownPeer
    <3>2. q.since < next
      <4>1. a \in Keys => q.since < nextSid BY <1>5, <1>6, <3>1 DEF PeerWell
      <4>2. a \notin Keys => q.since = nextSid BY <1>5, <1>6
      <4>3. q.since \in Nat BY <1>5, <1>6
      <4> QED BY <1>t, <4>1, <4>2, <4>3
    <3>3. Shaking(q) /\ q.hs[2] = nextSid BY <1>3, <1>6 DEF Shaking
    <3>4. q.hs[2] < next /\ \A e \in D \cup U : e.key[2] # q.hs[2] BY <1>t, <2>2, <3>3
    <3>5. ASSUME Holds(q)
          PROVE  /\ q.session.key[2] < next /\ q.hs[2] # q.session.key[2]
                 /\ \A e \in D : e.key = q.session.key => e.n < q.session.counter
                 /\ \A e \in U : e.key = q.session.key => ~Fresh(q.session, e.n)
      <4>1. a \in Keys /\ Holds(peers[a]) /\ q.session = peers[a].session
        BY <1>5, <1>6, <3>5 DEF Holds
      <4>2. q.session.key \in Pair BY <1>6, <3>5, PeerFacts
      <4>3. q.session.key[2] < nextSid /\ q.session.key[2] \in Nat
        BY <3>1, <4>1, <4>2, KeyFacts DEF PeerWell
      <4>4. q.session.key[2] < next /\ q.hs[2] # q.session.key[2] BY <1>t, <3>3, <4>3
      <4> QED BY <3>1, <4>1, <4>4 DEF PeerWell
    <3> QED BY <3>2, <3>3, <3>4, <3>5 DEF PeerWell
  <2>4. \A b \in Keys \ {a}, sid \in Nat : ~(Uses(peers[b], sid) /\ Uses(q, sid))
    <3> SUFFICES ASSUME NEW b \in Keys \ {a}, NEW sid \in Nat, Uses(peers[b], sid), Uses(q, sid)
                 PROVE  FALSE
      OBVIOUS
    <3>1. PeerWell(peers[b], nextSid, D, U) /\ peers[b] \in Peer BY KnownPeer
    <3>2. sid < nextSid BY <3>1 DEF PeerWell, Uses
    <3>3. ~(Shaking(q) /\ q.hs[2] = sid) BY <1>t, <1>3, <1>6, <3>2
    <3>4. Holds(q) /\ q.session.key[2] = sid BY <3>3 DEF Uses
    <3>5. a \in Keys /\ Uses(peers[a], sid) BY <1>5, <1>6, <3>4 DEF Uses, Holds
    <3> QED BY <2>0, <3>5 DEF PeersWell, Keys
  <2>5. \A b \in Keys \ {a} : peers[b].since # q.since
    <3> SUFFICES ASSUME NEW b \in Keys \ {a}, peers[b].since = q.since PROVE FALSE
      OBVIOUS
    <3>1. CASE a \in Keys BY <1>5, <1>6, <2>0, <3>1 DEF PeersWell, Keys
    <3>2. CASE a \notin Keys
      <4>1. PeerWell(peers[b], nextSid, D, U) BY KnownPeer
      <4>2. peers[b].since < nextSid BY <4>1 DEF PeerWell
      <4> QED BY <1>t, <1>5, <1>6, <3>2, <4>2
    <3> QED BY <3>1, <3>2
  <2>6. \A b \in Keys : peers[b] \in Peer BY KnownPeer
  <2>7. nextSid \in Nat /\ next \in Nat /\ next >= nextSid BY <1>t
  <2>8. /\ a \in DOMAIN left2 /\ left2[a] = q
        /\ \A b \in DOMAIN left2 \ {a} : b \in DOMAIN peers /\ left2[b] = peers[b]
    BY <1>8 DEF Keys
  <2>9. Keys = DOMAIN peers BY DEF Keys
  <2>10. \A e \in D \cup U : e \in TransportMessage /\ e.key[2] < next BY <2>1, <2>2
  <2> HIDE DEF D, U, next, left2, a
  <2>11. PeersWell(left2, next, D, U)
    BY <2>0, <2>3, <2>4, <2>5, <2>6, <2>7, <2>8, <2>9, <2>10, PeerChanges
  <2> QED BY <2>0, <2>11 DEF D, U, left2
<1> QED BY <1>12, <1>13 DEF IInv

(* The third message: the session's key is that of the handshake, which its client has. *)
LEMMA FinishKeeps ==
  ASSUME IInv, NEW d \in net, d.kind \in {"msg1", "msg3"}, FinishHandshake(d),
         UNCHANGED <<attempts, bound, sealed, opened>>
  PROVE  IInv'
<1> DEFINE a    == d.addr
           p    == peers[a]
           q    == [p EXCEPT !.hs = NoKey, !.session = NewSession(p.hs), !.idle = 0]
           idle == {b \in Keys \ {a} : Holds(peers[b]) /\ ~ Shaking(peers[b])}
           out  == IF established + 1 > MaxSessions THEN Oldest(peers, idle) ELSE {}
           mid  == WithPeer(peers, a, q)
           u    == WithoutPeers(mid, out)
           D    == Down(sealed)
           U    == Up(Opened)
<1>1. /\ a \in Keys /\ Shaking(p) /\ Completes(p, d)
      /\ peers' = u
      /\ established' = established + 1 - Cardinality(out)
      /\ \E threw \in {FALSE} \cup {MayThrow} : pending' = pending - (IF threw THEN 2 ELSE 1)
      /\ Exchange(d, {}) /\ nextSid' = nextSid
  BY DEF FinishHandshake
<1>t. /\ peers \in Table /\ nextSid \in Nat \ {0} /\ pending \in Int /\ established \in Int
      /\ IsFiniteSet(Keys)
  BY TypedFacts, TableFacts DEF IInv, Keys
<1>2. a \in Addrs /\ p \in Peer /\ PeerWell(p, nextSid, D, U) BY <1>1, KnownPeer
<1>3. out \subseteq idle /\ idle \subseteq Keys \ {a} BY OldestIn
<1>4. pending' \in Int
  <2>1. pending' = pending - 2 \/ pending' = pending - 1 BY <1>1
  <2> QED BY <1>t, <2>1
<1>5. established' \in Int
  <2> DEFINE n == Cardinality(out)
  <2>1. n \in Nat BY <1>t, <1>3, FS_Subset, FS_CardinalityType
  <2>2. established' = established + 1 - n BY <1>1
  <2> HIDE DEF n
  <2> QED BY <1>t, <2>1, <2>2
<1> HIDE DEF out, idle
<1>6. p.hs \in Pair /\ d.kind = "msg3" /\ d.key = p.hs
  BY <1>1, <1>2, PeerFacts DEF Completes
<1>7. /\ q \in Peer /\ q.hs = NoKey /\ q.session = NewSession(p.hs) /\ q.since = p.since
  <2> DEFINE s == NewSession(p.hs)
  <2>1. s \in SessionOrNone BY <1>6, NewSessionFacts
  <2> HIDE DEF s
  <2> QED BY <1>2, <2>1 DEF Peer, s
<1> HIDE DEF q
<1>8. ~Shaking(q) /\ Holds(q) /\ q.session.key = p.hs /\ q.session.counter = 0
  BY <1>6, <1>7, NewSessionFacts DEF Shaking, Holds
<1>9. /\ mid \in Table /\ DOMAIN mid = Keys \cup {a} /\ mid[a] = q
      /\ \A b \in Keys \ {a} : mid[b] = peers[b]
  BY <1>t, <1>2, <1>7, WithPeerFacts DEF Keys
<1> HIDE DEF mid
<1>10. u \in Table /\ DOMAIN u = DOMAIN mid \ out /\ \A b \in DOMAIN u : u[b] = mid[b]
  BY <1>9, WithoutPeersFacts
<1> HIDE DEF u
<1>11. /\ peers' \in Table /\ Keys' = Keys \ out /\ peers'[a] = q
       /\ \A b \in Keys' \ {a} : b \in Keys /\ peers'[b] = peers[b]
  BY <1>1, <1>3, <1>9, <1>10 DEF Keys
<1>12. \A e \in net' : e \in net BY <1>1, ExchangeFacts
<1>13. Agrees(a, p.hs)
  <2>1. d.kind = "msg3" => Agrees(d.addr, d.key) BY DEF IInv, Mutual
  <2> QED BY <1>6, <2>1
<1>14. \A b \in Keys' : Holds(peers'[b]) =>
          \/ b \in Keys /\ Holds(peers[b]) /\ peers'[b].session.key = peers[b].session.key
          \/ Agrees(b, peers'[b].session.key)
  <2> SUFFICES ASSUME NEW b \in Keys', Holds(peers'[b])
               PROVE  \/ /\ b \in Keys /\ Holds(peers[b])
                         /\ peers'[b].session.key = peers[b].session.key
                      \/ Agrees(b, peers'[b].session.key)
    OBVIOUS
  <2>1. CASE b = a
    <3>1. peers'[b].session.key = p.hs BY <1>8, <1>11, <2>1
    <3> QED BY <1>13, <2>1, <3>1
  <2>2. CASE b # a BY <1>11, <2>2
  <2> QED BY <2>1, <2>2
<1>15. nextSid' \in Nat \ {0} BY <1>1, <1>t
<1>16. /\ Typed' /\ Clients' /\ Mutual'
       /\ Server' <=> PeersWell(peers', nextSid', D, U)
  BY <1>4, <1>5, <1>11, <1>12, <1>14, <1>15, ServerActs
<1>17. PeersWell(peers', nextSid', D, U)
  <2>1. PeersWell(peers, nextSid, D, U) BY DEF IInv, Server
  <2>2. D \cup U \subseteq TransportMessage BY TypedFacts DEF IInv, Down, Up
  <2>3. /\ \A e \in D \cup U : e \in TransportMessage /\ e.key[2] < nextSid
        /\ \A e \in D \cup U : e.key[2] # p.hs[2]
    BY <1>1, <1>2, <2>1, <2>2 DEF PeersWell, PeerWell
  <2>4. PeerWell(q, nextSid, D, U)
    <3>1. p.hs[2] < nextSid /\ q.since < nextSid BY <1>1, <1>2, <1>7 DEF PeerWell
    <3>2. \A e \in D \cup U : e.key # q.session.key BY <1>8, <2>3
    <3> QED BY <1>8, <3>1, <3>2 DEF PeerWell
  <2>5. \A sid \in Nat : Uses(q, sid) => Uses(p, sid) BY <1>1, <1>8 DEF Uses
  <2>6. /\ \A b \in Keys \ {a}, sid \in Nat : ~(Uses(peers[b], sid) /\ Uses(q, sid))
        /\ \A b \in Keys \ {a} : peers[b].since # q.since
    BY <1>1, <1>7, <2>1, <2>5 DEF PeersWell, Keys
  <2>7. \A b \in Keys : peers[b] \in Peer BY KnownPeer
  <2>8. nextSid \in Nat /\ nextSid >= nextSid BY <1>t
  <2>9. Keys = DOMAIN peers BY DEF Keys
  <2>10. a \in DOMAIN mid /\ \A b \in DOMAIN mid \ {a} : b \in DOMAIN peers /\ mid[b] = peers[b]
    BY <1>9, <2>9
  <2> HIDE DEF D, U, a, p
  <2>11. PeersWell(mid, nextSid, D, U)
    BY <1>9, <2>1, <2>3, <2>4, <2>6, <2>7, <2>8, <2>9, <2>10, PeerChanges
  <2>12. \A b \in DOMAIN u : b \in DOMAIN mid /\ mid[b] \in Peer /\ u[b] = mid[b]
    BY <1>9, <1>10, TableFacts
  <2>13. \A b \in DOMAIN u : b \in DOMAIN mid /\ PeerStays(mid[b], u[b])
    <3> SUFFICES ASSUME NEW b \in DOMAIN u PROVE b \in DOMAIN mid /\ PeerStays(mid[b], u[b])
      OBVIOUS
    <3>1. PeerWell(mid[b], nextSid, D, U) BY <2>11, <2>12 DEF PeersWell
    <3> QED BY <2>12, <3>1, StaysSame DEF PeerWell
  <2>14. PeersWell(u, nextSid, D, U) BY <2>11, <2>13, PeersShrink
  <2> QED BY <1>1, <2>14
<1> QED BY <1>16, <1>17 DEF IInv

LEMMA AbandonKeeps ==
  ASSUME IInv, NEW d \in net, d.kind \in {"msg1", "msg3"}, Abandon(d),
         UNCHANGED <<attempts, bound, sealed, opened>>
  PROVE  IInv'
<1> DEFINE a == d.addr
           p == peers[a]
           q == [p EXCEPT !.hs = NoKey]
           u == WithPeer(peers, a, q)
           v == WithoutPeers(peers, {a})
<1>1. /\ a \in Keys /\ Shaking(p) /\ pending' = pending - 1 /\ established' = established
      /\ peers' = IF Holds(p) THEN u ELSE v
      /\ Exchange(d, {}) /\ nextSid' = nextSid
  BY DEF Abandon
<1>t. peers \in Table /\ pending \in Int /\ established \in Int BY TypedFacts DEF IInv
<1>2. a \in Addrs /\ p \in Peer BY <1>1, KnownPeer
<1>3. pending' \in Int /\ established' \in Int /\ net' \subseteq net BY <1>1, <1>t, ExchangeFacts
<1>4. peers' \in Table /\ \A b \in Keys' : b \in Keys /\ PeerStays(peers[b], peers'[b])
  <2>1. CASE Holds(p)
    <3>1. q \in Peer /\ q.hs = NoKey /\ q.session = p.session /\ q.since = p.since
      BY <1>2 DEF Peer
    <3>2. PeerStays(p, q) BY <2>1, <3>1 DEF PeerStays, Holds
    <3> HIDE DEF q
    <3>3. /\ u \in Table /\ DOMAIN u = DOMAIN peers \cup {a} /\ u[a] = q
          /\ \A b \in DOMAIN peers \ {a} : u[b] = peers[b]
      BY <1>t, <1>2, <3>1, WithPeerFacts
    <3> HIDE DEF u
    <3>4. peers' = u /\ Keys = DOMAIN peers /\ Keys' = DOMAIN u BY <1>1, <2>1 DEF Keys
    <3>5. \A b \in Keys : PeerStays(peers[b], peers[b]) BY KnownPeer
    <3> QED BY <1>1, <3>2, <3>3, <3>4, <3>5
  <2>2. CASE ~Holds(p)
    <3>1. v \in Table /\ DOMAIN v = DOMAIN peers \ {a} /\ \A b \in DOMAIN v : v[b] = peers[b]
      BY <1>t, WithoutPeersFacts
    <3> HIDE DEF v
    <3>2. peers' = v /\ Keys = DOMAIN peers /\ Keys' = DOMAIN v BY <1>1, <2>2 DEF Keys
    <3>3. \A b \in Keys : PeerStays(peers[b], peers[b]) BY KnownPeer
    <3> QED BY <3>1, <3>2, <3>3
  <2> QED BY <2>1, <2>2
<1> QED BY <1>1, <1>3, <1>4, PeersGo

LEMMA ServerHandshakeKeeps == ASSUME IInv, NEW d \in net, ServerHandshake(d) PROVE IInv'
BY StartKeeps, FinishKeeps, AbandonKeeps DEF ServerHandshake

(* A peer's session seals or opens datagram d. *)
LEMMA PeerUsed ==
  ASSUME IInv, NEW a \in Keys, Holds(peers[a]), NEW q \in Peer, Holds(q),
         q.hs = peers[a].hs, q.since = peers[a].since,
         q.session.key = peers[a].session.key, Evolves(peers[a].session, q.session),
         peers' = WithPeer(peers, a, q),
         NEW d \in TransportMessage, d.key = q.session.key,
         \/ /\ Down(sealed)' = Down(sealed) \cup {d} /\ d.n < q.session.counter
            /\ Up(Opened)' = Up(Opened)
         \/ /\ Up(Opened)' = Up(Opened) \cup {d} /\ ~Fresh(q.session, d.n)
            /\ Down(sealed)' = Down(sealed),
         UNCHANGED <<attempts, pending, established, nextSid>>,
         net' \subseteq net \cup sealed', sealed \subseteq sealed',
         sealed' \subseteq TransportMessage, Opened' \subseteq sealed',
         Up(sealed)' = Up(sealed), Down(Opened)' = Down(Opened)
  PROVE  IInv'
<1> DEFINE p  == peers[a]
           u  == WithPeer(peers, a, q)
           D  == Down(sealed)
           U  == Up(Opened)
           D2 == Down(sealed)'
           U2 == Up(Opened)'
<1>1. /\ Typed /\ Clients /\ Mutual /\ PeersWell(peers, nextSid, D, U) BY DEF IInv, Server
<1>2. a \in Addrs /\ p \in Peer /\ PeerWell(p, nextSid, D, U) BY KnownPeer
<1>3. /\ u \in Table /\ DOMAIN u = DOMAIN peers \cup {a} /\ u[a] = q
      /\ \A b \in DOMAIN peers \ {a} : u[b] = peers[b]
  BY <1>1, <1>2, TypedFacts, WithPeerFacts
<1> HIDE DEF u
<1>4. peers' = u /\ Keys = DOMAIN peers /\ Keys' = DOMAIN u /\ Keys' = Keys
  BY <1>3 DEF Keys, u
<1>5. Typed'
  <2>1. net' \subseteq HandshakeMessage \cup sealed' BY <1>1, TypedFacts
  <2>2. /\ attempts' \in Seq(Attempt) /\ pending' \in Int /\ established' \in Int
        /\ nextSid' \in Nat \ {0} /\ peers' \in Table
    BY <1>1, <1>3, <1>4, TypedFacts
  <2> QED BY <2>1, <2>2, TypedKept
<1>6. AttemptsKept BY <1>1, AttemptsSame
<1>7. Clients'
  <2>1. \A i \in DOMAIN attempts' : ClientWell(i)' BY <1>1 DEF Clients, ClientWell
  <2> QED BY <1>1, <1>5, <1>6, <2>1, ClientsKept
<1>8. Mutual'
  <2>1. \A e \in net' : e.kind = "msg3" => e \in net BY DEF TransportMessage
  <2>2. \A b \in Keys' : Holds(peers'[b]) =>
           b \in Keys /\ Holds(peers[b]) /\ peers'[b].session.key = peers[b].session.key
    <3> SUFFICES ASSUME NEW b \in Keys', Holds(peers'[b])
                 PROVE  b \in Keys /\ Holds(peers[b])
                        /\ peers'[b].session.key = peers[b].session.key
      OBVIOUS
    <3>1. CASE b = a BY <1>3, <1>4, <3>1
    <3>2. CASE b # a BY <1>3, <1>4, <3>2
    <3> QED BY <3>1, <3>2
  <2> QED BY <1>1, <1>5, <1>6, <2>1, <2>2, MutualKept
<1>9. Server'
  <2>0. /\ D2 \cup U2 \subseteq TransportMessage
        /\ D2 \subseteq D \cup {d} /\ U2 \subseteq U \cup {d}
        /\ \A e \in D2 : e \in D \/ (e = d /\ d.n < q.session.counter)
        /\ \A e \in U2 : e \in U \/ (e = d /\ ~Fresh(q.session, d.n))
    BY DEF Down, Up
  <2>f. /\ p.session \in LiveSession /\ q.session \in LiveSession
        /\ p.session.key \in Pair /\ p.session # None
        /\ Shaking(p) => p.hs \in Pair
    BY <1>2, PeerFacts DEF Holds
  <2>g. /\ q.session.counter >= p.session.counter
        /\ q.session.counter \in Nat /\ p.session.counter \in Nat
        /\ \A n \in Nat : Fresh(q.session, n) => Fresh(p.session, n)
    BY <2>f DEF Evolves, LiveSession
  <2>h. p.session.key[2] < nextSid BY <1>2 DEF PeerWell
  <2>1. \A e \in D2 \cup U2 : e \in TransportMessage /\ e.key[2] < nextSid /\ e.n \in Nat
    <3>1. \A e \in D \cup U : e.key[2] < nextSid BY <1>1 DEF PeersWell
    <3>2. d.key[2] < nextSid BY <2>h
    <3> QED BY <2>0, <3>1, <3>2, MessageFacts
  <2>2. \A e \in D2 \cup U2 : e \in D \cup U \/ e.key = p.session.key
    BY <2>0
  <2>3. /\ \A e \in D2 : e \in D \/ (Holds(q) /\ e.key[2] = q.session.key[2])
        /\ \A e \in U2 : e \in U \/ (Holds(q) /\ e.key[2] = q.session.key[2])
    BY <2>0
  <2> HIDE DEF p
  <2>s. Shaking(q) <=> Shaking(p) BY DEF Shaking, p
  <2>x. q.hs = p.hs /\ q.since = p.since /\ q.session.key = p.session.key BY DEF p
  <2>4. PeerWell(q, nextSid, D2, U2)
    <3>1. q.since < nextSid BY <1>2, <2>x DEF PeerWell
    <3>2. ASSUME Shaking(q)
          PROVE  /\ q.hs[2] < nextSid /\ \A e \in D2 \cup U2 : e.key[2] # q.hs[2]
                 /\ q.hs[2] # q.session.key[2]
      <4>1. /\ p.hs[2] < nextSid /\ \A e \in D \cup U : e.key[2] # p.hs[2]
            /\ p.hs[2] # p.session.key[2]
        BY <1>2, <2>s, <3>2 DEF PeerWell, p
      <4> QED BY <2>2, <2>x, <4>1
    <3>3. \A e \in D2 : e.key = q.session.key => e.n < q.session.counter
      <4> SUFFICES ASSUME NEW e \in D2, e.key = q.session.key, e \in D
                   PROVE  e.n < q.session.counter
        BY <2>0
      <4>1. e.n < p.session.counter BY <1>2, <2>x DEF PeerWell, p
      <4>2. e.n \in Nat BY <2>1
      <4> QED BY <2>g, <4>1, <4>2
    <3>4. \A e \in U2 : e.key = q.session.key => ~Fresh(q.session, e.n)
      <4> SUFFICES ASSUME NEW e \in U2, e.key = q.session.key, e \in U
                   PROVE  ~Fresh(q.session, e.n)
        BY <2>0
      <4>1. ~Fresh(p.session, e.n) BY <1>2, <2>x DEF PeerWell, p
      <4>2. e.n \in Nat BY <2>1
      <4> QED BY <2>g, <4>1, <4>2
    <3>5. q.session.key[2] < nextSid BY <2>h, <2>x
    <3> QED BY <3>1, <3>2, <3>3, <3>4, <3>5 DEF PeerWell
  <2>5. \A sid \in Nat : Uses(q, sid) => Uses(p, sid) BY <2>s, <2>x DEF Uses, p
  <2>6. /\ \A b \in Keys \ {a}, sid \in Nat : ~(Uses(peers[b], sid) /\ Uses(q, sid))
        /\ \A b \in Keys \ {a} : peers[b].since # q.since
    BY <1>1, <2>5, <2>x DEF PeersWell, Keys, p
  <2>7. \A b \in DOMAIN peers : peers[b] \in Peer BY <1>4, KnownPeer
  <2>8. nextSid \in Nat /\ nextSid >= nextSid BY <1>1, TypedFacts
  <2>9. a \in DOMAIN u /\ \A b \in DOMAIN u \ {a} : b \in DOMAIN peers /\ u[b] = peers[b]
    BY <1>3
  <2>10. PeersWell(u, nextSid, D2, U2)
    <3> DEFINE dd == D2
               uu == U2
    <3>1. /\ \A e \in dd \cup uu : e \in TransportMessage /\ e.key[2] < nextSid
          /\ \A e \in dd : e \in D \/ (Holds(q) /\ e.key[2] = q.session.key[2])
          /\ \A e \in uu : e \in U \/ (Holds(q) /\ e.key[2] = q.session.key[2])
          /\ PeerWell(q, nextSid, dd, uu)
      BY <2>1, <2>3, <2>4
    <3> HIDE DEF dd, uu, D, U
    <3>2. PeersWell(u, nextSid, dd, uu)
      BY <1>1, <1>3, <1>4, <2>6, <2>7, <2>8, <2>9, <3>1, PeerChanges
    <3> QED BY <3>2 DEF dd, uu
  <2> QED BY <1>4, <2>10 DEF Server
<1> QED BY <1>5, <1>7, <1>8, <1>9 DEF IInv

LEMMA ServerOpensKeeps == ASSUME IInv, NEW d \in net, ServerOpens(d) PROVE IInv'
<1> DEFINE a == d.addr
           p == peers[a]
           s == p.session
           r == Recorded(s, d.n)
           q == [p EXCEPT !.session = r, !.idle = 0]
<1>1. /\ d.kind = "up" /\ a \in Keys /\ Holds(p) /\ Opens(s, d)
      /\ peers' = WithPeer(peers, a, q)
      /\ opened' = opened (+) SetToBag({d}) /\ Exchange(d, {})
      /\ UNCHANGED <<attempts, pending, established, nextSid, sealed>>
  BY DEF ServerOpens
<1>2. p \in Peer /\ s \in LiveSession BY <1>1, KnownPeer, PeerFacts
<1>3. d \in sealed /\ d \in TransportMessage /\ d.n \in Nat
  BY <1>1, TypedFacts, MessageFacts DEF IInv
<1>4. d.key = s.key BY <1>1 DEF Opens
<1>5. /\ r \in SessionOrNone /\ r # None /\ r.key = s.key /\ Evolves(s, r) /\ ~Fresh(r, d.n)
  BY <1>2, <1>3, RecordedFacts
<1> HIDE DEF r
<1>6. /\ q \in Peer /\ q.hs = p.hs /\ q.since = p.since /\ q.session = r BY <1>2, <1>5 DEF Peer
<1> HIDE DEF q
<1>7. Opened' = Opened \cup {d} BY <1>1, OpenedMore
<1>8. /\ Up(Opened)' = Up(Opened) \cup {d} /\ Down(Opened)' = Down(Opened)
      /\ Down(sealed)' = Down(sealed) /\ Up(sealed)' = Up(sealed)
  BY <1>1, <1>7 DEF Up, Down
<1>9. /\ net' \subseteq net \cup sealed' /\ sealed \subseteq sealed'
      /\ sealed' \subseteq TransportMessage /\ Opened' \subseteq sealed'
  <2>1. sealed \subseteq TransportMessage /\ Opened \subseteq sealed BY TypedFacts DEF IInv
  <2>2. net' \subseteq net BY <1>1, ExchangeFacts
  <2> QED BY <1>1, <1>3, <1>7, <2>1, <2>2
<1>10. Holds(q) BY <1>5, <1>6 DEF Holds
<1> QED BY <1>1, <1>3, <1>4, <1>5, <1>6, <1>8, <1>9, <1>10, PeerUsed

LEMMA ServerSealsKeeps == ASSUME IInv, NEW a \in Addrs, ServerSeals(a) PROVE IInv'
<1> DEFINE p == peers[a]
           s == p.session
           r == Sent(s)
           q == [p EXCEPT !.session = r]
           d == Transport("down", a, s.key, s.counter)
<1>1. /\ a \in Keys /\ Holds(p) /\ peers' = WithPeer(peers, a, q)
      /\ sealed' = sealed \cup {d} /\ net' = net \cup {d}
      /\ UNCHANGED <<attempts, pending, established, nextSid, opened>>
  BY DEF ServerSeals
<1>2. p \in Peer /\ s \in LiveSession /\ s.key \in Pair BY <1>1, KnownPeer, PeerFacts
<1>3. s.counter \in Nat BY <1>2 DEF LiveSession
<1>4. d \in TransportMessage /\ d.kind = "down" /\ d.key = s.key /\ d.n = s.counter
  BY <1>2, <1>3, TransportTyped
<1> HIDE DEF d
<1>5. /\ r \in SessionOrNone /\ r # None /\ r.key = s.key /\ Evolves(s, r)
      /\ r.counter = s.counter + 1
  BY <1>2, SentFacts
<1> HIDE DEF r
<1>6. /\ q \in Peer /\ q.hs = p.hs /\ q.since = p.since /\ q.session = r BY <1>2, <1>5 DEF Peer
<1> HIDE DEF q
<1>7. d.n < r.counter BY <1>3, <1>4, <1>5
<1>8. Opened' = Opened BY <1>1 DEF Opened
<1>9. /\ Up(Opened)' = Up(Opened) /\ Down(Opened)' = Down(Opened)
      /\ Down(sealed)' = Down(sealed) \cup {d} /\ Up(sealed)' = Up(sealed)
  BY <1>1, <1>4, <1>8 DEF Up, Down
<1>10. /\ net' \subseteq net \cup sealed' /\ sealed \subseteq sealed'
       /\ sealed' \subseteq TransportMessage /\ Opened' \subseteq sealed'
  <2>1. sealed \subseteq TransportMessage /\ Opened \subseteq sealed BY TypedFacts DEF IInv
  <2> QED BY <1>1, <1>4, <1>8, <2>1
<1>11. Holds(q) BY <1>5, <1>6 DEF Holds
<1> QED BY <1>1, <1>4, <1>5, <1>6, <1>7, <1>9, <1>10, <1>11, PeerUsed

-----------------------------------------------------------------------------
(* What the clients do. *)

LEMMA ClientActs ==
  ASSUME IInv, UNCHANGED <<peers, pending, established, nextSid>>,
         attempts' \in Seq(Attempt), AttemptsKept,
         \A i \in DOMAIN attempts' : ClientWell(i)',
         net' \subseteq net \cup HandshakeMessage \cup sealed',
         sealed \subseteq sealed', sealed' \subseteq TransportMessage, Opened' \subseteq sealed',
         Down(sealed)' = Down(sealed), Up(Opened)' = Up(Opened),
         \A d \in Up(sealed)' : d \in Up(sealed) \/ UpOK(d)',
         \A d \in Down(Opened)' : d \in Down(Opened) \/ DownOK(d)',
         \A d \in net' : d.kind = "msg3" => d \in net \/ Agrees(d.addr, d.key)'
  PROVE  IInv'
<1>1. Typed /\ Clients /\ Mutual /\ Server BY DEF IInv
<1>2. Typed'
  <2>1. net' \subseteq HandshakeMessage \cup sealed' BY <1>1, TypedFacts
  <2>2. /\ pending' \in Int /\ established' \in Int /\ nextSid' \in Nat \ {0} /\ peers' \in Table
    BY <1>1, TypedFacts
  <2> QED BY <2>1, <2>2, TypedKept
<1>3. Clients' BY <1>1, <1>2, ClientsKept
<1>4. Mutual' BY <1>1, <1>2, MutualKept DEF Keys
<1>5. Server' BY <1>1 DEF Server
<1> QED BY <1>2, <1>3, <1>4, <1>5 DEF IInv

LEMMA ClientFacts ==
  ASSUME IInv, NEW i \in DOMAIN attempts
  PROVE  /\ attempts[i] \in Attempt /\ i \in Nat /\ ClientWell(i)
         /\ attempts[i].addr \in Addrs /\ attempts[i].session \in SessionOrNone
         /\ attempts[i].state \in {"shaking", "spoiled", "live", "closed"}
BY TypedFacts DEF IInv, Clients, Attempt

(* One client's record changes to c. *)
LEMMA ClientChanges ==
  ASSUME IInv, UNCHANGED <<peers, pending, established, nextSid>>,
         NEW i \in DOMAIN attempts, NEW c \in Attempt, attempts' = [attempts EXCEPT ![i] = c],
         c.addr = attempts[i].addr, Evolves(attempts[i].session, c.session),
         c.state \in {"shaking", "spoiled"} => c.session = None,
         c.state = "live" => c.session # None,
         c.session # None => c.session.key[1] = i,
         net' \subseteq net \cup HandshakeMessage \cup sealed',
         sealed \subseteq sealed', sealed' \subseteq TransportMessage, Opened' \subseteq sealed',
         Down(sealed)' = Down(sealed), Up(Opened)' = Up(Opened),
         \A d \in Up(sealed)' : d \in Up(sealed)
            \/ (d.key[1] = i /\ c.session.key = d.key /\ d.n < c.session.counter),
         \A d \in Down(Opened)' : d \in Down(Opened)
            \/ (d.key[1] = i /\ c.session.key = d.key /\ ~Fresh(c.session, d.n)),
         \A d \in net' : d.kind = "msg3" =>
            d \in net \/ (d.key[1] = i /\ c.addr = d.addr /\ c.session.key = d.key)
  PROVE  IInv'
<1>1. attempts \in Seq(Attempt) BY TypedFacts DEF IInv
<1>2. /\ attempts' \in Seq(Attempt) /\ DOMAIN attempts' = DOMAIN attempts /\ attempts'[i] = c
      /\ \A j \in DOMAIN attempts \ {i} : attempts'[j] = attempts[j]
  BY <1>1
<1>3. AttemptsKept
  <2>1. \A j \in DOMAIN attempts : Evolves(attempts[j].session, attempts[j].session)
    BY ClientFacts, EvolvesRefl
  <2> QED BY <1>2, <2>1 DEF AttemptsKept
<1>4. \A j \in DOMAIN attempts' : ClientWell(j)'
  <2> SUFFICES ASSUME NEW j \in DOMAIN attempts PROVE ClientWell(j)'
    BY <1>2
  <2>1. CASE j = i BY <1>2, <2>1 DEF ClientWell
  <2>2. CASE j # i
    <3>1. ClientWell(j) /\ attempts'[j] = attempts[j] BY <1>2, <2>2, ClientFacts
    <3> QED BY <3>1 DEF ClientWell
  <2> QED BY <2>1, <2>2
<1>5. \A d \in Up(sealed)' : d \in Up(sealed) \/ UpOK(d)' BY <1>2 DEF UpOK
<1>6. \A d \in Down(Opened)' : d \in Down(Opened) \/ DownOK(d)' BY <1>2 DEF DownOK
<1>7. \A d \in net' : d.kind = "msg3" => d \in net \/ Agrees(d.addr, d.key)' BY <1>2 DEF Agrees
<1> QED BY <1>2, <1>3, <1>4, <1>5, <1>6, <1>7, ClientActs

(* Steps that seal and open nothing leave the record of it alone. *)
LEMMA NothingSealed ==
  ASSUME IInv, UNCHANGED <<sealed, opened>>
  PROVE  /\ sealed \subseteq sealed' /\ sealed' \subseteq TransportMessage /\ Opened' \subseteq sealed'
         /\ Down(sealed)' = Down(sealed) /\ Up(Opened)' = Up(Opened)
         /\ Up(sealed)' = Up(sealed) /\ Down(Opened)' = Down(Opened)
<1>1. Opened' = Opened BY DEF Opened
<1> QED BY <1>1, TypedFacts DEF IInv, Up, Down

LEMMA HelloTyped ==
  ASSUME NEW a \in Addrs, NEW i \in Nat
  PROVE  LET d == Message("msg1", a, <<i, Garbage>>)
         IN d \in HandshakeMessage /\ d.kind # "msg3"
<1>1. <<i, Garbage>> \in Pair BY DEF Pair, Garbage
<1> QED BY <1>1, MessageTyped

LEMMA ConnectKeeps == ASSUME IInv, NEW a \in Addrs, Connect(a) PROVE IInv'
<1> DEFINE i == Len(attempts) + 1
           c == [addr |-> a, state |-> "shaking", session |-> None]
           m == Message("msg1", a, <<i, Garbage>>)
<1>1. attempts' = Append(attempts, c) /\ net' = net \cup {m}
      /\ UNCHANGED <<peers, pending, established, nextSid, sealed, opened>>
  BY DEF Connect, server
<1>2. attempts \in Seq(Attempt) /\ i \in Nat BY TypedFacts DEF IInv
<1>3. c \in Attempt /\ c.state = "shaking" /\ c.session = None BY DEF Attempt, SessionOrNone
<1>m. m \in HandshakeMessage /\ m.kind # "msg3" BY <1>2, HelloTyped
<1> HIDE DEF c, m
<1>4. /\ attempts' \in Seq(Attempt) /\ DOMAIN attempts' = DOMAIN attempts \cup {i}
      /\ attempts'[i] = c /\ i \notin DOMAIN attempts
      /\ \A j \in DOMAIN attempts : attempts'[j] = attempts[j]
  BY <1>1, <1>2, <1>3
<1> HIDE DEF i
<1>5. AttemptsKept
  <2>1. \A j \in DOMAIN attempts : Evolves(attempts[j].session, attempts[j].session)
    BY ClientFacts, EvolvesRefl
  <2> QED BY <1>4, <2>1 DEF AttemptsKept
<1>6. \A j \in DOMAIN attempts' : ClientWell(j)'
  <2> SUFFICES ASSUME NEW j \in DOMAIN attempts' PROVE ClientWell(j)'
    OBVIOUS
  <2>1. CASE j = i BY <1>3, <1>4, <2>1 DEF ClientWell
  <2>2. CASE j # i
    <3>1. j \in DOMAIN attempts /\ ClientWell(j) /\ attempts'[j] = attempts[j]
      BY <1>4, <2>2, ClientFacts
    <3> QED BY <3>1 DEF ClientWell
  <2> QED BY <2>1, <2>2
<1>7. net' \subseteq net \cup HandshakeMessage \cup sealed'
      /\ \A d \in net' : d.kind = "msg3" => d \in net
  BY <1>1, <1>m
<1> QED BY <1>1, <1>4, <1>5, <1>6, <1>7, NothingSealed, ClientActs

LEMMA RetransmitKeeps == ASSUME IInv, NEW i \in DOMAIN attempts, Retransmit(i) PROVE IInv'
<1> DEFINE m == Message("msg1", attempts[i].addr, <<i, Garbage>>)
<1>1. net' = net \cup {m}
      /\ UNCHANGED <<attempts, peers, pending, established, nextSid, sealed, opened>>
  BY DEF Retransmit, server
<1>2. m \in HandshakeMessage /\ m.kind # "msg3" BY ClientFacts, HelloTyped
<1> HIDE DEF m
<1>3. Typed /\ attempts' \in Seq(Attempt) BY <1>1, TypedFacts DEF IInv
<1>4. AttemptsKept BY <1>1, <1>3, AttemptsSame
<1>5. \A j \in DOMAIN attempts' : ClientWell(j)'
  BY <1>1 DEF ClientWell, IInv, Clients
<1>6. net' \subseteq net \cup HandshakeMessage \cup sealed'
      /\ \A d \in net' : d.kind = "msg3" => d \in net
  BY <1>1, <1>2
<1> QED BY <1>1, <1>3, <1>4, <1>5, <1>6, NothingSealed, ClientActs

LEMMA CloseClientKeeps == ASSUME IInv, NEW i \in DOMAIN attempts, CloseClient(i) PROVE IInv'
<1> DEFINE c == [attempts[i] EXCEPT !.state = "closed"]
<1>1. /\ attempts' = [attempts EXCEPT ![i] = c]
      /\ UNCHANGED <<peers, pending, established, nextSid, net, sealed, opened>>
  BY DEF CloseClient, server
<1>2. attempts[i] \in Attempt /\ ClientWell(i) /\ attempts[i].session \in SessionOrNone
  BY ClientFacts
<1>3. /\ c \in Attempt /\ c.state = "closed" /\ c.addr = attempts[i].addr
      /\ c.session = attempts[i].session
  BY <1>2 DEF Attempt
<1> HIDE DEF c
<1>4. Evolves(attempts[i].session, c.session) BY <1>2, <1>3, EvolvesRefl
<1>5. c.session # None => c.session.key[1] = i BY <1>2, <1>3 DEF ClientWell
<1>6. net' \subseteq net \cup HandshakeMessage \cup sealed' BY <1>1
<1> QED BY <1>1, <1>3, <1>4, <1>5, <1>6, NothingSealed, ClientChanges

LEMMA ClientShakesKeeps ==
  ASSUME IInv, NEW d \in net, NEW i \in AtAddr(d.addr), ClientShakes(d, i)
  PROVE  IInv'
<1> DEFINE live == attempts[i].state = "shaking" /\ d.key[1] = i
           st == IF live THEN "live" ELSE "spoiled"
           s == IF live THEN NewSession(d.key) ELSE None
           c == [attempts[i] EXCEPT !.state = st, !.session = s]
           m == Message("msg3", d.addr, d.key)
<1>1. /\ i \in DOMAIN attempts /\ attempts[i].addr = d.addr BY DEF AtAddr
<1>2. /\ d.kind = "msg2" /\ attempts[i].state \in {"shaking", "spoiled"}
      /\ attempts' = [attempts EXCEPT ![i].state = st, ![i].session = s]
      /\ Exchange(d, IF live THEN {m} ELSE {})
      /\ UNCHANGED <<peers, pending, established, nextSid, sealed, opened>>
  BY DEF ClientShakes, server
<1>3. attempts[i] \in Attempt /\ attempts[i].session = None /\ attempts \in Seq(Attempt)
  BY <1>1, <1>2, ClientFacts, TypedFacts DEF ClientWell, IInv
<1>4. d.addr \in Addrs /\ d.key \in Pair BY <1>2, HandshakeFacts
<1>5. /\ s \in SessionOrNone /\ st \in {"live", "spoiled"}
      /\ live => s # None /\ s.key = d.key /\ st = "live"
      /\ ~live => s = None /\ st = "spoiled"
  BY <1>4, NewSessionFacts DEF SessionOrNone
<1>6. m \in HandshakeMessage /\ m.addr = d.addr /\ m.key = d.key BY <1>4, MessageTyped
<1>7. net' \subseteq net \cup {m} /\ (~live => net' \subseteq net)
  BY <1>2, ExchangeFacts
<1>8. live => d.key[1] = i OBVIOUS
<1> HIDE DEF m, s, st, live
<1>9. attempts' = [attempts EXCEPT ![i] = c] BY <1>1, <1>2, <1>3
<1>10. c \in Attempt /\ c.addr = d.addr /\ c.state = st /\ c.session = s
  BY <1>1, <1>3, <1>5 DEF Attempt
<1> HIDE DEF c
<1>11. Evolves(attempts[i].session, c.session) BY <1>3 DEF Evolves
<1>12. /\ c.state \in {"shaking", "spoiled"} => c.session = None
       /\ c.state = "live" => c.session # None
       /\ c.session # None => c.session.key[1] = i
  BY <1>5, <1>8, <1>10
<1>13. net' \subseteq net \cup HandshakeMessage \cup sealed' BY <1>6, <1>7
<1>14. \A e \in net' : e.kind = "msg3" =>
          e \in net \/ (e.key[1] = i /\ c.addr = e.addr /\ c.session.key = e.key)
  BY <1>5, <1>6, <1>7, <1>8, <1>10
<1>15. /\ sealed \subseteq sealed' /\ sealed' \subseteq TransportMessage /\ Opened' \subseteq sealed'
       /\ Down(sealed)' = Down(sealed) /\ Up(Opened)' = Up(Opened)
       /\ Up(sealed)' = Up(sealed) /\ Down(Opened)' = Down(Opened)
  BY <1>2, NothingSealed
<1>16. c.addr = attempts[i].addr BY <1>1, <1>10
<1>17. UNCHANGED <<peers, pending, established, nextSid>> BY <1>2
<1> QED BY <1>1, <1>9, <1>10, <1>11, <1>12, <1>13, <1>14, <1>15, <1>16, <1>17, ClientChanges

LEMMA ClientOpensKeeps ==
  ASSUME IInv, NEW d \in net, NEW i \in AtAddr(d.addr), ClientOpens(d, i)
  PROVE  IInv'
<1> DEFINE s == attempts[i].session
           r == Recorded(s, d.n)
           c == [attempts[i] EXCEPT !.session = r]
<1>1. i \in DOMAIN attempts BY DEF AtAddr
<1>2. /\ d.kind = "down" /\ attempts[i].state = "live" /\ Opens(s, d)
      /\ attempts' = [attempts EXCEPT ![i] = c]
      /\ opened' = opened (+) SetToBag({d}) /\ Exchange(d, {})
      /\ UNCHANGED <<peers, pending, established, nextSid, sealed>>
  BY DEF ClientOpens, server
<1>3. /\ attempts[i] \in Attempt /\ s \in LiveSession /\ s # None /\ s.key[1] = i
  BY <1>1, <1>2, ClientFacts, SessionFacts DEF ClientWell
<1>4. d \in sealed /\ d \in TransportMessage /\ d.n \in Nat
  BY <1>2, TypedFacts, MessageFacts DEF IInv
<1>5. d.key = s.key BY <1>2 DEF Opens
<1>6. /\ r \in SessionOrNone /\ r # None /\ r.key = s.key /\ Evolves(s, r) /\ ~Fresh(r, d.n)
  BY <1>3, <1>4, RecordedFacts
<1> HIDE DEF r
<1>7. /\ c \in Attempt /\ c.addr = attempts[i].addr /\ c.state = "live" /\ c.session = r
  BY <1>2, <1>3, <1>6 DEF Attempt
<1> HIDE DEF c
<1>8. Opened' = Opened \cup {d} BY <1>2, OpenedMore
<1>9. /\ Down(Opened)' = Down(Opened) \cup {d} /\ Up(Opened)' = Up(Opened)
      /\ Down(sealed)' = Down(sealed) /\ Up(sealed)' = Up(sealed)
  BY <1>2, <1>8 DEF Up, Down
<1>10. /\ net' \subseteq net /\ sealed \subseteq sealed'
       /\ sealed' \subseteq TransportMessage /\ Opened' \subseteq sealed'
  <2>1. sealed \subseteq TransportMessage /\ Opened \subseteq sealed BY TypedFacts DEF IInv
  <2>2. net' \subseteq net BY <1>2, ExchangeFacts
  <2> QED BY <1>2, <1>4, <1>8, <2>1, <2>2
<1>11. net' \subseteq net \cup HandshakeMessage \cup sealed' BY <1>10
<1>12. \A e \in Down(Opened)' : e \in Down(Opened)
          \/ (e.key[1] = i /\ c.session.key = e.key /\ ~Fresh(c.session, e.n))
  BY <1>3, <1>5, <1>6, <1>7, <1>9
<1> QED BY <1>1, <1>2, <1>3, <1>6, <1>7, <1>9, <1>10, <1>11, <1>12, ClientChanges

LEMMA ClientSealsKeeps == ASSUME IInv, NEW i \in DOMAIN attempts, ClientSeals(i) PROVE IInv'
<1> DEFINE s == attempts[i].session
           r == Sent(s)
           c == [attempts[i] EXCEPT !.session = r]
           d == Transport("up", attempts[i].addr, s.key, s.counter)
<1>1. /\ attempts[i].state = "live" /\ attempts' = [attempts EXCEPT ![i] = c]
      /\ sealed' = sealed \cup {d} /\ net' = net \cup {d}
      /\ UNCHANGED <<peers, pending, established, nextSid, opened>>
  BY DEF ClientSeals, server
<1>2. /\ attempts[i] \in Attempt /\ attempts[i].addr \in Addrs
      /\ s \in LiveSession /\ s # None /\ s.key[1] = i /\ s.key \in Pair
  BY <1>1, ClientFacts, SessionFacts DEF ClientWell
<1>3. s.counter \in Nat BY <1>2 DEF LiveSession
<1>4. d \in TransportMessage /\ d.kind = "up" /\ d.key = s.key /\ d.n = s.counter
  BY <1>2, <1>3, TransportTyped
<1> HIDE DEF d
<1>5. /\ r \in SessionOrNone /\ r # None /\ r.key = s.key /\ Evolves(s, r)
      /\ r.counter = s.counter + 1
  BY <1>2, SentFacts
<1> HIDE DEF r
<1>6. d.n < r.counter BY <1>3, <1>4, <1>5
<1>7. /\ c \in Attempt /\ c.addr = attempts[i].addr /\ c.state = "live" /\ c.session = r
  BY <1>1, <1>2, <1>5 DEF Attempt
<1> HIDE DEF c
<1>8. Opened' = Opened BY <1>1 DEF Opened
<1>9. /\ Up(Opened)' = Up(Opened) /\ Down(Opened)' = Down(Opened)
      /\ Down(sealed)' = Down(sealed) /\ Up(sealed)' = Up(sealed) \cup {d}
  BY <1>1, <1>4, <1>8 DEF Up, Down
<1>10. /\ net' \subseteq net \cup HandshakeMessage \cup sealed' /\ sealed \subseteq sealed'
       /\ sealed' \subseteq TransportMessage /\ Opened' \subseteq sealed'
  <2>1. sealed \subseteq TransportMessage /\ Opened \subseteq sealed BY TypedFacts DEF IInv
  <2> QED BY <1>1, <1>4, <1>8, <2>1
<1>11. \A e \in net' : e.kind = "msg3" => e \in net BY <1>1, <1>4
<1>12. \A e \in Up(sealed)' : e \in Up(sealed)
          \/ (e.key[1] = i /\ c.session.key = e.key /\ e.n < c.session.counter)
  BY <1>2, <1>4, <1>5, <1>6, <1>7, <1>9
<1> QED BY <1>1, <1>2, <1>5, <1>7, <1>9, <1>10, <1>11, <1>12, ClientChanges

-----------------------------------------------------------------------------
(* The invariant. *)

LEMMA InitInv == ASSUME SecureUdpInit PROVE IInv
<1>1. /\ attempts = <<>> /\ peers = <<>> /\ pending = 0 /\ established = 0
      /\ nextSid = 1 /\ net = {} /\ sealed = {} /\ opened = EmptyBag
  BY DEF SecureUdpInit
<1>2. Opened = {} BY <1>1 DEF Opened, EmptyBag, SetToBag, BagToSet
<1>3. Keys = {} /\ DOMAIN attempts = {} /\ IsFiniteSet(Keys) BY <1>1, FS_EmptySet DEF Keys
<1>4. Typed
  <2>1. <<>> \in [{} -> Peer] /\ {} \in SUBSET Addrs /\ attempts \in Seq(Attempt) BY <1>1
  <2>2. peers \in UNION {[S -> Peer] : S \in SUBSET Addrs} BY <1>1, <2>1
  <2> QED BY <1>1, <1>2, <1>3, <2>1, <2>2 DEF Typed
<1>5. Clients /\ Mutual BY <1>1, <1>2, <1>3 DEF Clients, Mutual, Up, Down
<1>6. Server
  <2>1. Down(sealed) = {} /\ Up(Opened) = {} BY <1>1, <1>2 DEF Up, Down
  <2> QED BY <1>3, <2>1 DEF Server, PeersWell, Keys
<1> QED BY <1>4, <1>5, <1>6 DEF IInv

LEMMA StutterKeeps == ASSUME IInv, UNCHANGED udpVars PROVE IInv'
<1>1. UNCHANGED <<attempts, peers, pending, established, nextSid, net, sealed, opened>>
  BY DEF udpVars, server
<1>2. peers \in Table /\ pending \in Int /\ established \in Int BY TypedFacts DEF IInv
<1>3. \A a \in Keys' : a \in Keys /\ PeerStays(peers[a], peers'[a])
  BY <1>1, KnownPeer DEF Keys
<1> QED BY <1>1, <1>2, <1>3, PeersGo

LEMMA StepInv == ASSUME IInv, [SecureUdpNext]_udpVars PROVE IInv'
<1>1. CASE UNCHANGED udpVars BY <1>1, StutterKeeps
<1>2. ASSUME NEW d \in net, Arrives(d) PROVE IInv'
  BY <1>2, ServerHandshakeKeeps, ServerOpensKeeps, ClientShakesKeeps, ClientOpensKeeps
  DEF Arrives
<1>3. ASSUME NEW a \in Addrs, Connect(a) \/ ServerSeals(a) \/ ServerForgets(a) PROVE IInv'
  BY <1>3, ConnectKeeps, ServerSealsKeeps, ServerForgetsKeeps
<1>4. ASSUME NEW i \in DOMAIN attempts, Retransmit(i) \/ CloseClient(i) \/ ClientSeals(i)
      PROVE  IInv'
  BY <1>4, RetransmitKeeps, CloseClientKeeps, ClientSealsKeeps
<1>5. ASSUME Tick \/ Sweep \/ CloseServer PROVE IInv'
  BY <1>5, TickKeeps, SweepKeeps, CloseServerKeeps
<1> QED BY <1>1, <1>2, <1>3, <1>4, <1>5 DEF SecureUdpNext

LEMMA Invariance == SecureUdpSpec => []IInv
BY InitInv, StepInv, PTL DEF SecureUdpSpec

-----------------------------------------------------------------------------
(* The half-open handshakes are counted, and bounded, when onSession never   *)
(* throws: each start adds one, and each end takes one away.                 *)

LEMMA LeastExists ==
  ASSUME NEW T, T \subseteq Nat, T # {}
  PROVE  \E x \in T : \A y \in T : x <= y
<1> DEFINE R == OpToRel(<, Nat)
<1>1. IsWellFoundedOn(R, Nat) BY NatLessThanWellFounded
<1>2. R = {p \in Nat \X Nat : p[1] < p[2]} BY DEF OpToRel
<1> HIDE DEF R
<1>3. PICK x \in T : \A y \in T : <<y, x>> \notin R BY <1>1, WFMin
<1>4. \A y \in T : ~(y < x) BY <1>2, <1>3
<1> QED BY <1>4

LEMMA OldestExists ==
  ASSUME NEW t \in Table, NEW among, among \subseteq DOMAIN t, among # {}
  PROVE  Oldest(t, among) # {}
<1> DEFINE T == {t[a].since : a \in among}
<1>1. T \subseteq Nat /\ T # {} BY TableFacts, PeerFacts
<1>2. PICK x \in T : \A y \in T : x <= y BY <1>1, LeastExists
<1>3. PICK a \in among : x = t[a].since BY <1>2
<1>4. a \in Oldest(t, among) BY <1>2, <1>3 DEF Oldest
<1> QED BY <1>4

LEMMA SetsFacts ==
  ASSUME NEW t, IsFiniteSet(DOMAIN t)
  PROVE  /\ Halves(t) \subseteq Shakers(t) /\ Shakers(t) \subseteq DOMAIN t
         /\ IsFiniteSet(Shakers(t)) /\ IsFiniteSet(Halves(t))
         /\ Cardinality(Shakers(t)) \in Nat /\ Cardinality(Halves(t)) \in Nat
         /\ Cardinality(Halves(t)) <= Cardinality(Shakers(t))
<1>1. Halves(t) \subseteq Shakers(t) /\ Shakers(t) \subseteq DOMAIN t
  BY DEF Halves, Shakers, Half, Shaking
<1>2. IsFiniteSet(Shakers(t)) BY <1>1, FS_Subset
<1>3. IsFiniteSet(Halves(t)) /\ Cardinality(Halves(t)) <= Cardinality(Shakers(t))
  BY <1>1, <1>2, FS_Subset
<1> QED BY <1>1, <1>2, <1>3, FS_CardinalityType

LEMMA HalvesIn ==
  ASSUME Counted, IsFiniteSet(Keys), Halves(peers') \subseteq Halves(peers)
  PROVE  Cardinality(Halves(peers')) <= MaxPending
<1>1. Cardinality(Halves(peers')) <= Cardinality(Halves(peers))
  BY SetsFacts, FS_Subset DEF Keys
<1>2. IsFiniteSet(Halves(peers')) BY SetsFacts, FS_Subset DEF Keys
<1> DEFINE m == Cardinality(Halves(peers'))
           n == Cardinality(Halves(peers))
<1>3. m \in Nat /\ n \in Nat /\ m <= n /\ n <= MaxPending
  BY <1>1, <1>2, SetsFacts, FS_CardinalityType DEF Keys, Counted
<1>4. MaxPending \in Nat BY SecureUdpAssumption
<1> HIDE DEF m, n
<1>5. m <= MaxPending BY <1>3, <1>4
<1> QED BY <1>5 DEF m

LEMMA SameCounts ==
  ASSUME Counted, pending' = pending, Shakers(peers') = Shakers(peers),
         Halves(peers') = Halves(peers)
  PROVE  Counted'
BY DEF Counted

LEMMA FiniteKeys == ASSUME IInv PROVE IsFiniteSet(Keys) /\ IsFiniteSet(DOMAIN peers) /\ peers \in Table
BY TypedFacts, TableFacts DEF IInv, Keys

LEMMA ForgetCounts ==
  ASSUME IInv, Counted, NEW as \in SUBSET Keys, ForgetAll(as)
  PROVE  Counted'
<1> DEFINE u == WithoutPeers(peers, as)
           gone == {a \in as : Shaking(peers[a])}
<1>1. peers' = u /\ pending' = pending - Cardinality(gone) BY DEF ForgetAll
<1>2. DOMAIN u = DOMAIN peers \ as /\ \A b \in DOMAIN u : u[b] = peers[b]
  BY FiniteKeys, WithoutPeersFacts
<1> HIDE DEF u
<1>3. Shakers(u) = Shakers(peers) \ gone /\ Halves(u) \subseteq Halves(peers)
  BY <1>2 DEF Shakers, Halves, Half, Shaking
<1>4. Shakers(peers) \cap gone = gone BY DEF Shakers, Keys
<1>5. IsFiniteSet(Shakers(peers)) BY FiniteKeys, SetsFacts
<1>6. Cardinality(Shakers(u)) = Cardinality(Shakers(peers)) - Cardinality(gone)
  BY <1>3, <1>4, <1>5, FS_Difference
<1>7. Cardinality(Halves(peers')) <= MaxPending BY <1>1, <1>3, FiniteKeys, HalvesIn
<1> QED BY <1>1, <1>6, <1>7 DEF Counted

(* A handshake of peer a ends. *)
LEMMA EndCounts ==
  ASSUME IInv, Counted, NEW a, a \in Shakers(peers), pending' = pending - 1,
         Shakers(peers') = Shakers(peers) \ {a}, Halves(peers') \subseteq Halves(peers)
  PROVE  Counted'
<1>1. IsFiniteSet(Shakers(peers)) BY FiniteKeys, SetsFacts
<1>2. Cardinality(Shakers(peers')) = Cardinality(Shakers(peers)) - 1 BY <1>1, FS_RemoveElement
<1>3. Cardinality(Halves(peers')) <= MaxPending BY FiniteKeys, HalvesIn
<1> QED BY <1>2, <1>3 DEF Counted

LEMMA StartCounts ==
  ASSUME IInv, Counted, NEW d \in net, StartHandshake(d), d.addr \in Addrs
  PROVE  Counted'
<1> DEFINE a    == d.addr
           hs   == <<IF d.kind = "msg1" THEN d.key[1] ELSE Garbage, nextSid>>
           room == RoomForHandshake
           p    == IF a \in Keys THEN peers[a] ELSE [session |-> None, since |-> nextSid]
           q    == [hs |-> hs, session |-> p.session, idle |-> 0, since |-> p.since]
           u    == WithPeer(WithoutPeers(peers, room), a, q)
           S    == Shakers(peers)
           H    == Halves(peers)
<1>1. /\ a \in Keys => ~ Shaking(peers[a])
      /\ peers' = u /\ pending' = pending - Cardinality(room) + 1
  BY DEF StartHandshake
<1>2. /\ IsFiniteSet(S) /\ IsFiniteSet(H) /\ H \subseteq S /\ S \subseteq Keys /\ a \notin S
      /\ Cardinality(S) \in Nat /\ Cardinality(H) \in Nat /\ Cardinality(H) <= Cardinality(S)
  <2>1. a \notin S BY <1>1 DEF Shakers, Keys
  <2> QED BY <2>1, FiniteKeys, SetsFacts DEF Keys
<1>3. room \subseteq H BY OldestIn DEF RoomForHandshake, Halves, Keys
<1>4. DOMAIN u = (Keys \ room) \cup {a} /\ u[a] = q
      /\ \A b \in (Keys \ room) \ {a} : u[b] = peers[b]
  BY DEF WithPeer, WithoutPeers, Keys
<1>5. q.hs # NoKey
  <2>1. q.hs = hs /\ Len(hs) = 2 /\ Len(<<>>) = 0 OBVIOUS
  <2> QED BY <2>1 DEF NoKey
<1> HIDE DEF q, u, room
<1>6. Shakers(u) = (S \ room) \cup {a} /\ Halves(u) \subseteq (H \ room) \cup {a}
  <2>1. Shaking(q) BY <1>5 DEF Shaking
  <2> QED BY <1>2, <1>3, <1>4, <2>1 DEF Shakers, Halves, Half, Shaking, Keys
<1> HIDE DEF S, H
<1>7. /\ IsFiniteSet(S \ room) /\ IsFiniteSet(H \ room) /\ IsFiniteSet(room)
      /\ Cardinality(S \ room) = Cardinality(S) - Cardinality(room)
      /\ Cardinality(H \ room) = Cardinality(H) - Cardinality(room)
      /\ Cardinality(room) \in Nat
  <2>1. S \cap room = room /\ H \cap room = room BY <1>2, <1>3
  <2>2. IsFiniteSet(room) BY <1>2, <1>3, FS_Subset
  <2>3. IsFiniteSet(S \ room) /\ Cardinality(S \ room) = Cardinality(S) - Cardinality(room)
    BY <1>2, <2>1, FS_Difference
  <2>4. IsFiniteSet(H \ room) /\ Cardinality(H \ room) = Cardinality(H) - Cardinality(room)
    BY <1>2, <2>1, FS_Difference
  <2> QED BY <2>2, <2>3, <2>4, FS_CardinalityType
<1>8. Cardinality((S \ room) \cup {a}) = Cardinality(S) - Cardinality(room) + 1
  BY <1>2, <1>7, FS_AddElement
<1>9. /\ IsFiniteSet((H \ room) \cup {a})
      /\ Cardinality((H \ room) \cup {a}) <= Cardinality(H) - Cardinality(room) + 1
  <2>1. /\ IsFiniteSet((H \ room) \cup {a})
        /\ Cardinality((H \ room) \cup {a}) = IF a \in H \ room THEN Cardinality(H \ room)
                                              ELSE Cardinality(H \ room) + 1
    BY <1>7, FS_AddElement
  <2>2. a \notin H \ room BY <1>2
  <2> QED BY <1>2, <1>7, <2>1, <2>2
<1>10. Cardinality(H) - Cardinality(room) < MaxPending
  <2>1. CASE pending < MaxPending
    <3>1. pending = Cardinality(S) BY DEF Counted, S
    <3>2. MaxPending \in Nat BY SecureUdpAssumption
    <3> QED BY <1>2, <1>7, <2>1, <3>1, <3>2
  <2>2. CASE ~(pending < MaxPending)
    <3>0. MaxPending \in Nat \ {0} BY SecureUdpAssumption
    <3>1. pending = Cardinality(S) /\ Cardinality(H) <= MaxPending BY DEF Counted, S, H
    <3>2. room = Oldest(peers, H)
      <4>1. pending >= MaxPending BY <1>2, <2>2, <3>0, <3>1
      <4> QED BY <4>1 DEF RoomForHandshake, room, H, Halves, Keys
    <3>3. CASE H = {}
      <4>1. Cardinality(H) = 0 BY <3>3, FS_EmptySet
      <4> QED BY <1>7, <3>0, <4>1
    <3>4. CASE H # {}
      <4>1. H \subseteq DOMAIN peers BY <1>2 DEF Keys
      <4>2. room # {} BY <3>2, <3>4, <4>1, FiniteKeys, OldestExists
      <4>3. Cardinality(room) # 0 BY <1>7, <4>2, FS_EmptySet
      <4> QED BY <1>2, <1>7, <3>0, <3>1, <4>3
    <3> QED BY <3>3, <3>4
  <2> QED BY <2>1, <2>2
<1>11. Cardinality(Halves(u)) <= MaxPending
  <2>1. Cardinality(Halves(u)) <= Cardinality((H \ room) \cup {a}) /\ IsFiniteSet(Halves(u))
    BY <1>6, <1>9, FS_Subset
  <2> DEFINE x == Cardinality(Halves(u))
             y == Cardinality((H \ room) \cup {a})
             h == Cardinality(H)
             r == Cardinality(room)
  <2>2. x \in Nat /\ y \in Nat BY <1>9, <2>1, FS_CardinalityType
  <2>3. x <= y /\ y <= h - r + 1 /\ h - r < MaxPending /\ h \in Nat /\ r \in Nat
    BY <1>2, <1>7, <1>9, <1>10, <2>1
  <2>4. MaxPending \in Nat BY SecureUdpAssumption
  <2> HIDE DEF x, y, h, r
  <2>5. x <= MaxPending BY <2>2, <2>3, <2>4
  <2> QED BY <2>5 DEF x
<1>12. pending' = Cardinality(Shakers(u))
  BY <1>1, <1>6, <1>8 DEF Counted, S
<1> QED BY <1>1, <1>11, <1>12 DEF Counted

LEMMA FinishCounts ==
  ASSUME IInv, Counted, ~MayThrow, NEW d \in net, FinishHandshake(d)
  PROVE  Counted'
<1> DEFINE a    == d.addr
           p    == peers[a]
           q    == [p EXCEPT !.hs = NoKey, !.session = NewSession(p.hs), !.idle = 0]
           idle == {b \in Keys \ {a} : Holds(peers[b]) /\ ~ Shaking(peers[b])}
           out  == IF established + 1 > MaxSessions THEN Oldest(peers, idle) ELSE {}
           u    == WithoutPeers(WithPeer(peers, a, q), out)
<1>1. /\ a \in Keys /\ Shaking(p) /\ peers' = u
      /\ \E threw \in {FALSE} \cup {MayThrow} : pending' = pending - (IF threw THEN 2 ELSE 1)
  BY DEF FinishHandshake
<1>2. pending' = pending - 1
  <2>1. MayThrow = FALSE BY SecureUdpAssumption
  <2>2. PICK threw \in {FALSE} : pending' = pending - (IF threw THEN 2 ELSE 1) BY <1>1, <2>1
  <2> QED BY <2>2
<1>3. out \subseteq idle BY OldestIn
<1>4. p \in Peer BY <1>1, KnownPeer
<1>5. q.hs = NoKey BY <1>4 DEF Peer
<1>6. DOMAIN u = (Keys \cup {a}) \ out /\ (a \in DOMAIN u => u[a] = q)
      /\ \A b \in DOMAIN u \ {a} : u[b] = peers[b]
  BY DEF WithPeer, WithoutPeers, Keys
<1> HIDE DEF q, u, out
<1>7. DOMAIN u = Keys \ out /\ a \in DOMAIN u /\ ~Shaking(u[a])
      /\ \A b \in Keys : Shaking(peers[b]) => b \notin out
  BY <1>1, <1>3, <1>5, <1>6 DEF Shaking
<1>8. Shakers(u) = Shakers(peers) \ {a} /\ Halves(u) \subseteq Halves(peers)
  BY <1>6, <1>7 DEF Shakers, Halves, Half, Shaking, Keys
<1>9. a \in Shakers(peers) BY <1>1 DEF Shakers, Keys
<1> QED BY <1>1, <1>2, <1>8, <1>9, EndCounts

LEMMA AbandonCounts ==
  ASSUME IInv, Counted, NEW d \in net, Abandon(d)
  PROVE  Counted'
<1> DEFINE a == d.addr
           p == peers[a]
           q == [p EXCEPT !.hs = NoKey]
           u == WithPeer(peers, a, q)
           v == WithoutPeers(peers, {a})
<1>1. /\ a \in Keys /\ Shaking(p) /\ pending' = pending - 1
      /\ peers' = IF Holds(p) THEN u ELSE v
  BY DEF Abandon
<1>2. p \in Peer BY <1>1, KnownPeer
<1>3. q.hs = NoKey BY <1>2 DEF Peer
<1>4. DOMAIN u = Keys /\ u[a] = q /\ \A b \in Keys \ {a} : u[b] = peers[b]
  BY <1>1 DEF WithPeer, Keys
<1>5. DOMAIN v = Keys \ {a} /\ \A b \in Keys \ {a} : v[b] = peers[b]
  BY DEF WithoutPeers, Keys
<1> HIDE DEF q, u, v
<1>6. Shakers(u) = Shakers(peers) \ {a} /\ Halves(u) \subseteq Halves(peers)
  BY <1>3, <1>4 DEF Shakers, Halves, Half, Shaking, Keys
<1>7. Shakers(v) = Shakers(peers) \ {a} /\ Halves(v) \subseteq Halves(peers)
  BY <1>5 DEF Shakers, Halves, Half, Shaking, Keys
<1>8. Shakers(peers') = Shakers(peers) \ {a} /\ Halves(peers') \subseteq Halves(peers)
  BY <1>1, <1>6, <1>7
<1>9. a \in Shakers(peers) BY <1>1 DEF Shakers, Keys
<1> QED BY <1>1, <1>8, <1>9, EndCounts

(* Steps that leave every peer what it was. *)
LEMMA SamePeers ==
  ASSUME Counted, pending' = pending, Keys' = Keys,
         \A a \in Keys : peers'[a].hs = peers[a].hs /\ (Holds(peers'[a]) <=> Holds(peers[a]))
  PROVE  Counted'
<1>1. Shakers(peers') = Shakers(peers) /\ Halves(peers') = Halves(peers)
  BY DEF Shakers, Halves, Half, Holds, Shaking, Keys
<1> QED BY <1>1, SameCounts

LEMMA UsedCounts ==
  ASSUME IInv, Counted, pending' = pending, NEW a \in Keys, Holds(peers[a]),
         NEW q, peers' = WithPeer(peers, a, q), q.hs = peers[a].hs, Holds(q)
  PROVE  Counted'
<1>1. Keys' = Keys /\ peers'[a] = q /\ \A b \in Keys \ {a} : peers'[b] = peers[b]
  BY DEF WithPeer, Keys
<1> QED BY <1>1, SamePeers

LEMMA StepCounted ==
  ASSUME ~MayThrow, IInv, Counted, [SecureUdpNext]_udpVars
  PROVE  Counted'
<1>1. ASSUME UNCHANGED <<peers, pending>> PROVE Counted'
  BY <1>1 DEF Counted
<1>2. ASSUME NEW d \in net, ServerHandshake(d) PROVE Counted'
  <2>1. d.addr \in Addrs BY <1>2, HandshakeFacts DEF ServerHandshake
  <2> QED BY <1>2, <2>1, StartCounts, FinishCounts, AbandonCounts DEF ServerHandshake
<1>3. ASSUME NEW d \in net, ServerOpens(d) PROVE Counted'
  <2> DEFINE a == d.addr
             p == peers[a]
             r == Recorded(p.session, d.n)
             q == [p EXCEPT !.session = r, !.idle = 0]
  <2>1. /\ d.kind = "up" /\ a \in Keys /\ Holds(p) /\ peers' = WithPeer(peers, a, q)
        /\ pending' = pending
    BY <1>3 DEF ServerOpens
  <2>2. p \in Peer /\ p.session \in LiveSession BY <2>1, KnownPeer, PeerFacts
  <2>3. d.n \in Nat BY <2>1, TypedFacts, MessageFacts DEF IInv
  <2>4. r # None BY <2>2, <2>3, RecordedFacts
  <2> HIDE DEF r
  <2>5. q.hs = p.hs /\ q.session = r BY <2>2 DEF Peer
  <2> HIDE DEF q
  <2>6. Holds(q) BY <2>4, <2>5 DEF Holds
  <2> QED BY <2>1, <2>5, <2>6, UsedCounts
<1>4. ASSUME NEW a \in Addrs, ServerSeals(a) PROVE Counted'
  <2> DEFINE p == peers[a]
             r == Sent(p.session)
             q == [p EXCEPT !.session = r]
  <2>1. /\ a \in Keys /\ Holds(p) /\ peers' = WithPeer(peers, a, q) /\ pending' = pending
    BY <1>4 DEF ServerSeals
  <2>2. p \in Peer /\ p.session \in LiveSession BY <2>1, KnownPeer, PeerFacts
  <2>3. r # None BY <2>2, SentFacts
  <2> HIDE DEF r
  <2>4. q.hs = p.hs /\ q.session = r BY <2>2 DEF Peer
  <2> HIDE DEF q
  <2>5. Holds(q) BY <2>3, <2>4 DEF Holds
  <2> QED BY <2>1, <2>4, <2>5, UsedCounts
<1>5. ASSUME NEW a \in Addrs, ServerForgets(a) PROVE Counted'
  BY <1>5, ForgetCounts DEF ServerForgets
<1>6. ASSUME Sweep PROVE Counted'
  <2>1. Expired \in SUBSET Keys BY DEF Expired
  <2> QED BY <1>6, <2>1, ForgetCounts DEF Sweep
<1>7. ASSUME CloseServer PROVE Counted'
  <2>1. Shakers(peers') = {} /\ Halves(peers') = {} /\ pending' = 0
    BY <1>7 DEF CloseServer, Shakers, Halves
  <2>2. Cardinality({}) = 0 /\ MaxPending >= 0 BY FS_EmptySet, SecureUdpAssumption
  <2> QED BY <2>1, <2>2 DEF Counted
<1>8. ASSUME Tick PROVE Counted'
  <2>1. Keys' = Keys /\ pending' = pending BY <1>8 DEF Tick, Keys
  <2>2. ASSUME NEW a \in Keys
        PROVE  peers'[a].hs = peers[a].hs /\ peers'[a].session = peers[a].session
    <3>1. peers[a] \in Peer BY KnownPeer
    <3> QED BY <1>8, <3>1 DEF Tick, Peer
  <2> QED BY <2>1, <2>2, SamePeers DEF Holds
<1>9. ASSUME NEW d \in net, NEW i, ClientShakes(d, i) \/ ClientOpens(d, i) PROVE Counted'
  BY <1>1, <1>9 DEF ClientShakes, ClientOpens, server
<1>10. ASSUME NEW i, Connect(i) \/ Retransmit(i) \/ CloseClient(i) \/ ClientSeals(i)
       PROVE  Counted'
  BY <1>1, <1>10 DEF Connect, Retransmit, CloseClient, ClientSeals, server
<1>11. CASE UNCHANGED udpVars BY <1>1, <1>11 DEF udpVars, server
<1> QED
  BY <1>2, <1>3, <1>4, <1>5, <1>6, <1>7, <1>8, <1>9, <1>10, <1>11
  DEF SecureUdpNext, Arrives

LEMMA InitCounted == ASSUME SecureUdpInit PROVE Counted
<1>1. Shakers(peers) = {} /\ Halves(peers) = {} /\ pending = 0
  BY DEF SecureUdpInit, Shakers, Halves
<1>2. Cardinality({}) = 0 /\ MaxPending >= 0 BY FS_EmptySet, SecureUdpAssumption
<1> QED BY <1>1, <1>2 DEF Counted

-----------------------------------------------------------------------------
(* The theorems. *)

LEMMA SafeState == ASSUME IInv PROVE SecureTypeOK /\ SessionsAreMutual
<1>1. SecureTypeOK
  <2>1. \A i \in DOMAIN attempts : attempts[i].addr \in Addrs
          /\ attempts[i].state \in {"shaking", "spoiled", "live", "closed"}
    BY ClientFacts
  <2>2. Keys \subseteq Addrs /\ pending \in Int /\ established \in Int
    BY TypedFacts DEF IInv
  <2>3. /\ \A a, b \in Keys : peers[a].since = peers[b].since => a = b
        /\ \A a \in Keys : Shaking(peers[a]) \/ Holds(peers[a])
    BY DEF IInv, Server, PeersWell, PeerWell, Keys
  <2> QED BY <2>1, <2>2, <2>3 DEF SecureTypeOK
<1>2. SessionsAreMutual BY DEF IInv, Mutual, Agrees, SessionsAreMutual
<1> QED BY <1>1, <1>2

\* Whatever the application and the network do, the peer table has the shape the code
\* relies on, with one entry for each handshake that entered it, and no session is on the
\* server but one that a client of that very address has, under the same key: the session
\* createSecureUdpServer hands to onSession is never one that only it has.
THEOREM SessionsAreMutualTheorem == SecureUdpSpec => [](SecureTypeOK /\ SessionsAreMutual)
BY Invariance, SafeState, PTL

\* With an onSession that does not throw, `pending` counts exactly the handshakes under
\* way, through re-handshakes, evictions, abandoned handshakes, the sweep and close(): so
\* maxPending bounds the half-open peers a flood of first messages can leave in the table.
THEOREM SecureSafeTheorem == ASSUME ~MayThrow PROVE SecureUdpSpec => []SecureSafe
<1>1. SecureUdpInit => Counted BY InitCounted
<1>2. IInv /\ Counted /\ [SecureUdpNext]_udpVars => Counted' BY StepCounted
<1>3. IInv /\ Counted => SecureSafe
  BY SafeState DEF SecureSafe, Counted, HalfOpenBounded, Halves, Keys
<1>4. SecureUdpSpec => []Counted BY Invariance, <1>1, <1>2, PTL DEF SecureUdpSpec
<1> QED BY Invariance, <1>3, <1>4, PTL

-----------------------------------------------------------------------------
(* Nothing is opened that was not sealed, or twice. *)

LEMMA SealsOnce ==
  ASSUME IInv, NEW d, d \notin sealed, sealed' = sealed \cup {d}, opened' = opened
  PROVE  Session!Next
<1>1. d \in sealed' /\ Session!Seal(d) BY DEF Session!Seal
<1> QED BY <1>1 DEF Session!Next

LEMMA OpensOnce ==
  ASSUME IInv, NEW d \in sealed, d \notin Opened, opened' = opened (+) SetToBag({d}),
         sealed' = sealed
  PROVE  Session!Next
<1>1. ~ Session!BagIn(d, opened)
  BY DEF Opened, BagToSet, Session!BagIn, Session!BagToSet
<1>2. opened (+) SetToBag({d}) = Session!(+)(opened, Session!SetToBag({d}))
  BY DEF (+), SetToBag, Session!(+), Session!SetToBag
<1>3. Session!Open(d) BY <1>1, <1>2 DEF Session!Open
<1> QED BY <1>3 DEF Session!Next

LEMMA ServerOpensOnce == ASSUME IInv, NEW d \in net, ServerOpens(d) PROVE Session!Next
<1> DEFINE p == peers[d.addr]
<1>1. /\ d.kind = "up" /\ d.addr \in Keys /\ Holds(p) /\ Opens(p.session, d)
      /\ opened' = opened (+) SetToBag({d}) /\ sealed' = sealed
  BY DEF ServerOpens
<1>2. d \in sealed BY <1>1, TypedFacts DEF IInv
<1>3. PeerWell(p, nextSid, Down(sealed), Up(Opened)) BY <1>1, KnownPeer
<1> HIDE DEF p
<1>4. d \notin Up(Opened) BY <1>1, <1>3 DEF PeerWell, Opens
<1>5. d \notin Opened BY <1>1, <1>4 DEF Up
<1> QED BY <1>1, <1>2, <1>5, OpensOnce

LEMMA ClientOpensOnce ==
  ASSUME IInv, NEW d \in net, NEW i \in AtAddr(d.addr), ClientOpens(d, i)
  PROVE  Session!Next
<1> DEFINE s == attempts[i].session
<1>1. /\ d.kind = "down" /\ attempts[i].state = "live" /\ Opens(s, d) /\ i \in DOMAIN attempts
      /\ opened' = opened (+) SetToBag({d}) /\ sealed' = sealed
  BY DEF ClientOpens, AtAddr
<1>2. d \in sealed BY <1>1, TypedFacts DEF IInv
<1>3. s # None /\ s.key[1] = i BY <1>1, ClientFacts DEF ClientWell
<1>4. d.key[1] = i BY <1>1, <1>3 DEF Opens
<1>5. d \notin Down(Opened)
  <2>1. Clients BY DEF IInv
  <2> QED BY <1>1, <1>4, <2>1 DEF Clients, Opens
<1>6. d \notin Opened BY <1>1, <1>5 DEF Down
<1> QED BY <1>1, <1>2, <1>6, OpensOnce

LEMMA ServerSealsOnce == ASSUME IInv, NEW a \in Addrs, ServerSeals(a) PROVE Session!Next
<1> DEFINE p == peers[a]
           s == p.session
           d == Transport("down", a, s.key, s.counter)
<1>1. a \in Keys /\ Holds(p) /\ sealed' = sealed \cup {d} /\ opened' = opened
  BY DEF ServerSeals
<1>2. /\ p \in Peer /\ s \in LiveSession /\ s.key \in Pair
      /\ PeerWell(p, nextSid, Down(sealed), Up(Opened)) /\ a \in Addrs
  BY <1>1, KnownPeer, PeerFacts
<1>3. s.counter \in Nat BY <1>2 DEF LiveSession
<1>4. d.kind = "down" /\ d.key = s.key /\ d.n = s.counter BY <1>2, <1>3, TransportTyped
<1> HIDE DEF d
<1>5. d \notin Down(sealed)
  <2> SUFFICES ASSUME d \in Down(sealed) PROVE FALSE OBVIOUS
  <2>1. d.n < s.counter BY <1>1, <1>2, <1>4 DEF PeerWell
  <2> QED BY <1>3, <1>4, <2>1
<1>6. d \notin sealed BY <1>4, <1>5 DEF Down
<1> QED BY <1>1, <1>6, SealsOnce

LEMMA ClientSealsOnce == ASSUME IInv, NEW i \in DOMAIN attempts, ClientSeals(i) PROVE Session!Next
<1> DEFINE s == attempts[i].session
           d == Transport("up", attempts[i].addr, s.key, s.counter)
<1>1. attempts[i].state = "live" /\ sealed' = sealed \cup {d} /\ opened' = opened
  BY DEF ClientSeals
<1>2. /\ s \in LiveSession /\ s.key \in Pair /\ s.key[1] = i /\ attempts[i].addr \in Addrs
  BY <1>1, ClientFacts, SessionFacts DEF ClientWell
<1>3. s.counter \in Nat BY <1>2 DEF LiveSession
<1>4. d.kind = "up" /\ d.key = s.key /\ d.n = s.counter BY <1>2, <1>3, TransportTyped
<1> HIDE DEF d
<1>5. d \notin Up(sealed)
  <2> SUFFICES ASSUME d \in Up(sealed) PROVE FALSE OBVIOUS
  <2>1. Clients BY DEF IInv
  <2>2. d.n < s.counter BY <1>2, <1>4, <2>1 DEF Clients
  <2> QED BY <1>3, <1>4, <2>2
<1>6. d \notin sealed BY <1>4, <1>5 DEF Up
<1> QED BY <1>1, <1>6, SealsOnce

\* Every session is once-only: no step of any server or client hands an application a
\* datagram that was not sealed, or the same one twice, however datagrams are duplicated,
\* reordered and lost, peers re-handshake, are evicted or swept, and clients come back on
\* the same address.
THEOREM OpenedOnceTheorem == SecureUdpSpec => OpenedOnce
<1>1. SecureUdpInit => Session!Init
  BY DEF SecureUdpInit, Session!Init, EmptyBag, SetToBag, Session!EmptyBag, Session!SetToBag
<1>2. IInv /\ [SecureUdpNext]_udpVars => [Session!Next]_<<sealed, opened>>
  <2> SUFFICES ASSUME IInv, [SecureUdpNext]_udpVars
               PROVE  Session!Next \/ UNCHANGED <<sealed, opened>>
    OBVIOUS
  <2>1. CASE UNCHANGED udpVars BY <2>1 DEF udpVars
  <2>2. ASSUME NEW d \in net, ServerHandshake(d) PROVE UNCHANGED <<sealed, opened>>
    BY <2>2 DEF ServerHandshake
  <2>3. ASSUME NEW d \in net, NEW i, ClientShakes(d, i) PROVE UNCHANGED <<sealed, opened>>
    BY <2>3 DEF ClientShakes
  <2>4. ASSUME NEW i, Connect(i) \/ ServerForgets(i) \/ Retransmit(i) \/ CloseClient(i)
        PROVE  UNCHANGED <<sealed, opened>>
    BY <2>4 DEF Connect, ServerForgets, Retransmit, CloseClient
  <2>5. ASSUME Tick \/ Sweep \/ CloseServer PROVE UNCHANGED <<sealed, opened>>
    BY <2>5 DEF Tick, Sweep, CloseServer
  <2> QED
    BY <2>1, <2>2, <2>3, <2>4, <2>5, ServerOpensOnce, ClientOpensOnce, ServerSealsOnce,
       ClientSealsOnce DEF SecureUdpNext, Arrives
<1> QED BY <1>1, <1>2, Invariance, PTL DEF SecureUdpSpec, OpenedOnce, Session!Spec

-----------------------------------------------------------------------------
(* A session is lost only to a completed handshake, silence or close().      *)

Kept(a) == a \in Keys' /\ peers'[a].session.key = peers[a].session.key

NewSessionMade ==
  \E b \in Keys' : /\ Holds(peers'[b])
                   /\ b \in Keys => peers[b].session.key # peers'[b].session.key

Survives(a) ==
  \/ Kept(a)
  \/ NewSessionMade
  \/ peers[a].idle > Ttl
  \/ ServerForgets(a)
  \/ ~ bound'

LEMMA HandshakeSurvives ==
  ASSUME IInv, NEW d \in net, ServerHandshake(d), NEW a \in Keys, Holds(peers[a])
  PROVE  Kept(a) \/ NewSessionMade
<1> DEFINE c == d.addr
           p == peers[c]
<1>1. CASE StartHandshake(d)
  <2> DEFINE hs   == <<IF d.kind = "msg1" THEN d.key[1] ELSE Garbage, nextSid>>
             room == RoomForHandshake
             r    == IF c \in Keys THEN peers[c] ELSE [session |-> None, since |-> nextSid]
             q    == [hs |-> hs, session |-> r.session, idle |-> 0, since |-> r.since]
             u    == WithPeer(WithoutPeers(peers, room), c, q)
  <2>1. peers' = u BY <1>1 DEF StartHandshake
  <2>2. a \notin room BY OldestIn DEF RoomForHandshake, Half, Holds
  <2>3. q.session = r.session /\ (c \in Keys => r = p) OBVIOUS
  <2> HIDE DEF q, room
  <2>4. a \in DOMAIN u /\ u[a] = IF a = c THEN q ELSE peers[a]
    BY <2>2 DEF WithPeer, WithoutPeers, Keys
  <2> QED BY <2>1, <2>3, <2>4 DEF Kept, Keys
<1>2. CASE FinishHandshake(d)
  <2> DEFINE q    == [p EXCEPT !.hs = NoKey, !.session = NewSession(p.hs), !.idle = 0]
             idle == {b \in Keys \ {c} : Holds(peers[b]) /\ ~ Shaking(peers[b])}
             out  == IF established + 1 > MaxSessions THEN Oldest(peers, idle) ELSE {}
             u    == WithoutPeers(WithPeer(peers, c, q), out)
  <2>1. c \in Keys /\ Shaking(p) /\ peers' = u BY <1>2 DEF FinishHandshake
  <2>2. c \notin out BY OldestIn
  <2>3. p \in Peer /\ PeerWell(p, nextSid, Down(sealed), Up(Opened)) BY <2>1, KnownPeer
  <2>4. p.hs \in Pair /\ p.session \in SessionOrNone BY <2>1, <2>3, PeerFacts
  <2>5. q.session = NewSession(p.hs)
    <3> DEFINE s == NewSession(p.hs)
    <3> HIDE DEF s
    <3>1. [p EXCEPT !.hs = NoKey, !.session = s, !.idle = 0].session = s BY <2>3 DEF Peer
    <3> QED BY <3>1 DEF s
  <2> HIDE DEF q, out
  <2>6. Holds(q) /\ q.session.key = p.hs BY <2>4, <2>5, NewSessionFacts DEF Holds
  <2>7. p.session.key # p.hs
    <3>1. CASE Holds(p) BY <2>1, <2>3, <3>1 DEF PeerWell
    <3>2. CASE ~Holds(p) BY <2>4, <3>2, NoneFacts DEF Holds
    <3> QED BY <3>1, <3>2
  <2>8. c \in DOMAIN u /\ u[c] = q BY <2>2 DEF WithPeer, WithoutPeers
  <2> HIDE DEF u
  <2>9. c \in Keys' /\ peers'[c] = q BY <2>1, <2>8 DEF Keys
  <2>10. NewSessionMade BY <2>6, <2>7, <2>9 DEF NewSessionMade
  <2> QED BY <2>10
<1>3. CASE Abandon(d)
  <2> DEFINE q == [p EXCEPT !.hs = NoKey]
             u == WithPeer(peers, c, q)
             v == WithoutPeers(peers, {c})
  <2>1. c \in Keys /\ peers' = IF Holds(p) THEN u ELSE v BY <1>3 DEF Abandon
  <2>2. p \in Peer BY <2>1, KnownPeer
  <2>3. q.session = p.session BY <2>2 DEF Peer
  <2>4. DOMAIN u = Keys /\ u[c] = q /\ \A b \in Keys \ {c} : u[b] = peers[b]
    BY <2>1 DEF WithPeer, Keys
  <2>5. DOMAIN v = Keys \ {c} /\ \A b \in Keys \ {c} : v[b] = peers[b]
    BY DEF WithoutPeers, Keys
  <2> HIDE DEF q, u, v
  <2>6. CASE Holds(p) BY <2>1, <2>3, <2>4, <2>6 DEF Kept, Keys
  <2>7. CASE ~Holds(p) BY <2>1, <2>5, <2>7 DEF Kept, Keys
  <2> QED BY <2>6, <2>7
<1> QED BY <1>1, <1>2, <1>3 DEF ServerHandshake

(* A session that seals or opens keeps its key. *)
LEMMA UsedSurvives ==
  ASSUME IInv, NEW c \in Keys, NEW q, peers' = WithPeer(peers, c, q),
         q.session.key = peers[c].session.key, NEW a \in Keys
  PROVE  Kept(a)
<1>1. Keys' = Keys /\ peers'[a] = IF a = c THEN q ELSE peers[a] BY DEF WithPeer, Keys
<1> QED BY <1>1 DEF Kept

LEMMA ForgetSurvives ==
  ASSUME NEW as, ForgetAll(as), NEW a \in Keys, a \notin as
  PROVE  Kept(a)
<1>1. a \in Keys' /\ peers'[a] = peers[a] BY DEF ForgetAll, WithoutPeers, Keys
<1> QED BY <1>1 DEF Kept

LEMMA StepSurvives ==
  ASSUME IInv, SecureUdpNext, NEW a \in Keys, Holds(peers[a])
  PROVE  Survives(a)
<1>1. ASSUME UNCHANGED peers PROVE Kept(a)
  BY <1>1 DEF Kept, Keys
<1>2. ASSUME NEW d \in net, ServerHandshake(d) PROVE Kept(a) \/ NewSessionMade
  BY <1>2, HandshakeSurvives
<1>3. ASSUME NEW d \in net, ServerOpens(d) PROVE Kept(a)
  <2> DEFINE p == peers[d.addr]
             r == Recorded(p.session, d.n)
             q == [p EXCEPT !.session = r, !.idle = 0]
  <2>1. /\ d.kind = "up" /\ d.addr \in Keys /\ Holds(p) /\ peers' = WithPeer(peers, d.addr, q)
    BY <1>3 DEF ServerOpens
  <2>2. p \in Peer /\ p.session \in LiveSession BY <2>1, KnownPeer, PeerFacts
  <2>3. d.n \in Nat BY <2>1, TypedFacts, MessageFacts DEF IInv
  <2>4. r.key = p.session.key BY <2>2, <2>3, RecordedFacts
  <2> HIDE DEF r
  <2>5. q.session = r BY <2>2 DEF Peer
  <2> HIDE DEF q
  <2> QED BY <2>1, <2>4, <2>5, UsedSurvives
<1>4. ASSUME NEW c \in Addrs, ServerSeals(c) PROVE Kept(a)
  <2> DEFINE p == peers[c]
             r == Sent(p.session)
             q == [p EXCEPT !.session = r]
  <2>1. /\ c \in Keys /\ Holds(p) /\ peers' = WithPeer(peers, c, q)
    BY <1>4 DEF ServerSeals
  <2>2. p \in Peer /\ p.session \in LiveSession BY <2>1, KnownPeer, PeerFacts
  <2>3. r.key = p.session.key BY <2>2, SentFacts
  <2> HIDE DEF r
  <2>4. q.session = r BY <2>2 DEF Peer
  <2> HIDE DEF q
  <2> QED BY <2>1, <2>3, <2>4, UsedSurvives
<1>5. ASSUME NEW c \in Addrs, ServerForgets(c) PROVE Survives(a)
  <2>1. CASE a = c BY <1>5, <2>1 DEF Survives
  <2>2. CASE a # c BY <1>5, <2>2, ForgetSurvives DEF ServerForgets, Survives
  <2> QED BY <2>1, <2>2
<1>6. ASSUME Sweep PROVE Survives(a)
  <2>1. CASE a \in Expired BY <2>1 DEF Expired, Survives
  <2>2. CASE a \notin Expired BY <1>6, <2>2, ForgetSurvives DEF Sweep, Survives
  <2> QED BY <2>1, <2>2
<1>7. ASSUME CloseServer PROVE ~ bound'
  BY <1>7 DEF CloseServer
<1>8. ASSUME Tick PROVE Kept(a)
  <2>1. peers[a] \in Peer BY KnownPeer
  <2>2. a \in Keys' /\ peers'[a].session = peers[a].session BY <1>8, <2>1 DEF Tick, Peer, Keys
  <2> QED BY <2>2 DEF Kept
<1>9. ASSUME NEW d \in net, NEW i, ClientShakes(d, i) \/ ClientOpens(d, i) PROVE Kept(a)
  BY <1>1, <1>9 DEF ClientShakes, ClientOpens, server
<1>10. ASSUME NEW i, Connect(i) \/ Retransmit(i) \/ CloseClient(i) \/ ClientSeals(i)
       PROVE  Kept(a)
  BY <1>1, <1>10 DEF Connect, Retransmit, CloseClient, ClientSeals, server
<1> QED
  BY <1>2, <1>3, <1>4, <1>5, <1>6, <1>7, <1>8, <1>9, <1>10
  DEF SecureUdpNext, Arrives, Survives

\* Nothing an outsider can send costs a live peer its session: it is replaced or evicted
\* only when a handshake completes, and otherwise goes to the sweep, once the peer has been
\* silent for sessionTtlMs, to its own close(), or with the server.
THEOREM SessionSurvivesTheorem == SecureUdpSpec => SessionSurvives
<1> DEFINE A == \A a \in Addrs :
       (a \in Keys /\ Holds(peers[a]) /\ (a \in Keys' => peers'[a].session.key # peers[a].session.key))
       => \/ \E b \in Keys' : /\ Holds(peers'[b])
                              /\ b \in Keys => peers[b].session.key # peers'[b].session.key
          \/ peers[a].idle > Ttl
          \/ ServerForgets(a)
          \/ ~ bound'
<1>1. IInv /\ SecureUdpNext => A
  <2> SUFFICES ASSUME IInv, SecureUdpNext, NEW a \in Addrs, a \in Keys, Holds(peers[a]), ~Kept(a)
               PROVE  \/ NewSessionMade
                      \/ peers[a].idle > Ttl
                      \/ ServerForgets(a)
                      \/ ~ bound'
    BY DEF NewSessionMade, Kept
  <2>1. Survives(a) BY StepSurvives
  <2> QED BY <2>1 DEF Survives
<1>2. [][A]_udpVars => SessionSurvives BY PTL DEF SessionSurvives
<1> HIDE DEF A
<1>3. IInv /\ [SecureUdpNext]_udpVars => [A]_udpVars BY <1>1
<1> QED BY <1>2, <1>3, Invariance, PTL DEF SecureUdpSpec

-----------------------------------------------------------------------------
(* The io_uring server.  UringInv is what holds between callbacks, Good what *)
(* holds while one runs; OneOK relates a connection to its socket, to its    *)
(* descriptor and to the completions posted for it.                          *)
UringConns == [mem : {"none", "live", "dead", "freed"}, closing : BOOLEAN, recv_active : BOOLEAN,
               read_ended : BOOLEAN, queued_bytes : Nat, in_flight : 0..2, sends : Seq(Span),
               sending : BOOLEAN, end_pending : BOOLEAN, write_shutdown : BOOLEAN]
UringSockets == [known : BOOLEAN, ended : BOOLEAN, readEnded : BOOLEAN, needDrain : BOOLEAN,
                 closes : Nat, written : Nat]
UringKernels == [fd : {"none", "open", "closed"}, shut : BOOLEAN, fin : BOOLEAN, recv : BOOLEAN,
                 sends : SUBSET Span, peer : {"open", "fin", "reset"}, inbox : Nat, arrived : Nat,
                 unread : 0..SendBuffer, wire : Nat, gap : BOOLEAN]
Rings == [up : BOOLEAN, accept : BOOLEAN, cq : Seq(Cqe), buffers : Nat, allow_half_open : BOOLEAN,
          callers : ConnIds, misuse : SUBSET {"use after free", "ring gone"}]
UringStates == [conns : [ConnIds -> UringConns], sockets : [ConnIds -> UringSockets],
                kernel : [ConnIds -> UringKernels], ring : Rings]
NewConn == [mem |-> "none", closing |-> FALSE, recv_active |-> FALSE, read_ended |-> FALSE,
            queued_bytes |-> 0, in_flight |-> 0, sends |-> <<>>, sending |-> FALSE,
            end_pending |-> FALSE, write_shutdown |-> FALSE]
NewSocket == [known |-> FALSE, ended |-> FALSE, readEnded |-> FALSE, needDrain |-> FALSE,
              closes |-> 0, written |-> 0]

(* The entries of connection c in the completion queue q, and what a set of *)
(* them has.                                                                *)
Of(q, c) == {e \in {q[i] : i \in DOMAIN q} : e.id = c}
Has(E, tag) == \E e \in E : e.tag = tag
Final(E) == \E e \in E : e.tag = "recv" /\ ~e.more

(* An accept that failed is of no connection. *)
IsEntry(e) ==
  /\ e.id = 0 => e.tag = "accept"
  /\ e.tag = "accept" => (e.id = 0 <=> e.res = "error")

(* Only a receive that goes on is followed by another of its connection. *)
Sole(q) ==
  \A i, j \in DOMAIN q :
    i < j /\ q[i].id # 0 /\ q[i].id = q[j].id /\ q[i].tag = q[j].tag
      => q[i].tag = "recv" /\ q[i].more

(* A connection not handed to the server yet: at most its accept is posted. *)
IsNew(n, s, k, E) ==
  /\ n = NewConn /\ s = NewSocket
  /\ ~k.recv /\ k.sends = {} /\ ~k.fin /\ ~k.shut /\ k.wire = 0
  /\ ~Has(E, "recv") /\ ~Has(E, "send")
  /\ k.fd = "none" => ~Has(E, "accept")

(* The receive that the connection counts is armed or its end is posted, *)
(* and nothing of it comes after that.                                   *)
Receives(n, k, E) ==
  /\ n.recv_active <=> k.recv \/ Final(E)
  /\ Final(E) => ~k.recv
  /\ Has(E, "recv") => n.recv_active

(* The send it counts is that of the head of its queue. *)
Sends(n, k, E) ==
  /\ n.sending <=> k.sends # {} \/ Has(E, "send")
  /\ k.sends # {} => k.sends = {n.sends[1]} /\ ~Has(E, "send")
  /\ n.sending => n.sends # <<>>

Rest(n, s) == IF n.sends = <<>> THEN 0 ELSE s.written - n.sends[1].from + 1
Under(q, w) == \A i \in DOMAIN q : q[i].to <= w
Queued(n, s) ==
  /\ Follow(n.sends, s.written)
  /\ Under(n.sends, s.written)
  /\ n.queued_bytes = Rest(n, s) /\ n.queued_bytes <= UringQueue

(* What a send came to. *)
Results(n, k, E) ==
  \A e \in E : e.tag = "send" =>
    /\ ~e.more
    /\ e.res = "error" => n.closing \/ k.peer = "reset"
    /\ e.res # "error" => e.n >= 1 /\ e.n <= n.sends[1].to - n.sends[1].from + 1

(* The head of the queue is what the peer is to get next, once the posted *)
(* completion has been taken off it.                                      *)
NextUnit(n, s, k, E) ==
  ~n.closing /\ k.peer # "reset" =>
    /\ n.sends = <<>> => k.wire = s.written
    /\ n.sends # <<>> =>
         /\ ~Has(E, "send") => n.sends[1].from = k.wire + 1
         /\ \A e \in E : e.tag = "send" => n.sends[1].from + e.n = k.wire + 1

(* No write comes after the FIN. *)
Ended(n, s, k) ==
  /\ n.write_shutdown \/ n.end_pending => s.ended
  /\ k.fin <=> n.write_shutdown
  /\ k.fin => n.sends = <<>>

IsLive(n, s, k, E) ==
  /\ s.known /\ s.closes = 0 /\ k.fd # "none"
  /\ n.in_flight = (IF n.recv_active THEN 1 ELSE 0) + (IF n.sending THEN 1 ELSE 0)
  /\ n.closing <=> k.shut
  /\ ~Has(E, "accept")
  /\ Receives(n, k, E) /\ Sends(n, k, E) /\ Queued(n, s) /\ Results(n, k, E)
  /\ NextUnit(n, s, k, E) /\ Ended(n, s, k)

(* The kernel is done with a connection that is over. *)
IsOver(n, s, k, E) ==
  /\ ~s.known /\ s.closes = 1 /\ k.fd # "none"
  /\ n.mem = "dead" => n.closing
  /\ ~k.recv /\ k.sends = {}
  /\ E = {}

OneOK(n, s, k, E) ==
  /\ ~k.gap
  /\ k.fin /\ k.peer # "reset" => k.wire = s.written
  /\ k.fin => s.ended
  /\ n.mem = "none" => IsNew(n, s, k, E)
  /\ n.mem = "live" => IsLive(n, s, k, E)
  /\ n.mem \in {"dead", "freed"} => IsOver(n, s, k, E)

Reads(n) == n.mem = "live" /\ ~n.closing /\ ~n.read_ended => n.recv_active

(* What holds while a callback runs, of all but the connection x whose      *)
(* receive just ended.                                                      *)
Good(t, x) ==
  /\ t \in UringStates /\ t.ring.up /\ t.ring.misuse = {}
  /\ \A c \in ConnIds : OneOK(t.conns[c], t.sockets[c], t.kernel[c], Of(t.ring.cq, c))
  /\ \A c \in ConnIds \ {x} : Reads(t.conns[c])

Filled(q) == {i \in DOMAIN q : q[i].tag = "recv" /\ q[i].res = "ok"}
Accepts(q) == \E i \in DOMAIN q : q[i].tag = "accept" /\ ~q[i].more

(* Between callbacks. *)
Sane(t) ==
  /\ t \in UringStates /\ t.ring.misuse = {}
  /\ \A c \in ConnIds : /\ OneOK(t.conns[c], t.sockets[c], t.kernel[c], Of(t.ring.cq, c))
                        /\ Reads(t.conns[c])
  /\ Sole(t.ring.cq)
  /\ \A i \in DOMAIN t.ring.cq : IsEntry(t.ring.cq[i])
  /\ t.ring.up => /\ t.ring.accept \/ Accepts(t.ring.cq)
                  /\ t.ring.buffers + Cardinality(Filled(t.ring.cq)) = BufCount
  /\ ~t.ring.up => /\ t.ring.cq = <<>> /\ t.ring.buffers <= BufCount
                   /\ \A c \in ConnIds : t.conns[c].mem # "live"

UringInv == Sane(RingNow)
-----------------------------------------------------------------------------
(* The completion queue. *)

LEMMA QueueFacts ==
  ASSUME NEW q \in Seq(Cqe), q # <<>>
  PROVE  /\ Head(q) \in Cqe /\ Tail(q) \in Seq(Cqe)
         /\ 1 \in DOMAIN q /\ q[1] = Head(q)
         /\ \A i \in DOMAIN Tail(q) : i + 1 \in DOMAIN q /\ Tail(q)[i] = q[i + 1] /\ i \in Nat \ {0}
         /\ \A i \in DOMAIN q : i # 1 => i - 1 \in DOMAIN Tail(q) /\ Tail(q)[i - 1] = q[i]
         /\ \A i \in DOMAIN q : i \in Nat \ {0} /\ q[i] \in Cqe
OBVIOUS

LEMMA AppendFacts ==
  ASSUME NEW q \in Seq(Cqe), NEW e \in Cqe
  PROVE  /\ Append(q, e) \in Seq(Cqe)
         /\ DOMAIN Append(q, e) = DOMAIN q \cup {Len(q) + 1} /\ Len(q) + 1 \notin DOMAIN q
         /\ Append(q, e)[Len(q) + 1] = e
         /\ \A i \in DOMAIN q : Append(q, e)[i] = q[i] /\ i \in Nat /\ i < Len(q) + 1 /\ q[i] \in Cqe
         /\ Len(q) \in Nat
OBVIOUS

LEMMA OfTail ==
  ASSUME NEW q \in Seq(Cqe), q # <<>>, NEW c
  PROVE  /\ Of(Tail(q), c) \subseteq Of(q, c)
         /\ \A e \in Of(q, c) : e # Head(q) => e \in Of(Tail(q), c)
         /\ Head(q).id # c => Of(Tail(q), c) = Of(q, c)
         /\ Head(q).id = c => Head(q) \in Of(q, c)
<1> DEFINE p == Tail(q)
           h == Head(q)
<1>1. /\ 1 \in DOMAIN q /\ q[1] = h
      /\ \A i \in DOMAIN p : i + 1 \in DOMAIN q /\ p[i] = q[i + 1]
      /\ \A i \in DOMAIN q : i # 1 => i - 1 \in DOMAIN p /\ p[i - 1] = q[i]
  BY QueueFacts
<1> HIDE DEF p, h
<1>2. Of(p, c) \subseteq Of(q, c)
  <2> SUFFICES ASSUME NEW i \in DOMAIN p, p[i].id = c PROVE p[i] \in Of(q, c) BY DEF Of
  <2> QED BY <1>1 DEF Of
<1>3. ASSUME NEW e \in Of(q, c), e # h PROVE e \in Of(p, c)
  <2>1. PICK i \in DOMAIN q : e = q[i] /\ q[i].id = c BY <1>3 DEF Of
  <2>2. i # 1 BY <1>1, <1>3, <2>1
  <2>3. i - 1 \in DOMAIN p /\ p[i - 1] = e BY <1>1, <2>1, <2>2
  <2> QED BY <2>1, <2>3 DEF Of
<1>4. h.id = c => h \in Of(q, c) BY <1>1 DEF Of
<1>5. ASSUME h.id # c PROVE Of(p, c) = Of(q, c)
  <2>1. \A e \in Of(q, c) : e # h BY <1>5 DEF Of
  <2> QED BY <1>2, <1>3, <2>1
<1> QED BY <1>2, <1>3, <1>4, <1>5 DEF p, h

LEMMA OfAppend ==
  ASSUME NEW q \in Seq(Cqe), NEW e \in Cqe, NEW c
  PROVE  Of(Append(q, e), c) = IF e.id = c THEN Of(q, c) \cup {e} ELSE Of(q, c)
<1> DEFINE p == Append(q, e)
           z == Len(q) + 1
<1>1. /\ DOMAIN p = DOMAIN q \cup {z} /\ p[z] = e
      /\ \A i \in DOMAIN q : p[i] = q[i]
  BY AppendFacts
<1> HIDE DEF p, z
<1>2. ASSUME NEW f PROVE f \in Of(p, c) <=> f.id = c /\ (f = e \/ f \in Of(q, c))
  BY <1>1 DEF Of
<1>3. \A f \in Of(q, c) : f.id = c BY DEF Of
<1> QED BY <1>2, <1>3 DEF p

(* The first entry of the queue is the only one of its operation, or the *)
(* receive goes on.                                                      *)
LEMMA TailSole ==
  ASSUME NEW q \in Seq(Cqe), q # <<>>, Sole(q)
  PROVE  /\ Sole(Tail(q))
         /\ Head(q).id # 0 /\ (Head(q).tag = "recv" => ~Head(q).more)
              => ~Has(Of(Tail(q), Head(q).id), Head(q).tag)
<1> DEFINE p == Tail(q)
           h == Head(q)
<1>1. /\ 1 \in DOMAIN q /\ q[1] = h
      /\ \A i \in DOMAIN p : i + 1 \in DOMAIN q /\ p[i] = q[i + 1] /\ i \in Nat \ {0}
  BY QueueFacts
<1> HIDE DEF p, h
<1>2. Sole(p)
  <2> SUFFICES ASSUME NEW i \in DOMAIN p, NEW j \in DOMAIN p, i < j, p[i].id # 0,
                      p[i].id = p[j].id, p[i].tag = p[j].tag
               PROVE  p[i].tag = "recv" /\ p[i].more
    BY DEF Sole
  <2>1. i + 1 < j + 1 BY <1>1
  <2> QED BY <1>1, <2>1 DEF Sole
<1>3. ASSUME h.id # 0, h.tag = "recv" => ~h.more, NEW e \in Of(p, h.id), e.tag = h.tag PROVE FALSE
  <2>1. PICK i \in DOMAIN p : e = p[i] /\ p[i].id = h.id BY <1>3 DEF Of
  <2>2. i + 1 \in DOMAIN q /\ q[i + 1] = e /\ 1 < i + 1 BY <1>1, <2>1
  <2> QED BY <1>1, <1>3, <2>1, <2>2 DEF Sole
<1> QED BY <1>2, <1>3 DEF p, h, Has

LEMMA AppendSole ==
  ASSUME NEW q \in Seq(Cqe), Sole(q), NEW e \in Cqe,
         e.id = 0 \/ \A f \in Of(q, e.id) : f.tag = e.tag => f.tag = "recv" /\ f.more
  PROVE  Sole(Append(q, e))
<1> DEFINE p == Append(q, e)
           z == Len(q) + 1
<1>1. /\ DOMAIN p = DOMAIN q \cup {z} /\ p[z] = e /\ z \in Nat
      /\ \A i \in DOMAIN q : p[i] = q[i] /\ i \in Nat /\ i < z
  BY AppendFacts
<1> HIDE DEF p, z
<1> SUFFICES ASSUME NEW i \in DOMAIN p, NEW j \in DOMAIN p, i < j, p[i].id # 0,
                    p[i].id = p[j].id, p[i].tag = p[j].tag
             PROVE  p[i].tag = "recv" /\ p[i].more
  BY DEF Sole, p
<1>2. i \in DOMAIN q BY <1>1
<1>3. CASE j \in DOMAIN q BY <1>1, <1>2, <1>3 DEF Sole
<1>4. CASE j = z
  <2>1. p[i] \in Of(q, e.id) BY <1>1, <1>2, <1>4 DEF Of
  <2> QED BY <1>1, <1>4, <2>1
<1> QED BY <1>1, <1>3, <1>4
-----------------------------------------------------------------------------
(* The calls.  Each changes one connection at a time and leaves the ring. *)

Agree(t, u, c) ==
  /\ u \in UringStates /\ u.ring = t.ring
  /\ \A d \in ConnIds \ {c} :
       u.conns[d] = t.conns[d] /\ u.sockets[d] = t.sockets[d] /\ u.kernel[d] = t.kernel[d]

(* A call frees nothing, and accepts nothing. *)
Stays(t, u) ==
  /\ u.ring = t.ring
  /\ \A d \in ConnIds : /\ u.conns[d].mem = "none" <=> t.conns[d].mem = "none"
                        /\ u.conns[d].mem = "freed" <=> t.conns[d].mem = "freed"

Leads(t, u, x) == Good(u, x) /\ Stays(t, u)

(* A connection in use: live, or finalized since. *)
Held(t, c) == t.conns[c].mem \in {"live", "dead"}

LEMMA SameLeads == \A t, x : Good(t, x) => Leads(t, t, x)
BY DEF Leads, Stays

LEMMA LeadsOn == \A t, u, v, x : Leads(t, u, x) /\ Leads(u, v, x) => Leads(t, v, x)
BY DEF Leads, Stays

LEMMA HeldOn == \A t, u, x : \A c \in ConnIds : Leads(t, u, x) /\ Held(t, c) => Held(u, c)
<1> SUFFICES ASSUME NEW t, NEW u, NEW x, NEW c \in ConnIds, Leads(t, u, x), Held(t, c) PROVE Held(u, c)
  OBVIOUS
<1>1. u.conns[c].mem \in {"none", "live", "dead", "freed"} BY DEF Leads, Good, UringStates, UringConns
<1> QED BY <1>1 DEF Leads, Stays, Held

LEMMA OfTyped == \A t \in UringStates : \A c : Of(t.ring.cq, c) \subseteq Cqe
<1> SUFFICES ASSUME NEW t \in UringStates PROVE \A i \in DOMAIN t.ring.cq : t.ring.cq[i] \in Cqe
  BY DEF Of
<1>1. t.ring.cq \in Seq(Cqe) BY DEF UringStates, Rings
<1> QED BY <1>1

LEMMA AtOne ==
  ASSUME NEW t, NEW x, Good(t, x), NEW c \in ConnIds
  PROVE  /\ t \in UringStates /\ t.ring.up = TRUE /\ t.ring.misuse = {}
         /\ t.conns[c] \in UringConns /\ t.sockets[c] \in UringSockets /\ t.kernel[c] \in UringKernels
         /\ OneOK(t.conns[c], t.sockets[c], t.kernel[c], Of(t.ring.cq, c))
         /\ Of(t.ring.cq, c) \subseteq Cqe
         /\ c # x => Reads(t.conns[c])
BY OfTyped DEF Good, UringStates

LEMMA Changed ==
  ASSUME NEW t, NEW x, Good(t, x), NEW c \in ConnIds, NEW u, Agree(t, u, c),
         OneOK(u.conns[c], u.sockets[c], u.kernel[c], Of(t.ring.cq, c)),
         c # x => Reads(u.conns[c]),
         u.conns[c].mem = t.conns[c].mem \/ (u.conns[c].mem = "dead" /\ t.conns[c].mem = "live")
  PROVE  Leads(t, u, x)
<1>1. Good(u, x)
  <2>1. u \in UringStates /\ u.ring = t.ring BY DEF Agree
  <2>2. \A d \in ConnIds : OneOK(u.conns[d], u.sockets[d], u.kernel[d], Of(u.ring.cq, d))
    BY <2>1 DEF Agree, Good
  <2>3. \A d \in ConnIds \ {x} : Reads(u.conns[d]) BY DEF Agree, Good
  <2> QED BY <2>1, <2>2, <2>3 DEF Good
<1>2. Stays(t, u) BY DEF Agree, Stays
<1> QED BY <1>1, <1>2 DEF Leads

(* What a change of one connection is, field by field. *)
IsPut(f, g, c, r) == g = [f EXCEPT ![c] = r] \/ (g = f /\ r = f[c])

LEMMA PutOne ==
  ASSUME NEW t \in UringStates, NEW c \in ConnIds, NEW n \in UringConns, NEW s \in UringSockets,
         NEW k \in UringKernels, NEW u \in UringStates, u.ring = t.ring,
         IsPut(t.conns, u.conns, c, n), IsPut(t.sockets, u.sockets, c, s), IsPut(t.kernel, u.kernel, c, k)
  PROVE  Agree(t, u, c) /\ u.conns[c] = n /\ u.sockets[c] = s /\ u.kernel[c] = k
BY DEF Agree, UringStates, IsPut

(* With nothing in flight a connection can go. *)
LEMMA GoneOK ==
  ASSUME NEW t, NEW x, Good(t, x), NEW c \in ConnIds, t.conns[c].mem = "live", t.conns[c].in_flight = 0,
         NEW u, Agree(t, u, c), u.conns[c].mem = "dead", u.conns[c].closing,
         u.sockets[c] = [t.sockets[c] EXCEPT !.known = FALSE, !.closes = @ + 1],
         u.kernel[c] = [t.kernel[c] EXCEPT !.fd = "closed"]
  PROVE  Leads(t, u, x)
<1> DEFINE n == t.conns[c]
           s == t.sockets[c]
           k == t.kernel[c]
           E == Of(t.ring.cq, c)
           sd == u.sockets[c]
           kd == u.kernel[c]
<1>1. /\ n \in UringConns /\ s \in UringSockets /\ k \in UringKernels /\ OneOK(n, s, k, E) /\ E \subseteq Cqe
  BY AtOne
<1>2. /\ sd.known = FALSE /\ sd.closes = s.closes + 1 /\ sd.ended = s.ended /\ sd.written = s.written
      /\ kd.fd = "closed" /\ kd.recv = k.recv /\ kd.sends = k.sends /\ kd.gap = k.gap /\ kd.fin = k.fin
      /\ kd.peer = k.peer /\ kd.wire = k.wire
  BY <1>1 DEF UringSockets, UringKernels
<1>3. n.mem = "live" /\ n.in_flight = 0 OBVIOUS
<1> HIDE DEF n, s, k, E, sd, kd
<1>4. IsLive(n, s, k, E) BY <1>1, <1>3 DEF OneOK
<1>5. ~n.recv_active /\ ~n.sending BY <1>1, <1>3, <1>4 DEF IsLive, UringConns
<1>6. ~k.recv /\ k.sends = {} /\ ~Has(E, "recv") /\ ~Has(E, "send") /\ ~Has(E, "accept")
  BY <1>4, <1>5 DEF IsLive, Receives, Sends
<1>7. E = {}
  <2> SUFFICES ASSUME NEW e \in E PROVE FALSE OBVIOUS
  <2>1. e.tag \in {"accept", "recv", "send"} BY <1>1 DEF Cqe
  <2> QED BY <1>6, <2>1 DEF Has
<1>8. s.closes = 0 BY <1>4 DEF IsLive
<1>9. IsOver(u.conns[c], sd, kd, E) BY <1>2, <1>6, <1>7, <1>8 DEF IsOver
<1>10. OneOK(u.conns[c], sd, kd, E) BY <1>1, <1>2, <1>9 DEF OneOK
<1>11. Reads(u.conns[c]) BY DEF Reads
<1> QED BY <1>3, <1>10, <1>11, Changed DEF n, sd, kd, E

Gone(t, c) ==
  emitUringClose([t EXCEPT !.conns[c].mem = "dead", !.conns[c].sends = <<>>, !.kernel[c].fd = "closed"], c)

LEMMA ConnUpdates ==
  ASSUME NEW n \in UringConns
  PROVE  /\ [n EXCEPT !.closing = TRUE] \in UringConns
         /\ [n EXCEPT !.mem = "dead", !.sends = <<>>] \in UringConns
         /\ \A f \in 0..2 : /\ [n EXCEPT !.recv_active = TRUE, !.in_flight = f] \in UringConns
                            /\ [n EXCEPT !.sending = TRUE, !.in_flight = f] \in UringConns
<1>1. <<>> \in Seq(Span) OBVIOUS
<1>2. [n EXCEPT !.closing = TRUE] \in UringConns BY DEF UringConns
<1>3. [n EXCEPT !.mem = "dead", !.sends = <<>>] \in UringConns BY <1>1 DEF UringConns
<1>4. ASSUME NEW f \in 0..2
      PROVE  /\ [n EXCEPT !.recv_active = TRUE, !.in_flight = f] \in UringConns
             /\ [n EXCEPT !.sending = TRUE, !.in_flight = f] \in UringConns
  <2>1. [n EXCEPT !.recv_active = TRUE, !.in_flight = f] \in UringConns BY DEF UringConns
  <2>2. [n EXCEPT !.sending = TRUE, !.in_flight = f] \in UringConns BY DEF UringConns
  <2> QED BY <2>1, <2>2
<1> QED BY <1>2, <1>3, <1>4

LEMMA SocketUpdates ==
  ASSUME NEW s \in UringSockets
  PROVE  /\ [s EXCEPT !.known = FALSE, !.closes = @ + 1] \in UringSockets
         /\ [s EXCEPT !.ended = TRUE] \in UringSockets
         /\ [s EXCEPT !.readEnded = TRUE] \in UringSockets
         /\ [s EXCEPT !.needDrain = TRUE] \in UringSockets
         /\ [s EXCEPT !.needDrain = FALSE] \in UringSockets
<1>1. [s EXCEPT !.known = FALSE, !.closes = @ + 1] \in UringSockets
  <2> DEFINE m == s.closes + 1
  <2>1. m \in Nat BY DEF UringSockets
  <2> HIDE DEF m
  <2>2. [s EXCEPT !.known = FALSE, !.closes = m] \in UringSockets BY <2>1 DEF UringSockets
  <2> QED BY <2>2 DEF m
<1>2. [s EXCEPT !.ended = TRUE] \in UringSockets BY DEF UringSockets
<1>3. [s EXCEPT !.readEnded = TRUE] \in UringSockets BY DEF UringSockets
<1>4. [s EXCEPT !.needDrain = TRUE] \in UringSockets BY DEF UringSockets
<1>5. [s EXCEPT !.needDrain = FALSE] \in UringSockets BY DEF UringSockets
<1> QED BY <1>1, <1>2, <1>3, <1>4, <1>5

LEMMA KernelUpdates ==
  ASSUME NEW k \in UringKernels
  PROVE  /\ [k EXCEPT !.fd = "closed"] \in UringKernels
         /\ [k EXCEPT !.shut = TRUE] \in UringKernels
         /\ [k EXCEPT !.fin = TRUE] \in UringKernels
         /\ [k EXCEPT !.recv = TRUE] \in UringKernels
BY DEF UringKernels

LEMMA GoneState ==
  ASSUME NEW t, NEW x, Good(t, x), NEW c \in ConnIds, t.conns[c].mem = "live", t.conns[c].in_flight = 0,
         NEW v, v = t \/ v = [t EXCEPT !.conns[c].closing = TRUE], v.conns[c].closing
  PROVE  Leads(t, Gone(v, c), x) /\ Gone(v, c).conns[c].closing
<1> DEFINE u == Gone(v, c)
           n == [v.conns[c] EXCEPT !.mem = "dead", !.sends = <<>>]
           s == [t.sockets[c] EXCEPT !.known = FALSE, !.closes = @ + 1]
           k == [t.kernel[c] EXCEPT !.fd = "closed"]
<1>0. t \in UringStates BY AtOne
<1>1. [t.conns[c] EXCEPT !.closing = TRUE] \in UringConns BY <1>0, ConnUpdates DEF UringStates
<1>2. v \in UringStates /\ v.ring = t.ring /\ v.sockets = t.sockets /\ v.kernel = t.kernel
  BY <1>0, <1>1 DEF UringStates
<1>3. v.conns = t.conns \/ v.conns = [t.conns EXCEPT ![c] = [t.conns[c] EXCEPT !.closing = TRUE]]
  BY <1>0 DEF UringStates
<1> HIDE DEF u
<1>4. n \in UringConns /\ n.mem = "dead" /\ n.closing
  <2>1. v.conns[c] \in UringConns BY <1>2 DEF UringStates
  <2>2. n \in UringConns BY <2>1, ConnUpdates
  <2> QED BY <2>1, <2>2 DEF UringConns
<1>5. s \in UringSockets /\ k \in UringKernels
  BY <1>0, SocketUpdates, KernelUpdates DEF UringStates
<1>6. u.ring = t.ring BY <1>2 DEF u, Gone, UringStates, emitUringClose
<1>7. /\ u.conns = [v.conns EXCEPT ![c] = n] /\ u.kernel = [t.kernel EXCEPT ![c] = k]
      /\ u.sockets = [t.sockets EXCEPT ![c] = s]
  BY <1>2 DEF u, Gone, UringStates, emitUringClose
<1>8. u.conns = [t.conns EXCEPT ![c] = n] BY <1>0, <1>3, <1>7 DEF UringStates
<1>9. u \in UringStates
  <2>1. /\ [v.conns EXCEPT ![c] = n] \in [ConnIds -> UringConns]
        /\ [t.kernel EXCEPT ![c] = k] \in [ConnIds -> UringKernels]
        /\ [t.sockets EXCEPT ![c] = s] \in [ConnIds -> UringSockets]
    BY <1>0, <1>2, <1>4, <1>5 DEF UringStates
  <2> HIDE DEF n, s, k
  <2> QED BY <1>2, <1>7, <2>1 DEF u, Gone, UringStates, emitUringClose
<1> HIDE DEF n, s, k
<1>11. IsPut(t.conns, u.conns, c, n) /\ IsPut(t.sockets, u.sockets, c, s) /\ IsPut(t.kernel, u.kernel, c, k)
  BY <1>7, <1>8 DEF IsPut
<1>10. Agree(t, u, c) /\ u.conns[c] = n /\ u.sockets[c] = s /\ u.kernel[c] = k
  BY <1>0, <1>4, <1>5, <1>6, <1>9, <1>11, PutOne
<1> QED BY <1>4, <1>10, GoneOK DEF u, s, k

LEMMA Finalize ==
  ASSUME NEW t, NEW x, Good(t, x), NEW c \in ConnIds
  PROVE  Leads(t, finalize(t, c), x)
<1>1. CASE finalize(t, c) = t BY <1>1, SameLeads
<1>2. CASE t.conns[c].mem = "live" /\ t.conns[c].closing /\ t.conns[c].in_flight = 0
  <2>1. finalize(t, c) = Gone(t, c) BY <1>2 DEF finalize, Gone
  <2> QED BY <1>2, <2>1, GoneState
<1> QED BY <1>1, <1>2 DEF finalize

LEMMA StartClose ==
  ASSUME NEW t, NEW x, Good(t, x), NEW c \in ConnIds, Held(t, c)
  PROVE  Leads(t, startClose(t, c), x) /\ startClose(t, c).conns[c].closing
<1>0. /\ t \in UringStates /\ t.conns[c] \in UringConns /\ t.sockets[c] \in UringSockets
      /\ t.kernel[c] \in UringKernels
      /\ OneOK(t.conns[c], t.sockets[c], t.kernel[c], Of(t.ring.cq, c))
  BY AtOne
<1> DEFINE v == startClose(t, c)
           u == [t EXCEPT !.conns[c].closing = TRUE]
<1>1. CASE t.conns[c].closing BY <1>1, SameLeads DEF startClose
<1>2. CASE ~t.conns[c].closing
  <2>1. t.conns[c].mem = "live" BY <1>0, <1>2 DEF Held, OneOK, IsOver
  <2>2. IsLive(t.conns[c], t.sockets[c], t.kernel[c], Of(t.ring.cq, c)) BY <1>0, <2>1 DEF OneOK
  <2>3. CASE t.conns[c].recv_active \/ t.conns[c].sending
    <3>1. v = [u EXCEPT !.kernel[c].shut = TRUE] BY <1>2, <2>3 DEF startClose
    <3> DEFINE n == [t.conns[c] EXCEPT !.closing = TRUE]
               k == [t.kernel[c] EXCEPT !.shut = TRUE]
    <3>2. n \in UringConns /\ k \in UringKernels BY <1>0, ConnUpdates, KernelUpdates
    <3>3. /\ v.ring = t.ring /\ v.conns = [t.conns EXCEPT ![c] = n] /\ v.sockets = t.sockets
          /\ v.kernel = [t.kernel EXCEPT ![c] = k]
      BY <1>0, <3>1 DEF UringStates
    <3>8. v \in UringStates
      <4> HIDE DEF v, u
      <4>1. u = [t EXCEPT !.conns[c].closing = TRUE] BY DEF u
      <4>2. u \in UringStates /\ u.kernel = t.kernel BY <1>0, <3>2, <4>1 DEF UringStates
      <4> QED BY <1>0, <3>1, <3>2, <4>2 DEF UringStates
    <3> HIDE DEF v, u, n, k
    <3>9. Agree(t, v, c) /\ v.conns[c] = n /\ v.sockets[c] = t.sockets[c] /\ v.kernel[c] = k
      <4>1. /\ IsPut(t.conns, v.conns, c, n) /\ IsPut(t.sockets, v.sockets, c, t.sockets[c])
            /\ IsPut(t.kernel, v.kernel, c, k)
        BY <3>3, Zenon DEF IsPut
      <4>2. t \in UringStates /\ t.sockets[c] \in UringSockets /\ v.ring = t.ring BY <1>0, <3>3
      <4> QED BY <3>2, <3>8, <4>1, <4>2, PutOne
    <3>4. /\ v.conns[c].closing = TRUE /\ v.conns[c].mem = "live"
          /\ v.conns[c].in_flight = t.conns[c].in_flight
          /\ v.conns[c].recv_active = t.conns[c].recv_active /\ v.conns[c].sending = t.conns[c].sending
          /\ v.conns[c].sends = t.conns[c].sends /\ v.conns[c].queued_bytes = t.conns[c].queued_bytes
          /\ v.conns[c].write_shutdown = t.conns[c].write_shutdown
          /\ v.conns[c].end_pending = t.conns[c].end_pending
          /\ v.sockets[c] = t.sockets[c]
          /\ v.kernel[c].shut = TRUE /\ v.kernel[c].fd = t.kernel[c].fd /\ v.kernel[c].fin = t.kernel[c].fin
          /\ v.kernel[c].recv = t.kernel[c].recv /\ v.kernel[c].sends = t.kernel[c].sends
          /\ v.kernel[c].peer = t.kernel[c].peer /\ v.kernel[c].wire = t.kernel[c].wire
          /\ v.kernel[c].gap = t.kernel[c].gap
      BY <1>0, <2>1, <3>9 DEF n, k, UringConns, UringKernels
    <3>5. IsLive(v.conns[c], v.sockets[c], v.kernel[c], Of(t.ring.cq, c))
      BY <2>2, <3>4 DEF IsLive, Receives, Sends, Queued, Rest, Results, NextUnit, Ended
    <3>6. OneOK(v.conns[c], v.sockets[c], v.kernel[c], Of(t.ring.cq, c))
      BY <1>0, <3>4, <3>5 DEF OneOK
    <3>7. Reads(v.conns[c]) BY <3>4 DEF Reads
    <3> QED BY <2>1, <3>4, <3>6, <3>7, <3>9, Changed DEF v
  <2>4. CASE ~(t.conns[c].recv_active \/ t.conns[c].sending)
    <3>1. t.conns[c].in_flight = 0 BY <2>2, <2>4 DEF IsLive
    <3>2. u.conns[c].mem = "live" /\ u.conns[c].closing /\ u.conns[c].in_flight = 0
      BY <1>0, <2>1, <3>1 DEF UringStates, UringConns
    <3>3. v = finalize(u, c) BY <1>2, <2>4 DEF startClose
    <3> HIDE DEF v, u
    <3>4. v = Gone(u, c) BY <3>2, <3>3 DEF finalize, Gone
    <3>5. u = [t EXCEPT !.conns[c].closing = TRUE] BY DEF u
    <3> QED BY <2>1, <3>1, <3>2, <3>4, <3>5, GoneState DEF v
  <2> QED BY <2>3, <2>4
<1> QED BY <1>1, <1>2
ArmedConn(n) == [n EXCEPT !.recv_active = TRUE, !.in_flight = n.in_flight + 1]
Armed(t, c) ==
  [t EXCEPT !.conns[c].recv_active = TRUE, !.conns[c].in_flight = @ + 1, !.kernel[c].recv = TRUE]
SendingConn(n) == [n EXCEPT !.sending = TRUE, !.in_flight = n.in_flight + 1]
Sending(t, c) ==
  [t EXCEPT !.conns[c].sending = TRUE, !.conns[c].in_flight = @ + 1,
            !.kernel[c].sends = @ \cup {Head(t.conns[c].sends)}]

LEMMA ArmFields ==
  ASSUME NEW t \in UringStates, NEW c \in ConnIds
  PROVE  /\ IsPut(t.conns, Armed(t, c).conns, c, ArmedConn(t.conns[c]))
         /\ IsPut(t.conns, Sending(t, c).conns, c, SendingConn(t.conns[c]))
<1>1. IsPut(t.conns, Armed(t, c).conns, c, ArmedConn(t.conns[c]))
  BY DEF Armed, ArmedConn, UringStates, IsPut
<1>2. IsPut(t.conns, Sending(t, c).conns, c, SendingConn(t.conns[c]))
  BY DEF Sending, SendingConn, UringStates, IsPut
<1> QED BY <1>1, <1>2

LEMMA ArmRecv ==
  ASSUME NEW t, NEW x, Good(t, x), NEW c \in ConnIds, Held(t, c), NEW full \in BOOLEAN
  PROVE  Leads(t, armRecv(t, c, full), x) /\ Reads(armRecv(t, c, full).conns[c])
<1>0. /\ t \in UringStates /\ t.conns[c] \in UringConns /\ t.sockets[c] \in UringSockets
      /\ t.kernel[c] \in UringKernels /\ t.ring.up = TRUE
      /\ OneOK(t.conns[c], t.sockets[c], t.kernel[c], Of(t.ring.cq, c))
  BY AtOne
<1> DEFINE v == armRecv(t, c, full)
           f == t.conns[c].in_flight + 1
           n == ArmedConn(t.conns[c])
           k == [t.kernel[c] EXCEPT !.recv = TRUE]
<1>1. CASE t.conns[c].closing \/ t.conns[c].recv_active
  <2>1. v = t BY <1>1 DEF armRecv
  <2>2. Reads(t.conns[c]) BY <1>1 DEF Reads
  <2> QED BY <2>1, <2>2, SameLeads
<1>2. CASE ~t.conns[c].closing /\ ~t.conns[c].recv_active /\ full
  <2>1. v = startClose(t, c) BY <1>2 DEF armRecv
  <2> HIDE DEF v
  <2>2. Leads(t, v, x) /\ v.conns[c].closing BY <2>1, StartClose
  <2> QED BY <2>2 DEF Reads, v
<1>3. CASE ~t.conns[c].closing /\ ~t.conns[c].recv_active /\ ~full
  <2>1. v = Armed(t, c) BY <1>0, <1>3 DEF armRecv, Submitted, Armed
  <2>2. t.conns[c].mem = "live" BY <1>0, <1>3 DEF Held, OneOK, IsOver
  <2>3. IsLive(t.conns[c], t.sockets[c], t.kernel[c], Of(t.ring.cq, c)) BY <1>0, <2>2 DEF OneOK
  <2>4. f \in 0..2 /\ f = 1 + (IF t.conns[c].sending THEN 1 ELSE 0)
    BY <1>0, <1>3, <2>3 DEF IsLive, UringConns
  <2>5. v.ring = t.ring /\ v.sockets = t.sockets BY <1>0, <2>1 DEF UringStates, Armed
  <2>17. IsPut(t.conns, v.conns, c, n) BY <1>0, <2>1, ArmFields
  <2>18. v.kernel = [t.kernel EXCEPT ![c] = k] BY <1>0, <2>1 DEF UringStates, Armed
  <2> HIDE DEF f
  <2>7. n \in UringConns BY <1>0, <2>4, ConnUpdates DEF f, ArmedConn
  <2>8. k \in UringKernels BY <1>0, KernelUpdates
  <2>9. v \in UringStates
    <3>1. v.kernel \in [ConnIds -> UringKernels] BY <1>0, <2>8, <2>18 DEF UringStates
    <3> HIDE DEF v, n, k
    <3>2. v.conns \in [ConnIds -> UringConns] BY <1>0, <2>7, <2>17 DEF UringStates, IsPut
    <3> QED BY <1>0, <2>1, <2>5, <3>1, <3>2 DEF UringStates, Armed
  <2>10. /\ n.mem = "live" /\ n.recv_active = TRUE /\ n.in_flight = f /\ n.closing = t.conns[c].closing
         /\ n.sending = t.conns[c].sending /\ n.sends = t.conns[c].sends
         /\ n.queued_bytes = t.conns[c].queued_bytes
         /\ n.write_shutdown = t.conns[c].write_shutdown /\ n.end_pending = t.conns[c].end_pending
         /\ k.recv = TRUE /\ k.shut = t.kernel[c].shut /\ k.fd = t.kernel[c].fd /\ k.fin = t.kernel[c].fin
         /\ k.sends = t.kernel[c].sends /\ k.peer = t.kernel[c].peer /\ k.wire = t.kernel[c].wire
         /\ k.gap = t.kernel[c].gap
    BY <1>0, <2>2 DEF f, ArmedConn, UringConns, UringKernels
  <2> HIDE DEF v, n, k
  <2>11. Agree(t, v, c) /\ v.conns[c] = n /\ v.sockets[c] = t.sockets[c] /\ v.kernel[c] = k
    <3>1. IsPut(t.conns, v.conns, c, n) /\ IsPut(t.sockets, v.sockets, c, t.sockets[c]) /\ IsPut(t.kernel, v.kernel, c, k)
      BY <2>5, <2>17, <2>18, Zenon DEF IsPut
    <3>2. t \in UringStates /\ t.sockets[c] \in UringSockets /\ v.ring = t.ring BY <1>0, <2>5
    <3> QED BY <2>7, <2>8, <2>9, <3>1, <3>2, PutOne
  <2>12. IsLive(n, t.sockets[c], k, Of(t.ring.cq, c))
    <3>1. Receives(n, k, Of(t.ring.cq, c)) BY <1>3, <2>3, <2>10 DEF IsLive, Receives
    <3> QED BY <1>3, <2>3, <2>4, <2>10, <3>1 DEF IsLive, Sends, Queued, Rest, Results, NextUnit, Ended
  <2>13. OneOK(n, t.sockets[c], k, Of(t.ring.cq, c)) BY <1>0, <2>10, <2>12 DEF OneOK
  <2>14. Reads(n) BY <2>10 DEF Reads
  <2>15. Leads(t, v, x) BY <2>2, <2>10, <2>11, <2>13, <2>14, Changed
  <2> QED BY <2>11, <2>14, <2>15 DEF v
<1> QED BY <1>1, <1>2, <1>3

LEMMA KickSend ==
  ASSUME NEW t, NEW x, Good(t, x), NEW c \in ConnIds, Held(t, c)
  PROVE  Leads(t, kickSend(t, c), x)
<1>0. /\ t \in UringStates /\ t.conns[c] \in UringConns /\ t.sockets[c] \in UringSockets
      /\ t.kernel[c] \in UringKernels /\ t.ring.up = TRUE
      /\ OneOK(t.conns[c], t.sockets[c], t.kernel[c], Of(t.ring.cq, c))
      /\ c # x => Reads(t.conns[c])
  BY AtOne
<1> DEFINE v == kickSend(t, c)
           f == t.conns[c].in_flight + 1
           a == t.kernel[c].sends \cup {Head(t.conns[c].sends)}
           n == SendingConn(t.conns[c])
           k == [t.kernel[c] EXCEPT !.sends = a]
<1>1. CASE t.conns[c].sending \/ t.conns[c].closing \/ t.conns[c].sends = <<>>
  BY <1>1, SameLeads DEF kickSend
<1>3. CASE ~t.conns[c].sending /\ ~t.conns[c].closing /\ t.conns[c].sends # <<>>
  <2>1. v = Sending(t, c) BY <1>0, <1>3 DEF kickSend, Submitted, Sending
  <2>2. t.conns[c].mem = "live" BY <1>0, <1>3 DEF Held, OneOK, IsOver
  <2>3. IsLive(t.conns[c], t.sockets[c], t.kernel[c], Of(t.ring.cq, c)) BY <1>0, <2>2 DEF OneOK
  <2>4. f \in 0..2 /\ f = 1 + (IF t.conns[c].recv_active THEN 1 ELSE 0)
    BY <1>0, <1>3, <2>3 DEF IsLive, UringConns
  <2>16. a = {t.conns[c].sends[1]} /\ a \in SUBSET Span
    <3>1. t.conns[c].sends \in Seq(Span) BY <1>0 DEF UringConns
    <3>2. Head(t.conns[c].sends) = t.conns[c].sends[1] /\ Head(t.conns[c].sends) \in Span BY <1>3, <3>1
    <3>3. t.kernel[c].sends = {} BY <1>3, <2>3 DEF IsLive, Sends
    <3> QED BY <3>2, <3>3
  <2>5. v.ring = t.ring /\ v.sockets = t.sockets BY <1>0, <2>1 DEF UringStates, Sending
  <2>17. IsPut(t.conns, v.conns, c, n) BY <1>0, <2>1, ArmFields
  <2>18. v.kernel = [t.kernel EXCEPT ![c] = k] BY <1>0, <2>1 DEF UringStates, Sending
  <2> HIDE DEF f, a
  <2>7. n \in UringConns BY <1>0, <2>4, ConnUpdates DEF f, SendingConn
  <2>8. k \in UringKernels BY <1>0, <2>16 DEF UringKernels
  <2>9. v \in UringStates
    <3>1. v.kernel \in [ConnIds -> UringKernels] BY <1>0, <2>8, <2>18 DEF UringStates
    <3> HIDE DEF v, n, k
    <3>2. v.conns \in [ConnIds -> UringConns] BY <1>0, <2>7, <2>17 DEF UringStates, IsPut
    <3> QED BY <1>0, <2>1, <2>5, <3>1, <3>2 DEF UringStates, Sending
  <2>10. /\ n.mem = "live" /\ n.sending = TRUE /\ n.in_flight = f /\ n.closing = t.conns[c].closing
         /\ n.recv_active = t.conns[c].recv_active /\ n.sends = t.conns[c].sends
         /\ n.queued_bytes = t.conns[c].queued_bytes /\ n.read_ended = t.conns[c].read_ended
         /\ n.write_shutdown = t.conns[c].write_shutdown /\ n.end_pending = t.conns[c].end_pending
         /\ k.sends = a /\ k.shut = t.kernel[c].shut /\ k.fd = t.kernel[c].fd /\ k.fin = t.kernel[c].fin
         /\ k.recv = t.kernel[c].recv /\ k.peer = t.kernel[c].peer /\ k.wire = t.kernel[c].wire
         /\ k.gap = t.kernel[c].gap
    BY <1>0, <2>2 DEF f, SendingConn, UringConns, UringKernels
  <2> HIDE DEF v, n, k
  <2>11. Agree(t, v, c) /\ v.conns[c] = n /\ v.sockets[c] = t.sockets[c] /\ v.kernel[c] = k
    <3>1. IsPut(t.conns, v.conns, c, n) /\ IsPut(t.sockets, v.sockets, c, t.sockets[c]) /\ IsPut(t.kernel, v.kernel, c, k)
      BY <2>5, <2>17, <2>18, Zenon DEF IsPut
    <3>2. t \in UringStates /\ t.sockets[c] \in UringSockets /\ v.ring = t.ring BY <1>0, <2>5
    <3> QED BY <2>7, <2>8, <2>9, <3>1, <3>2, PutOne
  <2>12. IsLive(n, t.sockets[c], k, Of(t.ring.cq, c))
    <3>1. Sends(n, k, Of(t.ring.cq, c)) BY <1>3, <2>3, <2>10, <2>16 DEF IsLive, Sends
    <3> QED BY <1>3, <2>3, <2>4, <2>10, <3>1 DEF IsLive, Receives, Queued, Rest, Results, NextUnit, Ended
  <2>13. OneOK(n, t.sockets[c], k, Of(t.ring.cq, c)) BY <1>0, <2>10, <2>12 DEF OneOK
  <2>14. c # x => Reads(n) BY <1>0, <2>2, <2>10 DEF Reads
  <2>15. Leads(t, v, x) BY <2>2, <2>10, <2>11, <2>13, <2>14, Changed
  <2> QED BY <2>15 DEF v
<1> QED BY <1>1, <1>3

LEMMA CloseIfDone ==
  ASSUME NEW t, NEW x, Good(t, x), NEW c \in ConnIds, Held(t, c)
  PROVE  /\ Leads(t, closeIfDone(t, c), x)
         /\ closeIfDone(t, c).conns[c].closing \/ closeIfDone(t, c) = t
BY StartClose, SameLeads DEF closeIfDone
-----------------------------------------------------------------------------
(* A state whose fields are given is a state. *)
IsState(u) == u \in [conns : {u.conns}, sockets : {u.sockets}, kernel : {u.kernel}, ring : {u.ring}]

LEMMA StateTyped ==
  ASSUME NEW v, IsState(v), v.conns \in [ConnIds -> UringConns], v.sockets \in [ConnIds -> UringSockets],
         v.kernel \in [ConnIds -> UringKernels], v.ring \in Rings
  PROVE  v \in UringStates
BY DEF IsState, UringStates

LEMMA Moved ==
  ASSUME NEW t, NEW x, Good(t, x), NEW c \in ConnIds, NEW n \in UringConns, NEW s \in UringSockets,
         NEW k \in UringKernels, NEW u, IsState(u), u.ring = t.ring,
         IsPut(t.conns, u.conns, c, n), IsPut(t.sockets, u.sockets, c, s), IsPut(t.kernel, u.kernel, c, k),
         OneOK(n, s, k, Of(t.ring.cq, c)), c # x => Reads(n), n.mem = t.conns[c].mem
  PROVE  Leads(t, u, x) /\ u.conns[c] = n /\ u.sockets[c] = s /\ u.kernel[c] = k
<1>1. t \in UringStates BY AtOne
<1>2. u.conns \in [ConnIds -> UringConns] BY <1>1 DEF IsPut, UringStates
<1>3. u.sockets \in [ConnIds -> UringSockets] BY <1>1 DEF IsPut, UringStates
<1>4. u.kernel \in [ConnIds -> UringKernels] BY <1>1 DEF IsPut, UringStates
<1>5. u.ring \in Rings BY <1>1 DEF UringStates
<1>6. u \in UringStates BY <1>2, <1>3, <1>4, <1>5, StateTyped
<1>7. Agree(t, u, c) /\ u.conns[c] = n /\ u.sockets[c] = s /\ u.kernel[c] = k BY <1>1, <1>6, PutOne
<1> QED BY <1>7, Changed

(* What a socket remembers beside what it wrote. *)
LEMMA SocketMoves ==
  ASSUME NEW t, NEW x, Good(t, x), NEW c \in ConnIds, Held(t, c), NEW s \in UringSockets,
         s.known = t.sockets[c].known, s.closes = t.sockets[c].closes,
         s.written = t.sockets[c].written, t.sockets[c].ended => s.ended,
         NEW u, IsState(u), u.ring = t.ring, u.conns = t.conns, u.kernel = t.kernel,
         IsPut(t.sockets, u.sockets, c, s)
  PROVE  Leads(t, u, x) /\ u.conns = t.conns /\ u.sockets[c] = s /\ u.kernel = t.kernel
<1>0. /\ t \in UringStates /\ t.conns[c] \in UringConns /\ t.kernel[c] \in UringKernels
      /\ OneOK(t.conns[c], t.sockets[c], t.kernel[c], Of(t.ring.cq, c))
      /\ c # x => Reads(t.conns[c])
  BY ONLY Good(t, x), c \in ConnIds, AtOne
<1>1. IsPut(t.conns, u.conns, c, t.conns[c]) /\ IsPut(t.kernel, u.kernel, c, t.kernel[c]) BY DEF IsPut
<1>2. OneOK(t.conns[c], s, t.kernel[c], Of(t.ring.cq, c))
  BY <1>0 DEF Held, OneOK, IsLive, IsOver, Queued, Rest, NextUnit, Ended
<1> QED BY <1>0, <1>1, <1>2, Moved

EndedState(t, c) == [t EXCEPT !.sockets[c].ended = TRUE]

LEMMA EndedMoves ==
  ASSUME NEW t, NEW x, Good(t, x), NEW c \in ConnIds, Held(t, c)
  PROVE  LET u == EndedState(t, c) IN
         /\ Leads(t, u, x) /\ u.conns = t.conns /\ u.kernel = t.kernel /\ u.sockets[c].ended = TRUE
<1> DEFINE u == EndedState(t, c)
           s == [t.sockets[c] EXCEPT !.ended = TRUE]
<1>0. t \in UringStates /\ t.sockets[c] \in UringSockets BY AtOne
<1>1. IsState(u) BY <1>0 DEF EndedState, IsState, UringStates
<1>2. u.ring = t.ring /\ u.conns = t.conns /\ u.kernel = t.kernel BY <1>0 DEF EndedState, UringStates
<1>3. IsPut(t.sockets, u.sockets, c, s) BY <1>0 DEF EndedState, UringStates, IsPut
<1>4. s \in UringSockets BY <1>0, SocketUpdates
<1>5. /\ s.known = t.sockets[c].known /\ s.closes = t.sockets[c].closes /\ s.written = t.sockets[c].written
      /\ s.ended = TRUE
  BY <1>0 DEF UringSockets
<1> HIDE DEF u, s
<1>6. Leads(t, u, x) /\ u.sockets[c] = s BY <1>1, <1>2, <1>3, <1>4, <1>5, SocketMoves
<1> QED BY <1>2, <1>5, <1>6 DEF u

LEMMA FlagMoves ==
  ASSUME NEW t, NEW x, Good(t, x), NEW c \in ConnIds, Held(t, c)
  PROVE  /\ Leads(t, [t EXCEPT !.sockets[c].needDrain = TRUE], x)
         /\ Leads(t, [t EXCEPT !.sockets[c].needDrain = FALSE], x)
         /\ Leads(t, [t EXCEPT !.sockets[c].readEnded = TRUE], x)
<1>0. t \in UringStates /\ t.sockets[c] \in UringSockets BY AtOne
<1>1. ASSUME NEW b \in BOOLEAN PROVE Leads(t, [t EXCEPT !.sockets[c].needDrain = b], x)
  <2> DEFINE u == [t EXCEPT !.sockets[c].needDrain = b]
             s == [t.sockets[c] EXCEPT !.needDrain = b]
  <2>1. IsState(u) BY <1>0 DEF IsState, UringStates
  <2>2. u.ring = t.ring /\ u.conns = t.conns /\ u.kernel = t.kernel BY <1>0 DEF UringStates
  <2>3. IsPut(t.sockets, u.sockets, c, s) BY <1>0 DEF UringStates, IsPut
  <2>4. s \in UringSockets BY <1>0 DEF UringSockets
  <2>5. /\ s.known = t.sockets[c].known /\ s.closes = t.sockets[c].closes /\ s.written = t.sockets[c].written
        /\ s.ended = t.sockets[c].ended
    BY <1>0 DEF UringSockets
  <2> HIDE DEF u, s
  <2>6. Leads(t, u, x) BY <2>1, <2>2, <2>3, <2>4, <2>5, SocketMoves
  <2> QED BY <2>6 DEF u
<1>2. Leads(t, [t EXCEPT !.sockets[c].readEnded = TRUE], x)
  <2> DEFINE u == [t EXCEPT !.sockets[c].readEnded = TRUE]
             s == [t.sockets[c] EXCEPT !.readEnded = TRUE]
  <2>1. IsState(u) BY <1>0 DEF IsState, UringStates
  <2>2. u.ring = t.ring /\ u.conns = t.conns /\ u.kernel = t.kernel BY <1>0 DEF UringStates
  <2>3. IsPut(t.sockets, u.sockets, c, s) BY <1>0 DEF UringStates, IsPut
  <2>4. s \in UringSockets BY <1>0, SocketUpdates
  <2>5. /\ s.known = t.sockets[c].known /\ s.closes = t.sockets[c].closes /\ s.written = t.sockets[c].written
        /\ s.ended = t.sockets[c].ended
    BY <1>0 DEF UringSockets
  <2> HIDE DEF u, s
  <2>6. Leads(t, u, x) BY <2>1, <2>2, <2>3, <2>4, <2>5, SocketMoves
  <2> QED BY <2>6 DEF u
<1> QED BY <1>1, <1>2

-----------------------------------------------------------------------------
(* The queue of a connection. *)

NewSpan(w, m) == [from |-> w + 1, to |-> w + m]

LEMMA FollowAppend ==
  ASSUME NEW q \in Seq(Span), NEW w \in Nat, Follow(q, w), Under(q, w),
         NEW m \in Nat \ {0}
  PROVE  LET p == Append(q, NewSpan(w, m)) IN
         /\ p \in Seq(Span) /\ p # <<>> /\ Follow(p, w + m) /\ Under(p, w + m)
         /\ p[1].from = IF q = <<>> THEN w + 1 ELSE q[1].from
         /\ q # <<>> => p[1] = q[1]
<1> DEFINE new == NewSpan(w, m)
           p == Append(q, new)
           z == Len(q) + 1
<1>0. new \in Span /\ new.from = w + 1 /\ new.to = w + m BY DEF Span, NewSpan
<1> HIDE DEF new
<1>1. /\ p \in Seq(Span) /\ p # <<>> /\ DOMAIN p = 1..z /\ DOMAIN q = 1..Len(q) /\ p[z] = new /\ Len(p) = z
      /\ Len(q) \in Nat /\ \A i \in DOMAIN q : p[i] = q[i] /\ q[i] \in Span
  BY <1>0
<1>2. q = <<>> => Len(q) = 0 OBVIOUS
<1>3. q # <<>> => 1 \in DOMAIN q OBVIOUS
<1> HIDE DEF p
<1>4. ASSUME NEW i \in DOMAIN p
      PROVE  /\ p[i].from <= p[i].to /\ p[i].to <= w + m
             /\ p[i].to = IF i = Len(p) THEN w + m ELSE p[i + 1].from - 1
  <2>1. CASE i = z BY <1>0, <1>1, <2>1
  <2>2. CASE i # z
    <3>1. i \in DOMAIN q /\ i \in 1..Len(q) BY <1>1, <2>2
    <3>2. q[i].from \in Nat /\ q[i].to \in Nat /\ q[i].from <= q[i].to /\ q[i].to <= w
      BY <1>1, <3>1 DEF Follow, Under, Span
    <3>3. CASE i = Len(q)
      <4>1. q[i].to = w BY <3>1, <3>3 DEF Follow
      <4>4. Len(q) \in Nat OBVIOUS
      <4>3. i + 1 = z /\ i # z BY <3>3, <4>4
      <4>2. p[i] = q[i] /\ p[i + 1] = new /\ i # Len(p) BY <1>1, <3>1, <4>3
      <4> QED BY <1>0, <3>2, <4>1, <4>2
    <3>4. CASE i # Len(q)
      <4>1. q[i].to = q[i + 1].from - 1 BY <3>1, <3>4 DEF Follow
      <4>2. i + 1 \in DOMAIN q BY <1>1, <3>1, <3>4
      <4>3. p[i] = q[i] /\ p[i + 1] = q[i + 1] /\ i # Len(p) BY <1>1, <3>1, <4>2
      <4> QED BY <3>2, <4>1, <4>3
    <3> QED BY <3>3, <3>4
  <2> QED BY <2>1, <2>2
<1>5. Follow(p, w + m) /\ Under(p, w + m) BY <1>4 DEF Follow, Under
<1>6. p[1].from = IF q = <<>> THEN w + 1 ELSE q[1].from BY <1>0, <1>1, <1>2, <1>3
<1>7. q # <<>> => p[1] = q[1] BY <1>1, <1>3
<1> QED BY <1>1, <1>4, <1>5, <1>6, <1>7 DEF p, new

LEMMA FollowTail ==
  ASSUME NEW q \in Seq(Span), q # <<>>, NEW w \in Nat, Follow(q, w), Under(q, w)
  PROVE  /\ Tail(q) \in Seq(Span) /\ Follow(Tail(q), w) /\ Under(Tail(q), w)
         /\ q[1] = Head(q) /\ q[1] \in Span /\ q[1].from <= q[1].to /\ q[1].to <= w
         /\ Tail(q) = <<>> => q[1].to = w
         /\ Tail(q) # <<>> => Tail(q)[1].from = q[1].to + 1
<1> DEFINE p == Tail(q)
<1>7. /\ p \in Seq(Span) /\ Len(p) \in Nat /\ Len(q) = Len(p) + 1 /\ q[1] = Head(q) /\ 1 \in DOMAIN q
  OBVIOUS
<1>8. DOMAIN p = 1..Len(p) /\ DOMAIN q = 1..Len(q) OBVIOUS
<1>9. \A i \in DOMAIN p : i \in Nat /\ i + 1 \in DOMAIN q /\ p[i] = q[i + 1] OBVIOUS
<1>10. \A i \in DOMAIN q : q[i] \in Span OBVIOUS
<1>11. p = <<>> <=> Len(p) = 0
  <2> HIDE DEF p
  <2> QED BY <1>7
<1>1. /\ p \in Seq(Span) /\ Len(p) \in Nat /\ Len(q) = Len(p) + 1 /\ q[1] = Head(q) /\ 1 \in DOMAIN q
      /\ DOMAIN p = 1..Len(p) /\ DOMAIN q = 1..Len(q)
      /\ \A i \in DOMAIN p : i \in Nat /\ i + 1 \in DOMAIN q /\ p[i] = q[i + 1]
      /\ \A i \in DOMAIN q : q[i] \in Span
      /\ p = <<>> <=> Len(p) = 0
  BY <1>7, <1>8, <1>9, <1>10, <1>11
<1> HIDE DEF p
<1>2. ASSUME NEW i \in DOMAIN p
      PROVE  /\ p[i].from <= p[i].to /\ p[i].to <= w
             /\ p[i].to = IF i = Len(p) THEN w ELSE p[i + 1].from - 1
  <2>1. i + 1 \in DOMAIN q /\ p[i] = q[i + 1] /\ i \in 1..Len(p) BY <1>1
  <2>2. /\ q[i + 1].from <= q[i + 1].to /\ q[i + 1].to <= w
        /\ q[i + 1].to = IF i + 1 = Len(q) THEN w ELSE q[i + 1 + 1].from - 1
    BY <2>1 DEF Follow, Under
  <2>3. CASE i = Len(p) BY <1>1, <2>1, <2>2, <2>3
  <2>4. CASE i # Len(p)
    <3>1. i + 1 \in DOMAIN p /\ i + 1 # Len(q) BY <1>1, <2>1, <2>4
    <3> QED BY <1>1, <2>1, <2>2, <2>4, <3>1
  <2> QED BY <2>3, <2>4
<1>3. Follow(p, w) /\ Under(p, w) BY <1>2 DEF Follow, Under
<1>4. q[1] \in Span /\ q[1].from \in Nat /\ q[1].to \in Nat /\ q[1].from <= q[1].to /\ q[1].to <= w
  BY <1>1 DEF Follow, Under, Span
<1>5. p = <<>> => q[1].to = w BY <1>1 DEF Follow
<1>6. ASSUME p # <<>> PROVE p[1].from = q[1].to + 1
  <2>1. 1 \in DOMAIN p /\ 1 # Len(q) BY <1>1, <1>6
  <2>2. q[1].to = q[1 + 1].from - 1 BY <1>1, <2>1 DEF Follow
  <2>3. p[1] = q[1 + 1] /\ q[1 + 1] \in Span BY <1>1, <2>1
  <2> QED BY <1>4, <2>2, <2>3 DEF Span
<1> QED BY <1>1, <1>2, <1>3, <1>4, <1>5, <1>6 DEF p

LEMMA FollowPart ==
  ASSUME NEW q \in Seq(Span), q # <<>>, NEW w \in Nat, Follow(q, w), Under(q, w),
         NEW m \in Nat, q[1].from + m <= q[1].to
  PROVE  LET p == [q EXCEPT ![1].from = @ + m] IN
         /\ p \in Seq(Span) /\ p # <<>> /\ Follow(p, w) /\ Under(p, w)
         /\ p[1].from = q[1].from + m
<1> DEFINE h == [q[1] EXCEPT !.from = q[1].from + m]
           p == [q EXCEPT ![1] = h]
<1>1. /\ 1 \in DOMAIN q /\ DOMAIN q = 1..Len(q) /\ Len(q) \in Nat /\ \A i \in DOMAIN q : q[i] \in Span
  OBVIOUS
<1>2. h \in Span /\ h.from = q[1].from + m /\ h.to = q[1].to BY <1>1 DEF Span
<1>3. p = [q EXCEPT ![1].from = @ + m] OBVIOUS
<1> HIDE DEF h
<1>4. p \in Seq(Span) /\ Len(p) = Len(q) /\ DOMAIN p = DOMAIN q BY <1>1, <1>2
<1>5. p[1] = h /\ \A i \in DOMAIN q : i # 1 => p[i] = q[i] BY <1>1
<1>6. p # <<>> BY <1>1, <1>4
<1> HIDE DEF p
<1>7. ASSUME NEW i \in DOMAIN p
      PROVE  /\ p[i].from <= p[i].to /\ p[i].to <= w
             /\ p[i].to = IF i = Len(p) THEN w ELSE p[i + 1].from - 1
  <2>1. p[i].to = q[i].to BY <1>2, <1>4, <1>5
  <2>2. /\ q[i].from <= q[i].to /\ q[i].to <= w
        /\ q[i].to = IF i = Len(q) THEN w ELSE q[i + 1].from - 1
    BY <1>4 DEF Follow, Under
  <2>3. p[i].from <= p[i].to BY <1>2, <1>4, <1>5, <2>2
  <2>4. i # Len(q) => p[i + 1] = q[i + 1]
    <3>1. i # Len(q) => i + 1 \in DOMAIN q /\ i + 1 # 1 BY <1>1, <1>4
    <3> QED BY <1>5, <3>1
  <2> QED BY <1>4, <2>1, <2>2, <2>3, <2>4
<1>8. Follow(p, w) /\ Under(p, w) BY <1>7 DEF Follow, Under
<1> QED BY <1>2, <1>3, <1>4, <1>5, <1>6, <1>7, <1>8
-----------------------------------------------------------------------------
(* Writing and ending. *)

QueuedConn(n, w, m) ==
  [n EXCEPT !.sends = Append(@, [from |-> w + 1, to |-> w + m]), !.queued_bytes = @ + m]
WithWrite(t, c, m) ==
  LET w == t.sockets[c].written
  IN [t EXCEPT !.conns[c].sends = Append(@, [from |-> w + 1, to |-> w + m]),
               !.conns[c].queued_bytes = @ + m, !.sockets[c].written = w + m]

LEMMA WriteFields ==
  ASSUME NEW t \in UringStates, NEW c \in ConnIds, NEW m \in Nat \ {0}
  PROVE  LET u == WithWrite(t, c, m) IN
         /\ IsState(u) /\ u.ring = t.ring /\ u.kernel = t.kernel
         /\ IsPut(t.conns, u.conns, c, QueuedConn(t.conns[c], t.sockets[c].written, m))
         /\ IsPut(t.sockets, u.sockets, c, [t.sockets[c] EXCEPT !.written = t.sockets[c].written + m])
<1> DEFINE u == WithWrite(t, c, m)
<1>1. IsState(u) BY DEF WithWrite, IsState, UringStates
<1>2. u.ring = t.ring /\ u.kernel = t.kernel BY DEF WithWrite, UringStates
<1>3. IsPut(t.conns, u.conns, c, QueuedConn(t.conns[c], t.sockets[c].written, m))
  BY DEF WithWrite, QueuedConn, IsPut, UringStates
<1>4. IsPut(t.sockets, u.sockets, c, [t.sockets[c] EXCEPT !.written = t.sockets[c].written + m])
  BY DEF WithWrite, IsPut, UringStates
<1> QED BY <1>1, <1>2, <1>3, <1>4

LEMMA QueuedConnIs ==
  ASSUME NEW n \in UringConns, NEW w \in Nat, NEW m \in Nat \ {0}
  PROVE  LET p == QueuedConn(n, w, m) IN
         /\ p \in UringConns
         /\ p.sends = Append(n.sends, NewSpan(w, m))
         /\ p.queued_bytes = n.queued_bytes + m /\ p.mem = n.mem /\ p.closing = n.closing
         /\ p.recv_active = n.recv_active /\ p.read_ended = n.read_ended /\ p.in_flight = n.in_flight
         /\ p.sending = n.sending /\ p.end_pending = n.end_pending
         /\ p.write_shutdown = n.write_shutdown
<1> DEFINE q == Append(n.sends, NewSpan(w, m))
           b == n.queued_bytes + m
           p == [n EXCEPT !.sends = q, !.queued_bytes = b]
<1>1. q \in Seq(Span)
  <2>1. n.sends \in Seq(Span) BY DEF UringConns
  <2>2. NewSpan(w, m) \in Span BY DEF Span, NewSpan
  <2> QED BY <2>1, <2>2
<1>2. b \in Nat BY DEF UringConns
<1>3. QueuedConn(n, w, m) = p BY DEF QueuedConn, NewSpan
<1> HIDE DEF q, b
<1>4. p \in UringConns BY <1>1, <1>2 DEF UringConns
<1>5. /\ p.sends = q /\ p.queued_bytes = b /\ p.mem = n.mem /\ p.closing = n.closing
      /\ p.recv_active = n.recv_active /\ p.read_ended = n.read_ended /\ p.in_flight = n.in_flight
      /\ p.sending = n.sending /\ p.end_pending = n.end_pending
      /\ p.write_shutdown = n.write_shutdown
  BY DEF UringConns
<1> HIDE DEF p
<1> QED BY <1>3, <1>4, <1>5 DEF q, b

LEMMA EnqueueSend ==
  ASSUME NEW t, NEW x, Good(t, x), NEW c \in ConnIds, t.conns[c].mem = "live", ~t.conns[c].closing,
         ~t.sockets[c].ended, NEW m \in Nat \ {0}
  PROVE  Leads(t, enqueueSend(t, c, m), x)
<1>0. /\ t \in UringStates /\ t.conns[c] \in UringConns /\ t.sockets[c] \in UringSockets
      /\ t.kernel[c] \in UringKernels
      /\ OneOK(t.conns[c], t.sockets[c], t.kernel[c], Of(t.ring.cq, c))
      /\ c # x => Reads(t.conns[c])
  BY ONLY Good(t, x), c \in ConnIds, AtOne
<1>1. CASE t.conns[c].queued_bytes + m > UringQueue
  BY <1>1, StartClose DEF enqueueSend, Held
<1>2. CASE ~(t.conns[c].queued_bytes + m > UringQueue)
  <2> DEFINE u == enqueueSend(t, c, m)
             n == t.conns[c]
             s == t.sockets[c]
             k == t.kernel[c]
             E == Of(t.ring.cq, c)
             w == s.written
             p == QueuedConn(n, w, m)
             z == [s EXCEPT !.written = w + m]
  <2>1. u = WithWrite(t, c, m) BY <1>2 DEF enqueueSend, WithWrite
  <2>2. /\ IsState(u) /\ u.ring = t.ring /\ u.kernel = t.kernel
        /\ IsPut(t.conns, u.conns, c, p) /\ IsPut(t.sockets, u.sockets, c, z)
    BY <1>0, <2>1, WriteFields
  <2> HIDE DEF u
  <2>3. w \in Nat /\ w + m \in Nat BY <1>0 DEF UringSockets
  <2>4. /\ p \in UringConns
        /\ p.sends = Append(n.sends, NewSpan(w, m))
        /\ p.queued_bytes = n.queued_bytes + m /\ p.mem = n.mem /\ p.closing = n.closing
        /\ p.recv_active = n.recv_active /\ p.read_ended = n.read_ended /\ p.in_flight = n.in_flight
        /\ p.sending = n.sending /\ p.end_pending = n.end_pending
        /\ p.write_shutdown = n.write_shutdown
    BY <1>0, <2>3, QueuedConnIs
  <2>5. /\ z \in UringSockets /\ z.written = w + m /\ z.known = s.known /\ z.closes = s.closes /\ z.ended = s.ended
    BY <1>0, <2>3 DEF UringSockets
  <2>6. IsPut(t.kernel, u.kernel, c, k) BY <2>2 DEF IsPut
  <2>7. n \in UringConns /\ k \in UringKernels /\ s \in UringSockets /\ OneOK(n, s, k, E) BY <1>0
  <2>8. n.mem = "live" /\ ~n.closing /\ ~s.ended OBVIOUS
  <2>9. ~(n.queued_bytes + m > UringQueue) BY <1>2
  <2>10. c # x => Reads(n) BY <1>0
  <2> HIDE DEF n, s, k, E, w, p, z
  <2>11. IsLive(n, s, k, E) BY <2>7, <2>8 DEF OneOK
  <2>12. n.sends \in Seq(Span) /\ n.queued_bytes \in Nat BY <2>7 DEF UringConns
  <2>13. Queued(n, s) BY <2>11 DEF IsLive
  <2>14. /\ p.sends # <<>> /\ Follow(p.sends, w + m) /\ Under(p.sends, w + m)
         /\ p.sends[1].from = IF n.sends = <<>> THEN w + 1 ELSE n.sends[1].from
         /\ n.sends # <<>> => p.sends[1] = n.sends[1]
    <3>1. Follow(n.sends, w) /\ Under(n.sends, w) BY <2>13 DEF Queued, w
    <3> DEFINE q == n.sends
               a == Append(q, NewSpan(w, m))
    <3>2. q \in Seq(Span) /\ Follow(q, w) /\ Under(q, w) BY <2>12, <3>1
    <3> HIDE DEF q
    <3>3. /\ a # <<>> /\ Follow(a, w + m) /\ Under(a, w + m)
          /\ a[1].from = IF q = <<>> THEN w + 1 ELSE q[1].from
          /\ q # <<>> => a[1] = q[1]
      BY <2>3, <3>2, FollowAppend
    <3> QED BY <2>4, <3>3 DEF q
  <2>15. Queued(p, z)
    <3>1. n.sends # <<>> => n.sends[1].from \in Nat
      <4>1. n.sends # <<>> => n.sends[1] \in Span BY <2>12
      <4> QED BY <4>1 DEF Span
    <3>2. n.queued_bytes = IF n.sends = <<>> THEN 0 ELSE w - n.sends[1].from + 1
      BY <2>13 DEF Queued, Rest, w
    <3>3. Rest(p, z) = (w + m) - p.sends[1].from + 1 BY <2>5, <2>14 DEF Rest
    <3>4. p.queued_bytes = Rest(p, z)
      <4>1. p.queued_bytes = n.queued_bytes + m /\ w \in Nat /\ m \in Nat BY <2>3, <2>4
      <4>2. CASE n.sends = <<>>
        <5>1. p.sends[1].from = w + 1 /\ n.queued_bytes = 0 BY <2>14, <3>2, <4>2
        <5>2. (w + m) - (w + 1) + 1 = 0 + m BY <4>1
        <5> QED BY <3>3, <4>1, <5>1, <5>2
      <4>3. CASE n.sends # <<>>
        <5> DEFINE f == n.sends[1].from
        <5>1. p.sends[1].from = f /\ n.queued_bytes = w - f + 1 /\ f \in Nat BY <2>14, <3>1, <3>2, <4>3
        <5> HIDE DEF f
        <5>2. (w + m) - f + 1 = (w - f + 1) + m BY <4>1, <5>1
        <5> QED BY <3>3, <4>1, <5>1, <5>2
      <4> QED BY <4>2, <4>3
    <3>5. p.queued_bytes <= UringQueue BY <2>4, <2>9, <2>12, UringAssumption
    <3> QED BY <2>5, <2>14, <3>4, <3>5 DEF Queued
  <2>16. n.sends = <<>> => ~n.sending /\ ~Has(E, "send") /\ k.sends = {} BY <2>11 DEF IsLive, Sends
  <2>17. Sends(p, k, E) BY <2>4, <2>11, <2>14, <2>16 DEF IsLive, Sends
  <2>18. Results(p, k, E)
    <3> SUFFICES ASSUME NEW e \in E, e.tag = "send"
                 PROVE  /\ ~e.more /\ (e.res = "error" => p.closing \/ k.peer = "reset")
                        /\ e.res # "error" => e.n >= 1 /\ e.n <= p.sends[1].to - p.sends[1].from + 1
      BY DEF Results
    <3>1. p.sends[1] = n.sends[1] BY <2>14, <2>16 DEF Has
    <3> QED BY <2>4, <2>11, <3>1 DEF IsLive, Results
  <2>19. NextUnit(p, z, k, E)
    <3> SUFFICES ASSUME k.peer # "reset"
                 PROVE  /\ ~Has(E, "send") => p.sends[1].from = k.wire + 1
                        /\ \A e \in E : e.tag = "send" => p.sends[1].from + e.n = k.wire + 1
      BY <2>14 DEF NextUnit
    <3>1. NextUnit(n, s, k, E) BY <2>11 DEF IsLive
    <3>2. n.sends = <<>> => k.wire = w BY <2>8, <3>1 DEF NextUnit, w
    <3>3. n.sends # <<>> =>
            /\ ~Has(E, "send") => n.sends[1].from = k.wire + 1
            /\ \A e \in E : e.tag = "send" => n.sends[1].from + e.n = k.wire + 1
      BY <2>8, <3>1 DEF NextUnit
    <3>4. CASE n.sends = <<>> BY <2>14, <2>16, <3>2, <3>4 DEF Has
    <3>5. CASE n.sends # <<>> BY <2>14, <3>3, <3>5
    <3> QED BY <3>4, <3>5
  <2>20. ~n.write_shutdown /\ ~n.end_pending /\ ~k.fin BY <2>8, <2>11 DEF IsLive, Ended
  <2>21. Ended(p, z, k) BY <2>4, <2>20 DEF Ended
  <2>22. IsLive(p, z, k, E)
    BY <2>4, <2>5, <2>11, <2>15, <2>17, <2>18, <2>19, <2>21 DEF IsLive, Receives
  <2>23. OneOK(p, z, k, E) BY <2>4, <2>7, <2>8, <2>20, <2>22 DEF OneOK
  <2>24. c # x => Reads(p) BY <2>4, <2>10 DEF Reads
  <2>25. p.mem = t.conns[c].mem BY <2>4 DEF n
  <2>26. k \in UringKernels /\ E = Of(t.ring.cq, c) BY <2>7 DEF E
  <2>27. Leads(t, u, x) BY <2>2, <2>4, <2>5, <2>6, <2>23, <2>24, <2>25, <2>26, Moved
  <2> QED BY <2>27 DEF u
<1> QED BY <1>1, <1>2

LEMMA UringWrite ==
  ASSUME NEW t, NEW x, Good(t, x), NEW c \in ConnIds, Held(t, c), ~t.sockets[c].ended, NEW m \in Nat \ {0}
  PROVE  Leads(t, uringWrite(t, c, m), x)
<1>1. CASE t.conns[c].mem # "live" \/ t.conns[c].closing
  <2>1. uringWrite(t, c, m) = EndedState(t, c) BY <1>1 DEF uringWrite, EndedState
  <2> QED BY <2>1, EndedMoves
<1>2. CASE ~(t.conns[c].mem # "live" \/ t.conns[c].closing)
  <2> DEFINE v == enqueueSend(t, c, m)
             u == kickSend(v, c)
  <2>1. Leads(t, v, x) BY <1>2, EnqueueSend
  <2> HIDE DEF v
  <2>2. Good(v, x) /\ Held(v, c) BY <2>1, HeldOn DEF Leads
  <2>3. Leads(v, u, x) BY <2>2, KickSend
  <2> HIDE DEF u
  <2>4. Leads(t, u, x) /\ Good(u, x) /\ Held(u, c) BY <2>1, <2>2, <2>3, LeadsOn, HeldOn DEF Leads
  <2>5. Leads(u, [u EXCEPT !.sockets[c].needDrain = TRUE], x) BY <2>4, FlagMoves
  <2>6. uringWrite(t, c, m) \in {u, [u EXCEPT !.sockets[c].needDrain = TRUE]}
    BY <1>2 DEF uringWrite, u, v
  <2> QED BY <2>4, <2>5, <2>6, LeadsOn
<1> QED BY <1>1, <1>2
(* The flags of the write side. *)
FinState(t, c) == [t EXCEPT !.conns[c].write_shutdown = TRUE, !.kernel[c].fin = TRUE]
PendingState(t, c, b) == [t EXCEPT !.conns[c].end_pending = b]

LEMMA FinMoves ==
  ASSUME NEW t, NEW x, Good(t, x), NEW c \in ConnIds, t.conns[c].mem = "live", ~t.conns[c].closing,
         t.conns[c].sends = <<>>, ~t.conns[c].sending, t.sockets[c].ended
  PROVE  Leads(t, FinState(t, c), x)
<1> DEFINE u == FinState(t, c)
           n == t.conns[c]
           s == t.sockets[c]
           k == t.kernel[c]
           E == Of(t.ring.cq, c)
           p == [n EXCEPT !.write_shutdown = TRUE]
           l == [k EXCEPT !.fin = TRUE]
<1>0. /\ t \in UringStates /\ n \in UringConns /\ s \in UringSockets /\ k \in UringKernels
      /\ OneOK(n, s, k, E) /\ (c # x => Reads(n))
  BY ONLY Good(t, x), c \in ConnIds, AtOne
<1>1. IsState(u) BY <1>0 DEF FinState, IsState, UringStates
<1>2. u.ring = t.ring /\ u.sockets = t.sockets BY <1>0 DEF FinState, UringStates
<1>3. IsPut(t.conns, u.conns, c, p) BY <1>0 DEF FinState, IsPut, UringStates
<1>4. IsPut(t.kernel, u.kernel, c, l) BY <1>0 DEF FinState, IsPut, UringStates
<1>5. IsPut(t.sockets, u.sockets, c, s) BY <1>2 DEF IsPut
<1>6. p \in UringConns BY <1>0 DEF UringConns
<1>7. l \in UringKernels BY <1>0, KernelUpdates
<1>8. /\ p.mem = n.mem /\ p.closing = n.closing /\ p.recv_active = n.recv_active /\ p.sends = n.sends
      /\ p.read_ended = n.read_ended /\ p.in_flight = n.in_flight /\ p.sending = n.sending
      /\ p.queued_bytes = n.queued_bytes /\ p.write_shutdown = TRUE
      /\ l.fin = TRUE /\ l.fd = k.fd /\ l.shut = k.shut /\ l.recv = k.recv /\ l.sends = k.sends
      /\ l.peer = k.peer /\ l.wire = k.wire /\ l.gap = k.gap
  BY <1>0 DEF UringConns, UringKernels
<1>9. n.mem = "live" /\ ~n.closing /\ n.sends = <<>> /\ ~n.sending /\ s.ended OBVIOUS
<1>10. E = Of(t.ring.cq, c) /\ n.mem = t.conns[c].mem OBVIOUS
<1> HIDE DEF u, n, s, k, E, p, l
<1>11. IsLive(n, s, k, E) BY <1>0, <1>9 DEF OneOK
<1>12. k.peer # "reset" => k.wire = s.written BY <1>9, <1>11 DEF IsLive, NextUnit
<1>13. Ended(p, s, l) BY <1>8, <1>9 DEF Ended
<1>14. IsLive(p, s, l, E) BY <1>8, <1>9, <1>11, <1>13 DEF IsLive, Receives, Sends, Queued, Rest, Results, NextUnit
<1>15. OneOK(p, s, l, E) BY <1>0, <1>8, <1>9, <1>12, <1>14 DEF OneOK
<1>16. c # x => Reads(p) BY <1>0, <1>8 DEF Reads
<1>17. p.mem = t.conns[c].mem BY <1>8, <1>10
<1>18. Leads(t, u, x) BY <1>0, <1>1, <1>2, <1>3, <1>4, <1>5, <1>6, <1>7, <1>10, <1>15, <1>16, <1>17, Moved
<1> QED BY <1>18 DEF u

LEMMA PendingMoves ==
  ASSUME NEW t, NEW x, Good(t, x), NEW c \in ConnIds, t.sockets[c].ended, Held(t, c), NEW b \in BOOLEAN
  PROVE  LET u == PendingState(t, c, b) IN
         /\ Leads(t, u, x) /\ u.sockets = t.sockets
         /\ u.conns[c].mem = t.conns[c].mem /\ u.conns[c].sends = t.conns[c].sends
         /\ u.conns[c].sending = t.conns[c].sending /\ u.conns[c].closing = t.conns[c].closing
<1> DEFINE u == PendingState(t, c, b)
           n == t.conns[c]
           s == t.sockets[c]
           k == t.kernel[c]
           E == Of(t.ring.cq, c)
           p == [n EXCEPT !.end_pending = b]
<1>0. /\ t \in UringStates /\ n \in UringConns /\ s \in UringSockets /\ k \in UringKernels
      /\ OneOK(n, s, k, E) /\ (c # x => Reads(n))
  BY ONLY Good(t, x), c \in ConnIds, AtOne
<1>1. IsState(u) BY <1>0 DEF PendingState, IsState, UringStates
<1>2. u.ring = t.ring /\ u.sockets = t.sockets /\ u.kernel = t.kernel BY <1>0 DEF PendingState, UringStates
<1>3. IsPut(t.conns, u.conns, c, p) BY <1>0 DEF PendingState, IsPut, UringStates
<1>5. IsPut(t.sockets, u.sockets, c, s) /\ IsPut(t.kernel, u.kernel, c, k) BY <1>2 DEF IsPut
<1>6. p \in UringConns BY <1>0 DEF UringConns
<1>8. /\ p.mem = n.mem /\ p.closing = n.closing /\ p.recv_active = n.recv_active /\ p.sends = n.sends
      /\ p.read_ended = n.read_ended /\ p.in_flight = n.in_flight /\ p.sending = n.sending
      /\ p.queued_bytes = n.queued_bytes /\ p.write_shutdown = n.write_shutdown
  BY <1>0 DEF UringConns
<1>9. s.ended /\ n.mem \in {"live", "dead"} BY DEF Held
<1>10. E = Of(t.ring.cq, c) /\ n = t.conns[c] OBVIOUS
<1> HIDE DEF u, n, s, k, E, p
<1>14. n.mem = "live" => IsLive(p, s, k, E)
  BY <1>0, <1>8, <1>9 DEF OneOK, IsLive, Receives, Sends, Queued, Rest, Results, NextUnit, Ended
<1>15. OneOK(p, s, k, E) BY <1>0, <1>8, <1>9, <1>14 DEF OneOK, IsOver
<1>16. c # x => Reads(p) BY <1>0, <1>8 DEF Reads
<1>17. p.mem = t.conns[c].mem BY <1>8, <1>10
<1>18. Leads(t, u, x) /\ u.conns[c] = p
  BY <1>0, <1>1, <1>2, <1>3, <1>5, <1>6, <1>10, <1>15, <1>16, <1>17, Moved
<1> QED BY <1>2, <1>8, <1>10, <1>18 DEF u

LEMMA ShutdownWrite ==
  ASSUME NEW t, NEW x, Good(t, x), NEW c \in ConnIds, Held(t, c),
         t.conns[c].sends = <<>>, ~t.conns[c].sending, t.sockets[c].ended
  PROVE  Leads(t, shutdownWrite(t, c), x)
<1>1. CASE t.conns[c].write_shutdown \/ t.conns[c].closing BY <1>1, SameLeads DEF shutdownWrite
<1>2. CASE ~(t.conns[c].write_shutdown \/ t.conns[c].closing)
  <2>1. OneOK(t.conns[c], t.sockets[c], t.kernel[c], Of(t.ring.cq, c)) BY AtOne
  <2>2. t.conns[c].mem = "live" BY <1>2, <2>1 DEF Held, OneOK, IsOver
  <2> DEFINE u == FinState(t, c)
  <2>3. shutdownWrite(t, c) = closeIfDone(u, c) BY <1>2 DEF shutdownWrite, FinState
  <2>4. Leads(t, u, x) BY <1>2, <2>2, FinMoves
  <2> HIDE DEF u
  <2>5. Good(u, x) /\ Held(u, c) BY <2>4, HeldOn DEF Leads
  <2>6. Leads(u, closeIfDone(u, c), x) BY <2>5, CloseIfDone
  <2> QED BY <2>3, <2>4, <2>6, LeadsOn
<1> QED BY <1>1, <1>2

LEMMA UringEnd ==
  ASSUME NEW t, NEW x, Good(t, x), NEW c \in ConnIds, Held(t, c)
  PROVE  Leads(t, uringEnd(t, c), x)
<1> DEFINE u == EndedState(t, c)
           v == uringEnd(t, c)
<1>1. Leads(t, u, x) /\ u.conns = t.conns /\ u.sockets[c].ended BY EndedMoves
<1>2. \/ v = u
      \/ t.conns[c].sends = <<>> /\ ~t.conns[c].sending /\ v = shutdownWrite(u, c)
      \/ v = PendingState(u, c, TRUE)
  BY DEF uringEnd, EndedState, PendingState
<1> HIDE DEF u, v
<1>3. Good(u, x) /\ Held(u, c) BY <1>1, HeldOn DEF Leads
<1>4. t.conns[c].sends = <<>> /\ ~t.conns[c].sending => Leads(u, shutdownWrite(u, c), x)
  BY <1>1, <1>3, ShutdownWrite
<1>5. Leads(u, PendingState(u, c, TRUE), x) BY <1>1, <1>3, PendingMoves
<1>6. Leads(t, v, x) BY <1>1, <1>2, <1>4, <1>5, LeadsOn
<1> QED BY <1>6 DEF v

LEMMA UringDestroy ==
  ASSUME NEW t, NEW x, Good(t, x), NEW c \in ConnIds, Held(t, c)
  PROVE  Leads(t, uringDestroy(t, c), x)
<1> DEFINE u == EndedState(t, c)
           w == startClose(u, c)
           v == uringDestroy(t, c)
<1>1. Leads(t, u, x) BY EndedMoves
<1>2. v = u \/ v = finalize(w, c) BY DEF uringDestroy, EndedState
<1> HIDE DEF u, v
<1>3. Good(u, x) /\ Held(u, c) BY <1>1, HeldOn DEF Leads
<1>4. Leads(u, w, x) BY <1>3, StartClose
<1> HIDE DEF w
<1>5. Good(w, x) BY <1>4 DEF Leads
<1>6. Leads(w, finalize(w, c), x) BY <1>5, Finalize
<1>7. Leads(t, v, x) BY <1>1, <1>2, <1>4, <1>6, LeadsOn
<1> QED BY <1>7 DEF v

-----------------------------------------------------------------------------
(* What listeners do. *)

UringOps == {"write", "writeTwo", "end", "destroy"}
IsReaction(r) == r = ToNothing \/ (r.on \in ConnIds /\ r.op \in UringOps)

LEMMA OpsAre == \A t : Ops(t) \subseteq UringOps
BY DEF Ops, UringOps, Writes

LEMMA KnownHeld ==
  ASSUME NEW t, NEW x, Good(t, x), NEW c \in ConnIds, t.sockets[c].known PROVE t.conns[c].mem = "live"
<1>1. OneOK(t.conns[c], t.sockets[c], t.kernel[c], Of(t.ring.cq, c)) /\ t.conns[c] \in UringConns BY AtOne
<1>2. t.conns[c].mem # "none"
  <2>1. NewSocket.known = FALSE BY DEF NewSocket
  <2> QED BY <1>1, <2>1 DEF OneOK, IsNew
<1> QED BY <1>1, <1>2 DEF OneOK, IsOver, UringConns

LEMMA OnSocketLeads ==
  ASSUME NEW t, NEW x, Good(t, x), NEW c \in ConnIds, t.sockets[c].known, NEW op \in UringOps
  PROVE  Leads(t, OnSocket(t, c, op), x)
<1>1. Held(t, c) BY KnownHeld DEF Held
<1>2. CASE t.sockets[c].ended \/ op \notin Ops(t) BY <1>2, SameLeads DEF OnSocket
<1>3. CASE ~(t.sockets[c].ended \/ op \notin Ops(t))
  <2>1. CASE op = "end"
    <3>1. OnSocket(t, c, op) = uringEnd(t, c) BY <1>3, <2>1 DEF OnSocket, Writes
    <3> QED BY <1>1, <3>1, UringEnd
  <2>2. CASE op = "destroy"
    <3>1. OnSocket(t, c, op) = uringDestroy(t, c) BY <1>3, <2>2 DEF OnSocket, Writes
    <3> QED BY <1>1, <3>1, UringDestroy
  <2>3. CASE op \in Writes
    <3>1. op # "end" /\ op # "destroy" BY <2>3 DEF Writes
    <3>2. OnSocket(t, c, op) = uringWrite(t, c, Length(op)) BY <1>3, <2>3, <3>1 DEF OnSocket
    <3>3. Length(op) \in Nat \ {0} BY DEF Length
    <3> QED BY <1>1, <1>3, <3>2, <3>3, UringWrite
  <2> QED BY <2>1, <2>2, <2>3 DEF UringOps, Writes
<1> QED BY <1>2, <1>3

LEMMA HeardLeads ==
  ASSUME NEW t, NEW x, Good(t, x), NEW r, IsReaction(r), NEW event, event # "nothing"
  PROVE  Leads(t, Heard(t, event, r), x)
<1>1. CASE r.to # event BY <1>1, SameLeads DEF Heard
<1>2. CASE r.to = event
  <2>1. ToNothing.to = "nothing" BY DEF ToNothing
  <2>2. r.on \in ConnIds /\ r.op \in UringOps BY <1>2, <2>1 DEF IsReaction
  <2>3. Heard(t, event, r) = IF t.sockets[r.on].known THEN OnSocket(t, r.on, r.op) ELSE t
    BY <1>2 DEF Heard, Reacts, leave
  <2>4. t.sockets[r.on].known => Leads(t, OnSocket(t, r.on, r.op), x) BY <2>2, OnSocketLeads
  <2>5. Leads(t, t, x) BY SameLeads
  <2> QED BY <2>3, <2>4, <2>5
<1> QED BY <1>1, <1>2

LEMMA TellLeads ==
  ASSUME NEW t, NEW u, NEW x, Leads(t, u, x), NEW c, NEW r, IsReaction(r), NEW w
  PROVE  Leads(t, TellClose(w, u, c, r), x)
<1>1. Good(u, x) BY DEF Leads
<1>2. Leads(u, Heard(u, "close", r), x) BY <1>1, HeardLeads
<1>3. TellClose(w, u, c, r) \in {u, Heard(u, "close", r)} BY DEF TellClose
<1> QED BY <1>2, <1>3, LeadsOn

LEMMA AutoEnd ==
  ASSUME NEW t, NEW x, Good(t, x), NEW c \in ConnIds, Held(t, c), NEW r, IsReaction(r)
  PROVE  Leads(t, autoEnd(t, c, r), x)
<1>1. Leads(t, uringEnd(t, c), x) BY UringEnd
<1>2. Leads(t, TellClose(t, uringEnd(t, c), c, r), x) BY <1>1, TellLeads
<1>3. Leads(t, t, x) BY SameLeads
<1> QED BY <1>2, <1>3 DEF autoEnd

LEMMA EmitDrain ==
  ASSUME NEW t, NEW x, Good(t, x), NEW c \in ConnIds, Held(t, c), NEW r, IsReaction(r)
  PROVE  Leads(t, emitUringDrain(t, c, r), x) /\ Leads(t, emitUringEnd(t, c, r), x)
<1>1. ASSUME NEW u, Leads(t, u, x), NEW event, event # "nothing"
      PROVE  Leads(t, autoEnd(Heard(u, event, r), c, r), x)
  <2> DEFINE v == Heard(u, event, r)
  <2>1. Good(u, x) /\ Held(u, c) BY <1>1, HeldOn DEF Leads
  <2>2. Leads(u, v, x) BY <1>1, <2>1, HeardLeads
  <2> HIDE DEF v
  <2>3. Good(v, x) /\ Held(v, c) BY <2>1, <2>2, HeldOn DEF Leads
  <2>4. Leads(v, autoEnd(v, c, r), x) BY <2>3, AutoEnd
  <2>5. Leads(t, autoEnd(v, c, r), x) BY <1>1, <2>2, <2>4, LeadsOn
  <2> QED BY <2>5 DEF v
<1>2. Leads(t, [t EXCEPT !.sockets[c].needDrain = FALSE], x) /\ Leads(t, [t EXCEPT !.sockets[c].readEnded = TRUE], x)
  BY FlagMoves
<1>3. Leads(t, emitUringDrain(t, c, r), x) BY <1>1, <1>2 DEF emitUringDrain
<1>4. Leads(t, emitUringEnd(t, c, r), x) BY <1>1, <1>2 DEF emitUringEnd
<1> QED BY <1>3, <1>4
-----------------------------------------------------------------------------
(* Completions. *)

LEMMA StillHeld == \A t, c : Held(t, c) => StillThere(t, c) = t
BY DEF Held, StillThere

LEMMA Unexempt == \A t, x : Good(t, x) /\ (x \in ConnIds => Reads(t.conns[x])) => Good(t, 0)
BY DEF Good

(* A callback whose connection reads on, or no longer has to. *)
LEMMA Rearm ==
  ASSUME NEW c \in ConnIds, NEW x \in {0, c}, NEW t, Good(t, x), Held(t, c), NEW full \in BOOLEAN,
         NEW r, IsReaction(r)
  PROVE  Leads(t, Rearmed(t, c, full, r), 0)
<1>1. CASE t.conns[c].closing \/ t.conns[c].read_ended
  <2>1. Rearmed(t, c, full, r) = t BY <1>1 DEF Rearmed
  <2>2. Reads(t.conns[c]) BY <1>1 DEF Reads
  <2>3. Good(t, 0) BY <2>2, Unexempt
  <2> QED BY <2>1, <2>3, SameLeads
<1>2. CASE ~(t.conns[c].closing \/ t.conns[c].read_ended)
  <2> DEFINE u == armRecv(t, c, full)
  <2>1. Rearmed(t, c, full, r) = TellClose(t, u, c, r) BY <1>2 DEF Rearmed
  <2>2. Leads(t, u, x) /\ Reads(u.conns[c]) BY ArmRecv
  <2> HIDE DEF u
  <2>3. Leads(t, u, 0) BY <2>2, Unexempt DEF Leads
  <2> QED BY <2>1, <2>3, TellLeads
<1> QED BY <1>1, <1>2

ReadEndedState(t, c) == [t EXCEPT !.conns[c].read_ended = TRUE]

LEMMA ReadEndedMoves ==
  ASSUME NEW c \in ConnIds, NEW x \in {0, c}, NEW t, Good(t, x), Held(t, c)
  PROVE  Leads(t, ReadEndedState(t, c), 0)
<1> DEFINE u == ReadEndedState(t, c)
           n == t.conns[c]
           s == t.sockets[c]
           k == t.kernel[c]
           E == Of(t.ring.cq, c)
           p == [n EXCEPT !.read_ended = TRUE]
<1>0. /\ t \in UringStates /\ n \in UringConns /\ s \in UringSockets /\ k \in UringKernels
      /\ OneOK(n, s, k, E)
  BY ONLY Good(t, x), c \in ConnIds, AtOne
<1>1. IsState(u) BY <1>0 DEF ReadEndedState, IsState, UringStates
<1>2. u.ring = t.ring /\ u.sockets = t.sockets /\ u.kernel = t.kernel BY <1>0 DEF ReadEndedState, UringStates
<1>3. IsPut(t.conns, u.conns, c, p) BY <1>0 DEF ReadEndedState, IsPut, UringStates
<1>5. IsPut(t.sockets, u.sockets, c, s) /\ IsPut(t.kernel, u.kernel, c, k) BY <1>2 DEF IsPut
<1>6. p \in UringConns BY <1>0 DEF UringConns
<1>8. /\ p.mem = n.mem /\ p.closing = n.closing /\ p.recv_active = n.recv_active /\ p.sends = n.sends
      /\ p.read_ended = TRUE /\ p.in_flight = n.in_flight /\ p.sending = n.sending
      /\ p.queued_bytes = n.queued_bytes /\ p.write_shutdown = n.write_shutdown
      /\ p.end_pending = n.end_pending
  BY <1>0 DEF UringConns
<1>9. n.mem \in {"live", "dead"} BY DEF Held
<1>10. E = Of(t.ring.cq, c) /\ n = t.conns[c] OBVIOUS
<1> HIDE DEF u, n, s, k, E, p
<1>14. n.mem = "live" => IsLive(p, s, k, E)
  BY <1>0, <1>8, <1>9 DEF OneOK, IsLive, Receives, Sends, Queued, Rest, Results, NextUnit, Ended
<1>15. OneOK(p, s, k, E) BY <1>0, <1>8, <1>9, <1>14 DEF OneOK, IsOver
<1>16. Reads(p) BY <1>8 DEF Reads
<1>17. p.mem = t.conns[c].mem BY <1>8, <1>10
<1>18. Leads(t, u, x) /\ u.conns[c] = p
  BY <1>0, <1>1, <1>2, <1>3, <1>5, <1>6, <1>10, <1>15, <1>16, <1>17, Moved
<1>19. Leads(t, u, 0) BY <1>16, <1>18, Unexempt DEF Leads
<1> QED BY <1>19 DEF u

LEMMA ReadEndsLeads ==
  ASSUME NEW c \in ConnIds, NEW x \in {0, c}, NEW t, Good(t, x), Held(t, c), NEW r, IsReaction(r)
  PROVE  Leads(t, ReadEnds(t, c, r), 0)
<1>1. CASE t.conns[c].read_ended
  <2>1. ReadEnds(t, c, r) = t BY <1>1 DEF ReadEnds
  <2>2. Reads(t.conns[c]) BY <1>1 DEF Reads
  <2>3. Good(t, 0) BY <2>2, Unexempt
  <2> QED BY <2>1, <2>3, SameLeads
<1>2. CASE ~t.conns[c].read_ended
  <2> DEFINE u == ReadEndedState(t, c)
             e == emitUringEnd(u, c, r)
             v == IF t.conns[c].closing THEN u ELSE StillThere(e, c)
  <2>1. ReadEnds(t, c, r) = TellClose(v, closeIfDone(v, c), c, r) BY <1>2 DEF ReadEnds, ReadEndedState
  <2>2. Leads(t, u, 0) BY ReadEndedMoves
  <2> HIDE DEF u
  <2>3. Good(u, 0) /\ Held(u, c) BY <2>2, HeldOn DEF Leads
  <2>4. Leads(u, e, 0) BY <2>3, EmitDrain
  <2> HIDE DEF e
  <2>5. Held(e, c) BY <2>3, <2>4, HeldOn
  <2>6. Leads(t, v, 0) BY <2>2, <2>4, <2>5, StillHeld, LeadsOn
  <2> HIDE DEF v
  <2>7. Good(v, 0) /\ Held(v, c) BY <2>6, HeldOn DEF Leads
  <2>8. Leads(v, closeIfDone(v, c), 0) BY <2>7, CloseIfDone
  <2>9. Leads(v, TellClose(v, closeIfDone(v, c), c, r), 0) BY <2>8, TellLeads
  <2> QED BY <2>1, <2>6, <2>9, LeadsOn
<1> QED BY <1>1, <1>2

BufferBack(t) == [t EXCEPT !.ring.buffers = @ + 1]

LEMMA BuffersTyped ==
  ASSUME NEW g \in Rings
  PROVE  g.buffers \in Nat /\ g.buffers + 1 \in Nat /\ g.buffers + 0 = g.buffers
<1>1. g.buffers \in Nat BY DEF Rings
<1> QED BY <1>1

LEMMA BufferIsBack ==
  ASSUME NEW t, NEW x, Good(t, x)
  PROVE  LET u == BufferBack(t) IN
         /\ Good(u, x) /\ u.conns = t.conns
         /\ u.ring \in Rings /\ u.ring.cq = t.ring.cq /\ u.ring.accept = t.ring.accept
         /\ u.ring.up = t.ring.up /\ u.ring.buffers = t.ring.buffers + 1
<1> DEFINE u == BufferBack(t)
           b == t.ring.buffers + 1
           g == [t.ring EXCEPT !.buffers = b]
<1>1. t \in UringStates /\ t.ring \in Rings BY DEF Good, UringStates
<1>2. IsState(u) BY <1>1 DEF BufferBack, IsState, UringStates
<1>3. u.conns = t.conns /\ u.sockets = t.sockets /\ u.kernel = t.kernel BY <1>1 DEF BufferBack, UringStates
<1>4. u.ring = g BY <1>1 DEF BufferBack, UringStates
<1>5. b \in Nat BY <1>1, BuffersTyped
<1> HIDE DEF b
<1>6. g \in Rings BY <1>1, <1>5 DEF Rings
<1>7. /\ g.cq = t.ring.cq /\ g.accept = t.ring.accept /\ g.up = t.ring.up /\ g.misuse = t.ring.misuse
      /\ g.buffers = b
  BY <1>1 DEF Rings
<1> HIDE DEF u, g
<1>8. u \in UringStates BY <1>1, <1>2, <1>3, <1>4, <1>6, StateTyped DEF UringStates
<1>9. Good(u, x) BY <1>3, <1>4, <1>7, <1>8 DEF Good
<1> QED BY <1>3, <1>4, <1>6, <1>7, <1>9 DEF u, b

(* What is kept of the ring, and of which connections there are. *)
Keeps(t, u, b) ==
  /\ Good(u, 0)
  /\ u.ring.cq = t.ring.cq /\ u.ring.accept = t.ring.accept /\ u.ring.buffers = t.ring.buffers + b
  /\ \A d \in ConnIds : /\ u.conns[d].mem = "none" <=> t.conns[d].mem = "none"
                        /\ u.conns[d].mem = "freed" <=> t.conns[d].mem = "freed"

LEMMA KeepsHeld ==
  ASSUME NEW t, NEW u, NEW b, Keeps(t, u, b), NEW c \in ConnIds, Held(t, c) PROVE Held(u, c)
<1>1. u.conns[c].mem \in {"none", "live", "dead", "freed"} BY DEF Keeps, Good, UringStates, UringConns
<1> QED BY <1>1 DEF Keeps, Held

LEMMA LeadsKeeps ==
  ASSUME NEW t, NEW u, t.ring \in Rings, Leads(t, u, 0)
  PROVE  Keeps(t, u, 0)
<1>1. t.ring.buffers + 0 = t.ring.buffers BY BuffersTyped
<1> QED BY <1>1 DEF Leads, Stays, Keeps

LEMMA KeepsLeads ==
  ASSUME NEW t, NEW u, NEW v, NEW b, Keeps(t, u, b), Leads(u, v, 0)
  PROVE  Keeps(t, v, b)
BY DEF Leads, Stays, Keeps

LEMMA ReceivedKeeps ==
  ASSUME NEW cqe, cqe.id \in ConnIds, NEW x \in {0, cqe.id}, cqe.more => x = 0,
         NEW t, Good(t, x), Held(t, cqe.id), NEW full \in BOOLEAN, NEW r, IsReaction(r)
  PROVE  Keeps(t, Received(t, cqe, full, r), 1)
<1> DEFINE c == cqe.id
           h == Heard(t, "data", r)
           heard == IF t.conns[c].closing THEN t ELSE StillThere(h, c)
           u == BufferBack(heard)
           v == Received(t, cqe, full, r)
<1>1. v = IF cqe.more THEN u ELSE Rearmed(u, c, full, r) BY DEF Received, BufferBack
<1> HIDE DEF v
<1>2. Leads(t, h, x) BY HeardLeads
<1> HIDE DEF h
<1>3. Held(h, c) BY <1>2, HeldOn
<1>4. Leads(t, heard, x) BY <1>2, <1>3, StillHeld, SameLeads
<1> HIDE DEF heard
<1>5. Good(heard, x) /\ Held(heard, c) /\ heard.ring = t.ring BY <1>4, HeldOn DEF Leads, Stays
<1>6. /\ Good(u, x) /\ u.conns = heard.conns
      /\ u.ring.cq = t.ring.cq /\ u.ring.accept = t.ring.accept /\ u.ring.buffers = t.ring.buffers + 1
  BY <1>5, BufferIsBack
<1> HIDE DEF u
<1>7. Held(u, c) BY <1>5, <1>6 DEF Held
<1>8. \A d \in ConnIds : /\ u.conns[d].mem = "none" <=> t.conns[d].mem = "none"
                         /\ u.conns[d].mem = "freed" <=> t.conns[d].mem = "freed"
  BY <1>4, <1>6 DEF Leads, Stays
<1>9. CASE cqe.more
  <2>1. v = u /\ x = 0 BY <1>1, <1>9
  <2> QED BY <1>6, <1>8, <2>1 DEF Keeps, v
<1>10. CASE ~cqe.more
  <2>1. Leads(u, v, 0) BY <1>1, <1>6, <1>7, <1>10, Rearm
  <2> QED BY <1>6, <1>8, <2>1 DEF Keeps, Leads, Stays, v
<1> QED BY <1>9, <1>10
-----------------------------------------------------------------------------
(* An entry leaves the completion queue: t is the state without it, and all *)
(* is as it should be with the entry counted.                               *)
With(t, e, d) == IF d = e.id THEN Of(t.ring.cq, d) \cup {e} ELSE Of(t.ring.cq, d)
Takes(t, e) ==
  /\ t \in UringStates /\ t.ring.up /\ t.ring.misuse = {} /\ e \in Cqe
  /\ \A d \in ConnIds : /\ OneOK(t.conns[d], t.sockets[d], t.kernel[d], With(t, e, d))
                        /\ Reads(t.conns[d])
  /\ e.id # 0 /\ (e.tag = "recv" => ~e.more) => ~Has(Of(t.ring.cq, e.id), e.tag)
  /\ IsEntry(e)

LEMMA ZeroIsNone == 0 \notin ConnIds /\ \A e \in Cqe : e.id # 0 => e.id \in ConnIds
BY UringAssumption DEF ConnIds, Cqe

LEMMA AtTaken ==
  ASSUME NEW t, NEW e, Takes(t, e), e.id # 0
  PROVE  /\ e.id \in ConnIds /\ t \in UringStates /\ t.ring.up = TRUE /\ t.ring.misuse = {}
         /\ t.conns[e.id] \in UringConns /\ t.sockets[e.id] \in UringSockets
         /\ t.kernel[e.id] \in UringKernels
         /\ OneOK(t.conns[e.id], t.sockets[e.id], t.kernel[e.id], Of(t.ring.cq, e.id) \cup {e})
         /\ Of(t.ring.cq, e.id) \subseteq Cqe
         /\ Reads(t.conns[e.id])
<1>1. e.id \in ConnIds BY ZeroIsNone DEF Takes
<1> QED BY <1>1, OfTyped DEF Takes, With, UringStates

LEMMA TakenMoves ==
  ASSUME NEW t, NEW e, Takes(t, e), e.id # 0, NEW n \in UringConns, NEW s \in UringSockets,
         NEW k \in UringKernels, NEW u, IsState(u), u.ring = t.ring,
         IsPut(t.conns, u.conns, e.id, n), IsPut(t.sockets, u.sockets, e.id, s),
         IsPut(t.kernel, u.kernel, e.id, k),
         OneOK(n, s, k, Of(t.ring.cq, e.id))
  PROVE  /\ Good(u, e.id) /\ u.conns[e.id] = n /\ u.sockets[e.id] = s /\ u.kernel[e.id] = k
         /\ Reads(n) => Good(u, 0)
         /\ Agree(t, u, e.id)
<1> DEFINE c == e.id
<1>1. t \in UringStates /\ c \in ConnIds BY AtTaken
<1>2. u.conns \in [ConnIds -> UringConns] BY <1>1 DEF IsPut, UringStates
<1>3. u.sockets \in [ConnIds -> UringSockets] BY <1>1 DEF IsPut, UringStates
<1>4. u.kernel \in [ConnIds -> UringKernels] BY <1>1 DEF IsPut, UringStates
<1>5. u.ring \in Rings BY <1>1 DEF UringStates
<1>6. u \in UringStates BY <1>2, <1>3, <1>4, <1>5, StateTyped
<1>7. Agree(t, u, c) /\ u.conns[c] = n /\ u.sockets[c] = s /\ u.kernel[c] = k BY <1>1, <1>6, PutOne
<1>8. ASSUME NEW d \in ConnIds \ {c}
      PROVE  OneOK(u.conns[d], u.sockets[d], u.kernel[d], Of(u.ring.cq, d)) /\ Reads(u.conns[d])
  BY <1>7, <1>8 DEF Takes, With, Agree
<1>9. OneOK(u.conns[c], u.sockets[c], u.kernel[c], Of(u.ring.cq, c)) BY <1>7
<1>10. Good(u, c) BY <1>6, <1>8, <1>9 DEF Takes, Good
<1>11. Reads(n) => Good(u, 0) BY <1>7, <1>10, Unexempt
<1> QED BY <1>7, <1>10, <1>11

LEMMA AgreeKeeps ==
  ASSUME NEW t, NEW u, NEW c \in ConnIds, Agree(t, u, c), u.conns[c].mem = t.conns[c].mem
  PROVE  Stays(t, u)
<1>1. ASSUME NEW d \in ConnIds PROVE u.conns[d].mem = t.conns[d].mem BY DEF Agree
<1> QED BY <1>1 DEF Stays, Agree

RecvDone(t, c) == [t EXCEPT !.conns[c].recv_active = FALSE, !.conns[c].in_flight = @ - 1]
RecvDoneConn(n) == [n EXCEPT !.recv_active = FALSE, !.in_flight = n.in_flight - 1]

LEMMA RecvLive ==
  ASSUME NEW t, NEW e, Takes(t, e), e.id # 0, e.tag \in {"recv", "send"}
  PROVE  /\ t.conns[e.id].mem = "live"
         /\ IsLive(t.conns[e.id], t.sockets[e.id], t.kernel[e.id], Of(t.ring.cq, e.id) \cup {e})
<1> DEFINE n == t.conns[e.id]
           F == Of(t.ring.cq, e.id) \cup {e}
<1>1. n \in UringConns /\ OneOK(n, t.sockets[e.id], t.kernel[e.id], F) BY AtTaken
<1>2. e \in F OBVIOUS
<1> HIDE DEF F, n
<1>3. n.mem # "none" BY <1>1, <1>2 DEF OneOK, IsNew, Has
<1>4. n.mem \notin {"dead", "freed"} BY <1>1, <1>2 DEF OneOK, IsOver
<1>5. n.mem = "live" BY <1>1, <1>3, <1>4 DEF UringConns
<1> QED BY <1>1, <1>5 DEF OneOK, F, n

LEMMA RecvGoesOn ==
  ASSUME NEW t, NEW e, Takes(t, e), e.id # 0, e.tag = "recv", e.more
  PROVE  Good(t, 0) /\ Held(t, e.id)
<1> DEFINE c == e.id
           n == t.conns[c]
           s == t.sockets[c]
           k == t.kernel[c]
           E == Of(t.ring.cq, c)
           F == E \cup {e}
<1>0. /\ t \in UringStates /\ c \in ConnIds /\ n \in UringConns /\ s \in UringSockets /\ k \in UringKernels
      /\ OneOK(n, s, k, F) /\ Reads(n)
  BY ONLY Takes(t, e), e.id # 0, AtTaken
<1>1. n.mem = "live" /\ IsLive(n, s, k, F) BY ONLY Takes(t, e), e.id # 0, e.tag = "recv", RecvLive
<1>2. E \subseteq F /\ (\A f \in F : f \in E \/ f = e) /\ e \in F OBVIOUS
<1> HIDE DEF n, s, k, E, F
<1>3. /\ Has(E, "send") <=> Has(F, "send")
      /\ ~Has(F, "accept") => ~Has(E, "accept")
      /\ Has(E, "recv") => Has(F, "recv")
      /\ Final(E) <=> Final(F)
  BY <1>2 DEF Has, Final
<1>4. IsLive(n, s, k, E)
  BY <1>1, <1>2, <1>3 DEF IsLive, Receives, Sends, Queued, Rest, Results, NextUnit, Ended
<1>5. OneOK(n, s, k, E) BY <1>0, <1>1, <1>4 DEF OneOK
<1>6. \A d \in ConnIds : OneOK(t.conns[d], t.sockets[d], t.kernel[d], Of(t.ring.cq, d)) /\ Reads(t.conns[d])
  BY <1>5 DEF Takes, With, n, s, k, E
<1>7. Good(t, 0) BY <1>6 DEF Takes, Good
<1> QED BY <1>1, <1>7 DEF Held, n

LEMMA RecvDoneFields ==
  ASSUME NEW t \in UringStates, NEW c \in ConnIds
  PROVE  LET u == RecvDone(t, c) IN
         /\ IsState(u) /\ u.ring = t.ring /\ u.sockets = t.sockets /\ u.kernel = t.kernel
         /\ IsPut(t.conns, u.conns, c, RecvDoneConn(t.conns[c]))
<1> DEFINE u == RecvDone(t, c)
<1>1. IsState(u) BY DEF RecvDone, IsState, UringStates
<1>2. u.ring = t.ring /\ u.sockets = t.sockets /\ u.kernel = t.kernel BY DEF RecvDone, UringStates
<1>3. IsPut(t.conns, u.conns, c, RecvDoneConn(t.conns[c]))
  BY DEF RecvDone, RecvDoneConn, UringStates, IsPut
<1> QED BY <1>1, <1>2, <1>3

LEMMA RecvIsDone ==
  ASSUME NEW t, NEW e, Takes(t, e), e.id # 0, e.tag = "recv", ~e.more
  PROVE  LET u == RecvDone(t, e.id) IN Good(u, e.id) /\ Held(u, e.id) /\ Stays(t, u)
<1> DEFINE c == e.id
           u == RecvDone(t, c)
           n == t.conns[c]
           s == t.sockets[c]
           k == t.kernel[c]
           E == Of(t.ring.cq, c)
           F == E \cup {e}
           f == n.in_flight - 1
           p == RecvDoneConn(n)
<1>0. /\ t \in UringStates /\ c \in ConnIds /\ n \in UringConns /\ s \in UringSockets /\ k \in UringKernels
      /\ OneOK(n, s, k, F) /\ Reads(n)
  BY ONLY Takes(t, e), e.id # 0, AtTaken
<1>1. n.mem = "live" /\ IsLive(n, s, k, F) BY ONLY Takes(t, e), e.id # 0, e.tag = "recv", RecvLive
<1>2. E \subseteq F /\ (\A g \in F : g \in E \/ g = e) /\ e \in F OBVIOUS
<1>3. ~Has(E, "recv") BY DEF Takes
<1>4. /\ IsState(u) /\ u.ring = t.ring /\ u.sockets = t.sockets /\ u.kernel = t.kernel
      /\ IsPut(t.conns, u.conns, c, p)
  BY <1>0, RecvDoneFields
<1>5. IsPut(t.sockets, u.sockets, c, s) /\ IsPut(t.kernel, u.kernel, c, k) BY <1>4 DEF IsPut
<1>20. E = Of(t.ring.cq, c) /\ n = t.conns[c] OBVIOUS
<1> HIDE DEF n, s, k, E, F, u
<1>6. n.recv_active = TRUE
  <2>1. Has(F, "recv") BY <1>2 DEF Has
  <2> QED BY <1>0, <1>1, <2>1 DEF IsLive, Receives, UringConns
<1>7. f = (IF n.sending THEN 1 ELSE 0) /\ f \in 0..2
  BY <1>0, <1>1, <1>6 DEF IsLive, UringConns
<1>8. p = [n EXCEPT !.recv_active = FALSE, !.in_flight = f] BY DEF RecvDoneConn
<1> HIDE DEF f, p
<1>9. p \in UringConns
  <2>1. [n EXCEPT !.in_flight = f] \in UringConns BY <1>0, <1>7 DEF UringConns
  <2> QED BY <1>0, <1>7, <1>8, <2>1 DEF UringConns
<1>10. /\ p.mem = n.mem /\ p.closing = n.closing /\ p.recv_active = FALSE /\ p.sends = n.sends
       /\ p.read_ended = n.read_ended /\ p.in_flight = f /\ p.sending = n.sending
       /\ p.queued_bytes = n.queued_bytes /\ p.write_shutdown = n.write_shutdown
       /\ p.end_pending = n.end_pending
  BY <1>0, <1>8 DEF UringConns
<1>11. /\ Has(E, "send") <=> Has(F, "send")
       /\ ~Has(F, "accept") => ~Has(E, "accept")
       /\ ~Final(E) /\ Final(F)
  BY <1>2, <1>3 DEF Has, Final
<1>12. Receives(p, k, E) BY <1>1, <1>3, <1>10, <1>11 DEF IsLive, Receives
<1>13. Sends(p, k, E) BY <1>1, <1>10, <1>11 DEF IsLive, Sends
<1>14. IsLive(p, s, k, E)
  BY <1>1, <1>2, <1>7, <1>10, <1>11, <1>12, <1>13 DEF IsLive, Queued, Rest, Results, NextUnit, Ended
<1>15. OneOK(p, s, k, E) BY <1>0, <1>1, <1>10, <1>14 DEF OneOK
<1>16. Good(u, c) /\ u.conns[c] = p /\ Agree(t, u, c)
  BY <1>0, <1>4, <1>5, <1>9, <1>15, <1>20, TakenMoves
<1>17. u.conns[c].mem = t.conns[c].mem BY <1>10, <1>16, <1>20
<1>18. Stays(t, u) BY <1>0, <1>16, <1>17, AgreeKeeps
<1> QED BY <1>1, <1>10, <1>16, <1>18 DEF Held, u

Back(e) == IF e.tag = "recv" /\ e.res = "ok" THEN 1 ELSE 0

LEMMA OnRecv ==
  ASSUME NEW t, NEW e, Takes(t, e), e.id # 0, e.tag = "recv", NEW full \in BOOLEAN,
         NEW r, IsReaction(r)
  PROVE  Keeps(t, onRecv(t, e, full, r), Back(e))
<1> DEFINE c == e.id
           x == IF e.more THEN 0 ELSE c
           b == Back(e)
           u == IF e.more THEN t ELSE RecvDone(t, c)
           v == CASE e.res = "ok" -> Received(u, e, full, r)
                  [] e.res = "eof" -> ReadEnds(u, c, r)
                  [] e.res = "nobufs" -> Rearmed(u, c, full, r)
                  [] e.res = "error" -> TellClose(u, startClose(u, c), c, r)
           w == StillThere(v, c)
           y == onRecv(t, e, full, r)
<1>0. c \in ConnIds /\ t.ring \in Rings /\ e \in Cqe /\ t.conns[c].mem = "live"
  BY AtTaken, RecvLive DEF UringStates, Takes
<1>1. y = IF e.more THEN v ELSE TellClose(w, finalize(w, c), c, r)
  BY <1>0 DEF onRecv, RecvDone
<1>2. Good(u, x) /\ Held(u, c) /\ Stays(t, u)
  <2>1. CASE e.more
    <3>1. u = t /\ x = 0 BY <2>1
    <3> QED BY <2>1, <3>1, RecvGoesOn DEF Stays
  <2>2. CASE ~e.more
    <3>1. u = RecvDone(t, c) /\ x = c BY <2>2
    <3> QED BY <2>2, <3>1, RecvIsDone
  <2> QED BY <2>1, <2>2
<1>3. x \in {0, c} /\ (e.more => x = 0) BY <1>0
<1>4. e.res \in {"ok", "eof", "nobufs", "error"} BY <1>0 DEF Cqe
<1>5. v = IF e.res = "ok" THEN Received(u, e, full, r)
          ELSE IF e.res = "eof" THEN ReadEnds(u, c, r)
          ELSE IF e.res = "nobufs" THEN Rearmed(u, c, full, r)
          ELSE TellClose(u, startClose(u, c), c, r)
  BY <1>4
<1>6. b = IF e.res = "ok" THEN 1 ELSE 0 BY DEF Back
<1>20. u.ring = t.ring BY <1>2 DEF Stays
<1> HIDE DEF u, v, x, y, b
<1>7. Keeps(u, v, b)
  <2>1. CASE e.res = "ok"
    <3>1. Keeps(u, Received(u, e, full, r), 1) BY <1>0, <1>2, <1>3, ReceivedKeeps
    <3> QED BY <1>5, <1>6, <2>1, <3>1
  <2>2. CASE e.res = "eof"
    <3>1. Leads(u, ReadEnds(u, c, r), 0) BY <1>0, <1>2, <1>3, ReadEndsLeads
    <3> QED BY <1>0, <1>5, <1>6, <1>20, <2>2, <3>1, LeadsKeeps
  <2>3. CASE e.res = "nobufs"
    <3>1. Leads(u, Rearmed(u, c, full, r), 0) BY <1>0, <1>2, <1>3, Rearm
    <3> QED BY <1>0, <1>5, <1>6, <1>20, <2>3, <3>1, LeadsKeeps
  <2>4. CASE e.res = "error"
    <3> DEFINE a == startClose(u, c)
    <3>1. Leads(u, a, x) /\ a.conns[c].closing BY <1>0, <1>2, StartClose
    <3> HIDE DEF a
    <3>2. Reads(a.conns[c]) BY <3>1 DEF Reads
    <3>3. Leads(u, a, 0) BY <1>3, <3>1, <3>2, Unexempt DEF Leads
    <3>4. Leads(u, TellClose(u, a, c, r), 0) BY <3>3, TellLeads
    <3>5. v = TellClose(u, a, c, r) BY <1>5, <2>4 DEF a
    <3> QED BY <1>0, <1>6, <1>20, <2>4, <3>4, <3>5, LeadsKeeps
  <2> QED BY <1>4, <2>1, <2>2, <2>3, <2>4
<1>8. Held(v, c) BY <1>0, <1>2, <1>7, KeepsHeld
<1>9. w = v BY <1>8, StillHeld
<1> HIDE DEF w
<1>10. Good(v, 0) BY <1>7 DEF Keeps
<1>11. Leads(v, TellClose(v, finalize(v, c), c, r), 0) BY <1>0, <1>10, Finalize, TellLeads
<1>12. Keeps(u, y, b) BY <1>1, <1>7, <1>9, <1>11, KeepsLeads
<1>13. Keeps(t, y, b) BY <1>2, <1>12 DEF Keeps, Stays
<1> QED BY <1>13 DEF y, b
-----------------------------------------------------------------------------
(* A send's completion changes its connection field by field. *)
Put(t, u, c, p) ==
  /\ IsState(u) /\ u.ring = t.ring /\ u.sockets = t.sockets /\ u.kernel = t.kernel
  /\ IsPut(t.conns, u.conns, c, p)

LEMMA PutTyped ==
  ASSUME NEW t \in UringStates, NEW c \in ConnIds, NEW p \in UringConns, NEW u, Put(t, u, c, p)
  PROVE  u \in UringStates /\ u.conns[c] = p
<1>1. u.conns \in [ConnIds -> UringConns] /\ u.conns[c] = p BY DEF Put, IsPut, UringStates
<1>2. u.sockets = t.sockets /\ u.kernel = t.kernel /\ u.ring = t.ring /\ IsState(u) BY DEF Put
<1> QED BY <1>1, <1>2, StateTyped DEF UringStates

LEMMA PutPut ==
  ASSUME NEW t \in UringStates, NEW c \in ConnIds, NEW p \in UringConns, NEW q \in UringConns,
         NEW u, Put(t, u, c, p), NEW v, Put(u, v, c, q)
  PROVE  Put(t, v, c, q)
<1>1. IsPut(t.conns, u.conns, c, p) /\ IsPut(u.conns, v.conns, c, q) BY DEF Put
<1>2. t.conns \in [ConnIds -> UringConns] BY DEF UringStates
<1>3. IsPut(t.conns, v.conns, c, q) BY <1>1, <1>2 DEF IsPut
<1> QED BY <1>3 DEF Put

SendDone(t, c) == [t EXCEPT !.conns[c].sending = FALSE, !.conns[c].in_flight = @ - 1]
SendDoneConn(n) == [n EXCEPT !.sending = FALSE, !.in_flight = n.in_flight - 1]
CountedOff(t, c, m) == [t EXCEPT !.conns[c].queued_bytes = @ - m]
CountedConn(n, m) == [n EXCEPT !.queued_bytes = n.queued_bytes - m]
PartSent(t, c, m) == [t EXCEPT !.conns[c].sends[1].from = @ + m]
Popped(t, c) == [t EXCEPT !.conns[c].sends = Tail(@)]

LEMMA SendPuts ==
  ASSUME NEW t \in UringStates, NEW c \in ConnIds, NEW m
  PROVE  LET n == t.conns[c] IN
         /\ Put(t, SendDone(t, c), c, SendDoneConn(n))
         /\ Put(t, CountedOff(t, c, m), c, CountedConn(n, m))
         /\ Put(t, PartSent(t, c, m), c, [n EXCEPT !.sends = [n.sends EXCEPT ![1].from = @ + m]])
         /\ Put(t, Popped(t, c), c, [n EXCEPT !.sends = Tail(n.sends)])
<1> DEFINE n == t.conns[c]
<1>1. Put(t, SendDone(t, c), c, SendDoneConn(n))
  <2> DEFINE u == SendDone(t, c)
  <2>1. IsState(u) BY DEF SendDone, IsState, UringStates
  <2>2. u.ring = t.ring /\ u.sockets = t.sockets /\ u.kernel = t.kernel BY DEF SendDone, UringStates
  <2>3. IsPut(t.conns, u.conns, c, SendDoneConn(n)) BY DEF SendDone, SendDoneConn, UringStates, IsPut
  <2> QED BY <2>1, <2>2, <2>3 DEF Put
<1>2. Put(t, CountedOff(t, c, m), c, CountedConn(n, m))
  <2> DEFINE u == CountedOff(t, c, m)
  <2>1. IsState(u) BY DEF CountedOff, IsState, UringStates
  <2>2. u.ring = t.ring /\ u.sockets = t.sockets /\ u.kernel = t.kernel BY DEF CountedOff, UringStates
  <2>3. IsPut(t.conns, u.conns, c, CountedConn(n, m)) BY DEF CountedOff, CountedConn, UringStates, IsPut
  <2> QED BY <2>1, <2>2, <2>3 DEF Put
<1>3. Put(t, PartSent(t, c, m), c, [n EXCEPT !.sends = [n.sends EXCEPT ![1].from = @ + m]])
  <2> DEFINE u == PartSent(t, c, m)
  <2>1. IsState(u) BY DEF PartSent, IsState, UringStates
  <2>2. u.ring = t.ring /\ u.sockets = t.sockets /\ u.kernel = t.kernel BY DEF PartSent, UringStates
  <2>3. IsPut(t.conns, u.conns, c, [n EXCEPT !.sends = [n.sends EXCEPT ![1].from = @ + m]])
    BY DEF PartSent, UringStates, IsPut
  <2> QED BY <2>1, <2>2, <2>3 DEF Put
<1>4. Put(t, Popped(t, c), c, [n EXCEPT !.sends = Tail(n.sends)])
  <2> DEFINE u == Popped(t, c)
  <2>1. IsState(u) BY DEF Popped, IsState, UringStates
  <2>2. u.ring = t.ring /\ u.sockets = t.sockets /\ u.kernel = t.kernel BY DEF Popped, UringStates
  <2>3. IsPut(t.conns, u.conns, c, [n EXCEPT !.sends = Tail(n.sends)]) BY DEF Popped, UringStates, IsPut
  <2> QED BY <2>1, <2>2, <2>3 DEF Put
<1> QED BY <1>1, <1>2, <1>3, <1>4

(* What it leaves of the connection: m units counted off, the queue q. *)
SentConn(n, m, q) ==
  [n EXCEPT !.sending = FALSE, !.in_flight = n.in_flight - 1, !.queued_bytes = n.queued_bytes - m,
            !.sends = q]

IsSent(n, m, q, p) ==
  /\ p \in UringConns
  /\ p.sending = FALSE /\ p.in_flight = n.in_flight - 1 /\ p.queued_bytes = n.queued_bytes - m
  /\ p.sends = q /\ p.mem = n.mem /\ p.closing = n.closing /\ p.recv_active = n.recv_active
  /\ p.read_ended = n.read_ended /\ p.end_pending = n.end_pending
  /\ p.write_shutdown = n.write_shutdown

LEMMA SentConnIs ==
  ASSUME NEW n \in UringConns, n.in_flight >= 1, NEW m \in Nat, m <= n.queued_bytes,
         NEW q \in Seq(Span)
  PROVE  LET p == SentConn(n, m, q) IN
         /\ IsSent(n, m, q, p)
         /\ SendDoneConn(n) \in UringConns /\ SendDoneConn(n).queued_bytes = n.queued_bytes
         /\ SendDoneConn(n).sends = n.sends
         /\ CountedConn(SendDoneConn(n), m) \in UringConns
         /\ CountedConn(SendDoneConn(n), m).sends = n.sends
         /\ [CountedConn(SendDoneConn(n), m) EXCEPT !.sends = q] = p
<1> DEFINE f == n.in_flight - 1
           b == n.queued_bytes - m
           d == [n EXCEPT !.sending = FALSE, !.in_flight = f]
           k == [d EXCEPT !.queued_bytes = b]
           p == [n EXCEPT !.sending = FALSE, !.in_flight = f, !.queued_bytes = b, !.sends = q]
<1>1. f \in 0..2
  <2>1. n.in_flight \in 0..2 BY DEF UringConns
  <2> QED BY <2>1
<1>2. b \in Nat
  <2>1. n.queued_bytes \in Nat BY DEF UringConns
  <2> QED BY <2>1
<1>3. d = SendDoneConn(n) /\ p = SentConn(n, m, q) BY DEF SendDoneConn, SentConn
<1> HIDE DEF f, b
<1>4. d \in UringConns
  <2>1. [n EXCEPT !.sending = FALSE] \in UringConns BY DEF UringConns
  <2> QED BY <1>1, <2>1 DEF UringConns
<1>5. d.queued_bytes = n.queued_bytes /\ d.sends = n.sends BY DEF UringConns
<1>6. k \in UringConns BY <1>2, <1>4 DEF UringConns
<1>7. k.sends = n.sends BY DEF UringConns
<1>8. k = CountedConn(d, m) BY <1>5 DEF CountedConn, b
<1>9. [k EXCEPT !.sends = q] = p BY DEF UringConns
<1>10. p \in UringConns BY <1>6, <1>9 DEF UringConns
<1>11. /\ p.sending = FALSE /\ p.in_flight = f /\ p.queued_bytes = b
       /\ p.sends = q /\ p.mem = n.mem /\ p.closing = n.closing /\ p.recv_active = n.recv_active
       /\ p.read_ended = n.read_ended /\ p.end_pending = n.end_pending
       /\ p.write_shutdown = n.write_shutdown
  BY DEF UringConns
<1>12. IsSent(n, m, q, p) BY <1>10, <1>11 DEF IsSent, f, b
<1> QED BY <1>3, <1>4, <1>5, <1>6, <1>7, <1>8, <1>9, <1>12

(* The queue q left is in order and begins where the peer is to go on. *)
LEMMA SentOK ==
  ASSUME NEW t, NEW e, Takes(t, e), e.id # 0, e.tag = "send", NEW m \in Nat, NEW q \in Seq(Span),
         LET n == t.conns[e.id]
             s == t.sockets[e.id]
             k == t.kernel[e.id]
         IN /\ m <= n.queued_bytes
            /\ Follow(q, s.written) /\ Under(q, s.written)
            /\ n.queued_bytes - m = IF q = <<>> THEN 0 ELSE s.written - q[1].from + 1
            /\ ~n.closing /\ k.peer # "reset" =>
                 /\ q = <<>> => k.wire = s.written
                 /\ q # <<>> => q[1].from = k.wire + 1,
         NEW u, Put(t, u, e.id, SentConn(t.conns[e.id], m, q))
  PROVE  Good(u, 0) /\ Held(u, e.id) /\ Stays(t, u)
<1> DEFINE c == e.id
           n == t.conns[c]
           s == t.sockets[c]
           k == t.kernel[c]
           E == Of(t.ring.cq, c)
           F == E \cup {e}
           p == SentConn(n, m, q)
<1>0. /\ t \in UringStates /\ c \in ConnIds /\ n \in UringConns /\ s \in UringSockets /\ k \in UringKernels
      /\ OneOK(n, s, k, F) /\ Reads(n)
  BY ONLY Takes(t, e), e.id # 0, AtTaken
<1>1. n.mem = "live" /\ IsLive(n, s, k, F) BY ONLY Takes(t, e), e.id # 0, e.tag = "send", RecvLive
<1>2. E \subseteq F /\ (\A g \in F : g \in E \/ g = e) /\ e \in F OBVIOUS
<1>3. ~Has(E, "send") BY DEF Takes
<1>4. /\ IsState(u) /\ u.ring = t.ring /\ u.sockets = t.sockets /\ u.kernel = t.kernel
      /\ IsPut(t.conns, u.conns, c, p)
  BY DEF Put
<1>5. IsPut(t.sockets, u.sockets, c, s) /\ IsPut(t.kernel, u.kernel, c, k) BY <1>4 DEF IsPut
<1>6. /\ m <= n.queued_bytes
      /\ Follow(q, s.written) /\ Under(q, s.written)
      /\ n.queued_bytes - m = IF q = <<>> THEN 0 ELSE s.written - q[1].from + 1
      /\ ~n.closing /\ k.peer # "reset" =>
           /\ q = <<>> => k.wire = s.written
           /\ q # <<>> => q[1].from = k.wire + 1
  OBVIOUS
<1>20. E = Of(t.ring.cq, c) /\ n = t.conns[c] OBVIOUS
<1> HIDE DEF n, s, k, E, F, p
<1>7. n.sending /\ k.sends = {} /\ n.sends # <<>>
  <2>1. Has(F, "send") BY <1>2 DEF Has
  <2> QED BY <1>1, <2>1 DEF IsLive, Sends
<1>8. n.in_flight >= 1 /\ n.in_flight - 1 = IF n.recv_active THEN 1 ELSE 0
  BY <1>0, <1>1, <1>7 DEF IsLive, UringConns
<1>9. /\ p \in UringConns
      /\ p.sending = FALSE /\ p.in_flight = n.in_flight - 1 /\ p.queued_bytes = n.queued_bytes - m
      /\ p.sends = q /\ p.mem = n.mem /\ p.closing = n.closing /\ p.recv_active = n.recv_active
      /\ p.read_ended = n.read_ended /\ p.end_pending = n.end_pending
      /\ p.write_shutdown = n.write_shutdown
  <2>1. n \in UringConns /\ n.in_flight >= 1 /\ m \in Nat /\ m <= n.queued_bytes /\ q \in Seq(Span)
    BY <1>0, <1>6, <1>8
  <2>2. p = SentConn(n, m, q) BY DEF p
  <2>3. IsSent(n, m, q, SentConn(n, m, q)) BY ONLY <2>1, SentConnIs
  <2> QED BY <2>2, <2>3 DEF IsSent
<1>10. /\ Has(E, "recv") <=> Has(F, "recv")
       /\ ~Has(F, "accept") => ~Has(E, "accept")
       /\ Final(E) <=> Final(F)
  BY <1>2 DEF Has, Final
<1>11. Receives(p, k, E) BY <1>1, <1>9, <1>10 DEF IsLive, Receives
<1>12. Sends(p, k, E) BY <1>3, <1>7, <1>9 DEF Sends
<1>13. Queued(p, s)
  <2>1. p.queued_bytes = Rest(p, s) BY <1>6, <1>9 DEF Rest
  <2>2. n.queued_bytes <= UringQueue /\ n.queued_bytes \in Nat BY <1>0, <1>1 DEF IsLive, Queued, UringConns
  <2>3. p.queued_bytes <= UringQueue BY <1>9, <2>2, UringAssumption
  <2> QED BY <1>6, <1>9, <2>1, <2>3 DEF Queued
<1>14. Results(p, k, E) BY <1>3 DEF Results, Has
<1>15. NextUnit(p, s, k, E) BY <1>3, <1>6, <1>9 DEF NextUnit, Has
<1>16. Ended(p, s, k) BY <1>1, <1>7, <1>9 DEF IsLive, Ended
<1>17. IsLive(p, s, k, E)
  BY <1>1, <1>8, <1>9, <1>10, <1>11, <1>12, <1>13, <1>14, <1>15, <1>16 DEF IsLive
<1>18. OneOK(p, s, k, E) BY <1>0, <1>1, <1>9, <1>17 DEF OneOK
<1>19. Reads(p) BY <1>0, <1>9 DEF Reads
<1>21. Good(u, 0) /\ u.conns[c] = p /\ Agree(t, u, c)
  BY <1>0, <1>4, <1>5, <1>9, <1>18, <1>19, <1>20, TakenMoves
<1>22. u.conns[c].mem = t.conns[c].mem BY <1>9, <1>20, <1>21
<1>23. Stays(t, u) BY <1>0, <1>21, <1>22, AgreeKeeps
<1> QED BY <1>1, <1>9, <1>21, <1>23 DEF Held

LEMMA CountedPuts ==
  ASSUME NEW t \in UringStates, NEW c \in ConnIds, t.conns[c].in_flight >= 1, NEW m \in Nat,
         m <= t.conns[c].queued_bytes
  PROVE  LET n == t.conns[c]
             v == CountedOff(SendDone(t, c), c, m)
             q == [n.sends EXCEPT ![1].from = @ + m]
         IN /\ q \in Seq(Span) => Put(t, PartSent(v, c, m), c, SentConn(n, m, q))
            /\ Tail(n.sends) \in Seq(Span) => Put(t, Popped(v, c), c, SentConn(n, m, Tail(n.sends)))
<1> DEFINE n == t.conns[c]
           u == SendDone(t, c)
           v == CountedOff(u, c, m)
           q == [n.sends EXCEPT ![1].from = @ + m]
           a == SendDoneConn(n)
           b == CountedConn(a, m)
<1>0. n \in UringConns /\ n.sends \in Seq(Span) BY DEF UringStates, UringConns
<1>30. n.in_flight >= 1 /\ m \in Nat /\ m <= n.queued_bytes OBVIOUS
<1>31. ASSUME NEW l \in Seq(Span)
       PROVE  /\ [b EXCEPT !.sends = l] = SentConn(n, m, l) /\ SentConn(n, m, l) \in UringConns
              /\ a \in UringConns /\ b \in UringConns /\ b.sends = n.sends
  <2> HIDE DEF n
  <2>1. IsSent(n, m, l, SentConn(n, m, l)) BY ONLY <1>0, <1>30, l \in Seq(Span), SentConnIs
  <2>2. /\ [b EXCEPT !.sends = l] = SentConn(n, m, l)
        /\ a \in UringConns /\ b \in UringConns /\ b.sends = n.sends
    BY ONLY <1>0, <1>30, l \in Seq(Span), SentConnIs
  <2> QED BY <2>1, <2>2 DEF IsSent
<1>1. \A l \in Seq(Span) : /\ [b EXCEPT !.sends = l] = SentConn(n, m, l)
                           /\ SentConn(n, m, l) \in UringConns
  BY <1>31
<1>2. a \in UringConns /\ b \in UringConns /\ b.sends = n.sends BY <1>0, <1>31
<1>3. Put(t, u, c, a) BY SendPuts
<1>20. n = t.conns[c] OBVIOUS
<1> HIDE DEF n, u, a, b
<1>4. u \in UringStates /\ u.conns[c] = a BY <1>2, <1>3, PutTyped
<1>5. Put(u, v, c, b) BY <1>4, SendPuts DEF b
<1> HIDE DEF v
<1>6. v \in UringStates /\ v.conns[c] = b BY <1>2, <1>4, <1>5, PutTyped
<1>7. Put(t, v, c, b) BY <1>2, <1>3, <1>5, PutPut
<1>8. Put(v, PartSent(v, c, m), c, [b EXCEPT !.sends = [b.sends EXCEPT ![1].from = @ + m]])
  BY <1>6, SendPuts
<1>9. Put(v, Popped(v, c), c, [b EXCEPT !.sends = Tail(b.sends)]) BY <1>6, SendPuts
<1>10. b.sends = n.sends BY <1>2
<1>11. Put(v, PartSent(v, c, m), c, [b EXCEPT !.sends = q]) BY <1>8, <1>10
<1>12. Put(v, Popped(v, c), c, [b EXCEPT !.sends = Tail(n.sends)]) BY <1>9, <1>10
<1> HIDE DEF q
<1>13. q \in Seq(Span) => Put(t, PartSent(v, c, m), c, SentConn(n, m, q))
  BY <1>1, <1>2, <1>7, <1>11, PutPut
<1> DEFINE l == Tail(n.sends)
<1> HIDE DEF l
<1>14. l \in Seq(Span) => Put(t, Popped(v, c), c, SentConn(n, m, l))
  <2>1. Put(v, Popped(v, c), c, [b EXCEPT !.sends = l]) BY <1>12 DEF l
  <2> QED BY <1>1, <1>2, <1>7, <2>1, PutPut
<1> QED BY <1>13, <1>14 DEF l, q, v, u, n

(* What a send's entry says of the head of the queue. *)
LEMMA SendFacts ==
  ASSUME NEW t, NEW e, Takes(t, e), e.id # 0, e.tag = "send"
  PROVE  LET n == t.conns[e.id]
             s == t.sockets[e.id]
             k == t.kernel[e.id]
             left == n.sends[1].to - n.sends[1].from + 1
         IN /\ n.in_flight >= 1 /\ n.sends \in Seq(Span) /\ n.sends # <<>> /\ s.written \in Nat
            /\ Follow(n.sends, s.written) /\ Under(n.sends, s.written)
            /\ n.queued_bytes = s.written - n.sends[1].from + 1
            /\ e.res = "error" => n.closing \/ k.peer = "reset"
            /\ e.res # "error" =>
                 /\ e.n \in Nat /\ e.n >= 1 /\ e.n <= left
                 /\ ~n.closing /\ k.peer # "reset" => n.sends[1].from + e.n = k.wire + 1
            /\ k.wire \in Nat
<1> DEFINE c == e.id
           n == t.conns[c]
           s == t.sockets[c]
           k == t.kernel[c]
           E == Of(t.ring.cq, c)
           F == E \cup {e}
<1>0. /\ n \in UringConns /\ s \in UringSockets /\ k \in UringKernels
  BY ONLY Takes(t, e), e.id # 0, AtTaken
<1>1. IsLive(n, s, k, F) BY ONLY Takes(t, e), e.id # 0, e.tag = "send", RecvLive
<1>2. e \in F /\ e \in Cqe BY DEF Takes
<1> HIDE DEF n, s, k, E, F
<1>3. n.sending /\ n.sends # <<>>
  <2>1. Has(F, "send") BY <1>2 DEF Has
  <2> QED BY <1>1, <2>1 DEF IsLive, Sends
<1>4. n.in_flight >= 1 BY <1>0, <1>1, <1>3 DEF IsLive, UringConns
<1>5. n.sends \in Seq(Span) /\ s.written \in Nat /\ k.wire \in Nat /\ e.n \in Nat
  BY <1>0, <1>2 DEF UringConns, UringSockets, UringKernels, Cqe
<1>6. /\ Follow(n.sends, s.written) /\ Under(n.sends, s.written)
      /\ n.queued_bytes = s.written - n.sends[1].from + 1
  BY <1>1, <1>3 DEF IsLive, Queued, Rest
<1>7. /\ e.res = "error" => n.closing \/ k.peer = "reset"
      /\ e.res # "error" => e.n >= 1 /\ e.n <= n.sends[1].to - n.sends[1].from + 1
  BY <1>1, <1>2 DEF IsLive, Results
<1>8. ~n.closing /\ k.peer # "reset" => n.sends[1].from + e.n = k.wire + 1
  BY <1>1, <1>2, <1>3 DEF IsLive, NextUnit
<1> QED BY <1>3, <1>4, <1>5, <1>6, <1>7, <1>8 DEF n, s, k

LEMMA SentPart ==
  ASSUME NEW t, NEW e, Takes(t, e), e.id # 0, e.tag = "send", e.res # "error",
         e.n < t.conns[e.id].sends[1].to - t.conns[e.id].sends[1].from + 1
  PROVE  LET u == PartSent(CountedOff(SendDone(t, e.id), e.id, e.n), e.id, e.n) IN
         Good(u, 0) /\ Held(u, e.id) /\ Stays(t, u)
<1> DEFINE c == e.id
           n == t.conns[c]
           l == n.sends
           w == t.sockets[c].written
           k == t.kernel[c]
           m == e.n
           f == l[1].from
           q == [l EXCEPT ![1].from = @ + m]
           u == PartSent(CountedOff(SendDone(t, c), c, m), c, m)
<1>0. c \in ConnIds /\ t \in UringStates BY AtTaken
<1>1. /\ n.in_flight >= 1 /\ l \in Seq(Span) /\ l # <<>> /\ w \in Nat
      /\ Follow(l, w) /\ Under(l, w)
      /\ n.queued_bytes = w - f + 1
      /\ m \in Nat /\ m >= 1
      /\ ~n.closing /\ k.peer # "reset" => f + m = k.wire + 1
  BY SendFacts
<1>2. m < l[1].to - f + 1 OBVIOUS
<1>20. n = t.conns[c] /\ k = t.kernel[c] /\ w = t.sockets[c].written /\ l = n.sends OBVIOUS
<1> HIDE DEF n, k, w, l, m
<1>3. l[1] \in Span /\ l[1].to <= w BY <1>1, FollowTail
<1>4. f \in Nat /\ l[1].to \in Nat BY <1>3 DEF Span
<1>5. f + m <= l[1].to BY <1>1, <1>2, <1>4
<1>6. q \in Seq(Span) /\ q # <<>> /\ Follow(q, w) /\ Under(q, w) /\ q[1].from = f + m
  BY <1>1, <1>5, FollowPart
<1> HIDE DEF q, f
<1>7. m <= n.queued_bytes BY <1>1, <1>3, <1>4, <1>5
<1>8. n.queued_bytes - m = w - q[1].from + 1 BY <1>1, <1>4, <1>6
<1>9. ~n.closing /\ k.peer # "reset" => q[1].from = k.wire + 1 BY <1>1, <1>6
<1>10. Put(t, u, c, SentConn(n, m, q)) BY <1>0, <1>1, <1>6, <1>7, <1>20, CountedPuts DEF q
<1> HIDE DEF u
<1>11. Good(u, 0) /\ Held(u, c) /\ Stays(t, u)
  BY <1>1, <1>6, <1>7, <1>8, <1>9, <1>10, <1>20, SentOK
<1> QED BY <1>11 DEF u, m

LEMMA SentWhole ==
  ASSUME NEW t, NEW e, Takes(t, e), e.id # 0, e.tag = "send",
         NEW m, m = t.conns[e.id].sends[1].to - t.conns[e.id].sends[1].from + 1,
         e.res # "error" => m = e.n
  PROVE  LET u == Popped(CountedOff(SendDone(t, e.id), e.id, m), e.id) IN
         Good(u, 0) /\ Held(u, e.id) /\ Stays(t, u)
<1> DEFINE c == e.id
           n == t.conns[c]
           l == n.sends
           w == t.sockets[c].written
           k == t.kernel[c]
           f == l[1].from
           q == Tail(l)
           u == Popped(CountedOff(SendDone(t, c), c, m), c)
<1>0. c \in ConnIds /\ t \in UringStates BY AtTaken
<1>1. /\ n.in_flight >= 1 /\ l \in Seq(Span) /\ l # <<>> /\ w \in Nat
      /\ Follow(l, w) /\ Under(l, w)
      /\ n.queued_bytes = w - f + 1
      /\ e.res = "error" => n.closing \/ k.peer = "reset"
      /\ e.res # "error" /\ ~n.closing /\ k.peer # "reset" => f + e.n = k.wire + 1
      /\ k.wire \in Nat
  BY SendFacts
<1>2. m = l[1].to - f + 1 OBVIOUS
<1>20. n = t.conns[c] /\ k = t.kernel[c] /\ w = t.sockets[c].written /\ l = n.sends OBVIOUS
<1> HIDE DEF n, k, w, l
<1>3. /\ q \in Seq(Span) /\ Follow(q, w) /\ Under(q, w)
      /\ l[1] \in Span /\ f <= l[1].to /\ l[1].to <= w
      /\ q = <<>> => l[1].to = w
      /\ q # <<>> => q[1].from = l[1].to + 1
  BY <1>1, FollowTail
<1>4. f \in Nat /\ l[1].to \in Nat BY <1>3 DEF Span
<1> DEFINE g == l[1].to
<1>6. f \in Nat /\ g \in Nat /\ f <= g /\ g <= w /\ m = g - f + 1 BY <1>2, <1>3, <1>4
<1> HIDE DEF q, f, g
<1>5. m \in Nat /\ m >= 1 BY <1>6
<1>7. m <= n.queued_bytes BY <1>1, <1>6
<1>8. n.queued_bytes - m = IF q = <<>> THEN 0 ELSE w - q[1].from + 1
  <2>1. n.queued_bytes - m = w - l[1].to
    <3>1. (w - f + 1) - (g - f + 1) = w - g BY <1>1, <1>6
    <3> QED BY <1>1, <1>6, <3>1 DEF g
  <2>2. CASE q = <<>> BY <1>1, <1>3, <2>1, <2>2
  <2>3. CASE q # <<>>
    <3>1. w - q[1].from + 1 = w - l[1].to BY <1>1, <1>3, <1>4, <2>3
    <3> QED BY <2>1, <2>3, <3>1
  <2> QED BY <2>2, <2>3
<1>9. ~n.closing /\ k.peer # "reset" =>
        /\ q = <<>> => k.wire = w
        /\ q # <<>> => q[1].from = k.wire + 1
  <2> SUFFICES ASSUME ~n.closing, k.peer # "reset" PROVE k.wire = l[1].to
    BY <1>3
  <2>1. f + m = k.wire + 1 BY <1>1
  <2>2. f + (g - f + 1) = k.wire + 1 BY <1>1, <1>6, <2>1
  <2>3. g = k.wire BY <1>1, <1>6, <2>2
  <2> QED BY <2>3 DEF g
<1>10. Put(t, u, c, SentConn(n, m, q)) BY <1>0, <1>1, <1>3, <1>5, <1>7, <1>20, CountedPuts DEF q
<1> HIDE DEF u
<1>11. Good(u, 0) /\ Held(u, c) /\ Stays(t, u)
  BY <1>1, <1>3, <1>5, <1>7, <1>8, <1>9, <1>10, <1>20, SentOK
<1> QED BY <1>11 DEF u

LEMMA NextSendLeads ==
  ASSUME NEW c \in ConnIds, NEW v, NEW p, p = Popped(v, c), Good(p, 0), Held(p, c),
         NEW r, IsReaction(r)
  PROVE  Leads(p, NextSend(v, c, r), 0)
<1> DEFINE u == kickSend(p, c)
           a == PendingState(u, c, FALSE)
           d == IF u.conns[c].end_pending /\ ~u.conns[c].closing
                THEN TellClose(u, shutdownWrite(a, c), c, r) ELSE u
           z == NextSend(v, c, r)
<1>1. z = IF u.conns[c].sends # <<>> \/ u.conns[c].sending THEN u
          ELSE IF d.conns[c].closing THEN d ELSE StillThere(emitUringDrain(d, c, r), c)
  BY DEF NextSend, Popped, PendingState
<1>2. Leads(p, u, 0) BY KickSend
<1> HIDE DEF u, z
<1>3. Good(u, 0) /\ Held(u, c) BY <1>2, HeldOn DEF Leads
<1>4. CASE u.conns[c].sends # <<>> \/ u.conns[c].sending
  <2>1. z = u BY <1>1, <1>4
  <2> QED BY <1>2, <2>1 DEF z
<1>5. CASE ~(u.conns[c].sends # <<>> \/ u.conns[c].sending)
  <2>1. Leads(u, d, 0)
    <3>1. CASE u.conns[c].end_pending /\ ~u.conns[c].closing
      <4>1. OneOK(u.conns[c], u.sockets[c], u.kernel[c], Of(u.ring.cq, c)) BY <1>3, AtOne
      <4>2. u.sockets[c].ended BY <1>3, <3>1, <4>1 DEF Held, OneOK, IsLive, IsOver, Ended
      <4>3. /\ Leads(u, a, 0) /\ a.sockets = u.sockets /\ a.conns[c].sends = u.conns[c].sends
            /\ a.conns[c].sending = u.conns[c].sending
        BY <1>3, <4>2, PendingMoves
      <4> HIDE DEF a
      <4>4. Good(a, 0) /\ Held(a, c) BY <1>3, <4>3, HeldOn DEF Leads
      <4>5. Leads(a, shutdownWrite(a, c), 0) BY <1>5, <4>2, <4>3, <4>4, ShutdownWrite
      <4>6. Leads(u, shutdownWrite(a, c), 0) BY <4>3, <4>5, LeadsOn
      <4>7. Leads(u, TellClose(u, shutdownWrite(a, c), c, r), 0) BY <4>6, TellLeads
      <4> QED BY <3>1, <4>7 DEF a
    <3>2. CASE ~(u.conns[c].end_pending /\ ~u.conns[c].closing) BY <1>3, <3>2, SameLeads
    <3> QED BY <3>1, <3>2
  <2> HIDE DEF d
  <2>2. Good(d, 0) /\ Held(d, c) BY <1>3, <2>1, HeldOn DEF Leads
  <2> DEFINE y == emitUringDrain(d, c, r)
  <2>3. Leads(d, y, 0) BY <2>2, EmitDrain
  <2> HIDE DEF y
  <2>4. Held(y, c) BY <2>2, <2>3, HeldOn
  <2>5. StillThere(y, c) = y BY <2>4, StillHeld
  <2>6. z = d \/ z = y BY <1>1, <1>5, <2>5 DEF y
  <2>7. Leads(d, z, 0) BY <2>2, <2>3, <2>6, SameLeads
  <2> QED BY <1>2, <2>1, <2>7, LeadsOn DEF z
<1> QED BY <1>4, <1>5

LEMMA OnSend ==
  ASSUME NEW t, NEW e, Takes(t, e), e.id # 0, e.tag = "send", NEW r, IsReaction(r)
  PROVE  Keeps(t, onSend(t, e, r), Back(e))
<1> DEFINE c == e.id
           l == t.conns[c].sends
           left == l[1].to - l[1].from + 1
           m == IF e.res = "error" THEN left ELSE e.n
           v == CountedOff(SendDone(t, c), c, m)
           w == IF e.res # "error" /\ m < left THEN kickSend(PartSent(v, c, m), c) ELSE NextSend(v, c, r)
           y == onSend(t, e, r)
<1>20. c \in ConnIds /\ t \in UringStates BY AtTaken
<1>21. t.conns[c].mem = "live" BY RecvLive
<1>0. c \in ConnIds /\ t.ring \in Rings /\ t.conns[c].mem = "live" BY <1>20, <1>21 DEF UringStates
<1>1. l \in Seq(Span) /\ l # <<>> BY SendFacts
<1>2. e.res # "error" => e.n \in Nat /\ e.n <= left BY SendFacts
<1>3. l[1] = Head(l) BY <1>1
<1>4. y = TellClose(w, finalize(w, c), c, r)
  <2> DEFINE head == Head(l)
             rest == head.to - head.from + 1
             n == IF e.res = "error" THEN rest ELSE e.n
             q == CountedOff(SendDone(t, c), c, n)
             x == IF e.res # "error" /\ n < rest THEN kickSend(PartSent(q, c, n), c) ELSE NextSend(q, c, r)
  <2>1. y = IF t.conns[c].mem # "live" THEN t
            ELSE IF l = <<>> THEN SendDone(t, c)
            ELSE TellClose(x, finalize(x, c), c, r)
    BY Zenon DEF onSend, CountedOff, SendDone, PartSent
  <2>2. rest = left BY <1>3
  <2> HIDE DEF rest
  <2>3. n = m BY <2>2
  <2> HIDE DEF n, m, left
  <2>4. x = w BY <2>2, <2>3
  <2> HIDE DEF x, w
  <2> QED BY <2>1, <2>4, <1>0, <1>1
<1>5. left \in Int
  <2>1. l[1] \in Span BY <1>1
  <2>2. l[1].to \in Int /\ l[1].from \in Int BY <2>1 DEF Span
  <2> QED BY <2>2
<1> HIDE DEF y
<1>6. Leads(t, w, 0)
  <2>1. CASE e.res # "error" /\ m < left
    <3> DEFINE u == PartSent(v, c, m)
    <3>1. m = e.n /\ e.n < left BY <2>1
    <3>2. w = kickSend(u, c) BY <2>1
    <3>3. Good(u, 0) /\ Held(u, c) /\ Stays(t, u) BY <2>1, <3>1, SentPart
    <3> HIDE DEF u, w
    <3>4. Leads(u, w, 0) BY <1>0, <3>2, <3>3, KickSend
    <3> QED BY <3>3, <3>4 DEF Leads, Stays, w
  <2>2. CASE ~(e.res # "error" /\ m < left)
    <3> DEFINE u == Popped(v, c)
    <3>1. m = left /\ (e.res # "error" => m = e.n) BY <1>2, <1>5, <2>2
    <3>2. w = NextSend(v, c, r) BY <2>2
    <3>3. Good(u, 0) /\ Held(u, c) /\ Stays(t, u) BY <3>1, SentWhole
    <3>5. u = Popped(v, c) OBVIOUS
    <3> HIDE DEF u, w, v
    <3>4. Leads(u, w, 0) BY <1>0, <3>2, <3>3, <3>5, NextSendLeads
    <3> QED BY <3>3, <3>4 DEF Leads, Stays, w
  <2> QED BY <2>1, <2>2
<1> HIDE DEF w
<1>7. Good(w, 0) BY <1>6 DEF Leads
<1>8. Leads(w, TellClose(w, finalize(w, c), c, r), 0) BY <1>0, <1>7, Finalize, TellLeads
<1>9. Leads(t, y, 0) BY <1>4, <1>6, <1>8, LeadsOn
<1>10. Back(e) = 0 BY DEF Back
<1> QED BY <1>0, <1>9, <1>10, LeadsKeeps DEF y
-----------------------------------------------------------------------------
(* A connection is handed to the server. *)
Listening(t) == [t EXCEPT !.ring.accept = TRUE]
LiveState(t, c) == [t EXCEPT !.conns[c].mem = "live", !.sockets[c].known = TRUE]

LEMMA ListeningIs ==
  ASSUME NEW t \in UringStates
  PROVE  LET u == Listening(t) IN
         /\ u \in UringStates /\ u.conns = t.conns /\ u.sockets = t.sockets /\ u.kernel = t.kernel
         /\ u.ring.cq = t.ring.cq /\ u.ring.buffers = t.ring.buffers /\ u.ring.up = t.ring.up
         /\ u.ring.misuse = t.ring.misuse /\ u.ring.accept = TRUE
<1> DEFINE u == Listening(t)
           g == [t.ring EXCEPT !.accept = TRUE]
<1>1. t.ring \in Rings BY DEF UringStates
<1>2. IsState(u) BY DEF Listening, IsState, UringStates
<1>3. u.conns = t.conns /\ u.sockets = t.sockets /\ u.kernel = t.kernel BY DEF Listening, UringStates
<1>4. u.ring = g BY DEF Listening, UringStates
<1>6. g \in Rings BY <1>1 DEF Rings
<1>7. /\ g.cq = t.ring.cq /\ g.accept = TRUE /\ g.up = t.ring.up /\ g.misuse = t.ring.misuse
      /\ g.buffers = t.ring.buffers
  BY <1>1 DEF Rings
<1> HIDE DEF u, g
<1>8. u \in UringStates BY <1>2, <1>3, <1>4, <1>6, StateTyped DEF UringStates
<1> QED BY <1>3, <1>4, <1>7, <1>8 DEF u

LEMMA LiveFields ==
  ASSUME NEW t \in UringStates, NEW c \in ConnIds
  PROVE  LET u == LiveState(t, c) IN
         /\ IsState(u) /\ u.ring = t.ring /\ u.kernel = t.kernel
         /\ IsPut(t.conns, u.conns, c, [t.conns[c] EXCEPT !.mem = "live"])
         /\ IsPut(t.sockets, u.sockets, c, [t.sockets[c] EXCEPT !.known = TRUE])
<1> DEFINE u == LiveState(t, c)
<1>1. IsState(u) BY DEF LiveState, IsState, UringStates
<1>2. u.ring = t.ring /\ u.kernel = t.kernel BY DEF LiveState, UringStates
<1>3. IsPut(t.conns, u.conns, c, [t.conns[c] EXCEPT !.mem = "live"]) BY DEF LiveState, UringStates, IsPut
<1>4. IsPut(t.sockets, u.sockets, c, [t.sockets[c] EXCEPT !.known = TRUE]) BY DEF LiveState, UringStates, IsPut
<1> QED BY <1>1, <1>2, <1>3, <1>4

LEMMA Starts ==
  ASSUME NEW t, NEW e, Takes(t, e), e.tag = "accept", e.id # 0
  PROVE  Good(LiveState(t, e.id), e.id) /\ LiveState(t, e.id).ring = t.ring /\ Held(LiveState(t, e.id), e.id)
<1> DEFINE c == e.id
           u == LiveState(t, c)
           n == t.conns[c]
           s == t.sockets[c]
           k == t.kernel[c]
           E == Of(t.ring.cq, c)
           F == E \cup {e}
           p == [n EXCEPT !.mem = "live"]
           z == [s EXCEPT !.known = TRUE]
<1>0. /\ t \in UringStates /\ c \in ConnIds /\ n \in UringConns /\ s \in UringSockets /\ k \in UringKernels
      /\ OneOK(n, s, k, F) /\ Reads(n)
  BY ONLY Takes(t, e), e.id # 0, AtTaken
<1>1. E \subseteq F /\ (\A g \in F : g \in E \/ g = e) /\ e \in F OBVIOUS
<1>2. ~Has(E, "accept") BY DEF Takes
<1>3. /\ IsState(u) /\ u.ring = t.ring /\ u.kernel = t.kernel
      /\ IsPut(t.conns, u.conns, c, p) /\ IsPut(t.sockets, u.sockets, c, z)
  BY <1>0, LiveFields
<1>4. IsPut(t.kernel, u.kernel, c, k) BY <1>3 DEF IsPut
<1>20. E = Of(t.ring.cq, c) /\ n = t.conns[c] OBVIOUS
<1> HIDE DEF n, s, k, E, F, u
<1>5. Has(F, "accept") BY <1>1 DEF Has
<1>6. n.mem = "none" BY <1>0, <1>1, <1>5 DEF OneOK, IsLive, IsOver, UringConns
<1>7. IsNew(n, s, k, F) BY <1>0, <1>6 DEF OneOK
<1>8. n = NewConn /\ s = NewSocket /\ k.fd # "none" BY <1>5, <1>7 DEF IsNew
<1>9. /\ p.closing = FALSE /\ p.recv_active = FALSE /\ p.read_ended = FALSE /\ p.queued_bytes = 0
      /\ p.in_flight = 0 /\ p.sends = <<>> /\ p.sending = FALSE /\ p.end_pending = FALSE
      /\ p.write_shutdown = FALSE /\ p.mem = "live"
  BY <1>8 DEF NewConn
<1>10. z.known = TRUE /\ z.ended = FALSE /\ z.closes = 0 /\ z.written = 0 BY <1>8 DEF NewSocket
<1>11. p \in UringConns BY <1>0 DEF UringConns
<1>12. z \in UringSockets BY <1>0 DEF UringSockets
<1> HIDE DEF p, z
<1>13. ~Has(E, "recv") /\ ~Has(E, "send") /\ ~Final(E) BY <1>1, <1>7 DEF IsNew, Has, Final
<1>14. ~k.recv /\ k.sends = {} /\ ~k.fin /\ ~k.shut /\ k.wire = 0 BY <1>7 DEF IsNew
<1>15. Queued(p, z)
  <2>1. Follow(<<>>, 0) /\ Under(<<>>, 0) BY DEF Follow, Under
  <2>2. 0 <= UringQueue BY UringAssumption
  <2> QED BY <1>9, <1>10, <2>1, <2>2 DEF Queued, Rest
<1>16. Results(p, k, E) BY <1>13 DEF Results, Has
<1>17. Receives(p, k, E) /\ Sends(p, k, E) /\ NextUnit(p, z, k, E) /\ Ended(p, z, k)
  BY <1>9, <1>10, <1>13, <1>14 DEF Receives, Sends, NextUnit, Ended
<1>18. p.in_flight = (IF p.recv_active THEN 1 ELSE 0) + (IF p.sending THEN 1 ELSE 0) BY <1>9
<1>19. IsLive(p, z, k, E) BY <1>2, <1>8, <1>9, <1>10, <1>14, <1>15, <1>16, <1>17, <1>18 DEF IsLive
<1>21. OneOK(p, z, k, E) BY <1>0, <1>9, <1>14, <1>19 DEF OneOK
<1>22. Good(u, c) /\ u.conns[c] = p
  BY <1>0, <1>3, <1>4, <1>11, <1>12, <1>20, <1>21, TakenMoves
<1> QED BY <1>3, <1>9, <1>22 DEF Held, u

(* What handling the entry e has come to. *)
Handled(t, u, e) ==
  /\ Good(u, 0)
  /\ u.ring.cq = t.ring.cq /\ u.ring.buffers = t.ring.buffers + Back(e)
  /\ t.ring.accept \/ (e.tag = "accept" /\ ~e.more) => u.ring.accept

LEMMA OnAccept ==
  ASSUME NEW t, NEW e, Takes(t, e), e.tag = "accept", NEW r, IsReaction(r)
  PROVE  Handled(t, onAccept(t, e, r), e)
<1> DEFINE c == e.id
           u == IF e.more THEN t ELSE Listening(t)
           v == LiveState(u, c)
           a == armRecv(v, c, FALSE)
           b == Heard(a, "connection", r)
           y == onAccept(t, e, r)
<1>0. t \in UringStates /\ t.ring \in Rings /\ t.ring.up /\ IsEntry(e) BY DEF Takes, UringStates
<1>1. y = IF e.res = "error" THEN u ELSE StillThere(b, c)
  BY <1>0 DEF onAccept, Listening, LiveState, Submitted
<1>2. /\ u \in UringStates /\ u.conns = t.conns /\ u.sockets = t.sockets /\ u.kernel = t.kernel
      /\ u.ring.cq = t.ring.cq /\ u.ring.buffers = t.ring.buffers /\ u.ring.up = t.ring.up
      /\ u.ring.misuse = t.ring.misuse
      /\ t.ring.accept \/ ~e.more => u.ring.accept
  BY <1>0, ListeningIs
<1> HIDE DEF u, y
<1>3. Takes(u, e) BY <1>2 DEF Takes, With
<1>4. Back(e) = 0 /\ t.ring.buffers + 0 = t.ring.buffers BY <1>0, BuffersTyped DEF Back
<1>5. CASE e.res = "error"
  <2>1. e.id = 0 BY <1>0, <1>5 DEF IsEntry
  <2>2. \A d \in ConnIds : With(u, e, d) = Of(u.ring.cq, d) BY <2>1, ZeroIsNone DEF With
  <2>3. Good(u, 0) BY <1>3, <2>2 DEF Takes, Good
  <2>4. y = u BY <1>1, <1>5
  <2> QED BY <1>2, <1>4, <2>3, <2>4 DEF Handled, y
<1>6. CASE e.res # "error"
  <2>1. e.id # 0 /\ c \in ConnIds BY <1>0, <1>3, <1>6, AtTaken DEF IsEntry
  <2>2. Good(v, c) /\ v.ring = u.ring /\ Held(v, c) BY <1>3, <2>1, Starts
  <2> HIDE DEF v
  <2>3. Leads(v, a, c) /\ Reads(a.conns[c]) BY <2>1, <2>2, ArmRecv
  <2> HIDE DEF a
  <2>4. Good(a, 0) /\ Held(a, c) /\ a.ring = u.ring BY <2>1, <2>2, <2>3, HeldOn, Unexempt DEF Leads, Stays
  <2>5. Leads(a, b, 0) BY <2>4, HeardLeads
  <2> HIDE DEF b
  <2>6. Held(b, c) BY <2>1, <2>4, <2>5, HeldOn
  <2>7. y = b BY <1>1, <1>6, <2>6, StillHeld
  <2>8. Good(b, 0) /\ b.ring = u.ring BY <2>4, <2>5 DEF Leads, Stays
  <2> QED BY <1>2, <1>4, <2>7, <2>8 DEF Handled, y
<1> QED BY <1>5, <1>6

LEMMA KeepsHandled ==
  ASSUME NEW t, NEW u, NEW e, e.tag # "accept", Keeps(t, u, Back(e))
  PROVE  Handled(t, u, e)
BY DEF Keeps, Handled
-----------------------------------------------------------------------------
(* The buffers filled. *)

LEMMA FilledFinite ==
  ASSUME NEW q \in Seq(Cqe)
  PROVE  IsFiniteSet(Filled(q)) /\ Cardinality(Filled(q)) \in Nat
<1>1. Len(q) \in Nat /\ DOMAIN q = 1..Len(q) OBVIOUS
<1>2. IsFiniteSet(1..Len(q)) BY <1>1, FS_Interval
<1>3. Filled(q) \subseteq 1..Len(q) BY <1>1 DEF Filled
<1>4. IsFiniteSet(Filled(q)) BY <1>2, <1>3, FS_Subset
<1> QED BY <1>4, FS_CardinalityType

LEMMA FilledAppend ==
  ASSUME NEW q \in Seq(Cqe), NEW e \in Cqe
  PROVE  Cardinality(Filled(Append(q, e))) = Cardinality(Filled(q)) + Back(e)
<1> DEFINE p == Append(q, e)
           z == Len(q) + 1
           S == Filled(q)
<1>1. /\ DOMAIN p = DOMAIN q \cup {z} /\ z \notin DOMAIN q /\ p[z] = e
      /\ \A i \in DOMAIN q : p[i] = q[i]
  BY AppendFacts
<1>2. IsFiniteSet(S) /\ Cardinality(S) \in Nat BY FilledFinite
<1>3. z \notin S BY <1>1 DEF Filled
<1> HIDE DEF z, p
<1>4. CASE e.tag = "recv" /\ e.res = "ok"
  <2>1. Filled(p) = S \cup {z} BY <1>1, <1>4 DEF Filled
  <2>2. Cardinality(S \cup {z}) = Cardinality(S) + 1 BY <1>2, <1>3, FS_AddElement
  <2> QED BY <1>4, <2>1, <2>2 DEF Back, p
<1>5. CASE ~(e.tag = "recv" /\ e.res = "ok")
  <2>1. Filled(p) = S BY <1>1, <1>5 DEF Filled
  <2> QED BY <1>2, <1>5, <2>1 DEF Back, p
<1> QED BY <1>4, <1>5

LEMMA FilledTail ==
  ASSUME NEW q \in Seq(Cqe), q # <<>>
  PROVE  Cardinality(Filled(Tail(q))) + Back(Head(q)) = Cardinality(Filled(q))
<1> DEFINE p == Tail(q)
           h == Head(q)
           S == Filled(p)
           T == Filled(q) \ {1}
           f == [i \in S |-> i + 1]
<1>1. /\ h \in Cqe /\ p \in Seq(Cqe)
      /\ 1 \in DOMAIN q /\ q[1] = h
      /\ \A i \in DOMAIN p : i + 1 \in DOMAIN q /\ p[i] = q[i + 1] /\ i \in Nat \ {0}
      /\ \A i \in DOMAIN q : i # 1 => i - 1 \in DOMAIN p /\ p[i - 1] = q[i]
      /\ \A i \in DOMAIN q : i \in Nat \ {0}
  BY QueueFacts
<1>2. IsFiniteSet(S) /\ Cardinality(S) \in Nat BY <1>1, FilledFinite
<1>3. IsFiniteSet(Filled(q)) /\ Cardinality(Filled(q)) \in Nat BY FilledFinite
<1> HIDE DEF p, h
<1>4. f \in Bijection(S, T)
  <2>1. \A i \in S : i + 1 \in T /\ i \in Nat BY <1>1 DEF Filled
  <2>2. ASSUME NEW j \in T PROVE j - 1 \in S /\ (j - 1) + 1 = j
    <3>1. j \in DOMAIN q /\ j # 1 /\ q[j].tag = "recv" /\ q[j].res = "ok" BY DEF Filled
    <3>2. j \in Nat /\ j - 1 \in DOMAIN p /\ p[j - 1] = q[j] BY <1>1, <3>1
    <3>3. (j - 1) + 1 = j BY <3>2
    <3> QED BY <3>1, <3>2, <3>3 DEF Filled
  <2> HIDE DEF S, T
  <2>3. f \in [S -> T] BY <2>1
  <2>4. \A i, j \in S : f[i] = f[j] => i = j BY <2>1
  <2>5. \A j \in T : \E i \in S : f[i] = j BY <2>1, <2>2
  <2> QED BY <2>3, <2>4, <2>5 DEF Bijection, Injection, IsInjective, Surjection
<1>5. ExistsBijection(S, T) BY <1>4 DEF ExistsBijection
<1>6. Cardinality(T) = Cardinality(S) BY <1>2, <1>5, FS_Bijection
<1>7. Cardinality(T) = IF 1 \in Filled(q) THEN Cardinality(Filled(q)) - 1 ELSE Cardinality(Filled(q))
  BY <1>3, FS_RemoveElement
<1>8. 1 \in Filled(q) <=> h.tag = "recv" /\ h.res = "ok" BY <1>1 DEF Filled
<1>9. Cardinality(S) + Back(h) = Cardinality(Filled(q)) BY <1>2, <1>3, <1>6, <1>7, <1>8 DEF Back
<1> QED BY <1>9 DEF p, h

-----------------------------------------------------------------------------
(* The steps. *)

LEMMA Becomes ==
  ASSUME NEW t, Sane(t), RingBecome(t)
  PROVE  UringInv'
<1>1. t \in UringStates BY DEF Sane
<1>2. t = [conns |-> t.conns, sockets |-> t.sockets, kernel |-> t.kernel, ring |-> t.ring]
  BY <1>1 DEF UringStates
<1>3. RingNow' = t BY <1>2 DEF RingNow, RingBecome
<1> QED BY <1>3 DEF UringInv

LEMMA DeadState ==
  ASSUME NEW t \in UringStates
  PROVE  LET u == drainDead(t) IN
         /\ u \in UringStates /\ u.sockets = t.sockets /\ u.kernel = t.kernel /\ u.ring = t.ring
         /\ \A c \in ConnIds : u.conns[c] = IF t.conns[c].mem = "dead" THEN [t.conns[c] EXCEPT !.mem = "freed"]
                                            ELSE t.conns[c]
<1> DEFINE g == [c \in ConnIds |-> IF t.conns[c].mem = "dead" THEN [t.conns[c] EXCEPT !.mem = "freed"]
                                   ELSE t.conns[c]]
           u == drainDead(t)
<1>1. u = [t EXCEPT !.conns = g] BY DEF drainDead
<1>2. ASSUME NEW c \in ConnIds
      PROVE  t.conns[c] \in UringConns /\ [t.conns[c] EXCEPT !.mem = "freed"] \in UringConns
  <2>1. t.conns[c] \in UringConns BY DEF UringStates
  <2> QED BY <2>1 DEF UringConns
<1>3. g \in [ConnIds -> UringConns] BY <1>2
<1>4. \A c \in ConnIds : g[c] = IF t.conns[c].mem = "dead" THEN [t.conns[c] EXCEPT !.mem = "freed"]
                                ELSE t.conns[c]
  OBVIOUS
<1> HIDE DEF g, u
<1>5. u.conns = g /\ u.sockets = t.sockets /\ u.kernel = t.kernel /\ u.ring = t.ring BY <1>1 DEF UringStates
<1>6. u \in UringStates BY <1>1, <1>3 DEF UringStates
<1> QED BY <1>4, <1>5, <1>6 DEF u

LEMMA FreedOK ==
  ASSUME NEW n \in UringConns, n.mem = "dead", NEW s, NEW k, NEW E, OneOK(n, s, k, E)
  PROVE  LET p == [n EXCEPT !.mem = "freed"] IN OneOK(p, s, k, E) /\ Reads(p) /\ p.mem = "freed"
<1> DEFINE p == [n EXCEPT !.mem = "freed"]
<1>1. p.mem = "freed" BY DEF UringConns
<1> HIDE DEF p
<1>2. OneOK(p, s, k, E) /\ Reads(p) BY <1>1 DEF OneOK, IsOver, Reads
<1> QED BY <1>1, <1>2 DEF p

(* A callback unwinds. *)
LEMMA Unwinds ==
  ASSUME NEW t \in UringStates,
         \A c \in ConnIds : OneOK(t.conns[c], t.sockets[c], t.kernel[c], Of(t.ring.cq, c)) /\ Reads(t.conns[c])
  PROVE  LET u == drainDead(t) IN
         /\ u \in UringStates /\ u.ring = t.ring
         /\ \A c \in ConnIds : /\ OneOK(u.conns[c], u.sockets[c], u.kernel[c], Of(u.ring.cq, c))
                               /\ Reads(u.conns[c])
                               /\ u.conns[c].mem = "live" => t.conns[c].mem = "live"
<1> DEFINE u == drainDead(t)
<1>1. /\ u \in UringStates /\ u.sockets = t.sockets /\ u.kernel = t.kernel /\ u.ring = t.ring
      /\ \A c \in ConnIds : u.conns[c] = IF t.conns[c].mem = "dead" THEN [t.conns[c] EXCEPT !.mem = "freed"]
                                         ELSE t.conns[c]
  BY DeadState
<1> HIDE DEF u
<1>2. ASSUME NEW c \in ConnIds
      PROVE  /\ OneOK(u.conns[c], u.sockets[c], u.kernel[c], Of(u.ring.cq, c))
             /\ Reads(u.conns[c])
             /\ u.conns[c].mem = "live" => t.conns[c].mem = "live"
  <2>1. t.conns[c] \in UringConns BY DEF UringStates
  <2>2. CASE t.conns[c].mem = "dead"
    <3> DEFINE n == t.conns[c]
               s == t.sockets[c]
               k == t.kernel[c]
               E == Of(t.ring.cq, c)
               p == [n EXCEPT !.mem = "freed"]
    <3>1. n \in UringConns /\ n.mem = "dead" /\ OneOK(n, s, k, E) BY <2>1, <2>2
    <3>2. u.conns[c] = p /\ u.sockets[c] = s /\ u.kernel[c] = k /\ Of(u.ring.cq, c) = E BY <1>1, <2>2
    <3> HIDE DEF n, s, k, E
    <3>3. OneOK(p, s, k, E) /\ Reads(p) /\ p.mem = "freed" BY <3>1, FreedOK
    <3> QED BY <3>2, <3>3
  <2>3. CASE t.conns[c].mem # "dead" BY <1>1, <2>3
  <2> QED BY <2>2, <2>3
<1> QED BY <1>1, <1>2 DEF u

LEMMA Lands ==
  ASSUME NEW t, Good(t, 0), Sole(t.ring.cq), \A i \in DOMAIN t.ring.cq : IsEntry(t.ring.cq[i]),
         t.ring.accept \/ Accepts(t.ring.cq),
         t.ring.buffers + Cardinality(Filled(t.ring.cq)) = BufCount
  PROVE  Sane(drainDead(t))
<1> DEFINE u == drainDead(t)
<1>1. /\ t \in UringStates /\ t.ring.up /\ t.ring.misuse = {}
      /\ \A c \in ConnIds : OneOK(t.conns[c], t.sockets[c], t.kernel[c], Of(t.ring.cq, c)) /\ Reads(t.conns[c])
  BY ZeroIsNone DEF Good
<1>2. /\ u \in UringStates /\ u.ring = t.ring
      /\ \A c \in ConnIds : /\ OneOK(u.conns[c], u.sockets[c], u.kernel[c], Of(u.ring.cq, c))
                            /\ Reads(u.conns[c])
  BY <1>1, Unwinds
<1> HIDE DEF u
<1>3. Sane(u) BY <1>1, <1>2 DEF Sane
<1> QED BY <1>3 DEF u

Taken(t) == [t EXCEPT !.ring.cq = Tail(@)]

LEMMA TakesHead ==
  ASSUME NEW t, Sane(t), t.ring.up, t.ring.cq # <<>>
  PROVE  LET u == Taken(t) IN
         /\ Takes(u, Head(t.ring.cq))
         /\ u.ring.cq = Tail(t.ring.cq) /\ u.ring.accept = t.ring.accept
         /\ u.ring.buffers = t.ring.buffers /\ u.ring.up = t.ring.up
<1> DEFINE u == Taken(t)
           q == t.ring.cq
           p == Tail(q)
           e == Head(q)
           g == [t.ring EXCEPT !.cq = p]
<1>1. t \in UringStates /\ t.ring \in Rings BY DEF Sane, UringStates
<1>2. q \in Seq(Cqe) /\ q # <<>> BY <1>1 DEF Rings
<1>3. IsState(u) BY <1>1 DEF Taken, IsState, UringStates
<1>4. u.conns = t.conns /\ u.sockets = t.sockets /\ u.kernel = t.kernel BY <1>1 DEF Taken, UringStates
<1>5. u.ring = g BY <1>1 DEF Taken, UringStates
<1> HIDE DEF q, u
<1>6. p \in Seq(Cqe) /\ e \in Cqe /\ 1 \in DOMAIN q /\ q[1] = e BY <1>2, QueueFacts
<1>7. g \in Rings BY <1>1, <1>6 DEF Rings
<1>8. /\ g.cq = p /\ g.accept = t.ring.accept /\ g.up = t.ring.up /\ g.misuse = t.ring.misuse
      /\ g.buffers = t.ring.buffers
  BY <1>1 DEF Rings
<1>9. \A d \in ConnIds : With(u, e, d) = Of(q, d)
  <2> SUFFICES ASSUME NEW d \in ConnIds PROVE With(u, e, d) = Of(q, d) OBVIOUS
  <2>1. u.ring.cq = p BY <1>5, <1>8
  <2>2. /\ Of(p, d) \subseteq Of(q, d)
        /\ \A x \in Of(q, d) : x # e => x \in Of(p, d)
        /\ e.id # d => Of(p, d) = Of(q, d)
        /\ e.id = d => e \in Of(q, d)
    BY <1>2, OfTail
  <2> HIDE DEF p, e
  <2>3. CASE e.id = d BY <2>1, <2>2, <2>3 DEF With
  <2>4. CASE e.id # d BY <2>1, <2>2, <2>4 DEF With
  <2> QED BY <2>3, <2>4
<1>10. e.id # 0 /\ (e.tag = "recv" => ~e.more) => ~Has(Of(p, e.id), e.tag)
  BY <1>2, TailSole DEF Sane, q
<1>11. IsEntry(e) BY <1>6 DEF Sane, q
<1> HIDE DEF p, e, g
<1>12. u \in UringStates BY <1>1, <1>3, <1>4, <1>5, <1>7, StateTyped DEF UringStates
<1>13. u.ring.up /\ u.ring.misuse = {} /\ u.ring.cq = p BY <1>5, <1>8 DEF Sane
<1>14. \A d \in ConnIds : /\ OneOK(u.conns[d], u.sockets[d], u.kernel[d], With(u, e, d))
                          /\ Reads(u.conns[d])
  BY <1>4, <1>9 DEF Sane, q
<1>15. Takes(u, e) BY <1>6, <1>10, <1>11, <1>12, <1>13, <1>14 DEF Takes
<1> QED BY <1>5, <1>8, <1>15 DEF u, p, e, q

LEMMA LandsTaken ==
  ASSUME NEW t, Sane(t), t.ring.up, t.ring.cq # <<>>, NEW u, Handled(Taken(t), u, Head(t.ring.cq))
  PROVE  Sane(drainDead(u))
<1> DEFINE q == t.ring.cq
           p == Tail(q)
           e == Head(q)
<1>1. /\ Taken(t).ring.cq = p /\ Taken(t).ring.accept = t.ring.accept
      /\ Taken(t).ring.buffers = t.ring.buffers
  BY TakesHead
<1>2. q \in Seq(Cqe) /\ t.ring \in Rings BY DEF Sane, UringStates, Rings
<1>20. t.ring.buffers \in Nat BY <1>2, BuffersTyped
<1>3. Good(u, 0) /\ u.ring.cq = p /\ u.ring.buffers = t.ring.buffers + Back(e) BY <1>1 DEF Handled
<1>4. t.ring.accept \/ (e.tag = "accept" /\ ~e.more) => u.ring.accept BY <1>1 DEF Handled
<1>5. /\ Sole(q) /\ \A i \in DOMAIN q : IsEntry(q[i])
      /\ t.ring.accept \/ Accepts(q)
      /\ t.ring.buffers + Cardinality(Filled(q)) = BufCount
  BY DEF Sane
<1>6. q # <<>> OBVIOUS
<1> HIDE DEF q
<1>7. /\ q[1] = e
      /\ \A i \in DOMAIN p : i + 1 \in DOMAIN q /\ p[i] = q[i + 1]
      /\ \A i \in DOMAIN q : i # 1 => i - 1 \in DOMAIN p /\ p[i - 1] = q[i]
  BY <1>2, <1>6, QueueFacts
<1>8. Sole(p) BY <1>2, <1>5, <1>6, TailSole
<1>9. Cardinality(Filled(p)) + Back(e) = Cardinality(Filled(q)) BY <1>2, <1>6, FilledTail
<1>10. Cardinality(Filled(p)) \in Nat
  <2>1. p \in Seq(Cqe) BY <1>2, <1>6
  <2> QED BY <2>1, FilledFinite
<1> HIDE DEF p, e
<1>11. \A i \in DOMAIN p : IsEntry(p[i]) BY <1>5, <1>7
<1>12. u.ring.accept \/ Accepts(p) BY <1>4, <1>5, <1>7 DEF Accepts
<1>13. u.ring.buffers + Cardinality(Filled(p)) = BufCount
  <2> DEFINE a == Cardinality(Filled(p))
             b == t.ring.buffers
             k == Back(e)
  <2>1. a \in Nat /\ b \in Nat /\ k \in Nat BY <1>10, <1>20 DEF Back
  <2>2. b + (a + k) = BufCount /\ u.ring.buffers = b + k BY <1>3, <1>5, <1>9
  <2> HIDE DEF a, b, k
  <2>3. (b + k) + a = b + (a + k) BY <2>1
  <2> QED BY <2>2, <2>3 DEF a
<1> QED BY <1>3, <1>8, <1>11, <1>12, <1>13, Lands

LEMMA ReactionsAre == \A S : \A r \in UringReactions(S) : IsReaction(r)
<1>1. ConnIds \cap ConnIds = ConnIds OBVIOUS
<1> QED BY OpsAre DEF UringReactions, IsReaction

LEMMA RingReadable == UringInv /\ onRingReadable => UringInv'
<1> SUFFICES ASSUME UringInv, onRingReadable PROVE UringInv' OBVIOUS
<1> DEFINE s == RingNow
           t == Taken(s)
           e == Head(ring.cq)
<1>1. Sane(s) /\ s.ring = ring BY DEF UringInv, RingNow
<1>2. s.ring.up /\ s.ring.cq # <<>> BY <1>1 DEF onRingReadable
<1>3. Takes(t, e) /\ e \in Cqe BY <1>1, <1>2, TakesHead DEF Takes
<1>4. ASSUME NEW u, Handled(t, u, e), RingBecome(leave(u, TRUE)) PROVE UringInv'
  <2>1. Sane(drainDead(u)) BY <1>1, <1>2, <1>4, LandsTaken
  <2>2. leave(u, TRUE) = drainDead(u) BY DEF leave
  <2> QED BY <1>4, <2>1, <2>2, Becomes
<1>5. \/ /\ e.tag = "accept"
         /\ \E r \in UringReactions({"connection"}) : RingBecome(leave(onAccept(t, e, r), TRUE))
      \/ /\ e.tag = "recv"
         /\ \E r \in UringReactions(IF e.res = "ok" THEN {"data", "close"} ELSE {"end", "close"}), full \in BOOLEAN :
              RingBecome(leave(onRecv(t, e, full, r), TRUE))
      \/ /\ e.tag = "send"
         /\ \E r \in UringReactions({"drain", "close"}) : RingBecome(leave(onSend(t, e, r), TRUE))
  BY Zenon DEF onRingReadable, Taken
<1> HIDE DEF t, e
<1>6. CASE /\ e.tag = "accept"
           /\ \E r \in UringReactions({"connection"}) : RingBecome(leave(onAccept(t, e, r), TRUE))
  <2>1. PICK r \in UringReactions({"connection"}) : RingBecome(leave(onAccept(t, e, r), TRUE)) BY <1>6
  <2>2. IsReaction(r) BY ReactionsAre
  <2>3. Handled(t, onAccept(t, e, r), e) BY <1>3, <1>6, <2>2, OnAccept
  <2> QED BY <1>4, <2>1, <2>3
<1>7. e.tag # "accept" => e.id # 0 BY <1>3 DEF Takes, IsEntry
<1>8. CASE /\ e.tag = "recv"
           /\ \E r \in UringReactions(IF e.res = "ok" THEN {"data", "close"} ELSE {"end", "close"}), full \in BOOLEAN :
                RingBecome(leave(onRecv(t, e, full, r), TRUE))
  <2>1. PICK r \in UringReactions(IF e.res = "ok" THEN {"data", "close"} ELSE {"end", "close"}), full \in BOOLEAN :
          RingBecome(leave(onRecv(t, e, full, r), TRUE))
    BY <1>8
  <2>2. IsReaction(r) BY ReactionsAre
  <2>3. Keeps(t, onRecv(t, e, full, r), Back(e)) BY <1>3, <1>7, <1>8, <2>2, OnRecv
  <2>4. Handled(t, onRecv(t, e, full, r), e) BY <1>8, <2>3, KeepsHandled
  <2> QED BY <1>4, <2>1, <2>4
<1>9. CASE /\ e.tag = "send"
           /\ \E r \in UringReactions({"drain", "close"}) : RingBecome(leave(onSend(t, e, r), TRUE))
  <2>1. PICK r \in UringReactions({"drain", "close"}) : RingBecome(leave(onSend(t, e, r), TRUE)) BY <1>9
  <2>2. IsReaction(r) BY ReactionsAre
  <2>3. Keeps(t, onSend(t, e, r), Back(e)) BY <1>3, <1>7, <1>9, <2>2, OnSend
  <2>4. Handled(t, onSend(t, e, r), e) BY <1>9, <2>3, KeepsHandled
  <2> QED BY <1>4, <2>1, <2>4
<1> QED BY <1>5, <1>6, <1>8, <1>9

LEMMA LandsLed ==
  ASSUME NEW t, Sane(t), t.ring.up, NEW u, Leads(t, u, 0)
  PROVE  Sane(drainDead(u))
<1>1. Good(u, 0) /\ u.ring = t.ring BY DEF Leads, Stays
<1> QED BY <1>1, Lands DEF Sane

LEMMA SaneIsGood == \A t : Sane(t) /\ t.ring.up => Good(t, 0)
BY DEF Sane, Good

LEMMA KnownUp ==
  ASSUME NEW t, Sane(t), NEW c \in ConnIds, t.sockets[c].known
  PROVE  t.ring.up
<1>1. OneOK(t.conns[c], t.sockets[c], t.kernel[c], Of(t.ring.cq, c)) BY DEF Sane
<1>2. t.conns[c].mem # "none"
  <2>1. NewSocket.known = FALSE BY DEF NewSocket
  <2> QED BY <1>1, <2>1 DEF OneOK, IsNew
<1>3. t.conns[c] \in UringConns BY DEF Sane, UringStates
<1>4. t.conns[c].mem = "live" BY <1>1, <1>2, <1>3 DEF OneOK, IsOver, UringConns
<1> QED BY <1>4 DEF Sane

LEMMA JsCalls == UringInv /\ JsCallsRing => UringInv'
<1> SUFFICES ASSUME UringInv, JsCallsRing PROVE UringInv' OBVIOUS
<1> DEFINE s == RingNow
<1>1. Sane(s) /\ s.sockets = sockets BY DEF UringInv, RingNow
<1>2. PICK c \in ConnIds, op \in Ops(s) :
        LET t == OnSocket(s, c, op)
            closed == t.sockets[c].closes > sockets[c].closes
        IN /\ sockets[c].known
           /\ \E r \in UringReactions(IF closed THEN {"close"} ELSE {}) :
                  RingBecome(leave(TellClose(s, t, c, r), TRUE))
  BY DEF JsCallsRing
<1> DEFINE t == OnSocket(s, c, op)
<1>3. PICK r \in UringReactions(IF t.sockets[c].closes > sockets[c].closes THEN {"close"} ELSE {}) :
        RingBecome(leave(TellClose(s, t, c, r), TRUE))
  BY <1>2
<1>4. s.sockets[c].known BY <1>1, <1>2
<1>5. IsReaction(r) /\ op \in UringOps BY ReactionsAre, OpsAre
<1> HIDE DEF s
<1>6. s.ring.up /\ Good(s, 0) BY <1>1, <1>4, KnownUp, SaneIsGood
<1>7. Leads(s, t, 0) BY <1>4, <1>5, <1>6, OnSocketLeads
<1> HIDE DEF t
<1> DEFINE u == TellClose(s, t, c, r)
<1>8. Leads(s, u, 0) BY <1>5, <1>7, TellLeads
<1>9. RingBecome(drainDead(u)) BY <1>3 DEF leave
<1> HIDE DEF u
<1>10. Sane(drainDead(u)) BY <1>1, <1>6, <1>8, LandsLed
<1> QED BY <1>9, <1>10, Becomes

-----------------------------------------------------------------------------
(* The server closes. *)

Freed(n) == [n EXCEPT !.mem = "freed", !.sends = <<>>]
Told(s) == [s EXCEPT !.known = FALSE, !.closes = s.closes + 1]
ClosedFd(k) == [k EXCEPT !.fd = "closed"]

LEMMA FreedTyped ==
  ASSUME NEW n \in UringConns, NEW s \in UringSockets, NEW k \in UringKernels
  PROVE  Freed(n) \in UringConns /\ Told(s) \in UringSockets /\ ClosedFd(k) \in UringKernels
<1>1. Freed(n) \in UringConns
  <2>1. [n EXCEPT !.mem = "freed"] \in UringConns BY DEF UringConns
  <2>2. <<>> \in Seq(Span) OBVIOUS
  <2> QED BY <2>1, <2>2 DEF UringConns, Freed
<1>2. Told(s) \in UringSockets BY SocketUpdates DEF Told
<1>3. ClosedFd(k) \in UringKernels BY KernelUpdates DEF ClosedFd
<1> QED BY <1>1, <1>2, <1>3

LEMMA ClosesThose ==
  ASSUME NEW t \in UringStates, NEW S \in SUBSET ConnIds, \A c \in S : t.conns[c].mem = "live"
  PROVE  LET u == CloseConns(t, S) IN
         /\ u \in UringStates /\ u.ring = t.ring
         /\ \A c \in S : /\ u.conns[c] = Freed(t.conns[c]) /\ u.sockets[c] = Told(t.sockets[c])
                         /\ u.kernel[c] = ClosedFd(t.kernel[c])
         /\ \A c \in ConnIds \ S : /\ u.conns[c] = t.conns[c] /\ u.sockets[c] = t.sockets[c]
                                   /\ u.kernel[c] = t.kernel[c]
<1> DEFINE u == CloseConns(t, S)
           a == [c \in ConnIds |-> IF c \in S THEN Freed(t.conns[c]) ELSE t.conns[c]]
           b == [c \in ConnIds |-> IF c \in S THEN Told(t.sockets[c]) ELSE t.sockets[c]]
           k == [c \in ConnIds |-> IF c \in S THEN ClosedFd(t.kernel[c]) ELSE t.kernel[c]]
<1>1. {c \in S : t.conns[c].mem = "live"} = S /\ ~(\E c \in S : t.conns[c].mem = "freed") OBVIOUS
<1>2. u = [t EXCEPT !.conns = a, !.kernel = k, !.sockets = b]
  BY <1>1 DEF CloseConns, Freed, Told, ClosedFd
<1>3. ASSUME NEW c \in ConnIds
      PROVE  /\ t.conns[c] \in UringConns /\ t.sockets[c] \in UringSockets /\ t.kernel[c] \in UringKernels
             /\ Freed(t.conns[c]) \in UringConns /\ Told(t.sockets[c]) \in UringSockets
             /\ ClosedFd(t.kernel[c]) \in UringKernels
  <2>1. t.conns[c] \in UringConns /\ t.sockets[c] \in UringSockets /\ t.kernel[c] \in UringKernels
    BY DEF UringStates
  <2> QED BY <2>1, FreedTyped
<1>4. a \in [ConnIds -> UringConns] BY <1>3
<1>5. b \in [ConnIds -> UringSockets] BY <1>3
<1>6. k \in [ConnIds -> UringKernels] BY <1>3
<1>7. \A c \in S : a[c] = Freed(t.conns[c]) /\ b[c] = Told(t.sockets[c]) /\ k[c] = ClosedFd(t.kernel[c])
  OBVIOUS
<1>8. \A c \in ConnIds \ S : a[c] = t.conns[c] /\ b[c] = t.sockets[c] /\ k[c] = t.kernel[c] OBVIOUS
<1> HIDE DEF u, a, b, k
<1>9. u.conns = a /\ u.sockets = b /\ u.kernel = k /\ u.ring = t.ring BY <1>2 DEF UringStates
<1>10. u \in UringStates BY <1>2, <1>4, <1>5, <1>6 DEF UringStates
<1> QED BY <1>7, <1>8, <1>9, <1>10 DEF u

LEMMA RingGoneIs ==
  ASSUME UringInv
  PROVE  LET t == RingGone IN
         /\ t \in UringStates /\ t.conns = conns /\ t.sockets = sockets
         /\ t.ring.cq = <<>> /\ t.ring.up = FALSE /\ t.ring.misuse = {}
         /\ t.ring.buffers = ring.buffers
         /\ \A c \in ConnIds : /\ t.kernel[c].recv = FALSE /\ t.kernel[c].sends = {}
                               /\ t.kernel[c].fd = kernel[c].fd /\ t.kernel[c].shut = kernel[c].shut
                               /\ t.kernel[c].fin = kernel[c].fin /\ t.kernel[c].peer = kernel[c].peer
                               /\ t.kernel[c].wire = kernel[c].wire /\ t.kernel[c].gap = kernel[c].gap
<1> DEFINE s == RingNow
           g == [s.ring EXCEPT !.up = FALSE, !.cq = <<>>, !.accept = FALSE]
           k == [c \in ConnIds |-> [kernel[c] EXCEPT !.recv = FALSE, !.sends = {}]]
           t == RingGone
<1>1. /\ s \in UringStates /\ s.conns = conns /\ s.sockets = sockets /\ s.kernel = kernel
      /\ s.ring.misuse = {} /\ s.ring.buffers = ring.buffers
  BY DEF UringInv, Sane, RingNow
<1>2. s.ring \in Rings /\ kernel \in [ConnIds -> UringKernels] BY <1>1 DEF UringStates
<1>3. /\ g \in Rings /\ g.cq = <<>> /\ g.up = FALSE /\ g.misuse = s.ring.misuse
      /\ g.buffers = s.ring.buffers
  <2>1. <<>> \in Seq(Cqe) OBVIOUS
  <2>2. [s.ring EXCEPT !.up = FALSE, !.accept = FALSE] \in Rings BY <1>2 DEF Rings
  <2> HIDE DEF s
  <2>3. g \in Rings BY <1>2, <2>1, <2>2 DEF Rings
  <2> QED BY <1>2, <2>3 DEF Rings
<1>4. t = [s EXCEPT !.ring = g, !.kernel = k] BY DEF RingGone
<1>5. ASSUME NEW c \in ConnIds
      PROVE  /\ [kernel[c] EXCEPT !.recv = FALSE, !.sends = {}] \in UringKernels
             /\ k[c].recv = FALSE /\ k[c].sends = {}
             /\ k[c].fd = kernel[c].fd /\ k[c].shut = kernel[c].shut
             /\ k[c].fin = kernel[c].fin /\ k[c].peer = kernel[c].peer
             /\ k[c].wire = kernel[c].wire /\ k[c].gap = kernel[c].gap
  <2> DEFINE n == kernel[c]
  <2>1. n \in UringKernels BY <1>2
  <2>2. k[c] = [n EXCEPT !.recv = FALSE, !.sends = {}] OBVIOUS
  <2> HIDE DEF n, k
  <2>3. [n EXCEPT !.recv = FALSE, !.sends = {}] \in UringKernels BY <2>1 DEF UringKernels
  <2>4. /\ k[c].recv = FALSE /\ k[c].sends = {}
        /\ k[c].fd = n.fd /\ k[c].shut = n.shut
        /\ k[c].fin = n.fin /\ k[c].peer = n.peer
        /\ k[c].wire = n.wire /\ k[c].gap = n.gap
    BY <2>1, <2>2 DEF UringKernels
  <2> QED BY <2>3, <2>4 DEF n
<1>6. k \in [ConnIds -> UringKernels] BY <1>5
<1> HIDE DEF s, g, k, t
<1>7. t.conns = conns /\ t.sockets = sockets /\ t.kernel = k /\ t.ring = g BY <1>1, <1>4 DEF UringStates
<1>8. t \in UringStates BY <1>1, <1>3, <1>4, <1>6 DEF UringStates
<1> QED BY <1>1, <1>3, <1>5, <1>7, <1>8 DEF t

LEMMA OverOnceClosed ==
  ASSUME UringInv, NEW c \in ConnIds, NEW k,
         k.recv = FALSE, k.sends = {},
         k.shut = kernel[c].shut, k.fin = kernel[c].fin, k.peer = kernel[c].peer,
         k.wire = kernel[c].wire, k.gap = kernel[c].gap
  PROVE  /\ conns[c].mem # "live" /\ k.fd = kernel[c].fd => OneOK(conns[c], sockets[c], k, {})
         /\ conns[c].mem = "live" /\ k.fd = "closed" => OneOK(Freed(conns[c]), Told(sockets[c]), k, {})
         /\ Freed(conns[c]).mem = "freed"
<1> DEFINE n == conns[c]
           s == sockets[c]
           l == kernel[c]
           E == Of(ring.cq, c)
<1>1. n \in UringConns /\ s \in UringSockets /\ OneOK(n, s, l, E)
  BY DEF UringInv, Sane, RingNow, UringStates
<1> HIDE DEF n, s, l, E
<1>2. k.recv = FALSE /\ k.sends = {} /\ k.shut = l.shut /\ k.fin = l.fin /\ k.peer = l.peer
      /\ k.wire = l.wire /\ k.gap = l.gap
  BY DEF l
<1>3. ASSUME n.mem # "live", k.fd = l.fd PROVE OneOK(n, s, k, {})
  <2>1. n.mem = "none" => IsNew(n, s, k, {}) BY <1>1, <1>2, <1>3 DEF OneOK, IsNew, Has
  <2>2. n.mem \in {"dead", "freed"} => IsOver(n, s, k, {}) BY <1>1, <1>2, <1>3 DEF OneOK, IsOver
  <2> QED BY <1>1, <1>2, <1>3, <2>1, <2>2 DEF OneOK
<1> DEFINE p == Freed(n)
           z == Told(s)
<1>4. p.mem = "freed" BY <1>1 DEF Freed, UringConns
<1>5. z.known = FALSE /\ z.closes = s.closes + 1 /\ z.written = s.written /\ z.ended = s.ended
  BY <1>1 DEF Told, UringSockets
<1> HIDE DEF p, z
<1>6. ASSUME n.mem = "live", k.fd = "closed" PROVE OneOK(p, z, k, {})
  <2>1. s.closes = 0 BY <1>1, <1>6 DEF OneOK, IsLive
  <2>2. IsOver(p, z, k, {}) BY <1>2, <1>4, <1>5, <1>6, <2>1 DEF IsOver
  <2> QED BY <1>1, <1>2, <1>4, <1>5, <2>2 DEF OneOK
<1> QED BY <1>3, <1>4, <1>6 DEF n, s, l, p, z

LEMMA ServerCloses == ~BusyShutdown /\ UringInv /\ closeUringServer => UringInv'
<1> SUFFICES ASSUME ~BusyShutdown, UringInv, closeUringServer PROVE UringInv' OBVIOUS
<1> DEFINE open == {c \in ConnIds : conns[c].mem = "live"}
           latest == {c \in open : \A d \in open : d <= c}
           rest == open \ latest
           g == RingGone
           t == CloseConns(g, latest)
           v == CloseConns(t, rest)
<1>1. PICK r \in UringReactions({}) :
        RingBecome(drainDead(CloseConns(IF r.to = "close" /\ open # {} THEN Reacts(t, r, TRUE) ELSE t, rest)))
  BY DEF closeUringServer
<1>2. r.to # "close"
  <2>1. r = ToNothing BY DEF UringReactions
  <2> QED BY <2>1 DEF ToNothing
<1>3. RingBecome(drainDead(v)) BY <1>1, <1>2
<1>4. /\ g \in UringStates /\ g.conns = conns /\ g.sockets = sockets
      /\ g.ring.cq = <<>> /\ g.ring.up = FALSE /\ g.ring.misuse = {} /\ g.ring.buffers = ring.buffers
      /\ \A c \in ConnIds : /\ g.kernel[c].recv = FALSE /\ g.kernel[c].sends = {}
                            /\ g.kernel[c].fd = kernel[c].fd /\ g.kernel[c].shut = kernel[c].shut
                            /\ g.kernel[c].fin = kernel[c].fin /\ g.kernel[c].peer = kernel[c].peer
                            /\ g.kernel[c].wire = kernel[c].wire /\ g.kernel[c].gap = kernel[c].gap
  BY RingGoneIs
<1> HIDE DEF g
<1>5. /\ latest \in SUBSET ConnIds /\ \A c \in latest : g.conns[c].mem = "live"
      /\ rest \in SUBSET ConnIds /\ \A c \in rest : c \in ConnIds \ latest /\ g.conns[c].mem = "live"
      /\ \A c \in ConnIds \ latest : c \notin rest => conns[c].mem # "live"
  BY <1>4
<1> HIDE DEF latest, rest
<1>6. /\ t \in UringStates /\ t.ring = g.ring
      /\ \A c \in latest : /\ t.conns[c] = Freed(g.conns[c]) /\ t.sockets[c] = Told(g.sockets[c])
                           /\ t.kernel[c] = ClosedFd(g.kernel[c])
      /\ \A c \in ConnIds \ latest : /\ t.conns[c] = g.conns[c] /\ t.sockets[c] = g.sockets[c]
                                     /\ t.kernel[c] = g.kernel[c]
  BY <1>4, <1>5, ClosesThose
<1> HIDE DEF t
<1>7. \A c \in rest : t.conns[c].mem = "live" BY <1>5, <1>6
<1>8. /\ v \in UringStates /\ v.ring = t.ring
      /\ \A c \in rest : /\ v.conns[c] = Freed(t.conns[c]) /\ v.sockets[c] = Told(t.sockets[c])
                         /\ v.kernel[c] = ClosedFd(t.kernel[c])
      /\ \A c \in ConnIds \ rest : /\ v.conns[c] = t.conns[c] /\ v.sockets[c] = t.sockets[c]
                                   /\ v.kernel[c] = t.kernel[c]
  BY <1>5, <1>6, <1>7, ClosesThose
<1> HIDE DEF v
<1>20. ring.buffers <= BufCount
  <2>1. ring.up BY DEF closeUringServer
  <2>2. ring.cq \in Seq(Cqe) /\ ring.buffers \in Nat /\ ring.buffers + Cardinality(Filled(ring.cq)) = BufCount
    BY <2>1 DEF UringInv, Sane, RingNow, UringStates, Rings
  <2>3. Cardinality(Filled(ring.cq)) \in Nat BY <2>2, FilledFinite
  <2> QED BY <2>2, <2>3, UringAssumption
<1>9. /\ v.ring.cq = <<>> /\ v.ring.up = FALSE /\ v.ring.misuse = {}
      /\ v.ring.buffers <= BufCount
  BY <1>4, <1>6, <1>8, <1>20
<1>10. ASSUME NEW c \in ConnIds
       PROVE  /\ OneOK(v.conns[c], v.sockets[c], v.kernel[c], {})
              /\ v.conns[c].mem # "live"
  <2>1. CASE c \in latest \/ c \in rest
    <3>1. conns[c].mem = "live" BY <1>4, <1>5, <2>1
    <3>2. /\ v.conns[c] = Freed(conns[c]) /\ v.sockets[c] = Told(sockets[c])
          /\ v.kernel[c] = ClosedFd(g.kernel[c])
      BY <1>4, <1>5, <1>6, <1>8, <2>1
    <3> DEFINE k == ClosedFd(g.kernel[c])
               l == g.kernel[c]
    <3>3. l \in UringKernels BY <1>4 DEF UringStates
    <3>4. l.recv = FALSE /\ l.sends = {} /\ l.shut = kernel[c].shut /\ l.fin = kernel[c].fin
          /\ l.peer = kernel[c].peer /\ l.wire = kernel[c].wire /\ l.gap = kernel[c].gap
      BY <1>4
    <3> HIDE DEF l
    <3>5. /\ k.fd = "closed" /\ k.recv = l.recv /\ k.sends = l.sends /\ k.shut = l.shut /\ k.fin = l.fin
          /\ k.peer = l.peer /\ k.wire = l.wire /\ k.gap = l.gap
      BY <3>3 DEF ClosedFd, UringKernels, l
    <3> HIDE DEF k
    <3>6. OneOK(Freed(conns[c]), Told(sockets[c]), k, {}) /\ Freed(conns[c]).mem = "freed"
      BY <3>1, <3>4, <3>5, OverOnceClosed
    <3> QED BY <3>2, <3>6 DEF k
  <2>2. CASE ~(c \in latest \/ c \in rest)
    <3>1. conns[c].mem # "live" BY <1>5, <2>2
    <3>2. v.conns[c] = conns[c] /\ v.sockets[c] = sockets[c] /\ v.kernel[c] = g.kernel[c]
      BY <1>4, <1>6, <1>8, <2>2
    <3>3. OneOK(conns[c], sockets[c], g.kernel[c], {}) BY <1>4, <3>1, OverOnceClosed
    <3> QED BY <3>1, <3>2, <3>3
  <2> QED BY <2>1, <2>2
<1>11. \A c : Of(<<>>, c) = {} BY DEF Of
<1>12. \A c \in ConnIds : OneOK(v.conns[c], v.sockets[c], v.kernel[c], Of(v.ring.cq, c)) /\ Reads(v.conns[c])
  BY <1>9, <1>10, <1>11 DEF Reads
<1> DEFINE w == drainDead(v)
<1>13. /\ w \in UringStates /\ w.ring = v.ring
       /\ \A c \in ConnIds : /\ OneOK(w.conns[c], w.sockets[c], w.kernel[c], Of(w.ring.cq, c))
                             /\ Reads(w.conns[c])
                             /\ w.conns[c].mem = "live" => v.conns[c].mem = "live"
  BY <1>8, <1>12, Unwinds
<1> HIDE DEF w
<1>14. Sane(w) BY <1>9, <1>10, <1>13 DEF Sane, Sole
<1> QED BY <1>3, <1>14, Becomes DEF w
-----------------------------------------------------------------------------
(* The kernel's and the peers' steps: one descriptor, and an entry posted. *)

IsPosted(s, t, e, a) ==
  /\ t.ring \in Rings
  /\ t.ring.cq = Append(s.ring.cq, e) /\ t.ring.buffers = s.ring.buffers - Back(e)
  /\ t.ring.accept = a /\ t.ring.up = s.ring.up /\ t.ring.misuse = s.ring.misuse

Drives(s, t, c, k) ==
  /\ IsState(t) /\ t.conns = s.conns /\ t.sockets = s.sockets /\ IsPut(s.kernel, t.kernel, c, k)

LEMMA DrivenTyped ==
  ASSUME NEW s \in UringStates, NEW c \in ConnIds, NEW k \in UringKernels, NEW t, Drives(s, t, c, k),
         t.ring \in Rings
  PROVE  t \in UringStates /\ t.kernel[c] = k /\ \A d \in ConnIds \ {c} : t.kernel[d] = s.kernel[d]
<1>1. s.kernel \in [ConnIds -> UringKernels] BY DEF UringStates
<1>2. t.kernel \in [ConnIds -> UringKernels] /\ t.kernel[c] = k
      /\ \A d \in ConnIds \ {c} : t.kernel[d] = s.kernel[d]
  BY <1>1 DEF Drives, IsPut
<1>3. IsState(t) /\ t.conns = s.conns /\ t.sockets = s.sockets BY DEF Drives
<1> QED BY <1>2, <1>3, StateTyped DEF UringStates

LEMMA Posts ==
  ASSUME NEW s, Sane(s), s.ring.up, NEW e \in Cqe, IsEntry(e), NEW a, NEW t, IsPosted(s, t, e, a),
         s.ring.accept => a \/ (e.tag = "accept" /\ ~e.more),
         NEW c \in ConnIds, e.id \in {0, c}, NEW k \in UringKernels, Drives(s, t, c, k),
         e.id = c => \A f \in Of(s.ring.cq, c) : f.tag = e.tag => f.tag = "recv" /\ f.more,
         OneOK(s.conns[c], s.sockets[c], k,
               IF e.id = c THEN Of(s.ring.cq, c) \cup {e} ELSE Of(s.ring.cq, c))
  PROVE  Sane(t)
<1> DEFINE q == s.ring.cq
           p == Append(q, e)
<1>1. s \in UringStates /\ t.ring \in Rings /\ s.ring \in Rings BY DEF Sane, IsPosted, UringStates
<1>2. q \in Seq(Cqe) /\ s.ring.buffers \in Nat BY <1>1, BuffersTyped DEF Rings
<1>3. t \in UringStates /\ t.kernel[c] = k /\ \A d \in ConnIds \ {c} : t.kernel[d] = s.kernel[d]
  BY <1>1, DrivenTyped
<1>4. t.conns = s.conns /\ t.sockets = s.sockets BY DEF Drives
<1>5. /\ t.ring.cq = p /\ t.ring.buffers = s.ring.buffers - Back(e)
      /\ t.ring.accept = a /\ t.ring.up = s.ring.up /\ t.ring.misuse = s.ring.misuse
  BY DEF IsPosted
<1>6. /\ Sole(q) /\ \A i \in DOMAIN q : IsEntry(q[i])
      /\ s.ring.misuse = {}
      /\ s.ring.accept \/ Accepts(q)
      /\ s.ring.buffers + Cardinality(Filled(q)) = BufCount
      /\ \A d \in ConnIds : OneOK(s.conns[d], s.sockets[d], s.kernel[d], Of(q, d)) /\ Reads(s.conns[d])
  BY DEF Sane
<1>7. \A d : Of(p, d) = IF e.id = d THEN Of(q, d) \cup {e} ELSE Of(q, d) BY <1>2, OfAppend
<1>8. e.id = 0 \/ e.id = c OBVIOUS
<1>9. Sole(p) BY <1>2, <1>6, <1>8, AppendSole
<1>10. Cardinality(Filled(p)) = Cardinality(Filled(q)) + Back(e) BY <1>2, FilledAppend
<1>11. Cardinality(Filled(q)) \in Nat BY <1>2, FilledFinite
<1>12. /\ DOMAIN p = DOMAIN q \cup {Len(q) + 1} /\ p[Len(q) + 1] = e
       /\ \A i \in DOMAIN q : p[i] = q[i]
  BY <1>2, AppendFacts
<1>13. OneOK(s.conns[c], s.sockets[c], k, Of(p, c)) BY <1>7
<1> HIDE DEF p, q
<1>14. \A i \in DOMAIN p : IsEntry(p[i]) BY <1>6, <1>12
<1>15. a \/ Accepts(p) BY <1>6, <1>12 DEF Accepts
<1>16. t.ring.buffers + Cardinality(Filled(p)) = BufCount
  <2> DEFINE x == Cardinality(Filled(q))
             b == s.ring.buffers
             j == Back(e)
  <2>1. x \in Nat /\ b \in Nat /\ j \in Nat BY <1>2, <1>11 DEF Back
  <2>2. b + x = BufCount /\ Cardinality(Filled(p)) = x + j /\ t.ring.buffers = b - j
    BY <1>5, <1>6, <1>10
  <2> HIDE DEF x, b, j
  <2>3. (b - j) + (x + j) = b + x BY <2>1
  <2> QED BY <2>2, <2>3
<1>17. ASSUME NEW d \in ConnIds
       PROVE  OneOK(t.conns[d], t.sockets[d], t.kernel[d], Of(p, d)) /\ Reads(t.conns[d])
  <2>1. CASE d = c BY <1>3, <1>4, <1>6, <1>13, <2>1
  <2>2. CASE d # c
    <3>1. e.id # d BY <1>8, <2>2, ZeroIsNone
    <3> QED BY <1>3, <1>4, <1>6, <1>7, <2>2, <3>1
  <2> QED BY <2>1, <2>2
<1> QED BY <1>3, <1>5, <1>6, <1>9, <1>14, <1>15, <1>16, <1>17 DEF Sane

LEMMA PeerMoves ==
  ASSUME NEW s, Sane(s), NEW c \in ConnIds, NEW k \in UringKernels, NEW t, Drives(s, t, c, k),
         t.ring = s.ring, OneOK(s.conns[c], s.sockets[c], k, Of(s.ring.cq, c))
  PROVE  Sane(t)
<1>1. s \in UringStates /\ s.ring \in Rings BY DEF Sane, UringStates
<1>3. t \in UringStates /\ t.kernel[c] = k /\ \A d \in ConnIds \ {c} : t.kernel[d] = s.kernel[d]
  BY <1>1, DrivenTyped
<1>4. t.conns = s.conns /\ t.sockets = s.sockets BY DEF Drives
<1>17. ASSUME NEW d \in ConnIds
       PROVE  OneOK(t.conns[d], t.sockets[d], t.kernel[d], Of(t.ring.cq, d)) /\ Reads(t.conns[d])
  <2>1. CASE d = c BY <1>3, <1>4, <2>1 DEF Sane
  <2>2. CASE d # c BY <1>3, <1>4, <2>2 DEF Sane
  <2> QED BY <2>1, <2>2
<1> QED BY <1>3, <1>4, <1>17 DEF Sane

(* The state with another descriptor and ring. *)
Following(k, r) == [conns |-> conns, sockets |-> sockets, kernel |-> k, ring |-> r]

LEMMA FollowingBecomes ==
  ASSUME NEW k, NEW r, kernel' = k, ring' = r, UNCHANGED <<conns, sockets>>, Sane(Following(k, r))
  PROVE  UringInv'
<1>1. RingBecome(Following(k, r)) BY DEF RingBecome, Following
<1> QED BY <1>1, Becomes

LEMMA FollowingDrives ==
  ASSUME NEW c \in ConnIds, NEW k, NEW l, NEW r, l = [kernel EXCEPT ![c] = k]
  PROVE  Drives(RingNow, Following(l, r), c, k) /\ Following(l, r).ring = r
BY DEF Drives, Following, RingNow, IsState, IsPut

PostedRing(e, a) == [Post(e, Back(e)) EXCEPT !.accept = a]

LEMMA PostedIs ==
  ASSUME UringInv, NEW e \in Cqe, Back(e) <= ring.buffers, NEW a \in BOOLEAN, NEW l
  PROVE  /\ IsPosted(RingNow, Following(l, PostedRing(e, a)), e, a)
         /\ Post(e, Back(e)) = PostedRing(e, ring.accept)
<1> DEFINE b == ring.buffers - Back(e)
           q == Append(ring.cq, e)
           g == PostedRing(e, a)
<1>1. ring \in Rings BY DEF UringInv, Sane, RingNow, UringStates
<1>2. ring.buffers \in Nat BY <1>1, BuffersTyped
<1>3. b \in Nat BY <1>2 DEF Back
<1>4. q \in Seq(Cqe)
  <2>1. ring.cq \in Seq(Cqe) BY <1>1 DEF Rings
  <2> QED BY <2>1
<1>5. g = [ring EXCEPT !.cq = q, !.buffers = b, !.accept = a] BY <1>1 DEF PostedRing, Post, Rings
<1>6. Post(e, Back(e)) = [ring EXCEPT !.cq = q, !.buffers = b] BY DEF Post
<1>7. PostedRing(e, ring.accept) = [ring EXCEPT !.cq = q, !.buffers = b, !.accept = ring.accept]
  BY <1>1 DEF PostedRing, Post, Rings
<1>20. b = ring.buffers - Back(e) /\ q = Append(ring.cq, e) OBVIOUS
<1> HIDE DEF b, q, g
<1>8. Post(e, Back(e)) = PostedRing(e, ring.accept) BY <1>1, <1>6, <1>7 DEF Rings
<1>9. g \in Rings
  <2>1. [ring EXCEPT !.buffers = b] \in Rings BY <1>1, <1>3 DEF Rings
  <2>2. [ring EXCEPT !.buffers = b, !.accept = a] \in Rings BY <1>1, <2>1 DEF Rings
  <2> QED BY <1>1, <1>4, <1>5, <2>2 DEF Rings
<1>10. g.cq = q /\ g.buffers = b /\ g.accept = a /\ g.up = ring.up /\ g.misuse = ring.misuse
  BY <1>1, <1>5 DEF Rings
<1>11. IsPosted(RingNow, Following(l, g), e, a) BY <1>9, <1>10, <1>20 DEF IsPosted, RingNow, Following
<1> QED BY <1>8, <1>11 DEF g

LEMMA Now ==
  ASSUME UringInv, NEW c \in ConnIds
  PROVE  /\ Sane(RingNow) /\ RingNow.ring = ring /\ RingNow.conns = conns /\ RingNow.sockets = sockets
         /\ RingNow.kernel = kernel
         /\ conns[c] \in UringConns /\ sockets[c] \in UringSockets /\ kernel[c] \in UringKernels
         /\ OneOK(conns[c], sockets[c], kernel[c], Of(ring.cq, c))
BY DEF UringInv, Sane, RingNow, UringStates

LEMMA StepPosts ==
  ASSUME UringInv, ring.up, NEW e \in Cqe, IsEntry(e), Back(e) <= ring.buffers, NEW a \in BOOLEAN,
         ring.accept => a \/ (e.tag = "accept" /\ ~e.more),
         NEW c \in ConnIds, e.id \in {0, c}, NEW k \in UringKernels,
         e.id = c => \A f \in Of(ring.cq, c) : f.tag = e.tag => f.tag = "recv" /\ f.more,
         OneOK(conns[c], sockets[c], k, IF e.id = c THEN Of(ring.cq, c) \cup {e} ELSE Of(ring.cq, c)),
         kernel' = [kernel EXCEPT ![c] = k], ring' = PostedRing(e, a), UNCHANGED <<conns, sockets>>
  PROVE  UringInv'
<1> DEFINE l == [kernel EXCEPT ![c] = k]
           s == RingNow
           r == PostedRing(e, a)
           t == Following(l, r)
<1>1. /\ Sane(s) /\ s.ring = ring /\ s.conns = conns /\ s.sockets = sockets BY Now
<1>2. IsPosted(s, t, e, a) BY PostedIs
<1>3. Drives(s, t, c, k) BY FollowingDrives
<1>4. kernel' = l /\ ring' = r OBVIOUS
<1> HIDE DEF l, s, r
<1> HIDE DEF t
<1>5. Sane(t) BY <1>1, <1>2, <1>3, Posts
<1> QED BY <1>4, <1>5, FollowingBecomes DEF t

LEMMA Accepting == UringInv /\ AcceptCompletes => UringInv'
<1> SUFFICES ASSUME UringInv, AcceptCompletes PROVE UringInv' OBVIOUS
<1>1. ring.up /\ ring.accept /\ UNCHANGED <<conns, sockets>> BY DEF AcceptCompletes
<1>2. ring \in Rings BY DEF UringInv, Sane, RingNow, UringStates
<1>3. PICK more \in BOOLEAN :
        \/ \E c \in ConnIds :
             /\ kernel[c].fd = "none"
             /\ kernel' = [kernel EXCEPT ![c].fd = "open"]
             /\ ring' = [Post([tag |-> "accept", id |-> c, more |-> more, res |-> "ok", n |-> 0], 0)
                            EXCEPT !.accept = more]
        \/ /\ ~more
           /\ UNCHANGED kernel
           /\ ring' = [Post([tag |-> "accept", id |-> 0, more |-> FALSE, res |-> "error", n |-> 0], 0)
                          EXCEPT !.accept = FALSE]
  BY DEF AcceptCompletes
<1>4. ASSUME NEW c \in ConnIds, kernel[c].fd = "none", kernel' = [kernel EXCEPT ![c].fd = "open"],
             ring' = [Post([tag |-> "accept", id |-> c, more |-> more, res |-> "ok", n |-> 0], 0)
                         EXCEPT !.accept = more]
      PROVE  UringInv'
  <2> DEFINE e == [tag |-> "accept", id |-> c, more |-> more, res |-> "ok", n |-> 0]
             k == [kernel[c] EXCEPT !.fd = "open"]
             l == kernel[c]
             E == Of(ring.cq, c)
             F == E \cup {e}
  <2>1. /\ e.tag = "accept" /\ e.id = c /\ e.more = more /\ e.res = "ok" OBVIOUS
  <2>2. e \in Cqe
    <3>1. c \in 0..MaxConns BY UringAssumption DEF ConnIds
    <3> QED BY <3>1 DEF Cqe
  <2>3. c # 0 BY ZeroIsNone
  <2>4. IsEntry(e) /\ Back(e) = 0 BY <2>1, <2>3 DEF IsEntry, Back
  <2>5. kernel' = [kernel EXCEPT ![c] = k] /\ ring' = [Post(e, 0) EXCEPT !.accept = more] BY <1>4
  <2>6. /\ conns[c] \in UringConns /\ l \in UringKernels /\ OneOK(conns[c], sockets[c], l, E)
    BY ONLY UringInv, c \in ConnIds, Now
  <2>7. l.fd = "none" BY <1>4
  <2>20. k = [l EXCEPT !.fd = "open"] OBVIOUS
  <2>21. (\A g \in F : g \in E \/ g = e) /\ E = Of(ring.cq, c) OBVIOUS
  <2> HIDE DEF e, k, l, E, F
  <2>8. k \in UringKernels BY <2>6, <2>20 DEF UringKernels
  <2>9. /\ k.fd = "open" /\ k.recv = l.recv /\ k.sends = l.sends /\ k.fin = l.fin /\ k.shut = l.shut
        /\ k.wire = l.wire /\ k.gap = l.gap /\ k.peer = l.peer
    BY <2>6, <2>20 DEF UringKernels
  <2>10. conns[c].mem = "none" BY <2>6, <2>7 DEF OneOK, IsLive, IsOver, UringConns
  <2>11. IsNew(conns[c], sockets[c], l, E) BY <2>6, <2>10 DEF OneOK
  <2>12. ~Has(E, "accept") BY <2>7, <2>11 DEF IsNew
  <2>13. ~Has(F, "recv") /\ ~Has(F, "send") BY <2>1, <2>11, <2>21 DEF IsNew, Has
  <2>14. IsNew(conns[c], sockets[c], k, F) BY <2>9, <2>11, <2>13 DEF IsNew
  <2>15. OneOK(conns[c], sockets[c], k, F) BY <2>6, <2>9, <2>10, <2>14 DEF OneOK
  <2>16. \A f \in E : f.tag = e.tag => f.tag = "recv" /\ f.more BY <2>1, <2>12 DEF Has
  <2>17. ring' = PostedRing(e, more) BY <2>4, <2>5 DEF PostedRing
  <2>18. Back(e) <= ring.buffers BY <1>2, <2>4, BuffersTyped
  <2>19. OneOK(conns[c], sockets[c], k, IF e.id = c THEN Of(ring.cq, c) \cup {e} ELSE Of(ring.cq, c))
    BY <2>1, <2>15, <2>21 DEF F
  <2>22. e.id \in {0, c} /\ more \in BOOLEAN /\ (ring.accept => more \/ (e.tag = "accept" /\ ~e.more))
    BY <2>1
  <2>23. e.id = c => \A f \in Of(ring.cq, c) : f.tag = e.tag => f.tag = "recv" /\ f.more
    BY <2>16, <2>21
  <2>24. kernel' = [kernel EXCEPT ![c] = k] BY <2>5
  <2> QED BY <1>1, <2>2, <2>4, <2>8, <2>17, <2>18, <2>19, <2>22, <2>23, <2>24, StepPosts
<1>5. ASSUME ~more, UNCHANGED kernel,
             ring' = [Post([tag |-> "accept", id |-> 0, more |-> FALSE, res |-> "error", n |-> 0], 0)
                        EXCEPT !.accept = FALSE]
      PROVE  UringInv'
  <2> DEFINE e == [tag |-> "accept", id |-> 0, more |-> FALSE, res |-> "error", n |-> 0]
  <2>1. /\ e.tag = "accept" /\ e.id = 0 /\ e.more = FALSE /\ e.res = "error" OBVIOUS
  <2>2. e \in Cqe
    <3>1. 0 \in 0..MaxConns BY UringAssumption
    <3> QED BY <3>1 DEF Cqe
  <2>3. PICK c \in ConnIds : TRUE BY UringAssumption DEF ConnIds
  <2>5. ring' = [Post(e, 0) EXCEPT !.accept = FALSE] BY <1>5
  <2> DEFINE k == kernel[c]
  <2>6. k \in UringKernels /\ OneOK(conns[c], sockets[c], k, Of(ring.cq, c)) BY ONLY UringInv, c \in ConnIds, Now
  <2>7. kernel \in [ConnIds -> UringKernels] BY DEF UringInv, Sane, RingNow, UringStates
  <2>8. kernel' = [kernel EXCEPT ![c] = k] BY <1>5, <2>7
  <2> HIDE DEF e, k
  <2>4. IsEntry(e) /\ Back(e) = 0 BY <2>1 DEF IsEntry, Back
  <2>9. ring' = PostedRing(e, FALSE) BY <2>4, <2>5 DEF PostedRing
  <2>10. Back(e) <= ring.buffers BY <1>2, <2>4, BuffersTyped
  <2>11. e.id # c /\ e.id \in {0, c} BY <2>1, ZeroIsNone
  <2>12. OneOK(conns[c], sockets[c], k, IF e.id = c THEN Of(ring.cq, c) \cup {e} ELSE Of(ring.cq, c))
    BY <2>6, <2>11
  <2>13. ring.accept => FALSE \/ (e.tag = "accept" /\ ~e.more) BY <2>1
  <2> QED BY <1>1, <2>2, <2>4, <2>6, <2>8, <2>9, <2>10, <2>11, <2>12, <2>13, StepPosts
<1> QED BY <1>3, <1>4, <1>5

(* Only a live connection has operations with the kernel, while the ring is up. *)
LEMMA Works ==
  ASSUME UringInv, NEW c \in ConnIds, kernel[c].recv \/ kernel[c].sends # {}
  PROVE  /\ ring.up /\ conns[c].mem = "live"
         /\ IsLive(conns[c], sockets[c], kernel[c], Of(ring.cq, c))
<1>1. conns[c] \in UringConns /\ OneOK(conns[c], sockets[c], kernel[c], Of(ring.cq, c))
  BY ONLY UringInv, c \in ConnIds, Now
<1>2. conns[c].mem = "live" BY <1>1 DEF OneOK, IsNew, IsOver, UringConns
<1>3. ring.up BY <1>2 DEF UringInv, Sane, RingNow
<1> QED BY <1>1, <1>2, <1>3 DEF OneOK

LEMMA Receiving == \A c \in ConnIds : UringInv /\ RecvCompletes(c) => UringInv'
<1> SUFFICES ASSUME NEW c \in ConnIds, UringInv, RecvCompletes(c) PROVE UringInv' OBVIOUS
<1> DEFINE n == conns[c]
           s == sockets[c]
           l == kernel[c]
           E == Of(ring.cq, c)
<1>1. l.recv /\ UNCHANGED <<conns, sockets>> BY DEF RecvCompletes
<1>2. PICK res \in {"ok", "eof", "nobufs", "error"}, more \in BOOLEAN :
        /\ more => res = "ok"
        /\ res = "ok" => l.inbox > 0 /\ ring.buffers > 0
        /\ kernel' = [kernel EXCEPT ![c].recv = more,
                                    ![c].inbox = IF res = "ok" THEN @ - 1 ELSE @]
        /\ ring' = Post([tag |-> "recv", id |-> c, more |-> more, res |-> res, n |-> 0],
                        IF res = "ok" THEN 1 ELSE 0)
  BY DEF RecvCompletes
<1> DEFINE e == [tag |-> "recv", id |-> c, more |-> more, res |-> res, n |-> 0]
           i == IF res = "ok" THEN l.inbox - 1 ELSE l.inbox
           k == [l EXCEPT !.recv = more, !.inbox = i]
           F == E \cup {e}
<1>3. /\ e.tag = "recv" /\ e.id = c /\ e.more = more /\ e.res = res OBVIOUS
<1>4. e \in Cqe
  <2>1. c \in 0..MaxConns BY UringAssumption DEF ConnIds
  <2> QED BY <2>1 DEF Cqe
<1>5. ring \in Rings /\ kernel \in [ConnIds -> UringKernels] BY DEF UringInv, Sane, RingNow, UringStates
<1>6. kernel' = [kernel EXCEPT ![c] = k] BY <1>2, <1>5
<1>7. /\ n \in UringConns /\ s \in UringSockets /\ l \in UringKernels /\ OneOK(n, s, l, E)
  BY ONLY UringInv, c \in ConnIds, Now
<1>8. ring.up /\ n.mem = "live" /\ IsLive(n, s, l, E)
  <2>1. kernel[c].recv BY <1>1
  <2> QED BY ONLY UringInv, c \in ConnIds, <2>1, Works
<1>9. ring' = Post(e, Back(e)) BY <1>2 DEF Back
<1>20. (\A g \in F : g \in E \/ g = e) /\ e \in F /\ E \subseteq F /\ E = Of(ring.cq, c)
       /\ n = conns[c] /\ s = sockets[c]
  OBVIOUS
<1>21. e.tag = "recv" /\ c # 0 BY ZeroIsNone
<1> HIDE DEF n, s, l, E, e, F
<1>10. i \in Nat
  <2>1. l.inbox \in Nat BY <1>7 DEF UringKernels
  <2> QED BY <1>2, <2>1
<1> HIDE DEF i
<1>11. k \in UringKernels BY <1>7, <1>10 DEF UringKernels
<1>12. /\ k.recv = more /\ k.fd = l.fd /\ k.sends = l.sends /\ k.fin = l.fin /\ k.shut = l.shut
       /\ k.wire = l.wire /\ k.gap = l.gap /\ k.peer = l.peer
  BY <1>7 DEF UringKernels
<1> HIDE DEF k
<1>13. n.recv_active /\ ~Final(E) BY <1>1, <1>8 DEF IsLive, Receives
<1>14. /\ Has(E, "send") <=> Has(F, "send")
       /\ ~Has(E, "accept") => ~Has(F, "accept")
       /\ Final(F) <=> ~more
  BY <1>3, <1>13, <1>20 DEF Has, Final
<1>15. Receives(n, k, F) BY <1>12, <1>13, <1>14 DEF Receives
<1>16. Sends(n, k, F) BY <1>8, <1>12, <1>14 DEF IsLive, Sends
<1>17. Results(n, k, F) BY <1>3, <1>8, <1>12, <1>20 DEF IsLive, Results
<1>18. NextUnit(n, s, k, F) BY <1>3, <1>8, <1>12, <1>14, <1>20 DEF IsLive, NextUnit
<1>19. IsLive(n, s, k, F) BY <1>8, <1>12, <1>14, <1>15, <1>16, <1>17, <1>18 DEF IsLive, Ended
<1>22. OneOK(n, s, k, F) BY <1>7, <1>8, <1>12, <1>19 DEF OneOK
<1>23. ring.buffers \in Nat BY <1>5, BuffersTyped
<1>24. Back(e) <= ring.buffers BY <1>2, <1>3, <1>23 DEF Back
<1>25. IsEntry(e) BY <1>3, <1>21 DEF IsEntry
<1>26. ring.accept \in BOOLEAN BY <1>5 DEF Rings
<1>27. ring' = PostedRing(e, ring.accept)
  <2>1. Post(e, Back(e)) = PostedRing(e, ring.accept) BY <1>4, <1>24, <1>26, PostedIs
  <2> QED BY <1>9, <2>1
<1>28. \A f \in Of(ring.cq, c) : f.tag = e.tag => f.tag = "recv" /\ f.more
  BY <1>3, <1>13, <1>20 DEF Final
<1>29. OneOK(conns[c], sockets[c], k, IF e.id = c THEN Of(ring.cq, c) \cup {e} ELSE Of(ring.cq, c))
  BY <1>3, <1>20, <1>22 DEF F
<1>30. e.id \in {0, c} BY <1>3
<1> QED BY <1>1, <1>4, <1>6, <1>8, <1>11, <1>24, <1>25, <1>26, <1>27, <1>28, <1>29, <1>30, StepPosts

(* A send completes: k is what the descriptor is then, e what is posted. *)
LEMMA SendPosts ==
  ASSUME UringInv, NEW c \in ConnIds, kernel[c].sends # {}, UNCHANGED <<conns, sockets>>,
         NEW e \in Cqe, e.tag = "send", e.id = c, ~e.more, e.res \in {"ok", "error"},
         NEW k \in UringKernels, k.sends = {}, ~k.gap,
         k.fd = kernel[c].fd, k.shut = kernel[c].shut, k.fin = kernel[c].fin, k.recv = kernel[c].recv,
         k.peer = kernel[c].peer,
         e.res = "error" => k.peer = "reset" \/ k.shut,
         e.res = "ok" => /\ e.n >= 1 /\ e.n <= conns[c].sends[1].to - conns[c].sends[1].from + 1
                         /\ conns[c].sends[1].from + e.n = k.wire + 1,
         kernel' = [kernel EXCEPT ![c] = k], ring' = Post(e, 0)
  PROVE  UringInv'
<1> DEFINE n == conns[c]
           s == sockets[c]
           l == kernel[c]
           E == Of(ring.cq, c)
           F == E \cup {e}
<1>5. ring \in Rings BY DEF UringInv, Sane, RingNow, UringStates
<1>7. /\ n \in UringConns /\ s \in UringSockets /\ l \in UringKernels /\ OneOK(n, s, l, E)
  BY ONLY UringInv, c \in ConnIds, Now
<1>8. ring.up /\ n.mem = "live" /\ IsLive(n, s, l, E)
  BY ONLY UringInv, c \in ConnIds, kernel[c].sends # {}, Works
<1>9. /\ e.res = "error" => k.peer = "reset" \/ k.shut
      /\ e.res = "ok" => /\ e.n >= 1 /\ e.n <= n.sends[1].to - n.sends[1].from + 1
                         /\ n.sends[1].from + e.n = k.wire + 1
      /\ l.sends # {}
      /\ k.fd = l.fd /\ k.shut = l.shut /\ k.fin = l.fin /\ k.recv = l.recv /\ k.peer = l.peer
  OBVIOUS
<1>20. (\A g \in F : g \in E \/ g = e) /\ e \in F /\ E \subseteq F /\ E = Of(ring.cq, c)
       /\ n = conns[c] /\ s = sockets[c]
  OBVIOUS
<1>21. c # 0 BY ZeroIsNone
<1> HIDE DEF n, s, l, E, F
<1>10. ~Has(E, "send") /\ n.sending /\ n.sends # <<>> BY <1>8, <1>9 DEF IsLive, Sends
<1>11. Has(F, "send") BY <1>20 DEF Has
<1>12. ~l.fin /\ ~n.write_shutdown BY <1>8, <1>10 DEF IsLive, Ended
<1>13. /\ Has(E, "recv") <=> Has(F, "recv")
       /\ ~Has(E, "accept") => ~Has(F, "accept")
       /\ Final(F) <=> Final(E)
  BY <1>20 DEF Has, Final
<1>14. \A f \in F : f.tag = "send" => f = e BY <1>10, <1>20 DEF Has
<1>15. Receives(n, k, F) BY <1>8, <1>9, <1>13 DEF IsLive, Receives
<1>16. Sends(n, k, F) BY <1>10, <1>11 DEF Sends
<1>17. Results(n, k, F) BY <1>8, <1>9, <1>14 DEF IsLive, Results
<1>18. NextUnit(n, s, k, F) BY <1>8, <1>9, <1>10, <1>11, <1>14 DEF IsLive, NextUnit
<1>19. Ended(n, s, k) BY <1>8, <1>9 DEF IsLive, Ended
<1>22. IsLive(n, s, k, F) BY <1>8, <1>9, <1>13, <1>15, <1>16, <1>17, <1>18, <1>19 DEF IsLive
<1>23. OneOK(n, s, k, F) BY <1>8, <1>9, <1>12, <1>22 DEF OneOK
<1>24. Back(e) = 0 /\ IsEntry(e) /\ e.id \in {0, c} BY <1>21 DEF Back, IsEntry
<1>25. Back(e) <= ring.buffers BY <1>5, <1>24, BuffersTyped
<1>26. ring.accept \in BOOLEAN BY <1>5 DEF Rings
<1>27. ring' = PostedRing(e, ring.accept)
  <2>1. Post(e, Back(e)) = PostedRing(e, ring.accept) BY <1>25, <1>26, PostedIs
  <2> QED BY <1>24, <2>1
<1>28. \A f \in Of(ring.cq, c) : f.tag = e.tag => f.tag = "recv" /\ f.more BY <1>10, <1>20 DEF Has
<1>29. OneOK(conns[c], sockets[c], k, IF e.id = c THEN Of(ring.cq, c) \cup {e} ELSE Of(ring.cq, c))
  BY <1>20, <1>23 DEF F
<1>30. ring.up BY <1>8
<1> QED BY <1>24, <1>25, <1>26, <1>27, <1>28, <1>29, <1>30, StepPosts

Wired(l, u, w) == [l EXCEPT !.sends = {}, !.unread = u, !.wire = w, !.gap = FALSE]
Failed(l) == [l EXCEPT !.sends = {}]
SameRest(k, l) ==
  k.sends = {} /\ k.fd = l.fd /\ k.shut = l.shut /\ k.fin = l.fin /\ k.recv = l.recv /\ k.peer = l.peer

(* What a send that completes makes of its descriptor. *)
LEMMA WiredIs ==
  ASSUME NEW l \in UringKernels, NEW u \in 0..SendBuffer, NEW w \in Nat
  PROVE  /\ Wired(l, u, w) \in UringKernels /\ Wired(l, u, w).gap = FALSE /\ Wired(l, u, w).wire = w
         /\ SameRest(Wired(l, u, w), l)
<1> DEFINE j == [l EXCEPT !.sends = {}]
           h == [j EXCEPT !.unread = u, !.wire = w]
<1>1. j \in UringKernels BY DEF UringKernels
<1>2. h \in UringKernels BY <1>1 DEF UringKernels
<1>3. Wired(l, u, w) = [h EXCEPT !.gap = FALSE] BY DEF UringKernels, Wired
<1>4. Wired(l, u, w) \in UringKernels
  <2> HIDE DEF h
  <2> QED BY <1>2, <1>3 DEF UringKernels
<1> QED BY <1>4 DEF UringKernels, Wired, SameRest

LEMMA FailedIs ==
  ASSUME NEW l \in UringKernels
  PROVE  Failed(l) \in UringKernels /\ Failed(l).gap = l.gap /\ SameRest(Failed(l), l)
BY DEF UringKernels, Failed, SameRest

LEMMA Sending1 == \A c \in ConnIds : UringInv /\ SendCompletes(c) => UringInv'
<1> SUFFICES ASSUME NEW c \in ConnIds, UringInv, SendCompletes(c) PROVE UringInv' OBVIOUS
<1> DEFINE n == conns[c]
           l == kernel[c]
           dead == l.peer = "reset" \/ l.shut
           room == SendBuffer - l.unread
<1>1. UNCHANGED <<conns, sockets>> BY DEF SendCompletes
<1>2. PICK s \in l.sends :
        \/ \E m \in 1..(IF room < s.to - s.from + 1 THEN room ELSE s.to - s.from + 1) :
             /\ ~dead
             /\ kernel' = [kernel EXCEPT ![c].sends = @ \ {s}, ![c].unread = @ + m,
                              ![c].wire = @ + m, ![c].gap = @ \/ s.from # l.wire + 1]
             /\ ring' = Post([tag |-> "send", id |-> c, more |-> FALSE, res |-> "ok", n |-> m], 0)
        \/ /\ dead
           /\ kernel' = [kernel EXCEPT ![c].sends = @ \ {s}]
           /\ ring' = Post([tag |-> "send", id |-> c, more |-> FALSE, res |-> "error", n |-> 0], 0)
  BY DEF SendCompletes
<1>3. kernel[c].sends # {} BY <1>2
<1>4. kernel \in [ConnIds -> UringKernels] BY DEF UringInv, Sane, RingNow, UringStates
<1>5. /\ n \in UringConns /\ sockets[c] \in UringSockets /\ l \in UringKernels
      /\ OneOK(n, sockets[c], l, Of(ring.cq, c))
  BY ONLY UringInv, c \in ConnIds, Now
<1>6. IsLive(n, sockets[c], l, Of(ring.cq, c)) BY ONLY UringInv, c \in ConnIds, <1>3, Works
<1>7. l.sends = {n.sends[1]} /\ ~Has(Of(ring.cq, c), "send") /\ n.sends # <<>>
  BY <1>3, <1>6 DEF IsLive, Sends
<1>8. s = n.sends[1] /\ l.sends \ {s} = {} BY <1>2, <1>7
<1>9. ~l.gap /\ (n.closing <=> l.shut) BY <1>5, <1>6 DEF OneOK, IsLive
<1>10. ~dead => s.from = l.wire + 1 BY <1>6, <1>7, <1>8, <1>9 DEF IsLive, NextUnit
<1>11. s \in Span /\ s.from \in Nat /\ s.to \in Nat
  <2>1. s \in Span BY <1>2, <1>5 DEF UringKernels
  <2> QED BY <2>1 DEF Span
<1>12. l.wire \in Nat /\ l.unread \in 0..SendBuffer /\ SendBuffer \in Nat
  BY <1>5, UringAssumption DEF UringKernels
<1>13. c \in 0..MaxConns BY UringAssumption DEF ConnIds
<1>14. ASSUME NEW m \in 1..(IF room < s.to - s.from + 1 THEN room ELSE s.to - s.from + 1), ~dead,
              kernel' = [kernel EXCEPT ![c].sends = @ \ {s}, ![c].unread = @ + m,
                           ![c].wire = @ + m, ![c].gap = @ \/ s.from # l.wire + 1],
              ring' = Post([tag |-> "send", id |-> c, more |-> FALSE, res |-> "ok", n |-> m], 0)
       PROVE  UringInv'
  <2> DEFINE u == l.unread + m
             w == l.wire + m
             k == Wired(l, u, w)
             e == [tag |-> "send", id |-> c, more |-> FALSE, res |-> "ok", n |-> m]
  <2>1. m \in Nat /\ m >= 1 /\ m <= room /\ m <= s.to - s.from + 1
    <3>1. room \in Int BY <1>12
    <3> HIDE DEF room
    <3> QED BY <1>11, <3>1
  <2>2. u \in 0..SendBuffer /\ w \in Nat BY <1>12, <2>1
  <2>3. (l.gap \/ s.from # l.wire + 1) = FALSE BY <1>9, <1>10, <1>14
  <2>4. e \in Cqe BY <1>13, <2>1 DEF Cqe
  <2>5. kernel' = [kernel EXCEPT ![c] = [l EXCEPT !.sends = l.sends \ {s}, !.unread = u, !.wire = w,
                                                  !.gap = l.gap \/ s.from # l.wire + 1]]
    BY <1>4, <1>14
  <2>6. kernel' = [kernel EXCEPT ![c] = k] BY <1>8, <2>3, <2>5 DEF Wired
  <2>7. /\ e.tag = "send" /\ e.id = c /\ ~e.more /\ e.res = "ok" /\ e.n = m OBVIOUS
  <2>8. ring' = Post(e, 0) BY <1>14
  <2>20. k = Wired(l, u, w) /\ l = kernel[c] /\ n = conns[c] OBVIOUS
  <2>9. w = l.wire + m OBVIOUS
  <2> HIDE DEF e, k, u, w, l, n
  <2>10. /\ k \in UringKernels /\ k.sends = {} /\ k.gap = FALSE /\ k.wire = w
         /\ k.fd = l.fd /\ k.shut = l.shut /\ k.fin = l.fin /\ k.recv = l.recv /\ k.peer = l.peer
    <3>1. l \in UringKernels BY <1>5
    <3>2. /\ Wired(l, u, w) \in UringKernels /\ Wired(l, u, w).gap = FALSE /\ Wired(l, u, w).wire = w
          /\ SameRest(Wired(l, u, w), l)
      BY ONLY <2>2, <3>1, WiredIs
    <3>3. k \in UringKernels /\ k.gap = FALSE /\ k.wire = w /\ SameRest(k, l) BY ONLY <2>20, <3>2
    <3> QED BY ONLY <3>3 DEF SameRest
  <2>11. e.n >= 1 /\ e.n <= n.sends[1].to - n.sends[1].from + 1 BY <1>8, <2>1, <2>7
  <2>12. n.sends[1].from + e.n = k.wire + 1 BY <1>8, <1>10, <1>12, <1>14, <2>1, <2>7, <2>9, <2>10
  <2>13. e.res \in {"ok", "error"} /\ (e.res = "error" => k.peer = "reset" \/ k.shut) BY <2>7
  <2> QED BY <1>1, <1>3, <2>4, <2>6, <2>7, <2>8, <2>10, <2>11, <2>12, <2>13, <2>20, SendPosts
<1>15. ASSUME dead, kernel' = [kernel EXCEPT ![c].sends = @ \ {s}],
              ring' = Post([tag |-> "send", id |-> c, more |-> FALSE, res |-> "error", n |-> 0], 0)
       PROVE  UringInv'
  <2> DEFINE k == Failed(l)
             e == [tag |-> "send", id |-> c, more |-> FALSE, res |-> "error", n |-> 0]
  <2>4. e \in Cqe BY <1>13 DEF Cqe
  <2>6. kernel' = [kernel EXCEPT ![c] = k] BY <1>4, <1>8, <1>15 DEF Failed
  <2>7. /\ e.tag = "send" /\ e.id = c /\ ~e.more /\ e.res = "error" OBVIOUS
  <2>8. ring' = Post(e, 0) BY <1>15
  <2>20. k = Failed(l) /\ l = kernel[c] /\ n = conns[c] OBVIOUS
  <2>21. l.peer = "reset" \/ l.shut BY <1>15
  <2> HIDE DEF e, k, l, n
  <2>10. /\ k \in UringKernels /\ k.sends = {} /\ k.gap = l.gap
         /\ k.fd = l.fd /\ k.shut = l.shut /\ k.fin = l.fin /\ k.recv = l.recv /\ k.peer = l.peer
    <3>1. l \in UringKernels BY <1>5
    <3>2. Failed(l) \in UringKernels /\ Failed(l).gap = l.gap /\ SameRest(Failed(l), l) BY ONLY <3>1, FailedIs
    <3>3. k \in UringKernels /\ k.gap = l.gap /\ SameRest(k, l) BY ONLY <2>20, <3>2
    <3> QED BY ONLY <3>3 DEF SameRest
  <2>13. e.res \in {"ok", "error"} /\ (e.res = "error" => k.peer = "reset" \/ k.shut) BY <2>7, <2>10, <2>21
  <2>14. ~k.gap BY <1>9, <2>10
  <2>15. e.res # "ok" BY <2>7
  <2> QED BY <1>1, <1>3, <2>4, <2>6, <2>7, <2>8, <2>10, <2>13, <2>14, <2>15, <2>20, SendPosts
<1> QED BY <1>2, <1>14, <1>15

LEMMA PeerSteps ==
  \A c \in ConnIds : UringInv /\ (PeerReadsRing(c) \/ PeerActs(c)) => UringInv'
<1> SUFFICES ASSUME NEW c \in ConnIds, UringInv, PeerReadsRing(c) \/ PeerActs(c) PROVE UringInv' OBVIOUS
<1> DEFINE l == kernel[c]
           E == Of(ring.cq, c)
<1>1. UNCHANGED <<conns, sockets, ring>> BY DEF PeerReadsRing, PeerActs
<1>2. kernel \in [ConnIds -> UringKernels] BY DEF UringInv, Sane, RingNow, UringStates
<1>3. conns[c] \in UringConns /\ l \in UringKernels /\ OneOK(conns[c], sockets[c], l, E)
  BY ONLY UringInv, c \in ConnIds, Now
<1>4. ASSUME NEW k \in UringKernels, kernel' = [kernel EXCEPT ![c] = k],
             k.recv = l.recv, k.sends = l.sends, k.fd = l.fd, k.fin = l.fin, k.shut = l.shut,
             k.wire = l.wire, k.gap = l.gap, k.peer = l.peer \/ l.peer = "open"
      PROVE  UringInv'
  <2>20. E = Of(ring.cq, c) OBVIOUS
  <2> HIDE DEF l, E
  <2>1. conns[c].mem = "live" => IsLive(conns[c], sockets[c], k, E)
    BY <1>3, <1>4 DEF OneOK, IsLive, Receives, Sends, Queued, Results, NextUnit, Ended
  <2>2. conns[c].mem = "none" => IsNew(conns[c], sockets[c], k, E) BY <1>3, <1>4 DEF OneOK, IsNew
  <2>3. conns[c].mem \in {"dead", "freed"} => IsOver(conns[c], sockets[c], k, E)
    BY <1>3, <1>4 DEF OneOK, IsOver
  <2>4. OneOK(conns[c], sockets[c], k, E) BY <1>3, <1>4, <2>1, <2>2, <2>3 DEF OneOK
  <2> DEFINE a == [kernel EXCEPT ![c] = k]
             s == RingNow
             r == ring
             t == Following(a, r)
  <2>5. /\ Sane(s) /\ s.ring = ring /\ s.conns = conns /\ s.sockets = sockets
    BY Now
  <2>6. Drives(s, t, c, k) /\ t.ring = ring BY FollowingDrives
  <2>7. kernel' = a /\ ring' = r BY <1>1, <1>4
  <2>8. UNCHANGED <<conns, sockets>> BY <1>1
  <2> HIDE DEF a, s, r, t
  <2>9. Sane(t) BY <2>4, <2>5, <2>6, <2>20, PeerMoves
  <2> QED BY <2>7, <2>8, <2>9, FollowingBecomes DEF t
<1>5. CASE PeerReadsRing(c)
  <2> DEFINE k == [l EXCEPT !.unread = 0]
  <2>1. kernel' = [kernel EXCEPT ![c] = k] BY <1>2, <1>5 DEF PeerReadsRing
  <2>20. k = [l EXCEPT !.unread = 0] OBVIOUS
  <2>2. 0 \in 0..SendBuffer BY UringAssumption
  <2> HIDE DEF k, l
  <2>3. k \in UringKernels BY <1>3, <2>2, <2>20 DEF UringKernels
  <2>4. /\ k.recv = l.recv /\ k.sends = l.sends /\ k.fd = l.fd /\ k.fin = l.fin /\ k.shut = l.shut
        /\ k.wire = l.wire /\ k.gap = l.gap /\ k.peer = l.peer
    BY <1>3, <2>20 DEF UringKernels
  <2> QED BY <1>4, <2>1, <2>3, <2>4
<1>6. CASE PeerActs(c)
  <2>1. l.peer = "open" BY <1>6 DEF PeerActs
  <2>2. \/ kernel' = [kernel EXCEPT ![c].inbox = @ + 1, ![c].arrived = @ + 1]
        \/ \E how \in {"fin", "reset"} : kernel' = [kernel EXCEPT ![c].peer = how]
    BY <1>6 DEF PeerActs
  <2>3. CASE kernel' = [kernel EXCEPT ![c].inbox = @ + 1, ![c].arrived = @ + 1]
    <3> DEFINE i == l.inbox + 1
               j == l.arrived + 1
               k == [l EXCEPT !.inbox = i, !.arrived = j]
    <3>1. kernel' = [kernel EXCEPT ![c] = k] BY <1>2, <2>3
    <3>20. k = [l EXCEPT !.inbox = i, !.arrived = j] OBVIOUS
    <3>2. i \in Nat /\ j \in Nat
      <4>1. l.inbox \in Nat /\ l.arrived \in Nat BY <1>3 DEF UringKernels
      <4> QED BY <4>1
    <3> HIDE DEF i, j, k, l
    <3>3. k \in UringKernels
      <4>1. [l EXCEPT !.inbox = i] \in UringKernels BY <1>3, <3>2 DEF UringKernels
      <4> QED BY <1>3, <3>2, <3>20, <4>1 DEF UringKernels
    <3>4. /\ k.recv = l.recv /\ k.sends = l.sends /\ k.fd = l.fd /\ k.fin = l.fin /\ k.shut = l.shut
          /\ k.wire = l.wire /\ k.gap = l.gap /\ k.peer = l.peer
      BY <1>3, <3>20 DEF UringKernels
    <3> QED BY <1>4, <3>1, <3>3, <3>4
  <2>4. ASSUME NEW how \in {"fin", "reset"}, kernel' = [kernel EXCEPT ![c].peer = how] PROVE UringInv'
    <3> DEFINE k == [l EXCEPT !.peer = how]
    <3>1. kernel' = [kernel EXCEPT ![c] = k] BY <1>2, <2>4
    <3>20. k = [l EXCEPT !.peer = how] OBVIOUS
    <3> HIDE DEF k, l
    <3>3. k \in UringKernels BY <1>3, <3>20 DEF UringKernels
    <3>4. /\ k.recv = l.recv /\ k.sends = l.sends /\ k.fd = l.fd /\ k.fin = l.fin /\ k.shut = l.shut
          /\ k.wire = l.wire /\ k.gap = l.gap
      BY <1>3, <3>20 DEF UringKernels
    <3> QED BY <1>4, <2>1, <3>1, <3>3, <3>4
  <2> QED BY <2>2, <2>3, <2>4
<1> QED BY <1>5, <1>6

-----------------------------------------------------------------------------
(* The first states, the steps together, and what the invariant says.       *)
LEMMA NewFresh ==
  /\ NewConn \in UringConns /\ NewSocket \in UringSockets
  /\ \A k \in UringKernels :
       ~k.gap /\ ~k.recv /\ k.sends = {} /\ ~k.fin /\ ~k.shut /\ k.wire = 0
         => OneOK(NewConn, NewSocket, k, {}) /\ Reads(NewConn)
<1>1. <<>> \in Seq(Span) OBVIOUS
<1>2. NewConn \in UringConns /\ NewConn.mem = "none" BY <1>1 DEF NewConn, UringConns
<1>3. NewSocket \in UringSockets BY DEF NewSocket, UringSockets
<1>4. ~Has({}, "recv") /\ ~Has({}, "send") /\ ~Has({}, "accept") BY DEF Has
<1>5. ASSUME NEW k \in UringKernels, ~k.gap, ~k.recv, k.sends = {}, ~k.fin, ~k.shut, k.wire = 0
      PROVE  OneOK(NewConn, NewSocket, k, {}) /\ Reads(NewConn)
  BY <1>2, <1>4, <1>5 DEF OneOK, IsNew, Reads
<1> QED BY <1>2, <1>3, <1>5

LEMMA Begins == UringInit => UringInv
<1> SUFFICES ASSUME UringInit PROVE UringInv OBVIOUS
<1> DEFINE k0 == [fd |-> "none", shut |-> FALSE, fin |-> FALSE, recv |-> FALSE, sends |-> {},
                  peer |-> "open", inbox |-> 0, arrived |-> 0, unread |-> 0, wire |-> 0, gap |-> FALSE]
<1>1. conns = [c \in ConnIds |-> NewConn] /\ sockets = [c \in ConnIds |-> NewSocket]
      /\ kernel = [c \in ConnIds |-> k0]
  BY DEF UringInit, NewConn, NewSocket
<1>2. k0 \in UringKernels BY UringAssumption DEF UringKernels
<1>3. ~k0.gap /\ ~k0.recv /\ k0.sends = {} /\ ~k0.fin /\ ~k0.shut /\ k0.wire = 0 OBVIOUS
<1> HIDE DEF k0
<1>4. OneOK(NewConn, NewSocket, k0, {}) /\ Reads(NewConn) BY <1>2, <1>3, NewFresh
<1>5. PICK a \in ConnIds, b \in BOOLEAN :
        ring = [up |-> TRUE, accept |-> TRUE, cq |-> <<>>, buffers |-> BufCount,
                allow_half_open |-> b, callers |-> a, misuse |-> {}]
  BY DEF UringInit
<1>6. /\ ring.up = TRUE /\ ring.accept = TRUE /\ ring.cq = <<>> /\ ring.buffers = BufCount
      /\ ring.misuse = {}
  BY <1>5
<1>7. ring \in Rings
  <2>1. <<>> \in Seq(Cqe) OBVIOUS
  <2> QED BY <1>5, <2>1, UringAssumption DEF Rings
<1>8. /\ conns \in [ConnIds -> UringConns] /\ sockets \in [ConnIds -> UringSockets]
      /\ kernel \in [ConnIds -> UringKernels]
  BY <1>1, <1>2, NewFresh
<1>9. RingNow \in UringStates BY <1>7, <1>8 DEF UringStates, RingNow
<1>10. \A c \in ConnIds : Of(ring.cq, c) = {} BY <1>6 DEF Of
<1>11. \A c \in ConnIds : OneOK(conns[c], sockets[c], kernel[c], Of(ring.cq, c)) /\ Reads(conns[c])
  BY <1>1, <1>4, <1>10
<1>12. Filled(ring.cq) = {} BY <1>6 DEF Filled
<1>13. BufCount \in Nat BY UringAssumption
<1>14. ring.buffers + Cardinality(Filled(ring.cq)) = BufCount
  <2>1. Cardinality(Filled(ring.cq)) = 0 BY <1>12, FS_EmptySet
  <2> QED BY <1>6, <1>13, <2>1
<1>15. Sole(ring.cq) /\ \A i \in DOMAIN ring.cq : IsEntry(ring.cq[i]) BY <1>6 DEF Sole
<1>16. /\ RingNow.conns = conns /\ RingNow.sockets = sockets /\ RingNow.kernel = kernel
       /\ RingNow.ring = ring
  BY DEF RingNow
<1> QED BY ONLY <1>6, <1>9, <1>11, <1>14, <1>15, <1>16 DEF UringInv, Sane

LEMMA Stutters == UringInv /\ UNCHANGED uringVars => UringInv'
<1> SUFFICES ASSUME UringInv, UNCHANGED uringVars PROVE UringInv' OBVIOUS
<1>1. Sane(RingNow) BY DEF UringInv
<1>2. RingBecome(RingNow) BY DEF RingBecome, RingNow, uringVars
<1> QED BY <1>1, <1>2, Becomes

(* One step of the ring, JavaScript, the server, the kernel or a peer. *)
LEMMA Steps == ~BusyShutdown /\ UringInv /\ [UringStep]_uringVars => UringInv'
<1> SUFFICES ASSUME ~BusyShutdown, UringInv, [UringStep]_uringVars PROVE UringInv' OBVIOUS
<1>1. CASE onRingReadable BY <1>1, RingReadable
<1>2. CASE JsCallsRing BY <1>2, JsCalls
<1>3. CASE closeUringServer BY <1>3, ServerCloses
<1>4. CASE AcceptCompletes BY <1>4, Accepting
<1>5. ASSUME NEW c \in ConnIds, RecvCompletes(c) PROVE UringInv' BY <1>5, Receiving
<1>6. ASSUME NEW c \in ConnIds, SendCompletes(c) PROVE UringInv' BY <1>6, Sending1
<1>7. ASSUME NEW c \in ConnIds, PeerReadsRing(c) \/ PeerActs(c) PROVE UringInv' BY <1>7, PeerSteps
<1>8. CASE UNCHANGED uringVars BY <1>8, Stutters
<1> QED BY <1>1, <1>2, <1>3, <1>4, <1>5, <1>6, <1>7, <1>8 DEF UringStep, KernelWorks

LEMMA FitsBuffers == UringInv => UringTypeOK
<1> SUFFICES ASSUME UringInv PROVE UringTypeOK OBVIOUS
<1>1. RingNow \in UringStates BY DEF UringInv, Sane
<1>2. ring \in Rings BY <1>1 DEF UringStates, RingNow
<1>3. /\ conns \in [ConnIds -> UringConns] /\ sockets \in [ConnIds -> UringSockets]
      /\ kernel \in [ConnIds -> UringKernels]
  BY <1>1 DEF UringStates, RingNow
<1>4. ring.cq \in Seq(Cqe) /\ ring.buffers \in Nat BY <1>2 DEF Rings
<1>5. Cardinality(Filled(ring.cq)) \in Nat BY <1>4, FilledFinite
<1>6. BufCount \in Nat BY UringAssumption
<1>7. ring.buffers <= BufCount
  <2>1. CASE ring.up
    <3>1. ring.buffers + Cardinality(Filled(ring.cq)) = BufCount BY <2>1 DEF UringInv, Sane, RingNow
    <3> QED BY <1>4, <1>5, <1>6, <3>1
  <2>2. CASE ~ring.up BY <2>2 DEF UringInv, Sane, RingNow
  <2> QED BY <2>1, <2>2
<1>8. ring.buffers \in 0..BufCount BY <1>4, <1>6, <1>7
<1> QED BY <1>3, <1>4, <1>8 DEF UringTypeOK, UringConns, UringSockets, UringKernels

(* At most one completion that ends an operation of a connection is posted. *)
LEMMA PostedOnce ==
  ASSUME UringInv, NEW c \in ConnIds, NEW tag \in {"recv", "send"}
  PROVE  LET P == Posted(c, tag)
             some == \E e \in Of(ring.cq, c) : e.tag = tag /\ ~e.more
         IN /\ some => \E i \in P : P = {i} /\ i \in DOMAIN ring.cq /\ ring.cq[i] \in Of(ring.cq, c)
            /\ ~some => P = {}
            /\ IsFiniteSet(P) /\ Cardinality(P) = IF some THEN 1 ELSE 0
<1> DEFINE q == ring.cq
           P == Posted(c, tag)
           some == \E e \in Of(q, c) : e.tag = tag /\ ~e.more
<1>1. Sole(q) /\ q \in Seq(Cqe) BY DEF UringInv, Sane, RingNow, UringStates, Rings
<1>2. c # 0 BY ZeroIsNone
<1>3. P = {i \in DOMAIN q : q[i].id = c /\ q[i].tag = tag /\ ~q[i].more} BY DEF Posted
<1>4. \A i \in DOMAIN q : i \in Nat BY <1>1
<1>5. \A e : e \in Of(q, c) <=> \E i \in DOMAIN q : e = q[i] /\ q[i].id = c BY DEF Of
<1> HIDE DEF q
<1>6. \A i, j \in P : i = j
  <2> SUFFICES ASSUME NEW i \in P, NEW j \in P PROVE i = j OBVIOUS
  <2>1. /\ i \in DOMAIN q /\ q[i].id = c /\ q[i].tag = tag /\ ~q[i].more
        /\ j \in DOMAIN q /\ q[j].id = c /\ q[j].tag = tag /\ ~q[j].more
    BY <1>3
  <2>2. ~(i < j) BY <1>1, <1>2, <2>1 DEF Sole
  <2>3. ~(j < i) BY <1>1, <1>2, <2>1 DEF Sole
  <2>4. i \in Nat /\ j \in Nat BY <1>4, <2>1
  <2> QED BY <2>2, <2>3, <2>4
<1>7. some <=> \E i : i \in P BY <1>3, <1>5
<1>8. \A i \in P : P = {i} /\ i \in DOMAIN q /\ q[i] \in Of(q, c) BY <1>3, <1>5, <1>6
<1> HIDE DEF P, some
<1>9. ~some => P = {} BY <1>7
<1>10. some => \E i \in P : P = {i} /\ i \in DOMAIN q /\ q[i] \in Of(q, c) BY <1>7, <1>8
<1>11. IsFiniteSet(P) /\ Cardinality(P) = IF some THEN 1 ELSE 0
  <2>1. CASE some
    <3>1. PICK i \in P : P = {i} BY <1>10, <2>1
    <3> QED BY <2>1, <3>1, FS_Singleton
  <2>2. CASE ~some BY <1>9, <2>2, FS_EmptySet
  <2> QED BY <2>1, <2>2
<1> QED BY <1>9, <1>10, <1>11 DEF q, P, some

LEMMA EntriesTyped == \A q \in Seq(Cqe) : \A i \in DOMAIN q : q[i] \in Cqe
  OBVIOUS

LEMMA SpansTyped == \A q \in Seq(Span) : q # <<>> => q[1] \in Span
  OBVIOUS

LEMMA CountsHeld == UringInv => HeldIsCounted
<1> SUFFICES ASSUME UringInv, NEW c \in ConnIds
             PROVE  /\ Alive(c) => conns[c].in_flight =
                         Cardinality(Posted(c, "recv")) + Cardinality(Posted(c, "send"))
                           + Cardinality(kernel[c].sends) + (IF kernel[c].recv THEN 1 ELSE 0)
                    /\ Over(c) => /\ ~kernel[c].recv /\ kernel[c].sends = {}
                                  /\ \A i \in DOMAIN ring.cq : ring.cq[i].id # c
  BY DEF HeldIsCounted
<1> DEFINE n == conns[c]
           k == kernel[c]
           E == Of(ring.cq, c)
<1>1. n \in UringConns /\ k \in UringKernels /\ OneOK(n, sockets[c], k, E)
  BY ONLY UringInv, c \in ConnIds, Now
<1>2. ASSUME Alive(c)
      PROVE  n.in_flight = Cardinality(Posted(c, "recv")) + Cardinality(Posted(c, "send"))
                           + Cardinality(k.sends) + (IF k.recv THEN 1 ELSE 0)
  <2>1. IsLive(n, sockets[c], k, E) BY <1>1, <1>2 DEF OneOK, Alive
  <2>2. Receives(n, k, E) /\ Sends(n, k, E) /\ Results(n, k, E) BY <2>1 DEF IsLive
  <2>3. n.in_flight = (IF n.recv_active THEN 1 ELSE 0) + (IF n.sending THEN 1 ELSE 0) BY <2>1 DEF IsLive
  <2>4. Cardinality(Posted(c, "recv")) = IF Final(E) THEN 1 ELSE 0
    <3>1. Final(E) <=> \E e \in E : e.tag = "recv" /\ ~e.more BY DEF Final
    <3> QED BY <3>1, PostedOnce
  <2>5. Cardinality(Posted(c, "send")) = IF Has(E, "send") THEN 1 ELSE 0
    <3>1. Has(E, "send") <=> \E e \in E : e.tag = "send" /\ ~e.more BY <2>2 DEF Has, Results
    <3> QED BY <3>1, PostedOnce
  <2>6. Cardinality(k.sends) = IF k.sends = {} THEN 0 ELSE 1
    <3>1. CASE k.sends = {} BY <3>1, FS_EmptySet
    <3>2. CASE k.sends # {}
      <4>1. k.sends = {n.sends[1]} BY <2>2, <3>2 DEF Sends
      <4> QED BY <3>2, <4>1, FS_Singleton
    <3> QED BY <3>1, <3>2
  <2>7. (IF n.recv_active THEN 1 ELSE 0) = (IF Final(E) THEN 1 ELSE 0) + (IF k.recv THEN 1 ELSE 0)
    BY <2>2 DEF Receives
  <2>8. (IF n.sending THEN 1 ELSE 0) = (IF Has(E, "send") THEN 1 ELSE 0) + (IF k.sends = {} THEN 0 ELSE 1)
    BY <2>2 DEF Sends
  <2> HIDE DEF n, k, E
  <2> QED BY <2>3, <2>4, <2>5, <2>6, <2>7, <2>8
<1>3. ASSUME Over(c)
      PROVE  ~k.recv /\ k.sends = {} /\ \A i \in DOMAIN ring.cq : ring.cq[i].id # c
  <2>1. IsOver(n, sockets[c], k, E) BY <1>1, <1>3 DEF OneOK, Over
  <2> QED BY <2>1 DEF IsOver, Of
<1> QED BY <1>2, <1>3

LEMMA GoesOn == UringInv => ReadingGoesOn
<1> SUFFICES ASSUME UringInv PROVE ReadingGoesOn OBVIOUS
<1>1. \A c \in ConnIds : Alive(c) /\ ~conns[c].closing /\ ~conns[c].read_ended => conns[c].recv_active
  BY DEF UringInv, Sane, RingNow, Reads, Alive
<1>2. ring.up => /\ ring.accept \/ Accepts(ring.cq)
                 /\ ring.buffers + Cardinality(Filled(ring.cq)) = BufCount
  BY DEF UringInv, Sane, RingNow
<1>3. ASSUME Accepts(ring.cq)
      PROVE  \E i \in Posted(0, "accept") \cup UNION {Posted(c, "accept") : c \in ConnIds} : TRUE
  <2>1. PICK i \in DOMAIN ring.cq : ring.cq[i].tag = "accept" /\ ~ring.cq[i].more BY <1>3 DEF Accepts
  <2>2. ring.cq \in Seq(Cqe) BY DEF UringInv, Sane, RingNow, UringStates, Rings
  <2>3. ring.cq[i].id \in 0..MaxConns
    <3>1. ring.cq[i] \in Cqe BY <2>1, <2>2, EntriesTyped
    <3> QED BY <3>1 DEF Cqe
  <2>4. ring.cq[i].id = 0 \/ ring.cq[i].id \in ConnIds BY <2>3, UringAssumption DEF ConnIds
  <2>5. CASE ring.cq[i].id = 0 BY <2>1, <2>5 DEF Posted
  <2>6. CASE ring.cq[i].id \in ConnIds
    <3>1. i \in Posted(ring.cq[i].id, "accept") BY <2>1 DEF Posted
    <3> QED BY <2>6, <3>1
  <2> QED BY <2>4, <2>5, <2>6
<1> QED BY <1>1, <1>2, <1>3 DEF ReadingGoesOn, Filled

LEMMA InOrder == UringInv => SentInOrder
<1> SUFFICES ASSUME UringInv, NEW c \in ConnIds
             PROVE  /\ ~kernel[c].gap
                    /\ Alive(c) => /\ Follow(conns[c].sends, sockets[c].written)
                                   /\ conns[c].queued_bytes = Backlog(c) /\ Backlog(c) <= UringQueue
                    /\ Alive(c) /\ ~conns[c].closing /\ kernel[c].peer # "reset" =>
                         \/ /\ Posted(c, "send") = {}
                            /\ kernel[c].wire + Backlog(c) = sockets[c].written
                         \/ \E i \in Posted(c, "send") :
                              /\ Posted(c, "send") = {i}
                              /\ kernel[c].wire + Backlog(c) = sockets[c].written + ring.cq[i].n
                    /\ kernel[c].fin /\ kernel[c].peer # "reset" => kernel[c].wire = sockets[c].written
  BY DEF SentInOrder
<1> DEFINE n == conns[c]
           s == sockets[c]
           k == kernel[c]
           E == Of(ring.cq, c)
<1>1. n \in UringConns /\ s \in UringSockets /\ k \in UringKernels /\ OneOK(n, s, k, E)
  BY ONLY UringInv, c \in ConnIds, Now
<1>2. ~k.gap /\ (k.fin /\ k.peer # "reset" => k.wire = s.written) BY <1>1 DEF OneOK
<1>3. Backlog(c) = Rest(n, s) BY DEF Backlog, Rest
<1>4. Alive(c) => IsLive(n, s, k, E) BY <1>1 DEF OneOK, Alive
<1>5. Alive(c) => Follow(n.sends, s.written) /\ n.queued_bytes = Rest(n, s) /\ Rest(n, s) <= UringQueue
  BY <1>4 DEF IsLive, Queued
<1>6. ASSUME Alive(c), ~n.closing, k.peer # "reset"
      PROVE  \/ Posted(c, "send") = {} /\ k.wire + Rest(n, s) = s.written
             \/ \E i \in Posted(c, "send") :
                  Posted(c, "send") = {i} /\ k.wire + Rest(n, s) = s.written + ring.cq[i].n
  <2>1. Sends(n, k, E) /\ Results(n, k, E) /\ NextUnit(n, s, k, E) BY <1>4, <1>6 DEF IsLive
  <2>2. k.wire \in Nat /\ s.written \in Nat /\ n.sends \in Seq(Span)
    BY <1>1 DEF UringConns, UringSockets, UringKernels
  <2>3. n.sends # <<>> => n.sends[1].from \in Nat 
    <3>1. n.sends # <<>> => n.sends[1] \in Span BY <2>2, SpansTyped
    <3> QED BY <3>1 DEF Span
  <2>4. Has(E, "send") <=> \E e \in E : e.tag = "send" /\ ~e.more BY <2>1 DEF Has, Results
  <2>5. CASE ~Has(E, "send")
    <3>1. Posted(c, "send") = {} BY <2>4, <2>5, PostedOnce
    <3>2. CASE n.sends = <<>> BY <1>6, <2>1, <2>2, <3>1, <3>2 DEF NextUnit, Rest
    <3>3. CASE n.sends # <<>>
      <4>1. n.sends[1].from = k.wire + 1 BY <1>6, <2>1, <2>5, <3>3 DEF NextUnit
      <4>2. Rest(n, s) = s.written - n.sends[1].from + 1 BY <3>3 DEF Rest
      <4> QED BY <2>2, <3>1, <4>1, <4>2
    <3> QED BY <3>2, <3>3
  <2>6. CASE Has(E, "send")
    <3>1. PICK i \in Posted(c, "send") :
            Posted(c, "send") = {i} /\ i \in DOMAIN ring.cq /\ ring.cq[i] \in E
      BY <2>4, <2>6, PostedOnce
    <3>2. ring.cq[i].tag = "send" BY <3>1 DEF Posted
    <3>3. n.sends # <<>> BY <2>1, <2>6 DEF Sends
    <3>4. n.sends[1].from + ring.cq[i].n = k.wire + 1 BY <1>6, <2>1, <3>1, <3>2, <3>3 DEF NextUnit
    <3>5. ring.cq[i].n \in Nat
      <4>1. ring.cq \in Seq(Cqe) BY DEF UringInv, Sane, RingNow, UringStates, Rings
      <4>2. ring.cq[i] \in Cqe BY <3>1, <4>1, EntriesTyped
      <4> QED BY <4>2 DEF Cqe
    <3>6. Rest(n, s) = s.written - n.sends[1].from + 1 BY <3>3 DEF Rest
    <3>8. n.sends[1].from \in Nat BY <2>3, <3>3
    <3> DEFINE a == n.sends[1].from
               b == ring.cq[i].n
               w == k.wire
               z == s.written
               y == Rest(n, s)
    <3>9. a \in Nat /\ b \in Nat /\ w \in Nat /\ z \in Nat /\ a + b = w + 1 /\ y = z - a + 1
      BY <2>2, <3>4, <3>5, <3>6, <3>8
    <3> HIDE DEF a, b, w, z, y
    <3>10. w + y = z + b BY ONLY <3>9
    <3>7. k.wire + Rest(n, s) = s.written + ring.cq[i].n BY <3>10 DEF a, b, w, z, y
    <3> QED BY <3>1, <3>7
  <2> QED BY <2>5, <2>6
<1> QED BY <1>2, <1>3, <1>5, <1>6

LEMMA ToldOnce == UringInv => CloseToldOnce
<1> SUFFICES ASSUME UringInv, NEW c \in ConnIds
             PROVE  sockets[c].closes = (IF Over(c) THEN 1 ELSE 0) /\ (sockets[c].known <=> Alive(c))
  BY DEF CloseToldOnce
<1>1. conns[c] \in UringConns /\ OneOK(conns[c], sockets[c], kernel[c], Of(ring.cq, c))
  BY ONLY UringInv, c \in ConnIds, Now
<1>2. conns[c].mem \in {"none", "live", "dead", "freed"} BY <1>1 DEF UringConns
<1>3. CASE conns[c].mem = "none" BY <1>1, <1>3 DEF OneOK, IsNew, NewSocket, Over, Alive
<1>4. CASE conns[c].mem = "live" BY <1>1, <1>4 DEF OneOK, IsLive, Over, Alive
<1>5. CASE conns[c].mem \in {"dead", "freed"} BY <1>1, <1>5 DEF OneOK, IsOver, Over, Alive
<1> QED BY <1>2, <1>3, <1>4, <1>5

(* Whatever the listeners call and in whatever order completions come, no   *)
(* Conn of the io_uring server is used after it was freed, in_flight counts *)
(* what the kernel holds, no receive buffer and no accept is lost, what was *)
(* written reaches the kernel once and in order, and each socket hears of   *)
(* its close once (tcp_uring.zig, tcp.ts); for a closeServer whose close    *)
(* listeners call no other socket, any number of connections, any buffers   *)
(* and any amount sent.                                                     *)
THEOREM UringTheorem == ASSUME ~BusyShutdown PROVE UringSpec => []UringSafe
<1>1. UringInit => UringInv BY Begins
<1>2. UringInv /\ [UringStep]_uringVars => UringInv' BY Steps
<1>3. UringInv => UringSafe
  <2>1. UringInv => ring.misuse = {} BY DEF UringInv, Sane, RingNow
  <2> QED BY <2>1, FitsBuffers, CountsHeld, GoesOn, InOrder, ToldOnce DEF UringSafe
<1> QED BY <1>1, <1>2, <1>3, PTL DEF UringSpec
=============================================================================
