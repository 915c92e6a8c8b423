----------------------------- MODULE UdpReplay ------------------------------
(***************************************************************************)
(* The pre-shared-key UDP socket: a datagram is opened, then checked       *)
(* against a ReplayWindow, then delivered.  A datagram is its nonce; the   *)
(* network repeats, reorders and loses datagrams and brings some nobody    *)
(* sealed.                                                                 *)
(***************************************************************************)
EXTENDS Integers, SequencesExt

CONSTANTS MaxSealed,     \* bound: datagrams the peer seals
          MaxDatagrams,   \* bound: datagrams that arrive
          WindowSize     \* antiReplay: the nonces remembered

ASSUME ReplayAssumption ==
  MaxSealed \in Nat /\ MaxDatagrams \in Nat /\ WindowSize \in Nat \ {0}

VARIABLES sealedUpTo,    \* nonces 1..sealedUpTo have been used
          ring, ringHead, seen,   \* ReplayWindow's fields
          taken,         \* what onMessage was given, in order
          refused,       \* genuine datagrams that were dropped
          arrivals

replayVars == <<sealedUpTo, ring, ringHead, seen, taken, refused, arrivals>>

Empty == 0

ReplayInit ==
  /\ sealedUpTo = 0 /\ ring = [i \in 0..WindowSize - 1 |-> Empty] /\ ringHead = 0 /\ seen = {}
  /\ taken = <<>> /\ refused = {} /\ arrivals = 0

\* accept, of a nonce not seen
Remembered(nonce) ==
  /\ seen' = (seen \ {ring[ringHead]}) \cup {nonce}
  /\ ring' = [ring EXCEPT ![ringHead] = nonce]
  /\ ringHead' = (ringHead + 1) % WindowSize

Unremembered == UNCHANGED <<ring, ringHead, seen>>

\* seeded fault: the window is asked before the datagram is opened
ReceivedUnchecked(nonce, genuine) ==
  /\ IF nonce \in seen THEN Unremembered ELSE Remembered(nonce)
  /\ taken' = IF genuine /\ nonce \notin seen THEN Append(taken, nonce) ELSE taken
  /\ refused' = IF genuine /\ nonce \in seen THEN refused \cup {nonce} ELSE refused

\* the dispatch of bind: openDatagram fails on what is not genuine
Received(nonce, genuine) ==
  IF genuine /\ nonce \notin seen
  THEN Remembered(nonce) /\ taken' = Append(taken, nonce) /\ UNCHANGED refused
  ELSE /\ Unremembered /\ UNCHANGED taken
       /\ refused' = IF genuine THEN refused \cup {nonce} ELSE refused

Seal == /\ sealedUpTo < MaxSealed /\ sealedUpTo' = sealedUpTo + 1
        /\ UNCHANGED <<ring, ringHead, seen, taken, refused, arrivals>>

\* anything sealed arrives, as often as the network likes; a forgery may bear any nonce
DatagramArrives ==
  /\ arrivals < MaxDatagrams /\ arrivals' = arrivals + 1
  /\ \E nonce \in 1..MaxSealed, genuine \in BOOLEAN :
       (genuine => nonce <= sealedUpTo) /\ Received(nonce, genuine)
  /\ UNCHANGED sealedUpTo

ReplayStep == Seal \/ DatagramArrives

-----------------------------------------------------------------------------
ReplayTypeOK ==
  /\ ring \in [0..WindowSize - 1 -> 0..MaxSealed] /\ ringHead \in 0..WindowSize - 1
  /\ seen \subseteq 1..MaxSealed
  /\ refused \subseteq 1..sealedUpTo

\* A datagram is delivered a second time only after WindowSize others: "remembering this
\* many recent nonces".
ReplaysAreOld ==
  \A i, j \in DOMAIN taken : i < j /\ taken[i] = taken[j] => j - i > WindowSize

\* "authenticate FIRST, then replay-check": nothing anybody else sends makes the socket
\* drop a datagram it has not delivered.
OnlyRepeatsRefused == refused \subseteq Range(taken)

\* The replay window refuses what it has delivered lately and nothing else
\* (secure-datagram.ts).
ReplayCorrect == ReplayTypeOK /\ ReplaysAreOld /\ OnlyRepeatsRefused
=============================================================================
