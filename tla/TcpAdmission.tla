---------------------------- MODULE TcpAdmission ----------------------------
(***************************************************************************)
(* tcpRateLimit: an accepted socket whose admission is decided by a store  *)
(* that may answer later, while data, drain, end and close keep arriving.  *)
(***************************************************************************)
EXTENDS Integers, SequencesExt

CONSTANT MaxArrivals     \* bound: events of the socket

ASSUME AdmissionAssumption == MaxArrivals \in Nat

VARIABLES store,        \* sync or async, as the options say
          failClosed,   \* onStoreError = "closed"
          verdict,      \* pending, admitted, denied
          buffering,
          held,        \* what waits for the verdict
          arrived,      \* every event of the socket, numbered, in order
          heard,        \* what the application's listeners were given
          ended         \* the socket has emitted close

admissionVars == <<store, failClosed, verdict, buffering, held, arrived, heard, ended>>

Kinds == {"data", "drain", "end", "close"}

AdmissionInit ==
  /\ store \in {"sync", "async"} /\ failClosed \in BOOLEAN
  /\ verdict = "pending" /\ buffering = FALSE /\ held = <<>>
  /\ arrived = <<>> /\ heard = <<>> /\ ended = FALSE

\* the handler attaches its listeners to what it is given; onLimit may attach some, too
Listening == verdict = "admitted"

\* A new connection: a sync store settles it here; an async one leaves it buffering.
\* A store that throws at once fails open or closed.
Accept ==
  /\ verdict = "pending" /\ ~ buffering
  /\ \/ store = "sync" /\ verdict' \in {"admitted", "denied"} /\ UNCHANGED buffering
     \/ store = "async" /\ buffering' = TRUE /\ UNCHANGED verdict
     \/ verdict' = (IF failClosed THEN "denied" ELSE "admitted") /\ UNCHANGED buffering
  /\ UNCHANGED <<store, failClosed, held, arrived, heard, ended>>

\* the listeners tcpRateLimit itself put on the socket
Passes(kind) ==
  LET e == [n |-> Len(arrived) + 1, kind |-> kind]
  IN IF buffering THEN held' = Append(held, e) /\ UNCHANGED heard
     ELSE heard' = (IF Listening THEN Append(heard, e) ELSE heard) /\ UNCHANGED held

Arrive(kind) ==
  /\ verdict # "pending" \/ buffering
  /\ ~ ended /\ Len(arrived) < MaxArrivals
  /\ arrived' = Append(arrived, [n |-> Len(arrived) + 1, kind |-> kind])
  /\ ended' = (kind = "close")
  /\ Passes(kind)
  /\ UNCHANGED <<store, failClosed, verdict, buffering>>

\* seeded fault: what waited is thrown away with the verdict of a failing store
SettledForgets(allowed, stored) ==
  /\ verdict' = IF allowed THEN "admitted" ELSE "denied"
  /\ buffering' = FALSE /\ held' = <<>>
  /\ heard' = IF allowed /\ stored THEN heard \o held ELSE heard

\* settle: the handler first, then the held in the order it filled
Settled(allowed, stored) ==
  /\ verdict' = IF allowed THEN "admitted" ELSE "denied"
  /\ buffering' = FALSE /\ held' = <<>>
  /\ heard' = IF allowed THEN heard \o held ELSE heard

\* the store answers within or over the limit, or rejects
Verdict ==
  /\ buffering
  /\ \/ \E allowed \in BOOLEAN : Settled(allowed, TRUE)
     \/ Settled(~ failClosed, FALSE)
  /\ UNCHANGED <<store, failClosed, arrived, ended>>

AdmissionStep == Accept \/ (\E kind \in Kinds : Arrive(kind)) \/ Verdict

-----------------------------------------------------------------------------
AdmissionTypeOK ==
  /\ verdict \in {"pending", "admitted", "denied"}
  /\ {e.kind : e \in Range(arrived)} \subseteq Kinds
  /\ buffering => verdict = "pending" /\ store = "async"

\* "buffers any bytes that arrive while the verdict is in flight and replays them once the
\* connection is admitted, so nothing is lost or reordered"; a connection that was refused
\* or is not decided yet has told the handler nothing.
AdmittedHearsAll ==
  heard = IF verdict = "admitted" THEN arrived ELSE <<>>

\* The same, with the shape of the state.
AdmissionCorrect == AdmissionTypeOK /\ AdmittedHearsAll
=============================================================================
