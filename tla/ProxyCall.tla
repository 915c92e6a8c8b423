----------------------------- MODULE ProxyCall ------------------------------
(***************************************************************************)
(* One request through proxy(): the call of the upstream, its deadline, and *)
(* the body passed on by the stream driver.                                *)
(***************************************************************************)
EXTENDS Integers

CONSTANT MaxChunks       \* bound: chunks of the upstream's body

ASSUME ProxyAssumption == MaxChunks \in Nat

VARIABLES deadlineMs,    \* options.timeoutMs is set
          call,          \* ready, fetching, streaming, ended
          deadline,      \* off, set, fired
          client,        \* the client's connection is there
          chunks         \* passed on so far

proxyVars == <<deadlineMs, call, deadline, client, chunks>>

ProxyInit ==
  /\ deadlineMs \in BOOLEAN /\ call = "ready" /\ deadline = "off" /\ client = TRUE /\ chunks = 0

Cleared == IF deadline = "set" THEN "off" ELSE deadline

\* a target off the upstream's origin is answered 502 before anything is armed
OffOrigin == /\ call = "ready" /\ call' = "ended" /\ UNCHANGED <<deadlineMs, deadline, client, chunks>>

Fetches ==
  /\ call = "ready" /\ call' = "fetching"
  /\ deadline' = IF deadlineMs THEN "set" ELSE "off"
  /\ UNCHANGED <<deadlineMs, client, chunks>>

\* the upstream cannot be reached, or the deadline aborts the fetch: 502
FetchRejected == call' = "ended" /\ deadline' = Cleared

FetchFails == /\ call = "fetching" /\ FetchRejected /\ UNCHANGED <<deadlineMs, client, chunks>>

\* seeded fault: the deadline ends with the headers
PassesOnUnguarded == call' = "streaming" /\ deadline' = Cleared

\* the response has a body: it is streamed under the same deadline
PassesOn == call' = "streaming" /\ UNCHANGED deadline

UpstreamAnswers ==
  /\ call = "fetching"
  /\ \/ PassesOn
     \/ call' = "ended" /\ deadline' = Cleared    \* no body
  /\ UNCHANGED <<deadlineMs, client, chunks>>

\* passThrough's finally: the end, an error, and the driver's return() when a write fails
GeneratorEnds == call' = "ended" /\ deadline' = Cleared

ChunkComes ==
  /\ call = "streaming" /\ chunks < MaxChunks
  /\ IF client THEN chunks' = chunks + 1 /\ UNCHANGED <<call, deadline>>
     ELSE GeneratorEnds /\ UNCHANGED chunks
  /\ UNCHANGED <<deadlineMs, client>>

BodyEnds == /\ call = "streaming" /\ GeneratorEnds /\ UNCHANGED <<deadlineMs, client, chunks>>

\* controller.abort(): the fetch, or the read of the body, rejects
DeadlineFires ==
  /\ deadline = "set" /\ deadline' = "fired" /\ call' = "ended"
  /\ UNCHANGED <<deadlineMs, client, chunks>>

ClientGone == client /\ client' = FALSE /\ UNCHANGED <<deadlineMs, call, deadline, chunks>>

ProxyStep == \/ OffOrigin \/ Fetches \/ FetchFails \/ UpstreamAnswers
             \/ ChunkComes \/ BodyEnds \/ DeadlineFires \/ ClientGone

-----------------------------------------------------------------------------
ProxyTypeOK ==
  /\ call \in {"ready", "fetching", "streaming", "ended"}
  /\ deadline \in {"off", "set", "fired"}
  /\ chunks \in 0..MaxChunks

\* A call that is over leaves no timer behind, whichever way it ended.
NoTimerLeft == deadline = "set" => call \in {"fetching", "streaming"}

\* "Abort the upstream call after this many ms": a call with a deadline ends, also when the
\* upstream falls silent in the middle of its body or the client has left meanwhile.
ProxyEnds == (deadlineMs /\ call # "ready") ~> (call = "ended")

\* A proxied call ends in time and cleans up after itself, whoever falls silent, leaves or
\* fails first (proxy.ts).
ProxyCorrect == [](ProxyTypeOK /\ NoTimerLeft) /\ ProxyEnds
=============================================================================
