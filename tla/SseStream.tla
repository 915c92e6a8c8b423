------------------------------ MODULE SseStream -----------------------------
(***************************************************************************)
(* A server-sent event stream: the producer pushes into a Channel, the     *)
(* generator of sse() pulls from it, and the application's stream driver   *)
(* (#drive) pulls from the generator and writes to the connection.  Events *)
(* are numbered; a heartbeat comment is Beat.                              *)
(***************************************************************************)
EXTENDS Integers, SequencesExt

CONSTANTS MaxEvents,     \* bound: events the producer sends
          MaxQueue       \* Channel's maxQueue

ASSUME SseAssumption == MaxEvents \in Nat /\ MaxQueue \in Nat \ {0}

VARIABLES queue,       \* Channel.#queue
          pull,        \* Channel.#pending: none, waiting, or what it was resolved with
          shut,        \* Channel.#closed
          generator,   \* fresh, starting (the producer's first part runs), at its
                       \* await, at its yield, ended
          producer,    \* fresh, running, returned, or thrown before its first await
          heartbeat,   \* the interval is set
          aborted,     \* stream.signal
          peer,        \* the client is connected
          produced,    \* events sent so far
          accepted, dropped,   \* those pushed while the channel was open; those it dropped
          written      \* those written to the client, in order

sseVars == <<queue, pull, shut, generator, producer, heartbeat, aborted, peer,
             produced, accepted, dropped, written>>

Beat    == 0
NoPull  == -1
Waiting == -2
Done    == -3

SseInit ==
  /\ queue = <<>> /\ pull = NoPull /\ shut = FALSE
  /\ generator = "fresh" /\ producer = "fresh" /\ heartbeat = FALSE /\ aborted = FALSE
  /\ peer = TRUE /\ produced = 0 /\ accepted = {} /\ dropped = {} /\ written = <<>>

Events(s) == {v \in s : v # Beat}

-----------------------------------------------------------------------------
(* The channel.                                                             *)

\* push on an open channel: to the waiting consumer, or to the queue, whose oldest gives way
Push(v) ==
  /\ accepted' = accepted \cup Events({v})
  /\ IF pull = Waiting
     THEN pull' = v /\ UNCHANGED <<queue, dropped>>
     ELSE /\ UNCHANGED pull
          /\ queue' = Append(IF Len(queue) >= MaxQueue THEN Tail(queue) ELSE queue, v)
          /\ dropped' = IF Len(queue) >= MaxQueue THEN dropped \cup Events({Head(queue)})
                        ELSE dropped

PushIfOpen(v) == IF shut THEN UNCHANGED <<queue, pull, accepted, dropped>> ELSE Push(v)

\* close
Shut == /\ shut' = TRUE
        /\ pull' = IF pull = Waiting THEN Done ELSE pull

\* next
Pulled ==
  /\ pull' = IF queue # <<>> THEN Head(queue) ELSE IF shut THEN Done ELSE Waiting
  /\ queue' = IF queue # <<>> THEN Tail(queue) ELSE queue

-----------------------------------------------------------------------------
(* The generator and the driver.                                            *)

\* seeded fault: the interval is left running
FinallyKeepsHeartbeat ==
  /\ generator' = "ended" /\ aborted' = TRUE /\ shut' = TRUE /\ pull' = NoPull
  /\ UNCHANGED heartbeat

\* the finally block: reached from the end of the channel and from generator.return()
Finally ==
  /\ generator' = "ended" /\ aborted' = TRUE /\ shut' = TRUE /\ pull' = NoPull
  /\ heartbeat' = FALSE

\* the driver's first next(): the interval, then the producer up to its first await, in one
\* turn, in which it may already send and close
Start ==
  /\ generator = "fresh" /\ generator' = "starting"
  /\ heartbeat' = TRUE /\ producer' = "running"
  /\ UNCHANGED <<queue, pull, shut, aborted, peer, produced, accepted, dropped, written>>

\* the producer awaits or returns, and the loop makes its first pull
FirstPull ==
  /\ generator = "starting" /\ generator' = "awaiting" /\ Pulled
  /\ UNCHANGED <<shut, producer, heartbeat, aborted, peer, produced, accepted, dropped, written>>

\* a throw from the producer itself comes before the try block
ProducerThrows ==
  /\ generator = "starting" /\ generator' = "ended" /\ producer' = "threw"
  /\ UNCHANGED <<queue, pull, shut, heartbeat, aborted, peer, produced, accepted, dropped, written>>

\* a value has come: it is yielded and written; a write to a client that left ends the loop
Yield ==
  /\ generator = "awaiting" /\ pull >= Beat
  /\ IF peer
     THEN /\ generator' = "yielded" /\ pull' = NoPull
          /\ written' = IF pull = Beat THEN written ELSE Append(written, pull)
          /\ UNCHANGED <<heartbeat, aborted, shut>>
     ELSE Finally /\ UNCHANGED written
  /\ UNCHANGED <<queue, producer, peer, produced, accepted, dropped>>

\* the driver asks for the next one, at once or after the socket has drained
Resume ==
  /\ generator = "yielded"
  /\ generator' = "awaiting" /\ Pulled
  /\ UNCHANGED <<shut, producer, heartbeat, aborted, peer, produced, accepted, dropped, written>>

End ==
  /\ generator = "awaiting" /\ pull = Done
  /\ Finally
  /\ UNCHANGED <<queue, producer, peer, produced, accepted, dropped, written>>

-----------------------------------------------------------------------------
(* The producer, the timer and the client.                                  *)

Produce ==
  /\ producer = "running" /\ produced < MaxEvents
  /\ produced' = produced + 1
  /\ PushIfOpen(produced + 1)
  /\ UNCHANGED <<shut, generator, producer, heartbeat, aborted, peer, written>>

\* the producer returns or rejects: its then() closes the channel, in a turn of its own
ProducerReturns ==
  /\ producer = "running" /\ generator # "starting" /\ producer' = "returned"
  /\ IF shut THEN UNCHANGED <<shut, pull>> ELSE Shut
  /\ UNCHANGED <<queue, generator, heartbeat, aborted, peer, produced, accepted, dropped, written>>

\* stream.close()
CloseStream ==
  /\ producer = "running" /\ ~ shut /\ Shut
  /\ UNCHANGED <<queue, generator, producer, heartbeat, aborted, peer, produced, accepted,
                 dropped, written>>

HeartbeatFires ==
  /\ heartbeat /\ ~ shut /\ generator # "starting"
  /\ Push(Beat)
  /\ UNCHANGED <<shut, generator, producer, heartbeat, aborted, peer, produced, written>>

ClientLeaves ==
  /\ peer /\ generator \notin {"fresh", "starting"} /\ peer' = FALSE
  /\ UNCHANGED <<queue, pull, shut, generator, producer, heartbeat, aborted, produced, accepted,
                 dropped, written>>

SseStep == \/ Start \/ FirstPull \/ ProducerThrows \/ Yield \/ Resume \/ End
           \/ Produce \/ ProducerReturns \/ CloseStream \/ HeartbeatFires \/ ClientLeaves

-----------------------------------------------------------------------------
(* Properties.                                                              *)

SseTypeOK ==
  /\ Len(queue) <= MaxQueue
  /\ pull \in {NoPull, Waiting, Done} \cup 0..MaxEvents
  /\ Range(queue) \cup accepted \cup dropped \cup Range(written) \subseteq 0..MaxEvents
  /\ (pull # NoPull) = (generator = "awaiting")

\* The consumer never sleeps on a channel that has something for it or has been closed.
NoLostWakeup == pull = Waiting => queue = <<>> /\ ~ shut

\* The client is written every event the channel took and did not drop, once and in order;
\* close() lets what is queued go out first.
EventsInOrder ==
  /\ \A i, j \in DOMAIN written : i < j => written[i] < written[j]
  /\ generator = "ended" /\ peer /\ producer # "threw" => Range(written) \cup dropped = accepted

\* "When the producer returns, or the client disconnects, the stream closes and the
\* heartbeat is cleared", and stream.signal aborts: by the next beat at the latest.
StreamEnds ==
  (producer \in {"running", "returned"} /\ (~ peer \/ producer = "returned"))
    ~> (generator = "ended" /\ ~ heartbeat /\ aborted)

\* A stream writes its events and ends, however producer, consumer, heartbeat and client
\* interleave (channel.ts, sse.ts).
SseCorrect == [](SseTypeOK /\ NoLostWakeup /\ EventsInOrder) /\ StreamEnds
=============================================================================
