---------------------------- MODULE HttpDispatch ----------------------------
(***************************************************************************)
(* Connections, dispatch ids and the requests JavaScript is working on:    *)
(* the pool of Conn slots, the map `pending', nextId, submitResponse and   *)
(* the stream exports, onSweep, closeServer and onClose                    *)
(* (src/src/core/engine.zig, loop.zig, server.zig, src/src/http/stream.zig)*)
(* against #dispatch, #armTimeout, #submit and #drive (src/ts/core/app.ts).*)
(*                                                                         *)
(* A slot is freed in onClose and may be handed to the next connection     *)
(* while a handler that was started for the previous one is still running. *)
(* Job k is the k-th dispatch; its id wraps around after IdSpace of them.  *)
(* What a connection buffers is abstracted to the number of complete       *)
(* requests (ready) and whether part of another follows (partial);         *)
(* HttpPipeline has the detail.  drain runs on one thread: while           *)
(* `draining' is a slot nothing but it steps, save the handlers it calls.  *)
(***************************************************************************)
EXTENDS Integers

CONSTANTS
    Slots,          \* Conn slots of conn_pool
    NoSlot,
    IdSpace,        \* ids are 1..IdSpace, 2^32 - 1 in the code
    MaxDispatch,    \* bound: dispatches
    MaxReady,       \* bound: requests one read completes
    RequestTimeout  \* requestTimeoutMs > 0

ASSUME NoSlotAssumption == NoSlot \notin Slots
ASSUME DispatchBounds ==
    /\ IdSpace \in Nat \ {0} /\ MaxDispatch \in Nat /\ MaxReady \in Nat
    /\ RequestTimeout \in BOOLEAN

VARIABLES
    conn,           \* the Conn in each slot
    pending,        \* eng.pending: dispatch id -> slot, NoSlot where absent
    next_id,        \* eng.next_id
    count,          \* dispatches so far
    jobs,           \* the k-th dispatch, as app.ts sees it
    sent,           \* what request k has been sent of its response
    draining,       \* the connection drain is working on
    server_closing

dispatchVars == <<conn, pending, next_id, count, jobs, sent, draining, server_closing>>
js == <<next_id, count, jobs>>

Ids == 1..IdSpace
Dispatches == 1..MaxDispatch

Free == [st |-> "free", awaiting |-> FALSE, reading |-> FALSE, dispatch_id |-> 0, req |-> 0,
         ready |-> 0, partial |-> FALSE, aged |-> FALSE]
Conn == [st : {"free", "open", "closing"}, awaiting : BOOLEAN, reading : BOOLEAN,
         dispatch_id : 0..IdSpace, req : 0..MaxDispatch, ready : 0..MaxReady,
         partial : BOOLEAN, aged : BOOLEAN]

NoJob == [st |-> "none", id |-> 1, timer |-> FALSE]
Job == [st : {"none", "running", "starting", "streaming", "done"}, id : Ids, timer : BOOLEAN]

DispatchInit ==
    /\ conn = [s \in Slots |-> Free]
    /\ pending = [i \in Ids |-> NoSlot]
    /\ next_id = 1
    /\ count = 0
    /\ jobs = [k \in Dispatches |-> NoJob]
    /\ sent = [k \in Dispatches |-> "none"]
    /\ draining = NoSlot
    /\ server_closing = FALSE

Idle == draining = NoSlot

-----------------------------------------------------------------------------
(* onConnection: a slot of the pool, every field reset, reads armed. *)
onConnection(s) ==
    /\ Idle
    /\ ~server_closing
    /\ conn[s].st = "free"
    /\ conn' = [conn EXCEPT ![s] = [Free EXCEPT !.st = "open", !.reading = TRUE]]
    /\ UNCHANGED <<pending, js, sent, draining, server_closing>>

(* onRead: k requests are complete now, and part of another may follow. *)
onRead(s, k, rest) ==
    /\ Idle
    /\ conn[s].reading
    /\ k > 0 \/ rest
    /\ conn' = [conn EXCEPT ![s].ready = k, ![s].partial = rest, ![s].aged = FALSE]
    /\ draining' = s
    /\ UNCHANGED <<pending, js, sent, server_closing>>

(* onRead at the end of the connection, or after an error. *)
onReadEnd(s) ==
    /\ Idle
    /\ conn[s].reading
    /\ conn' = [conn EXCEPT ![s].st = "closing", ![s].reading = FALSE]
    /\ UNCHANGED <<pending, js, sent, draining, server_closing>>

-----------------------------------------------------------------------------
nextId == IF next_id = IdSpace THEN 1 ELSE next_id + 1

(* A dispatch to JavaScript: an id is taken whatever the handler does. *)
Issue(job) ==
    /\ count < MaxDispatch
    /\ count' = count + 1
    /\ next_id' = nextId
    /\ jobs' = [jobs EXCEPT ![count + 1] = job]

(* The handler answers at once; the response goes to the cork. *)
DispatchSync(s) ==
    /\ draining = s
    /\ conn[s].ready > 0
    /\ Issue([st |-> "done", id |-> next_id, timer |-> FALSE])
    /\ conn' = [conn EXCEPT ![s].ready = @ - 1]
    /\ sent' = [sent EXCEPT ![count + 1] = "complete"]
    /\ UNCHANGED <<pending, draining, server_closing>>

(* #armTimeout: a handler that returned a Promise is timed. *)
NeverArmed(kind) == FALSE                               \* seeded fault
armTimeout(kind) == RequestTimeout /\ kind = "running"

(* The handler returned a Promise ("running"), or a stream that #drive      *)
(* starts in a microtask ("starting"): the connection is suspended under    *)
(* its id and reads stop.                                                   *)
DispatchAsync(s, kind) ==
    /\ draining = s
    /\ conn[s].ready > 0
    /\ Issue([st |-> kind, id |-> next_id, timer |-> armTimeout(kind)])
    /\ pending' = [pending EXCEPT ![next_id] = s]
    /\ conn' = [conn EXCEPT ![s].ready = @ - 1, ![s].awaiting = TRUE, ![s].reading = FALSE,
                            ![s].dispatch_id = next_id, ![s].req = count + 1]
    /\ draining' = NoSlot
    /\ UNCHANGED <<sent, server_closing>>

(* The end of drain (or the bound): close when a request asked for it, or   *)
(* when a write went over the cap.                                          *)
DrainEnd(s, close) ==
    /\ draining = s
    /\ conn[s].ready = 0 \/ count = MaxDispatch
    /\ conn' = IF close THEN [conn EXCEPT ![s].ready = 0, ![s].st = "closing", ![s].reading = FALSE]
                        ELSE [conn EXCEPT ![s].ready = 0]
    /\ draining' = NoSlot
    /\ UNCHANGED <<pending, js, sent, server_closing>>

-----------------------------------------------------------------------------
(***************************************************************************)
(* The exports, called by job j with its id.  What they write goes to the  *)
(* request the connection found under that id is suspended on.             *)
(***************************************************************************)
Found(j) == pending[jobs[j].id] # NoSlot
Target(j) == pending[jobs[j].id]
Live(j) == Found(j) /\ conn[Target(j)].st = "open"

(* A response is right when its own job sends it, whole or head to end. *)
AfterPart(was, part) ==
    CASE was = "none" /\ part = "full" -> "complete"
      [] was = "none" /\ part = "head" -> "streaming"
      [] was = "streaming" /\ part = "chunk" -> "streaming"
      [] was = "streaming" /\ part = "end" -> "complete"
      [] OTHER -> "corrupt"

Deliver(j, part) ==
    LET r == conn[Target(j)].req
    IN  sent' = [sent EXCEPT ![r] = IF r = j THEN AfterPart(@, part) ELSE "corrupt"]

ForgetNot(j) == UNCHANGED pending                       \* seeded fault
Forget(j) == pending' = [pending EXCEPT ![jobs[j].id] = NoSlot]

(* What follows the last write: resume, or close.  A write over the cap has *)
(* closed the connection under its feet; reads are not armed then, and what *)
(* is buffered is drained all the same.                                     *)
Outcomes == {"resume", "close", "overcap"}
StillAwaiting(c, how) ==                                \* seeded fault
    [c EXCEPT !.reading = (how = "resume"), !.st = IF how = "resume" THEN "open" ELSE "closing"]
Resumed(c, how) ==
    [c EXCEPT !.awaiting = FALSE,
              !.reading = (how = "resume"),
              !.st = IF how = "resume" THEN "open" ELSE "closing"]

submitMiss(j) == ~Found(j) /\ UNCHANGED <<conn, pending, sent, draining>>

submitClosing(j) ==
    /\ Found(j) /\ ~Live(j)
    /\ Forget(j)
    /\ UNCHANGED <<conn, sent, draining>>

submitLive(j, part) ==
    /\ Live(j)
    /\ Forget(j)
    /\ Deliver(j, part)
    /\ \E how \in Outcomes :
        /\ conn' = [conn EXCEPT ![Target(j)] = Resumed(@, how)]
        /\ draining' = IF how = "close" THEN NoSlot ELSE Target(j)

(* submitResponse, and endStream but for what they write. *)
submitResponse(j, part) == submitMiss(j) \/ submitClosing(j) \/ submitLive(j, part)

(* startStream and writeStreamChunk leave the connection suspended. *)
streamWrite(j, part) ==
    \/ ~Live(j) /\ UNCHANGED <<conn, sent>>
    \/ /\ Live(j)
       /\ Deliver(j, part)
       /\ \E over \in BOOLEAN :
            conn' = IF over THEN [conn EXCEPT ![Target(j)].st = "closing"] ELSE conn

-----------------------------------------------------------------------------
(* The Promise settles with a response, or with an error that becomes one. *)
Settle(j) ==
    /\ Idle
    /\ jobs[j].st = "running"
    /\ jobs' = [jobs EXCEPT ![j].st = "done", ![j].timer = FALSE]
    /\ submitResponse(j, "full")
    /\ UNCHANGED <<next_id, count, server_closing>>

(* The Promise settles with a stream, or the microtask of #dispatch runs. *)
driveSafe(j) ==
    /\ Idle
    /\ jobs[j].st \in {"running", "starting"}
    /\ jobs' = [jobs EXCEPT ![j].st = "streaming", ![j].timer = FALSE]
    /\ streamWrite(j, "head")
    /\ UNCHANGED <<pending, next_id, count, draining, server_closing>>

(* The next chunk; -1 ends the loop, and `finally' calls endStream. *)
Chunk(j) ==
    /\ Idle
    /\ jobs[j].st = "streaming"
    /\ \/ /\ Live(j)
          /\ streamWrite(j, "chunk")
          /\ UNCHANGED <<pending, jobs>>
       \/ /\ ~Live(j)
          /\ jobs' = [jobs EXCEPT ![j].st = "done"]
          /\ Forget(j)
          /\ UNCHANGED <<conn, sent>>
    /\ UNCHANGED <<next_id, count, draining, server_closing>>

(* The source is exhausted, or threw. *)
SourceEnds(j) ==
    /\ Idle
    /\ jobs[j].st = "streaming"
    /\ jobs' = [jobs EXCEPT ![j].st = "done"]
    /\ submitResponse(j, "end")
    /\ UNCHANGED <<next_id, count, server_closing>>

(* The timer fires: 408 under the same id; the handler goes on running. *)
TimeoutFires(j) ==
    /\ Idle
    /\ jobs[j].timer
    /\ jobs' = [jobs EXCEPT ![j].timer = FALSE]
    /\ submitResponse(j, "full")
    /\ UNCHANGED <<next_id, count, server_closing>>

-----------------------------------------------------------------------------
(* The header timeout passes since the last read of s, whether or not its   *)
(* reads were stopped meanwhile.  Only onSweep looks at the age, and only   *)
(* when part of a request is buffered.                                      *)
Age(s) ==
    /\ Idle
    /\ conn[s].st = "open" /\ conn[s].partial /\ ~conn[s].aged
    /\ conn' = [conn EXCEPT ![s].aged = TRUE]
    /\ UNCHANGED <<pending, js, sent, draining, server_closing>>

Stalled(c) == c.st = "open" /\ ~c.awaiting /\ c.partial /\ c.aged

onSweep ==
    /\ Idle
    /\ ~server_closing
    /\ \E s \in Slots : Stalled(conn[s])
    /\ conn' = [s \in Slots |->
                  IF Stalled(conn[s]) THEN [conn[s] EXCEPT !.st = "closing", !.reading = FALSE]
                                      ELSE conn[s]]
    /\ UNCHANGED <<pending, js, sent, draining, server_closing>>

(* close(), from a callback or from inside a handler that drain has called. *)
closeServer ==
    /\ ~server_closing
    /\ server_closing' = TRUE
    /\ conn' = [s \in Slots |->
                  IF conn[s].st = "open" THEN [conn[s] EXCEPT !.st = "closing", !.reading = FALSE]
                                         ELSE conn[s]]
    /\ UNCHANGED <<pending, js, sent, draining>>

(* onClose: the entry of an awaiting connection goes with it, and the slot  *)
(* returns to the pool.                                                     *)
onConnCloseKeepsEntry(s) ==                                 \* seeded fault
    /\ Idle
    /\ conn[s].st = "closing"
    /\ conn' = [conn EXCEPT ![s] = Free]
    /\ UNCHANGED <<pending, js, sent, draining, server_closing>>

onConnClose(s) ==
    /\ Idle
    /\ conn[s].st = "closing"
    /\ pending' = IF conn[s].awaiting THEN [pending EXCEPT ![conn[s].dispatch_id] = NoSlot]
                                      ELSE pending
    /\ conn' = [conn EXCEPT ![s] = Free]
    /\ UNCHANGED <<js, sent, draining, server_closing>>

-----------------------------------------------------------------------------
Drain(s) ==
    \/ DispatchSync(s)
    \/ \E kind \in {"running", "starting"} : DispatchAsync(s, kind)
    \/ \E close \in BOOLEAN : DrainEnd(s, close)

Network(s) ==
    \/ onConnection(s)
    \/ \E k \in 0..MaxReady, rest \in BOOLEAN : onRead(s, k, rest)
    \/ onReadEnd(s)
    \/ Age(s)

Script(j) == Settle(j) \/ driveSafe(j) \/ Chunk(j) \/ SourceEnds(j) \/ TimeoutFires(j)

DispatchNext ==
    \/ \E s \in Slots : Network(s) \/ Drain(s) \/ onConnClose(s)
    \/ \E j \in Dispatches : Script(j)
    \/ onSweep
    \/ closeServer

(***************************************************************************)
(* drain runs to its end; the event loop comes round to a timer that is    *)
(* due, a stream that has been returned and a source that ends, whatever   *)
(* drains run in between (so strong fairness).  A Promise need not settle. *)
(***************************************************************************)
Due(j) == TimeoutFires(j) \/ (jobs[j].st = "starting" /\ driveSafe(j)) \/ SourceEnds(j)

Fairness ==
    /\ \A s \in Slots : WF_dispatchVars(Drain(s))
    /\ \A j \in Dispatches : SF_dispatchVars(Due(j))

DispatchSpec == DispatchInit /\ [][DispatchNext]_dispatchVars /\ Fairness

-----------------------------------------------------------------------------
(* The shape of the state. *)
DispatchTypeOK ==
    /\ conn \in [Slots -> Conn]
    /\ pending \in [Ids -> Slots \cup {NoSlot}]
    /\ next_id \in Ids
    /\ count \in 0..MaxDispatch
    /\ jobs \in [Dispatches -> Job]
    /\ sent \in [Dispatches -> {"none", "streaming", "complete", "corrupt"}]
    /\ draining \in Slots \cup {NoSlot}
    /\ server_closing \in BOOLEAN

(* Every entry of `pending' is a live connection suspended under that id:   *)
(* a late submitResponse never reaches a freed or a reused slot.            *)
PendingLive ==
    \A i \in Ids : pending[i] # NoSlot =>
        /\ conn[pending[i]].st # "free"
        /\ conn[pending[i]].awaiting
        /\ conn[pending[i]].dispatch_id = i

(* An open suspended connection is found under its id: otherwise nothing    *)
(* would answer it, and its reads are stopped.                              *)
AwaitingRegistered ==
    \A s \in Slots : conn[s].st = "open" /\ conn[s].awaiting => pending[conn[s].dispatch_id] = s

(* Every request gets one response, from the handler started for it, whole  *)
(* or from the head of a stream to its end: a late handler, a 408 that ran  *)
(* first or a reused slot never adds to it or answers another request.      *)
RepliesMatch == \A k \in Dispatches : sent[k] # "corrupt"

(* With requestTimeoutMs set no connection stays suspended on a request,    *)
(* even when the handler never settles.                                     *)
Suspended(k) == \E s \in Slots : conn[s].st = "open" /\ conn[s].awaiting /\ conn[s].req = k
SuspensionEnds == \A k \in Dispatches : Suspended(k) ~> ~Suspended(k)
=============================================================================
