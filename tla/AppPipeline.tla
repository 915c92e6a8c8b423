----------------------------- MODULE AppPipeline ----------------------------
(***************************************************************************)
(* One request through the application: the chains #compile builds from    *)
(* the route's scopes, run step by step (#run, runBefore, runSerialization, *)
(* runAfter), any step of which may go on after an await, beside the       *)
(* request timeout that answers first.                                     *)
(***************************************************************************)
EXTENDS Integers, FiniteSets, SequencesExt

CONSTANTS MaxHooks,      \* bound: hooks on the route's way
          Timeout        \* whether requestTimeoutMs is set

ASSUME PipelineAssumption == MaxHooks \in Nat /\ Timeout \in BOOLEAN

VARIABLES hooks,      \* what is registered: [phase, at]
          at,         \* the step of Plan that runs next
          ran,        \* the steps that have begun, in order
          waiting,    \* the step that began last is at its await
          detached,   \* #dispatch has returned undefined: the answer goes through #submit
          timer,      \* off, armed, cleared or fired
          result,     \* what the handler, a hook or the error handler produced
          answers     \* what was handed to the native side; it takes the first

appVars == <<hooks, at, ran, waiting, detached, timer, result, answers>>

\* The scopes from the root to the route's own, then the route: where a hook may be.
Root  == 1
Leaf  == 2
Route == 3

BeforePhases == {"onRequest", "preParsing", "use", "group", "preValidation", "schema", "preHandler"}
AfterPhases  == {"onResponse", "onSend"}
HookPhases   == BeforePhases \cup {"preSerialization"} \cup AfterPhases

Places(phase) ==
  CASE phase \in {"group", "schema"} -> {Route}
    [] phase \in {"preValidation", "preHandler", "preSerialization"} -> {Root, Leaf, Route}
    [] OTHER -> {Root, Leaf}

Hook(phase, place) == [phase |-> phase, at |-> place]
AllHooks == UNION {{Hook(f, p) : p \in Places(f)} : f \in HookPhases}

\* #compile: phase by phase, and in each from the root scope to the route
Registered(phase, place) == IF Hook(phase, place) \in hooks THEN <<Hook(phase, place)>> ELSE <<>>
Of(phase) == Registered(phase, Root) \o Registered(phase, Leaf) \o Registered(phase, Route)

Before == Of("onRequest") \o Of("preParsing") \o Of("use") \o Of("group")
            \o Of("preValidation") \o Of("schema") \o Of("preHandler")
Serialization == Of("preSerialization")
After == Of("onResponse") \o Of("onSend")

Handler == Hook("handler", Route)
Plan == Before \o <<Handler>> \o Serialization \o After

HandlerAt == Len(Before) + 1
SerialAt  == HandlerAt + 1
AfterAt   == SerialAt + Len(Serialization)
EndAt     == Len(Plan) + 1

Results == {"plain", "reply", "stream"}

PipelineInit ==
  /\ hooks \in UNION {kSubset(n, AllHooks) : n \in 0..MaxHooks}
  /\ at = 1 /\ ran = <<>> /\ waiting = FALSE /\ detached = FALSE /\ timer = "off"
  /\ result = "none" /\ answers = <<>>

-----------------------------------------------------------------------------

\* the step had nothing to say: on to the next; past serialization the value is a reply
GoOn == at' = at + 1 /\ UNCHANGED result

\* #afterHandler: a stream is driven as it is; only a plain value is serialized; short
\* circuits take the same way as the handler's own result
Produces(v) ==
  /\ result' = v
  /\ at' = CASE v = "stream" -> EndAt
             [] v = "plain" -> SerialAt
             [] v = "reply" -> AfterAt

\* #handleError: no response hook sees the answer
Throws == result' = "error" /\ at' = EndAt

Outcome ==
  \/ at # HandlerAt /\ GoOn
  \/ at <= HandlerAt /\ \E v \in Results : Produces(v)
  \/ Throws

\* seeded fault: the timeout is armed only for the handler itself
ArmedForHandler == IF Timeout /\ at = HandlerAt /\ timer = "off" THEN "armed" ELSE timer

\* #armTimeout, once the first await makes #dispatch return
Armed == IF Timeout /\ timer = "off" THEN "armed" ELSE timer

\* a step begins, and is through or at its await
StepRuns ==
  /\ at < EndAt /\ ~ waiting
  /\ ran' = Append(ran, Plan[at])
  /\ \/ Outcome /\ UNCHANGED <<waiting, detached, timer>>
     \/ waiting' = TRUE /\ detached' = TRUE /\ timer' = Armed /\ UNCHANGED <<at, result>>
  /\ UNCHANGED <<hooks, answers>>

\* the promise of the step that waits settles
StepSettles ==
  /\ waiting /\ waiting' = FALSE
  /\ Outcome
  /\ UNCHANGED <<hooks, ran, detached, timer, answers>>

\* materialize, and what serialization hands on
Materialized(v) == IF v = "plain" THEN "reply" ELSE v

\* the end: returned to the native caller, or the timer cleared and the result submitted
RequestEnds ==
  /\ at = EndAt /\ ~ waiting /\ result # "sent"
  /\ timer' = IF timer = "armed" THEN "cleared" ELSE timer
  /\ answers' = Append(answers, Materialized(result))
  /\ result' = "sent"
  /\ UNCHANGED <<hooks, at, ran, waiting, detached>>

\* the timeout hooks run, and 408 is submitted; the handler is left to itself
TimerFires ==
  /\ timer = "armed" /\ timer' = "fired"
  /\ answers' = Append(answers, "timeout")
  /\ UNCHANGED <<hooks, at, ran, waiting, detached, result>>

PipelineStep == StepRuns \/ StepSettles \/ RequestEnds \/ TimerFires

-----------------------------------------------------------------------------
(* Properties.                                                              *)

PipelineTypeOK ==
  /\ at \in 1..EndAt /\ Len(ran) <= Len(Plan)
  /\ timer \in {"off", "armed", "cleared", "fired"} /\ (timer # "off" => detached)
  /\ result \in Results \cup {"none", "error", "sent"}

\* the order the phases are documented in, outer scopes first in each
Phases == <<"onRequest", "preParsing", "use", "group", "preValidation", "schema", "preHandler",
            "handler", "preSerialization", "onResponse", "onSend">>
Rank(h) == CHOOSE i \in DOMAIN Phases : Phases[i] = h.phase
Precedes(g, h) == Rank(g) < Rank(h) \/ (Rank(g) = Rank(h) /\ g.at < h.at)

\* The handler never starts unless every hook of the phases before it has run, in the
\* documented order: an await in one of them lets none of the others be skipped.
HandlerIsGuarded ==
  /\ \A i, j \in DOMAIN ran : i < j => Precedes(ran[i], ran[j])
  /\ Handler \in Range(ran) =>
       {h \in hooks : h.phase \in BeforePhases} \subseteq Range(ran)

\* A response that is sent for what the handler or a short circuit produced has been seen
\* by every onResponse and onSend hook; the answers no hook sees are errors, streams and
\* the timeout's.
ResponseHooksSee ==
  "reply" \in Range(answers) =>
    {h \in hooks : h.phase \in AfterPhases} \subseteq Range(ran)

\* The timeout never answers a request the handler has already answered, and the handler's
\* answer is never given twice.
TimeoutOnlyBefore ==
  /\ Len(answers) <= 2
  /\ \A i \in 2..Len(answers) : answers[i] # "timeout"

\* With a request timeout every request is answered, though a handler or a hook may wait
\* for ever.
EveryRequestAnswered == Timeout => <>(answers # <<>>)

\* Hooks that answer, throw, wait or are overtaken by the timeout leave each request one
\* answer that its hooks have guarded and seen (pipeline.ts, app.ts).
PipelineSafe == PipelineTypeOK /\ HandlerIsGuarded /\ ResponseHooksSee /\ TimeoutOnlyBefore
=============================================================================
