--------------------------- MODULE CircuitBreaker ---------------------------
(***************************************************************************)
(* The circuit-breaker plugin: the Breaker of breaker.ts, and the wrapped  *)
(* handler of circuit-breaker.ts that asks it before a call and reports    *)
(* the outcome after it.  Calls overlap: the outcome of one may arrive in  *)
(* any later state of the breaker, also after the breaker has opened,      *)
(* probed and closed again.  The failure threshold is the fraction         *)
(* ThresholdNum / ThresholdDen.                                            *)
(***************************************************************************)
EXTENDS WallClock, FiniteSets

CONSTANTS
    MaxCalls,         \* bound: the requests of a run, numbered as they arrive
    MinRequests,      \* minimumRequests
    ThresholdNum, ThresholdDen,
    WindowMs, ResetMs,
    TimeoutMs         \* 0: a call may take for ever

ASSUME BreakerAssumption ==
    /\ MaxCalls \in Nat /\ MinRequests \in Nat
    /\ ThresholdNum \in Nat /\ ThresholdDen \in Nat \ {0}
    /\ WindowMs \in Nat /\ ResetMs \in Nat /\ TimeoutMs \in Nat

NoTime == -1
Calls == 1..MaxCalls

VARIABLES
    breaker,    \* the Breaker's private fields
    calls,      \* what became of each call
    lastProbe,  \* history: when the last probe was let through, since the last close
    era         \* history: how often the breaker has closed

breakerVars == <<breaker, calls, lastProbe, era>>

Idle == [st |-> "idle", probe |-> FALSE, since |-> NoTime, done |-> NoTime, era |-> 0]

BreakerInit ==
    /\ breaker = [state |-> "closed", failures |-> 0, total |-> 0,
                  windowEnd |-> WindowMs, openUntil |-> 0, probing |-> FALSE]
    /\ calls = [c \in Calls |-> Idle]
    /\ lastProbe = NoTime
    /\ era = 0

-----------------------------------------------------------------------------

(* #roll: a window that has elapsed is replaced by a fresh one. *)
Roll(b) ==
    IF now >= b.windowEnd
    THEN [b EXCEPT !.failures = 0, !.total = 0, !.windowEnd = now + WindowMs]
    ELSE b

OpenKeepsCooldown(b) == [b EXCEPT !.state = "open", !.probing = FALSE]   \* seeded fault
(* #open *)
Open(b) == [b EXCEPT !.state = "open", !.openUntil = now + ResetMs, !.probing = FALSE]

(* #close *)
Close(b) ==
    [b EXCEPT !.state = "closed", !.failures = 0, !.total = 0,
              !.probing = FALSE, !.windowEnd = now + WindowMs]

(* What failure() does with a window that has counted the failure. *)
Trip(b) ==
    IF b.total >= MinRequests /\ b.failures * ThresholdDen >= ThresholdNum * b.total
    THEN Open(b) ELSE b

Success(b) ==
    IF b.state = "half-open" THEN Close(b)
    ELSE [Roll(b) EXCEPT !.total = @ + 1]

Failure(b) ==
    IF b.state = "half-open" THEN Open(b)
    ELSE Trip([Roll(b) EXCEPT !.total = @ + 1, !.failures = @ + 1])

(* allow() says yes. *)
Allowed(b) ==
    \/ b.state = "closed"
    \/ b.state = "open" /\ now >= b.openUntil
    \/ b.state = "half-open" /\ ~b.probing

(* The breaker after an allow() that said yes. *)
Admit(b) ==
    IF b.state = "closed" THEN b
    ELSE [b EXCEPT !.state = "half-open", !.probing = TRUE]

-----------------------------------------------------------------------------
(* The wrapped handler.                                                    *)

(* The next request to arrive. *)
Arrives(c) == calls[c].st = "idle" /\ \A d \in Calls : d < c => calls[d].st # "idle"

(* A request is let through; anything but a closed breaker makes it a probe. *)
(* Bound: none starts so late that its timeout lies beyond MaxTime.          *)
Call(c) ==
    /\ Arrives(c)
    /\ Allowed(breaker)
    /\ now + TimeoutMs <= MaxTime
    /\ breaker' = Admit(breaker)
    /\ LET probe == breaker.state # "closed" IN
       /\ calls' = [calls EXCEPT ![c] =
              [Idle EXCEPT !.st = "running", !.probe = probe, !.since = now]]
       /\ lastProbe' = IF probe THEN now ELSE lastProbe
    /\ UNCHANGED <<now, era>>

(* A request is answered by the fallback, or by a 503 with Retry-After. *)
Shed(c) ==
    /\ Arrives(c)
    /\ ~Allowed(breaker)
    /\ calls' = [calls EXCEPT ![c].st = "shed"]
    /\ UNCHANGED <<now, breaker, lastProbe, era>>

(* The call's outcome reaches the breaker.  Outcomes of a half-open        *)
(* breaker are not counted in a window.                                    *)
Settle(c, st, after) ==
    /\ calls[c].st = "running"
    /\ breaker' = after
    /\ calls' = [calls EXCEPT ![c] =
           IF breaker.state = "half-open" THEN [Idle EXCEPT !.st = "settled"]
           ELSE [Idle EXCEPT !.st = st, !.done = now, !.era = era]]
    /\ LET closes == breaker.state = "half-open" /\ after.state = "closed" IN
       /\ era' = IF closes THEN era + 1 ELSE era
       /\ lastProbe' = IF closes THEN NoTime ELSE lastProbe
    /\ UNCHANGED now

Succeeds(c) == Settle(c, "served", Success(breaker))
Fails(c) == Settle(c, "failed", Failure(breaker))

(* raceTimeout: the timer rejects a call that is still running. *)
TimesOut(c) ==
    /\ TimeoutMs > 0
    /\ now >= calls[c].since + TimeoutMs
    /\ Fails(c)

BreakerStep == \E c \in Calls : Call(c) \/ Shed(c) \/ Succeeds(c) \/ Fails(c) \/ TimesOut(c)

BreakerTick == Tick /\ UNCHANGED breakerVars

BreakerSpec ==
    /\ ClockInit /\ BreakerInit
    /\ [][BreakerStep \/ BreakerTick]_<<now, breakerVars>>

-----------------------------------------------------------------------------

BreakerTypeOK ==
    /\ now \in Nat
    /\ breaker \in [state : {"closed", "open", "half-open"}, failures : Nat, total : Nat,
                    windowEnd : Nat, openUntil : Nat, probing : BOOLEAN]
    /\ calls \in [Calls -> [st : {"idle", "running", "shed", "served", "failed", "settled"},
                            probe : BOOLEAN, since : Nat \cup {NoTime},
                            done : Nat \cup {NoTime}, era : Nat]]
    /\ lastProbe \in Nat \cup {NoTime}
    /\ era \in Nat

(* Whatever late outcomes do to it, a half-open breaker has its probe's    *)
(* slot taken, so that it never lets a second call through by itself, and  *)
(* the latest probe is still running: the breaker is not left half-open    *)
(* with nobody to move it.  Another call may move it first: the outcome of *)
(* any call still running does (breaker.ts 45-61, 69-81).                  *)
HalfOpenHasProbe ==
    breaker.state = "half-open" =>
        /\ breaker.probing
        /\ \E c \in Calls : calls[c].st = "running" /\ calls[c].probe /\ calls[c].since = lastProbe

(* The downstream is spared: as long as the breaker has not closed, calls  *)
(* reach it at least ResetMs apart, also when outcomes of older calls      *)
(* re-open the breaker while a probe is out.                               *)
ProbesSpaced ==
    [][\A c \in Calls :
          calls[c].st = "idle" /\ calls'[c].st = "running" /\ calls'[c].probe
              => lastProbe = NoTime \/ now - lastProbe >= ResetMs]_<<now, breakerVars>>

(* The calls whose outcome a closed breaker should go by: they ended       *)
(* within the window and after the breaker last closed.                    *)
Recent(st) ==
    {c \in Calls : calls[c].st \in st /\ calls[c].era = era /\ now - calls[c].done < WindowMs}

(* The breaker trips on evidence: when it opens from closed, at least      *)
(* MinRequests calls ended within the last window and since it last        *)
(* closed, and the threshold's share of MinRequests of them failed.        *)
TripJustified ==
    [][breaker.state = "closed" /\ breaker'.state = "open" =>
          /\ Cardinality(Recent({"served", "failed"})') >= MinRequests
          /\ Cardinality(Recent({"failed"})') * ThresholdDen >= ThresholdNum * MinRequests
      ]_<<now, breakerVars>>

(* With a timeout, a probe that hangs cannot keep the breaker half-open:   *)
(* time passes and the race's timer fires (raceTimeout, fair in MCServices). *)
(* Whose outcome ends it is not said: it may be an older call's.           *)
HalfOpenEnds == breaker.state = "half-open" ~> breaker.state # "half-open"

(* breaker.ts as a whole: the breaker opens on evidence and lets its probes  *)
(* through a cooldown apart, and a half-open one has a probe out and is left *)
(* in the end, whatever calls admitted before still run.  It does not say    *)
(* that the probe decides, as breaker.ts 22-24 does: success() and failure() *)
(* do not ask whose outcome it is, so that a late success of an older call   *)
(* closes a half-open breaker and a late failure re-opens it before its      *)
(* probe answers.                                                            *)
BreakerCorrect ==
    [](BreakerTypeOK /\ HalfOpenHasProbe) /\ ProbesSpaced /\ TripJustified /\ HalfOpenEnds
=============================================================================
