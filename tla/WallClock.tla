----------------------------- MODULE WallClock -----------------------------
(***************************************************************************)
(* The clock the plugins read (Date.now) and the timers run on.  The       *)
(* components that keep expiry times extend this module; whatever they do  *)
(* takes no time, and time passes in steps of their own.                   *)
(***************************************************************************)
EXTENDS Integers

CONSTANT MaxTime    \* bound: the clock stops here

ASSUME MaxTimeAssumption == MaxTime \in Nat

VARIABLE now

ClockInit == now = 0

Tick == now < MaxTime /\ now' = now + 1

=============================================================================
