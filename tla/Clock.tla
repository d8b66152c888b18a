------------------------------- MODULE Clock -------------------------------
(***************************************************************************)
(* The clock that the parts of one API process read: time.monotonic() in   *)
(* the rate limiter and the notifier, time.time() in the metrics, the UTC  *)
(* time in the report scheduler.  It counts from the machine's start, and  *)
(* time passes between any two steps of the process.                       *)
(***************************************************************************)
EXTENDS Naturals

CONSTANT LastTick  \* bounds the clock

ASSUME ClockAssumption == LastTick \in Nat

VARIABLE now

Time == 0..LastTick

ClockTypeOK == now \in Time

ClockInit == now = 0

Advance == now < LastTick /\ now' = now + 1

=============================================================================
