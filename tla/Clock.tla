------------------------------- MODULE Clock -------------------------------
(***************************************************************************)
(* The milliseconds of Date.now() and new Date(), as far as the service    *)
(* uses them: to stamp rows and to name the transfers of a demo batch.     *)
(***************************************************************************)
EXTENDS Integers

CONSTANT MaxClock   \* bound: the last millisecond

ASSUME ClockAssumption == MaxClock \in Nat \ {0}

VARIABLE clock

ClockInit == clock = 1

\* Any number of steps may happen within one millisecond.
Tick == clock < MaxClock /\ clock' = clock + 1
=============================================================================
