---------------------------- MODULE ServiceClock ----------------------------
(***************************************************************************)
(* The wall clock read by every part of the system (Date.now, new Date).   *)
(* MaxTime bounds it for TLC; no definition depends on the bound.          *)
(***************************************************************************)
EXTENDS Integers

CONSTANT MaxTime
VARIABLE now

ClockInit == now = 0

\* Time passes between any two steps.
Advance == now < MaxTime /\ now' = now + 1
=============================================================================
