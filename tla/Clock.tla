--------------------------------- MODULE Clock ---------------------------------
(* The clock of the host, which every timer of the server reads. *)
EXTENDS Naturals

CONSTANT MaxTime   \* bound

ASSUME ClockAssumption == MaxTime \in Nat

VARIABLE now

ClockInit == now = 0

\* External: time passes, whether or not anyone who waits for it has run.
Tick == now < MaxTime /\ now' = now + 1
=============================================================================
