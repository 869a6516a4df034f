------------------------------ MODULE MCTimer -------------------------------
(* SoftTimer with one periodic and two one-shot timers and two threads, each  *)
(* with timers of its own, below the timer thread.                            *)
EXTENDS SoftTimer

CONSTANTS p, q, r, low, high

MCTimers == {p, q, r}
MCUsers == {low, high}
MCOwn == [t \in MCTimers |-> IF t = r THEN {high} ELSE {low}]
MCInitTick == [t \in MCTimers |-> IF t = q THEN 1 ELSE 2]
=============================================================================
