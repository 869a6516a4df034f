---------------------------- MODULE MCScheduler -----------------------------
(* Scheduler with idle and two threads that share a priority, which another    *)
(* may change.                                                                 *)
EXTENDS Scheduler

CONSTANTS a, b, idle

MCThread == {a, b, idle}
MCBoot == {a, idle}
MCInitPrio == [t \in MCThread |-> IF t = idle THEN 2 ELSE 1]
=============================================================================
