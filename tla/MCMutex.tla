------------------------------ MODULE MCMutex -------------------------------
(* Mutex with four threads, of which two share a priority, and one mutex, or   *)
(* with three threads and a mutex of each kind.                                *)
EXTENDS Mutex

CONSTANTS high, mid, low, mid2, m1, m2

MCThree == {high, mid, low}
MCFour == {high, mid, mid2, low}
MCOne == {m1}
MCTwo == {m1, m2}
PrioOf(t) == CASE t = high -> 1 [] t = low -> 3 [] OTHER -> 2
MCThreePrio == [t \in MCThree |-> PrioOf(t)]
MCFourPrio == [t \in MCFour |-> PrioOf(t)]
MCMixed == [m \in MCTwo |-> IF m = m1 THEN "PRIO" ELSE "FIFO"]
MCOneByPrio == [m \in MCOne |-> "PRIO"]
=============================================================================
