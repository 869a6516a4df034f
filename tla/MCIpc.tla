------------------------------- MODULE MCIpc --------------------------------
(* Ipc with three threads, of which two share a priority.                     *)
EXTENDS Ipc, TLC

CONSTANTS high, mid, mid2, m1, m2, b1, b2

MCThread == {high, mid, mid2}
MCPrio == [t \in MCThread |-> IF t = high THEN 1 ELSE 2]
MCFlag == [l \in Lists |-> IF l = "event" THEN "FIFO" ELSE "PRIO"]
MCMail == {m1, m2}
MCBits == {b1, b2}
MCOptions == {[all |-> FALSE, clear |-> TRUE], [all |-> TRUE, clear |-> FALSE]}
MCUses == {{"sem", "mailbox"}, {"sem", "wraps"}, {"event"}}
Symmetry == {p @@ q @@ r : p \in Permutations({mid, mid2}), q \in Permutations(MCMail),
                           r \in Permutations(MCBits)}
=============================================================================
