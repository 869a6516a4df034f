------------------------------ MODULE Allocator ------------------------------
(***************************************************************************)
(* What a heap promises: each thread owns regions of the memory, and no    *)
(* word of it belongs to two of them.  Where a region lies is the heap's   *)
(* choice: a step is told by what the thread owns after it.                *)
(***************************************************************************)
EXTENDS Integers

CONSTANTS Thread, Sizes, Start, End

VARIABLE owns       \* per thread: its regions

Apart(r, s) == r.at + r.size <= s.at \/ s.at + s.size <= r.at

(* Region r is memory, and overlaps none but those in except. *)
Available(r, except) ==
    /\ r.size \in Sizes /\ Start <= r.at /\ r.at + r.size <= End
    /\ \A t \in Thread : \A s \in owns[t] \ except : Apart(r, s)

Init == owns = [t \in Thread |-> {}]

Malloc(t) == \E r \in owns'[t] :
    /\ Available(r, {})
    /\ owns' = [owns EXCEPT ![t] = @ \cup {r}]

Return(t) == \E r \in owns[t] : owns' = [owns EXCEPT ![t] = @ \ {r}]

(* A region gets another size where it is. *)
Resize(t) == \E r \in owns[t], s \in owns'[t] :
    /\ s.at = r.at /\ Available(s, {r})
    /\ owns' = [owns EXCEPT ![t] = (@ \ {r}) \cup {s}]

Next == \E t \in Thread : Malloc(t) \/ Return(t) \/ Resize(t)

Spec == Init /\ [][Next]_owns
=============================================================================
