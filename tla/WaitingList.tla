---------------------------- MODULE WaitingList -----------------------------
(***************************************************************************)
(* The lists of the kernel, linked by rt_list_t, as sequences: the threads *)
(* that wait for an object of ipc.c and those that are ready, by their     *)
(* tlist, and the timers, by their row.  prio is the current_priority of   *)
(* threads.                                                                *)
(***************************************************************************)
EXTENDS Integers, Sequences

Elements(s) == {s[i] : i \in DOMAIN s}

(* rt_list_insert_before: t becomes the k-th element. *)
Linked(s, k, t) ==
    [i \in 1..Len(s)+1 |-> IF i < k THEN s[i] ELSE IF i = k THEN t ELSE s[i-1]]

(* rt_list_remove of t, which is in the list *)
Without(s, t) ==
    LET k == CHOOSE i \in DOMAIN s : s[i] = t
    IN  [i \in 1..Len(s)-1 |-> IF i < k THEN s[i] ELSE s[i+1]]

(* rt_ipc_list_suspend: behind the others, or in front of the first thread of *)
(* lower priority.                                                            *)
PositionOver(s, t, flag, prio) ==  (* mutant: also in front of its equals *)
    LET lower == {i \in DOMAIN s : prio[t] <= prio[s[i]]}
    IN  IF flag = "FIFO" \/ lower = {} THEN Len(s) + 1
        ELSE CHOOSE i \in lower : \A j \in lower : i <= j
Position(s, t, flag, prio) ==
    LET lower == {i \in DOMAIN s : prio[t] < prio[s[i]]}
    IN  IF flag = "FIFO" \/ lower = {} THEN Len(s) + 1
        ELSE CHOOSE i \in lower : \A j \in lower : i <= j
SuspendedLast(s, t, flag, prio) == Append(s, t)  (* mutant: the flag is not looked at *)
Suspended(s, t, flag, prio) == Linked(s, Position(s, t, flag, prio), t)

(* Thread t comes before u in the list s. *)
Ahead(s, t, u) == \E i, j \in DOMAIN s : i < j /\ s[i] = t /\ s[j] = u

(* From the list s to the list r nobody loses its turn: those who were there   *)
(* keep their order, and whoever comes is behind them, but, by priority, in    *)
(* front of those of lower priority.                                           *)
InTurn(s, r, flag, prio) ==
    \A t, u \in Elements(r) : Ahead(r, t, u) =>
        IF t \notin Elements(s) THEN flag = "PRIO" /\ prio[t] < prio[u]
        ELSE IF u \notin Elements(s) THEN flag = "FIFO" \/ prio[t] <= prio[u]
        ELSE Ahead(s, t, u)

(* Those of the threads in s that the scheduler may run next. *)
Top(s, prio) == {t \in s : \A u \in s : prio[t] <= prio[u]}
=============================================================================
