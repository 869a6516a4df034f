----------------------------- MODULE IpcObject ------------------------------
(***************************************************************************)
(* What the objects of ipc.c share: threads of fixed priority on one CPU,  *)
(* which wait in the list of an object, with or without a timeout, and are *)
(* resumed by a thread, an interrupt or the timeout.                       *)
(*                                                                         *)
(* A section with interrupts disabled is one step, and rt_schedule, which  *)
(* a call makes behind it, another; interrupts and timeouts come between   *)
(* any two of them.  Only the loop of rt_event_send takes several steps,   *)
(* while loop holds everything else off.                                   *)
(***************************************************************************)
EXTENDS WaitingList, FiniteSets

CONSTANTS
    Thread,
    InitPrio,     (* per thread: its priority; the smaller number runs first    *)
    Flag,         (* per list: "FIFO" or "PRIO"                                 *)
    Timed         (* the kinds of waiting: TRUE with a timeout, FALSE for ever  *)

None == "none"
Isr == "isr"                      \* a caller that is an interrupt
Lists == {"sem", "recv", "send", "event"}
Errors == {"OK", "ERROR", "TIMEOUT"}

ASSUME IpcAssumption ==
    /\ IsFiniteSet(Thread) /\ None \notin Thread /\ Isr \notin Thread
    /\ InitPrio \in [Thread -> Nat]
    /\ Flag \in [Lists -> {"FIFO", "PRIO"}]
    /\ Timed \subseteq BOOLEAN

VARIABLES
    ready,               (* the threads that are ready                          *)
    cur,                 (* rt_current_thread, None for the idle thread         *)
    armed,               (* threads whose thread_timer is running               *)
    pc,                  (* per thread: "run", "schedule" or "check"            *)
    call,                (* per thread: the call it waits in, see Waits         *)
    suspend_thread,      (* per list                                            *)
    loop                 (* where rt_event_send is in its list                  *)

threadVars == <<ready, cur, armed, pc, call, suspend_thread, loop>>

NoCall == [on |-> None]
NoLoop == [by |-> None]
Callers == Thread \cup {Isr}

ThreadInit ==
    /\ ready = Thread /\ cur \in Top(Thread, InitPrio) /\ armed = {}
    /\ pc = [t \in Thread |-> "run"] /\ call = [t \in Thread |-> NoCall]
    /\ suspend_thread = [l \in Lists |-> <<>>]
    /\ loop = NoLoop

-----------------------------------------------------------------------------
Runs(t, label) == loop = NoLoop /\ cur = t /\ pc[t] = label
(* Thread or interrupt c may start a call. *)
MayCall(c) == loop = NoLoop /\ (c = Isr \/ Runs(c, "run"))
(* Thread t is about to see what its wait for list l came to. *)
Wakes(t, l) == Runs(t, "check") /\ call[t].on = l
Suspends(l) == suspend_thread[l] # <<>>

(* rt_schedule, with s the ready threads *)
Reschedule(s) == IF s = {} THEN cur' = None ELSE cur' \in Top(s, InitPrio)

(* rt_schedule behind a section that has resumed a thread: at once in an       *)
(* interrupt, a step of its own in a thread.                                   *)
ThenSchedule(c) ==
    IF c = Isr THEN Reschedule(ready') /\ UNCHANGED pc
    ELSE pc' = [pc EXCEPT ![c] = "schedule"] /\ UNCHANGED cur

(* The current thread t goes to wait: what is the call, its timeout running if *)
(* it has one.                                                                 *)
Suspend(t, what) ==
    /\ suspend_thread' = [suspend_thread EXCEPT
                             ![what.on] = Suspended(@, t, Flag[what.on], InitPrio)]
    /\ ready' = ready \ {t}
    /\ armed' = IF what.timed THEN armed \cup {t} ELSE armed
    /\ call' = [call EXCEPT ![t] = what]
    /\ pc' = [pc EXCEPT ![t] = "schedule"]
    /\ UNCHANGED <<cur, loop>>

(* rt_ipc_list_resume: the first thread of the list. *)
Resume(l) ==
    LET u == Head(suspend_thread[l])
    IN  /\ suspend_thread' = [suspend_thread EXCEPT ![l] = Tail(@)]
        /\ ready' = ready \cup {u} /\ armed' = armed \ {u}

(* rt_ipc_list_resume_all of the lists ls, with interrupts disabled. *)
ResumeAll(ls) ==
    LET us == UNION {Elements(suspend_thread[l]) : l \in ls}
    IN  /\ suspend_thread' = [l \in Lists |-> IF l \in ls THEN <<>> ELSE suspend_thread[l]]
        /\ ready' = ready \cup us /\ armed' = armed \ us
        /\ call' = [t \in Thread |->
                       IF t \in us THEN [call[t] EXCEPT !.error = "ERROR"] ELSE call[t]]

(* The call of thread t is over. *)
Returns(t) == pc' = [pc EXCEPT ![t] = "run"] /\ call' = [call EXCEPT ![t] = NoCall]

-----------------------------------------------------------------------------
(* rt_schedule at the end of a section, and SysTick *)

Schedule(t) ==
    /\ Runs(t, "schedule")
    /\ Reschedule(ready)
    /\ pc' = [pc EXCEPT ![t] = IF call[t] = NoCall THEN "run" ELSE "check"]
    /\ UNCHANGED <<ready, armed, call, suspend_thread, loop>>

(* rt_thread_timeout *)
ThreadTimeoutLinked(u) ==  (* mutant: the thread stays in the waiting list *)
    /\ loop = NoLoop /\ u \in armed
    /\ call' = [call EXCEPT ![u].error = "TIMEOUT"]
    /\ ready' = ready \cup {u} /\ armed' = armed \ {u}
    /\ Reschedule(ready')
    /\ UNCHANGED <<pc, suspend_thread, loop>>
ThreadTimeout(u) ==
    /\ loop = NoLoop /\ u \in armed
    /\ call' = [call EXCEPT ![u].error = "TIMEOUT"]
    /\ suspend_thread' = [l \in Lists |->
           IF u \in Elements(suspend_thread[l]) THEN Without(suspend_thread[l], u)
                                                ELSE suspend_thread[l]]
    /\ ready' = ready \cup {u} /\ armed' = armed \ {u}
    /\ Reschedule(ready')
    /\ UNCHANGED <<pc, loop>>

(* The time slice of the current thread ends, and another thread of its *)
(* priority is ready.                                                   *)
TickYield ==
    /\ loop = NoLoop /\ cur \in ready
    /\ \E u \in ready \ {cur} : InitPrio[u] = InitPrio[cur]
    /\ Reschedule(ready)
    /\ UNCHANGED <<ready, armed, pc, call, suspend_thread, loop>>

ThreadNext == TickYield \/ \E t \in Thread : Schedule(t) \/ ThreadTimeout(t)

-----------------------------------------------------------------------------
(* Threads that were woken, and have not yet looked, in a call on list l. *)
Woken(l) == {t \in Thread \ Elements(suspend_thread[l]) :
                call[t].on = l /\ call[t].error = "OK"}

(* Each list holds exactly the suspended threads that wait in a call on it,   *)
(* once each, with no error yet; only a suspended thread has a timeout.       *)
ListsOK ==
    /\ \A l \in Lists :
        /\ Elements(suspend_thread[l]) = {t \in Thread \ ready : call[t].on = l}
        /\ \A i, j \in DOMAIN suspend_thread[l] :
               suspend_thread[l][i] = suspend_thread[l][j] => i = j
        /\ \A t \in Elements(suspend_thread[l]) : call[t].error = "OK"
    /\ armed \subseteq {t \in Thread \ ready : call[t] # NoCall}
=============================================================================
