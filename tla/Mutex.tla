------------------------------- MODULE Mutex --------------------------------
(***************************************************************************)
(* The mutexes of the kernel: rt_mutex_take with and without a timeout,    *)
(* rt_mutex_release, priority inheritance, and the threads that use them,  *)
(* which sleep, wait and preempt each other on one CPU.                    *)
(*                                                                         *)
(* A section with interrupts disabled is one step; rt_schedule, which a    *)
(* call makes after its section, is another, and timeouts and ticks come   *)
(* between any two of them.  The ready table of Scheduler is seen from     *)
(* above: rt_schedule picks a ready thread of the highest priority.        *)
(***************************************************************************)
EXTENDS WaitingList, FiniteSets

CONSTANTS
    Thread, Mutexes,
    InitPrio,     (* per thread: init_priority; the smaller number runs first   *)
    Flag,         (* per mutex: "FIFO" or "PRIO"                                *)
    MaxHold       (* bound: how often a thread takes a mutex again, 255         *)

None == "none"
Asleep == "asleep"
NoPriority == 255       \* 0xFF

ASSUME MutexAssumption ==
    /\ IsFiniteSet(Thread)
    /\ None \notin Thread \cup Mutexes /\ Asleep \notin Mutexes
    /\ InitPrio \in [Thread -> 0..NoPriority-1]
    /\ Flag \in [Mutexes -> {"FIFO", "PRIO"}]
    /\ MaxHold \in Nat \ {0}

VARIABLES
    ready,               (* the threads that are ready                          *)
    current_priority,    (* per thread                                          *)
    cur,                 (* rt_current_thread, None for the idle thread         *)
    armed,               (* threads whose thread_timer is running               *)
    error,               (* per thread: "OK", "ERROR" or "TIMEOUT"              *)
    value, owner, hold, original_priority, suspend_thread,  (* per mutex        *)
    pc,                  (* per thread: "run", "schedule" or "check"            *)
    want,                (* per thread: the mutex it waits for, Asleep or None  *)
    inside               (* history, per mutex: the threads whose rt_mutex_take *)
                         (* returned RT_EOK and that have not released it since *)

threadVars == <<ready, current_priority, cur, armed, error>>
mutexVars == <<value, owner, hold, original_priority, suspend_thread>>
callVars == <<pc, want, inside>>
vars == <<threadVars, mutexVars, callVars>>

Init ==
    /\ ready = Thread /\ current_priority = InitPrio
    /\ cur \in Top(Thread, InitPrio) /\ armed = {}
    /\ error = [t \in Thread |-> "OK"]
    /\ value = [m \in Mutexes |-> 1] /\ owner = [m \in Mutexes |-> None]
    /\ hold = [m \in Mutexes |-> 0]
    /\ original_priority = [m \in Mutexes |-> NoPriority]
    /\ suspend_thread = [m \in Mutexes |-> <<>>]
    /\ pc = [t \in Thread |-> "run"] /\ want = [t \in Thread |-> None]
    /\ inside = [m \in Mutexes |-> {}]

Runs(t, label) == cur = t /\ pc[t] = label
Calls(t, label) == pc' = [pc EXCEPT ![t] = label]

(* rt_schedule, with s the ready threads *)
Reschedule(s) == IF s = {} THEN cur' = None ELSE cur' \in Top(s, current_priority)

(* rt_thread_control(u, RT_THREAD_CTRL_CHANGE_PRIORITY, p) *)
KeepPriority(u, p) == UNCHANGED current_priority  (* mutant *)
ChangePriority(u, p) == current_priority' = [current_priority EXCEPT ![u] = p]

-----------------------------------------------------------------------------
(* rt_mutex_take *)

TakeAgain(t, m) ==
    /\ Runs(t, "run") /\ owner[m] = t /\ hold[m] < MaxHold
    /\ error' = [error EXCEPT ![t] = "OK"]
    /\ hold' = [hold EXCEPT ![m] = @ + 1]
    /\ UNCHANGED <<ready, current_priority, cur, armed, value, owner,
                   original_priority, suspend_thread, callVars>>

TakeFree(t, m) ==
    /\ Runs(t, "run") /\ owner[m] # t /\ value[m] > 0
    /\ error' = [error EXCEPT ![t] = "OK"]
    /\ value' = [value EXCEPT ![m] = @ - 1]
    /\ owner' = [owner EXCEPT ![m] = t]
    /\ original_priority' = [original_priority EXCEPT ![m] = current_priority[t]]
    /\ hold' = [hold EXCEPT ![m] = @ + 1]
    /\ inside' = [inside EXCEPT ![m] = @ \cup {t}]
    /\ UNCHANGED <<ready, current_priority, cur, armed, suspend_thread, pc, want>>

(* time = 0 *)
TakeRefused(t, m) ==
    /\ Runs(t, "run") /\ owner[m] # t /\ value[m] = 0
    /\ error' = [error EXCEPT ![t] = "TIMEOUT"]
    /\ UNCHANGED <<ready, current_priority, cur, armed, mutexVars, callVars>>

(* time # 0: the owner inherits the priority, the thread is suspended. *)
TakeWaits(t, m, timed) ==
    /\ Runs(t, "run") /\ owner[m] # t /\ value[m] = 0
    /\ error' = [error EXCEPT ![t] = "OK"]
    /\ IF current_priority[t] < current_priority[owner[m]]
       THEN ChangePriority(owner[m], current_priority[t])
       ELSE UNCHANGED current_priority
    /\ ready' = ready \ {t}
    /\ suspend_thread' = [suspend_thread EXCEPT ![m] = Suspended(@, t, Flag[m], current_priority)]
    /\ armed' = IF timed THEN armed \cup {t} ELSE armed
    /\ want' = [want EXCEPT ![t] = m]
    /\ Calls(t, "schedule")
    /\ UNCHANGED <<cur, value, owner, hold, original_priority, inside>>

(* What follows rt_schedule: the thread looks at what its wait came to. *)
TakeReturns(t) ==
    /\ Runs(t, "check") /\ want[t] \in Mutexes
    /\ inside' = IF error[t] = "OK"
                 THEN [inside EXCEPT ![want[t]] = @ \cup {t}] ELSE inside
    /\ want' = [want EXCEPT ![t] = None]
    /\ Calls(t, "run")
    /\ UNCHANGED <<threadVars, mutexVars>>

-----------------------------------------------------------------------------
(* rt_mutex_release *)

ReleaseRefused(t, m) ==
    /\ Runs(t, "run") /\ owner[m] # t
    /\ error' = [error EXCEPT ![t] = "ERROR"]
    /\ UNCHANGED <<ready, current_priority, cur, armed, mutexVars, callVars>>

ReleaseOne(t, m) ==
    /\ Runs(t, "run") /\ owner[m] = t /\ hold[m] > 1
    /\ hold' = [hold EXCEPT ![m] = @ - 1]
    /\ UNCHANGED <<threadVars, value, owner, original_priority, suspend_thread,
                   callVars>>

RestoreNever(t, m) == UNCHANGED current_priority  (* mutant *)

Restore(t, m) ==
    IF original_priority[m] # current_priority[t]
    THEN ChangePriority(t, original_priority[m]) ELSE UNCHANGED current_priority

ReleaseFree(t, m) ==
    /\ Runs(t, "run") /\ owner[m] = t /\ hold[m] = 1 /\ suspend_thread[m] = <<>>
    /\ Restore(t, m)
    /\ hold' = [hold EXCEPT ![m] = 0]
    /\ value' = [value EXCEPT ![m] = @ + 1]
    /\ owner' = [owner EXCEPT ![m] = None]
    /\ original_priority' = [original_priority EXCEPT ![m] = NoPriority]
    /\ inside' = [inside EXCEPT ![m] = @ \ {t}]
    /\ UNCHANGED <<ready, cur, armed, error, suspend_thread, pc, want>>

(* The first waiting thread becomes the owner and is resumed. *)
ReleaseToWaiter(t, m) ==
    LET u == Head(suspend_thread[m])
    IN  /\ Runs(t, "run") /\ owner[m] = t /\ hold[m] = 1 /\ suspend_thread[m] # <<>>
        /\ Restore(t, m)
        /\ owner' = [owner EXCEPT ![m] = u]
        /\ original_priority' = [original_priority EXCEPT ![m] = current_priority[u]]
        /\ hold' = [hold EXCEPT ![m] = 1]
        /\ suspend_thread' = [suspend_thread EXCEPT ![m] = Tail(@)]
        /\ ready' = ready \cup {u}
        /\ armed' = armed \ {u}
        /\ inside' = [inside EXCEPT ![m] = @ \ {t}]
        /\ Calls(t, "schedule")
        /\ UNCHANGED <<cur, error, value, want>>

-----------------------------------------------------------------------------
(* rt_schedule at the end of a call, rt_thread_sleep, and interrupts *)

Schedule(t) ==
    /\ Runs(t, "schedule")
    /\ Reschedule(ready)
    /\ Calls(t, IF want[t] = None THEN "run" ELSE "check")
    /\ UNCHANGED <<ready, current_priority, armed, error, mutexVars, want, inside>>

Sleep(t) ==
    /\ Runs(t, "run")
    /\ ready' = ready \ {t} /\ armed' = armed \cup {t}
    /\ want' = [want EXCEPT ![t] = Asleep]
    /\ Calls(t, "schedule")
    /\ UNCHANGED <<current_priority, cur, error, mutexVars, inside>>

SleepReturns(t) ==
    /\ Runs(t, "check") /\ want[t] = Asleep
    /\ error' = [error EXCEPT ![t] = IF @ = "TIMEOUT" THEN "OK" ELSE @]
    /\ want' = [want EXCEPT ![t] = None]
    /\ Calls(t, "run")
    /\ UNCHANGED <<ready, current_priority, cur, armed, mutexVars, inside>>

ThreadTimeoutLinked(u) ==  (* mutant: the thread stays in the waiting list *)
    /\ u \in armed
    /\ error' = [error EXCEPT ![u] = "TIMEOUT"]
    /\ ready' = ready \cup {u} /\ armed' = armed \ {u}
    /\ Reschedule(ready')
    /\ UNCHANGED <<current_priority, mutexVars, callVars>>
ThreadTimeoutSilent(u) ==  (* mutant: thread->error is not set *)
    /\ u \in armed
    /\ suspend_thread' = [m \in Mutexes |->
           IF u \in Elements(suspend_thread[m]) THEN Without(suspend_thread[m], u)
                                                ELSE suspend_thread[m]]
    /\ ready' = ready \cup {u} /\ armed' = armed \ {u}
    /\ Reschedule(ready')
    /\ UNCHANGED <<current_priority, error, value, owner, hold, original_priority, callVars>>
(* rt_thread_timeout, in SysTick *)
ThreadTimeout(u) ==
    /\ u \in armed
    /\ error' = [error EXCEPT ![u] = "TIMEOUT"]
    /\ suspend_thread' = [m \in Mutexes |->
           IF u \in Elements(suspend_thread[m]) THEN Without(suspend_thread[m], u)
                                                ELSE suspend_thread[m]]
    /\ ready' = ready \cup {u} /\ armed' = armed \ {u}
    /\ Reschedule(ready')
    /\ UNCHANGED <<current_priority, value, owner, hold, original_priority, callVars>>

(* The time slice of the current thread ends, and another thread of its *)
(* priority is ready.                                                   *)
TickYield ==
    /\ cur \in ready
    /\ \E u \in ready \ {cur} : current_priority[u] = current_priority[cur]
    /\ Reschedule(ready)
    /\ UNCHANGED <<ready, current_priority, armed, error, mutexVars, callVars>>

-----------------------------------------------------------------------------
Take(t, m) ==
    \/ TakeAgain(t, m) \/ TakeFree(t, m) \/ TakeRefused(t, m)
    \/ \E timed \in BOOLEAN : TakeWaits(t, m, timed)
Release(t, m) ==
    \/ ReleaseRefused(t, m) \/ ReleaseOne(t, m)
    \/ ReleaseFree(t, m) \/ ReleaseToWaiter(t, m)
Next ==
    \/ \E t \in Thread, m \in Mutexes : Take(t, m) \/ Release(t, m)
    \/ \E t \in Thread : \/ TakeReturns(t) \/ Schedule(t) \/ Sleep(t)
                         \/ SleepReturns(t) \/ ThreadTimeout(t)
    \/ TickYield
Spec == Init /\ [][Next]_vars
-----------------------------------------------------------------------------
(* Properties *)

(* Every variable stays in its range. *)
TypeOK ==
    /\ ready \in SUBSET Thread /\ armed \in SUBSET Thread
    /\ current_priority \in [Thread -> 0..NoPriority-1]
    /\ cur \in Thread \cup {None}
    /\ error \in [Thread -> {"OK", "ERROR", "TIMEOUT"}]
    /\ value \in [Mutexes -> 0..1] /\ owner \in [Mutexes -> Thread \cup {None}]
    /\ hold \in [Mutexes -> 0..MaxHold]
    /\ original_priority \in [Mutexes -> 0..NoPriority]
    /\ suspend_thread \in [Mutexes -> Seq(Thread)]
    /\ pc \in [Thread -> {"run", "schedule", "check"}]
    /\ want \in [Thread -> Mutexes \cup {Asleep, None}]
    /\ inside \in [Mutexes -> SUBSET Thread]

(* The fields of a mutex agree, nobody waits for a mutex that is free, and     *)
(* the waiting lists hold exactly the suspended threads that want the mutex.   *)
MutexOK ==
    \A m \in Mutexes :
        /\ value[m] = 1 <=> owner[m] = None
        /\ hold[m] = 0 <=> owner[m] = None
        /\ suspend_thread[m] # <<>> => owner[m] # None
        /\ Elements(suspend_thread[m]) = {t \in Thread \ ready : want[t] = m}
        /\ \A i, j \in DOMAIN suspend_thread[m] :
               suspend_thread[m][i] = suspend_thread[m][j] => i = j

(* Whatever order timeouts and releases come in, what rt_mutex_take returns    *)
(* is true: RT_EOK to the owner, an error to everybody else.                   *)
TakeIsTrue ==
    \A t \in Thread : pc[t] = "check" /\ cur = t /\ want[t] \in Mutexes
        => (error[t] = "OK" <=> owner[want[t]] = t)

(* Two threads are never inside the same mutex. *)
Exclusive == \A m \in Mutexes : inside[m] \subseteq {owner[m]}

(* Nobody is overtaken in the waiting list by a thread of its priority, and    *)
(* the mutex is handed to the first in the list: with the flag PRIO one of the *)
(* highest priority, and of those the one that has waited longest.             *)
HandsOn(m) ==
    /\ InTurn(suspend_thread[m], suspend_thread'[m], Flag[m], InitPrio)
    /\ owner[m] # None /\ owner'[m] \notin {owner[m], None} =>
        /\ owner'[m] \in Elements(suspend_thread[m])
        /\ \A u \in Elements(suspend_thread[m]) : ~Ahead(suspend_thread[m], u, owner'[m])
        /\ Flag[m] = "PRIO" => owner'[m] \in Top(Elements(suspend_thread[m]), InitPrio)
HandedInTurn == [][\A m \in Mutexes : HandsOn(m)]_vars

(* No priority inversion: while a thread waits for a mutex whose owner is      *)
(* ready, no thread of lower priority than the waiting one runs.               *)
NoInversion ==
    \A m \in Mutexes : owner[m] \in ready /\ cur # None /\ pc[cur] = "run" =>
        \A w \in Elements(suspend_thread[m]) :
            current_priority[cur] <= current_priority[w]

(* A thread that owns no mutex has the priority it was given.                  *)
Restored ==
    \A t \in Thread : (\A m \in Mutexes : owner[m] # t) =>
        current_priority[t] = InitPrio[t]
=============================================================================
