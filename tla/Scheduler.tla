----------------------------- MODULE Scheduler ------------------------------
(***************************************************************************)
(* The thread scheduler of the kernel on the Cortex-M3: the ready table    *)
(* with its priority bitmap, rt_schedule, the deferred context switch of   *)
(* PendSV, the scheduler lock, the time slice, and the thread operations   *)
(* that change the ready table: startup, suspension with or without a      *)
(* timeout, resumption by an IPC object or by the thread timer, suspension *)
(* and resumption by another thread, yield, change of priority, exit,      *)
(* deletion, and the reclaiming of dead threads by idle.                   *)
(*                                                                         *)
(* A section of code with interrupts disabled is one step, and so is what  *)
(* an interrupt does between two calls of rt_schedule.  Interrupts come    *)
(* between any two steps of a thread; PendSV, the exception of the lowest  *)
(* priority, comes before the next step of any thread.                     *)
(***************************************************************************)
EXTENDS WaitingList, FiniteSets

CONSTANTS
    Thread,      (* the threads                                              *)
    Idle,        (* the idle thread, which neither blocks nor exits          *)
    InitPrio,    (* per thread: init_priority                                *)
    MaxPrio,     (* RT_THREAD_PRIORITY_MAX - 1: 31, the priority of idle     *)
    InitTick,    (* init_tick: the time slice                                *)
    MaxNest,     (* bound: nesting of rt_enter_critical, 65535 in the code   *)
    Sleepers,    (* bound: TRUE if threads with a running timer are deleted    *)
    Boot,        (* the threads started before rt_system_scheduler_start     *)
    Priorities   (* bound: the values rt_thread_control sets priorities to   *)

None == "none"
Prio == 0..MaxPrio

ASSUME ThreadAssumption ==
    /\ Idle \in Boot /\ Boot \subseteq Thread /\ None \notin Thread
    /\ IsFiniteSet(Thread)
    /\ MaxPrio \in Nat /\ InitPrio \in [Thread -> Prio]
    /\ \A t \in Thread : InitPrio[t] = MaxPrio <=> t = Idle
    /\ \A t, u \in Boot : InitPrio[t] = InitPrio[u] => t = u
    /\ Priorities \subseteq 0..MaxPrio-1
ASSUME TickAssumption ==
    InitTick \in Nat \ {0} /\ MaxNest \in Nat /\ Sleepers \in BOOLEAN

VARIABLES
    stat,             (* per thread: "init", "ready", "suspend" or "close"      *)
    current_priority, (* per thread                                             *)
    remaining_tick,   (* per thread                                             *)
    table,            (* rt_thread_priority_table: per priority, a list         *)
    group,            (* rt_thread_ready_priority_group: the bits that are set  *)
    cur,              (* rt_current_thread                                      *)
    nest,             (* rt_scheduler_lock_nest                                 *)
    waiting,          (* threads in the suspend list of an IPC object           *)
    armed,            (* threads whose thread_timer is running                  *)
    flag, from, to,   (* rt_thread_switch_interrupt_flag, from_ and to_thread   *)
    cpu,              (* the thread whose registers the CPU holds               *)
    isr,              (* the interrupt being served: "none", or what is next    *)
    pc,               (* per thread: "run", or the call it is about to make     *)
    target,           (* per thread: the thread its startup, resume or delete   *)
                      (* is about                                               *)
    defunct,          (* rt_thread_defunct                                      *)
    freed             (* threads whose stack and object are freed               *)

readyVars == <<stat, table, group>>
switchVars == <<flag, from, to>>
vars == <<readyVars, current_priority, remaining_tick, cur, nest, waiting, armed,
          switchVars, cpu, isr, pc, target, defunct, freed>>

(* __rt_ffs(rt_thread_ready_priority_group) - 1 *)
Highest(g) == CHOOSE p \in g : \A q \in g : p <= q

(* rt_list_remove of t, and rt_list_insert_before the head of the list *)
RotatedToFront(s, t) == <<t>> \o Without(s, t)  (* mutant: insert_after *)
Rotated(s, t) == Append(Without(s, t), t)

(* rt_thread_startup of the threads of Boot, then rt_system_scheduler_start *)
Init ==
    /\ stat = [t \in Thread |-> IF t \in Boot THEN "ready" ELSE "init"]
    /\ current_priority = InitPrio
    /\ remaining_tick = [t \in Thread |-> InitTick]
    /\ table = [p \in Prio |-> IF \E t \in Boot : InitPrio[t] = p
                              THEN <<CHOOSE t \in Boot : InitPrio[t] = p>>
                              ELSE <<>>]
    /\ group = {InitPrio[t] : t \in Boot}
    /\ cur = table[Highest(group)][1]
    /\ nest = 0 /\ waiting = {} /\ armed = {}
    /\ flag = TRUE /\ from = None /\ to = cur /\ cpu = None
    /\ isr = "none"
    /\ pc = [t \in Thread |-> "run"] /\ target = [t \in Thread |-> t]
    /\ defunct = {} /\ freed = {}

-----------------------------------------------------------------------------
(* rt_schedule_insert_thread and rt_schedule_remove_thread *)

Insert(t) ==
    /\ stat' = [stat EXCEPT ![t] = "ready"]
    /\ table' = [table EXCEPT ![current_priority[t]] = Append(@, t)]
    /\ group' = group \cup {current_priority[t]}

RemoveClearsBit(t, state) ==  (* mutant: does not look whether the list is empty *)
    /\ stat' = [stat EXCEPT ![t] = state]
    /\ table' = [table EXCEPT ![current_priority[t]] = Without(@, t)]
    /\ group' = group \ {current_priority[t]}
RemoveAs(t, state) ==
    /\ stat' = [stat EXCEPT ![t] = state]
    /\ table' = [table EXCEPT ![current_priority[t]] = Without(@, t)]
    /\ group' = IF table'[current_priority[t]] = <<>>
                THEN group \ {current_priority[t]} ELSE group

ContextSwitchResave(old, new) ==  (* mutant: no look at the flag *)
    flag' = TRUE /\ from' = old /\ to' = new
(* rt_hw_context_switch: while a switch is pending only its target changes. *)
ContextSwitch(old, new) ==
    /\ flag' = TRUE
    /\ from' = IF flag THEN from ELSE old
    /\ to' = new

RescheduleLocked ==  (* mutant: no look at rt_scheduler_lock_nest *)
    LET new == table[Highest(group)][1]
    IN  IF new # cur THEN cur' = new /\ ContextSwitch(cur, new)
                     ELSE UNCHANGED <<cur, switchVars>>
(* The body of rt_schedule, called by a thread or by an interrupt. *)
Reschedule ==
    LET new == table[Highest(group)][1]
    IN  IF nest = 0 /\ new # cur
        THEN cur' = new /\ ContextSwitch(cur, new)
        ELSE UNCHANGED <<cur, switchVars>>

(* Thread t executes: the CPU is in no interrupt and no PendSV is pending. *)
Runs(t, call) == cpu = t /\ ~flag /\ isr = "none" /\ pc[t] = call
Calls(t, call) == pc' = [pc EXCEPT ![t] = call]

-----------------------------------------------------------------------------
(* Threads *)

Schedule(t) ==
    /\ Runs(t, "rt_schedule")
    /\ Reschedule
    /\ Calls(t, "run")
    /\ UNCHANGED <<readyVars, current_priority, remaining_tick, nest, waiting,
                   armed, cpu, isr, target, defunct, freed>>

(* A thread works on u in several steps.  Bound: only one does at a time. *)
Handled(u) ==
    \E t \in Thread : pc[t] \in {"insert", "delete_timer", "delete_close"} /\ target[t] = u

(* rt_thread_startup(u): u becomes suspended, and rt_thread_resume takes it    *)
(* off its list; interrupts are enabled before it is inserted.                 *)
Startup(t, u) ==
    /\ Runs(t, "run") /\ stat[u] = "init" /\ ~Handled(u)
    /\ current_priority' = [current_priority EXCEPT ![u] = InitPrio[u]]
    /\ stat' = [stat EXCEPT ![u] = "suspend"]
    /\ target' = [target EXCEPT ![t] = u]
    /\ Calls(t, "insert")
    /\ UNCHANGED <<table, group, remaining_tick, cur, nest, waiting, armed,
                   switchVars, cpu, isr, defunct, freed>>

InsertStarted(t) ==
    /\ Runs(t, "insert")
    /\ Insert(target[t])
    /\ target' = [target EXCEPT ![t] = t]
    /\ Calls(t, "rt_schedule")
    /\ UNCHANGED <<current_priority, remaining_tick, cur, nest, waiting, armed,
                   switchVars, cpu, isr, defunct, freed>>

(* rt_thread_resume of a thread that rt_thread_suspend has suspended, with an  *)
(* rt_schedule to follow: again interrupts are enabled before it is inserted.  *)
ResumeOther(t, u) ==
    /\ Runs(t, "run") /\ stat[u] = "suspend" /\ u \notin waiting \cup armed
    /\ ~Handled(u)
    /\ target' = [target EXCEPT ![t] = u]
    /\ Calls(t, "insert")
    /\ UNCHANGED <<readyVars, current_priority, remaining_tick, cur, nest, waiting,
                   armed, switchVars, cpu, isr, defunct, freed>>

(* rt_thread_suspend(u), which looks at the state of u with interrupts enabled. *)
(* Bound: the caller has locked the scheduler, so that u cannot change it.      *)
SuspendOther(t, u) ==
    /\ Runs(t, "run") /\ nest > 0 /\ u \notin {t, Idle}
    /\ stat[u] = "ready" /\ ~Handled(u)
    /\ RemoveAs(u, "suspend")
    /\ armed' = armed \ {u}
    /\ UNCHANGED <<current_priority, remaining_tick, cur, nest, waiting, switchVars,
                   cpu, isr, pc, target, defunct, freed>>

(* rt_thread_sleep (ipc = FALSE), or an IPC object's take, receive or send      *)
(* that has to wait, with or without a timeout.                                 *)
Block(t, ipc, timed) ==
    /\ Runs(t, "run") /\ t # Idle /\ nest = 0
    /\ ipc \/ timed
    /\ RemoveAs(t, "suspend")
    /\ waiting' = IF ipc THEN waiting \cup {t} ELSE waiting
    /\ armed' = IF timed THEN armed \cup {t} ELSE armed
    /\ Calls(t, "rt_schedule")
    /\ UNCHANGED <<current_priority, remaining_tick, cur, nest, switchVars, cpu, isr,
                   target, defunct, freed>>

(* An IPC object resumes u: rt_thread_resume with interrupts disabled. *)
ResumeWaiting(u) ==
    /\ u \in waiting
    /\ Insert(u)
    /\ waiting' = waiting \ {u} /\ armed' = armed \ {u}

WakeUp(t, u) ==
    /\ Runs(t, "run")
    /\ ResumeWaiting(u)
    /\ Calls(t, "rt_schedule")
    /\ UNCHANGED <<current_priority, remaining_tick, cur, nest, switchVars, cpu, isr,
                   target, defunct, freed>>

(* rt_thread_yield on the current thread, without its rt_schedule *)
Yields(t) == stat[t] = "ready" /\ Len(table[current_priority[t]]) > 1

Yield(t) ==
    /\ Runs(t, "run") /\ Yields(t)
    /\ table' = [table EXCEPT ![current_priority[t]] = Rotated(@, t)]
    /\ Calls(t, "rt_schedule")
    /\ UNCHANGED <<stat, group, current_priority, remaining_tick, cur, nest, waiting,
                   armed, switchVars, cpu, isr, target, defunct, freed>>

EnterCritical(t) ==
    /\ Runs(t, "run") /\ nest < MaxNest
    /\ nest' = nest + 1
    /\ UNCHANGED <<readyVars, current_priority, remaining_tick, cur, waiting, armed,
                   switchVars, cpu, isr, pc, target, defunct, freed>>

ExitCriticalQuiet(t) ==  (* mutant: no rt_schedule when the lock is released *)
    /\ Runs(t, "run") /\ nest > 0
    /\ nest' = nest - 1
    /\ UNCHANGED <<readyVars, current_priority, remaining_tick, cur, waiting, armed,
                   switchVars, cpu, isr, pc, target, defunct, freed>>
ExitCritical(t) ==
    /\ Runs(t, "run") /\ nest > 0
    /\ nest' = nest - 1
    /\ Calls(t, IF nest = 1 THEN "rt_schedule" ELSE "run")
    /\ UNCHANGED <<readyVars, current_priority, remaining_tick, cur, waiting, armed,
                   switchVars, cpu, isr, target, defunct, freed>>

(* rt_thread_control(u, RT_THREAD_CTRL_CHANGE_PRIORITY, p) with an rt_schedule  *)
(* to follow, as rt_mutex_take calls it; rt_mutex_release without a waiting     *)
(* thread makes no such call, which is the subject of Mutex.                    *)
ChangePriority(t, u, p) ==
    /\ Runs(t, "run") /\ u # Idle /\ stat[u] \in {"ready", "suspend"} /\ ~Handled(u)
    /\ current_priority' = [current_priority EXCEPT ![u] = p]
    /\ IF stat[u] = "ready"
       THEN LET q == current_priority[u]
                off == [table EXCEPT ![q] = Without(@, u)]
            IN  /\ table' = [off EXCEPT ![p] = Append(@, u)]
                /\ group' = (IF off[q] = <<>> THEN group \ {q} ELSE group) \cup {p}
       ELSE UNCHANGED <<table, group>>
    /\ Calls(t, "rt_schedule")
    /\ UNCHANGED <<stat, remaining_tick, cur, nest, waiting, armed, switchVars, cpu,
                   isr, target, defunct, freed>>

ExitListed(t) ==  (* mutant: the thread stays in the ready list *)
    /\ Runs(t, "run") /\ t # Idle /\ nest = 0
    /\ armed' = armed \ {t}
    /\ defunct' = defunct \cup {t}
    /\ Calls(t, "rt_schedule")
    /\ UNCHANGED <<readyVars, current_priority, remaining_tick, cur, nest, waiting,
                   switchVars, cpu, isr, target, freed>>
(* rt_thread_exit of a thread made by rt_thread_create *)
Exit(t) ==
    /\ Runs(t, "run") /\ t # Idle /\ nest = 0
    /\ RemoveAs(t, "close")
    /\ armed' = armed \ {t}
    /\ defunct' = defunct \cup {t}
    /\ Calls(t, "rt_schedule")
    /\ UNCHANGED <<current_priority, remaining_tick, cur, nest, waiting, switchVars,
                   cpu, isr, target, freed>>

(* rt_thread_delete(u): off its list, then off the timers, then dead. *)

Delete(t, u) ==
    /\ Runs(t, "run") /\ u \notin {t, Idle}
    /\ stat[u] # "close" /\ ~Handled(u) /\ (u \in armed => Sleepers)
    /\ IF stat[u] = "ready" THEN RemoveAs(u, "ready") ELSE UNCHANGED readyVars
    /\ waiting' = waiting \ {u}
    /\ target' = [target EXCEPT ![t] = u]
    /\ Calls(t, "delete_timer")
    /\ UNCHANGED <<current_priority, remaining_tick, cur, nest, armed, switchVars, cpu,
                   isr, defunct, freed>>

DeleteTimer(t) ==
    /\ Runs(t, "delete_timer")
    /\ armed' = armed \ {target[t]}
    /\ Calls(t, "delete_close")
    /\ UNCHANGED <<readyVars, current_priority, remaining_tick, cur, nest, waiting,
                   switchVars, cpu, isr, target, defunct, freed>>

DeleteClose(t) ==
    /\ Runs(t, "delete_close")
    /\ stat' = [stat EXCEPT ![target[t]] = "close"]
    /\ defunct' = defunct \cup {target[t]}
    /\ target' = [target EXCEPT ![t] = t]
    /\ Calls(t, "run")
    /\ UNCHANGED <<table, group, current_priority, remaining_tick, cur, nest, waiting,
                   armed, switchVars, cpu, isr, freed>>

(* rt_thread_idle_excute frees the stack of a dead thread. *)
Reclaim(u) ==
    /\ Runs(Idle, "run") /\ u \in defunct
    /\ defunct' = defunct \ {u}
    /\ freed' = freed \cup {u}
    /\ UNCHANGED <<readyVars, current_priority, remaining_tick, cur, nest, waiting,
                   armed, switchVars, cpu, isr, pc, target>>

-----------------------------------------------------------------------------
(* Interrupts *)

(* SysTick_Handler: rt_tick_increase charges rt_current_thread, which need not *)
(* be the thread that was interrupted, up to the rt_schedule of its yield.     *)
Tick ==
    /\ isr = "none"
    /\ LET left == remaining_tick[cur] - 1
       IN  /\ remaining_tick' = [remaining_tick EXCEPT ![cur] =
                                     IF left = 0 THEN InitTick ELSE left]
           /\ IF left = 0 /\ Yields(cur)
              THEN /\ table' = [table EXCEPT ![current_priority[cur]] =
                                    Rotated(@, cur)]
                   /\ isr' = "yield"
              ELSE UNCHANGED table /\ isr' = "timers"
    /\ UNCHANGED <<stat, group, current_priority, cur, nest, waiting, armed,
                   switchVars, cpu, pc, target, defunct, freed>>

(* rt_timer_check runs rt_thread_timeout of a thread whose timer expires. *)
ThreadTimeout(u) ==
    /\ isr = "timers" /\ u \in armed
    /\ Insert(u)
    /\ waiting' = waiting \ {u} /\ armed' = armed \ {u}
    /\ isr' = "yield"
    /\ UNCHANGED <<current_priority, remaining_tick, cur, nest, switchVars, cpu, pc,
                   target, defunct, freed>>

(* An interrupt handler resumes a thread through an IPC object. *)
DeviceWakeUp(u) ==
    /\ isr = "none"
    /\ ResumeWaiting(u)
    /\ isr' = "last"
    /\ UNCHANGED <<current_priority, remaining_tick, cur, nest, switchVars, cpu, pc,
                   target, defunct, freed>>

IsrSchedule ==
    /\ isr \in {"yield", "last"}
    /\ Reschedule
    /\ isr' = IF isr = "yield" THEN "timers" ELSE "none"
    /\ UNCHANGED <<readyVars, current_priority, remaining_tick, nest, waiting, armed,
                   cpu, pc, target, defunct, freed>>

TickReturn ==
    /\ isr = "timers"
    /\ isr' = "none"
    /\ UNCHANGED <<readyVars, current_priority, remaining_tick, cur, nest, waiting,
                   armed, switchVars, cpu, pc, target, defunct, freed>>

(* PendSV_Handler saves the CPU into from and loads it from to.  What the two   *)
(* variables hold afterwards is never read, and the model forgets it.           *)
PendSV ==
    /\ flag /\ isr = "none"
    /\ flag' = FALSE /\ from' = None /\ to' = None
    /\ cpu' = to
    /\ UNCHANGED <<readyVars, current_priority, remaining_tick, cur, nest, waiting,
                   armed, isr, pc, target, defunct, freed>>

-----------------------------------------------------------------------------
ThreadStep(t) ==
    \/ Schedule(t) \/ InsertStarted(t) \/ Yield(t)
    \/ EnterCritical(t) \/ ExitCritical(t) \/ Exit(t)
    \/ DeleteTimer(t) \/ DeleteClose(t)
    \/ \E u \in Thread : \/ Startup(t, u) \/ WakeUp(t, u)
                         \/ ResumeOther(t, u) \/ SuspendOther(t, u) \/ Delete(t, u)
    \/ \E u \in Thread, p \in Priorities : ChangePriority(t, u, p)
    \/ \E ipc, timed \in BOOLEAN : Block(t, ipc, timed)
Isr ==
    \/ Tick \/ IsrSchedule \/ TickReturn
    \/ \E u \in Thread : ThreadTimeout(u) \/ DeviceWakeUp(u)
Next ==
    \/ \E t \in Thread : ThreadStep(t)
    \/ \E u \in Thread : Reclaim(u)
    \/ Isr \/ PendSV
Spec == Init /\ [][Next]_vars

(* SysTick ticks, handlers return, a thread in a kernel call goes on with it   *)
(* and unlocks the scheduler again; a switch pended for a thread again and     *)
(* again is carried out once: a tick does not always hit the few cycles        *)
(* between pending PendSV and taking it.                                       *)
Fairness ==
    /\ SF_vars(Tick) /\ WF_vars(IsrSchedule \/ TickReturn)
    /\ SF_vars(\E t \in Thread : \/ Schedule(t) \/ InsertStarted(t)
                                 \/ DeleteTimer(t) \/ DeleteClose(t))
    /\ SF_vars(\E t \in Thread : ExitCritical(t))
    /\ \A t \in Thread \ {Idle} : SF_vars(PendSV /\ cpu' = t)
FairSpec == Spec /\ Fairness
-----------------------------------------------------------------------------
(* Properties *)

(* Every variable stays in its range; the time slice never reaches zero. *)
TypeOK ==
    /\ stat \in [Thread -> {"init", "ready", "suspend", "close"}]
    /\ current_priority \in [Thread -> Prio]
    /\ remaining_tick \in [Thread -> 1..InitTick]
    /\ table \in [Prio -> Seq(Thread)] /\ group \in SUBSET Prio
    /\ cur \in Thread /\ nest \in 0..MaxNest
    /\ waiting \in SUBSET Thread /\ armed \in SUBSET Thread
    /\ flag \in BOOLEAN /\ from \in Thread \cup {None} /\ to \in Thread \cup {None}
    /\ cpu \in Thread \cup {None}
    /\ isr \in {"none", "yield", "timers", "last"}
    /\ pc \in [Thread -> {"run", "insert", "rt_schedule", "delete_timer",
                         "delete_close"}]
    /\ target \in [Thread -> Thread]
    /\ defunct \in SUBSET Thread /\ freed \in SUBSET Thread

(* The ready table, its bitmap and the states of the threads agree: a bit is   *)
(* set exactly for the lists that are not empty, a thread is in the list of    *)
(* its current priority, once, exactly while it is ready and not being deleted.*)
Listed(t, p) == {i \in DOMAIN table[p] : table[p][i] = t}
Deleted(u) == \E t \in Thread : pc[t] \in {"delete_timer", "delete_close"} /\ target[t] = u
ReadyTable ==
    /\ \A p \in Prio : p \in group <=> table[p] # <<>>
    /\ \A t \in Thread, p \in Prio :
           Cardinality(Listed(t, p)) =
               IF stat[t] = "ready" /\ ~Deleted(t) /\ p = current_priority[t] THEN 1 ELSE 0

(* Both of these, for the run. *)
SchedulerOK == TypeOK /\ ReadyTable

(* Without a pending switch the CPU runs rt_current_thread.  With one, however *)
(* often interrupts have changed their mind, PendSV saves the thread the CPU   *)
(* runs and loads rt_current_thread.                                           *)
SwitchIsConsistent ==
    IF flag THEN from = cpu /\ to = cur ELSE cpu = cur

(* A thread that executes its own code with the scheduler unlocked is the      *)
(* first of the highest priority.                                              *)
HighestRuns ==
    ~flag /\ isr = "none" /\ nest = 0 /\ pc[cpu] = "run"
        => cpu = table[Highest(group)][1]

(* The stack of a thread is freed only when the CPU neither runs it nor is     *)
(* about to switch from it or to it.                                           *)
NoUseAfterFree ==
    freed \cap ({cpu, cur} \cup (IF flag THEN {from, to} ELSE {})) = {}

(* While the scheduler is locked the CPU stays with the thread that locked it. *)
LockKeepsCpu == [][nest > 0 => cpu' = cpu]_vars

(* Threads of the same priority take turns: a thread that stays ready at the   *)
(* highest ready priority gets the CPU again and again, unless priorities are  *)
(* set again and again: rt_thread_control puts the thread behind the others.   *)
AtTop(t) == stat[t] = "ready" /\ current_priority[t] = Highest(group)
SetsPriority == \E t, u \in Thread, p \in Priorities : ChangePriority(t, u, p)
RoundRobin ==
    <>[][~SetsPriority]_vars => \A t \in Thread \ {Idle} : <>[]AtTop(t) => []<>(cpu = t)
=============================================================================
