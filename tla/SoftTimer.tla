------------------------------ MODULE SoftTimer -------------------------------
(***************************************************************************)
(* Hard or soft timers (RT_TIMER_FLAG_SOFT_TIMER).  Soft timers are kept   *)
(* in rt_soft_timer_list, started and stopped by the same functions, and   *)
(* fired by the timer thread, which sleeps until the first of them is due, *)
(* or for ever when there is none; rt_timer_start then wakes it up.        *)
(*                                                                         *)
(* A program here has timers of one kind, which soft tells; the variables  *)
(* of Timer stand for the list of that kind.  The timer thread locks the   *)
(* scheduler, not the interrupts, while it goes through the list.          *)
(***************************************************************************)
EXTENDS Timer

CONSTANTS
    Kinds,        (* bound: the values of soft                                *)
    SoftUsers,    (* bound: the users of soft timers                          *)
    Above         (* the users of a higher priority than the timer thread     *)

ASSUME SoftAssumption ==
    Kinds \subseteq BOOLEAN /\ SoftUsers \subseteq Users /\ Above \subseteq Users

End == "end"      \* the head of rt_soft_timer_list, as a value of n

VARIABLES
    soft,
    at,           (* where the timer thread is in rt_thread_timer_entry       *)
    next_timeout, (* its local variable, and what is left of its delay        *)
    current_tick, n,
    firing,       (* the t of rt_soft_timer_check                             *)
    lag,          (* history: ticks since the delay was computed              *)
    collided      (* history: the thread took a timer for none, its timeout   *)
                  (* being the tick RT_TICK_MAX                               *)

localVars == <<next_timeout, current_tick, n, firing>>
threadVars == <<at, localVars, lag, collided>>
softVars == <<soft, threadVars>>
allVars == <<vars, softVars>>

SoftInit ==
    /\ Init /\ soft \in Kinds
    /\ at = "next" /\ next_timeout = 0 /\ current_tick = 0
    /\ n = End /\ firing = End /\ lag = 0 /\ collided = FALSE

Asleep == at \in {"suspended", "delayed"}
Locked == at \in {"check", "restart"}
(* The timer thread goes on behind its sleep. *)
Wakes == at' = "enter" /\ next_timeout' = 0 /\ lag' = 0 /\ collided' = FALSE
(* The element behind t; one that is not in the list is linked to itself. *)
NextOf(t) ==
    IF t \notin Listed THEN t
    ELSE LET i == CHOOSE j \in DOMAIN list : list[j] = t
         IN  IF i = Len(list) THEN End ELSE list[i+1]

-----------------------------------------------------------------------------
(* The calls of the users, as for hard timers, and the end of rt_timer_start *)

MayRun(u) == Asleep \/ (u \in Above /\ ~Locked)

SoftInsert(u) ==
    /\ Insert(u)
    /\ Goto(u, "start_resume")
    /\ UNCHANGED <<arg, late>>

SoftResumeNever(u) ==  (* mutant: a thread that delays is not resumed *)
    /\ pc[u] = "start_resume"
    /\ IF at = "suspended" THEN Wakes ELSE UNCHANGED <<at, next_timeout, lag, collided>>
    /\ Return(u)
    /\ UNCHANGED <<rt_tick, timerVars, checking, histVars, current_tick, n, firing>>
(* The timer thread is resumed if it is not ready. *)
SoftResume(u) ==
    /\ pc[u] = "start_resume"
    /\ IF Asleep THEN Wakes ELSE UNCHANGED <<at, next_timeout, lag, collided>>
    /\ Return(u)
    /\ UNCHANGED <<rt_tick, timerVars, checking, histVars, current_tick, n, firing>>

SoftCall(u) ==
    /\ MayRun(u)
    /\ \/ SoftResume(u)
       \/ /\ \/ StartTick(u) \/ SoftInsert(u) \/ StopRemove(u) \/ StopClear(u)
             \/ \E t \in Timers : StartRemove(u, t) \/ StopRefused(u, t) \/ StopCheck(u, t)
          /\ UNCHANGED threadVars

-----------------------------------------------------------------------------
(* rt_thread_timer_entry.  A local variable that is not used any more counts   *)
(* as 0 or End.                                                                *)

Entry(from) == at = from /\ UNCHANGED <<rt_tick, checking, callVars, late, solo>>

(* rt_timer_list_next_timeout *)
NextTimeout ==
    /\ Entry("next")
    /\ IF list = <<>> \/ timeout_tick[Head(list)] = RT_TICK_MAX
       THEN at' = "suspend" /\ UNCHANGED next_timeout
       ELSE at' = "tick" /\ next_timeout' = timeout_tick[Head(list)]
    /\ collided' = (list # <<>> /\ timeout_tick[Head(list)] = RT_TICK_MAX)
    /\ UNCHANGED <<timerVars, due, earlier, stopped, current_tick, n, firing, lag>>

SuspendSelf ==
    /\ Entry("suspend")
    /\ at' = "suspended"
    /\ UNCHANGED <<timerVars, due, earlier, stopped, localVars, lag, collided>>

CurrentTick ==
    /\ Entry("tick")
    /\ IF Since(next_timeout, rt_tick) < Half
       THEN at' = "delay" /\ next_timeout' = Since(next_timeout, rt_tick)
       ELSE at' = "enter" /\ next_timeout' = 0
    /\ UNCHANGED <<timerVars, due, earlier, stopped, current_tick, n, firing, lag, collided>>

(* rt_thread_delay *)
Delay ==
    /\ Entry("delay")
    /\ at' = "delayed"
    /\ UNCHANGED <<timerVars, due, earlier, stopped, localVars, lag, collided>>

-----------------------------------------------------------------------------
(* rt_soft_timer_check *)

CheckEnter ==
    /\ Entry("enter")
    /\ current_tick' = rt_tick
    /\ n' = IF list = <<>> THEN End ELSE Head(list)
    /\ at' = "check"
    /\ UNCHANGED <<timerVars, due, earlier, stopped, next_timeout, firing, lag, collided>>

SoftExpired == n # End /\ Since(current_tick, timeout_tick[n]) < Half

(* The timer leaves the list, and its timeout function is called with the *)
(* scheduler unlocked; it may stop the timer.                             *)
SoftFire(stops) ==
    /\ Entry("check") /\ SoftExpired
    /\ firing' = n /\ n' = NextOf(n)
    /\ list' = Unlinked(list, n)
    /\ activated' = IF stops THEN activated \ {n} ELSE activated
    /\ due' = [due EXCEPT ![n] = 0] /\ earlier' = Forget(n)
    /\ stopped' = IF stops /\ NoCall(Users, n) THEN stopped \cup {n} ELSE stopped
    /\ at' = "called"
    /\ UNCHANGED <<timeout_tick, next_timeout, current_tick, lag, collided>>

(* Afterwards a periodic timer that is still activated is started again, first *)
(* with its tick and then into the list.                                       *)
SoftFiredStopped ==  (* mutant: the flag is not looked at *)
    /\ Entry("called")
    /\ current_tick' = rt_tick
    /\ activated' = activated \ {firing}
    /\ IF firing \in Periodic
       THEN /\ timeout_tick' = [timeout_tick EXCEPT ![firing] =
                                   (rt_tick + InitTick[firing]) % TickMod]
            /\ due' = [due EXCEPT ![firing] = InitTick[firing]]
            /\ at' = "restart"
       ELSE at' = "check" /\ UNCHANGED <<timeout_tick, due>>
    /\ UNCHANGED <<list, earlier, stopped, next_timeout, n, firing, lag, collided>>
SoftFired ==
    /\ Entry("called")
    /\ current_tick' = rt_tick
    /\ activated' = activated \ {firing}
    /\ IF firing \in Periodic /\ firing \in activated
       THEN /\ timeout_tick' = [timeout_tick EXCEPT ![firing] =
                                   (rt_tick + InitTick[firing]) % TickMod]
            /\ due' = [due EXCEPT ![firing] = InitTick[firing]]
            /\ at' = "restart"
       ELSE at' = "check" /\ UNCHANGED <<timeout_tick, due>>
    /\ UNCHANGED <<list, earlier, stopped, next_timeout, n, firing, lag, collided>>

SoftRestart ==
    /\ Entry("restart")
    /\ list' = Inserted(list, firing, timeout_tick[firing])
    /\ activated' = activated \cup {firing}
    /\ earlier' = InsertedAfter(firing, list)
    /\ at' = "check"
    /\ UNCHANGED <<timeout_tick, due, stopped, localVars, lag, collided>>

CheckLeave ==
    /\ Entry("check") /\ ~SoftExpired
    /\ at' = "next"
    /\ current_tick' = 0 /\ n' = End /\ firing' = End
    /\ UNCHANGED <<timerVars, due, earlier, stopped, next_timeout, lag, collided>>

ThreadStep ==
    \/ NextTimeout \/ SuspendSelf \/ CurrentTick \/ Delay
    \/ CheckEnter \/ SoftFired \/ SoftRestart \/ CheckLeave
    \/ \E stops \in BOOLEAN : SoftFire(stops)

-----------------------------------------------------------------------------
(* SysTick: the delay of the timer thread, a hard timer, goes on.  Bound: no    *)
(* timer is more than MaxLate ticks late.                                       *)

SoftStarted(t) == Started(t) \/ (at = "restart" /\ t = firing)

SoftTick ==
    /\ \A t \in Timers : SoftStarted(t) => due[t] > -MaxLate
    /\ rt_tick' = (rt_tick + 1) % TickMod
    /\ due' = [t \in Timers |-> IF SoftStarted(t) THEN due[t] - 1 ELSE due[t]]
    /\ IF at = "delayed" /\ next_timeout <= 1 THEN Wakes
       ELSE /\ next_timeout' = IF at = "delayed" THEN next_timeout - 1 ELSE next_timeout
            /\ lag' = IF at = "delay" THEN lag + 1 ELSE lag
            /\ UNCHANGED <<at, collided>>
    /\ UNCHANGED <<timerVars, checking, callVars, late, earlier, solo, stopped,
                   current_tick, n, firing>>

SoftNext ==
    \/ ~soft /\ Next /\ UNCHANGED softVars
    \/ soft /\ (SoftTick \/ ThreadStep \/ \E u \in SoftUsers : SoftCall(u)) /\ UNCHANGED soft
SoftSpec == SoftInit /\ [][SoftNext]_allVars

-----------------------------------------------------------------------------
(* Properties *)

(* Every variable stays in its range. *)
SoftTypeOK ==
    /\ TypeOK /\ soft \in BOOLEAN
    /\ at \in {"next", "suspend", "suspended", "tick", "delay", "delayed", "enter",
              "check", "called", "restart"}
    /\ next_timeout \in 0..TickMod-1 /\ current_tick \in 0..TickMod-1
    /\ n \in Timers \cup {End} /\ firing \in Timers \cup {End}
    /\ lag \in Nat /\ collided \in BOOLEAN

(* Every variable stays in its range, and the list is in its order, hard or    *)
(* soft, also while the timer thread works on it.                              *)
TimersOK == SoftTypeOK /\ Ordered

(* No timer fires before its time, hard or soft.                               *)
NeverEarly ==
    [][/\ checking /\ checking' /\ list # <<>> => due[Head(list)] <= 0
       /\ at = "check" /\ at' = "called" => due[n] <= 0]_allVars

(* Once rt_timer_start has returned, the timer thread does not oversleep: it   *)
(* sleeps for ever only without a soft timer, and otherwise until the first is *)
(* due, or for the tick a delay takes at least, or for as many ticks longer as *)
(* passed between computing the delay and going to sleep.  The exception is a  *)
(* timer that is due at the tick RT_TICK_MAX.                                  *)
AwakeInTime ==
    soft /\ list # <<>> /\ (\A u \in Users : pc[u] # "start_resume") =>
        /\ at = "suspended" => collided
        /\ at = "delayed" => \/ next_timeout <= 1
                             \/ next_timeout <= due[Head(list)] + lag

(* What is said of hard timers only. *)
HardNeverLate == ~soft => NeverLate
=============================================================================
