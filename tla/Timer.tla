------------------------------- MODULE Timer --------------------------------
(***************************************************************************)
(* The hard timers of the kernel: the list rt_timer_list, ordered by the   *)
(* tick at which a timer expires, rt_timer_start and rt_timer_stop called  *)
(* by threads that can be preempted between their critical sections, and   *)
(* rt_timer_check in the SysTick interrupt.  The tick counter is w bits    *)
(* wide and wraps; expiry is decided by differences of ticks.              *)
(***************************************************************************)
EXTENDS WaitingList, FiniteSets

CONSTANTS
    Timers, Users,  (* timers; threads that start and stop them               *)
    Periodic,       (* the timers with RT_TIMER_FLAG_PERIODIC                 *)
    UsedBy,         (* per timer: the threads that may start and stop it      *)
    InitTick,       (* per timer: init_tick                                   *)
    TickMod,        (* the tick counter counts modulo this: 2^32 in the code  *)
    MaxLate         (* bound: ticks a thread may be kept from inserting the   *)
                    (* timer once rt_timer_start has read the tick            *)

RT_TICK_MAX == TickMod - 1
Half == RT_TICK_MAX \div 2

ASSUME TimerAssumption ==
    /\ IsFiniteSet(Timers) /\ Timers # {} /\ IsFiniteSet(Users) /\ Periodic \subseteq Timers
    /\ UsedBy \in [Timers -> SUBSET Users]
    /\ TickMod \in Nat \ {0} /\ MaxLate \in Nat
    /\ InitTick \in [Timers -> Nat]
    /\ \A t \in Timers : InitTick[t] + MaxLate < Half
    /\ MaxLate + 1 < Half
    /\ \A t \in Periodic : InitTick[t] > 0

VARIABLES
    rt_tick,
    list,          (* rt_timer_list                                            *)
    timeout_tick,  (* per timer                                                *)
    activated,     (* the timers with RT_TIMER_FLAG_ACTIVATED                  *)
    checking,      (* TRUE: SysTick is in rt_timer_check                       *)
    pc, arg,       (* per thread: where in a call it is, and for which timer   *)
    due,           (* history, per started timer: ticks until it is to fire    *)
    late,          (* history: timers inserted when they were already due,     *)
                   (* since the last rt_timer_check                            *)
    earlier,       (* history: <<t, u>> when t was inserted before u, both     *)
                   (* in the list                                              *)
    solo,          (* history: threads in an rt_timer_stop that no other call  *)
                   (* for the timer has overlapped so far                      *)
    stopped        (* history: timers stopped by such a call, not started since*)

timerVars == <<list, timeout_tick, activated>>
callVars == <<pc, arg>>
histVars == <<due, late, earlier, solo, stopped>>
vars == <<rt_tick, timerVars, checking, callVars, histVars>>

NoTimer == CHOOSE t \in Timers : TRUE   \* the argument of a thread in no call

Init ==
    /\ rt_tick = 0 /\ list = <<>>
    /\ timeout_tick = [t \in Timers |-> 0]
    /\ activated = {} /\ checking = FALSE
    /\ pc = [u \in Users |-> "ready"]
    /\ arg = [u \in Users |-> NoTimer]
    /\ due = [t \in Timers |-> 0] /\ late = {} /\ earlier = {} /\ solo = {} /\ stopped = {}

Listed == Elements(list)
(* The code's order of two ticks, right for less than half the counter. *)
Since(a, b) == (a - b) % TickMod

(* Mutants of Expired: ticks compared as numbers, one tick more. *)
ExpiredPlain(t) == rt_tick >= timeout_tick[t]
ExpiredStrict(t) == Since(rt_tick, timeout_tick[t]) \in 1..Half-1

Expired(t) == Since(rt_tick, timeout_tick[t]) < Half

(* Mutant: in front of a timer that expires at the same tick. *)
PlaceOnTie(s, tick) ==
    LET after == {i \in DOMAIN s : Since(timeout_tick[s[i]], tick) \in 0..Half-1}
    IN  IF after = {} THEN Len(s) + 1 ELSE CHOOSE i \in after : \A j \in after : i <= j

(* The new timer goes in front of the first one that expires after it. *)
Place(s, tick) ==
    LET after == {i \in DOMAIN s : Since(timeout_tick[s[i]], tick) \in 1..Half-1}
    IN  IF after = {} THEN Len(s) + 1 ELSE CHOOSE i \in after : \A j \in after : i <= j
Inserted(s, t, tick) == Linked(s, Place(s, tick), t)
(* rt_list_remove: a timer that is in no list is linked to itself. *)
Unlinked(s, t) == IF t \in Elements(s) THEN Without(s, t) ELSE s
Forget(t) == {e \in earlier : t \notin {e[1], e[2]}}
InsertedAfter(t, s) == Forget(t) \cup {<<u, t>> : u \in Elements(s)}

-----------------------------------------------------------------------------
(* A thread calls rt_timer_start or rt_timer_stop                            *)

Runs(u, label) == ~checking /\ pc[u] = label
Goto(u, label) == pc' = [pc EXCEPT ![u] = label]
Return(u) == Goto(u, "ready") /\ arg' = [arg EXCEPT ![u] = NoTimer]
NoCall(us, t) == \A v \in us : pc[v] = "ready" \/ arg[v] # t
Overlap(u, t) == {v \in solo \ {u} : arg[v] # t}   \* solo once u calls for t

StartRemove(u, t) ==
    /\ Runs(u, "ready") /\ u \in UsedBy[t]
    /\ list' = Unlinked(list, t)
    /\ activated' = activated \ {t}
    /\ arg' = [arg EXCEPT ![u] = t]
    /\ Goto(u, "start_tick")
    /\ due' = [due EXCEPT ![t] = 0] /\ earlier' = Forget(t)
    /\ solo' = Overlap(u, t) /\ stopped' = stopped \ {t}
    /\ UNCHANGED <<rt_tick, timeout_tick, checking, late>>

(* Interrupts are enabled here. *)
StartTick(u) ==
    /\ Runs(u, "start_tick")
    /\ timeout_tick' = [timeout_tick EXCEPT ![arg[u]] =
                            (rt_tick + InitTick[arg[u]]) % TickMod]
    /\ due' = [due EXCEPT ![arg[u]] = InitTick[arg[u]]]
    /\ Goto(u, "start_insert")
    /\ UNCHANGED <<rt_tick, list, activated, checking, arg, late, earlier, solo, stopped>>

(* The timer goes into the list and gets its flag. *)
Insert(u) ==
    LET t == arg[u]
    IN  /\ Runs(u, "start_insert")
        /\ list' = Inserted(list, t, timeout_tick[t])
        /\ activated' = activated \cup {t}
        /\ earlier' = InsertedAfter(t, list)
        /\ UNCHANGED <<rt_tick, timeout_tick, checking, due, solo, stopped>>

StartInsert(u) ==
    /\ Insert(u) /\ Return(u)
    /\ late' = IF due[arg[u]] <= 0 THEN late \cup {arg[u]} ELSE late \ {arg[u]}

(* -RT_ERROR: the timer is not activated. *)
StopRefused(u, t) ==
    /\ Runs(u, "ready") /\ u \in UsedBy[t] /\ t \notin activated
    /\ stopped' = IF NoCall(Users \ {u}, t) THEN stopped \cup {t} ELSE stopped
    /\ UNCHANGED <<rt_tick, timerVars, checking, callVars, due, late, earlier, solo>>

(* The flag is read before interrupts are disabled ... *)
StopCheck(u, t) ==
    /\ Runs(u, "ready") /\ u \in UsedBy[t] /\ t \in activated
    /\ arg' = [arg EXCEPT ![u] = t]
    /\ Goto(u, "stop_remove")
    /\ solo' = Overlap(u, t) \cup (IF NoCall(Users \ {u}, t) THEN {u} ELSE {})
    /\ UNCHANGED <<rt_tick, timerVars, checking, due, late, earlier, stopped>>

StopRemove(u) ==
    /\ Runs(u, "stop_remove")
    /\ list' = Unlinked(list, arg[u])
    /\ Goto(u, "stop_clear")
    /\ due' = [due EXCEPT ![arg[u]] = 0] /\ earlier' = Forget(arg[u])
    /\ UNCHANGED <<rt_tick, timeout_tick, activated, checking, arg, late, solo, stopped>>

(* ... and cleared after they were enabled. *)
StopClear(u) ==
    /\ Runs(u, "stop_clear")
    /\ activated' = activated \ {arg[u]}
    /\ Return(u)
    /\ solo' = solo \ {u}
    /\ stopped' = IF u \in solo THEN stopped \cup {arg[u]} ELSE stopped
    /\ UNCHANGED <<rt_tick, list, timeout_tick, checking, due, late, earlier>>

-----------------------------------------------------------------------------
(* SysTick                                                                   *)

(* The timers whose time runs: listed, or about to be inserted. *)
Started(t) == t \in Listed \/ \E u \in Users : pc[u] = "start_insert" /\ arg[u] = t

Tick ==
    /\ ~checking
    /\ \A u \in Users : pc[u] = "start_insert" => due[arg[u]] > -MaxLate
    /\ rt_tick' = (rt_tick + 1) % TickMod
    /\ checking' = TRUE
    /\ due' = [t \in Timers |-> IF Started(t) THEN due[t] - 1 ELSE due[t]]
    /\ UNCHANGED <<timerVars, callVars, late, earlier, solo, stopped>>

(* rt_timer_check fires the first timer.  Its timeout function may stop it, *)
(* as timeout1 and timeout2 do; a periodic timer is started again.          *)
Fire(stops) ==
    LET t == Head(list)
        rest == Tail(list)
        again == t \in Periodic /\ t \in activated /\ ~stops
        tick == (rt_tick + InitTick[t]) % TickMod
    IN  /\ checking /\ list # <<>> /\ Expired(t)
        /\ IF again
           THEN /\ timeout_tick' = [timeout_tick EXCEPT ![t] = tick]
                /\ list' = Inserted(rest, t, tick)
                /\ due' = [due EXCEPT ![t] = InitTick[t]]
                /\ late' = late \ {t}
                /\ earlier' = InsertedAfter(t, rest)
                /\ UNCHANGED activated
           ELSE /\ list' = rest
                /\ activated' = activated \ {t}
                /\ due' = [due EXCEPT ![t] = 0] /\ earlier' = Forget(t)
                /\ UNCHANGED <<timeout_tick, late>>
        /\ stopped' = IF stops /\ NoCall(Users, t) THEN stopped \cup {t} ELSE stopped
        /\ UNCHANGED <<rt_tick, checking, callVars, solo>>

CheckReturn ==
    /\ checking
    /\ list # <<>> => ~Expired(Head(list))
    /\ checking' = FALSE
    /\ late' = {}
    /\ UNCHANGED <<rt_tick, timerVars, callVars, due, earlier, solo, stopped>>

-----------------------------------------------------------------------------
Call(u) ==
    \/ StartTick(u) \/ StartInsert(u) \/ StopRemove(u) \/ StopClear(u)
    \/ \E t \in Timers : StartRemove(u, t) \/ StopRefused(u, t) \/ StopCheck(u, t)
Next ==
    \/ \E u \in Users : Call(u)
    \/ Tick \/ CheckReturn \/ \E stops \in BOOLEAN : Fire(stops)
Spec == Init /\ [][Next]_vars
-----------------------------------------------------------------------------
(* Properties *)

(* Every variable stays in its range. *)
TypeOK ==
    /\ rt_tick \in 0..TickMod-1 /\ list \in Seq(Timers)
    /\ timeout_tick \in [Timers -> 0..TickMod-1]
    /\ activated \in SUBSET Timers /\ checking \in BOOLEAN
    /\ pc \in [Users -> {"ready", "start_tick", "start_insert", "start_resume",
                        "stop_remove", "stop_clear"}]
    /\ arg \in [Users -> Timers]
    /\ due \in [Timers -> Int] /\ late \in SUBSET Timers
    /\ earlier \in SUBSET (Timers \X Timers) /\ stopped \in SUBSET Timers
    /\ solo \in SUBSET Users

(* Across the wrap of the tick counter the list is ordered by the time that is *)
(* left, and timers that expire at the same tick are in the order of insertion.*)
Ordered ==
    \A i, j \in DOMAIN list : i < j =>
        \/ due[list[i]] < due[list[j]]
        \/ due[list[i]] = due[list[j]] /\ <<list[i], list[j]>> \in earlier

(* rt_timer_check leaves no timer in the list behind its time: one that was    *)
(* inserted when its time had come fires at the next tick.                     *)
NeverLate == ~checking => \A t \in Listed : due[t] > 0 \/ t \in late

(* After an rt_timer_stop that no other call for the timer overlapped, and     *)
(* until the next rt_timer_start, the timer is in no list and does not fire.   *)
StopStops == stopped \cap Listed = {}
=============================================================================
