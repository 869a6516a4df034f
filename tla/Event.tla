------------------------------- MODULE Event --------------------------------
(***************************************************************************)
(* rt_event_send, rt_event_recv with all of its options and timeouts, and  *)
(* the RESET of rt_event_control.  The loop of rt_event_send over the      *)
(* waiting list runs with interrupts disabled, one step per thread.        *)
(***************************************************************************)
EXTENDS IpcObject

CONSTANTS Bits, Options   \* Options: records [all, clear], the AND and CLEAR flags

ASSUME EventAssumption == Options \subseteq [all : BOOLEAN, clear : BOOLEAN]

VARIABLE set
evVars == <<set>>

Masks == (SUBSET Bits) \ {{}}

EvInit == set = {}

Waiting(mask, option, timed) ==
    [on |-> "event", timed |-> timed, error |-> "OK",
     mask |-> mask, asked |-> mask, all |-> option.all, clear |-> option.clear]

(* The condition of rt_event_recv, and of the loop of rt_event_send. *)
Satisfies(s, mask, all) == IF all THEN mask \subseteq s ELSE mask \cap s # {}

(* rt_event_recv.  With the timeout 0 and nothing received it changes nothing. *)

EvRecv(t, mask, option) ==
    /\ Runs(t, "run") /\ Satisfies(set, mask, option.all)
    /\ set' = IF option.clear THEN set \ mask ELSE set
    /\ UNCHANGED threadVars

EvRecvWaits(t, mask, option, timed) ==
    /\ Runs(t, "run") /\ ~Satisfies(set, mask, option.all)
    /\ Suspend(t, Waiting(mask, option, timed))
    /\ UNCHANGED evVars

EvRecvReturns(t) ==
    /\ Wakes(t, "event")
    /\ Returns(t)
    /\ UNCHANGED <<ready, cur, armed, suspend_thread, loop, evVars>>

-----------------------------------------------------------------------------
(* rt_event_send: the bits are set, and the waiting threads looked at in the   *)
(* order of the list.                                                          *)

EvSend(c, mask) ==
    /\ MayCall(c)
    /\ set' = set \cup mask
    /\ loop' = IF Suspends("event") THEN [by |-> c, at |-> 1, woke |-> {}] ELSE NoLoop
    /\ UNCHANGED <<ready, cur, armed, pc, call, suspend_thread>>

InLoop == loop # NoLoop /\ loop.at <= Len(suspend_thread["event"])
Looked == suspend_thread["event"][loop.at]

SendPasses ==
    /\ InLoop /\ ~Satisfies(set, call[Looked].mask, call[Looked].all)
    /\ loop' = [loop EXCEPT !.at = @ + 1]
    /\ UNCHANGED <<ready, cur, armed, pc, call, suspend_thread, evVars>>

(* What thread t of the list gets: with OR, those of its bits that are set. *)
Received(t) == IF call[t].all THEN call[t].mask ELSE call[t].mask \cap set

SendResumesAll ==  (* mutant: the bits stay set for the threads behind *)
    /\ InLoop /\ Satisfies(set, call[Looked].mask, call[Looked].all)
    /\ call' = [call EXCEPT ![Looked].mask = Received(Looked)]
    /\ suspend_thread' = [suspend_thread EXCEPT !["event"] = Without(@, Looked)]
    /\ ready' = ready \cup {Looked} /\ armed' = armed \ {Looked}
    /\ loop' = [loop EXCEPT !.woke = @ \cup {Looked}]
    /\ UNCHANGED <<cur, pc, evVars>>
SendResumes ==
    /\ InLoop /\ Satisfies(set, call[Looked].mask, call[Looked].all)
    /\ call' = [call EXCEPT ![Looked].mask = Received(Looked)]
    /\ set' = IF call[Looked].clear THEN set \ Received(Looked) ELSE set
    /\ suspend_thread' = [suspend_thread EXCEPT !["event"] = Without(@, Looked)]
    /\ ready' = ready \cup {Looked} /\ armed' = armed \ {Looked}
    /\ loop' = [loop EXCEPT !.woke = @ \cup {Looked}]
    /\ UNCHANGED <<cur, pc>>

SendEnds ==
    /\ loop # NoLoop /\ ~InLoop
    /\ loop' = NoLoop
    /\ IF loop.woke # {} THEN UNCHANGED ready /\ ThenSchedule(loop.by)
                    ELSE UNCHANGED <<ready, cur, pc>>
    /\ UNCHANGED <<armed, call, suspend_thread, evVars>>

(* rt_event_control with RT_IPC_CMD_RESET *)
EvReset(t) ==
    /\ Runs(t, "run")
    /\ ResumeAll({"event"}) /\ ThenSchedule(t)
    /\ set' = {}
    /\ UNCHANGED loop

EvNext ==
    \/ \E c \in Callers, mask \in Masks : EvSend(c, mask)
    \/ SendPasses \/ SendResumes \/ SendEnds
    \/ \E t \in Thread :
        \/ EvRecvReturns(t) \/ EvReset(t)
        \/ \E mask \in Masks, option \in Options :
            \/ EvRecv(t, mask, option)
            \/ \E timed \in Timed : EvRecvWaits(t, mask, option, timed)

-----------------------------------------------------------------------------
(* No thread waits for bits that are set. *)
NoWaitWithBits ==
    loop = NoLoop => \A t \in Elements(suspend_thread["event"]) :
        ~Satisfies(set, call[t].mask, call[t].all)

(* What rt_event_recv returns is what was asked for: with AND all of it, with  *)
(* OR some of it.                                                              *)
ReceivesAsked ==
    \A t \in Woken("event") : /\ call[t].mask # {} /\ call[t].mask \subseteq call[t].asked
                              /\ call[t].all => call[t].mask = call[t].asked

(* A bit that is sent once wakes at most one of the threads that clear it. *)
OneTaker ==
    loop # NoLoop => \A t, u \in loop.woke :
        t # u /\ call[t].clear /\ call[u].clear => call[t].mask \cap call[u].mask = {}
=============================================================================
