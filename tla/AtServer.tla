------------------------------ MODULE AtServer ------------------------------
(***************************************************************************)
(* The AT command server of the application: the command sender ATSend,    *)
(* the receive/time-out thread at_process, the transmit thread             *)
(* at_send_thread, the receive thread serial, the 10 ms software timer     *)
(* timer2 that counts at_timeout_cnt down in the SysTick interrupt, the    *)
(* USART1 idle-line interrupt and the shell command at_comtest, on one     *)
(* CPU with fixed priorities, talking through the event object rx1_event.  *)
(*                                                                         *)
(* An action is a stretch of code between two points at which another      *)
(* thread or an interrupt can change what the stretch sees.                *)
(***************************************************************************)
EXTENDS Integers, FiniteSets

CONSTANTS
    FirstCmd, LastCmd,  (* at_comtest walks FirstCmd..LastCmd: 0 and 8 in the code *)
    RtyNum,             (* ATCmds[].RtyNum: 3 for every command                    *)
    TimeoutCnt,         (* the 500 of at_timeout_cnt = 500, scaled                 *)
    BusyTicks,          (* bound: timer2 periods one burst of thread work may last *)
    MaxNoise,           (* bound: unsolicited packets of the Bluetooth module      *)
    MaxLoss,            (* bound: commands the Bluetooth module never answers      *)
    Prompt              (* TRUE: the module answers, if at all, within the timeout *)

ASSUME CmdAssumption == /\ FirstCmd \in 0..8 /\ LastCmd \in 0..8
                        /\ FirstCmd <= LastCmd
ASSUME RtyAssumption == RtyNum \in Nat \ {0}
ASSUME TimeAssumption == /\ TimeoutCnt \in Nat /\ BusyTicks \in Nat
                         /\ BusyTicks < TimeoutCnt
ASSUME DeviceAssumption == /\ MaxNoise \in Nat /\ MaxLoss \in Nat
                           /\ Prompt \in BOOLEAN

(* teATCmdNum *)
AT_ROLE == 0
AT_CONB == 6
AT_REST == 9
AT_TNOCMD == 10
AT_TNOCMD1 == 11
teATCmdNum == AT_ROLE..AT_TNOCMD1

(* The ATRecStr column of ATCmds. *)
ATRecStr == [c \in teATCmdNum |->
               CASE c = 0 -> "ROLE:"            [] c = 1 -> "V"
                 [] c = 2 -> "NAME:"            [] c = 3 -> "UART:"
                 [] c = 4 -> "ADVE"             [] c = 5 -> "Pair code"
                 [] c = 7 -> "ADVERTISING_ON"   [] c = 8 -> "ADVERTISING_OFF"
                 [] OTHER -> "OK"]

(***************************************************************************)
(* A packet is what the module sends between two idle-line interrupts: the *)
(* reply to a command, or Noise, a packet without any keyword (a fragment, *)
(* a message nobody asked for).  KeywordsIn(p) is the set of ATRecStr      *)
(* strings that strstr finds in it: a keyword that contains another one    *)
(* brings it along ("ADVERTISING_ON" contains "ADVE" and "V").             *)
(***************************************************************************)
Noise == -1
Packets == teATCmdNum \cup {Noise}
KeywordsIn(p) ==
    CASE p = Noise -> {}
      [] p = 4 -> {"V", "ADVE"}
      [] p \in {7, 8} -> {"V", "ADVE", ATRecStr[p]}
      [] OTHER -> {ATRecStr[p]}

(* Mutant: the case AT_ROLE of the switch forgets to clear process_buff. *)
ClearingCmdsNotRole == teATCmdNum \ {AT_ROLE, AT_CONB, AT_TNOCMD, AT_TNOCMD1}

(* The cases of the switch in Rec_WaitAT that clear process_buff. *)
ClearingCmds == teATCmdNum \ {AT_CONB, AT_TNOCMD, AT_TNOCMD1}

(* Threads and their priorities; the smaller number runs first. *)
Threads == {"serial", "at_process", "at_send", "shell"}
Priority == [serial |-> 3, at_process |-> 4, at_send |-> 5, shell |-> 20]

(* The bits of rx1_event and the set each thread waits for. *)
Bits == {"REC", "PROCESS", "TIMEOUT", "SEND", "ACK"}
Interest == [serial     |-> {"REC"},
             at_process |-> {"PROCESS", "TIMEOUT"},
             at_send    |-> {"SEND"},
             shell      |-> {"ACK"}]
(* Where a thread continues when its rt_event_recv returns. *)
Resume == [serial |-> "copy", at_process |-> "dispatch",
           at_send |-> "prepare", shell |-> "acked"]

VARIABLES
    ATCurrentCmdNum, ATNextCmdNum, ATRecCmdNum, CurrentRty,
    at_timeout_cnt,     (* counted down by timeout2                              *)
    timer2,             (* TRUE: timer2 is in the timer list and activated       *)
    rx1_event,          (* the set of the event object                           *)
    pc,                 (* per thread: the next stretch, or "wait" on rx1_event  *)
    e,                  (* the bits at_process received                          *)
    lock,               (* the thread inside rt_enter_critical, or "none"        *)
    arg,                (* per thread: the argument of its call of ATSend        *)
    kk,                 (* at_comtest's current command                          *)
    ring,               (* packets in the DMA ring up to q_front                 *)
    packet,             (* packets serial copied since it set process_p to 0     *)
    process_buff,       (* packets whose text process_buff holds                 *)
    air,                (* commands the module has received and not yet answered *)
    noise, loss,        (* how often the module chattered, how often it was mute *)
    busy,               (* timer2 periods since the CPU was last idle            *)
    tries,              (* history: transmissions since the last ATSend          *)
    answered,           (* history: the module answered kk since ATSend(kk)      *)
    dropped,            (* history: a TIMEOUT was received and not handled       *)
    fresh               (* history: serial copied a packet since the last ACK    *)

cmdVars == <<ATCurrentCmdNum, ATNextCmdNum, ATRecCmdNum>>
timerVars == <<at_timeout_cnt, timer2>>
bufVars == <<ring, packet, process_buff>>
devVars == <<air, noise, loss>>
histVars == <<tries, answered, dropped, fresh>>
vars == <<cmdVars, CurrentRty, timerVars, rx1_event, pc, e, lock, arg, kk,
          bufVars, devVars, busy, histVars>>

Init ==
    /\ ATCurrentCmdNum = AT_ROLE /\ ATNextCmdNum = AT_TNOCMD1
    /\ ATRecCmdNum = AT_ROLE /\ CurrentRty = 0
    /\ at_timeout_cnt = 0 /\ timer2 = FALSE
    /\ rx1_event = {} /\ e = {} /\ lock = "none"
    /\ pc = [t \in Threads |-> IF t = "shell" THEN "idle" ELSE "recv"]
    /\ arg = [t \in {"at_process", "shell"} |-> AT_ROLE]
    /\ kk = FirstCmd
    /\ ring = {} /\ packet = {} /\ process_buff = {}
    /\ air = {} /\ noise = 0 /\ loss = 0 /\ busy = 0
    /\ tries = 0 /\ answered = FALSE /\ dropped = FALSE /\ fresh = FALSE

(***************************************************************************)
(* The CPU: the highest-priority thread that is not blocked runs, unless a *)
(* thread has locked the scheduler.                                        *)
(***************************************************************************)
Blocked(t) == pc[t] \in {"wait", "idle", "done"}
CpuIdle == \A t \in Threads : Blocked(t)
Running(t) ==
    IF lock # "none" THEN t = lock
    ELSE /\ ~Blocked(t)
         /\ \A u \in Threads : Priority[u] < Priority[t] => Blocked(u)

At(t, label) == Running(t) /\ pc[t] = label
Goto(t, label) == pc' = [pc EXCEPT ![t] = label]

(***************************************************************************)
(* rt_event_send(&rx1_event, bit) by an interrupt (t = "isr") or by thread *)
(* t, which continues at label: every waiting thread the new set satisfies *)
(* takes its bits and becomes ready.  The interests are disjoint, so the   *)
(* order of the waiting list does not matter.                              *)
(***************************************************************************)
WokenBy(bit) == {t \in Threads : pc[t] = "wait" /\ bit \in Interest[t]}
EventSendFirstOnly(bit, t, label) ==  (* mutant: no walk when a bit was set *)
    /\ pc' = [u \in Threads |-> IF u = t THEN label
                                ELSE IF u \in WokenBy(bit) /\ rx1_event = {}
                                THEN Resume[u] ELSE pc[u]]
    /\ rx1_event' = IF WokenBy(bit) = {} \/ rx1_event # {}
                    THEN rx1_event \cup {bit} ELSE rx1_event
    /\ e' = IF "at_process" \in WokenBy(bit) /\ rx1_event = {} THEN {bit} ELSE e
EventSend(bit, t, label) ==
    /\ pc' = [u \in Threads |-> IF u = t THEN label
                                ELSE IF u \in WokenBy(bit) THEN Resume[u]
                                ELSE pc[u]]
    /\ rx1_event' = IF WokenBy(bit) = {} THEN rx1_event \cup {bit} ELSE rx1_event
    /\ e' = IF "at_process" \in WokenBy(bit) THEN {bit} ELSE e

(* rt_event_recv of thread t: it takes its bits, or blocks. *)
EventRecv(t) ==
    LET got == rx1_event \cap Interest[t]
    IN  /\ At(t, "recv")
        /\ rx1_event' = rx1_event \ got
        /\ Goto(t, IF got = {} THEN "wait" ELSE Resume[t])
        /\ e' = IF t = "at_process" /\ got # {} THEN got ELSE e
        /\ UNCHANGED <<cmdVars, CurrentRty, timerVars, lock, arg, kk, bufVars,
                       devVars, busy, histVars>>

-----------------------------------------------------------------------------
(* serial_entry *)

(* The copy loop: what the ring holds overwrites the front of process_buff; *)
(* older text behind it survives or not, as the lengths have it.            *)
SerialCopy ==
    /\ At("serial", "copy") /\ ring # {}
    /\ packet' = packet \cup ring
    /\ ring' = {}
    /\ fresh' = TRUE
    /\ \E old \in SUBSET (process_buff \ packet) : process_buff' = packet' \cup old
    /\ UNCHANGED <<cmdVars, CurrentRty, timerVars, rx1_event, pc, e, lock, arg,
                   kk, devVars, busy, tries, answered, dropped>>

SerialNotify ==
    /\ At("serial", "copy") /\ ring = {}
    /\ packet' = {}
    /\ EventSend("PROCESS", "serial", "recv")
    /\ UNCHANGED <<cmdVars, CurrentRty, timerVars, lock, arg, kk, ring,
                   process_buff, devVars, busy, histVars>>

-----------------------------------------------------------------------------
(* at_process_entry and Rec_WaitAT *)

(* strstr(process_buff, ATCmds[ATRecCmdNum].ATRecStr) # NULL *)
Matches == \E p \in process_buff : ATRecStr[ATRecCmdNum] \in KeywordsIn(p)

DispatchOffByOne ==  (* mutant: if (CurrentRty >= 0) *)
    /\ At("at_process", "dispatch")
    /\ \/ /\ "PROCESS" \in e
          /\ Goto("at_process", IF Matches THEN "matched" ELSE "recv")
          /\ dropped' = (dropped \/ ("TIMEOUT" \in e /\ ~Matches))
       \/ /\ "PROCESS" \notin e /\ CurrentRty >= 0
          /\ Goto("at_process", "retry")
          /\ UNCHANGED dropped
    /\ UNCHANGED <<cmdVars, CurrentRty, timerVars, rx1_event, e, lock, arg, kk,
                   bufVars, devVars, busy, tries, answered, fresh>>

(* The test of e, and strstr when a packet was received. *)
Dispatch ==
    /\ At("at_process", "dispatch")
    /\ \/ /\ "PROCESS" \in e
          /\ Goto("at_process", IF Matches THEN "matched" ELSE "recv")
          /\ dropped' = (dropped \/ ("TIMEOUT" \in e /\ ~Matches))
          /\ UNCHANGED arg
       \/ /\ "PROCESS" \notin e /\ CurrentRty > 0
          /\ Goto("at_process", "retry")
          /\ UNCHANGED <<arg, dropped>>
       \/ /\ "PROCESS" \notin e /\ CurrentRty = 0
          /\ Goto("at_process", "at_send")
          /\ arg' = [arg EXCEPT !["at_process"] = AT_REST]
          /\ UNCHANGED dropped
    /\ UNCHANGED <<cmdVars, CurrentRty, timerVars, rx1_event, e, lock, kk,
                   bufVars, devVars, busy, tries, answered, fresh>>

Acknowledge ==
    /\ At("at_process", "matched")
    /\ at_timeout_cnt' = 0
    /\ process_buff' = IF ATCurrentCmdNum \in ClearingCmds THEN {} ELSE process_buff
    /\ EventSend("ACK", "at_process", "recv")
    /\ fresh' = FALSE
    /\ UNCHANGED <<cmdVars, CurrentRty, timer2, lock, arg, kk, ring, packet,
                   devVars, busy, tries, answered, dropped>>

RetryNoReload ==  (* mutant: at_timeout_cnt is not set again *)
    /\ At("at_process", "retry")
    /\ CurrentRty' = CurrentRty - 1
    /\ ATNextCmdNum' = ATCurrentCmdNum
    /\ Goto("at_process", "retry_stop")
    /\ UNCHANGED <<ATCurrentCmdNum, ATRecCmdNum, timerVars, rx1_event, e, lock, arg,
                   kk, bufVars, devVars, busy, histVars>>
Retry ==
    /\ At("at_process", "retry")
    /\ CurrentRty' = CurrentRty - 1
    /\ ATNextCmdNum' = ATCurrentCmdNum
    /\ at_timeout_cnt' = TimeoutCnt
    /\ Goto("at_process", "retry_stop")
    /\ UNCHANGED <<ATCurrentCmdNum, ATRecCmdNum, timer2, rx1_event, e, lock, arg,
                   kk, bufVars, devVars, busy, histVars>>

RetrySend ==
    /\ At("at_process", "retry_send")
    /\ EventSend("SEND", "at_process", "recv")
    /\ UNCHANGED <<cmdVars, CurrentRty, timerVars, lock, arg, kk, bufVars,
                   devVars, busy, histVars>>

(* rt_timer_start(&timer2): the timer leaves the list, and is inserted anew *)
(* in a second critical section.                                            *)
TimerStopNot(t, at, to) ==  (* mutant: a running timer stays in its list *)
    /\ At(t, at)
    /\ Goto(t, to)
    /\ UNCHANGED <<cmdVars, CurrentRty, timerVars, rx1_event, e, lock, arg,
                   kk, bufVars, devVars, busy, histVars>>
TimerStop(t, at, to) ==
    /\ At(t, at)
    /\ timer2' = FALSE
    /\ Goto(t, to)
    /\ UNCHANGED <<cmdVars, CurrentRty, at_timeout_cnt, rx1_event, e, lock, arg,
                   kk, bufVars, devVars, busy, histVars>>

TimerInsert(t, at, to) ==
    /\ At(t, at)
    /\ timer2' = TRUE
    /\ Goto(t, to)
    /\ UNCHANGED <<cmdVars, CurrentRty, at_timeout_cnt, rx1_event, e, lock, arg,
                   kk, bufVars, devVars, busy, histVars>>

-----------------------------------------------------------------------------
(* ATSend(arg[t]), called by at_process and by at_comtest *)

ATSendCur(t) ==
    /\ At(t, "at_send")
    /\ ATCurrentCmdNum' = arg[t]
    /\ ATNextCmdNum' = AT_TNOCMD
    /\ tries' = 0
    /\ Goto(t, "at_rec")
    /\ UNCHANGED <<ATRecCmdNum, CurrentRty, timerVars, rx1_event, e, lock, arg,
                   kk, bufVars, devVars, busy, answered, dropped, fresh>>

ATSendRec(t) ==
    /\ At(t, "at_rec")
    /\ ATRecCmdNum' = arg[t]
    /\ Goto(t, "at_cnt")
    /\ UNCHANGED <<ATCurrentCmdNum, ATNextCmdNum, CurrentRty, timerVars, rx1_event,
                   e, lock, arg, kk, bufVars, devVars, busy, histVars>>

ATSendCntKept(t) ==  (* mutant: ATSend leaves at_timeout_cnt as it is *)
    /\ At(t, "at_cnt")
    /\ Goto(t, "at_stop")
    /\ UNCHANGED <<cmdVars, CurrentRty, timerVars, rx1_event, e, lock, arg, kk,
                   bufVars, devVars, busy, histVars>>
ATSendCnt(t) ==
    /\ At(t, "at_cnt")
    /\ at_timeout_cnt' = TimeoutCnt
    /\ Goto(t, "at_stop")
    /\ UNCHANGED <<cmdVars, CurrentRty, timer2, rx1_event, e, lock, arg, kk,
                   bufVars, devVars, busy, histVars>>

ATSendEvent(t) ==
    /\ At(t, "at_event")
    /\ lock' = t
    /\ EventSend("SEND", t, "at_exit")
    /\ UNCHANGED <<cmdVars, CurrentRty, timerVars, arg, kk, bufVars, devVars,
                   busy, histVars>>

ATSendExit(t) ==
    /\ At(t, "at_exit")
    /\ lock' = "none"
    /\ Goto(t, "recv")
    /\ UNCHANGED <<cmdVars, CurrentRty, timerVars, rx1_event, e, arg, kk, bufVars,
                   devVars, busy, histVars>>

ATSend(t) ==
    \/ ATSendCur(t) \/ ATSendRec(t) \/ ATSendCnt(t)
    \/ TimerStop(t, "at_stop", "at_insert")
    \/ TimerInsert(t, "at_insert", "at_event")
    \/ ATSendEvent(t) \/ ATSendExit(t)

-----------------------------------------------------------------------------
(* at_send_thread_entry *)

PrepareAlwaysReset ==  (* mutant: the counter is reset on every transmission *)
    /\ At("at_send", "prepare")
    /\ CurrentRty' = RtyNum
    /\ Goto("at_send", "transmit")
    /\ UNCHANGED <<cmdVars, timerVars, rx1_event, e, lock, arg, kk, bufVars,
                   devVars, busy, histVars>>
PrepareNeverReset ==   (* mutant: the counter is never reset *)
    /\ At("at_send", "prepare")
    /\ Goto("at_send", "transmit")
    /\ UNCHANGED <<cmdVars, CurrentRty, timerVars, rx1_event, e, lock, arg, kk,
                   bufVars, devVars, busy, histVars>>
Prepare ==
    /\ At("at_send", "prepare")
    /\ CurrentRty' = IF ATCurrentCmdNum # ATNextCmdNum THEN RtyNum ELSE CurrentRty
    /\ Goto("at_send", "transmit")
    /\ UNCHANGED <<cmdVars, timerVars, rx1_event, e, lock, arg, kk, bufVars,
                   devVars, busy, histVars>>

Transmit ==
    /\ At("at_send", "transmit")
    /\ lock' = "at_send"
    /\ air' = air \cup {ATCurrentCmdNum}
    /\ tries' = tries + 1
    /\ Goto("at_send", "exit")
    /\ UNCHANGED <<cmdVars, CurrentRty, timerVars, rx1_event, e, arg, kk, bufVars,
                   noise, loss, busy, answered, dropped, fresh>>

TransmitExit ==
    /\ At("at_send", "exit")
    /\ lock' = "none"
    /\ Goto("at_send", "recv")
    /\ UNCHANGED <<cmdVars, CurrentRty, timerVars, rx1_event, e, arg, kk, bufVars,
                   devVars, busy, histVars>>

-----------------------------------------------------------------------------
(* at_comtest, typed into the shell *)

ComtestStart ==
    /\ pc["shell"] = "idle"
    /\ Goto("shell", "at_send")
    /\ arg' = [arg EXCEPT !["shell"] = kk]
    /\ busy' = IF CpuIdle THEN 0 ELSE busy
    /\ UNCHANGED <<cmdVars, CurrentRty, timerVars, rx1_event, e, lock, kk, bufVars,
                   devVars, histVars>>

ComtestAcked ==
    /\ At("shell", "acked")
    /\ answered' = FALSE
    /\ \/ /\ kk < LastCmd
          /\ kk' = kk + 1
          /\ arg' = [arg EXCEPT !["shell"] = kk + 1]
          /\ Goto("shell", "at_send")
       \/ /\ kk = LastCmd
          /\ Goto("shell", "done")
          /\ UNCHANGED <<kk, arg>>
    /\ UNCHANGED <<cmdVars, CurrentRty, timerVars, rx1_event, e, lock, bufVars,
                   devVars, busy, tries, dropped, fresh>>

-----------------------------------------------------------------------------
(* Interrupts and the Bluetooth module *)

(* timeout2, called from SysTick when timer2 expires; with at_timeout_cnt 0 *)
(* it does nothing and the timer keeps running.                             *)
Timeout2 ==
    /\ timer2 /\ at_timeout_cnt > 0
    /\ IF CpuIdle THEN Prompt => air = {} ELSE busy < BusyTicks
    /\ busy' = IF CpuIdle THEN 0 ELSE busy + 1
    /\ at_timeout_cnt' = at_timeout_cnt - 1
    /\ IF at_timeout_cnt = 1
       THEN timer2' = FALSE /\ EventSend("TIMEOUT", "isr", "")
       ELSE UNCHANGED <<timer2, rx1_event, pc, e>>
    /\ UNCHANGED <<cmdVars, CurrentRty, lock, arg, kk, bufVars, devVars, histVars>>

(* USART1_IRQHandler at the idle line behind packet p. *)
IdleInterrupt(p) ==
    /\ ring' = ring \cup {p}
    /\ EventSend("REC", "isr", "")
    /\ busy' = IF CpuIdle THEN 0 ELSE busy
    /\ UNCHANGED <<cmdVars, CurrentRty, timerVars, lock, arg, kk, packet,
                   process_buff, tries, dropped, fresh>>

Reply(c) ==
    /\ c \in air
    /\ air' = air \ {c}
    /\ answered' = (answered \/ c = kk)
    /\ IdleInterrupt(c)
    /\ UNCHANGED <<noise, loss>>

Chatter ==
    /\ noise < MaxNoise
    /\ noise' = noise + 1
    /\ IdleInterrupt(Noise)
    /\ UNCHANGED <<air, loss, answered>>

Mute(c) ==
    /\ c \in air /\ loss < MaxLoss
    /\ air' = air \ {c}
    /\ loss' = loss + 1
    /\ UNCHANGED <<cmdVars, CurrentRty, timerVars, rx1_event, pc, e, lock, arg, kk,
                   bufVars, noise, busy, histVars>>

-----------------------------------------------------------------------------
Serial == EventRecv("serial") \/ SerialCopy \/ SerialNotify
AtProcess ==
    \/ EventRecv("at_process") \/ Dispatch \/ Acknowledge
    \/ Retry \/ TimerStop("at_process", "retry_stop", "retry_insert")
    \/ TimerInsert("at_process", "retry_insert", "retry_send") \/ RetrySend
    \/ ATSend("at_process")
AtSendThread == EventRecv("at_send") \/ Prepare \/ Transmit \/ TransmitExit
Comtest == EventRecv("shell") \/ ATSend("shell") \/ ComtestAcked

Cpu == Serial \/ AtProcess \/ AtSendThread \/ Comtest
Module == Chatter \/ \E c \in teATCmdNum : Reply(c) \/ Mute(c)
Next == Cpu \/ ComtestStart \/ Timeout2 \/ Module

Spec == Init /\ [][Next]_vars

(* The CPU executes, SysTick ticks and the module answers what is not lost. *)
Fairness ==
    /\ WF_vars(Cpu) /\ WF_vars(ComtestStart) /\ WF_vars(Timeout2)
    /\ WF_vars(\E c \in teATCmdNum : Reply(c))
FairSpec == Spec /\ Fairness
-----------------------------------------------------------------------------
(* Properties *)

(* Every variable stays in its range and every thread in its own code. *)
ATSendLabels == {"at_send", "at_rec", "at_cnt", "at_stop", "at_insert",
                 "at_event", "at_exit"}
Labels ==
    [serial     |-> {"recv", "wait", "copy"},
     at_process |-> {"recv", "wait", "dispatch", "matched", "retry", "retry_stop",
                     "retry_insert", "retry_send"} \cup ATSendLabels,
     at_send    |-> {"recv", "wait", "prepare", "transmit", "exit"},
     shell      |-> {"idle", "recv", "wait", "acked", "done"} \cup ATSendLabels]
TypeOK ==
    /\ ATCurrentCmdNum \in teATCmdNum /\ ATNextCmdNum \in teATCmdNum
    /\ ATRecCmdNum \in teATCmdNum /\ CurrentRty \in 0..RtyNum
    /\ at_timeout_cnt \in 0..TimeoutCnt /\ timer2 \in BOOLEAN
    /\ rx1_event \in SUBSET Bits /\ e \in SUBSET Interest["at_process"]
    /\ DOMAIN pc = Threads /\ \A t \in Threads : pc[t] \in Labels[t]
    /\ lock \in Threads \cup {"none"}
    /\ arg \in [{"at_process", "shell"} -> teATCmdNum]
    /\ kk \in FirstCmd..LastCmd
    /\ ring \in SUBSET Packets /\ packet \in SUBSET Packets
    /\ process_buff \in SUBSET Packets
    /\ air \in SUBSET teATCmdNum /\ noise \in 0..MaxNoise /\ loss \in 0..MaxLoss
    /\ busy \in 0..BusyTicks /\ tries \in Nat
    /\ answered \in BOOLEAN /\ dropped \in BOOLEAN /\ fresh \in BOOLEAN

(* No thread sleeps on rx1_event while a bit it waits for is set: a send     *)
(* between a thread's look at the set and its suspension is never lost.      *)
NoLostWakeup ==
    \A t \in Threads : pc[t] = "wait" => rx1_event \cap Interest[t] = {}

(* rt_timer_start opens the interrupt lock between taking the timer off the   *)
(* list and inserting it, and at_process, which starts the same timer, can     *)
(* preempt at_comtest in between.  It then never starts the timer itself, so   *)
(* timer2 is not inserted twice.                                               *)
Inserting == {t \in Threads : pc[t] \in {"retry_insert", "at_insert"}}
TimerStartExclusive ==
    /\ \A t, u \in Inserting : t = u
    /\ Inserting # {} => ~timer2

(* A command is transmitted at most once plus RtyNum times before at_process *)
(* gives up on it ...                                                        *)
RetryBound == tries <= RtyNum + 1

(* ... and the module is reset only after all of these transmissions.        *)
ResetOnlyAfterRetries == pc["at_process"] = "at_send" => tries = RtyNum + 1

(* While at_comtest waits for an answer and nothing else is going on, the    *)
(* timeout is running: the wait ends, by an answer or by a retransmission.   *)
Supervised ==
    CpuIdle /\ pc["shell"] = "wait" => timer2 /\ at_timeout_cnt > 0

(* The one way to lose the timeout is at_process_entry's "else if": a TIMEOUT *)
(* received together with a packet that does not match is forgotten.          *)
SupervisedUnlessDropped == dropped \/ Supervised

(* One text is not acknowledged twice: since the last acknowledgement serial  *)
(* has copied a new packet.  (CONB, which leaves process_buff uncleared, is   *)
(* outside the commands this is claimed for.)                                 *)
AckOfNewText == pc["at_process"] = "matched" => fresh

(* The answer at_comtest takes for the answer to its command is the module's  *)
(* answer to that command.                                                    *)
AckIsForCommand == pc["shell"] = "acked" => answered

(* at_comtest gets through its commands.                                      *)
Completes == <>(pc["shell"] = "done")
=============================================================================
