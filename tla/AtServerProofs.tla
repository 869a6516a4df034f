--------------------------- MODULE AtServerProofs ---------------------------
(* Theorems about AtServer, for every command list, retry count, timeout     *)
(* and amount of noise and loss.                                             *)
EXTENDS AtServer, TLAPS

(* A thread holds the scheduler lock exactly between rt_enter_critical and   *)
(* rt_exit_critical, and nobody resends with no retry left.                  *)
LockInv == \A t \in Threads : lock = t <=> pc[t] \in {"exit", "at_exit"}
RetryInv == pc["at_process"] = "retry" => CurrentRty > 0
IType == TypeOK /\ LockInv /\ RetryInv

USE DEF Threads

(* When at_comtest runs outside the scheduler lock, every other thread is    *)
(* asleep on rx1_event; when at_send does, serial and at_process are.        *)
LEMMA ShellRuns ==
    ASSUME TypeOK, LockInv, NEW l, At("shell", l), l # "at_exit"
    PROVE  /\ lock = "none"
           /\ \A t \in Threads \ {"shell"} : pc[t] = "wait"
<1>1. lock = "none"
  BY DEF At, Running, LockInv, TypeOK, Labels, ATSendLabels
<1>2. \A t \in Threads \ {"shell"} : Blocked(t)
  BY <1>1 DEF At, Running, Priority
<1>. QED  BY <1>1, <1>2 DEF Blocked, TypeOK, Labels, ATSendLabels

LEMMA SendRuns ==
    ASSUME TypeOK, LockInv, NEW l, At("at_send", l), l # "exit"
    PROVE  lock = "none" /\ pc["at_process"] = "wait"
<1>1. lock = "none"
  BY DEF At, Running, LockInv, TypeOK, Labels, ATSendLabels
<1>2. Blocked("at_process")
  BY <1>1 DEF At, Running, Priority
<1>. QED  BY <1>1, <1>2 DEF Blocked, TypeOK, Labels, ATSendLabels

(* What rt_event_send does to the program counters, the set and e.           *)
LEMMA SendType ==
    ASSUME TypeOK, NEW bit \in Bits, NEW t, NEW label,
           EventSend(bit, t, label),
           t \in Threads => label \in Labels[t]
    PROVE  /\ rx1_event' \in SUBSET Bits
           /\ e' \in SUBSET Interest["at_process"]
           /\ \A u \in Threads : pc'[u] \in Labels[u]
           /\ DOMAIN pc' = Threads
<1>1. \A u \in Threads : Resume[u] \in Labels[u]
  BY DEF Resume, Labels, ATSendLabels
<1>. QED  BY <1>1 DEF TypeOK, EventSend, WokenBy

LEMMA CmdNums == /\ AT_ROLE \in teATCmdNum /\ AT_REST \in teATCmdNum
                 /\ AT_TNOCMD \in teATCmdNum /\ AT_TNOCMD1 \in teATCmdNum
                 /\ FirstCmd..LastCmd \subseteq teATCmdNum
BY CmdAssumption DEF teATCmdNum, AT_ROLE, AT_REST, AT_TNOCMD, AT_TNOCMD1

LEMMA TypeInit == Init => IType
<1> SUFFICES ASSUME Init PROVE IType
  OBVIOUS
<1>1. \A t \in Threads : pc[t] \in Labels[t] /\ pc[t] \notin {"exit", "at_exit", "retry"}
  BY DEF Init, Labels
<1>2. kk \in FirstCmd..LastCmd
  BY CmdAssumption DEF Init
<1>3. /\ CurrentRty \in 0..RtyNum /\ at_timeout_cnt \in 0..TimeoutCnt
      /\ noise \in 0..MaxNoise /\ loss \in 0..MaxLoss /\ busy \in 0..BusyTicks
  BY RtyAssumption, TimeAssumption, DeviceAssumption DEF Init
<1>. QED  BY <1>1, <1>2, <1>3, CmdNums DEF Init, IType, TypeOK, LockInv, RetryInv

LEMMA TypeSerial == IType /\ Serial => IType'
<1> SUFFICES ASSUME IType, Serial PROVE IType'
  OBVIOUS
<1> USE DEF IType, TypeOK, LockInv, RetryInv, Labels, ATSendLabels, At, Goto,
            cmdVars, timerVars, bufVars, devVars, histVars
<1>1. CASE EventRecv("serial")
  BY <1>1 DEF EventRecv, Resume, Interest
<1>2. CASE SerialCopy
  BY <1>2 DEF SerialCopy
<1>3. CASE SerialNotify
  <2>1. EventSend("PROCESS", "serial", "recv")
    BY <1>3 DEF SerialNotify
  <2>2. "PROCESS" \in Bits /\ "recv" \in Labels["serial"]
    BY DEF Bits
  <2>3. \A t \in Threads : pc'[t] \in {"exit", "at_exit"} <=> pc[t] \in {"exit", "at_exit"}
    BY <1>3, <2>1 DEF SerialNotify, EventSend, WokenBy, Resume
  <2>4. pc'["at_process"] = "retry" <=> pc["at_process"] = "retry"
    BY <2>1 DEF EventSend, WokenBy, Resume
  <2>. QED  BY <1>3, <2>1, <2>2, <2>3, <2>4, SendType DEF SerialNotify
<1>. QED  BY <1>1, <1>2, <1>3 DEF Serial

LEMMA TypeATSend ==
    ASSUME IType, NEW t \in {"at_process", "shell"}, ATSend(t)
    PROVE  IType'
<1> USE DEF IType, TypeOK, LockInv, RetryInv, Labels, ATSendLabels, At, Goto,
            cmdVars, timerVars, bufVars, devVars, histVars
<1>1. CASE ATSendCur(t)
  BY <1>1, CmdNums DEF ATSendCur
<1>2. CASE ATSendRec(t)
  BY <1>2 DEF ATSendRec
<1>3. CASE ATSendCnt(t)
  BY <1>3, TimeAssumption DEF ATSendCnt
<1>4. CASE TimerStop(t, "at_stop", "at_insert")
  <2>1. timer2' \in BOOLEAN
    BY <1>4, Zenon DEF TimerStop
  <2>. QED  BY <1>4, <2>1 DEF TimerStop
<1>5. CASE TimerInsert(t, "at_insert", "at_event")
  BY <1>5 DEF TimerInsert
<1>6. CASE ATSendEvent(t)
  <2>1. EventSend("SEND", t, "at_exit") /\ lock' = t /\ Running(t) /\ pc[t] = "at_event"
    BY <1>6 DEF ATSendEvent
  <2>2. "SEND" \in Bits /\ "at_exit" \in Labels[t]
    BY DEF Bits
  <2>3. \A u \in Threads : pc[u] \notin {"exit", "at_exit"}
    BY <2>1 DEF Running
  <2>4. \A u \in Threads : pc'[u] \in {"exit", "at_exit"} <=> u = t
    BY <2>1, <2>3 DEF EventSend, WokenBy, Resume
  <2>5. pc'["at_process"] = "retry" => pc["at_process"] = "retry"
    BY <2>1 DEF EventSend, WokenBy, Resume
  <2>. QED  BY <1>6, <2>1, <2>2, <2>4, <2>5, SendType DEF ATSendEvent
<1>7. CASE ATSendExit(t)
  BY <1>7 DEF ATSendExit, Running
<1>. QED  BY <1>1, <1>2, <1>3, <1>4, <1>5, <1>6, <1>7 DEF ATSend

LEMMA TypeAtProcess == IType /\ AtProcess => IType'
<1> SUFFICES ASSUME IType, AtProcess PROVE IType'
  OBVIOUS
<1> USE DEF IType, TypeOK, LockInv, RetryInv, Labels, ATSendLabels, At, Goto,
            cmdVars, timerVars, bufVars, devVars, histVars
<1>1. CASE EventRecv("at_process")
  BY <1>1 DEF EventRecv, Resume, Interest
<1>2. CASE Dispatch
  <2>1. dropped' \in BOOLEAN
    BY <1>2, Zenon DEF Dispatch
  <2>. QED  BY <1>2, <2>1, CmdNums DEF Dispatch
<1>3. CASE Acknowledge
  <2>1. EventSend("ACK", "at_process", "recv")
    BY <1>3 DEF Acknowledge
  <2>2. "ACK" \in Bits /\ "recv" \in Labels["at_process"]
    BY DEF Bits
  <2>3. \A t \in Threads : pc'[t] \in {"exit", "at_exit"} <=> pc[t] \in {"exit", "at_exit"}
    BY <1>3, <2>1 DEF Acknowledge, EventSend, WokenBy, Resume
  <2>4. pc'["at_process"] # "retry"
    BY <2>1 DEF EventSend
  <2>5. at_timeout_cnt' \in 0..TimeoutCnt /\ process_buff' \in SUBSET Packets
    BY <1>3, TimeAssumption DEF Acknowledge
  <2>. QED  BY <1>3, <2>1, <2>2, <2>3, <2>4, <2>5, SendType DEF Acknowledge
<1>4. CASE Retry
  BY <1>4, TimeAssumption, RtyAssumption DEF Retry
<1>5. CASE TimerStop("at_process", "retry_stop", "retry_insert")
  <2>1. timer2' \in BOOLEAN
    BY <1>5, Zenon DEF TimerStop
  <2>. QED  BY <1>5, <2>1 DEF TimerStop
<1>6. CASE TimerInsert("at_process", "retry_insert", "retry_send")
  BY <1>6 DEF TimerInsert
<1>7. CASE RetrySend
  <2>1. EventSend("SEND", "at_process", "recv")
    BY <1>7 DEF RetrySend
  <2>2. "SEND" \in Bits /\ "recv" \in Labels["at_process"]
    BY DEF Bits
  <2>3. \A t \in Threads : pc'[t] \in {"exit", "at_exit"} <=> pc[t] \in {"exit", "at_exit"}
    BY <1>7, <2>1 DEF RetrySend, EventSend, WokenBy, Resume
  <2>4. pc'["at_process"] # "retry"
    BY <2>1 DEF EventSend
  <2>. QED  BY <1>7, <2>1, <2>2, <2>3, <2>4, SendType DEF RetrySend
<1>8. CASE ATSend("at_process")
  BY <1>8, TypeATSend
<1>. QED  BY <1>1, <1>2, <1>3, <1>4, <1>5, <1>6, <1>7, <1>8 DEF AtProcess

LEMMA TypeAtSendThread == IType /\ AtSendThread => IType'
<1> SUFFICES ASSUME IType, AtSendThread PROVE IType'
  OBVIOUS
<1> USE DEF IType, TypeOK, LockInv, RetryInv, Labels, ATSendLabels, Goto,
            cmdVars, timerVars, bufVars, devVars, histVars
<1>1. CASE EventRecv("at_send")
  BY <1>1 DEF EventRecv, Resume, Interest, At
<1>2. CASE Prepare
  <2>1. pc["at_process"] = "wait"
    BY <1>2, SendRuns DEF Prepare
  <2>. QED  BY <1>2, <2>1, RtyAssumption DEF Prepare, At
<1>3. CASE Transmit
  BY <1>3 DEF Transmit, At, Running
<1>4. CASE TransmitExit
  BY <1>4 DEF TransmitExit, At, Running
<1>. QED  BY <1>1, <1>2, <1>3, <1>4 DEF AtSendThread

LEMMA TypeComtest == IType /\ (Comtest \/ ComtestStart) => IType'
<1> SUFFICES ASSUME IType, Comtest \/ ComtestStart PROVE IType'
  OBVIOUS
<1> USE DEF IType, TypeOK, LockInv, RetryInv, Labels, ATSendLabels, At, Goto,
            cmdVars, timerVars, bufVars, devVars, histVars
<1>1. CASE EventRecv("shell")
  BY <1>1 DEF EventRecv, Resume, Interest
<1>2. CASE ATSend("shell")
  BY <1>2, TypeATSend
<1>3. CASE ComtestAcked
  <2>1. answered' \in BOOLEAN
    BY <1>3, Zenon DEF ComtestAcked
  <2>2. kk' \in FirstCmd..LastCmd
    BY <1>3, CmdAssumption DEF ComtestAcked
  <2>. QED  BY <1>3, <2>1, <2>2, CmdNums DEF ComtestAcked
<1>4. CASE ComtestStart
  BY <1>4, CmdNums, TimeAssumption DEF ComtestStart
<1>. QED  BY <1>1, <1>2, <1>3, <1>4 DEF Comtest

(* An interrupt's rt_event_send moves no thread to or from a place that       *)
(* holds the lock or is about to resend.                                      *)
LEMMA SendByIsr ==
    ASSUME IType, NEW bit \in Bits, EventSend(bit, "isr", ""), lock' = lock,
           CurrentRty' = CurrentRty
    PROVE  /\ LockInv' /\ RetryInv'
           /\ rx1_event' \in SUBSET Bits
           /\ e' \in SUBSET Interest["at_process"]
           /\ DOMAIN pc' = Threads /\ \A u \in Threads : pc'[u] \in Labels[u]
<1>1. \A t \in Threads : pc'[t] = pc[t] \/ (pc[t] = "wait" /\ pc'[t] = Resume[t])
  BY DEF EventSend, WokenBy
<1>2. LockInv' /\ RetryInv'
  BY <1>1 DEF IType, LockInv, RetryInv, Resume
<1>. QED  BY <1>2, SendType DEF IType

LEMMA TypeIsr == IType /\ (Timeout2 \/ Module) => IType'
<1> SUFFICES ASSUME IType, Timeout2 \/ Module PROVE IType'
  OBVIOUS
<1> USE DEF cmdVars, timerVars, bufVars, devVars, histVars
<1>1. CASE Timeout2
  <2>1. at_timeout_cnt' \in 0..TimeoutCnt
    <3>1. at_timeout_cnt > 0 /\ at_timeout_cnt' = at_timeout_cnt - 1
      BY <1>1, Zenon DEF Timeout2
    <3>. QED  BY <3>1, TimeAssumption DEF IType, TypeOK
  <2>0. busy' \in 0..BusyTicks
    <3>1. busy' = 0 \/ (busy < BusyTicks /\ busy' = busy + 1)
      BY <1>1, Zenon DEF Timeout2
    <3>. QED  BY <3>1, TimeAssumption DEF IType, TypeOK
  <2>2. CASE at_timeout_cnt = 1
    <3>1. timer2' \in BOOLEAN
      BY <1>1, <2>2, Zenon DEF Timeout2
    <3>. QED  BY <1>1, <2>0, <2>1, <2>2, <3>1, SendByIsr DEF Timeout2, IType, TypeOK, Bits
  <2>3. CASE at_timeout_cnt # 1
    BY <1>1, <2>0, <2>1, <2>3 DEF Timeout2, IType, TypeOK, LockInv, RetryInv
  <2>. QED  BY <2>2, <2>3
<1>2. ASSUME NEW p \in Packets, IdleInterrupt(p),
             air' \in SUBSET teATCmdNum, noise' \in 0..MaxNoise,
             loss' \in 0..MaxLoss, answered' \in BOOLEAN
      PROVE  IType'
  <2>1. busy' \in 0..BusyTicks
    <3>1. busy' = 0 \/ busy' = busy
      BY <1>2, Zenon DEF IdleInterrupt
    <3>. QED  BY <3>1, TimeAssumption DEF IType, TypeOK
  <2>. QED  BY <1>2, <2>1, SendByIsr DEF IdleInterrupt, IType, TypeOK, Bits
<1>3. CASE Chatter
  <2>1. noise' \in 0..MaxNoise
    BY <1>3, DeviceAssumption DEF Chatter, IType, TypeOK
  <2>. QED  BY <1>2, <1>3, <2>1 DEF Chatter, Packets, IType, TypeOK
<1>4. ASSUME NEW c \in teATCmdNum, Reply(c) PROVE IType'
  BY <1>2, <1>4 DEF Reply, Packets, IType, TypeOK
<1>5. ASSUME NEW c \in teATCmdNum, Mute(c) PROVE IType'
  <2>1. loss' \in 0..MaxLoss
    BY <1>5, DeviceAssumption DEF Mute, IType, TypeOK
  <2>. QED  BY <1>5, <2>1 DEF Mute, IType, TypeOK, LockInv, RetryInv
<1>. QED  BY <1>1, <1>3, <1>4, <1>5 DEF Module

LEMMA TypeStutter == IType /\ UNCHANGED vars => IType'
BY DEF IType, TypeOK, LockInv, RetryInv, vars, cmdVars, timerVars, bufVars,
       devVars, histVars

LEMMA ITypeCorrect == Spec => []IType
<1>1. IType /\ [Next]_vars => IType'
  BY TypeSerial, TypeAtProcess, TypeAtSendThread, TypeComtest, TypeIsr, TypeStutter
     DEF Next, Cpu
<1>. QED  BY TypeInit, <1>1, PTL DEF Spec

(* Type correctness: the server's variables stay in their ranges, every       *)
(* thread in its own code, and CurrentRty never wraps below 0.                *)
THEOREM TypeCorrect == Spec => []TypeOK
<1>1. IType => TypeOK
  BY DEF IType
<1>. QED  BY <1>1, ITypeCorrect, PTL

-----------------------------------------------------------------------------
(* Every step receives on rx1_event, sends to it, or leaves it alone.         *)
Receives == \E t \in Threads : EventRecv(t)
Sends == \E bit \in Bits, t \in Threads \cup {"isr"}, label \in {"", "recv", "at_exit"} :
            EventSend(bit, t, label)
Leaves == /\ rx1_event' = rx1_event /\ e' = e
          /\ \A t \in Threads : \/ pc'[t] = pc[t]
                               \/ pc'[t] \notin {"wait", "dispatch"}

LEMMA StepKinds == TypeOK /\ [Next]_vars => Receives \/ Sends \/ Leaves
<1> SUFFICES ASSUME TypeOK, [Next]_vars PROVE Receives \/ Sends \/ Leaves
  OBVIOUS
<1>1. CASE Serial
  <2>1. CASE SerialNotify
    BY <2>1 DEF SerialNotify, Sends, Bits
  <2>. QED  BY <1>1, <2>1 DEF Serial, SerialCopy, Receives, Leaves
<1>2. ASSUME NEW t \in {"at_process", "shell"}, ATSend(t)
      PROVE  Receives \/ Sends \/ Leaves
  <2>1. CASE ATSendEvent(t)
    BY <2>1, <1>2 DEF ATSendEvent, Sends, Bits
  <2>. QED
    BY <1>2, <2>1 DEF ATSend, ATSendCur, ATSendRec, ATSendCnt, TimerStop, TimerInsert,
                      ATSendExit, Goto, Leaves, TypeOK
<1>3. CASE AtProcess
  <2>1. CASE Acknowledge \/ RetrySend
    BY <2>1 DEF Acknowledge, RetrySend, Sends, Bits
  <2>2. CASE Dispatch
    BY <2>2 DEF Dispatch, Goto, Leaves, TypeOK
  <2>. QED
    BY <1>2, <1>3, <2>1, <2>2 DEF AtProcess, Retry, TimerStop, TimerInsert, Goto,
                      Receives, Leaves, TypeOK
<1>4. CASE AtSendThread
  BY <1>4 DEF AtSendThread, Prepare, Transmit, TransmitExit, Goto, Receives, Leaves,
              TypeOK
<1>5. CASE Comtest \/ ComtestStart
  BY <1>2, <1>5 DEF Comtest, ComtestAcked, ComtestStart, Goto, Receives, Leaves, TypeOK
<1>6. CASE Timeout2
  <2>1. EventSend("TIMEOUT", "isr", "") \/ UNCHANGED <<rx1_event, pc, e>>
    BY <1>6, Zenon DEF Timeout2
  <2>. QED  BY <2>1 DEF Sends, Leaves, Bits
<1>7. CASE Module
  <2>1. EventSend("REC", "isr", "") \/ UNCHANGED <<rx1_event, pc, e>>
    BY <1>7, Zenon DEF Module, Chatter, Reply, Mute, IdleInterrupt
  <2>. QED  BY <2>1 DEF Sends, Leaves, Bits
<1>8. CASE UNCHANGED vars
  BY <1>8 DEF vars, Leaves
<1>. QED  BY <1>1, <1>3, <1>4, <1>5, <1>6, <1>7, <1>8 DEF Next, Cpu

(* A thread that dispatches has something to dispatch.                        *)
WakeInv == NoLostWakeup /\ (pc["at_process"] = "dispatch" => e # {})

LEMMA WakeStep == TypeOK /\ WakeInv /\ [Next]_vars => WakeInv'
<1> SUFFICES ASSUME TypeOK, WakeInv, [Next]_vars PROVE WakeInv'
  OBVIOUS
<1>1. CASE Receives
  <2>1. PICK t \in Threads : EventRecv(t)
    BY <1>1 DEF Receives
  <2>. QED  BY <2>1 DEF EventRecv, Goto, WakeInv, NoLostWakeup, TypeOK, Resume
<1>2. CASE Sends
  BY <1>2 DEF Sends, EventSend, WokenBy, WakeInv, NoLostWakeup, Resume
<1>3. CASE Leaves
  BY <1>3 DEF Leaves, WakeInv, NoLostWakeup
<1>. QED  BY <1>1, <1>2, <1>3, StepKinds

LEMMA WakeCorrect == Spec => []WakeInv
<1>1. Init => WakeInv
  BY DEF Init, WakeInv, NoLostWakeup
<1>. QED  BY <1>1, WakeStep, TypeCorrect, PTL DEF Spec

(* No thread sleeps on rx1_event while a bit it waits for is set.             *)
THEOREM NoWakeupIsLost == Spec => []NoLostWakeup
<1>1. WakeInv => NoLostWakeup
  BY DEF WakeInv
<1>. QED  BY <1>1, WakeCorrect, PTL

-----------------------------------------------------------------------------
(* timer2 is started by one thread at a time.  While at_comtest is between    *)
(* the two halves of rt_timer_start the timer is off, so no TIMEOUT can       *)
(* arise; none is left from before either, since at_process was asleep when   *)
(* at_comtest took the timer off.  So at_process, should it preempt, does not *)
(* come to a start of the timer.                                              *)
TimeoutPath == {"retry", "retry_stop", "retry_insert", "at_send", "at_rec", "at_cnt",
                "at_stop", "at_insert"}
TimeoutPending ==
    \/ "TIMEOUT" \in rx1_event
    \/ pc["at_process"] = "dispatch" /\ "TIMEOUT" \in e
    \/ pc["at_process"] \in TimeoutPath
ExclInv ==
    /\ pc["shell"] = "at_insert" => ~timer2 /\ ~TimeoutPending
    /\ pc["at_process"] \in {"retry_insert", "at_insert"} => ~timer2

LEMMA ExclStep == IType /\ WakeInv /\ ExclInv /\ [Next]_vars => ExclInv'
<1> SUFFICES ASSUME IType, WakeInv, ExclInv, [Next]_vars PROVE ExclInv'
  OBVIOUS
<1> USE DEF TimeoutPending, TimeoutPath, timerVars
<1>1. CASE Serial
  BY <1>1 DEF Serial, EventRecv, SerialCopy, SerialNotify, EventSend, WokenBy, Resume,
              Interest, Goto, ExclInv, IType, TypeOK
<1>2. CASE AtProcess
  <2>1. CASE EventRecv("at_process")
    BY <2>1 DEF EventRecv, Resume, Interest, Goto, ExclInv, IType, TypeOK
  <2>2. CASE Dispatch
    BY <2>2 DEF Dispatch, At, Goto, ExclInv, WakeInv, IType, TypeOK, Interest
  <2>3. CASE Acknowledge \/ Retry \/ RetrySend
    BY <2>3 DEF Acknowledge, Retry, RetrySend, EventSend, WokenBy, Resume, At, Goto,
                ExclInv, IType, TypeOK
  <2>4. CASE TimerStop("at_process", "retry_stop", "retry_insert")
    BY <2>4 DEF TimerStop, At, Goto, ExclInv, IType, TypeOK
  <2>5. CASE TimerInsert("at_process", "retry_insert", "retry_send")
    BY <2>5 DEF TimerInsert, At, Goto, ExclInv, IType, TypeOK
  <2>6. CASE ATSend("at_process")
    BY <2>6 DEF ATSend, ATSendCur, ATSendRec, ATSendCnt, TimerStop, TimerInsert,
                ATSendEvent, ATSendExit, EventSend, WokenBy, Resume, At, Goto,
                ExclInv, IType, TypeOK
  <2>. QED  BY <1>2, <2>1, <2>2, <2>3, <2>4, <2>5, <2>6 DEF AtProcess
<1>3. CASE AtSendThread
  BY <1>3 DEF AtSendThread, EventRecv, Prepare, Transmit, TransmitExit, Resume,
              Interest, Goto, ExclInv, IType, TypeOK
<1>4. CASE Comtest
  <2>1. ASSUME NEW l, At("shell", l), l # "at_exit"
        PROVE  pc["at_process"] = "wait" /\ "TIMEOUT" \notin rx1_event
    BY <2>1, ShellRuns DEF IType, WakeInv, NoLostWakeup, Interest
  <2>2. CASE EventRecv("shell") \/ ComtestAcked
    BY <2>2 DEF EventRecv, ComtestAcked, Resume, Interest, Goto, ExclInv, IType, TypeOK
  <2>3. CASE TimerStop("shell", "at_stop", "at_insert")
    BY <2>3, <2>1 DEF TimerStop, Goto, IType, TypeOK, ExclInv
  <2>4. CASE TimerInsert("shell", "at_insert", "at_event")
    BY <2>4, <2>1 DEF TimerInsert, Goto, IType, TypeOK, ExclInv
  <2>5. CASE \/ ATSendCur("shell") \/ ATSendRec("shell") \/ ATSendCnt("shell")
             \/ ATSendEvent("shell") \/ ATSendExit("shell")
    BY <2>5 DEF ATSendCur, ATSendRec, ATSendCnt, ATSendEvent, ATSendExit, EventSend,
                WokenBy, Resume, Interest, Goto, ExclInv, IType, TypeOK
  <2>. QED  BY <1>4, <2>2, <2>3, <2>4, <2>5 DEF Comtest, ATSend
<1>5. CASE ComtestStart
  BY <1>5 DEF ComtestStart, Goto, ExclInv, IType, TypeOK
<1>6. CASE Timeout2
  <2>1. /\ timer2
        /\ \/ timer2' = FALSE /\ EventSend("TIMEOUT", "isr", "")
           \/ UNCHANGED <<timer2, rx1_event, pc, e>>
    BY <1>6, Zenon DEF Timeout2
  <2>. QED  BY <2>1 DEF EventSend, WokenBy, Resume, ExclInv, IType, TypeOK
<1>7. CASE Module
  <2>1. /\ EventSend("REC", "isr", "") \/ UNCHANGED <<rx1_event, pc, e>>
        /\ timer2' = timer2
    BY <1>7, Zenon DEF Module, Chatter, Reply, Mute, IdleInterrupt, timerVars
  <2>. QED
    BY <2>1 DEF EventSend, WokenBy, Resume, Interest, ExclInv, IType, TypeOK
<1>8. CASE UNCHANGED vars
  BY <1>8 DEF vars, ExclInv
<1>. QED  BY <1>1, <1>2, <1>3, <1>4, <1>5, <1>6, <1>7, <1>8 DEF Next, Cpu

(* timer2 is never inserted by two threads at once, nor while it is active.   *)
THEOREM TimerStartedOnce == Spec => []TimerStartExclusive
<1>1. Init => ExclInv
  BY DEF Init, ExclInv, TimeoutPending, TimeoutPath
<1>2. IType /\ ExclInv => TimerStartExclusive
  BY DEF IType, TypeOK, Labels, ATSendLabels, ExclInv, TimeoutPending, TimeoutPath,
         TimerStartExclusive, Inserting
<1>. QED  BY <1>1, <1>2, ExclStep, ITypeCorrect, WakeCorrect, PTL DEF Spec

-----------------------------------------------------------------------------
(* at_comtest's wait is supervised: from ATSend's assignment of               *)
(* at_timeout_cnt on, its end is announced, or a TIMEOUT is on its way, or    *)
(* the timeout is running - unless a TIMEOUT was dropped.                     *)
Waiting == {"at_stop", "at_insert", "at_event", "at_exit", "recv", "wait"}
Covered ==
    \/ "ACK" \in rx1_event \/ pc["at_process"] = "matched"
    \/ TimeoutPending
    \/ at_timeout_cnt > 0 /\ (timer2 \/ pc["shell"] \in {"at_stop", "at_insert"})
SupInv ==
    /\ pc["shell"] \in Waiting => dropped \/ Covered
    /\ pc["at_process"] \in {"retry_stop", "retry_insert", "at_stop", "at_insert"}
         => at_timeout_cnt > 0 \/ "TIMEOUT" \in rx1_event

LEMMA SupStep == IType /\ WakeInv /\ SupInv /\ [Next]_vars => SupInv'
<1> SUFFICES ASSUME IType, WakeInv, SupInv, [Next]_vars PROVE SupInv'
  OBVIOUS
<1> USE DEF Waiting, Covered, TimeoutPending, TimeoutPath, timerVars, histVars
<1>1. CASE Serial
  BY <1>1 DEF Serial, EventRecv, SerialCopy, SerialNotify, EventSend, WokenBy, Resume,
              Interest, Goto, At, SupInv, IType, TypeOK
<1>2. CASE AtProcess
  <2>1. CASE EventRecv("at_process")
    <3>1. UNCHANGED <<at_timeout_cnt, timer2, dropped>> /\ pc["at_process"] = "recv"
      BY <2>1 DEF EventRecv, At
    <3>2. pc' = [pc EXCEPT !["at_process"] = pc'["at_process"]]
          /\ pc'["at_process"] \in {"wait", "dispatch"}
      BY <2>1 DEF EventRecv, Goto, Resume, IType, TypeOK
    <3>3. "ACK" \in rx1_event => "ACK" \in rx1_event'
      BY <2>1 DEF EventRecv, Interest
    <3>4. "TIMEOUT" \in rx1_event => pc'["at_process"] = "dispatch" /\ "TIMEOUT" \in e'
      BY <2>1 DEF EventRecv, Interest, Goto, Resume, IType, TypeOK
    <3>. QED  BY <3>1, <3>2, <3>3, <3>4 DEF SupInv, IType, TypeOK
  <2>2. CASE Dispatch
    BY <2>2 DEF Dispatch, At, Goto, SupInv, WakeInv, IType, TypeOK, Interest
  <2>3. CASE Acknowledge
    BY <2>3 DEF Acknowledge, EventSend, WokenBy, Resume, Interest, At, SupInv, IType,
                TypeOK
  <2>4. CASE Retry
    BY <2>4, TimeAssumption DEF Retry, At, Goto, SupInv, IType, TypeOK
  <2>5. CASE RetrySend
    BY <2>5 DEF RetrySend, EventSend, WokenBy, Resume, Interest, At, SupInv, IType, TypeOK
  <2>6. CASE TimerStop("at_process", "retry_stop", "retry_insert")
    BY <2>6 DEF TimerStop, At, Goto, SupInv, IType, TypeOK
  <2>7. CASE TimerInsert("at_process", "retry_insert", "retry_send")
    BY <2>7 DEF TimerInsert, At, Goto, SupInv, IType, TypeOK
  <2>8. CASE ATSend("at_process")
    <3>1. CASE TimerStop("at_process", "at_stop", "at_insert")
      BY <3>1 DEF TimerStop, At, Goto, SupInv, IType, TypeOK
    <3>2. CASE TimerInsert("at_process", "at_insert", "at_event")
      BY <3>2 DEF TimerInsert, At, Goto, SupInv, IType, TypeOK
    <3>3. CASE ATSendCnt("at_process")
      BY <3>3, TimeAssumption DEF ATSendCnt, At, Goto, SupInv, IType, TypeOK
    <3>. QED
      BY <2>8, <3>1, <3>2, <3>3
         DEF ATSend, ATSendCur, ATSendRec, ATSendEvent, ATSendExit, EventSend, WokenBy,
             Resume, Interest, At, Goto, SupInv, IType, TypeOK
  <2>. QED  BY <1>2, <2>1, <2>2, <2>3, <2>4, <2>5, <2>6, <2>7, <2>8 DEF AtProcess
<1>3. CASE AtSendThread
  BY <1>3 DEF AtSendThread, EventRecv, Prepare, Transmit, TransmitExit, Resume,
              Interest, Goto, At, SupInv, IType, TypeOK
<1>4. CASE Comtest
  <2>1. CASE EventRecv("shell")
    BY <2>1 DEF EventRecv, Resume, Interest, Goto, At, SupInv, IType, TypeOK
  <2>2. CASE ComtestAcked
    BY <2>2 DEF ComtestAcked, Goto, At, SupInv, IType, TypeOK
  <2>3. CASE ATSendCnt("shell")
    BY <2>3, TimeAssumption DEF ATSendCnt, At, Goto, SupInv, IType, TypeOK
  <2>4. CASE \/ ATSendCur("shell") \/ ATSendRec("shell") \/ ATSendExit("shell")
             \/ TimerStop("shell", "at_stop", "at_insert")
             \/ TimerInsert("shell", "at_insert", "at_event")
    BY <2>4 DEF ATSendCur, ATSendRec, ATSendExit, TimerStop, TimerInsert, At, Goto,
                SupInv, IType, TypeOK
  <2>5. CASE ATSendEvent("shell")
    BY <2>5 DEF ATSendEvent, EventSend, WokenBy, Resume, Interest, At, SupInv, IType,
                TypeOK
  <2>. QED  BY <1>4, <2>1, <2>2, <2>3, <2>4, <2>5 DEF Comtest, ATSend
<1>5. CASE ComtestStart
  BY <1>5 DEF ComtestStart, Goto, SupInv, IType, TypeOK
<1>6. CASE Timeout2
  <2>1. /\ timer2 /\ at_timeout_cnt > 0 /\ at_timeout_cnt' = at_timeout_cnt - 1
        /\ dropped' = dropped
        /\ \/ EventSend("TIMEOUT", "isr", "")
           \/ at_timeout_cnt # 1 /\ UNCHANGED <<timer2, rx1_event, pc, e>>
    BY <1>6, Zenon DEF Timeout2, histVars
  <2>2. CASE EventSend("TIMEOUT", "isr", "")
    <3>0. \A t \in Threads \ {"at_process"} : "TIMEOUT" \notin Interest[t]
      BY DEF Interest
    <3>1. \A t \in Threads \ {"at_process"} : pc'[t] = pc[t]
      BY <2>2, <3>0 DEF EventSend, WokenBy
    <3>2. TimeoutPending' /\ ("TIMEOUT" \in rx1_event' \/ pc'["at_process"] = "dispatch")
      BY <2>2 DEF EventSend, WokenBy, Interest, Resume, IType, TypeOK
    <3>. QED  BY <3>1, <3>2 DEF SupInv
  <2>3. CASE at_timeout_cnt # 1 /\ UNCHANGED <<timer2, rx1_event, pc, e>>
    <3>0. at_timeout_cnt' = at_timeout_cnt - 1 /\ at_timeout_cnt > 0
      BY <2>1
    <3>1. at_timeout_cnt' > 0
      BY <3>0, <2>3, TimeAssumption DEF IType, TypeOK
    <3>. QED  BY <2>1, <2>3, <3>1 DEF SupInv
  <2>. QED  BY <2>1, <2>2, <2>3
<1>7. CASE Module
  <2>1. /\ EventSend("REC", "isr", "") \/ UNCHANGED <<rx1_event, pc, e>>
        /\ timer2' = timer2 /\ at_timeout_cnt' = at_timeout_cnt /\ dropped' = dropped
    BY <1>7, Zenon DEF Module, Chatter, Reply, Mute, IdleInterrupt, timerVars, histVars
  <2>. QED
    BY <2>1 DEF EventSend, WokenBy, Resume, Interest, SupInv, IType, TypeOK
<1>8. CASE UNCHANGED vars
  BY <1>8 DEF vars, SupInv
<1>. QED  BY <1>1, <1>2, <1>3, <1>4, <1>5, <1>6, <1>7, <1>8 DEF Next, Cpu

(* While at_comtest waits and the CPU is idle, the timeout is running, unless *)
(* at_process has dropped a TIMEOUT it received together with a packet.       *)
THEOREM WaitIsSupervised == Spec => []SupervisedUnlessDropped
<1>1. Init => SupInv
  BY DEF Init, SupInv, Waiting
<1>2. IType /\ WakeInv /\ SupInv => SupervisedUnlessDropped
  <2> SUFFICES ASSUME IType, WakeInv, SupInv, CpuIdle, pc["shell"] = "wait", ~dropped
               PROVE  timer2 /\ at_timeout_cnt > 0
    BY DEF SupervisedUnlessDropped, Supervised
  <2>1. pc["at_process"] = "wait"
    BY DEF CpuIdle, Blocked, IType, TypeOK, Labels, ATSendLabels
  <2>2. "ACK" \notin rx1_event /\ "TIMEOUT" \notin rx1_event
    BY <2>1 DEF WakeInv, NoLostWakeup, Interest
  <2>. QED
    BY <2>1, <2>2 DEF SupInv, Waiting, Covered, TimeoutPending, TimeoutPath
<1>. QED  BY <1>1, <1>2, SupStep, ITypeCorrect, WakeCorrect, PTL DEF Spec

-----------------------------------------------------------------------------
(* Text in process_buff is newer than the last acknowledgement, because each  *)
(* acknowledged command that can be current is one whose case in Rec_WaitAT   *)
(* clears the buffer.                                                         *)
NoConb == AT_CONB \notin FirstCmd..LastCmd
FreshInv ==
    /\ process_buff # {} => fresh
    /\ pc["at_process"] = "matched" => fresh
    /\ ATCurrentCmdNum \in ClearingCmds
    /\ kk \in FirstCmd..LastCmd
    /\ \A t \in {"at_process", "shell"} : arg[t] \in ClearingCmds

LEMMA Clearing ==
    NoConb => FirstCmd..LastCmd \cup {AT_ROLE, AT_REST} \subseteq ClearingCmds
BY CmdAssumption DEF NoConb, ClearingCmds, teATCmdNum, AT_ROLE, AT_CONB, AT_REST,
                     AT_TNOCMD, AT_TNOCMD1

LEMMA FreshStep == IType /\ NoConb /\ FreshInv /\ [Next]_vars => FreshInv'
<1> SUFFICES ASSUME IType, NoConb, FreshInv, [Next]_vars PROVE FreshInv'
  OBVIOUS
<1> USE DEF cmdVars, bufVars, histVars
<1>0. kk' \in FirstCmd..LastCmd
  <2>1. IType'
    BY TypeSerial, TypeAtProcess, TypeAtSendThread, TypeComtest, TypeIsr, TypeStutter
       DEF Next, Cpu
  <2>. QED  BY <2>1 DEF IType, TypeOK
<1>1. CASE Serial
  BY <1>0, <1>1 DEF Serial, EventRecv, SerialCopy, SerialNotify, EventSend, WokenBy,
                    Resume, Goto, FreshInv, IType, TypeOK
<1>2. ASSUME NEW t \in {"at_process", "shell"}, ATSend(t) PROVE FreshInv'
  BY <1>0, <1>2 DEF ATSend, ATSendCur, ATSendRec, ATSendCnt, TimerStop, TimerInsert,
                    ATSendEvent, ATSendExit, EventSend, WokenBy, Resume, Goto,
                    FreshInv, IType, TypeOK
<1>3. CASE AtProcess
  <2>1. CASE Dispatch
    <3>1. Matches => fresh
      BY DEF Matches, FreshInv
    <3>2. pc'["at_process"] = "matched" => fresh
      BY <2>1, <3>1 DEF Dispatch, Goto, IType, TypeOK
    <3>3. \A t \in {"at_process", "shell"} : arg'[t] \in ClearingCmds
      BY <2>1, Clearing DEF Dispatch, FreshInv, IType, TypeOK
    <3>. QED  BY <1>0, <2>1, <3>2, <3>3 DEF Dispatch, FreshInv
  <2>2. CASE Acknowledge
    BY <1>0, <2>2 DEF Acknowledge, EventSend, FreshInv
  <2>. QED
    BY <1>0, <1>2, <1>3, <2>1, <2>2
       DEF AtProcess, EventRecv, Retry, TimerStop, TimerInsert, RetrySend, EventSend,
           Resume, Goto, FreshInv, IType, TypeOK
<1>4. CASE AtSendThread
  BY <1>0, <1>4 DEF AtSendThread, EventRecv, Prepare, Transmit, TransmitExit, Goto,
                    Resume, FreshInv, IType, TypeOK
<1>5. CASE EventRecv("shell") \/ ComtestAcked \/ ComtestStart
  BY <1>0, <1>5, Clearing DEF EventRecv, ComtestAcked, ComtestStart, Goto, Resume,
                    FreshInv, IType, TypeOK
<1>6. CASE Timeout2 \/ Module
  <2>1. /\ \A t \in Threads : pc'[t] = pc[t] \/ pc'[t] = Resume[t]
        /\ UNCHANGED <<ATCurrentCmdNum, arg, kk, process_buff, fresh>>
    BY <1>6, Zenon DEF Timeout2, Module, Chatter, Reply, Mute, IdleInterrupt, EventSend
  <2>. QED  BY <1>0, <2>1 DEF FreshInv, Resume
<1>7. CASE UNCHANGED vars
  BY <1>7 DEF vars, FreshInv
<1>. QED
  BY <1>1, <1>2, <1>3, <1>4, <1>5, <1>6, <1>7 DEF Next, Cpu, Comtest

(* With CONB outside the commands of at_comtest, every acknowledgement is of  *)
(* text serial has copied since the acknowledgement before.                   *)
THEOREM AcksAreOfNewText == ASSUME NoConb PROVE Spec => []AckOfNewText
<1>1. Init => FreshInv
  BY Clearing, CmdAssumption DEF Init, FreshInv
<1>2. FreshInv => AckOfNewText
  BY DEF FreshInv, AckOfNewText
<1>3. IType /\ FreshInv /\ [Next]_vars => FreshInv'
  BY FreshStep
<1>. QED  BY <1>1, <1>2, <1>3, ITypeCorrect, PTL DEF Spec

-----------------------------------------------------------------------------
(* Retries.  A transmission is on its way from the TIMEOUT, or from ATSend,   *)
(* to at_send; there is one at a time, since the timeout cannot end while     *)
(* one is on its way: the CPU is busy, and at_timeout_cnt was set since.      *)
InATSend == {"at_rec", "at_cnt", "at_stop", "at_insert", "at_event"}
Resending == {"retry_stop", "retry_insert", "retry_send"}
Expired == \/ pc["at_process"] = "dispatch" /\ "TIMEOUT" \in e
           \/ pc["at_process"] \in {"retry", "at_send"} \cup Resending \cup InATSend
ToSend == "SEND" \in rx1_event \/ pc["at_send"] \in {"prepare", "transmit"}

Active == \/ pc["shell"] \notin {"wait", "idle", "done"}
          \/ "TIMEOUT" \in rx1_event \/ Expired \/ ToSend
Reloaded == at_timeout_cnt = 0 \/ at_timeout_cnt + busy >= TimeoutCnt
CountInv == Active => Reloaded

OneTransmission ==
    /\ "TIMEOUT" \in rx1_event => ~Expired /\ ~ToSend /\ pc["shell"] \notin InATSend
    /\ Expired => ~ToSend /\ pc["shell"] \notin InATSend
    /\ ToSend => pc["shell"] \notin InATSend
    /\ "SEND" \in rx1_event => pc["at_send"] \notin {"prepare", "transmit"}

(* at_comtest has not yet set anything going.                                 *)
Untouched == /\ pc["shell"] \in {"idle", "at_send"} /\ at_timeout_cnt = 0
             /\ "TIMEOUT" \notin rx1_event /\ ~Expired /\ ~ToSend

(* How many transmissions are left, from each place of the way.               *)
Beginning == pc["at_process"] \in InATSend \/ pc["shell"] \in InATSend
First == tries = 0 /\ ATCurrentCmdNum # ATNextCmdNum
Again == ATCurrentCmdNum = ATNextCmdNum /\ tries + CurrentRty = RtyNum
Sent == tries + CurrentRty = RtyNum + 1
Quiet == ~Beginning /\ pc["at_process"] \notin Resending /\ ~ToSend
CountsInv ==
    /\ Beginning => First
    /\ pc["at_process"] \in Resending => Again
    /\ "SEND" \in rx1_event \/ pc["at_send"] = "prepare" => First \/ Again
    /\ pc["at_send"] = "transmit" => tries + CurrentRty = RtyNum
    /\ Quiet => Sent \/ (tries = 0 /\ Untouched)
    /\ pc["at_process"] = "at_send" => CurrentRty = 0
    /\ pc["shell"] = "idle" => Untouched
    /\ AT_TNOCMD \notin {arg["at_process"], arg["shell"]}

TriesInv == CountInv /\ OneTransmission /\ CountsInv

USE DEF teATCmdNum, AT_ROLE, AT_CONB, AT_REST, AT_TNOCMD, AT_TNOCMD1

LEMMA IdleIsInactive == IType /\ WakeInv /\ CpuIdle => ~Active
<1> SUFFICES ASSUME IType, WakeInv, CpuIdle PROVE ~Active
  OBVIOUS
<1>1. /\ pc["at_process"] = "wait" /\ pc["at_send"] = "wait"
      /\ pc["shell"] \in {"wait", "idle", "done"}
  BY DEF CpuIdle, Blocked, IType, TypeOK, Labels, ATSendLabels
<1>2. "TIMEOUT" \notin rx1_event /\ "SEND" \notin rx1_event
  BY <1>1 DEF WakeInv, NoLostWakeup, Interest
<1>. QED  BY <1>1, <1>2 DEF Active, Expired, ToSend, Resending, InATSend

(* A step that neither touches the variables of a transmission nor moves one. *)
SamePlaces ==
    /\ pc'["shell"] = pc["shell"] /\ pc'["at_send"] = pc["at_send"]
    /\ \/ pc'["at_process"] = pc["at_process"] /\ e' = e
       \/ /\ {pc["at_process"], pc'["at_process"]} \subseteq {"recv", "wait", "dispatch", "matched"}
          /\ pc'["at_process"] = "dispatch" /\ "TIMEOUT" \in e' <=>
               pc["at_process"] = "dispatch" /\ "TIMEOUT" \in e
    /\ "TIMEOUT" \in rx1_event' <=> "TIMEOUT" \in rx1_event
    /\ "SEND" \in rx1_event' <=> "SEND" \in rx1_event
SameCounts == UNCHANGED <<cmdVars, CurrentRty, tries, arg>>
LEMMA SamePlacesSame ==
    ASSUME SamePlaces
    PROVE  /\ Expired' <=> Expired
           /\ ToSend' <=> ToSend
           /\ Beginning' <=> Beginning
           /\ Quiet' <=> Quiet
           /\ pc'["at_process"] \in Resending <=> pc["at_process"] \in Resending
           /\ pc'["at_process"] = "at_send" <=> pc["at_process"] = "at_send"
<1> USE DEF Expired, ToSend, Beginning, Quiet, Resending, InATSend
<1>1. Expired' <=> Expired
  BY DEF SamePlaces
<1>2. ToSend' <=> ToSend
  BY DEF SamePlaces
<1>3. Beginning' <=> Beginning
  BY DEF SamePlaces
<1>4. /\ pc'["at_process"] \in Resending <=> pc["at_process"] \in Resending
      /\ pc'["at_process"] = "at_send" <=> pc["at_process"] = "at_send"
  BY DEF SamePlaces
<1>. QED  BY <1>1, <1>2, <1>3, <1>4

LEMMA KeepsCounts ==
    ASSUME CountsInv, SamePlaces, SameCounts, at_timeout_cnt = 0 => at_timeout_cnt' = 0
    PROVE  CountsInv'
<1>1. /\ First' <=> First
      /\ Again' <=> Again
      /\ Sent' <=> Sent
      /\ CurrentRty' = CurrentRty /\ tries' = tries /\ arg' = arg
  BY DEF SameCounts, cmdVars, First, Again, Sent
<1>2. Untouched => Untouched'
  BY SamePlacesSame DEF Untouched, SamePlaces
<1>3. pc'["shell"] = pc["shell"] /\ pc'["at_send"] = pc["at_send"]
  BY DEF SamePlaces
<1>4. "SEND" \in rx1_event' <=> "SEND" \in rx1_event
  BY DEF SamePlaces
<1>. QED  BY <1>1, <1>2, <1>3, <1>4, SamePlacesSame DEF CountsInv

LEMMA KeepsOne == ASSUME OneTransmission, SamePlaces PROVE OneTransmission'
BY SamePlacesSame DEF OneTransmission, SamePlaces

LEMMA KeepsActive == ASSUME SamePlaces PROVE Active' <=> Active
BY SamePlacesSame DEF Active, SamePlaces

LEMMA KeepsTries ==
    ASSUME TriesInv, SamePlaces, SameCounts, UNCHANGED at_timeout_cnt,
           Active => busy' = busy
    PROVE  TriesInv'
<1>1. CountInv'
  BY KeepsActive DEF TriesInv, CountInv, Reloaded
<1>. QED  BY <1>1, KeepsCounts, KeepsOne DEF TriesInv

LEMMA TriesSerial == IType /\ WakeInv /\ TriesInv /\ Serial => TriesInv'
<1> SUFFICES ASSUME IType, WakeInv, TriesInv, Serial PROVE TriesInv'
  OBVIOUS
<1>1. SameCounts /\ UNCHANGED <<at_timeout_cnt, busy>>
  BY DEF Serial, EventRecv, SerialCopy, SerialNotify, SameCounts, timerVars, histVars
<1>2. SamePlaces
  <2>1. CASE EventRecv("serial")
    BY <2>1 DEF EventRecv, SamePlaces, Interest, Goto, IType, TypeOK
  <2>2. CASE SerialCopy
    BY <2>2 DEF SerialCopy, SamePlaces
  <2>3. CASE SerialNotify
    <3>1. EventSend("PROCESS", "serial", "recv")
      BY <2>3 DEF SerialNotify
    <3>. QED  BY <3>1 DEF EventSend, WokenBy, Resume, Interest, SamePlaces
  <2>. QED  BY <2>1, <2>2, <2>3 DEF Serial
<1>. QED  BY <1>1, <1>2, KeepsTries

(* rt_event_send by an interrupt, which is not one of the threads.            *)
IsrSend(bit) ==
    /\ pc' = [u \in Threads |-> IF u \in WokenBy(bit) THEN Resume[u] ELSE pc[u]]
    /\ rx1_event' = IF WokenBy(bit) = {} THEN rx1_event \cup {bit} ELSE rx1_event
    /\ e' = IF "at_process" \in WokenBy(bit) THEN {bit} ELSE e
LEMMA IsrSends ==
    ASSUME NEW bit, NEW label, EventSend(bit, "isr", label) PROVE IsrSend(bit)
BY DEF EventSend, IsrSend

LEMMA TriesModule == IType /\ WakeInv /\ TriesInv /\ Module => TriesInv'
<1> SUFFICES ASSUME IType, WakeInv, TriesInv, Module PROVE TriesInv'
  OBVIOUS
<1>1. /\ SameCounts /\ UNCHANGED at_timeout_cnt
      /\ IsrSend("REC") \/ UNCHANGED <<rx1_event, pc, e>>
      /\ busy' = (IF CpuIdle THEN 0 ELSE busy) \/ busy' = busy
  BY IsrSends, Zenon DEF Module, Chatter, Reply, Mute, IdleInterrupt, SameCounts, timerVars, histVars
<1>2. Active => busy' = busy
  BY <1>1, IdleIsInactive
<1>3. SamePlaces
  BY <1>1 DEF IsrSend, WokenBy, Resume, Interest, SamePlaces
<1>. QED  BY <1>1, <1>2, <1>3, KeepsTries

LEMMA TriesTimeout == IType /\ WakeInv /\ TriesInv /\ Timeout2 => TriesInv'
<1> SUFFICES ASSUME IType, WakeInv, TriesInv, Timeout2 PROVE TriesInv'
  OBVIOUS
<1>1. SameCounts /\ at_timeout_cnt > 0 /\ at_timeout_cnt' = at_timeout_cnt - 1
  BY Zenon DEF Timeout2, SameCounts, histVars
<1>5. ~CpuIdle => busy < BusyTicks /\ busy' = busy + 1
  BY Zenon DEF Timeout2
<1>4. \/ at_timeout_cnt = 1 /\ IsrSend("TIMEOUT")
      \/ at_timeout_cnt # 1 /\ UNCHANGED <<rx1_event, pc, e>>
  BY IsrSends, Zenon DEF Timeout2
<1>0. /\ at_timeout_cnt \in Nat /\ TimeoutCnt \in Nat /\ BusyTicks \in Nat
      /\ BusyTicks < TimeoutCnt /\ busy \in Nat
  BY TimeAssumption DEF IType, TypeOK
<1>2. CASE at_timeout_cnt # 1 /\ UNCHANGED <<rx1_event, pc, e>>
  <2>1. SamePlaces
    BY <1>2 DEF SamePlaces
  <2>2. Active => at_timeout_cnt' + busy' >= TimeoutCnt
    BY <1>0, <1>1, <1>5, IdleIsInactive DEF TriesInv, CountInv, Reloaded
  <2>3. CountInv'
    BY <2>1, <2>2, KeepsActive DEF CountInv, Reloaded
  <2>4. at_timeout_cnt # 0
    BY <1>0, <1>1
  <2>. QED  BY <1>1, <2>1, <2>3, <2>4, KeepsCounts, KeepsOne DEF TriesInv
<1>3. CASE at_timeout_cnt = 1 /\ IsrSend("TIMEOUT")
  <2>1. ~Active
    BY <1>0, <1>1, <1>5, <1>3, IdleIsInactive DEF TriesInv, CountInv, Reloaded
  <2>2. at_timeout_cnt' = 0
    BY <1>1, <1>3
  <2>0. "TIMEOUT" \notin Interest["shell"] /\ "TIMEOUT" \notin Interest["at_send"]
    BY DEF Interest
  <2>3. /\ pc'["shell"] = pc["shell"] /\ pc'["at_send"] = pc["at_send"]
        /\ pc'["at_process"] \in {pc["at_process"], "dispatch"}
        /\ "SEND" \in rx1_event' => "SEND" \in rx1_event
    <3>1. Resume["at_process"] = "dispatch"
      BY DEF Resume
    <3>2. /\ pc'["shell"] = pc["shell"] /\ pc'["at_send"] = pc["at_send"]
          /\ pc'["at_process"] \in {pc["at_process"], "dispatch"}
      BY <1>3, <2>0, <3>1 DEF IsrSend, WokenBy
    <3>3. "SEND" \in rx1_event' => "SEND" \in rx1_event
      BY <1>3 DEF IsrSend
    <3>. QED  BY <3>2, <3>3
  <2>4. "TIMEOUT" \in rx1_event' => pc'["at_process"] = pc["at_process"] /\ e' = e
    <3>1. pc["at_process"] = "wait" => "TIMEOUT" \notin rx1_event
      BY DEF WakeInv, NoLostWakeup, Interest
    <3>. QED  BY <1>3, <3>1 DEF IsrSend, WokenBy
  <2>5. /\ pc["shell"] \in {"wait", "idle", "done"} /\ ~Expired /\ ~ToSend
    BY <2>1 DEF Active
  <2>6. ~ToSend'
    BY <2>3, <2>5 DEF ToSend
  <2>7. "TIMEOUT" \in rx1_event' => ~Expired'
    BY <2>4, <2>5 DEF Expired
  <2>8. CountInv' /\ OneTransmission'
    BY <2>2, <2>3, <2>5, <2>6, <2>7 DEF CountInv, Reloaded, OneTransmission, InATSend, ToSend
  <2>9. ~Untouched
    BY <1>3 DEF Untouched
  <2>10. Quiet /\ Sent
    BY <1>0, <2>5, <2>9, <1>3 DEF TriesInv, CountsInv, Quiet, Beginning, Expired, InATSend, Resending, ToSend, Untouched
  <2>11. Sent' /\ Quiet'
    BY <1>1, <2>3, <2>5, <2>6, <2>10 DEF SameCounts, Sent, Quiet, Beginning, Expired, InATSend, Resending
  <2>12. pc["shell"] # "idle"
    BY <2>9 DEF TriesInv, CountsInv
  <2>13. AT_TNOCMD \notin {arg'["at_process"], arg'["shell"]}
    BY <1>1 DEF SameCounts, TriesInv, CountsInv
  <2>14. pc'["at_process"] # "at_send"
    BY <2>3, <2>5 DEF Expired
  <2>. QED
    BY <2>3, <2>6, <2>8, <2>11, <2>12, <2>13, <2>14 DEF TriesInv, CountsInv, Quiet, ToSend
<1>. QED  BY <1>2, <1>3, <1>4

(* While at_send runs, at_process sleeps and no TIMEOUT waits for it.         *)
LEMMA SendRunsAlone ==
    ASSUME IType, WakeInv, NEW l, At("at_send", l), l # "exit"
    PROVE  pc["at_process"] = "wait" /\ "TIMEOUT" \notin rx1_event /\ ~Expired
<1>1. pc["at_process"] = "wait"
  BY SendRuns DEF IType
<1>. QED  BY <1>1 DEF WakeInv, NoLostWakeup, Interest, Expired, Resending, InATSend

LEMMA TriesAtSendThread == IType /\ WakeInv /\ TriesInv /\ AtSendThread => TriesInv'
<1> SUFFICES ASSUME IType, WakeInv, TriesInv, AtSendThread PROVE TriesInv'
  OBVIOUS
<1> USE DEF Goto
<1>0. /\ CountInv /\ OneTransmission /\ CountsInv
      /\ pc["at_send"] \in Labels["at_send"] /\ DOMAIN pc = Threads
      /\ CurrentRty \in Int /\ RtyNum \in Nat /\ tries \in Nat
  BY RtyAssumption DEF TriesInv, IType, TypeOK
<1>1. /\ pc'["shell"] = pc["shell"] /\ pc'["at_process"] = pc["at_process"]
      /\ e' = e /\ at_timeout_cnt' = at_timeout_cnt /\ busy' = busy
      /\ "TIMEOUT" \in rx1_event' <=> "TIMEOUT" \in rx1_event
      /\ ATCurrentCmdNum' = ATCurrentCmdNum /\ ATNextCmdNum' = ATNextCmdNum
      /\ arg' = arg
  BY <1>0 DEF AtSendThread, EventRecv, Prepare, Transmit, TransmitExit, Interest,
              cmdVars, timerVars, histVars
<1>2. Expired' <=> Expired
  BY <1>1 DEF Expired, Resending, InATSend
<1>3. ToSend' => ToSend
  BY <1>0 DEF AtSendThread, EventRecv, Prepare, Transmit, TransmitExit, Resume, Interest,
              ToSend, At
<1>4. "SEND" \in rx1_event' => pc'["at_send"] \notin {"prepare", "transmit"}
  <2>1. CASE EventRecv("at_send")
    BY <1>0, <2>1 DEF EventRecv, Interest
  <2>2. CASE Prepare \/ Transmit \/ TransmitExit
    BY <1>0, <2>2 DEF Prepare, Transmit, TransmitExit, At, OneTransmission
  <2>. QED  BY <2>1, <2>2 DEF AtSendThread
<1>5. CountInv' /\ OneTransmission'
  BY <1>0, <1>1, <1>2, <1>3, <1>4 DEF CountInv, Active, Reloaded, OneTransmission
<1>6. CASE EventRecv("at_send") \/ TransmitExit
  <2>1. UNCHANGED <<tries, CurrentRty>>
    BY <1>6 DEF EventRecv, TransmitExit, histVars
  <2>2. /\ ToSend' <=> ToSend
        /\ "SEND" \in rx1_event' \/ pc'["at_send"] = "prepare" =>
             "SEND" \in rx1_event \/ pc["at_send"] = "prepare"
        /\ pc'["at_send"] # "transmit"
    BY <1>0, <1>6 DEF EventRecv, TransmitExit, Resume, Interest, ToSend, At
  <2>. QED
    BY <1>0, <1>1, <1>2, <1>5, <2>1, <2>2
       DEF TriesInv, CountsInv, Beginning, First, Again, Sent, Quiet, Untouched, Resending,
           InATSend
<1>7. ASSUME Prepare \/ Transmit
      PROVE  /\ pc["at_process"] = "wait" /\ ~Expired /\ ToSend
             /\ pc["shell"] \notin InATSend /\ pc["shell"] # "idle"
  <2>1. pc["at_process"] = "wait" /\ ~Expired /\ ToSend
    BY <1>7, SendRunsAlone DEF Prepare, Transmit, ToSend, At
  <2>. QED  BY <1>0, <2>1 DEF OneTransmission, CountsInv, Untouched
<1>8. CASE Prepare
  <2>1. /\ pc["at_send"] = "prepare" /\ pc'["at_send"] = "transmit" /\ tries' = tries
        /\ "SEND" \notin rx1_event'
        /\ CurrentRty' = IF ATCurrentCmdNum # ATNextCmdNum THEN RtyNum ELSE CurrentRty
    BY <1>0, <1>8 DEF Prepare, At, OneTransmission, histVars
  <2>2. tries' + CurrentRty' = RtyNum
    BY <1>0, <2>1 DEF CountsInv, First, Again
  <2>3. ToSend'
    BY <2>1 DEF ToSend
  <2>. QED
    BY <1>0, <1>1, <1>5, <1>7, <1>8, <2>1, <2>2, <2>3
       DEF TriesInv, CountsInv, Beginning, Quiet, Resending, InATSend
<1>9. CASE Transmit
  <2>1. /\ pc["at_send"] = "transmit" /\ pc'["at_send"] = "exit" /\ tries' = tries + 1
        /\ "SEND" \notin rx1_event' /\ CurrentRty' = CurrentRty
    BY <1>0, <1>9 DEF Transmit, At, OneTransmission
  <2>2. Sent'
    BY <1>0, <2>1 DEF CountsInv, Sent
  <2>. QED
    BY <1>0, <1>1, <1>5, <1>7, <1>9, <2>1, <2>2
       DEF TriesInv, CountsInv, Beginning, Quiet, Resending, InATSend
<1>. QED  BY <1>6, <1>8, <1>9 DEF AtSendThread

(* While at_comtest runs, nothing else is going on.                           *)
LEMMA ShellRunsAlone ==
    ASSUME IType, WakeInv, NEW l, At("shell", l), l # "at_exit"
    PROVE  /\ pc["at_process"] = "wait" /\ pc["at_send"] = "wait"
           /\ "TIMEOUT" \notin rx1_event /\ ~Expired /\ ~ToSend
<1>1. pc["at_process"] = "wait" /\ pc["at_send"] = "wait"
  BY ShellRuns DEF IType
<1>. QED
  BY <1>1 DEF WakeInv, NoLostWakeup, Interest, Expired, ToSend, Resending, InATSend

(* ATSend starts when nothing is being transmitted.                           *)
Alone(t) ==
    /\ ~ToSend /\ "TIMEOUT" \notin rx1_event
    /\ IF t = "shell" THEN ~Expired /\ pc["shell"] \notin {"idle", "wait", "done"}
                      ELSE pc["shell"] \notin InATSend \cup {"idle"}

LEMMA ATSendAlone ==
    ASSUME IType, WakeInv, TriesInv, NEW t \in {"at_process", "shell"},
           NEW l \in {"at_send"} \cup InATSend, At(t, l)
    PROVE  Alone(t) /\ Active /\ Reloaded
<1>1. CASE t = "shell"
  BY <1>1, ShellRunsAlone
     DEF Alone, Active, TriesInv, CountInv, InATSend, At
<1>2. CASE t = "at_process"
  <2>1. Expired
    BY <1>2 DEF Expired, At
  <2>. QED
    BY <1>2, <2>1
       DEF Alone, Active, TriesInv, CountInv, CountsInv, OneTransmission, Untouched
<1>. QED  BY <1>1, <1>2

(* ATSend on its way: t is between its first assignment and the event.        *)
LEMMA OnTheWay ==
    ASSUME IType, NEW t \in {"at_process", "shell"}, Alone(t), CountsInv,
           pc' = [pc EXCEPT ![t] = pc'[t]], pc'[t] \in InATSend,
           rx1_event' = rx1_event, e' = e, arg' = arg,
           Reloaded', First'
    PROVE  TriesInv'
<1> USE DEF Alone, InATSend
<1>1. /\ \A u \in Threads \ {t} : pc'[u] = pc[u]
      /\ pc'[t] \in InATSend
  BY DEF IType, TypeOK
<1>2. ~ToSend'
  BY <1>1 DEF ToSend
<1>3. OneTransmission'
  BY <1>1, <1>2 DEF OneTransmission, Expired, Resending, ToSend
<1>4. Beginning' /\ ~Quiet'
  BY <1>1 DEF Beginning, Quiet
<1>5. pc'["at_process"] \notin Resending
  BY <1>1 DEF Expired, Resending
<1>6. pc'["at_process"] # "at_send" /\ pc'["shell"] # "idle"
  BY <1>1 DEF Expired
<1>7. AT_TNOCMD \notin {arg'["at_process"], arg'["shell"]}
  BY DEF CountsInv
<1>8. CountsInv'
  BY <1>2, <1>4, <1>5, <1>6, <1>7 DEF CountsInv, ToSend
<1>. QED  BY <1>3, <1>8 DEF TriesInv, CountInv

LEMMA TriesATSend ==
    ASSUME IType, WakeInv, TriesInv, NEW t \in {"at_process", "shell"}, ATSend(t)
    PROVE  TriesInv'
<1> USE DEF Goto
<1>0. /\ CountInv /\ OneTransmission /\ CountsInv
      /\ t \in Threads /\ DOMAIN pc = Threads
      /\ at_timeout_cnt \in Nat /\ busy \in Nat /\ TimeoutCnt \in Nat
  BY TimeAssumption DEF TriesInv, IType, TypeOK
<1>1. CASE ATSendCur(t)
  <2>1. Alone(t) /\ Reloaded
    BY <1>1, ATSendAlone DEF ATSendCur
  <2>2. First'
    BY <1>0, <1>1 DEF ATSendCur, First, CountsInv
  <2>3. Reloaded'
    BY <1>1, <2>1 DEF ATSendCur, Reloaded, timerVars
  <2>4. pc' = [pc EXCEPT ![t] = pc'[t]] /\ pc'[t] \in InATSend
    BY <1>0, <1>1 DEF ATSendCur, InATSend
  <2>. QED  BY <1>0, <1>1, <2>1, <2>2, <2>3, <2>4, OnTheWay DEF ATSendCur
<1>2. CASE \/ ATSendRec(t) \/ ATSendCnt(t) \/ TimerStop(t, "at_stop", "at_insert")
           \/ TimerInsert(t, "at_insert", "at_event")
  <2>1. /\ pc[t] \in InATSend /\ At(t, pc[t])
        /\ pc' = [pc EXCEPT ![t] = pc'[t]] /\ pc'[t] \in InATSend
        /\ UNCHANGED <<rx1_event, e, arg, ATCurrentCmdNum, ATNextCmdNum, tries, busy>>
        /\ at_timeout_cnt' = at_timeout_cnt \/ at_timeout_cnt' = TimeoutCnt
    BY <1>0, <1>2 DEF ATSendRec, ATSendCnt, TimerStop, TimerInsert, InATSend, At, histVars,
                 cmdVars, timerVars
  <2>2. Alone(t) /\ Reloaded
    BY <2>1, ATSendAlone
  <2>3. Reloaded'
    BY <1>0, <2>1, <2>2 DEF Reloaded
  <2>4. First'
    BY <1>0, <2>1 DEF First, CountsInv, Beginning
  <2>. QED  BY <1>0, <2>1, <2>2, <2>3, <2>4, OnTheWay
<1>3. CASE ATSendEvent(t)
  <2>1. /\ EventSend("SEND", t, "at_exit") /\ At(t, "at_event") /\ pc[t] = "at_event"
        /\ UNCHANGED <<cmdVars, at_timeout_cnt, tries, busy, arg>>
    BY <1>3 DEF ATSendEvent, At, timerVars, histVars
  <2>2. Alone(t) /\ Reloaded
    BY <2>1, ATSendAlone DEF InATSend
  <2>3. First /\ First'
    BY <1>0, <2>1 DEF First, CountsInv, Beginning, InATSend, cmdVars
  <2>4. /\ \A u \in {"at_process", "shell"} \ {t} : pc'[u] = pc[u]
        /\ pc'[t] = "at_exit" /\ e' = e
        /\ "TIMEOUT" \notin rx1_event'
        /\ "SEND" \in rx1_event' \/ pc'["at_send"] = "prepare"
        /\ ~("SEND" \in rx1_event' /\ pc'["at_send"] = "prepare")
        /\ pc'["at_send"] # "transmit"
    <3>1. "SEND" \notin Interest["at_process"] /\ "SEND" \notin Interest["shell"]
          /\ Resume["at_send"] = "prepare" /\ "SEND" \in Interest["at_send"]
      BY DEF Interest, Resume
    <3>2. "SEND" \notin rx1_event /\ pc["at_send"] \notin {"prepare", "transmit"}
      BY <2>2 DEF Alone, ToSend
    <3>3. /\ \A u \in {"at_process", "shell"} \ {t} : pc'[u] = pc[u]
          /\ pc'[t] = "at_exit"
      BY <1>0, <2>1, <3>1 DEF EventSend, WokenBy
    <3>4. e' = e /\ "TIMEOUT" \notin rx1_event'
      BY <2>1, <2>2, <3>1 DEF EventSend, WokenBy, Alone
    <3>5. CASE pc["at_send"] = "wait"
      <4>1. "at_send" \in WokenBy("SEND")
        BY <3>1, <3>5 DEF WokenBy
      <4>2. pc'["at_send"] = "prepare" /\ rx1_event' = rx1_event
        BY <1>0, <2>1, <3>1, <4>1 DEF EventSend
      <4>. QED  BY <3>2, <3>3, <3>4, <4>2
    <3>6. CASE pc["at_send"] # "wait"
      <4>1. WokenBy("SEND") = {}
        BY <3>1, <3>6 DEF WokenBy, Interest
      <4>2. pc'["at_send"] = pc["at_send"] /\ rx1_event' = rx1_event \cup {"SEND"}
        BY <1>0, <2>1, <4>1 DEF EventSend
      <4>. QED  BY <3>2, <3>3, <3>4, <4>2
    <3>. QED  BY <3>5, <3>6
  <2>5. ToSend' /\ ~Expired' /\ ~Beginning' /\ pc'["shell"] \notin InATSend \cup {"idle"}
        /\ pc'["at_process"] \notin Resending \cup {"at_send"}
    BY <2>2, <2>4 DEF ToSend, Expired, Beginning, Resending, InATSend, Alone
  <2>6. Reloaded'
    BY <2>1, <2>2 DEF Reloaded
  <2>. QED
    BY <1>0, <2>1, <2>3, <2>4, <2>5, <2>6
       DEF TriesInv, CountInv, CountsInv, OneTransmission, Quiet
<1>4. CASE ATSendExit(t)
  <2>1. /\ pc[t] = "at_exit" /\ pc' = [pc EXCEPT ![t] = "recv"]
        /\ SameCounts
        /\ UNCHANGED <<at_timeout_cnt, busy, rx1_event, e>>
    BY <1>4 DEF ATSendExit, At, timerVars, histVars, SameCounts
  <2>2. CASE t = "at_process"
    <3>1. /\ pc["at_process"] = "at_exit" /\ pc'["at_process"] = "recv"
          /\ pc'["shell"] = pc["shell"] /\ pc'["at_send"] = pc["at_send"]
      BY <1>0, <2>1, <2>2
    <3>. QED
      BY <1>0, <2>1, <3>1
         DEF TriesInv, CountInv, CountsInv, OneTransmission, Active, Reloaded, Expired,
             ToSend, Beginning, First, Again, Sent, Quiet, Untouched, Resending, InATSend,
             SameCounts, cmdVars
  <2>3. CASE t = "shell"
    <3>1. /\ pc["shell"] = "at_exit" /\ pc'["shell"] = "recv"
          /\ pc'["at_process"] = pc["at_process"] /\ pc'["at_send"] = pc["at_send"]
      BY <1>0, <2>1, <2>3
    <3>. QED
      BY <1>0, <2>1, <3>1
         DEF TriesInv, CountInv, CountsInv, OneTransmission, Active, Reloaded, Expired,
             ToSend, Beginning, First, Again, Sent, Quiet, Untouched, Resending, InATSend,
             SameCounts, cmdVars
  <2>. QED  BY <2>2, <2>3
<1>. QED  BY <1>1, <1>2, <1>3, <1>4 DEF ATSend

LEMMA TriesAtProcess == IType /\ WakeInv /\ TriesInv /\ AtProcess => TriesInv'
<1> SUFFICES ASSUME IType, WakeInv, TriesInv, AtProcess PROVE TriesInv'
  OBVIOUS
<1> USE DEF Goto
<1>0. /\ CountInv /\ OneTransmission /\ CountsInv
      /\ DOMAIN pc = Threads
      /\ CurrentRty \in Int /\ RtyNum \in Nat /\ tries \in Nat
      /\ busy \in Nat /\ TimeoutCnt \in Nat /\ at_timeout_cnt \in Nat
  BY RtyAssumption, TimeAssumption DEF TriesInv, IType, TypeOK
<1>1. CASE EventRecv("at_process")
  <2>1. /\ SameCounts /\ UNCHANGED <<at_timeout_cnt, busy>>
        /\ pc["at_process"] = "recv"
        /\ pc'["shell"] = pc["shell"] /\ pc'["at_send"] = pc["at_send"]
        /\ pc'["at_process"] \in {"wait", "dispatch"}
        /\ "SEND" \in rx1_event' <=> "SEND" \in rx1_event
        /\ "TIMEOUT" \notin rx1_event'
        /\ "TIMEOUT" \in rx1_event <=> pc'["at_process"] = "dispatch" /\ "TIMEOUT" \in e'
    BY <1>0, <1>1 DEF EventRecv, SameCounts, At, Resume, Interest, timerVars, histVars
  <2>2. /\ Expired' <=> "TIMEOUT" \in rx1_event
        /\ ~Expired
        /\ ToSend' <=> ToSend
        /\ Beginning' <=> Beginning
        /\ Quiet' <=> Quiet
    BY <2>1 DEF Expired, ToSend, Beginning, Quiet, Resending, InATSend
  <2>3. Active' <=> Active
    BY <2>1, <2>2 DEF Active
  <2>. QED
    BY <1>0, <2>1, <2>2, <2>3
       DEF TriesInv, CountInv, Reloaded, OneTransmission, CountsInv, First, Again, Sent,
           Untouched, SameCounts, cmdVars, Resending
<1>2. CASE Dispatch
  <2>0. "PROCESS" \notin e => "TIMEOUT" \in e
    BY <1>2 DEF Dispatch, At, WakeInv, IType, TypeOK, Interest
  <2>1. /\ UNCHANGED <<cmdVars, CurrentRty, tries, at_timeout_cnt, busy, rx1_event, e>>
        /\ pc["at_process"] = "dispatch"
        /\ pc'["shell"] = pc["shell"] /\ pc'["at_send"] = pc["at_send"]
        /\ \/ pc'["at_process"] \in {"matched", "recv"} /\ arg' = arg
           \/ Expired /\ pc'["at_process"] = "retry" /\ arg' = arg
           \/ Expired /\ pc'["at_process"] = "at_send" /\ CurrentRty = 0
              /\ arg'["shell"] = arg["shell"] /\ arg'["at_process"] = AT_REST
    BY <1>0, <1>2, <2>0 DEF Dispatch, At, timerVars, Expired, IType, TypeOK
  <2>2. /\ Expired' => Expired
        /\ ToSend' <=> ToSend
        /\ Beginning' <=> Beginning
        /\ Quiet' <=> Quiet
    BY <2>1 DEF Expired, ToSend, Beginning, Quiet, Resending, InATSend
  <2>3. Active' => Active
    BY <2>1, <2>2 DEF Active
  <2>4. AT_TNOCMD \notin {arg'["at_process"], arg'["shell"]}
    BY <1>0, <2>1 DEF CountsInv
  <2>5. pc'["at_process"] \notin Resending
    BY <2>1 DEF Resending
  <2>6. CountInv' /\ OneTransmission'
    BY <1>0, <2>1, <2>2, <2>3 DEF CountInv, Reloaded, OneTransmission
  <2>7. /\ First' <=> First
        /\ Again' <=> Again
        /\ Sent' <=> Sent
        /\ Untouched => Untouched'
    BY <2>1, <2>2 DEF First, Again, Sent, Untouched, cmdVars
  <2>. QED
    BY <1>0, <2>1, <2>2, <2>4, <2>5, <2>6, <2>7 DEF TriesInv, CountsInv
<1>3. CASE Acknowledge
  <2>1. /\ SameCounts /\ at_timeout_cnt' = 0
        /\ EventSend("ACK", "at_process", "recv") /\ pc["at_process"] = "matched"
    BY <1>3 DEF Acknowledge, At, SameCounts
  <2>2. /\ pc'["at_send"] = pc["at_send"] /\ pc'["at_process"] = "recv"
        /\ \/ pc'["shell"] = pc["shell"]
           \/ pc["shell"] = "wait" /\ pc'["shell"] = "acked"
        /\ "SEND" \in rx1_event' <=> "SEND" \in rx1_event
        /\ "TIMEOUT" \in rx1_event' <=> "TIMEOUT" \in rx1_event
    BY <2>1 DEF EventSend, WokenBy, Resume, Interest
  <2>3. /\ ~Expired' /\ ~Expired
        /\ ToSend' <=> ToSend
        /\ Beginning' <=> Beginning
        /\ Quiet' <=> Quiet
    BY <2>1, <2>2 DEF Expired, ToSend, Beginning, Quiet, Resending, InATSend
  <2>. QED
    BY <1>0, <2>1, <2>2, <2>3
       DEF TriesInv, CountInv, Reloaded, OneTransmission, CountsInv, First, Again, Sent,
           Untouched, SameCounts, cmdVars, Resending, InATSend
<1>4. ASSUME pc["at_process"] \in {"retry"} \cup Resending
      PROVE  /\ Expired /\ ~ToSend /\ "TIMEOUT" \notin rx1_event
             /\ pc["shell"] \notin InATSend /\ pc["shell"] # "idle" /\ Reloaded
  <2>1. Expired
    BY <1>4 DEF Expired
  <2>. QED
    BY <1>0, <2>1 DEF CountInv, Active, OneTransmission, CountsInv, Untouched
<1>5. CASE \/ Retry \/ TimerStop("at_process", "retry_stop", "retry_insert")
           \/ TimerInsert("at_process", "retry_insert", "retry_send")
  <2>1. /\ pc["at_process"] \in {"retry"} \cup Resending
        /\ pc'["shell"] = pc["shell"] /\ pc'["at_send"] = pc["at_send"]
        /\ pc'["at_process"] \in Resending
        /\ UNCHANGED <<rx1_event, e, arg, tries, busy>>
        /\ at_timeout_cnt' = at_timeout_cnt \/ at_timeout_cnt' = TimeoutCnt
    BY <1>0, <1>5 DEF Retry, TimerStop, TimerInsert, At, Resending, cmdVars, timerVars,
                 histVars
  <2>2. Again'
    <3>1. CASE Retry
      <4>1. Sent
        BY <1>0, <1>4, <2>1, <3>1
           DEF CountsInv, Quiet, Beginning, Untouched, InATSend, Resending, Retry, At
      <4>. QED  BY <1>0, <2>1, <3>1, <4>1 DEF Retry, Sent, Again
    <3>2. CASE \/ TimerStop("at_process", "retry_stop", "retry_insert")
               \/ TimerInsert("at_process", "retry_insert", "retry_send")
      BY <1>0, <2>1, <3>2 DEF TimerStop, TimerInsert, At, Resending, cmdVars, histVars,
                 CountsInv, Again
    <3>. QED  BY <1>5, <3>1, <3>2
  <2>3. Reloaded'
    BY <1>0, <1>4, <2>1 DEF Reloaded
  <2>4. /\ Expired' /\ ~ToSend' /\ ~Beginning' /\ ~Quiet'
        /\ pc'["at_process"] # "at_send"
    BY <1>4, <2>1 DEF Expired, ToSend, Beginning, Quiet, Resending, InATSend
  <2>. QED
    BY <1>0, <1>4, <2>1, <2>2, <2>3, <2>4
       DEF TriesInv, CountInv, OneTransmission, CountsInv, ToSend
<1>6. CASE RetrySend
  <2>1. /\ SameCounts /\ UNCHANGED <<at_timeout_cnt, busy>>
        /\ EventSend("SEND", "at_process", "recv") /\ pc["at_process"] = "retry_send"
    BY <1>6 DEF RetrySend, At, SameCounts, timerVars, histVars
  <2>2. /\ ~ToSend /\ "TIMEOUT" \notin rx1_event /\ Reloaded /\ Again
        /\ pc["shell"] \notin InATSend /\ pc["shell"] # "idle"
    BY <1>0, <1>4, <2>1 DEF Resending, CountsInv
  <2>3. "SEND" \notin Interest["shell"] /\ "SEND" \notin Interest["at_process"]
        /\ Resume["at_send"] = "prepare" /\ "SEND" \in Interest["at_send"]
    BY DEF Interest, Resume
  <2>4. /\ pc'["shell"] = pc["shell"] /\ pc'["at_process"] = "recv"
        /\ "TIMEOUT" \notin rx1_event'
    BY <2>1, <2>2, <2>3 DEF EventSend, WokenBy
  <2>5. /\ "SEND" \in rx1_event' \/ pc'["at_send"] = "prepare"
        /\ ~("SEND" \in rx1_event' /\ pc'["at_send"] = "prepare")
        /\ pc'["at_send"] # "transmit"
    <3>1. "SEND" \notin rx1_event /\ pc["at_send"] \notin {"prepare", "transmit"}
      BY <2>2 DEF ToSend
    <3>5. CASE pc["at_send"] = "wait"
      <4>1. "at_send" \in WokenBy("SEND")
        BY <2>3, <3>5 DEF WokenBy
      <4>. QED  BY <2>1, <2>3, <3>1, <4>1 DEF EventSend
    <3>6. CASE pc["at_send"] # "wait"
      <4>1. WokenBy("SEND") = {}
        BY <3>6 DEF WokenBy, Interest
      <4>. QED  BY <2>1, <3>1, <4>1 DEF EventSend
    <3>. QED  BY <3>5, <3>6
  <2>6. ToSend' /\ ~Expired' /\ ~Beginning'
        /\ pc'["at_process"] \notin Resending \cup {"at_send"}
    BY <2>2, <2>4, <2>5 DEF ToSend, Expired, Beginning, Resending, InATSend
  <2>7. Again' /\ Reloaded'
    BY <2>1, <2>2 DEF Again, Reloaded, SameCounts, cmdVars
  <2>. QED
    BY <1>0, <2>1, <2>2, <2>4, <2>5, <2>6, <2>7
       DEF TriesInv, CountInv, CountsInv, OneTransmission, Quiet, SameCounts
<1>7. CASE ATSend("at_process")
  BY <1>7, TriesATSend
<1>. QED  BY <1>1, <1>2, <1>3, <1>5, <1>6, <1>7 DEF AtProcess

LEMMA TriesComtest == IType /\ WakeInv /\ TriesInv /\ (Comtest \/ ComtestStart) => TriesInv'
<1> SUFFICES ASSUME IType, WakeInv, TriesInv, Comtest \/ ComtestStart PROVE TriesInv'
  OBVIOUS
<1> USE DEF Goto
<1>0. /\ CountInv /\ OneTransmission /\ CountsInv
      /\ DOMAIN pc = Threads /\ arg \in [{"at_process", "shell"} -> teATCmdNum]
      /\ kk \in FirstCmd..LastCmd /\ LastCmd \in 0..8 /\ FirstCmd \in 0..8
  BY CmdAssumption DEF TriesInv, IType, TypeOK
<1>1. CASE EventRecv("shell") \/ ComtestAcked
  <2>1. /\ UNCHANGED <<cmdVars, CurrentRty, tries, at_timeout_cnt, busy, e>>
        /\ At("shell", pc["shell"]) /\ pc["shell"] \in {"recv", "acked"}
        /\ pc'["at_process"] = pc["at_process"] /\ pc'["at_send"] = pc["at_send"]
        /\ pc'["shell"] \in {"wait", "acked", "at_send", "done"}
        /\ "SEND" \in rx1_event' <=> "SEND" \in rx1_event
        /\ "TIMEOUT" \in rx1_event' <=> "TIMEOUT" \in rx1_event
    BY <1>0, <1>1 DEF EventRecv, ComtestAcked, At, Resume, Interest, timerVars, histVars
  <2>2. AT_TNOCMD \notin {arg'["at_process"], arg'["shell"]}
    BY <1>0, <1>1 DEF EventRecv, ComtestAcked, CountsInv
  <2>3. Active /\ Reloaded
    BY <1>0, <2>1 DEF CountInv, Active
  <2>4. /\ pc["at_process"] = "wait" /\ ~Expired /\ ~ToSend
        /\ "TIMEOUT" \notin rx1_event
    BY <2>1, ShellRunsAlone
  <2>5. /\ ~Expired' /\ ~ToSend' /\ ~Beginning /\ ~Beginning'
        /\ pc'["at_process"] \notin Resending \cup {"at_send"}
    BY <2>1, <2>4 DEF Expired, ToSend, Beginning, Resending, InATSend
  <2>6. Sent /\ Sent'
    BY <1>0, <2>1, <2>4, <2>5 DEF CountsInv, Quiet, Untouched, Sent, Resending
  <2>. QED
    BY <1>0, <2>1, <2>2, <2>3, <2>4, <2>5, <2>6
       DEF TriesInv, CountInv, Reloaded, OneTransmission, CountsInv, ToSend
<1>2. CASE ATSend("shell")
  BY <1>2, TriesATSend
<1>3. CASE ComtestStart
  <2>1. /\ UNCHANGED <<cmdVars, CurrentRty, tries, at_timeout_cnt, e, rx1_event>>
        /\ pc["shell"] = "idle" /\ pc'["shell"] = "at_send"
        /\ pc'["at_process"] = pc["at_process"] /\ pc'["at_send"] = pc["at_send"]
    BY <1>0, <1>3 DEF ComtestStart, timerVars, histVars
  <2>2. AT_TNOCMD \notin {arg'["at_process"], arg'["shell"]}
    BY <1>0, <1>3 DEF ComtestStart, CountsInv
  <2>3. Untouched
    BY <1>0, <2>1 DEF CountsInv
  <2>4. /\ ~Expired' /\ ~ToSend' /\ ~Beginning /\ ~Beginning'
        /\ pc'["at_process"] \notin Resending \cup {"at_send"}
        /\ pc["at_process"] \notin Resending
    BY <2>1, <2>3 DEF Expired, ToSend, Beginning, Resending, InATSend, Untouched
  <2>5. Untouched' /\ Reloaded'
    BY <2>1, <2>3, <2>4 DEF Untouched, Reloaded
  <2>6. Sent' \/ (tries' = 0 /\ Untouched')
    BY <1>0, <2>1, <2>3, <2>4, <2>5 DEF CountsInv, Quiet, Untouched, Sent
  <2>. QED
    BY <1>0, <2>1, <2>2, <2>4, <2>5, <2>6
       DEF TriesInv, CountInv, OneTransmission, CountsInv, ToSend, Untouched
<1>. QED  BY <1>1, <1>2, <1>3 DEF Comtest

LEMMA TriesStutter == TriesInv /\ UNCHANGED vars => TriesInv'
<1> SUFFICES ASSUME TriesInv, UNCHANGED vars PROVE TriesInv'
  OBVIOUS
<1>. QED
  BY KeepsTries DEF vars, SamePlaces, SameCounts, timerVars, histVars

LEMMA TriesCorrect == Spec => []TriesInv
<1>1. Init => TriesInv
  BY DEF Init, TriesInv, CountInv, OneTransmission, CountsInv, Active, Reloaded, Expired,
         ToSend, Beginning, Quiet, Untouched, Resending, InATSend
<1>2. IType /\ WakeInv /\ TriesInv /\ [Next]_vars => TriesInv'
  BY TriesSerial, TriesAtProcess, TriesAtSendThread, TriesComtest, TriesTimeout,
     TriesModule, TriesStutter DEF Next, Cpu
<1>. QED  BY <1>1, <1>2, ITypeCorrect, WakeCorrect, PTL DEF Spec

(* A command is transmitted once, and again at most RtyNum times, before      *)
(* at_process gives up on it.                                                 *)
THEOREM RetriesBounded == Spec => []RetryBound
<1>1. IType /\ TriesInv => RetryBound
  <2> SUFFICES ASSUME IType, TriesInv PROVE tries <= RtyNum + 1
    BY DEF RetryBound
  <2>1. tries \in Nat /\ CurrentRty \in Nat /\ RtyNum \in Nat
    BY RtyAssumption DEF IType, TypeOK
  <2>. QED
    BY <2>1 DEF TriesInv, CountsInv, Quiet, First, Again, Sent, ToSend
<1>. QED  BY <1>1, ITypeCorrect, TriesCorrect, PTL

(* at_process resets the module only after 1 + RtyNum transmissions.          *)
THEOREM ResetIsLast == Spec => []ResetOnlyAfterRetries
<1>1. IType /\ TriesInv => ResetOnlyAfterRetries
  <2> SUFFICES ASSUME IType, TriesInv, pc["at_process"] = "at_send"
               PROVE  tries = RtyNum + 1
    BY DEF ResetOnlyAfterRetries
  <2>1. tries \in Nat /\ RtyNum \in Nat
    BY RtyAssumption DEF IType, TypeOK
  <2>2. Expired
    BY DEF Expired
  <2>3. ~ToSend /\ pc["shell"] \notin InATSend
    BY <2>2 DEF TriesInv, OneTransmission
  <2>4. Quiet /\ ~Untouched
    BY <2>2, <2>3 DEF Quiet, Beginning, Resending, InATSend, Untouched
  <2>. QED
    BY <2>1, <2>4 DEF TriesInv, CountsInv, Sent
<1>. QED  BY <1>1, ITypeCorrect, TriesCorrect, PTL

-----------------------------------------------------------------------------
(* When the answer is the answer to the command.  Two things make at_process   *)
(* take an answer for the answer to another command: it gives a command up and *)
(* resets the module, and it resends a command that the module still answers   *)
(* or has answered.                                                            *)
NoReset == pc["at_process"] \notin ATSendLabels
NoLateRetry == pc["at_process"] = "retry" => air = {} /\ ~answered

(* Without the two, the module owes one answer at a time, to at_comtest's      *)
(* command: nothing but noise is in the buffers before it, and nothing         *)
(* after its acknowledgement.                                                  *)
Text == ring \cup packet \cup process_buff
Asked == \/ pc["shell"] \in {"idle"} \cup ATSendLabels \/ ToSend
         \/ pc["at_process"] \in {"retry"} \cup Resending
Announced == "ACK" \in rx1_event \/ pc["shell"] = "acked"
SerialInv ==
    /\ packet # {} => pc["serial"] = "copy"
    /\ ring # {} => "REC" \in rx1_event \/ pc["serial"] = "copy"
OwedInv ==
    /\ ~answered => Text \subseteq {Noise}
    /\ answered => air = {}
    /\ air \subseteq {kk}
    /\ Asked => air = {} /\ ~answered
CommandInv ==
    /\ pc["shell"] \in {"at_send", "at_rec"} => arg["shell"] = kk
    /\ pc["shell"] \notin {"idle", "at_send"} => ATCurrentCmdNum = kk
    /\ pc["shell"] = "at_send" => "TIMEOUT" \notin rx1_event /\ ~Expired /\ ~ToSend
AnnounceInv ==
    /\ pc["at_process"] = "matched" => answered
    /\ Announced => answered /\ Text \subseteq {Noise} /\ pc["at_process"] # "matched"
    /\ ~("ACK" \in rx1_event /\ pc["shell"] = "acked")
AnswerInv == SerialInv /\ OwedInv /\ CommandInv /\ AnnounceInv

LEMMA SerialStep ==
    ASSUME IType, WakeInv, SerialInv, [Next]_vars
    PROVE  SerialInv'
<1> USE DEF SerialInv, bufVars
<1>1. CASE Serial
  <2>1. CASE EventRecv("serial")
    BY <2>1 DEF EventRecv, At, Goto, Resume, Interest, IType, TypeOK
  <2>2. CASE SerialCopy
    BY <2>2 DEF SerialCopy, At
  <2>3. CASE SerialNotify
    BY <2>3 DEF SerialNotify
  <2>. QED  BY <1>1, <2>1, <2>2, <2>3 DEF Serial
<1>2. ASSUME UNCHANGED <<ring, packet>>, pc'["serial"] = pc["serial"],
             "REC" \in rx1_event => "REC" \in rx1_event'
      PROVE  SerialInv'
  BY <1>2
<1>3. CASE AtProcess \/ AtSendThread \/ Comtest \/ ComtestStart
  <2>1. UNCHANGED <<ring, packet>>
    BY <1>3, Zenon
       DEF AtProcess, AtSendThread, Comtest, ComtestStart, EventRecv, Dispatch, Acknowledge,
           Retry, TimerStop, TimerInsert, RetrySend, ATSend, ATSendCur, ATSendRec,
           ATSendCnt, ATSendEvent, ATSendExit, Prepare, Transmit, TransmitExit, ComtestAcked
  <2>2. pc'["serial"] = pc["serial"] /\ ("REC" \in rx1_event => "REC" \in rx1_event')
    <3>1. CASE \E t \in {"at_process", "at_send", "shell"} : EventRecv(t)
      BY <3>1 DEF EventRecv, Goto, Interest, IType, TypeOK
    <3>2. CASE \E bit \in {"ACK", "SEND"}, t \in {"at_process", "shell"}, label \in {"recv", "at_exit"} :
                  EventSend(bit, t, label)
      BY <3>2 DEF EventSend, WokenBy, Interest
    <3>3. CASE rx1_event' = rx1_event /\ \E t \in {"at_process", "at_send", "shell"} :
                  \E label : Goto(t, label)
      BY <3>3 DEF Goto, IType, TypeOK
    <3>. QED
      BY <1>3, <3>1, <3>2, <3>3
         DEF AtProcess, AtSendThread, Comtest, ComtestStart, Dispatch, Acknowledge, Retry,
             TimerStop, TimerInsert, RetrySend, ATSend, ATSendCur, ATSendRec, ATSendCnt,
             ATSendEvent, ATSendExit, Prepare, Transmit, TransmitExit, ComtestAcked
  <2>. QED  BY <1>2, <2>1, <2>2
<1>4. CASE Timeout2
  <2>1. /\ UNCHANGED <<ring, packet>>
        /\ EventSend("TIMEOUT", "isr", "") \/ UNCHANGED <<rx1_event, pc>>
    BY <1>4, Zenon DEF Timeout2
  <2>. QED  BY <1>2, <2>1 DEF EventSend, WokenBy, Interest
<1>5. CASE Module
  <2>1. CASE IsrSend("REC") /\ packet' = packet
    BY <2>1 DEF IsrSend, WokenBy, Interest, Resume, IType, TypeOK, Labels
  <2>2. CASE UNCHANGED <<ring, packet, rx1_event, pc>>
    BY <1>2, <2>2
  <2>3. \/ IsrSend("REC") /\ packet' = packet
        \/ UNCHANGED <<ring, packet, rx1_event, pc>>
    BY <1>5, IsrSends, Zenon DEF Module, Chatter, Reply, Mute, IdleInterrupt
  <2>. QED  BY <2>1, <2>2, <2>3
<1>6. CASE UNCHANGED vars
  BY <1>2, <1>6 DEF vars
<1>. QED  BY <1>1, <1>3, <1>4, <1>5, <1>6 DEF Next, Cpu

(* A step that at most loses an answer or text, or brings noise.              *)
Calm ==
    /\ SamePlaces
    /\ "ACK" \in rx1_event' <=> "ACK" \in rx1_event
    /\ pc'["at_process"] = "matched" => pc["at_process"] = "matched"
    /\ Text' \subseteq Text \cup {Noise} /\ air' \subseteq air
    /\ UNCHANGED <<ATCurrentCmdNum, arg, kk, answered>>

LEMMA SameAsked == ASSUME SamePlaces PROVE Asked' <=> Asked
<1>1. pc'["at_process"] = "retry" <=> pc["at_process"] = "retry"
  BY DEF SamePlaces
<1>. QED  BY <1>1, SamePlacesSame DEF Asked, SamePlaces

LEMMA CalmKeeps ==
    ASSUME AnswerInv, Calm, SerialInv'
    PROVE  AnswerInv'
<1>1. pc'["shell"] = pc["shell"] /\ ("TIMEOUT" \in rx1_event' <=> "TIMEOUT" \in rx1_event)
  BY DEF Calm, SamePlaces
<1>2. /\ Asked' <=> Asked
      /\ Announced' <=> Announced
      /\ Expired' <=> Expired
      /\ ToSend' <=> ToSend
  BY <1>1, SameAsked, SamePlacesSame DEF Calm, Announced
<1>3. OwedInv'
  BY <1>2 DEF Calm, AnswerInv, OwedInv
<1>4. CommandInv'
  BY <1>1, <1>2 DEF Calm, AnswerInv, CommandInv
<1>5. AnnounceInv'
  BY <1>1, <1>2 DEF Calm, AnswerInv, AnnounceInv
<1>. QED  BY <1>3, <1>4, <1>5 DEF AnswerInv

LEMMA AnswerSerial ==
    ASSUME IType, AnswerInv, SerialInv', Serial
    PROVE  AnswerInv'
<1>1. SamePlaces /\ ("ACK" \in rx1_event' <=> "ACK" \in rx1_event)
      /\ (pc'["at_process"] = "matched" => pc["at_process"] = "matched")
  <2>1. CASE EventRecv("serial")
    BY <2>1 DEF EventRecv, SamePlaces, Interest, Goto, IType, TypeOK
  <2>2. CASE SerialCopy
    BY <2>2 DEF SerialCopy, SamePlaces
  <2>3. CASE SerialNotify
    <3>1. EventSend("PROCESS", "serial", "recv")
      BY <2>3 DEF SerialNotify
    <3>. QED  BY <3>1 DEF EventSend, WokenBy, Resume, Interest, SamePlaces
  <2>. QED  BY <2>1, <2>2, <2>3 DEF Serial
<1>2. Text' \subseteq Text
  BY DEF Serial, EventRecv, SerialCopy, SerialNotify, Text, bufVars
<1>3. UNCHANGED <<ATCurrentCmdNum, arg, kk, answered, air>>
  BY DEF Serial, EventRecv, SerialCopy, SerialNotify, cmdVars, histVars, devVars
<1>. QED  BY <1>1, <1>2, <1>3, CalmKeeps DEF Calm

LEMMA AnswerModule ==
    ASSUME IType, AnswerInv, SerialInv', Module
    PROVE  AnswerInv'
<1>1. IsrSend("REC") \/ UNCHANGED <<rx1_event, pc, e>>
  BY IsrSends, Zenon DEF Module, Chatter, Reply, Mute, IdleInterrupt
<1>2. SamePlaces /\ ("ACK" \in rx1_event' <=> "ACK" \in rx1_event)
      /\ pc'["shell"] = pc["shell"]
      /\ (pc'["at_process"] = "matched" => pc["at_process"] = "matched")
  BY <1>1 DEF IsrSend, WokenBy, Resume, Interest, SamePlaces
<1>3. UNCHANGED <<ATCurrentCmdNum, arg, kk>>
  BY Zenon DEF Module, Chatter, Reply, Mute, IdleInterrupt, cmdVars
<1>4. CASE Chatter \/ \E c \in teATCmdNum : Mute(c)
  <2>1. Text' \subseteq Text \cup {Noise} /\ air' \subseteq air /\ answered' = answered
    <3>1. /\ ring' \in {ring, ring \cup {Noise}} /\ UNCHANGED <<packet, process_buff, answered>>
          /\ air' = air \/ \E c \in teATCmdNum : air' = air \ {c}
      BY <1>4, Zenon DEF Chatter, Mute, IdleInterrupt, bufVars, histVars
    <3>. QED  BY <3>1 DEF Text
  <2>. QED  BY <1>2, <1>3, <2>1, CalmKeeps DEF Calm
<1>5. ASSUME NEW c \in teATCmdNum, Reply(c) PROVE AnswerInv'
  <2>1. c \in air /\ air' = air \ {c} /\ answered' = (answered \/ c = kk)
    BY <1>5 DEF Reply
  <2>2. c = kk /\ ~answered /\ ~Asked /\ ~Announced /\ pc["at_process"] # "matched"
    BY <2>1 DEF AnswerInv, OwedInv, AnnounceInv
  <2>3. air' = {} /\ answered'
    BY <2>1, <2>2 DEF AnswerInv, OwedInv
  <2>4. /\ ~Asked' /\ ~Announced'
        /\ Expired' <=> Expired
        /\ ToSend' <=> ToSend
    BY <1>2, <2>2, SameAsked, SamePlacesSame DEF Announced
  <2>5. OwedInv'
    BY <2>3, <2>4 DEF OwedInv
  <2>6. CommandInv'
    BY <1>2, <1>3, <2>4 DEF AnswerInv, CommandInv, SamePlaces
  <2>7. AnnounceInv'
    BY <1>2, <2>2, <2>3, <2>4 DEF AnnounceInv, Announced
  <2>. QED  BY <2>5, <2>6, <2>7 DEF AnswerInv
<1>. QED  BY <1>4, <1>5 DEF Module

LEMMA AnswerTimeout ==
    ASSUME IType, WakeInv, TriesInv, AnswerInv, SerialInv', Timeout2
    PROVE  AnswerInv'
<1>1. /\ UNCHANGED <<ATCurrentCmdNum, arg, kk, answered, air, ring, packet, process_buff>>
      /\ at_timeout_cnt > 0
      /\ ~CpuIdle => busy < BusyTicks
      /\ \/ at_timeout_cnt = 1 /\ IsrSend("TIMEOUT")
         \/ at_timeout_cnt # 1 /\ UNCHANGED <<rx1_event, pc, e>>
  BY IsrSends, Zenon DEF Timeout2, cmdVars, bufVars, devVars, histVars
<1>2. Text' = Text
  BY <1>1 DEF Text
<1>3. CASE UNCHANGED <<rx1_event, pc, e>>
  BY <1>1, <1>2, <1>3, CalmKeeps DEF Calm, SamePlaces
<1>4. CASE at_timeout_cnt = 1 /\ IsrSend("TIMEOUT")
  <2>0. /\ at_timeout_cnt \in Nat /\ TimeoutCnt \in Nat /\ BusyTicks \in Nat
        /\ BusyTicks < TimeoutCnt /\ busy \in Nat
    BY TimeAssumption DEF IType, TypeOK
  <2>1. ~Active
    BY <1>1, <1>4, <2>0, IdleIsInactive DEF TriesInv, CountInv, Reloaded
  <2>2. /\ pc["shell"] \in {"wait", "idle", "done"} /\ ~ToSend
        /\ pc["at_process"] \notin {"retry"} \cup Resending
    BY <2>1 DEF Active, Expired
  <2>3. "TIMEOUT" \notin Interest["shell"] /\ "TIMEOUT" \notin Interest["at_send"]
    BY DEF Interest
  <2>4. /\ pc'["shell"] = pc["shell"] /\ pc'["at_send"] = pc["at_send"]
        /\ pc'["at_process"] \in {pc["at_process"], "dispatch"}
        /\ "SEND" \in rx1_event' <=> "SEND" \in rx1_event
        /\ "ACK" \in rx1_event' <=> "ACK" \in rx1_event
    BY <1>4, <2>3 DEF IsrSend, WokenBy, Resume
  <2>5. /\ Asked' => Asked
        /\ Announced' <=> Announced
    BY <2>2, <2>4 DEF Asked, Announced, ToSend, Resending
  <2>6. OwedInv'
    BY <1>1, <1>2, <2>5 DEF AnswerInv, OwedInv
  <2>7. CommandInv'
    BY <1>1, <2>2, <2>4 DEF AnswerInv, CommandInv
  <2>8. AnnounceInv'
    BY <1>1, <1>2, <2>4, <2>5 DEF AnswerInv, AnnounceInv
  <2>. QED  BY <2>6, <2>7, <2>8 DEF AnswerInv
<1>. QED  BY <1>1, <1>3, <1>4

LEMMA MatchedIsAnswer == AnswerInv /\ Matches => answered /\ ~Announced
<1> SUFFICES ASSUME AnswerInv, Matches PROVE answered /\ ~Announced
  OBVIOUS
<1>1. PICK p \in process_buff : ATRecStr[ATRecCmdNum] \in KeywordsIn(p)
  BY DEF Matches
<1>2. p # Noise
  <2>1. ASSUME NEW k PROVE k \notin KeywordsIn(Noise)
    BY DEF KeywordsIn, Noise
  <2>. QED  BY <1>1, <2>1, Zenon
<1>. QED  BY <1>1, <1>2 DEF AnswerInv, OwedInv, AnnounceInv, Text

LEMMA AnswerAtProcess ==
    ASSUME IType, WakeInv, TriesInv, FreshInv, NoReset, NoReset', NoLateRetry',
           AnswerInv, SerialInv', AtProcess
    PROVE  AnswerInv'
<1>0. DOMAIN pc = Threads
  BY DEF IType, TypeOK
(* A step of at_process that leaves the packets and the answers alone.        *)
<1>1. ASSUME UNCHANGED <<ATCurrentCmdNum, arg, kk, answered, air, ring, packet, process_buff>>,
             pc'["shell"] = pc["shell"], ToSend' => Asked,
             pc["shell"] = "at_send" /\ ToSend' => ToSend,
             "ACK" \in rx1_event' <=> "ACK" \in rx1_event,
             pc'["at_process"] = "matched" => Matches,
             pc'["at_process"] \in Resending => Asked,
             pc["shell"] = "at_send" => "TIMEOUT" \notin rx1_event' /\ ~Expired'
      PROVE  AnswerInv'
  <2>1. Text' = Text /\ (Announced' <=> Announced)
    BY <1>1 DEF Text, Announced
  <2>2. Asked' => air = {} /\ ~answered
    BY <1>1 DEF Asked, NoLateRetry, AnswerInv, OwedInv
  <2>3. OwedInv'
    BY <1>1, <2>1, <2>2 DEF AnswerInv, OwedInv
  <2>4. CommandInv'
    BY <1>1 DEF AnswerInv, CommandInv
  <2>5. AnnounceInv'
    BY <1>1, <2>1, MatchedIsAnswer DEF AnswerInv, AnnounceInv
  <2>. QED  BY <2>3, <2>4, <2>5 DEF AnswerInv
<1>2. CASE EventRecv("at_process")
  <2>1. /\ UNCHANGED <<ATCurrentCmdNum, arg, kk, answered, air, ring, packet, process_buff>>
        /\ pc'["shell"] = pc["shell"] /\ pc'["at_send"] = pc["at_send"]
        /\ pc'["at_process"] \in {"wait", "dispatch"}
        /\ "SEND" \in rx1_event' <=> "SEND" \in rx1_event
        /\ "ACK" \in rx1_event' <=> "ACK" \in rx1_event
        /\ "TIMEOUT" \notin rx1_event'
        /\ pc'["at_process"] = "dispatch" /\ "TIMEOUT" \in e' => "TIMEOUT" \in rx1_event
    BY <1>0, <1>2 DEF EventRecv, Goto, Resume, Interest, cmdVars, bufVars, devVars, histVars
  <2>2. ToSend' => ToSend
    BY <2>1 DEF ToSend
  <2>3. pc["shell"] = "at_send" => ~Expired'
    BY <2>1 DEF AnswerInv, CommandInv, Expired, Resending, InATSend
  <2>. QED  BY <1>1, <2>1, <2>2, <2>3 DEF Asked, Resending
<1>3. CASE Dispatch
  <2>1. /\ UNCHANGED <<ATCurrentCmdNum, kk, answered, air, ring, packet, process_buff,
                       rx1_event, e>>
        /\ pc'["shell"] = pc["shell"] /\ pc'["at_send"] = pc["at_send"]
        /\ \/ pc'["at_process"] = "matched" /\ Matches /\ arg' = arg
           \/ pc'["at_process"] = "recv" /\ arg' = arg
           \/ pc'["at_process"] = "retry" /\ arg' = arg /\ "PROCESS" \notin e
           \/ pc'["at_process"] = "at_send"
    BY <1>0, <1>3 DEF Dispatch, Goto, cmdVars, bufVars, devVars
  <2>2. pc'["at_process"] # "at_send"
    BY DEF NoReset, ATSendLabels
  <2>3. ToSend' => ToSend
    BY <2>1 DEF ToSend
  <2>4. Expired' => Expired
    <3>1. pc["at_process"] = "dispatch" /\ ("PROCESS" \notin e => "TIMEOUT" \in e)
      BY <1>3 DEF Dispatch, At, WakeInv, IType, TypeOK, Interest
    <3>. QED  BY <2>1, <2>2, <3>1 DEF Expired, Resending, InATSend
  <2>5. pc["shell"] = "at_send" => "TIMEOUT" \notin rx1_event' /\ ~Expired'
    BY <2>1, <2>4 DEF AnswerInv, CommandInv
  <2>. QED  BY <1>1, <2>1, <2>2, <2>3, <2>5 DEF Asked, Resending
<1>4. CASE Acknowledge
  <2>1. /\ UNCHANGED <<ATCurrentCmdNum, kk, arg, answered, air, ring, packet>>
        /\ process_buff' = IF ATCurrentCmdNum \in ClearingCmds THEN {} ELSE process_buff
        /\ pc["at_process"] = "matched" /\ Running("at_process")
        /\ EventSend("ACK", "at_process", "recv")
    BY <1>4 DEF Acknowledge, At, cmdVars, devVars
  <2>2. pc["serial"] = "wait"
    <3>1. lock = "none"
      BY <2>1 DEF Running, IType, LockInv
    <3>2. Blocked("serial")
      BY <2>1, <3>1 DEF Running, Priority
    <3>. QED  BY <3>2 DEF Blocked, IType, TypeOK, Labels
  <2>3. ring = {} /\ packet = {}
    BY <2>2 DEF AnswerInv, SerialInv, WakeInv, NoLostWakeup, Interest
  <2>4. Text' = {}
    BY <2>1, <2>3 DEF FreshInv, Text
  <2>5. answered /\ ~Announced /\ ~Asked
    BY <2>1 DEF AnswerInv, AnnounceInv, OwedInv
  <2>6. /\ pc'["at_send"] = pc["at_send"] /\ pc'["at_process"] = "recv"
        /\ "SEND" \in rx1_event' <=> "SEND" \in rx1_event
        /\ \/ pc'["shell"] = pc["shell"]
           \/ pc["shell"] = "wait" /\ pc'["shell"] = "acked" /\ "ACK" \notin rx1_event'
    BY <2>1, <2>5 DEF EventSend, WokenBy, Resume, Interest, Announced
  <2>7. ~Asked'
    BY <2>5, <2>6 DEF Asked, ToSend, ATSendLabels, Resending
  <2>8. OwedInv'
    BY <2>1, <2>4, <2>7 DEF AnswerInv, OwedInv
  <2>9. CommandInv'
    <3>1. pc["shell"] \notin {"idle", "at_send", "at_rec"}
      BY <2>5 DEF Asked, ATSendLabels
    <3>. QED  BY <2>1, <2>6, <3>1 DEF AnswerInv, CommandInv
  <2>10. AnnounceInv'
    BY <2>1, <2>4, <2>5, <2>6 DEF AnnounceInv, Announced
  <2>. QED  BY <2>8, <2>9, <2>10 DEF AnswerInv
<1>5. CASE \/ Retry \/ TimerStop("at_process", "retry_stop", "retry_insert")
           \/ TimerInsert("at_process", "retry_insert", "retry_send") \/ RetrySend
  <2>1. /\ UNCHANGED <<ATCurrentCmdNum, arg, kk, answered, air, ring, packet, process_buff>>
        /\ pc["at_process"] \in {"retry"} \cup Resending
    BY <1>5, Zenon DEF Retry, TimerStop, TimerInsert, RetrySend, At, Resending, cmdVars, bufVars,
                devVars, histVars
  <2>2. Asked /\ Expired
    BY <2>1 DEF Asked, Expired
  <2>3. pc["shell"] # "at_send"
    BY <2>2 DEF AnswerInv, CommandInv
  <2>4. /\ pc'["shell"] = pc["shell"] /\ pc'["at_process"] # "matched"
        /\ "ACK" \in rx1_event' <=> "ACK" \in rx1_event
    <3>1. CASE RetrySend
      BY <3>1 DEF RetrySend, EventSend, WokenBy, Interest
    <3>. QED  BY <1>0, <1>5, <3>1 DEF Retry, TimerStop, TimerInsert, Goto
  <2>. QED  BY <1>1, <2>1, <2>2, <2>3, <2>4
<1>6. CASE ATSend("at_process")
  BY <1>6 DEF NoReset, ATSend, ATSendCur, ATSendRec, ATSendCnt, TimerStop, TimerInsert,
              ATSendEvent, ATSendExit, At, ATSendLabels
<1>. QED  BY <1>2, <1>3, <1>4, <1>5, <1>6 DEF AtProcess

LEMMA AnswerAtSendThread ==
    ASSUME IType, WakeInv, TriesInv, AnswerInv, SerialInv', AtSendThread
    PROVE  AnswerInv'
<1>0. DOMAIN pc = Threads
  BY DEF IType, TypeOK
<1>1. /\ pc'["shell"] = pc["shell"] /\ pc'["at_process"] = pc["at_process"]
      /\ UNCHANGED <<ATCurrentCmdNum, arg, kk, answered, ring, packet, process_buff, e>>
      /\ "TIMEOUT" \in rx1_event' <=> "TIMEOUT" \in rx1_event
      /\ "ACK" \in rx1_event' <=> "ACK" \in rx1_event
  BY <1>0 DEF AtSendThread, EventRecv, Prepare, Transmit, TransmitExit, Goto, Interest,
              cmdVars, bufVars, histVars
<1>2. ToSend' => ToSend
  BY <1>0 DEF AtSendThread, EventRecv, Prepare, Transmit, TransmitExit, Goto, Resume,
              Interest, ToSend, At
<1>3. /\ Text' = Text
      /\ Announced' <=> Announced
      /\ Expired' <=> Expired
      /\ Asked' => Asked
  BY <1>1, <1>2 DEF Text, Announced, Expired, Asked, Resending, InATSend
<1>4. CommandInv'
  BY <1>1, <1>2, <1>3 DEF AnswerInv, CommandInv
<1>5. AnnounceInv'
  BY <1>1, <1>3 DEF AnswerInv, AnnounceInv
<1>6. CASE EventRecv("at_send") \/ Prepare \/ TransmitExit
  <2>1. air' = air
    BY <1>6 DEF EventRecv, Prepare, TransmitExit, devVars
  <2>2. OwedInv'
    BY <1>1, <1>3, <2>1 DEF AnswerInv, OwedInv
  <2>. QED  BY <1>4, <1>5, <2>2 DEF AnswerInv
<1>7. CASE Transmit
  <2>1. /\ pc["at_send"] = "transmit" /\ pc'["at_send"] = "exit"
        /\ air' = air \cup {ATCurrentCmdNum} /\ rx1_event' = rx1_event
        /\ At("at_send", "transmit")
    BY <1>0, <1>7 DEF Transmit, At, Goto
  <2>2. pc["at_process"] = "wait" /\ lock = "none"
    BY <2>1, SendRuns DEF IType
  <2>3. ToSend
    BY <2>1 DEF ToSend
  <2>4. pc["shell"] \notin {"idle"} \cup ATSendLabels
    <3>1. pc["shell"] \notin InATSend \cup {"idle", "at_send"}
      BY <2>3 DEF TriesInv, OneTransmission, CountsInv, Untouched, AnswerInv, CommandInv
    <3>2. pc["shell"] # "at_exit"
      BY <2>2 DEF IType, LockInv
    <3>. QED  BY <3>1, <3>2 DEF InATSend, ATSendLabels
  <2>5. ~ToSend'
    BY <2>1, <2>3 DEF ToSend, TriesInv, OneTransmission
  <2>6. ~Asked'
    BY <1>1, <2>2, <2>4, <2>5 DEF Asked, Resending
  <2>7. air = {} /\ ~answered /\ ATCurrentCmdNum = kk
    BY <2>3, <2>4 DEF Asked, AnswerInv, OwedInv, CommandInv, ATSendLabels
  <2>8. OwedInv'
    BY <1>1, <1>3, <2>1, <2>6, <2>7 DEF AnswerInv, OwedInv
  <2>. QED  BY <1>4, <1>5, <2>8 DEF AnswerInv
<1>. QED  BY <1>6, <1>7 DEF AtSendThread

(* ATSend by at_comtest: nothing is owed before it and nothing after it.      *)
LEMMA AnswerATSend ==
    ASSUME IType, WakeInv, TriesInv, AnswerInv, SerialInv', ATSend("shell")
    PROVE  AnswerInv'
<1>0. DOMAIN pc = Threads
  BY DEF IType, TypeOK
<1>1. /\ pc["shell"] \in ATSendLabels
      /\ pc'["shell"] \in (ATSendLabels \ {"at_send"}) \cup {"recv"}
      /\ pc'["at_process"] = pc["at_process"]
      /\ "ACK" \in rx1_event' <=> "ACK" \in rx1_event
  <2>1. CASE ATSendEvent("shell")
    BY <2>1 DEF ATSendEvent, EventSend, WokenBy, Interest, At, ATSendLabels
  <2>. QED
    BY <1>0, <2>1 DEF ATSend, ATSendCur, ATSendRec, ATSendCnt, TimerStop, TimerInsert,
                      ATSendExit, Goto, At, ATSendLabels
<1>2. UNCHANGED <<arg, kk, answered, air, ring, packet, process_buff>>
  BY Zenon DEF ATSend, ATSendCur, ATSendRec, ATSendCnt, TimerStop, TimerInsert,
               ATSendEvent, ATSendExit, bufVars, devVars, histVars
<1>3. ATCurrentCmdNum' = kk /\ (pc'["shell"] = "at_rec" => arg["shell"] = kk)
  <2>1. CASE ATSendCur("shell")
    BY <2>1 DEF ATSendCur, At, AnswerInv, CommandInv
  <2>2. CASE ~ATSendCur("shell")
    <3>1. ATCurrentCmdNum' = ATCurrentCmdNum /\ pc["shell"] # "at_send"
      BY <2>2 DEF ATSend, ATSendRec, ATSendCnt, TimerStop, TimerInsert, ATSendEvent,
                  ATSendExit, At, cmdVars
    <3>2. pc'["shell"] # "at_rec"
      <4>1. CASE ATSendEvent("shell")
        BY <4>1 DEF ATSendEvent, EventSend
      <4>. QED
        BY <1>0, <2>2, <4>1 DEF ATSend, ATSendRec, ATSendCnt, TimerStop, TimerInsert,
                    ATSendExit, Goto
    <3>. QED  BY <1>1, <3>1, <3>2 DEF AnswerInv, CommandInv, ATSendLabels
  <2>. QED  BY <2>1, <2>2
<1>4. air = {} /\ ~answered
  BY <1>1 DEF Asked, AnswerInv, OwedInv
<1>5. ~Announced /\ pc["at_process"] # "matched"
  BY <1>4 DEF AnswerInv, AnnounceInv
<1>6. ~Announced' /\ Text' = Text
  BY <1>1, <1>2, <1>5 DEF Announced, Text, ATSendLabels
<1>7. OwedInv'
  BY <1>2, <1>4, <1>6 DEF AnswerInv, OwedInv
<1>8. CommandInv'
  BY <1>1, <1>2, <1>3 DEF CommandInv, ATSendLabels
<1>9. AnnounceInv'
  BY <1>1, <1>5, <1>6 DEF AnnounceInv, Announced
<1>. QED  BY <1>7, <1>8, <1>9 DEF AnswerInv

LEMMA AnswerComtest ==
    ASSUME IType, WakeInv, TriesInv, AnswerInv, SerialInv', Comtest \/ ComtestStart
    PROVE  AnswerInv'
<1>0. DOMAIN pc = Threads /\ arg \in [{"at_process", "shell"} -> teATCmdNum]
  BY DEF IType, TypeOK
<1>1. CASE EventRecv("shell")
  <2>1. /\ UNCHANGED <<ATCurrentCmdNum, arg, kk, answered, air, ring, packet, process_buff>>
        /\ pc["shell"] = "recv" /\ pc'["at_process"] = pc["at_process"]
        /\ pc'["at_send"] = pc["at_send"]
        /\ "SEND" \in rx1_event' <=> "SEND" \in rx1_event
        /\ "ACK" \notin rx1_event'
        /\ pc'["shell"] \in {"wait", "acked"}
        /\ pc'["shell"] = "acked" => "ACK" \in rx1_event
    BY <1>0, <1>1 DEF EventRecv, At, Goto, Resume, Interest, cmdVars, bufVars, devVars, histVars
  <2>2. Text' = Text /\ (Asked' => Asked) /\ (Announced' => Announced)
    BY <2>1 DEF Text, Asked, Announced, ToSend, ATSendLabels
  <2>3. OwedInv'
    BY <2>1, <2>2 DEF AnswerInv, OwedInv
  <2>4. CommandInv'
    BY <2>1 DEF AnswerInv, CommandInv
  <2>5. AnnounceInv'
    BY <2>1, <2>2 DEF AnswerInv, AnnounceInv
  <2>. QED  BY <2>3, <2>4, <2>5 DEF AnswerInv
<1>2. CASE ATSend("shell")
  BY <1>2, AnswerATSend
(* at_comtest goes on to its next command, or begins, or has done.            *)
<1>3. ASSUME UNCHANGED <<ATCurrentCmdNum, air, ring, packet, process_buff, rx1_event, e>>,
             pc'["at_process"] = pc["at_process"], pc'["at_send"] = pc["at_send"],
             pc'["shell"] \in {"at_send", "done"},
             pc'["shell"] = "at_send" => arg'["shell"] = kk',
             pc'["shell"] = "done" => ATCurrentCmdNum = kk',
             air = {}, ~answered', Text \subseteq {Noise}, "ACK" \notin rx1_event,
             pc["at_process"] # "matched", "TIMEOUT" \notin rx1_event, ~Expired, ~ToSend
      PROVE  AnswerInv'
  <2>1. ~Expired' /\ ~ToSend' /\ ~Announced' /\ Text' \subseteq {Noise}
    BY <1>3 DEF Expired, ToSend, Announced, Text, Resending, InATSend
  <2>2. OwedInv'
    BY <1>3, <2>1 DEF OwedInv
  <2>3. CommandInv'
    BY <1>3, <2>1 DEF CommandInv
  <2>4. AnnounceInv'
    BY <1>3, <2>1 DEF AnnounceInv
  <2>. QED  BY <2>2, <2>3, <2>4 DEF AnswerInv
<1>4. CASE ComtestAcked
  <2>1. /\ UNCHANGED <<ATCurrentCmdNum, air, ring, packet, process_buff, rx1_event, e>>
        /\ pc'["at_process"] = pc["at_process"] /\ pc'["at_send"] = pc["at_send"]
        /\ ~answered' /\ pc["shell"] = "acked" /\ At("shell", "acked")
        /\ \/ pc'["shell"] = "at_send" /\ arg'["shell"] = kk'
           \/ pc'["shell"] = "done" /\ kk' = kk
    BY <1>0, <1>4 DEF ComtestAcked, At, Goto, cmdVars, bufVars, devVars
  <2>2. /\ Announced /\ answered /\ Text \subseteq {Noise} /\ air = {}
        /\ "ACK" \notin rx1_event /\ pc["at_process"] # "matched"
    BY <2>1 DEF Announced, AnswerInv, AnnounceInv, OwedInv
  <2>3. "TIMEOUT" \notin rx1_event /\ ~Expired /\ ~ToSend
    BY <2>1, ShellRunsAlone
  <2>4. ATCurrentCmdNum = kk
    BY <2>1 DEF AnswerInv, CommandInv
  <2>. QED  BY <1>3, <2>1, <2>2, <2>3, <2>4
<1>5. CASE ComtestStart
  <2>1. /\ UNCHANGED <<ATCurrentCmdNum, kk, air, ring, packet, process_buff, rx1_event, e>>
        /\ pc'["at_process"] = pc["at_process"] /\ pc'["at_send"] = pc["at_send"]
        /\ answered' = answered /\ pc["shell"] = "idle"
        /\ pc'["shell"] = "at_send" /\ arg'["shell"] = kk'
    BY <1>0, <1>5 DEF ComtestStart, Goto, cmdVars, bufVars, devVars, histVars
  <2>2. air = {} /\ ~answered /\ Text \subseteq {Noise}
    BY <2>1 DEF AnswerInv, OwedInv, Asked
  <2>3. "ACK" \notin rx1_event /\ pc["at_process"] # "matched"
    BY <2>2 DEF AnswerInv, AnnounceInv, Announced
  <2>4. "TIMEOUT" \notin rx1_event /\ ~Expired /\ ~ToSend
    BY <2>1 DEF TriesInv, CountsInv, Untouched
  <2>. QED  BY <1>3, <2>1, <2>2, <2>3, <2>4
<1>. QED  BY <1>1, <1>2, <1>4, <1>5 DEF Comtest

LEMMA AnswerStep ==
    ASSUME IType, WakeInv, TriesInv, FreshInv, NoReset, NoReset', NoLateRetry',
           AnswerInv, [Next]_vars
    PROVE  AnswerInv'
<1>1. SerialInv'
  BY SerialStep DEF AnswerInv
<1>2. CASE UNCHANGED vars
  BY <1>2 DEF vars, AnswerInv, SerialInv, OwedInv, CommandInv, AnnounceInv, Announced, Asked,
              ToSend, Expired, Text, cmdVars, bufVars, devVars, histVars
<1>. QED
  BY <1>1, <1>2, AnswerSerial, AnswerAtProcess, AnswerAtSendThread, AnswerComtest,
     AnswerTimeout, AnswerModule DEF Next, Cpu

(* What at_comtest takes for the answer to its command is the module's answer  *)
(* to that command as long as at_process neither gives a command up nor        *)
(* resends one that the module still answers or has answered: lost commands,    *)
(* noise and retries in time do not confuse the two threads.                   *)
THEOREM AnswersAreForCommand ==
    ASSUME NoConb
    PROVE  Spec /\ []NoReset /\ []NoLateRetry => []AckIsForCommand
<1>1. Init => AnswerInv
  BY DEF Init, AnswerInv, SerialInv, OwedInv, CommandInv, AnnounceInv, Announced, Text
<1>2. AnswerInv => AckIsForCommand
  BY DEF AnswerInv, AnnounceInv, Announced, AckIsForCommand
<1>3. Init => FreshInv
  BY Clearing, CmdAssumption DEF Init, FreshInv
<1>4. IType /\ FreshInv /\ [Next]_vars => FreshInv'
  BY FreshStep
<1>5. IType /\ WakeInv /\ TriesInv /\ FreshInv /\ NoReset /\ NoReset' /\ NoLateRetry' /\ AnswerInv
      /\ [Next]_vars => AnswerInv'
  BY AnswerStep
<1>. QED
  BY <1>1, <1>2, <1>3, <1>4, <1>5, ITypeCorrect, WakeCorrect, TriesCorrect, PTL DEF Spec
=============================================================================
