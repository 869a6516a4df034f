------------------------------ MODULE Mailbox -------------------------------
(***************************************************************************)
(* rt_mb_send, rt_mb_send_wait, rt_mb_recv and the RESET of rt_mb_control. *)
(* A thread that was woken looks at the mailbox again, because another     *)
(* thread may have been faster, and waits for the rest of its time.        *)
(***************************************************************************)
EXTENDS IpcObject

CONSTANTS Mail, Size

ASSUME MailAssumption == Size \in Nat \ {0} /\ None \notin Mail

VARIABLES
    msg_pool, in_offset, out_offset, entry,
    got           (* history: the mail rt_mb_recv has handed out last           *)

mbVars == <<msg_pool, in_offset, out_offset, entry, got>>

MbInit ==
    /\ msg_pool = [i \in 0..Size-1 |-> None]
    /\ in_offset = 0 /\ out_offset = 0 /\ entry = 0
    /\ got = None

NextOffset(k) == IF k + 1 >= Size THEN 0 ELSE k + 1

Sending(m, timed) == [on |-> "send", timed |-> timed, error |-> "OK", mail |-> m]
Receiving(timed) == [on |-> "recv", timed |-> timed, error |-> "OK"]

(* The mail m goes in. *)
Put(m) ==
    /\ entry < Size
    /\ msg_pool' = [msg_pool EXCEPT ![in_offset] = m]
    /\ in_offset' = NextOffset(in_offset)
    /\ entry' = entry + 1
    /\ UNCHANGED <<out_offset, got>>
(* The first mail comes out. *)
Get ==
    /\ entry > 0
    /\ got' = msg_pool[out_offset]
    /\ out_offset' = NextOffset(out_offset)
    /\ entry' = entry - 1
    /\ UNCHANGED <<msg_pool, in_offset>>

(* What follows in call c: the first thread of list l, if any, is resumed. *)
ThenResumeNot(c, l) ==  (* mutant: only when the mailbox was empty or full *)
    IF Suspends(l) /\ entry \in {0, Size} THEN Resume(l) /\ ThenSchedule(c)
    ELSE /\ pc' = IF c = Isr THEN pc ELSE [pc EXCEPT ![c] = "run"]
         /\ UNCHANGED <<ready, cur, armed, suspend_thread>>
ThenResume(c, l) ==
    IF Suspends(l) THEN Resume(l) /\ ThenSchedule(c)
    ELSE /\ pc' = IF c = Isr THEN pc ELSE [pc EXCEPT ![c] = "run"]
         /\ UNCHANGED <<ready, cur, armed, suspend_thread>>

-----------------------------------------------------------------------------
(* rt_mb_send_wait; an interrupt calls it with the timeout 0.  Refused for     *)
(* want of room, it changes nothing.                                           *)

Send(c, m) ==
    /\ MayCall(c)
    /\ Put(m) /\ ThenResume(c, "recv")
    /\ UNCHANGED <<call, loop>>

SendWaits(t, m, timed) ==
    /\ Runs(t, "run") /\ entry = Size
    /\ Suspend(t, Sending(m, timed))
    /\ UNCHANGED mbVars

SendAgain(t) ==
    /\ Wakes(t, "send") /\ call[t].error = "OK"
    /\ Put(call[t].mail) /\ ThenResume(t, "recv")
    /\ call' = [call EXCEPT ![t] = NoCall]
    /\ UNCHANGED loop

SendWaitsAgain(t) ==
    /\ Wakes(t, "send") /\ call[t].error = "OK" /\ entry = Size
    /\ Suspend(t, call[t])
    /\ UNCHANGED mbVars

(* An error, or no time left. *)
SendGivesUp(t) ==
    /\ Wakes(t, "send")
    /\ call[t].error # "OK" \/ (call[t].timed /\ entry = Size)
    /\ Returns(t)
    /\ UNCHANGED <<ready, cur, armed, suspend_thread, loop, mbVars>>

-----------------------------------------------------------------------------
(* rt_mb_recv *)

Recv(c) ==
    /\ MayCall(c)
    /\ Get /\ ThenResume(c, "send")
    /\ UNCHANGED <<call, loop>>

RecvWaits(t, timed) ==
    /\ Runs(t, "run") /\ entry = 0
    /\ Suspend(t, Receiving(timed))
    /\ UNCHANGED mbVars

RecvAgain(t) ==
    /\ Wakes(t, "recv") /\ call[t].error = "OK"
    /\ Get /\ ThenResume(t, "send")
    /\ call' = [call EXCEPT ![t] = NoCall]
    /\ UNCHANGED loop

RecvWaitsAgain(t) ==
    /\ Wakes(t, "recv") /\ call[t].error = "OK" /\ entry = 0
    /\ Suspend(t, call[t])
    /\ UNCHANGED mbVars

RecvGivesUp(t) ==
    /\ Wakes(t, "recv")
    /\ call[t].error # "OK" \/ (call[t].timed /\ entry = 0)
    /\ Returns(t)
    /\ UNCHANGED <<ready, cur, armed, suspend_thread, loop, mbVars>>

(* rt_mb_control with RT_IPC_CMD_RESET *)
MbResetHalf(t) ==  (* mutant: out_offset is left where it was *)
    /\ Runs(t, "run")
    /\ ResumeAll({"recv", "send"}) /\ ThenSchedule(t)
    /\ entry' = 0 /\ in_offset' = 0
    /\ UNCHANGED <<loop, msg_pool, out_offset, got>>
MbReset(t) ==
    /\ Runs(t, "run")
    /\ ResumeAll({"recv", "send"}) /\ ThenSchedule(t)
    /\ entry' = 0 /\ in_offset' = 0 /\ out_offset' = 0
    /\ UNCHANGED <<loop, msg_pool, got>>

MbNext ==
    \/ \E c \in Callers : Recv(c) \/ \E m \in Mail : Send(c, m)
    \/ \E t \in Thread :
        \/ SendAgain(t) \/ SendWaitsAgain(t) \/ SendGivesUp(t)
        \/ RecvAgain(t) \/ RecvWaitsAgain(t) \/ RecvGivesUp(t)
        \/ MbReset(t)
        \/ \E timed \in Timed : \/ RecvWaits(t, timed)
                                  \/ \E m \in Mail : SendWaits(t, m, timed)

-----------------------------------------------------------------------------
(* The mails inside, in the order in which they will come out. *)
Inside == [i \in 1..entry |-> msg_pool[(out_offset + i - 1) % Size]]

Queue == INSTANCE BoundedQueue WITH queue <- Inside, got <- got
(* The ring with its two offsets and its counter is a bounded queue, however   *)
(* senders and receivers overtake each other.                                  *)
ImplementsQueue == Queue!Spec

(* No wake-up is lost, although a mail does not go to the thread it woke: if   *)
(* a thread waits for a mail, there is a thread on its way for each mail       *)
(* inside; if one waits for room, there is one for each free place.            *)
MailsAreFetched == Suspends("recv") => entry <= Cardinality(Woken("recv"))
PlacesAreFilled == Suspends("send") => Size - entry <= Cardinality(Woken("send"))
=============================================================================
