-------------------------------- MODULE Ipc ---------------------------------
(***************************************************************************)
(* A semaphore, a mailbox and an event that the same threads use, together *)
(* with interrupts.  They meet in the threads: one call of a thread at a   *)
(* time, one thread_timer, one error, and the CPU.                         *)
(***************************************************************************)
EXTENDS Semaphore, Mailbox, Event

CONSTANT Uses     \* which of "sem", "mailbox" and "event" a program may use,
                  \* and "wraps" if it may release 2^16 tokens that nobody takes

VARIABLE use      \* those that this program uses

vars == <<threadVars, semVars, mbVars, evVars, use>>

Init == ThreadInit /\ SemInit /\ MbInit /\ EvInit /\ use \in Uses

Next ==
    /\ \/ ThreadNext /\ UNCHANGED <<semVars, mbVars, evVars>>
       \/ /\ "sem" \in use /\ SemNext /\ UNCHANGED <<mbVars, evVars>>
          /\ wrapped' => "wraps" \in use
       \/ "mailbox" \in use /\ MbNext /\ UNCHANGED <<semVars, evVars>>
       \/ "event" \in use /\ EvNext /\ UNCHANGED <<semVars, mbVars>>
    /\ UNCHANGED use

Spec == Init /\ [][Next]_vars

-----------------------------------------------------------------------------
Calls ==
    {NoCall}
    \cup [on : {"sem", "recv"}, timed : BOOLEAN, error : Errors]
    \cup [on : {"send"}, timed : BOOLEAN, error : Errors, mail : Mail]
    \cup [on : {"event"}, timed : BOOLEAN, error : Errors, mask : SUBSET Bits,
          asked : SUBSET Bits, all : BOOLEAN, clear : BOOLEAN]

(* Every variable stays in its range, in particular the two offsets of the     *)
(* ring and the entry counter.                                                 *)
TypeOK ==
    /\ ready \in SUBSET Thread /\ armed \in SUBSET Thread
    /\ cur \in Thread \cup {None}
    /\ pc \in [Thread -> {"run", "schedule", "check"}]
    /\ \A t \in Thread : call[t] \in Calls
    /\ suspend_thread \in [Lists -> Seq(Thread)]
    /\ value \in 0..SemMod-1 /\ balance \in Int /\ wrapped \in BOOLEAN
    /\ msg_pool \in [0..Size-1 -> Mail \cup {None}]
    /\ in_offset \in 0..Size-1 /\ out_offset \in 0..Size-1 /\ entry \in 0..Size
    /\ got \in Mail \cup {None}
    /\ set \in SUBSET Bits
    /\ loop # NoLoop => /\ loop.by \in Callers /\ loop.woke \subseteq Thread
                        /\ loop.at \in 1..Len(suspend_thread["event"])+1

(* The objects and the lists of the threads that wait for them are sound.      *)
IpcOK == TypeOK /\ ListsOK

(* No wake-up is lost: nobody waits for what is there, unless somebody who was *)
(* woken for it is still on the way.                                           *)
NobodyWaitsInVain ==
    NoWaitWithToken /\ MailsAreFetched /\ PlacesAreFilled /\ NoWaitWithBits

(* A step keeps the turns of those who wait in list l. *)
TurnsKept(l) ==
    /\ InTurn(suspend_thread[l], suspend_thread'[l], Flag[l], InitPrio)
    /\ l # "event" =>
        \A t \in Elements(suspend_thread[l]) \ Elements(suspend_thread'[l]),
           u \in Elements(suspend_thread'[l]) :
            call'[t].error = "OK" => ~Ahead(suspend_thread[l], u, t)

(* Whatever order calls, timeouts and interrupts come in, nobody is overtaken  *)
(* in a waiting list by a thread of its priority, and what a release, a send   *)
(* or a receive brings about goes to the first in the list.  rt_event_send     *)
(* alone may resume a thread further behind, when those in front wait for      *)
(* other bits.                                                                 *)
ServedInTurn == [][\A l \in Lists : TurnsKept(l)]_vars

(* What rt_event_recv hands out is what was asked for, and to one taker.       *)
EventsAreTaken == ReceivesAsked /\ OneTaker
=============================================================================
