----------------------------- MODULE Semaphore ------------------------------
(***************************************************************************)
(* rt_sem_take with and without a timeout, rt_sem_trytake, rt_sem_release  *)
(* and the RESET of rt_sem_control, called by threads and by interrupts.   *)
(***************************************************************************)
EXTENDS IpcObject

CONSTANTS
    SemMod,       (* 2^16, the values of a 16-bit counter                       *)
    SemInitValue

ASSUME SemAssumption == SemMod \in Nat \ {0} /\ SemInitValue \in 0..SemMod-1

VARIABLES
    value,
    balance,      (* history: SemInitValue, plus the releases, minus the takes  *)
                  (* that returned RT_EOK; 0 once wrapped                       *)
    wrapped       (* history: the 16-bit value has gone from its last to 0      *)

semVars == <<value, balance, wrapped>>

SemInit == value = SemInitValue /\ balance = SemInitValue /\ wrapped = FALSE

(* d tokens are handed out or taken back. *)
Counts(d) ==
    /\ balance' = IF wrapped THEN 0 ELSE balance + d
    /\ UNCHANGED wrapped

(* rt_sem_take *)

SemTake(c) ==
    /\ MayCall(c) /\ value > 0
    /\ value' = value - 1
    /\ Counts(-1)
    /\ UNCHANGED threadVars

(* value = 0 and time = 0 change nothing; otherwise the thread waits. *)
SemTakeWaits(t, timed) ==
    /\ Runs(t, "run") /\ value = 0
    /\ Suspend(t, [on |-> "sem", timed |-> timed, error |-> "OK"])
    /\ UNCHANGED semVars

SemTakeReturns(t) ==
    /\ Wakes(t, "sem")
    /\ Counts(IF call[t].error = "OK" THEN -1 ELSE 0)
    /\ Returns(t)
    /\ UNCHANGED <<ready, cur, armed, suspend_thread, loop, value>>

(* rt_sem_release *)

SemReleaseTwice(c) ==  (* mutant: the value grows although a thread is resumed *)
    /\ MayCall(c) /\ Suspends("sem")
    /\ Resume("sem") /\ ThenSchedule(c)
    /\ value' = (value + 1) % SemMod
    /\ Counts(1)
    /\ UNCHANGED <<call, loop>>
SemReleaseToWaiter(c) ==
    /\ MayCall(c) /\ Suspends("sem")
    /\ Resume("sem") /\ ThenSchedule(c)
    /\ Counts(1)
    /\ UNCHANGED <<call, loop, value>>

(* The increment does not look whether value has reached its last. *)
SemReleaseFree(c) ==
    /\ MayCall(c) /\ ~Suspends("sem")
    /\ value' = (value + 1) % SemMod
    /\ wrapped' = (wrapped \/ value + 1 = SemMod)
    /\ balance' = IF wrapped' THEN 0 ELSE balance + 1
    /\ UNCHANGED threadVars

(* rt_sem_control with RT_IPC_CMD_RESET: what was released before does not     *)
(* count any more, but for those who have been resumed by it.                  *)
SemReset(t, v) ==
    /\ Runs(t, "run")
    /\ ResumeAll({"sem"}) /\ ThenSchedule(t)
    /\ value' = v % SemMod
    /\ balance' = value' + Cardinality(Woken("sem")) /\ wrapped' = FALSE
    /\ UNCHANGED loop

SemNext ==
    \/ \E c \in Callers : SemTake(c) \/ SemReleaseToWaiter(c) \/ SemReleaseFree(c)
    \/ \E t \in Thread : \/ SemTakeReturns(t) \/ SemReset(t, SemInitValue)
                         \/ \E timed \in Timed : SemTakeWaits(t, timed)

-----------------------------------------------------------------------------
(* As long as value has not wrapped since the start or the last reset, no      *)
(* token is lost or made: what was released and not taken is in value, or on   *)
(* its way to a thread that was resumed with RT_EOK, whatever timeouts come in *)
(* between.  A semaphore that starts with 1 and is released only by who has    *)
(* taken it, as heap_sem is, never wraps: for it this is mutual exclusion.     *)
(* When value does wrap 2^16 tokens are lost, and nobody is told.              *)
TokensKept == ~wrapped => balance = value + Cardinality(Woken("sem"))

(* No thread waits for a semaphore that could be taken. *)
NoWaitWithToken == Suspends("sem") => value = 0
=============================================================================
