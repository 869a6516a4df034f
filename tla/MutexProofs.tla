---------------------------- MODULE MutexProofs -----------------------------
(***************************************************************************)
(* Proofs about Mutex for every set of threads and mutexes: the fields of  *)
(* a mutex agree, rt_mutex_take returns the truth, and no two threads are  *)
(* inside the same mutex, whatever the order of timeouts and releases; for *)
(* a single mutex also that priorities are inherited and restored.         *)
(***************************************************************************)
EXTENDS Mutex, WaitingListProofs, FiniteSetTheorems

-----------------------------------------------------------------------------
(* The invariant *)

(* A thread in no call wants nothing, one that is suspended wants something,  *)
(* and the CPU stays with a suspended thread only until its rt_schedule.      *)
ThreadsOK ==
    /\ armed \cap ready = {}
    /\ cur # None => cur \in ready \/ pc[cur] = "schedule"
    /\ \A t \in Thread :
           /\ pc[t] = "run" => want[t] = None
           /\ pc[t] = "check" => want[t] # None
           /\ t \notin ready => want[t] # None
OwnersOK == \A m \in Mutexes : owner[m] # None => original_priority[m] # NoPriority

(* A thread that waits has no error and is not the owner; one whose wait is   *)
(* over is the owner, or has an error.                                        *)
WaitOK ==
    \A t \in Thread, m \in Mutexes : want[t] = m =>
        IF t \in ready THEN error[t] = "OK" <=> owner[m] = t
                       ELSE error[t] = "OK" /\ owner[m] # t
IInv == TypeOK /\ MutexOK /\ ThreadsOK /\ OwnersOK /\ WaitOK /\ Exclusive

LEMMA Names ==
    /\ None \notin Thread \cup Mutexes /\ Asleep \notin Mutexes /\ None # Asleep
    /\ MaxHold \in Nat \ {0} /\ NoPriority = 255
BY MutexAssumption DEF None, Asleep, NoPriority

LEMMA InvInit == Init => IInv
<1> SUFFICES ASSUME Init PROVE IInv
  OBVIOUS
<1>1. cur \in Thread
  BY DEF Init, Top
<1>2. \A s \in {<<>>} : s \in Seq(Thread) /\ Elements(s) = {} /\ DOMAIN s = {}
  BY DEF Elements
<1>3. TypeOK
  BY <1>1, <1>2, MutexAssumption, Names DEF Init, TypeOK
<1>4. MutexOK
  BY <1>2, Names DEF Init, MutexOK
<1> QED BY <1>1, <1>3, <1>4, Names
           DEF Init, IInv, ThreadsOK, OwnersOK, WaitOK, Exclusive

(* rt_schedule leaves the CPU with a ready thread, or with idle. *)
LEMMA Scheduled ==
    ASSUME NEW s \in SUBSET Thread, Reschedule(s)
    PROVE  cur' \in s \cup {None}
BY DEF Reschedule, Top

LEMMA PriorityOf ==
    ASSUME TypeOK, NEW t \in Thread
    PROVE  /\ current_priority[t] \in 0..NoPriority-1
           /\ current_priority[t] \in 0..NoPriority /\ current_priority[t] # NoPriority
<1>1. current_priority \in [Thread -> 0..NoPriority-1]
  BY DEF TypeOK
<1>2. current_priority[t] \in 0..NoPriority-1
  BY <1>1
<1> QED BY <1>2 DEF NoPriority

LEMMA Changed ==
    ASSUME NEW u, NEW p \in 0..NoPriority-1, ChangePriority(u, p),
           current_priority \in [Thread -> 0..NoPriority-1]
    PROVE  current_priority' \in [Thread -> 0..NoPriority-1]
BY DEF ChangePriority

LEMMA TakeStep ==
    ASSUME IInv, NEW t \in Thread, NEW m \in Mutexes, Take(t, m)
    PROVE  IInv'
<1> USE Names DEF IInv, Runs, Calls, threadVars, mutexVars, callVars
<1>1. CASE TakeAgain(t, m)
  <2>1. TypeOK'
    <3>1. hold' \in [Mutexes -> 0..MaxHold] /\ error' \in [Thread -> {"OK", "ERROR", "TIMEOUT"}]
      BY <1>1 DEF TakeAgain, TypeOK
    <3> QED BY <1>1, <3>1 DEF TakeAgain, TypeOK
  <2>2. MutexOK'
    BY <1>1 DEF TakeAgain, TypeOK, MutexOK
  <2>3. ThreadsOK' /\ OwnersOK' /\ WaitOK' /\ Exclusive'
    BY <1>1 DEF TakeAgain, TypeOK, ThreadsOK, OwnersOK, WaitOK, Exclusive
  <2> QED BY <2>1, <2>2, <2>3
<1>2. CASE TakeFree(t, m)
  <2>1. value[m] = 1 /\ owner[m] = None /\ hold[m] = 0 /\ suspend_thread[m] = <<>>
    BY <1>2 DEF TakeFree, TypeOK, MutexOK
  <2>2. TypeOK'
    <3>1. current_priority[t] \in 0..NoPriority
      BY DEF TypeOK
    <3>2. original_priority' \in [Mutexes -> 0..NoPriority]
      BY <1>2, <3>1 DEF TakeFree, TypeOK
    <3>3. hold' \in [Mutexes -> 0..MaxHold] /\ value' \in [Mutexes -> 0..1]
      BY <1>2, <2>1 DEF TakeFree, TypeOK
    <3>4. owner' \in [Mutexes -> Thread \cup {None}] /\ inside' \in [Mutexes -> SUBSET Thread]
      BY <1>2 DEF TakeFree, TypeOK
    <3>5. error' \in [Thread -> {"OK", "ERROR", "TIMEOUT"}]
      BY <1>2 DEF TakeFree, TypeOK
    <3> QED BY <1>2, <3>2, <3>3, <3>4, <3>5 DEF TakeFree, TypeOK
  <2>3. MutexOK'
    BY <1>2, <2>1 DEF TakeFree, TypeOK, MutexOK
  <2>4. OwnersOK'
    <3>1. current_priority[t] # NoPriority
      BY PriorityOf
    <3> QED BY <1>2, <3>1 DEF TakeFree, TypeOK, OwnersOK
  <2>5. want[t] = None /\ \A u \in Thread : want[u] = m => u \in ready
    BY <1>2, <2>1 DEF TakeFree, TypeOK, ThreadsOK, MutexOK, Elements
  <2>6. ThreadsOK' /\ WaitOK' /\ Exclusive'
    BY <1>2, <2>1, <2>5 DEF TakeFree, TypeOK, ThreadsOK, WaitOK, Exclusive
  <2> QED BY <2>2, <2>3, <2>4, <2>6
<1>3. CASE TakeRefused(t, m)
  <2>1. TypeOK' /\ MutexOK'
    BY <1>3 DEF TakeRefused, TypeOK, MutexOK
  <2>2. ThreadsOK' /\ OwnersOK' /\ WaitOK' /\ Exclusive'
    BY <1>3 DEF TakeRefused, TypeOK, ThreadsOK, OwnersOK, WaitOK, Exclusive
  <2> QED BY <2>1, <2>2
<1>4. ASSUME NEW timed \in BOOLEAN, TakeWaits(t, m, timed)
      PROVE  IInv'
  <2> DEFINE s == suspend_thread[m]
             r == Suspended(s, t, Flag[m], current_priority)
  <2>1. want[t] = None /\ t \in ready /\ owner[m] \in Thread /\ pc[t] = "run"
    BY <1>4 DEF TakeWaits, TypeOK, MutexOK, ThreadsOK
  <2>2. s \in Seq(Thread) /\ t \notin Elements(s) /\ Distinct(s)
    BY <2>1 DEF TypeOK, MutexOK, Distinct
  <2>3. r \in Seq(Thread) /\ Elements(r) = Elements(s) \cup {t} /\ Distinct(r) /\ r # <<>>
    <3>1. current_priority \in [Thread -> Int]
      <4>1. current_priority \in [Thread -> 0..NoPriority-1]
        BY DEF TypeOK
      <4> QED BY <4>1 DEF NoPriority
    <3> QED BY <2>2, <3>1, SuspendedList
  <2>4. suspend_thread' = [suspend_thread EXCEPT ![m] = r]
    BY <1>4 DEF TakeWaits
  <2> HIDE DEF r
  <2>5. current_priority' \in [Thread -> 0..NoPriority-1]
    <3>1. \/ UNCHANGED current_priority
          \/ ChangePriority(owner[m], current_priority[t])
      BY <1>4 DEF TakeWaits
    <3>2. CASE UNCHANGED current_priority
      BY <3>2 DEF TypeOK
    <3>3. CASE ChangePriority(owner[m], current_priority[t])
      BY <3>3, Changed DEF TypeOK
    <3> QED BY <3>1, <3>2, <3>3
  <2>6. TypeOK'
    <3>1. /\ suspend_thread' \in [Mutexes -> Seq(Thread)]
          /\ want' \in [Thread -> Mutexes \cup {Asleep, None}]
      BY <1>4, <2>3, <2>4 DEF TakeWaits, TypeOK
    <3>2. /\ error' \in [Thread -> {"OK", "ERROR", "TIMEOUT"}]
          /\ pc' \in [Thread -> {"run", "schedule", "check"}]
      BY <1>4 DEF TakeWaits, TypeOK
    <3>3. armed' \in SUBSET Thread /\ ready' \in SUBSET Thread
      BY <1>4 DEF TakeWaits, TypeOK
    <3>4. /\ cur' \in Thread \cup {None} /\ inside' \in [Mutexes -> SUBSET Thread]
          /\ value' \in [Mutexes -> 0..1] /\ owner' \in [Mutexes -> Thread \cup {None}]
          /\ hold' \in [Mutexes -> 0..MaxHold]
          /\ original_priority' \in [Mutexes -> 0..NoPriority]
      BY <1>4 DEF TakeWaits, TypeOK
    <3> QED BY <2>5, <3>1, <3>2, <3>3, <3>4 DEF TypeOK
  <2>7. MutexOK'
    <3> SUFFICES ASSUME NEW n \in Mutexes PROVE MutexOK!(n)'
      BY DEF MutexOK
    <3>1. CASE n = m
      BY <1>4, <2>1, <2>3, <2>4, <3>1 DEF TakeWaits, TypeOK, MutexOK, Distinct
    <3>2. CASE n # m
      BY <1>4, <2>1, <2>4, <3>2 DEF TakeWaits, TypeOK, MutexOK
    <3> QED BY <3>1, <3>2
  <2>8. ThreadsOK' /\ OwnersOK' /\ WaitOK' /\ Exclusive'
    BY <1>4, <2>1 DEF TakeWaits, TypeOK, ThreadsOK, OwnersOK, WaitOK, Exclusive
  <2> QED BY <2>6, <2>7, <2>8
<1> QED BY <1>1, <1>2, <1>3, <1>4 DEF Take

LEMMA TakeReturnsStep ==
    ASSUME IInv, NEW t \in Thread, TakeReturns(t)
    PROVE  IInv'
<1> USE Names DEF IInv, Runs, Calls, threadVars, mutexVars, callVars, TakeReturns
<1>1. t \in ready /\ want[t] \in Mutexes
  BY DEF ThreadsOK
<1>2. error[t] = "OK" <=> owner[want[t]] = t
  BY <1>1 DEF WaitOK
<1>3. /\ inside' \in [Mutexes -> SUBSET Thread]
      /\ want' \in [Thread -> Mutexes \cup {Asleep, None}]
      /\ pc' \in [Thread -> {"run", "schedule", "check"}]
  BY DEF TypeOK
<1>4. TypeOK'
  BY <1>3 DEF TypeOK
<1>5. MutexOK'
  BY <1>1 DEF TypeOK, MutexOK
<1>6. ThreadsOK' /\ OwnersOK' /\ WaitOK'
  BY <1>1 DEF TypeOK, ThreadsOK, OwnersOK, WaitOK
<1>7. Exclusive'
  BY <1>1, <1>2 DEF TypeOK, Exclusive
<1> QED BY <1>4, <1>5, <1>6, <1>7

(* The priority after Restore. *)
LEMMA RestoredType ==
    ASSUME TypeOK, OwnersOK, NEW t \in Thread, NEW m \in Mutexes, owner[m] = t, Restore(t, m)
    PROVE  current_priority' \in [Thread -> 0..NoPriority-1]
<1>1. original_priority[m] \in 0..NoPriority /\ original_priority[m] # NoPriority
  BY Names DEF TypeOK, OwnersOK
<1>2. original_priority[m] \in 0..NoPriority-1
  BY <1>1 DEF NoPriority
<1>3. current_priority \in [Thread -> 0..NoPriority-1]
  BY DEF TypeOK
<1> QED BY <1>2, <1>3, Changed DEF Restore

LEMMA ReleaseStep ==
    ASSUME IInv, NEW t \in Thread, NEW m \in Mutexes, Release(t, m)
    PROVE  IInv'
<1> USE Names DEF IInv, Runs, Calls, threadVars, mutexVars, callVars
<1>1. CASE ReleaseRefused(t, m)
  <2>1. TypeOK' /\ MutexOK'
    BY <1>1 DEF ReleaseRefused, TypeOK, MutexOK
  <2>2. ThreadsOK' /\ OwnersOK' /\ WaitOK' /\ Exclusive'
    BY <1>1 DEF ReleaseRefused, TypeOK, ThreadsOK, OwnersOK, WaitOK, Exclusive
  <2> QED BY <2>1, <2>2
<1>2. CASE ReleaseOne(t, m)
  <2>1. hold' \in [Mutexes -> 0..MaxHold] /\ hold'[m] # 0 /\ hold[m] # 0
    BY <1>2 DEF ReleaseOne, TypeOK
  <2>2. TypeOK'
    BY <1>2, <2>1 DEF ReleaseOne, TypeOK
  <2>3. MutexOK'
    BY <1>2, <2>1 DEF ReleaseOne, TypeOK, MutexOK
  <2>4. ThreadsOK' /\ OwnersOK' /\ WaitOK' /\ Exclusive'
    BY <1>2 DEF ReleaseOne, TypeOK, ThreadsOK, OwnersOK, WaitOK, Exclusive
  <2> QED BY <2>2, <2>3, <2>4
<1>3. CASE ReleaseFree(t, m)
  <2>1. current_priority' \in [Thread -> 0..NoPriority-1]
    BY <1>3, RestoredType DEF ReleaseFree
  <2>2. value[m] = 0 /\ want[t] = None /\ \A u \in Thread : want[u] = m => u \in ready
    BY <1>3 DEF ReleaseFree, TypeOK, MutexOK, ThreadsOK, Elements
  <2>3. /\ hold' \in [Mutexes -> 0..MaxHold] /\ value' \in [Mutexes -> 0..1]
        /\ original_priority' \in [Mutexes -> 0..NoPriority]
    BY <1>3, <2>2 DEF ReleaseFree, TypeOK, NoPriority
  <2>4. owner' \in [Mutexes -> Thread \cup {None}] /\ inside' \in [Mutexes -> SUBSET Thread]
    BY <1>3 DEF ReleaseFree, TypeOK
  <2>5. TypeOK'
    BY <1>3, <2>1, <2>3, <2>4 DEF ReleaseFree, TypeOK
  <2>6. MutexOK'
    BY <1>3, <2>2 DEF ReleaseFree, TypeOK, MutexOK
  <2>7. ThreadsOK' /\ OwnersOK' /\ WaitOK' /\ Exclusive'
    BY <1>3, <2>2 DEF ReleaseFree, TypeOK, ThreadsOK, OwnersOK, WaitOK, Exclusive
  <2> QED BY <2>5, <2>6, <2>7
<1>4. CASE ReleaseToWaiter(t, m)
  <2> DEFINE s == suspend_thread[m]
             u == Head(s)
             r == Tail(s)
  <2>1. s \in Seq(Thread) /\ s # <<>> /\ Distinct(s)
    BY <1>4 DEF ReleaseToWaiter, TypeOK, MutexOK, Distinct
  <2>2. /\ r \in Seq(Thread) /\ u \in Thread /\ u \in Elements(s) /\ Distinct(r)
        /\ Elements(r) = Elements(s) \ {u}
    BY <2>1, TailList
  <2>3. /\ suspend_thread' = [suspend_thread EXCEPT ![m] = r]
        /\ owner' = [owner EXCEPT ![m] = u]
        /\ original_priority' = [original_priority EXCEPT ![m] = current_priority[u]]
        /\ ready' = ready \cup {u} /\ armed' = armed \ {u}
    BY <1>4 DEF ReleaseToWaiter
  <2>4. u \notin ready /\ want[u] = m /\ error[u] = "OK" /\ owner[m] = t /\ u # t
    BY <1>4, <2>2 DEF ReleaseToWaiter, MutexOK, WaitOK
  <2>5. current_priority' \in [Thread -> 0..NoPriority-1]
    BY <1>4, RestoredType DEF ReleaseToWaiter
  <2>6. pc[t] = "run" /\ cur = t /\ want[t] = None /\ t \in ready
    BY <1>4 DEF ReleaseToWaiter, ThreadsOK
  <2>7. /\ pc' = [pc EXCEPT ![t] = "schedule"] /\ hold' = [hold EXCEPT ![m] = 1]
        /\ inside' = [inside EXCEPT ![m] = @ \ {t}]
        /\ hold[m] = 1
        /\ UNCHANGED <<cur, error, value, want>>
    BY <1>4 DEF ReleaseToWaiter
  <2> HIDE DEF s, u, r
  <2>8. current_priority[u] \in 0..NoPriority /\ current_priority[u] # NoPriority
    BY <2>2, PriorityOf
  <2>9. TypeOK'
    <3>1. /\ ready' \in SUBSET Thread /\ armed' \in SUBSET Thread
          /\ owner' \in [Mutexes -> Thread \cup {None}]
          /\ inside' \in [Mutexes -> SUBSET Thread]
          /\ suspend_thread' \in [Mutexes -> Seq(Thread)]
      BY <2>2, <2>3, <2>7 DEF TypeOK
    <3>2. /\ hold' \in [Mutexes -> 0..MaxHold]
          /\ original_priority' \in [Mutexes -> 0..NoPriority]
      BY <2>3, <2>7, <2>8 DEF TypeOK
    <3>3. pc' \in [Thread -> {"run", "schedule", "check"}]
      BY <2>7 DEF TypeOK
    <3> QED BY <2>5, <2>7, <3>1, <3>2, <3>3 DEF TypeOK
  <2>10. MutexOK'
    <3> SUFFICES ASSUME NEW n \in Mutexes PROVE MutexOK!(n)'
      BY DEF MutexOK
    <3>1. CASE n = m
      <4>1. Elements(r) = {v \in Thread \ ready' : want'[v] = m}
        BY <2>2, <2>3, <2>4, <2>7 DEF MutexOK, s
      <4>2. value'[m] # 1 /\ hold'[m] # 0 /\ owner'[m] # None /\ suspend_thread'[m] = r
        BY <2>2, <2>3, <2>4, <2>7 DEF TypeOK, MutexOK
      <4> QED BY <2>2, <3>1, <4>1, <4>2 DEF Distinct
    <3>2. CASE n # m
      <4>1. /\ suspend_thread'[n] = suspend_thread[n] /\ owner'[n] = owner[n]
            /\ hold'[n] = hold[n] /\ value'[n] = value[n]
        BY <2>3, <2>7, <3>2 DEF TypeOK
      <4>2. {v \in Thread \ ready' : want'[v] = n} = {v \in Thread \ ready : want[v] = n}
        BY <2>3, <2>4, <2>7, <3>2
      <4> QED BY <4>1, <4>2 DEF MutexOK
    <3> QED BY <3>1, <3>2
  <2>11. ThreadsOK' /\ OwnersOK'
    BY <2>2, <2>3, <2>4, <2>6, <2>7, <2>8 DEF TypeOK, ThreadsOK, OwnersOK
  <2>12. WaitOK'
    BY <2>2, <2>3, <2>4, <2>6, <2>7 DEF TypeOK, WaitOK
  <2>13. Exclusive'
    BY <2>2, <2>3, <2>4, <2>7 DEF TypeOK, Exclusive
  <2> QED BY <2>9, <2>10, <2>11, <2>12, <2>13
<1> QED BY <1>1, <1>2, <1>3, <1>4 DEF Release

LEMMA OtherStep ==
    ASSUME IInv, NEW t \in Thread, Schedule(t) \/ Sleep(t) \/ SleepReturns(t)
    PROVE  IInv'
<1> USE Names DEF IInv, Runs, Calls, threadVars, mutexVars, callVars
<1>1. CASE Schedule(t)
  <2>1. cur' \in ready \cup {None}
    BY <1>1, Scheduled DEF Schedule, TypeOK
  <2>2. pc' = [pc EXCEPT ![t] = IF want[t] = None THEN "run" ELSE "check"]
    BY <1>1 DEF Schedule
  <2>3. TypeOK' /\ MutexOK'
    BY <1>1, <2>1, <2>2 DEF Schedule, TypeOK, MutexOK
  <2>4. ThreadsOK' /\ OwnersOK' /\ WaitOK' /\ Exclusive'
    BY <1>1, <2>1, <2>2 DEF Schedule, TypeOK, ThreadsOK, OwnersOK, WaitOK, Exclusive
  <2> QED BY <2>3, <2>4
<1>2. CASE Sleep(t)
  <2>1. t \in ready /\ want[t] = None
    BY <1>2 DEF Sleep, ThreadsOK
  <2>2. TypeOK' /\ MutexOK'
    BY <1>2, <2>1 DEF Sleep, TypeOK, MutexOK
  <2>3. ThreadsOK' /\ OwnersOK' /\ WaitOK' /\ Exclusive'
    BY <1>2, <2>1 DEF Sleep, TypeOK, ThreadsOK, OwnersOK, WaitOK, Exclusive
  <2> QED BY <2>2, <2>3
<1>3. CASE SleepReturns(t)
  <2>1. t \in ready
    BY <1>3 DEF SleepReturns, ThreadsOK
  <2>2. TypeOK' /\ MutexOK'
    BY <1>3, <2>1 DEF SleepReturns, TypeOK, MutexOK
  <2>3. ThreadsOK' /\ OwnersOK' /\ WaitOK' /\ Exclusive'
    BY <1>3, <2>1 DEF SleepReturns, TypeOK, ThreadsOK, OwnersOK, WaitOK, Exclusive
  <2> QED BY <2>2, <2>3
<1> QED BY <1>1, <1>2, <1>3

LEMMA TickStep == ASSUME IInv, TickYield PROVE IInv'
<1> USE Names DEF IInv, threadVars, mutexVars, callVars
<1>1. cur' \in ready \cup {None}
  BY Scheduled DEF TickYield, TypeOK
<1>2. TypeOK' /\ MutexOK'
  BY <1>1 DEF TickYield, TypeOK, MutexOK
<1>3. ThreadsOK' /\ OwnersOK' /\ WaitOK' /\ Exclusive'
  BY <1>1 DEF TickYield, TypeOK, ThreadsOK, OwnersOK, WaitOK, Exclusive
<1> QED BY <1>2, <1>3

LEMMA TimeoutStep ==
    ASSUME IInv, NEW u \in Thread, ThreadTimeout(u)
    PROVE  IInv'
<1> USE Names DEF IInv
<1>1. u \in armed /\ u \notin ready /\ want[u] # None
  BY DEF ThreadTimeout, ThreadsOK
<1>2. /\ ready' = ready \cup {u} /\ armed' = armed \ {u}
      /\ error' = [error EXCEPT ![u] = "TIMEOUT"]
      /\ UNCHANGED <<current_priority, value, owner, hold, original_priority, pc, want, inside>>
  BY DEF ThreadTimeout, callVars
<1>3. cur' \in ready' \cup {None}
  BY DEF ThreadTimeout, Reschedule, Top
<1>4. ASSUME NEW m \in Mutexes
      PROVE  /\ suspend_thread'[m] \in Seq(Thread) /\ Distinct(suspend_thread'[m])
             /\ Elements(suspend_thread'[m]) = Elements(suspend_thread[m]) \ {u}
             /\ suspend_thread'[m] # <<>> => suspend_thread[m] # <<>>
  <2> DEFINE s == suspend_thread[m]
  <2>1. s \in Seq(Thread) /\ Distinct(s)
    BY DEF TypeOK, MutexOK, Distinct
  <2>2. CASE u \in Elements(s)
    <3>1. suspend_thread'[m] = Without(s, u)
      BY <2>2 DEF ThreadTimeout
    <3>2. s # <<>>
      BY <2>2 DEF Elements
    <3> QED BY <2>1, <2>2, <3>1, <3>2, RemovedList
  <2>3. CASE u \notin Elements(s)
    <3>1. suspend_thread'[m] = s
      BY <2>3 DEF ThreadTimeout
    <3> QED BY <2>1, <2>3, <3>1
  <2> QED BY <2>2, <2>3
<1>5. TypeOK'
  <2>1. suspend_thread' \in [Mutexes -> Seq(Thread)]
    <3>1. DOMAIN suspend_thread' = Mutexes
          /\ suspend_thread' = [m \in Mutexes |-> suspend_thread'[m]]
      BY DEF ThreadTimeout
    <3> QED BY <1>4, <3>1
  <2>2. error' \in [Thread -> {"OK", "ERROR", "TIMEOUT"}]
    BY <1>2 DEF TypeOK
  <2> QED BY <1>2, <1>3, <2>1, <2>2 DEF TypeOK
<1>6. MutexOK'
  <2> SUFFICES ASSUME NEW m \in Mutexes PROVE MutexOK!(m)'
    BY DEF MutexOK
  <2>1. Elements(suspend_thread'[m]) = {t \in Thread \ ready' : want'[t] = m}
    BY <1>2, <1>4 DEF MutexOK
  <2> QED BY <1>2, <1>4, <2>1 DEF MutexOK, Distinct
<1>7. ThreadsOK' /\ OwnersOK'
  BY <1>1, <1>2, <1>3 DEF TypeOK, ThreadsOK, OwnersOK
<1>8. WaitOK'
  BY <1>1, <1>2 DEF TypeOK, WaitOK
<1>9. Exclusive'
  BY <1>2 DEF Exclusive
<1> QED BY <1>5, <1>6, <1>7, <1>8, <1>9

LEMMA InvStep == IInv /\ [Next]_vars => IInv'
<1> SUFFICES ASSUME IInv, [Next]_vars PROVE IInv'
  OBVIOUS
<1>1. CASE Next
  BY <1>1, TakeStep, ReleaseStep, TakeReturnsStep, OtherStep, TimeoutStep,
     TickStep DEF Next
<1>2. CASE UNCHANGED vars
  BY <1>2 DEF vars, threadVars, mutexVars, callVars, IInv, TypeOK, MutexOK, ThreadsOK,
              OwnersOK, WaitOK, Exclusive
<1> QED BY <1>1, <1>2

LEMMA InvCorrect == Spec => []IInv
BY InvInit, InvStep, PTL DEF Spec

-----------------------------------------------------------------------------
(* The variables keep their types: in particular the count of a mutex stays   *)
(* 0 or 1 and no thread ever gets the priority 0xFF of a mutex without owner. *)
THEOREM TypeCorrect == Spec => []TypeOK
<1>1. IInv => TypeOK
  BY DEF IInv
<1> QED BY <1>1, InvCorrect, PTL

(* value, owner, hold and the waiting list of each mutex agree, and each list *)
(* holds the threads that wait for it, each once.                             *)
THEOREM FieldsAgree == Spec => []MutexOK
<1>1. IInv => MutexOK
  BY DEF IInv
<1> QED BY <1>1, InvCorrect, PTL

(* rt_mutex_take tells the truth, whether a release or the timeout ended the  *)
(* wait.                                                                      *)
THEOREM TakeReturnsTheTruth == Spec => []TakeIsTrue
<1>1. IInv => TakeIsTrue
  <2> SUFFICES ASSUME IInv, NEW t \in Thread, pc[t] = "check", cur = t, want[t] \in Mutexes
               PROVE  error[t] = "OK" <=> owner[want[t]] = t
    BY DEF TakeIsTrue
  <2>1. t \in ready
    BY Names DEF IInv, ThreadsOK
  <2> QED BY <2>1 DEF IInv, WaitOK
<1> QED BY <1>1, InvCorrect, PTL

(* No two threads are inside the same mutex.                                  *)
THEOREM MutualExclusion == Spec => []Exclusive
<1>1. IInv => Exclusive
  BY DEF IInv
<1> QED BY <1>1, InvCorrect, PTL

-----------------------------------------------------------------------------
(* Priorities.  Inheritance works while there is one mutex (MutexNested shows *)
(* how it fails with two), and between waiting threads if it has flag PRIO.   *)
OneMutex == \A m, n \in Mutexes : m = n
AllByPriority == \A m \in Mutexes : Flag[m] = "PRIO"

(* The owner alone may have another priority than its own, which the mutex    *)
(* remembers.                                                                 *)
Remembered ==
    /\ Restored
    /\ \A m \in Mutexes : owner[m] # None => original_priority[m] = InitPrio[owner[m]]
ListsSorted ==
    \A m \in Mutexes : Flag[m] = "PRIO" => ByPriority(suspend_thread[m], InitPrio)

(* The owner has at least the priority of every waiting thread, and as long as *)
(* a thread waits the one that runs is of the highest ready priority.         *)
Inherited ==
    \A m \in Mutexes : Flag[m] = "PRIO" =>
        \A w \in Elements(suspend_thread[m]) :
            current_priority[owner[m]] <= InitPrio[w]
HighestWhileWaiting ==
    \A m \in Mutexes :
        suspend_thread[m] # <<>> /\ cur # None /\ pc[cur] # "schedule" =>
            \A u \in ready : current_priority[cur] <= current_priority[u]
PInv == Remembered /\ ListsSorted /\ Inherited /\ HighestWhileWaiting

LEMMA PriorityTypes ==
    ASSUME TypeOK
    PROVE  /\ InitPrio \in [Thread -> Int] /\ current_priority \in [Thread -> Int]
           /\ \A t \in Thread : InitPrio[t] \in Int /\ current_priority[t] \in Int
<1>1. current_priority \in [Thread -> 0..NoPriority-1] /\ InitPrio \in [Thread -> 0..NoPriority-1]
  BY MutexAssumption DEF TypeOK
<1> QED BY <1>1 DEF NoPriority

(* Those who wait have the priority they were given.                          *)
LEMMA WaitersPriority ==
    ASSUME IInv, OneMutex, Restored, NEW m \in Mutexes, NEW w \in Elements(suspend_thread[m])
    PROVE  /\ w \in Thread /\ w # owner[m] /\ owner[m] \in Thread
           /\ current_priority[w] = InitPrio[w]
<1>1. w \in Thread \ ready /\ want[w] = m
  BY DEF IInv, MutexOK
<1>2. w # owner[m]
  BY <1>1 DEF IInv, WaitOK
<1>3. owner[m] # None
  BY DEF IInv, MutexOK, Elements
<1> QED BY <1>1, <1>2, <1>3 DEF OneMutex, Restored, IInv, TypeOK

LEMMA PriorityInit == Init => PInv
<1> SUFFICES ASSUME Init PROVE PInv
  OBVIOUS
<1>1. \A s \in {<<>>} : Elements(s) = {} /\ DOMAIN s = {}
  BY DEF Elements
<1>2. \A m \in Mutexes : suspend_thread[m] = <<>> /\ owner[m] = None
  BY DEF Init
<1>3. Remembered
  BY <1>2 DEF Init, Remembered, Restored
<1>4. ListsSorted /\ Inherited /\ HighestWhileWaiting
  BY <1>1, <1>2 DEF ListsSorted, Inherited, HighestWhileWaiting, ByPriority
<1> QED BY <1>3, <1>4 DEF PInv

LEMMA RememberedStep ==
    ASSUME IInv, PInv, OneMutex, Next
    PROVE  Remembered'
<1> USE Names DEF Runs, Calls, threadVars, mutexVars, callVars, OneMutex, Remembered,
                  Restored, PInv, IInv, ChangePriority, Restore
<1>1. ASSUME NEW t \in Thread, NEW m \in Mutexes, Take(t, m) PROVE Remembered'
  <2>1. CASE TakeAgain(t, m) \/ TakeRefused(t, m)
    BY <2>1 DEF TakeAgain, TakeRefused
  <2>2. CASE TakeFree(t, m)
    <3>1. owner[m] = None
      BY <2>2 DEF TakeFree, TypeOK, MutexOK
    <3> QED BY <2>2, <3>1 DEF TakeFree, TypeOK
  <2>3. ASSUME NEW timed \in BOOLEAN, TakeWaits(t, m, timed) PROVE Remembered'
    <3>1. owner[m] # t /\ UNCHANGED <<owner, original_priority>>
      BY <2>3 DEF TakeWaits
    <3>2. \A u \in Thread : u # owner[m] => current_priority'[u] = current_priority[u]
      BY <2>3 DEF TakeWaits, TypeOK
    <3> QED BY <3>1, <3>2
  <2> QED BY <1>1, <2>1, <2>2, <2>3 DEF Take
<1>2. ASSUME NEW t \in Thread, NEW m \in Mutexes, Release(t, m) PROVE Remembered'
  <2>1. CASE ReleaseRefused(t, m) \/ ReleaseOne(t, m)
    BY <2>1 DEF ReleaseRefused, ReleaseOne
  <2>2. CASE ReleaseFree(t, m) \/ ReleaseToWaiter(t, m)
    <3>1. owner[m] = t /\ original_priority[m] = InitPrio[t]
      BY <2>2 DEF ReleaseFree, ReleaseToWaiter
    <3>2. /\ current_priority'[t] = InitPrio[t]
          /\ \A u \in Thread : u # t => current_priority'[u] = current_priority[u]
      BY <2>2, <3>1 DEF ReleaseFree, ReleaseToWaiter, TypeOK
    <3>3. CASE ReleaseFree(t, m)
      BY <3>1, <3>2, <3>3 DEF ReleaseFree, TypeOK
    <3>4. CASE ReleaseToWaiter(t, m)
      <4>1. suspend_thread[m] \in Seq(Thread) /\ suspend_thread[m] # <<>>
            /\ Distinct(suspend_thread[m])
        BY <3>4 DEF ReleaseToWaiter, TypeOK, MutexOK, Distinct
      <4>2. PICK u \in Elements(suspend_thread[m]) : u = Head(suspend_thread[m])
        BY <4>1, TailList
      <4>3. u \in Thread /\ u # t /\ current_priority[u] = InitPrio[u]
        BY <3>1, <4>2, WaitersPriority
      <4>4. /\ owner' = [owner EXCEPT ![m] = u]
            /\ original_priority' = [original_priority EXCEPT ![m] = current_priority[u]]
        BY <3>4, <4>2 DEF ReleaseToWaiter
      <4> QED BY <3>1, <3>2, <4>3, <4>4 DEF TypeOK
    <3> QED BY <2>2, <3>3, <3>4
  <2> QED BY <1>2, <2>1, <2>2 DEF Release
<1>3. ASSUME NEW t \in Thread,
             TakeReturns(t) \/ Schedule(t) \/ Sleep(t) \/ SleepReturns(t) \/ ThreadTimeout(t)
      PROVE  Remembered'
  BY <1>3 DEF TakeReturns, Schedule, Sleep, SleepReturns, ThreadTimeout
<1>4. CASE TickYield
  BY <1>4 DEF TickYield
<1> QED BY <1>1, <1>2, <1>3, <1>4 DEF Next

(* What a step makes of the waiting list of a mutex, of its owner and of the  *)
(* priority of that thread.                                                   *)
ListStays(m) == UNCHANGED <<suspend_thread, owner, current_priority>>
ListEmpty(m) ==
    /\ suspend_thread[m] = <<>> /\ suspend_thread'[m] = <<>>
    /\ None \in {owner[m], owner'[m]}
ListLoses(m, u) ==
    /\ suspend_thread'[m] = Without(suspend_thread[m], u)
    /\ UNCHANGED <<owner, current_priority>>
ListHands(m, u) ==
    /\ suspend_thread[m] # <<>> /\ u = Head(suspend_thread[m])
    /\ suspend_thread'[m] = Tail(suspend_thread[m])
    /\ owner'[m] = u /\ current_priority'[u] = InitPrio[u]
ListGets(m, t) ==
    /\ suspend_thread'[m] = Suspended(suspend_thread[m], t, Flag[m], current_priority)
    /\ owner' = owner /\ current_priority[t] = InitPrio[t]
    /\ current_priority'[owner[m]] <= current_priority[owner[m]]
    /\ current_priority'[owner[m]] <= InitPrio[t]

LEMMA ListSteps ==
    ASSUME IInv, Restored, OneMutex, Next, NEW m \in Mutexes
    PROVE  \/ ListStays(m) \/ ListEmpty(m)
           \/ \E u \in Elements(suspend_thread[m]) : ListLoses(m, u)
           \/ \E u \in Elements(suspend_thread[m]) : ListHands(m, u)
           \/ \E t \in Thread \ Elements(suspend_thread[m]) : ListGets(m, t)
<1> USE Names DEF Runs, Calls, threadVars, mutexVars, callVars
<1> USE DEF IInv
<1>1. ASSUME NEW t \in Thread, NEW n \in Mutexes, Take(t, n)
      PROVE  \/ ListStays(m) \/ ListEmpty(m)
             \/ \E u \in Thread \ Elements(suspend_thread[m]) : ListGets(m, u)
  <2>1. n = m
    BY DEF OneMutex
  <2>2. CASE TakeAgain(t, m) \/ TakeRefused(t, m)
    BY <2>2 DEF TakeAgain, TakeRefused, ListStays
  <2>3. CASE TakeFree(t, m)
    BY <2>3 DEF TakeFree, TypeOK, MutexOK, ListEmpty
  <2>4. ASSUME NEW timed \in BOOLEAN, TakeWaits(t, m, timed)
        PROVE  \E u \in Thread \ Elements(suspend_thread[m]) : ListGets(m, u)
    <3>1. t \in ready /\ owner[m] # t /\ owner[m] \in Thread /\ pc[t] = "run"
      BY <2>4 DEF TakeWaits, ThreadsOK, TypeOK, MutexOK
    <3>2. t \notin Elements(suspend_thread[m])
      BY <3>1 DEF MutexOK
    <3>3. current_priority[t] = InitPrio[t]
      BY <3>1 DEF OneMutex, Restored
    <3>4. /\ suspend_thread'[m] = Suspended(suspend_thread[m], t, Flag[m], current_priority)
          /\ owner' = owner
      BY <2>4 DEF TakeWaits, TypeOK
    <3>5. current_priority'[owner[m]] = IF current_priority[t] < current_priority[owner[m]]
                                        THEN current_priority[t]
                                        ELSE current_priority[owner[m]]
      BY <2>4, <3>1 DEF TakeWaits, ChangePriority, TypeOK
    <3>6. ListGets(m, t)
      BY <3>1, <3>3, <3>4, <3>5, PriorityTypes DEF ListGets
    <3> QED BY <3>2, <3>6
  <2> QED BY <1>1, <2>1, <2>2, <2>3, <2>4 DEF Take
<1>2. ASSUME NEW t \in Thread, NEW n \in Mutexes, Release(t, n)
      PROVE  \/ ListStays(m) \/ ListEmpty(m)
             \/ \E u \in Elements(suspend_thread[m]) : ListHands(m, u)
  <2>1. n = m
    BY DEF OneMutex
  <2>2. CASE ReleaseRefused(t, m) \/ ReleaseOne(t, m)
    BY <2>2 DEF ReleaseRefused, ReleaseOne, ListStays
  <2>3. CASE ReleaseFree(t, m)
    BY <2>3 DEF ReleaseFree, TypeOK, ListEmpty
  <2>4. CASE ReleaseToWaiter(t, m)
    <3>1. /\ suspend_thread[m] \in Seq(Thread) /\ suspend_thread[m] # <<>>
          /\ Distinct(suspend_thread[m]) /\ owner[m] = t
      BY <2>4 DEF ReleaseToWaiter, TypeOK, MutexOK, Distinct
    <3>2. PICK u \in Elements(suspend_thread[m]) : u = Head(suspend_thread[m])
      BY <3>1, TailList
    <3>3. u \in Thread /\ u # t /\ current_priority[u] = InitPrio[u]
      BY <3>1, <3>2, WaitersPriority
    <3>4. owner'[m] = u /\ suspend_thread'[m] = Tail(suspend_thread[m])
      BY <2>4, <3>2 DEF ReleaseToWaiter, TypeOK
    <3>5. current_priority'[u] = current_priority[u]
      BY <2>4, <3>3 DEF ReleaseToWaiter, Restore, ChangePriority, TypeOK
    <3>6. ListHands(m, u)
      BY <3>1, <3>2, <3>3, <3>4, <3>5 DEF ListHands
    <3> QED BY <3>6
  <2> QED BY <1>2, <2>1, <2>2, <2>3, <2>4 DEF Release
<1>3. ASSUME NEW u \in Thread, ThreadTimeout(u)
      PROVE  \/ ListStays(m)
             \/ \E v \in Elements(suspend_thread[m]) : ListLoses(m, v)
  <2>1. UNCHANGED <<owner, current_priority>>
    BY <1>3 DEF ThreadTimeout
  <2>2. CASE u \in Elements(suspend_thread[m])
    BY <1>3, <2>1, <2>2 DEF ThreadTimeout, ListLoses
  <2>3. CASE u \notin Elements(suspend_thread[m])
    <3>1. suspend_thread' = [n \in Mutexes |-> suspend_thread[n]]
      BY <1>3, <2>3 DEF ThreadTimeout, OneMutex
    <3>2. suspend_thread' = suspend_thread
      BY <3>1 DEF TypeOK
    <3> QED BY <2>1, <3>2 DEF ListStays
  <2> QED BY <2>2, <2>3
<1>4. ASSUME NEW t \in Thread, TakeReturns(t) \/ Schedule(t) \/ Sleep(t) \/ SleepReturns(t)
      PROVE  ListStays(m)
  BY <1>4 DEF TakeReturns, Schedule, Sleep, SleepReturns, ListStays
<1>5. CASE TickYield
  BY <1>5 DEF TickYield, ListStays
<1> QED BY <1>1, <1>2, <1>3, <1>4, <1>5 DEF Next

LEMMA ListsStep ==
    ASSUME IInv, PInv, OneMutex, Next
    PROVE  ListsSorted' /\ Inherited'
<1> USE DEF PInv, Remembered
<1> SUFFICES ASSUME NEW m \in Mutexes, Flag[m] = "PRIO"
             PROVE  /\ ByPriority(suspend_thread'[m], InitPrio)
                    /\ \A w \in Elements(suspend_thread'[m]) :
                           current_priority'[owner'[m]] <= InitPrio[w]
  BY DEF ListsSorted, Inherited
<1> DEFINE s == suspend_thread[m]
<1>1. /\ s \in Seq(Thread) /\ Distinct(s) /\ ByPriority(s, InitPrio)
      /\ \A w \in Elements(s) : current_priority[owner[m]] <= InitPrio[w]
  BY DEF IInv, TypeOK, MutexOK, Distinct, ListsSorted, Inherited
<1>2. InitPrio \in [Thread -> Int] /\ current_priority \in [Thread -> Int]
  BY PriorityTypes DEF IInv
<1>3. CASE ListStays(m)
  BY <1>1, <1>3 DEF ListStays
<1>4. CASE ListEmpty(m)
  <2>1. \A r \in {<<>>} : Elements(r) = {} /\ DOMAIN r = {}
    BY DEF Elements
  <2> QED BY <1>4, <2>1 DEF ListEmpty, ByPriority
<1>5. ASSUME NEW u \in Elements(s), ListLoses(m, u)
      PROVE  /\ ByPriority(suspend_thread'[m], InitPrio)
             /\ \A w \in Elements(suspend_thread'[m]) :
                    current_priority'[owner'[m]] <= InitPrio[w]
  <2>1. ByPriority(Without(s, u), InitPrio) /\ Elements(Without(s, u)) = Elements(s) \ {u}
    BY <1>1, <1>2, RemovedInOrder, RemovedList
  <2> QED BY <1>1, <1>5, <2>1 DEF ListLoses
<1>6. ASSUME NEW u \in Elements(s), ListHands(m, u)
      PROVE  /\ ByPriority(suspend_thread'[m], InitPrio)
             /\ \A w \in Elements(suspend_thread'[m]) :
                    current_priority'[owner'[m]] <= InitPrio[w]
  <2>1. s # <<>> /\ u = Head(s)
    BY <1>6 DEF ListHands
  <2>2. /\ ByPriority(Tail(s), InitPrio) /\ Elements(Tail(s)) = Elements(s) \ {u}
        /\ \A w \in Elements(s) : InitPrio[u] <= InitPrio[w]
    BY <1>1, <1>2, <2>1, TailInOrder, TailList
  <2> QED BY <1>6, <2>2 DEF ListHands
<1>7. ASSUME NEW t \in Thread \ Elements(s), ListGets(m, t)
      PROVE  /\ ByPriority(suspend_thread'[m], InitPrio)
             /\ \A w \in Elements(suspend_thread'[m]) :
                    current_priority'[owner'[m]] <= InitPrio[w]
  <2> DEFINE r == Suspended(s, t, Flag[m], current_priority)
  <2>1. suspend_thread'[m] = r /\ owner'[m] = owner[m] /\ current_priority[t] = InitPrio[t]
    BY <1>7 DEF ListGets
  <2>2. /\ current_priority'[owner[m]] <= current_priority[owner[m]]
        /\ current_priority'[owner[m]] <= InitPrio[t]
    BY <1>7 DEF ListGets
  <2>3. \A w \in Elements(s) : current_priority[w] = InitPrio[w]
    BY WaitersPriority
  <2>4. ByPriority(s, current_priority)
    BY <1>1, <2>3 DEF ByPriority, Elements
  <2>5. r \in Seq(Thread) /\ Elements(r) = Elements(s) \cup {t}
    BY <1>1, <1>2, SuspendedList
  <2>6. ByPriority(r, current_priority)
    <3>1. Flag[m] # "FIFO"
      OBVIOUS
    <3>2. s \in Seq(Thread) /\ t \in Thread
      BY <1>1
    <3> HIDE DEF s
    <3> QED BY <1>2, <2>4, <3>1, <3>2, SuspendedInOrder
  <2> HIDE DEF r
  <2>7. ByPriority(r, InitPrio)
    <3>1. \A i \in DOMAIN r : r[i] \in Elements(s) \cup {t}
      BY <2>5 DEF Elements
    <3>2. \A i \in DOMAIN r : current_priority[r[i]] = InitPrio[r[i]]
      BY <2>1, <2>3, <3>1
    <3> QED BY <2>6, <3>2 DEF ByPriority
  <2>8. ASSUME NEW w \in Elements(s) PROVE current_priority'[owner[m]] <= InitPrio[w]
    <3>1. /\ current_priority[owner[m]] <= InitPrio[w] /\ owner[m] \in Thread /\ w \in Thread
      BY <1>1, WaitersPriority
    <3>2. current_priority'[owner[m]] \in Int
      <4>1. TypeOK'
        BY InvStep DEF IInv
      <4>2. current_priority' \in [Thread -> 0..NoPriority-1]
        BY <4>1 DEF TypeOK
      <4> QED BY <3>1, <4>2 DEF NoPriority
    <3> QED BY <1>2, <2>2, <3>1, <3>2
  <2> QED BY <2>1, <2>2, <2>5, <2>7, <2>8
<1> QED BY <1>3, <1>4, <1>5, <1>6, <1>7, ListSteps

LEMMA HighestStep ==
    ASSUME IInv, PInv, OneMutex, Next
    PROVE  HighestWhileWaiting'
<1> USE Names DEF Runs, Calls, threadVars, mutexVars, callVars, HighestWhileWaiting
<1> USE DEF PInv, IInv
<1>1. ASSUME NEW s \in SUBSET Thread, ready' = s, Reschedule(s), UNCHANGED current_priority
      PROVE  HighestWhileWaiting'
  BY <1>1 DEF Reschedule, Top
<1>2. ASSUME NEW t \in Thread, NEW m \in Mutexes, Take(t, m) PROVE HighestWhileWaiting'
  <2>1. CASE TakeAgain(t, m) \/ TakeRefused(t, m)
    BY <2>1 DEF TakeAgain, TakeRefused
  <2>2. CASE TakeFree(t, m)
    BY <2>2 DEF TakeFree, TypeOK, MutexOK, OneMutex
  <2>3. ASSUME NEW timed \in BOOLEAN, TakeWaits(t, m, timed) PROVE HighestWhileWaiting'
    BY <2>3 DEF TakeWaits, TypeOK
  <2> QED BY <1>2, <2>1, <2>2, <2>3 DEF Take
<1>3. ASSUME NEW t \in Thread, NEW m \in Mutexes, Release(t, m) PROVE HighestWhileWaiting'
  <2>1. CASE ReleaseRefused(t, m) \/ ReleaseOne(t, m)
    BY <2>1 DEF ReleaseRefused, ReleaseOne
  <2>2. CASE ReleaseFree(t, m)
    BY <2>2 DEF ReleaseFree, OneMutex
  <2>3. CASE ReleaseToWaiter(t, m)
    BY <2>3 DEF ReleaseToWaiter, TypeOK
  <2> QED BY <1>3, <2>1, <2>2, <2>3 DEF Release
<1>4. ASSUME NEW t \in Thread, TakeReturns(t) \/ Sleep(t) \/ SleepReturns(t)
      PROVE  HighestWhileWaiting'
  <2>1. CASE TakeReturns(t) \/ SleepReturns(t)
    BY <2>1 DEF TakeReturns, SleepReturns, TypeOK
  <2>2. CASE Sleep(t)
    BY <2>2 DEF Sleep, TypeOK
  <2> QED BY <1>4, <2>1, <2>2
<1>5. ASSUME NEW t \in Thread, Schedule(t) PROVE HighestWhileWaiting'
  BY <1>1, <1>5 DEF Schedule, TypeOK
<1>6. ASSUME NEW u \in Thread, ThreadTimeout(u) PROVE HighestWhileWaiting'
  <2>1. ready \cup {u} \in SUBSET Thread
    BY DEF TypeOK
  <2> QED BY <1>6, <2>1 DEF ThreadTimeout, Reschedule, Top
<1>7. CASE TickYield
  BY <1>1, <1>7 DEF TickYield, TypeOK
<1> QED BY <1>2, <1>3, <1>4, <1>5, <1>6, <1>7 DEF Next

LEMMA PriorityStep == ASSUME OneMutex PROVE IInv /\ PInv /\ [Next]_vars => PInv'
<1> SUFFICES ASSUME IInv, PInv, [Next]_vars PROVE PInv'
  OBVIOUS
<1>1. CASE Next
  BY <1>1, RememberedStep, ListsStep, HighestStep DEF PInv
<1>2. CASE UNCHANGED vars
  BY <1>2 DEF vars, threadVars, mutexVars, callVars, PInv, Remembered, Restored,
              ListsSorted, Inherited, HighestWhileWaiting
<1> QED BY <1>1, <1>2

LEMMA PriorityCorrect == ASSUME OneMutex PROVE Spec => []PInv
BY InvCorrect, PriorityInit, PriorityStep, PTL DEF Spec

(* With one mutex a thread that owns nothing has the priority it was given.   *)
THEOREM PriorityRestored == ASSUME OneMutex PROVE Spec => []Restored
<1>1. PInv => Restored
  BY DEF PInv, Remembered
<1> QED BY <1>1, PriorityCorrect, PTL

(* With one mutex of flag PRIO nothing of a lower priority than a waiting     *)
(* thread runs while the owner is ready.                                      *)
THEOREM NothingOvertakes == ASSUME OneMutex, AllByPriority PROVE Spec => []NoInversion
<1>1. IInv /\ PInv => NoInversion
  <2> SUFFICES ASSUME IInv, PInv, NEW m \in Mutexes, owner[m] \in ready, cur # None,
                      pc[cur] = "run", NEW w \in Elements(suspend_thread[m])
               PROVE  current_priority[cur] <= current_priority[w]
    BY DEF NoInversion
  <2>1. w \in Thread /\ owner[m] \in Thread /\ current_priority[w] = InitPrio[w]
    BY WaitersPriority DEF PInv, Remembered
  <2>2. current_priority[owner[m]] <= current_priority[w]
    BY <2>1 DEF PInv, Inherited, AllByPriority
  <2>3. current_priority[cur] <= current_priority[owner[m]]
    <3>1. suspend_thread[m] # <<>>
      BY DEF Elements
    <3> QED BY <3>1 DEF PInv, HighestWhileWaiting
  <2>4. cur \in Thread
    BY DEF IInv, TypeOK
  <2> QED BY <2>1, <2>2, <2>3, <2>4, PriorityTypes DEF IInv
<1> QED BY <1>1, InvCorrect, PriorityCorrect, PTL

-----------------------------------------------------------------------------
(* Turns *)

(* What a step makes of the waiting list of a mutex, and who owns it then, for *)
(* any number of mutexes.                                                     *)
ListSame(m) ==
    /\ suspend_thread'[m] = suspend_thread[m]
    /\ owner[m] = None \/ owner'[m] \in {owner[m], None}
ListMore(m, t) ==
    /\ suspend_thread'[m] = Suspended(suspend_thread[m], t, Flag[m], current_priority)
    /\ owner'[m] = owner[m] /\ owner[m] # t
ListFirst(m) ==
    /\ suspend_thread[m] # <<>> /\ suspend_thread'[m] = Tail(suspend_thread[m])
    /\ owner'[m] = Head(suspend_thread[m])
ListLess(m, t) ==
    /\ suspend_thread'[m] = Without(suspend_thread[m], t)
    /\ owner'[m] = owner[m]

LEMMA AnyList ==
    ASSUME IInv, [Next]_vars, NEW m \in Mutexes
    PROVE  \/ ListSame(m) \/ ListFirst(m)
           \/ \E t \in Thread \ Elements(suspend_thread[m]) : ListMore(m, t)
           \/ \E t \in Elements(suspend_thread[m]) : ListLess(m, t)
<1> USE Names DEF Runs, Calls, threadVars, mutexVars, callVars, IInv, TypeOK
<1>1. ASSUME NEW t \in Thread, NEW n \in Mutexes, Take(t, n)
      PROVE  \/ ListSame(m)
             \/ \E u \in Thread \ Elements(suspend_thread[m]) : ListMore(m, u)
  <2>1. CASE TakeAgain(t, n) \/ TakeRefused(t, n)
    BY <2>1 DEF TakeAgain, TakeRefused, ListSame
  <2>2. CASE TakeFree(t, n)
    BY <2>2 DEF TakeFree, MutexOK, ListSame
  <2>3. ASSUME NEW timed \in BOOLEAN, TakeWaits(t, n, timed)
        PROVE  \/ ListSame(m)
               \/ \E u \in Thread \ Elements(suspend_thread[m]) : ListMore(m, u)
    <3>1. CASE m = n
      <4>1. t \in ready
        BY <2>3 DEF TakeWaits, ThreadsOK
      <4>2. t \notin Elements(suspend_thread[m])
        BY <4>1 DEF MutexOK
      <4>3. ListMore(m, t)
        BY <2>3, <3>1 DEF TakeWaits, ListMore
      <4> QED BY <4>2, <4>3
    <3>2. CASE m # n
      BY <2>3, <3>2 DEF TakeWaits, ListSame
    <3> QED BY <3>1, <3>2
  <2> QED BY <1>1, <2>1, <2>2, <2>3 DEF Take
<1>2. ASSUME NEW t \in Thread, NEW n \in Mutexes, Release(t, n)
      PROVE  ListSame(m) \/ ListFirst(m)
  <2>1. CASE ReleaseRefused(t, n) \/ ReleaseOne(t, n)
    BY <2>1 DEF ReleaseRefused, ReleaseOne, ListSame
  <2>2. CASE ReleaseFree(t, n)
    BY <2>2 DEF ReleaseFree, ListSame
  <2>3. CASE ReleaseToWaiter(t, n) /\ m = n
    BY <2>3 DEF ReleaseToWaiter, ListFirst
  <2>4. CASE ReleaseToWaiter(t, n) /\ m # n
    BY <2>4 DEF ReleaseToWaiter, ListSame
  <2> QED BY <1>2, <2>1, <2>2, <2>3, <2>4 DEF Release
<1>3. ASSUME NEW u \in Thread, ThreadTimeout(u)
      PROVE  ListSame(m) \/ \E t \in Elements(suspend_thread[m]) : ListLess(m, t)
  <2>1. /\ owner' = owner
        /\ suspend_thread'[m] = IF u \in Elements(suspend_thread[m])
                                THEN Without(suspend_thread[m], u) ELSE suspend_thread[m]
    BY <1>3 DEF ThreadTimeout
  <2> QED BY <2>1 DEF ListSame, ListLess
<1>4. ASSUME NEW t \in Thread, TakeReturns(t) \/ Schedule(t) \/ Sleep(t) \/ SleepReturns(t)
      PROVE  ListSame(m)
  BY <1>4 DEF TakeReturns, Schedule, Sleep, SleepReturns, ListSame
<1>5. CASE TickYield \/ UNCHANGED vars
  BY <1>5 DEF TickYield, ListSame, vars
<1> QED BY <1>1, <1>2, <1>3, <1>4, <1>5 DEF Next

LEMMA OtherPriorities ==
    ASSUME NEW s, NEW r, NEW flag \in {"FIFO", "PRIO"}, NEW p, NEW q, InTurn(s, r, flag, p),
           flag = "FIFO" \/ \A t \in Elements(r) : p[t] = q[t]
    PROVE  InTurn(s, r, flag, q)
BY DEF InTurn

(* Nobody is overtaken in the list of a mutex of flag FIFO, however many       *)
(* mutexes there are, and of any flag if there is one: rt_mutex_release hands  *)
(* it to the first, who is of the highest priority if the flag is PRIO.  (With *)
(* several mutexes a thread may inherit a priority while it waits for one of   *)
(* flag PRIO, and its place in that list stays.)                               *)
THEOREM FirstGetsIt ==
    ASSUME OneMutex \/ \A m \in Mutexes : Flag[m] = "FIFO" PROVE Spec => HandedInTurn
<1> DEFINE Known == OneMutex => PInv
<1>1. Spec => []Known
  <2>1. CASE OneMutex
    <3>1. PInv => Known
      OBVIOUS
    <3> QED BY <2>1, <3>1, PriorityCorrect, PTL
  <2>2. CASE ~OneMutex
    <3>1. Known
      BY <2>2
    <3> QED BY <3>1, PTL
  <2> QED BY <2>1, <2>2
<1>2. ASSUME IInv, Known, [Next]_vars, NEW m \in Mutexes PROVE HandsOn(m)
  <2>1. PICK s : s = suspend_thread[m]
    OBVIOUS
  <2>2. PICK r : r = suspend_thread'[m]
    OBVIOUS
  <2>3. PICK flag \in {"FIFO", "PRIO"} : flag = Flag[m]
    BY MutexAssumption
  <2>4. PICK prio \in [Thread -> Int] : prio = current_priority
    BY <1>2, PriorityTypes DEF IInv
  <2>5. /\ s \in Seq(Thread) /\ Distinct(s) /\ InitPrio \in [Thread -> Int]
        /\ flag = "FIFO" \/ (OneMutex /\ PInv)
    BY <1>2, <2>1, <2>3, PriorityTypes DEF IInv, TypeOK, MutexOK, Distinct
  <2>6. flag = "FIFO" \/ /\ ByPriority(s, InitPrio)
                         /\ \A t \in Elements(s) : prio[t] = InitPrio[t]
    <3>1. ASSUME flag = "PRIO", NEW t \in Elements(s) PROVE prio[t] = InitPrio[t]
      BY <1>2, <2>1, <2>4, <2>5, <3>1, WaitersPriority DEF PInv, Remembered
    <3>2. ASSUME flag = "PRIO" PROVE ByPriority(s, InitPrio)
      BY <2>1, <2>3, <2>5, <3>2 DEF PInv, ListsSorted
    <3> QED BY <3>1, <3>2
  <2> DEFINE Hands == owner[m] # None /\ owner'[m] \notin {owner[m], None}
             First(u) == /\ u \in Elements(s)
                         /\ \A v \in Elements(s) : ~Ahead(s, v, u)
                         /\ flag = "PRIO" => u \in Top(Elements(s), InitPrio)
  <2>7. SUFFICES InTurn(s, r, flag, InitPrio) /\ (Hands => First(owner'[m]))
    BY <2>1, <2>2, <2>3 DEF HandsOn
  <2>8. CASE ListSame(m)
    <3>1. r = s /\ ~Hands
      BY <2>1, <2>2, <2>8 DEF ListSame
    <3> QED BY <3>1, SameKeeps, KeepsInTurn
  <2>9. CASE ListFirst(m)
    <3>1. s # <<>> /\ r = Tail(s) /\ owner'[m] = Head(s)
      BY <2>1, <2>2, <2>9 DEF ListFirst
    <3>2. Keeps(s, r) /\ \A v : ~Ahead(s, v, Head(s))
      BY <2>5, <3>1, TailKeeps
    <3>3. Head(s) \in Elements(s)
      BY <2>5, <3>1, TailList
    <3>4. flag = "PRIO" => \A v \in Elements(s) : InitPrio[Head(s)] <= InitPrio[v]
      BY <2>5, <2>6, <3>1, TailInOrder
    <3> QED BY <3>1, <3>2, <3>3, <3>4, KeepsInTurn DEF Top
  <2>10. ASSUME NEW t \in Elements(s), ListLess(m, t)
         PROVE  InTurn(s, r, flag, InitPrio) /\ ~Hands
    <3>1. r = Without(s, t) /\ ~Hands
      BY <2>1, <2>2, <2>10 DEF ListLess
    <3>2. Keeps(s, r)
      BY <2>5, <3>1, RemovedKeeps
    <3> QED BY <3>1, <3>2, KeepsInTurn
  <2>11. ASSUME NEW t \in Thread \ Elements(s), ListMore(m, t)
         PROVE  InTurn(s, r, flag, InitPrio) /\ ~Hands
    <3>1. r = Suspended(s, t, flag, prio) /\ ~Hands /\ owner[m] # t
      BY <2>1, <2>2, <2>3, <2>4, <2>11 DEF ListMore
    <3>2. flag = "FIFO" \/ ByPriority(s, prio)
      BY <2>6 DEF ByPriority, Elements
    <3>3. InTurn(s, r, flag, prio)
      BY <2>4, <2>5, <3>1, <3>2, SuspendedInTurn
    <3>4. Elements(r) = Elements(s) \cup {t}
      BY <2>4, <2>5, <3>1, SuspendedList
    <3>5. flag = "FIFO" \/ prio[t] = InitPrio[t]
      BY <2>4, <2>5, <3>1 DEF OneMutex, PInv, Remembered, Restored
    <3>6. flag = "FIFO" \/ \A u \in Elements(r) : prio[u] = InitPrio[u]
      BY <2>6, <3>4, <3>5
    <3>7. InTurn(s, r, flag, InitPrio)
      BY <3>3, <3>6, OtherPriorities
    <3> QED BY <3>1, <3>7
  <2> QED BY <1>2, <2>1, <2>8, <2>9, <2>10, <2>11, AnyList
<1>3. IInv /\ Known /\ [Next]_vars => [\A m \in Mutexes : HandsOn(m)]_vars
  BY <1>2
<1> HIDE DEF Known
<1> QED BY <1>1, <1>3, InvCorrect, PTL DEF Spec, HandedInTurn

-----------------------------------------------------------------------------
(* Several mutexes *)

(* What a step does to a thread's wish and to the owner of a mutex.           *)
LEMMA OwnerStep ==
    ASSUME IInv, [Next]_vars, NEW t \in Thread
    PROVE  /\ want'[t] # want[t] => owner' = owner
           /\ \A m \in Mutexes : owner'[m] = t /\ owner[m] # t =>
                  \/ want[t] = m /\ owner[m] # None
                  \/ want[t] = None /\ owner[m] = None
<1> USE Names DEF Runs, Calls, threadVars, mutexVars, callVars, IInv, TypeOK
<1>1. ASSUME NEW u \in Thread, NEW n \in Mutexes, Take(u, n)
      PROVE  /\ want'[t] # want[t] => owner' = owner
             /\ \A m \in Mutexes : owner'[m] = t /\ owner[m] # t =>
                    want[t] = None /\ owner[m] = None
  <2>1. CASE TakeAgain(u, n) \/ TakeRefused(u, n)
    BY <2>1 DEF TakeAgain, TakeRefused
  <2>2. CASE TakeFree(u, n)
    <3>1. want' = want /\ owner' = [owner EXCEPT ![n] = u] /\ owner[n] = None /\ want[u] = None
      BY <2>2 DEF TakeFree, MutexOK, ThreadsOK
    <3> QED BY <3>1
  <2>3. CASE \E timed \in BOOLEAN : TakeWaits(u, n, timed)
    BY <2>3 DEF TakeWaits
  <2> QED BY <1>1, <2>1, <2>2, <2>3 DEF Take
<1>2. ASSUME NEW u \in Thread, NEW n \in Mutexes, Release(u, n)
      PROVE  /\ want' = want
             /\ \A m \in Mutexes : owner'[m] = t /\ owner[m] # t =>
                    want[t] = m /\ owner[m] # None
  <2>1. CASE ReleaseRefused(u, n) \/ ReleaseOne(u, n)
    BY <2>1 DEF ReleaseRefused, ReleaseOne
  <2>2. CASE ReleaseFree(u, n)
    BY <2>2 DEF ReleaseFree
  <2>3. CASE ReleaseToWaiter(u, n)
    <3>1. suspend_thread[n] \in Seq(Thread) /\ suspend_thread[n] # <<>>
          /\ Distinct(suspend_thread[n])
      BY <2>3 DEF ReleaseToWaiter, MutexOK, Distinct
    <3>2. PICK w \in Elements(suspend_thread[n]) : w = Head(suspend_thread[n])
      BY <3>1, TailList
    <3>3. want[w] = n /\ owner' = [owner EXCEPT ![n] = w] /\ want' = want /\ owner[n] = u
      BY <2>3, <3>2 DEF ReleaseToWaiter, MutexOK
    <3> QED BY <3>3
  <2> QED BY <1>2, <2>1, <2>2, <2>3 DEF Release
<1>3. ASSUME NEW u \in Thread,
             TakeReturns(u) \/ Schedule(u) \/ Sleep(u) \/ SleepReturns(u) \/ ThreadTimeout(u)
      PROVE  owner' = owner
  BY <1>3 DEF TakeReturns, Schedule, Sleep, SleepReturns, ThreadTimeout
<1>4. CASE TickYield \/ UNCHANGED vars
  BY <1>4 DEF TickYield, vars
<1> QED BY <1>1, <1>2, <1>3, <1>4 DEF Next

(* A program takes its mutexes in the order of their ranks: a thread takes or *)
(* waits for a mutex only if it ranks above those that the thread owns.       *)
Asks(t, m) == (owner[m] = None /\ owner'[m] = t) \/ (want[t] # m /\ want'[t] = m)
InOrder(Rank) ==
    \A t \in Thread, m \in Mutexes : Asks(t, m) =>
        \A n \in Mutexes : owner[n] = t => Rank[n] < Rank[m]

(* Thread t waits for a mutex that u owns; and no threads do so in a circle.  *)
WaitsFor(t, u) == \E m \in Mutexes : t \in Elements(suspend_thread[m]) /\ owner[m] = u
NoCircle ==
    \A S \in SUBSET Thread : S # {} => \E t \in S : \A u \in S : ~WaitsFor(t, u)

(* Those who wait rank what they wait for above all that they own. *)
Ascending(Rank) ==
    \A t \in Thread, m \in Mutexes : want[t] = m =>
        \A n \in Mutexes : owner[n] = t => n = m \/ Rank[n] < Rank[m]

LEMMA AscendingStep ==
    ASSUME NEW Rank, IInv, Ascending(Rank), [Next]_vars, UNCHANGED vars \/ InOrder(Rank)
    PROVE  Ascending(Rank)'
<1> SUFFICES ASSUME NEW t \in Thread, NEW m \in Mutexes, want'[t] = m,
                    NEW n \in Mutexes, owner'[n] = t
             PROVE  n = m \/ Rank[n] < Rank[m]
  BY DEF Ascending
<1>1. CASE UNCHANGED vars
  BY <1>1 DEF vars, callVars, mutexVars, Ascending
<1>2. CASE want[t] # m /\ InOrder(Rank)
  <2>1. owner' = owner
    BY <1>2, OwnerStep
  <2> QED BY <1>2, <2>1 DEF InOrder, Asks
<1>3. CASE want[t] = m
  <2>1. owner[n] = t \/ n = m
    BY <1>3, OwnerStep, Names
  <2> QED BY <1>3, <2>1 DEF Ascending
<1> QED BY <1>1, <1>2, <1>3

(* Among finitely many threads one has the largest number. *)
LEMMA Largest ==
    ASSUME NEW T, NEW f \in [T -> Nat], NEW S \in SUBSET T, S # {}, IsFiniteSet(S)
    PROVE  \E t \in S : \A u \in S : f[u] <= f[t]
<1> DEFINE Top1(R) == \E t \in R : \A u \in R : f[u] <= f[t]
           bad == {n \in Nat : \E R \in SUBSET T :
                      R # {} /\ IsFiniteSet(R) /\ Cardinality(R) = n /\ ~Top1(R)}
<1>1. SUFFICES ASSUME bad # {} PROVE FALSE
  <2>1. Cardinality(S) \in Nat
    BY FS_CardinalityType
  <2> HIDE DEF Top1
  <2>2. ~Top1(S) => Cardinality(S) \in bad
    BY <2>1
  <2> QED BY <1>1, <2>2 DEF Top1
<1>2. PICK n \in bad : \A k \in bad : n <= k
  <2>1. bad \in SUBSET Nat
    OBVIOUS
  <2> HIDE DEF bad
  <2> QED BY <1>1, <2>1, Smallest
<1>3. PICK R \in SUBSET T : R # {} /\ IsFiniteSet(R) /\ Cardinality(R) = n /\ ~Top1(R)
  BY <1>2
<1>4. PICK t \in R : TRUE
  BY <1>3
<1>5. IsFiniteSet(R \ {t}) /\ Cardinality(R \ {t}) = n - 1 /\ n \in Nat
  BY <1>3, <1>4, FS_RemoveElement, FS_CardinalityType
<1>6. CASE R \ {t} = {}
  <2>1. \A u \in R : u = t
    BY <1>6
  <2>2. f[t] \in Nat
    BY <1>3, <1>4
  <2> QED BY <1>3, <2>1, <2>2
<1>7. CASE R \ {t} # {}
  <2>1. Cardinality(R \ {t}) \in Nat
    BY <1>5, FS_CardinalityType
  <2>2. n - 1 \notin bad
    BY <1>2, <1>5, <2>1
  <2>3. Top1(R \ {t})
    <3> HIDE DEF Top1
    <3> QED BY <1>3, <1>5, <1>7, <2>1, <2>2
  <2>4. PICK v \in R \ {t} : \A u \in R \ {t} : f[u] <= f[v]
    BY <2>3
  <2>5. f[v] \in Nat /\ f[t] \in Nat /\ \A u \in R : f[u] \in Nat
    BY <1>3, <1>4, <2>4
  <2>6. CASE f[t] <= f[v]
    <3>1. \A u \in R : f[u] <= f[v]
      BY <2>4, <2>6
    <3> QED BY <1>3, <2>4, <3>1
  <2>7. CASE ~(f[t] <= f[v])
    <3>1. \A u \in R : f[u] <= f[t]
      BY <2>4, <2>5, <2>7
    <3> QED BY <1>3, <1>4, <3>1
  <2> QED BY <2>6, <2>7
<1> QED BY <1>6, <1>7

(* Threads that take their mutexes in one order never wait for each other in  *)
(* a circle, for any number of threads and mutexes: rt_mutex_release hands a  *)
(* mutex only to a thread that had asked for it, and inheritance, timeouts and *)
(* preemption in between add nothing to what a thread waits for.              *)
THEOREM NoDeadlock ==
    ASSUME NEW CONSTANT Rank \in [Mutexes -> Nat]
    PROVE  Spec /\ [][InOrder(Rank)]_vars => []NoCircle
<1>1. Init => Ascending(Rank)
  BY Names DEF Init, Ascending
<1>2. IInv /\ Ascending(Rank) /\ [Next]_vars /\ [InOrder(Rank)]_vars => Ascending(Rank)'
  BY AscendingStep
<1>3. ASSUME IInv, Ascending(Rank) PROVE NoCircle
  <2> SUFFICES ASSUME NEW S \in SUBSET Thread, S # {},
                      \A t \in S : \E u \in S : WaitsFor(t, u)
               PROVE  FALSE
    BY DEF NoCircle
  <2>1. \A t \in S : want[t] \in Mutexes /\ t \in Elements(suspend_thread[want[t]])
                   /\ owner[want[t]] \in S
    <3> SUFFICES ASSUME NEW t \in S
                 PROVE  want[t] \in Mutexes /\ t \in Elements(suspend_thread[want[t]])
                        /\ owner[want[t]] \in S
      OBVIOUS
    <3>1. PICK m \in Mutexes : t \in Elements(suspend_thread[m]) /\ owner[m] \in S
      BY DEF WaitsFor
    <3>2. Elements(suspend_thread[m]) = {u \in Thread \ ready : want[u] = m}
      BY <1>3 DEF IInv, MutexOK
    <3>3. want[t] = m
      BY <3>1, <3>2
    <3> QED BY <3>1, <3>3
  <2>2. PICK f : f = [t \in S |-> Rank[want[t]]]
    OBVIOUS
  <2>3. f \in [S -> Nat] /\ IsFiniteSet(S)
    BY <2>1, <2>2, MutexAssumption, FS_Subset
  <2>4. PICK t \in S : \A u \in S : f[u] <= f[t]
    BY <2>3, Largest
  <2>5. PICK u \in S : u = owner[want[t]]
    BY <2>1
  <2>6. want[t] # want[u]
    <3>1. u \notin ready /\ u \in Thread
      BY <1>3, <2>1 DEF IInv, MutexOK
    <3>2. owner[want[u]] # u
      BY <1>3, <2>1, <3>1 DEF IInv, WaitOK
    <3> QED BY <2>5, <3>2
  <2>7. Rank[want[t]] < Rank[want[u]]
    BY <1>3, <2>1, <2>5, <2>6 DEF Ascending
  <2>8. f[u] = Rank[want[u]] /\ f[t] = Rank[want[t]] /\ f[u] \in Nat /\ f[t] \in Nat
    BY <2>2, <2>3
  <2> QED BY <2>4, <2>7, <2>8
<1>4. IInv /\ Ascending(Rank) => NoCircle
  BY <1>3
<1> QED BY <1>1, <1>2, <1>4, InvCorrect, PTL DEF Spec

(* The program also releases the lowest mutex that a thread owns last.        *)
LowestLast(Rank) ==
    \A t \in Thread, m \in Mutexes : owner[m] = t /\ owner'[m] # t =>
        \/ \A n \in Mutexes : owner[n] = t => n = m
        \/ \E n \in Mutexes : owner[n] = t /\ Rank[n] < Rank[m]

(* Then the lowest mutex of a thread, which it took before the others,        *)
(* remembers the priority it was given.                                       *)
Lowest(Rank, m) == \A n \in Mutexes : owner[n] = owner[m] => Rank[m] <= Rank[n]
LowestRemembers(Rank) ==
    /\ Restored
    /\ \A m \in Mutexes : owner[m] # None /\ Lowest(Rank, m) =>
           original_priority[m] = InitPrio[owner[m]]

LEMMA LowestStep ==
    ASSUME NEW Rank \in [Mutexes -> Nat], IInv, Ascending(Rank), LowestRemembers(Rank), Next,
           InOrder(Rank), LowestLast(Rank)
    PROVE  LowestRemembers(Rank)'
<1> USE Names DEF Runs, Calls, threadVars, mutexVars, callVars, IInv, TypeOK
<1>r. \A m \in Mutexes : Rank[m] \in Nat
  OBVIOUS
(* Where no mutex changes hands, and the owners of some alone get another priority. *)
<1>0. ASSUME UNCHANGED <<owner, original_priority>>,
             \A u \in Thread : current_priority'[u] = current_priority[u]
                            \/ \E m \in Mutexes : owner[m] = u
      PROVE  LowestRemembers(Rank)'
  <2>1. Restored'
    BY <1>0 DEF LowestRemembers, Restored
  <2>2. \A m \in Mutexes : Lowest(Rank, m)' <=> Lowest(Rank, m)
    BY <1>0 DEF Lowest
  <2> QED BY <1>0, <2>1, <2>2 DEF LowestRemembers
<1>1. ASSUME NEW t \in Thread, NEW m \in Mutexes, Take(t, m) PROVE LowestRemembers(Rank)'
  <2>1. CASE TakeAgain(t, m) \/ TakeRefused(t, m)
    BY <1>0, <2>1 DEF TakeAgain, TakeRefused
  <2>2. CASE TakeFree(t, m)
    <3>1. /\ owner[m] = None /\ owner' = [owner EXCEPT ![m] = t]
          /\ original_priority' = [original_priority EXCEPT ![m] = current_priority[t]]
          /\ current_priority' = current_priority
      BY <2>2 DEF TakeFree, MutexOK
    <3>2. \A n \in Mutexes : owner[n] = t => Rank[n] < Rank[m]
      BY <3>1 DEF InOrder, Asks
    <3>3. ASSUME NEW n \in Mutexes, owner'[n] # None, Lowest(Rank, n)'
          PROVE  original_priority'[n] = InitPrio[owner'[n]]
      <4>1. CASE n = m
        <5>1. \A k \in Mutexes : owner[k] # t
          <6> SUFFICES ASSUME NEW k \in Mutexes, owner[k] = t PROVE FALSE
            OBVIOUS
          <6>1. Rank[k] < Rank[m] /\ k # m /\ owner'[k] = t
            BY <3>1, <3>2, <1>r
          <6>2. Rank[m] <= Rank[k]
            BY <3>1, <3>3, <4>1, <6>1 DEF Lowest
          <6> QED BY <1>r, <6>1, <6>2
        <5>2. current_priority[t] = InitPrio[t]
          BY <5>1 DEF LowestRemembers, Restored
        <5> QED BY <3>1, <4>1, <5>2
      <4>2. CASE n # m
        <5>1. owner'[n] = owner[n] /\ original_priority'[n] = original_priority[n]
          BY <3>1, <4>2
        <5>2. Lowest(Rank, n)
          BY <3>1, <3>3, <5>1 DEF Lowest
        <5> QED BY <3>3, <5>1, <5>2 DEF LowestRemembers
      <4> QED BY <4>1, <4>2
    <3>4. Restored'
      BY <3>1 DEF LowestRemembers, Restored
    <3> QED BY <3>3, <3>4 DEF LowestRemembers
  <2>3. ASSUME NEW timed \in BOOLEAN, TakeWaits(t, m, timed) PROVE LowestRemembers(Rank)'
    <3>1. /\ UNCHANGED <<owner, original_priority>>
          /\ \A u \in Thread : u # owner[m] => current_priority'[u] = current_priority[u]
      BY <2>3 DEF TakeWaits, ChangePriority
    <3> QED BY <1>0, <3>1
  <2> QED BY <1>1, <2>1, <2>2, <2>3 DEF Take
<1>2. ASSUME NEW t \in Thread, NEW m \in Mutexes, Release(t, m) PROVE LowestRemembers(Rank)'
  <2>1. CASE ReleaseRefused(t, m) \/ ReleaseOne(t, m)
    BY <1>0, <2>1 DEF ReleaseRefused, ReleaseOne
  <2>2. CASE ReleaseFree(t, m) \/ ReleaseToWaiter(t, m)
    <3>1. PICK u \in Thread \cup {None} : owner' = [owner EXCEPT ![m] = u]
      <4>1. CASE ReleaseFree(t, m)
        BY <4>1 DEF ReleaseFree
      <4>2. CASE ReleaseToWaiter(t, m)
        <5>1. suspend_thread[m] \in Seq(Thread) /\ suspend_thread[m] # <<>>
          BY <4>2 DEF ReleaseToWaiter
        <5>2. Head(suspend_thread[m]) \in Thread
          BY <5>1
        <5> QED BY <4>2, <5>2 DEF ReleaseToWaiter
      <4> QED BY <2>2, <4>1, <4>2
    <3>2. /\ owner[m] = t
          /\ current_priority' = [current_priority EXCEPT ![t] = original_priority[m]]
          /\ \A n \in Mutexes : n # m => original_priority'[n] = original_priority[n]
      BY <2>2 DEF ReleaseFree, ReleaseToWaiter, Restore, ChangePriority
    <3>3. /\ u # t
          /\ u # None => /\ original_priority'[m] = current_priority[u]
                         /\ want[u] = m
      <4>1. CASE ReleaseFree(t, m)
        BY <3>1, <4>1 DEF ReleaseFree
      <4>2. CASE ReleaseToWaiter(t, m)
        <5>1. suspend_thread[m] \in Seq(Thread) /\ suspend_thread[m] # <<>>
              /\ Distinct(suspend_thread[m])
          BY <4>2 DEF ReleaseToWaiter, MutexOK, Distinct
        <5>2. PICK w \in Elements(suspend_thread[m]) : w = Head(suspend_thread[m])
          BY <5>1, TailList
        <5>3. w \in Thread \ ready /\ want[w] = m
          BY <5>2 DEF MutexOK
        <5>4. w # owner[m]
          BY <5>3 DEF WaitOK
        <5>5. u = w
          BY <3>1, <4>2, <5>2 DEF ReleaseToWaiter
        <5>6. original_priority'[m] = current_priority[w]
          BY <4>2, <5>2 DEF ReleaseToWaiter
        <5> QED BY <3>2, <5>3, <5>4, <5>5, <5>6
      <4> QED BY <2>2, <4>1, <4>2
    <3>4. Restored'
      <4> SUFFICES ASSUME NEW v \in Thread, \A n \in Mutexes : owner'[n] # v
                   PROVE  current_priority'[v] = InitPrio[v]
        BY DEF Restored
      <4>1. CASE v = t
        <5>1. \A n \in Mutexes : owner[n] = t => n = m
          BY <3>1, <4>1
        <5>2. Lowest(Rank, m)
          BY <1>r, <3>2, <5>1 DEF Lowest
        <5> QED BY <3>2, <4>1, <5>2 DEF LowestRemembers
      <4>2. CASE v # t
        <5>1. \A n \in Mutexes : owner[n] # v
          BY <3>1, <3>2, <4>2
        <5> QED BY <3>2, <4>2, <5>1 DEF LowestRemembers, Restored
      <4> QED BY <4>1, <4>2
    <3>5. ASSUME NEW n \in Mutexes, owner'[n] # None, Lowest(Rank, n)'
          PROVE  original_priority'[n] = InitPrio[owner'[n]]
      <4>1. CASE n = m
        <5>1. owner'[m] = u /\ u \in Thread /\ want[u] = m
          BY <3>1, <3>3, <3>5, <4>1
        <5>2. \A k \in Mutexes : owner[k] # u
          <6> SUFFICES ASSUME NEW k \in Mutexes, owner[k] = u PROVE FALSE
            OBVIOUS
          <6>1. k # m /\ owner'[k] = u
            BY <3>1, <3>2, <3>3
          <6>2. Rank[k] < Rank[m]
            BY <5>1, <6>1 DEF Ascending
          <6>3. Rank[m] <= Rank[k]
            BY <3>5, <4>1, <5>1, <6>1 DEF Lowest
          <6> QED BY <1>r, <6>2, <6>3
        <5>3. current_priority[u] = InitPrio[u]
          BY <5>1, <5>2 DEF LowestRemembers, Restored
        <5> QED BY <3>3, <4>1, <5>1, <5>3, Names
      <4>2. CASE n # m
        <5>1. owner'[n] = owner[n] /\ original_priority'[n] = original_priority[n]
          BY <3>1, <3>2, <4>2
        <5>2. Lowest(Rank, n)
          <6> SUFFICES ASSUME NEW k \in Mutexes, owner[k] = owner[n] PROVE Rank[n] <= Rank[k]
            BY DEF Lowest
          <6>1. CASE k # m
            BY <3>1, <3>5, <5>1, <6>1 DEF Lowest
          <6>2. CASE k = m
            <7>1. owner'[m] # t
              BY <3>1, <3>3
            <7>2. PICK j \in Mutexes : owner[j] = t /\ Rank[j] < Rank[m]
              BY <3>2, <4>2, <6>2, <7>1 DEF LowestLast
            <7>3. Rank[n] <= Rank[j]
              BY <1>r, <3>1, <3>2, <3>5, <5>1, <6>2, <7>2 DEF Lowest
            <7> QED BY <1>r, <6>2, <7>2, <7>3
          <6> QED BY <6>1, <6>2
        <5> QED BY <3>5, <5>1, <5>2 DEF LowestRemembers
      <4> QED BY <4>1, <4>2
    <3> QED BY <3>4, <3>5 DEF LowestRemembers
  <2> QED BY <1>2, <2>1, <2>2 DEF Release
<1>3. ASSUME NEW t \in Thread,
             TakeReturns(t) \/ Schedule(t) \/ Sleep(t) \/ SleepReturns(t) \/ ThreadTimeout(t)
      PROVE  LowestRemembers(Rank)'
  <2>1. UNCHANGED <<owner, original_priority, current_priority>>
    BY <1>3 DEF TakeReturns, Schedule, Sleep, SleepReturns, ThreadTimeout
  <2> QED BY <1>0, <2>1
<1>4. CASE TickYield
  BY <1>0, <1>4 DEF TickYield
<1> QED BY <1>1, <1>2, <1>3, <1>4 DEF Next

(* A thread that owns nothing has the priority it was given, for any number   *)
(* of mutexes, if each thread takes them in one order and releases the first  *)
(* of them last.  The finding of MutexNested is that rt_mutex_release needs   *)
(* this: each mutex restores what it found, not what the thread was given.    *)
THEOREM RestoredInOrder ==
    ASSUME NEW CONSTANT Rank \in [Mutexes -> Nat]
    PROVE  Spec /\ [][InOrder(Rank) /\ LowestLast(Rank)]_vars => []Restored
<1> DEFINE Disciplined == InOrder(Rank) /\ LowestLast(Rank)
<1>1. Init => Ascending(Rank) /\ LowestRemembers(Rank)
  BY Names DEF Init, Ascending, LowestRemembers, Restored
<1>2. IInv /\ Ascending(Rank) /\ LowestRemembers(Rank) /\ [Next]_vars /\ [Disciplined]_vars
          => Ascending(Rank)' /\ LowestRemembers(Rank)'
  <2> SUFFICES ASSUME IInv, Ascending(Rank), LowestRemembers(Rank), [Next]_vars,
                      [Disciplined]_vars
               PROVE  Ascending(Rank)' /\ LowestRemembers(Rank)'
    OBVIOUS
  <2>1. CASE UNCHANGED vars
    <3>1. LowestRemembers(Rank)'
      BY <2>1 DEF vars, mutexVars, threadVars, LowestRemembers, Restored, Lowest
    <3> QED BY <2>1, <3>1, AscendingStep
  <2>2. CASE Next /\ Disciplined
    BY <2>2, AscendingStep, LowestStep
  <2> QED BY <2>1, <2>2
<1>3. LowestRemembers(Rank) => Restored
  BY DEF LowestRemembers
<1> QED BY <1>1, <1>2, <1>3, InvCorrect, PTL DEF Spec

(* No thread is ever left with less than the priority it was given, whatever  *)
(* the order in which it takes and releases whatever mutexes, so that the     *)
(* finding of MutexNested can only leave it with more.                        *)
NeverLower ==
    /\ \A t \in Thread : current_priority[t] <= InitPrio[t]
    /\ \A m \in Mutexes : owner[m] # None => original_priority[m] <= InitPrio[owner[m]]

THEOREM NeverDemoted == Spec => []NeverLower
<1>1. Init => NeverLower
  <2>1. \A t \in Thread : InitPrio[t] \in Int
    BY MutexAssumption DEF NoPriority
  <2> QED BY <2>1 DEF Init, NeverLower
<1>2. ASSUME IInv, NeverLower, [Next]_vars PROVE NeverLower'
  <2> USE Names DEF Runs, Calls, threadVars, mutexVars, callVars, IInv, TypeOK
  <2>i. /\ \A t \in Thread : InitPrio[t] \in Int /\ current_priority[t] \in Int
    BY <1>2, PriorityTypes
  <2>1. ASSUME NEW t \in Thread, NEW m \in Mutexes, Take(t, m) PROVE NeverLower'
    <3>1. CASE TakeAgain(t, m) \/ TakeRefused(t, m)
      BY <1>2, <3>1 DEF TakeAgain, TakeRefused, NeverLower
    <3>2. CASE TakeFree(t, m)
      BY <1>2, <3>2 DEF TakeFree, NeverLower
    <3>3. ASSUME NEW timed \in BOOLEAN, TakeWaits(t, m, timed) PROVE NeverLower'
      <4>1. owner[m] \in Thread
        BY <1>2, <3>3 DEF TakeWaits, MutexOK
      <4>2. /\ UNCHANGED <<owner, original_priority>>
            /\ \A u \in Thread : u # owner[m] => current_priority'[u] = current_priority[u]
            /\ \/ current_priority'[owner[m]] = current_priority[owner[m]]
               \/ /\ current_priority'[owner[m]] = current_priority[t]
                  /\ current_priority[t] < current_priority[owner[m]]
        BY <1>2, <3>3, <4>1 DEF TakeWaits, ChangePriority
      <4>3. current_priority'[owner[m]] <= InitPrio[owner[m]]
        BY <1>2, <2>i, <4>1, <4>2 DEF NeverLower
      <4> QED BY <1>2, <4>2, <4>3 DEF NeverLower
    <3> QED BY <2>1, <3>1, <3>2, <3>3 DEF Take
  <2>2. ASSUME NEW t \in Thread, NEW m \in Mutexes, Release(t, m) PROVE NeverLower'
    <3>1. CASE ReleaseRefused(t, m) \/ ReleaseOne(t, m)
      BY <1>2, <3>1 DEF ReleaseRefused, ReleaseOne, NeverLower
    <3>2. CASE ReleaseFree(t, m) \/ ReleaseToWaiter(t, m)
      <4>1. /\ owner[m] = t
            /\ current_priority' = [current_priority EXCEPT ![t] = original_priority[m]]
        BY <1>2, <3>2 DEF ReleaseFree, ReleaseToWaiter, Restore, ChangePriority
      <4>2. \A u \in Thread : current_priority'[u] <= InitPrio[u]
        BY <1>2, <4>1 DEF NeverLower
      <4>3. CASE ReleaseFree(t, m)
        <5>1. /\ \A n \in Mutexes : n # m => /\ owner'[n] = owner[n]
                                          /\ original_priority'[n] = original_priority[n]
              /\ owner'[m] = None
          BY <1>2, <4>3 DEF ReleaseFree
        <5> QED BY <1>2, <4>2, <5>1 DEF NeverLower
      <4>4. CASE ReleaseToWaiter(t, m)
        <5>1. suspend_thread[m] \in Seq(Thread) /\ suspend_thread[m] # <<>>
          BY <1>2, <4>4 DEF ReleaseToWaiter
        <5>2. PICK u \in Thread : u = Head(suspend_thread[m])
          BY <5>1
        <5>3. /\ \A n \in Mutexes : n # m => /\ owner'[n] = owner[n]
                                          /\ original_priority'[n] = original_priority[n]
              /\ owner'[m] = u /\ original_priority'[m] = current_priority[u]
          BY <1>2, <4>4, <5>2 DEF ReleaseToWaiter
        <5> QED BY <1>2, <4>2, <5>3 DEF NeverLower
      <4> QED BY <3>2, <4>3, <4>4
    <3> QED BY <2>2, <3>1, <3>2 DEF Release
  <2>3. ASSUME NEW t \in Thread,
               TakeReturns(t) \/ Schedule(t) \/ Sleep(t) \/ SleepReturns(t) \/ ThreadTimeout(t)
        PROVE  NeverLower'
    BY <1>2, <2>3 DEF TakeReturns, Schedule, Sleep, SleepReturns, ThreadTimeout, NeverLower
  <2>4. CASE TickYield \/ UNCHANGED vars
    BY <1>2, <2>4 DEF TickYield, vars, NeverLower
  <2> QED BY <1>2, <2>1, <2>2, <2>3, <2>4 DEF Next
<1>3. IInv /\ NeverLower /\ [Next]_vars => NeverLower'
  BY <1>2
<1> QED BY <1>1, <1>3, InvCorrect, PTL DEF Spec

=============================================================================
