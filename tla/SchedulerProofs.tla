--------------------------- MODULE SchedulerProofs ---------------------------
(***************************************************************************)
(* Proofs about Scheduler for every set of threads, every priority and     *)
(* every time slice, provided that no thread is deleted while its timer    *)
(* runs.                                                                   *)
(***************************************************************************)
EXTENDS Scheduler, WaitingListProofs, FiniteSetTheorems

-----------------------------------------------------------------------------
(* The invariant *)

(* Thread t is in the ready table. *)
Kept(t) == stat[t] = "ready" /\ ~Deleted(t)
KeptAt(p) == {t \in Thread : Kept(t) /\ current_priority[t] = p}

(* The lists of the ready table and its bitmap. *)
TableTypes ==
    /\ table \in [Prio -> Seq(Thread)] /\ group \in SUBSET Prio
    /\ current_priority \in [Thread -> Prio]
Lists == \A p \in Prio : Distinct(table[p]) /\ Elements(table[p]) = KeptAt(p)
Bits == \A p \in Prio : p \in group <=> table[p] # <<>>
TableOK == TableTypes /\ Lists /\ Bits

First == table[Highest(group)][1]

(* The threads that calls of several steps are about: one call for each, and  *)
(* nobody else can make such a thread ready.                                  *)
Works(t) == pc[t] \in {"insert", "delete_timer", "delete_close"}
Deletes(t) == pc[t] \in {"delete_timer", "delete_close"}
TargetsOK ==
    /\ \A t \in Thread : Works(t) => target[t] \notin waiting \cup armed
    /\ \A t \in Thread : pc[t] = "insert" => stat[target[t]] = "suspend"
    /\ \A t \in Thread : Deletes(t) => target[t] # Idle /\ stat[target[t]] # "close"
    /\ \A t, u \in Thread : Works(t) /\ Works(u) /\ target[t] = target[u] => t = u

(* Only a suspended thread waits, the dead stay closed, and idle stays ready. *)
StatesOK ==
    /\ \A t \in waiting \cup armed : stat[t] = "suspend"
    /\ \A t \in defunct \cup freed : stat[t] = "close"
    /\ stat[Idle] = "ready" /\ current_priority[Idle] = MaxPrio

(* rt_current_thread is in the table, or it has left it and is on its way to  *)
(* rt_schedule; no switch is pending while the scheduler is locked.           *)
CurrentOK ==
    /\ \/ Kept(cur)
       \/ stat[cur] # "ready" /\ ~flag /\ nest = 0 /\ pc[cur] = "rt_schedule"
    /\ nest > 0 => ~flag

(* rt_current_thread is the first of the highest priority, but for the lock,  *)
(* and for an rt_schedule to come.                                            *)
FirstIsCurrent ==
    nest = 0 /\ isr \in {"none", "timers"} /\ (flag \/ pc[cur] # "rt_schedule")
        => cur = First

IInv ==
    /\ TypeOK /\ TableOK /\ TargetsOK /\ StatesOK /\ CurrentOK
    /\ FirstIsCurrent /\ SwitchIsConsistent /\ NoUseAfterFree

-----------------------------------------------------------------------------
(* The ready table *)

LEMMA PrioType == MaxPrio \in Nat /\ MaxPrio \in Prio /\ Prio \subseteq Nat /\ Idle \in Thread
BY ThreadAssumption DEF Prio

(* While idle is ready a bit is set, and the lowest one belongs to a list     *)
(* with a thread in it.                                                       *)
LEMMA FirstIsKept ==
    ASSUME TableOK, Kept(Idle), current_priority[Idle] = MaxPrio
    PROVE  /\ Highest(group) \in group /\ First \in Thread /\ Kept(First)
           /\ current_priority[First] = Highest(group)
           /\ table[Highest(group)] # <<>>
<1>1. MaxPrio \in group
  <2>1. Idle \in Elements(table[MaxPrio])
    BY PrioType DEF TableOK, Lists, KeptAt
  <2>2. table[MaxPrio] # <<>>
    BY <2>1 DEF Elements
  <2> QED BY <2>2, PrioType DEF TableOK, Bits
<1>2. group \in SUBSET Nat /\ group # {}
  BY <1>1, PrioType DEF TableOK, TableTypes
<1>3. Highest(group) \in group
  BY <1>2, Smallest DEF Highest
<1> DEFINE s == table[Highest(group)]
<1>4. Highest(group) \in Prio /\ s \in Seq(Thread) /\ s # <<>>
  BY <1>3 DEF TableOK, TableTypes, Bits
<1>5. 1 \in DOMAIN s
  BY <1>4
<1>6. First \in Elements(s)
  BY <1>5 DEF First, Elements
<1>7. First \in KeptAt(Highest(group))
  BY <1>4, <1>6 DEF TableOK, Lists
<1> QED BY <1>3, <1>4, <1>7 DEF KeptAt

LEMMA TableSame ==
    ASSUME TableOK, UNCHANGED <<table, group, current_priority>>,
           \A v \in Thread : Kept(v)' <=> Kept(v)
    PROVE  TableOK' /\ First' = First
<1>1. \A p \in Prio : KeptAt(p)' = KeptAt(p)
  BY DEF KeptAt
<1> QED BY <1>1 DEF TableOK, TableTypes, Lists, Bits, First

(* rt_schedule_insert_thread *)
LEMMA TableInsert ==
    ASSUME TableOK, NEW u \in Thread, Insert(u), ~Kept(u), UNCHANGED current_priority,
           \A v \in Thread : Kept(v)' <=> Kept(v) \/ v = u
    PROVE  TableOK'
<1> DEFINE q == current_priority[u]
           s == table[q]
<1>1. /\ q \in Prio /\ s \in Seq(Thread) /\ Distinct(s) /\ u \notin Elements(s)
      /\ Elements(s) = KeptAt(q)
  BY DEF TableOK, TableTypes, Lists, KeptAt
<1>2. table' = [table EXCEPT ![q] = Append(s, u)] /\ group' = group \cup {q}
  BY DEF Insert
<1>3. /\ Append(s, u) \in Seq(Thread) /\ Append(s, u) # <<>> /\ Distinct(Append(s, u))
      /\ Elements(Append(s, u)) = Elements(s) \cup {u}
  BY <1>1, AppendedList
<1> HIDE DEF s
<1>4. TableTypes'
  BY <1>1, <1>2, <1>3 DEF TableOK, TableTypes
<1>5. ASSUME NEW p \in Prio
      PROVE  /\ Distinct(table'[p]) /\ Elements(table'[p]) = KeptAt(p)'
             /\ p \in group' <=> table'[p] # <<>>
  <2>1. CASE p = q
    <3>1. table'[p] = Append(s, u)
      BY <1>1, <1>2, <2>1 DEF TableOK, TableTypes
    <3>2. KeptAt(p)' = KeptAt(q) \cup {u}
      BY <2>1 DEF KeptAt
    <3> QED BY <1>1, <1>2, <1>3, <2>1, <3>1, <3>2
  <2>2. CASE p # q
    <3>1. table'[p] = table[p] /\ (p \in group' <=> p \in group)
      BY <1>1, <1>2, <2>2 DEF TableOK, TableTypes
    <3>2. KeptAt(p)' = KeptAt(p)
      BY <2>2 DEF KeptAt
    <3> QED BY <3>1, <3>2 DEF TableOK, Lists, Bits
  <2> QED BY <2>1, <2>2
<1> QED BY <1>4, <1>5 DEF TableOK, Lists, Bits

(* rt_schedule_remove_thread *)
LEMMA TableRemove ==
    ASSUME TableOK, NEW u \in Thread, NEW state, RemoveAs(u, state), Kept(u),
           UNCHANGED current_priority,
           \A v \in Thread : Kept(v)' <=> Kept(v) /\ v # u
    PROVE  TableOK'
<1> DEFINE q == current_priority[u]
           s == table[q]
           r == Without(s, u)
<1>1. /\ q \in Prio /\ s \in Seq(Thread) /\ Distinct(s) /\ u \in Elements(s)
      /\ Elements(s) = KeptAt(q)
  BY DEF TableOK, TableTypes, Lists, KeptAt
<1>2. /\ table' = [table EXCEPT ![q] = r]
      /\ group' = IF table'[q] = <<>> THEN group \ {q} ELSE group
  BY DEF RemoveAs
<1>3. r \in Seq(Thread) /\ Distinct(r) /\ Elements(r) = Elements(s) \ {u}
  BY <1>1, RemovedList
<1>4. q \in group
  <2>1. s # <<>>
    BY <1>1 DEF Elements
  <2> QED BY <1>1, <2>1 DEF TableOK, Bits
<1> HIDE DEF r
<1>5. TableTypes'
  BY <1>1, <1>2, <1>3 DEF TableOK, TableTypes
<1>6. ASSUME NEW p \in Prio
      PROVE  /\ Distinct(table'[p]) /\ Elements(table'[p]) = KeptAt(p)'
             /\ p \in group' <=> table'[p] # <<>>
  <2>1. CASE p = q
    <3>1. table'[p] = r
      BY <1>1, <1>2, <2>1 DEF TableOK, TableTypes
    <3>2. KeptAt(p)' = KeptAt(q) \ {u}
      BY <2>1 DEF KeptAt
    <3> QED BY <1>1, <1>2, <1>3, <1>4, <2>1, <3>1, <3>2
  <2>2. CASE p # q
    <3>1. table'[p] = table[p] /\ (p \in group' <=> p \in group)
      BY <1>1, <1>2, <2>2 DEF TableOK, TableTypes
    <3>2. KeptAt(p)' = KeptAt(p)
      BY <2>2 DEF KeptAt
    <3> QED BY <3>1, <3>2 DEF TableOK, Lists, Bits
  <2> QED BY <2>1, <2>2
<1> QED BY <1>5, <1>6 DEF TableOK, Lists, Bits

(* Taking another thread off its list does not change the first one. *)
LEMMA FirstAfterRemove ==
    ASSUME TableOK, NEW u \in Thread, NEW state, RemoveAs(u, state), Kept(u),
           Kept(Idle), current_priority[Idle] = MaxPrio, First # u
    PROVE  First' = First
<1> DEFINE q == current_priority[u]
           s == table[q]
           h == Highest(group)
<1>1. h \in group /\ current_priority[First] = h
  BY FirstIsKept
<1>2. q \in Prio /\ s \in Seq(Thread) /\ u \in Elements(s) /\ h \in Prio
  BY <1>1 DEF TableOK, TableTypes, Lists, KeptAt
<1>3. /\ table' = [table EXCEPT ![q] = Without(s, u)]
      /\ group' = IF table'[q] = <<>> THEN group \ {q} ELSE group
  BY DEF RemoveAs
<1>4. table'[q] = Without(s, u)
  BY <1>2, <1>3 DEF TableOK, TableTypes
<1>5. CASE q = h
  <2>1. s[1] # u
    BY <1>5 DEF First
  <2>2. Without(s, u) # <<>> /\ Without(s, u)[1] = s[1]
    BY <1>2, <2>1, FirstStays
  <2>3. group' = group /\ table'[h][1] = table[h][1]
    BY <1>3, <1>4, <1>5, <2>2
  <2> QED BY <2>3 DEF First
<1>6. CASE q # h
  <2>1. h \in group' /\ group' \subseteq group /\ group \subseteq Nat
    BY <1>1, <1>3, <1>6, PrioType DEF TableOK, TableTypes
  <2>2. \A p \in group : h <= p
    <3>1. \E p \in group : \A r \in group : p <= r
      BY <1>1, <2>1, Smallest
    <3> QED BY <3>1 DEF Highest
  <2>3. Highest(group') \in group' /\ \A p \in group' : Highest(group') <= p
    <3>1. \E p \in group' : \A r \in group' : p <= r
      BY <2>1, Smallest
    <3> QED BY <3>1 DEF Highest
  <2>4. Highest(group') = h
    <3>1. Highest(group') <= h /\ h <= Highest(group')
      BY <2>1, <2>2, <2>3
    <3>2. Highest(group') \in Nat /\ h \in Nat
      BY <2>1, <2>3
    <3> QED BY <3>1, <3>2
  <2>5. table'[h] = table[h]
    BY <1>2, <1>3, <1>6 DEF TableOK, TableTypes
  <2> QED BY <2>4, <2>5 DEF First
<1> QED BY <1>5, <1>6

(* The list after rt_thread_yield. *)
LEMMA RotatedList ==
    ASSUME NEW s \in Seq(Thread), NEW t \in Elements(s), Distinct(s)
    PROVE  /\ Rotated(s, t) \in Seq(Thread) /\ Rotated(s, t) # <<>>
           /\ Elements(Rotated(s, t)) = Elements(s) /\ Distinct(Rotated(s, t))
<1> DEFINE r == Without(s, t)
<1>1. r \in Seq(Thread) /\ Elements(r) = Elements(s) \ {t} /\ Distinct(r)
  BY RemovedList
<1>2. t \in Thread
  BY DEF Elements
<1> HIDE DEF r
<1>3. /\ Append(r, t) \in Seq(Thread) /\ Append(r, t) # <<>>
      /\ Elements(Append(r, t)) = Elements(r) \cup {t} /\ Distinct(Append(r, t))
  BY <1>1, <1>2, AppendedList
<1> QED BY <1>1, <1>3 DEF Rotated, r

LEMMA TableRotate ==
    ASSUME TableOK, NEW u \in Thread, Kept(u), UNCHANGED <<group, current_priority>>,
           table' = [table EXCEPT ![current_priority[u]] = Rotated(@, u)],
           \A v \in Thread : Kept(v)' <=> Kept(v)
    PROVE  TableOK'
<1> DEFINE q == current_priority[u]
           s == table[q]
<1>1. /\ q \in Prio /\ s \in Seq(Thread) /\ Distinct(s) /\ u \in Elements(s)
      /\ Elements(s) = KeptAt(q)
  BY DEF TableOK, TableTypes, Lists, KeptAt
<1>2. /\ Rotated(s, u) \in Seq(Thread) /\ Rotated(s, u) # <<>>
      /\ Elements(Rotated(s, u)) = Elements(s) /\ Distinct(Rotated(s, u))
  BY <1>1, RotatedList
<1>3. s # <<>>
  BY <1>1 DEF Elements
<1>4. TableTypes'
  BY <1>1, <1>2 DEF TableOK, TableTypes
<1>5. ASSUME NEW p \in Prio
      PROVE  /\ Distinct(table'[p]) /\ Elements(table'[p]) = KeptAt(p)'
             /\ p \in group' <=> table'[p] # <<>>
  <2>1. KeptAt(p)' = KeptAt(p)
    BY DEF KeptAt
  <2>2. CASE p = q
    <3>1. table'[p] = Rotated(s, u)
      BY <1>1, <2>2 DEF TableOK, TableTypes
    <3> QED BY <1>1, <1>2, <1>3, <2>1, <2>2, <3>1 DEF TableOK, Bits
  <2>3. CASE p # q
    <3>1. table'[p] = table[p]
      BY <1>1, <2>3 DEF TableOK, TableTypes
    <3> QED BY <2>1, <3>1 DEF TableOK, Lists, Bits
  <2> QED BY <2>2, <2>3
<1> QED BY <1>4, <1>5 DEF TableOK, Lists, Bits

(* rt_thread_control moves a ready thread to the list of its new priority. *)
LEMMA TableMove ==
    ASSUME TableOK, NEW u \in Thread, NEW p \in Prio, Kept(u),
           current_priority' = [current_priority EXCEPT ![u] = p],
           NEW q, q = current_priority[u],
           NEW off, off = [table EXCEPT ![q] = Without(@, u)],
           table' = [off EXCEPT ![p] = Append(@, u)],
           group' = (IF off[q] = <<>> THEN group \ {q} ELSE group) \cup {p},
           \A v \in Thread : Kept(v)' <=> Kept(v)
    PROVE  TableOK'
<1> DEFINE s == table[q]
           r == Without(s, u)
<1>1. /\ q \in Prio /\ s \in Seq(Thread) /\ Distinct(s) /\ u \in Elements(s)
      /\ Elements(s) = KeptAt(q)
  BY DEF TableOK, TableTypes, Lists, KeptAt
<1>2. r \in Seq(Thread) /\ Distinct(r) /\ Elements(r) = Elements(s) \ {u}
  BY <1>1, RemovedList
<1>3. off[q] = r /\ \A x \in Prio : x # q => off[x] = table[x]
  BY <1>1 DEF TableOK, TableTypes
<1>4. off \in [Prio -> Seq(Thread)]
  BY <1>1, <1>2 DEF TableOK, TableTypes
<1>5. ASSUME NEW x \in Prio
      PROVE  Distinct(off[x]) /\ Elements(off[x]) = KeptAt(x) \ {u}
  <2>1. CASE x = q
    BY <1>1, <1>2, <1>3, <2>1
  <2>2. CASE x # q
    <3>1. u \notin KeptAt(x)
      BY <2>2 DEF KeptAt
    <3> QED BY <1>3, <2>2, <3>1 DEF TableOK, Lists
  <2> QED BY <2>1, <2>2
<1>6. \A x \in Prio : x \in (IF off[q] = <<>> THEN group \ {q} ELSE group)
                      <=> off[x] # <<>>
  <2>1. q \in group
    <3>1. s # <<>>
      BY <1>1 DEF Elements
    <3> QED BY <1>1, <3>1 DEF TableOK, Bits
  <2> QED BY <1>3, <2>1 DEF TableOK, Bits
<1>7. /\ Append(off[p], u) \in Seq(Thread) /\ Append(off[p], u) # <<>>
      /\ Elements(Append(off[p], u)) = Elements(off[p]) \cup {u}
      /\ Distinct(Append(off[p], u))
  <2>1. off[p] \in Seq(Thread) /\ u \notin Elements(off[p]) /\ Distinct(off[p])
    BY <1>4, <1>5
  <2> QED BY <2>1, AppendedList
<1>8. TableTypes'
  <2>1. table' \in [Prio -> Seq(Thread)]
    BY <1>4, <1>7
  <2>2. group' \in SUBSET Prio /\ current_priority' \in [Thread -> Prio]
    BY DEF TableOK, TableTypes
  <2> QED BY <2>1, <2>2 DEF TableTypes
<1>9. ASSUME NEW x \in Prio
      PROVE  /\ Distinct(table'[x]) /\ Elements(table'[x]) = KeptAt(x)'
             /\ x \in group' <=> table'[x] # <<>>
  <2>1. CASE x = p
    <3>1. table'[x] = Append(off[p], u)
      BY <1>4, <2>1
    <3>2. KeptAt(x)' = KeptAt(p) \cup {u}
      BY <2>1 DEF KeptAt, TableOK, TableTypes
    <3> QED BY <1>5, <1>7, <2>1, <3>1, <3>2
  <2>2. CASE x # p
    <3>1. table'[x] = off[x]
      BY <1>4, <2>2
    <3>2. KeptAt(x)' = KeptAt(x) \ {u}
      BY <2>2 DEF KeptAt, TableOK, TableTypes
    <3> QED BY <1>5, <1>6, <2>2, <3>1, <3>2
  <2> QED BY <2>1, <2>2
<1> QED BY <1>8, <1>9 DEF TableOK, Lists, Bits

-----------------------------------------------------------------------------
(* The steps *)

LEMMA InvInit == Init => IInv
<1> SUFFICES ASSUME Init PROVE IInv
  OBVIOUS
<1> USE PrioType, ThreadAssumption, TickAssumption
<1>1. \A s \in {<<>>} : s \in Seq(Thread) /\ Elements(s) = {} /\ Distinct(s)
  BY DEF Elements, Distinct
<1>2. \A t \in Thread : <<t>> \in Seq(Thread) /\ Elements(<<t>>) = {t} /\ Distinct(<<t>>)
                        /\ <<t>> # <<>>
  BY DEF Elements, Distinct
<1>3. \A t \in Thread : ~Deletes(t) /\ ~Works(t)
  BY DEF Init, Deletes, Works
<1>4. \A t \in Thread : Kept(t) <=> t \in Boot
  BY <1>3 DEF Init, Kept, Deleted, Deletes
<1>5. ASSUME NEW p \in Prio
      PROVE  /\ table[p] \in Seq(Thread) /\ Distinct(table[p])
             /\ Elements(table[p]) = KeptAt(p)
             /\ p \in group <=> table[p] # <<>>
  <2>1. CASE \E t \in Boot : InitPrio[t] = p
    <3>1. PICK t \in Boot : InitPrio[t] = p
      BY <2>1
    <3>2. (CHOOSE u \in Boot : InitPrio[u] = p) = t
      BY <3>1
    <3>3. table[p] = <<t>>
      BY <2>1, <3>2 DEF Init
    <3>4. KeptAt(p) = {t}
      BY <1>4, <3>1 DEF KeptAt, Init
    <3>5. p \in group
      BY <3>1 DEF Init
    <3> QED BY <1>2, <3>3, <3>4, <3>5
  <2>2. CASE ~\E t \in Boot : InitPrio[t] = p
    <3>1. table[p] = <<>> /\ p \notin group
      BY <2>2 DEF Init
    <3>2. KeptAt(p) = {}
      BY <1>4, <2>2 DEF KeptAt, Init
    <3> QED BY <1>1, <3>1, <3>2
  <2> QED BY <2>1, <2>2
<1>6. TableTypes
  <2>1. table \in [Prio -> Seq(Thread)]
    <3>1. table = [p \in Prio |-> table[p]]
      BY DEF Init
    <3> QED BY <1>5, <3>1
  <2>2. group \in SUBSET Prio /\ current_priority \in [Thread -> Prio]
    BY DEF Init
  <2> QED BY <2>1, <2>2 DEF TableTypes
<1>7. TableOK
  BY <1>5, <1>6 DEF TableOK, Lists, Bits
<1>8. Kept(Idle) /\ current_priority[Idle] = MaxPrio
  BY <1>4 DEF Init
<1>9. cur = First /\ cur \in Thread /\ Kept(cur)
  BY <1>7, <1>8, FirstIsKept DEF Init, First
<1>10. TypeOK
  <2>1. remaining_tick \in [Thread -> 1..InitTick]
    BY DEF Init
  <2>2. nest \in 0..MaxNest
    BY DEF Init
  <2>3. /\ stat \in [Thread -> {"init", "ready", "suspend", "close"}]
        /\ pc \in [Thread -> {"run", "insert", "rt_schedule", "delete_timer",
                             "delete_close"}]
        /\ target \in [Thread -> Thread]
    BY DEF Init
  <2> QED BY <1>6, <1>9, <2>1, <2>2, <2>3 DEF Init, TypeOK, TableTypes
<1>11. TargetsOK
  BY <1>3 DEF Init, TargetsOK, Works, Deletes
<1>12. StatesOK /\ CurrentOK /\ FirstIsCurrent
  <2>1. StatesOK
    BY <1>8 DEF Init, StatesOK, Kept
  <2>2. nest = 0
    BY DEF Init
  <2>3. CurrentOK /\ FirstIsCurrent
    BY <1>9, <2>2 DEF CurrentOK, FirstIsCurrent
  <2> QED BY <2>1, <2>3
<1>13. SwitchIsConsistent /\ NoUseAfterFree
  BY DEF Init, SwitchIsConsistent, NoUseAfterFree
<1> QED BY <1>7, <1>10, <1>11, <1>12, <1>13 DEF IInv

(* A thread that executes is rt_current_thread, and in its own code it is in  *)
(* the ready table.                                                           *)
LEMMA Runner ==
    ASSUME IInv, NEW t, NEW call, Runs(t, call)
    PROVE  /\ cpu = t /\ cur = t /\ t \in Thread /\ ~flag /\ isr = "none" /\ pc[t] = call
           /\ call # "rt_schedule" => Kept(t)
BY DEF IInv, TypeOK, Runs, SwitchIsConsistent, CurrentOK

LEMMA IdleIsKept ==
    ASSUME IInv
    PROVE  Kept(Idle) /\ current_priority[Idle] = MaxPrio
BY DEF IInv, StatesOK, TargetsOK, Kept, Deleted, Deletes

LEMMA TheFirst ==
    ASSUME IInv
    PROVE  First \in Thread /\ Kept(First) /\ First \notin freed
<1>1. First \in Thread /\ Kept(First)
  BY IdleIsKept, FirstIsKept DEF IInv
<1> QED BY <1>1 DEF IInv, StatesOK, Kept

(* rt_schedule, as far as it concerns the invariant. *)
LEMMA Rescheduled ==
    ASSUME IInv, Reschedule
    PROVE  /\ cur' \in Thread /\ flag' \in BOOLEAN /\ cur' \notin freed
           /\ from' \in Thread \cup {None} /\ to' \in Thread \cup {None}
           /\ IF flag' THEN from' = cpu /\ to' = cur' ELSE cpu = cur'
           /\ Kept(cur')
           /\ nest = 0 => cur' = First
           /\ nest > 0 => ~flag'
<1>1. First \in Thread /\ Kept(First) /\ First \notin freed
  BY TheFirst
<1>2. cur \in Thread /\ cpu \in Thread \cup {None} /\ flag \in BOOLEAN
      /\ from \in Thread \cup {None} /\ to \in Thread \cup {None}
      /\ nest \in Nat
  BY TickAssumption DEF IInv, TypeOK
<1>3. CASE nest = 0 /\ First # cur
  BY <1>1, <1>2, <1>3
     DEF Reschedule, First, ContextSwitch, IInv, SwitchIsConsistent, NoUseAfterFree
<1>4. CASE ~(nest = 0 /\ First # cur)
  <2>1. UNCHANGED <<cur, switchVars>>
    BY <1>4 DEF Reschedule, First
  <2>2. Kept(cur)
    BY <1>1, <1>2, <1>4 DEF IInv, CurrentOK
  <2> QED BY <1>2, <1>4, <2>1, <2>2
          DEF switchVars, IInv, SwitchIsConsistent, NoUseAfterFree, CurrentOK
<1> QED BY <1>3, <1>4

(* The states of the threads and the calls they are in stay the same. *)
LEMMA KeptSame ==
    ASSUME UNCHANGED stat, \A t \in Thread : Deletes(t)' <=> Deletes(t),
           \A t \in Thread : Deletes(t) => target'[t] = target[t]
    PROVE  \A v \in Thread : Kept(v)' <=> Kept(v)
BY DEF Kept, Deleted, Deletes

LEMMA ScheduleStep ==
    ASSUME IInv, NEW t \in Thread, Schedule(t)
    PROVE  IInv'
<1>1. /\ Reschedule /\ pc' = [pc EXCEPT ![t] = "run"] /\ pc[t] = "rt_schedule"
      /\ isr = "none" /\ UNCHANGED <<stat, table, group, current_priority>>
      /\ UNCHANGED <<remaining_tick, nest, waiting, armed, cpu, isr>>
      /\ UNCHANGED <<target, defunct, freed>>
  BY DEF Schedule, Runs, Calls, readyVars
<1>2. pc \in [Thread -> {"run", "insert", "rt_schedule", "delete_timer", "delete_close"}]
  BY DEF IInv, TypeOK
<1>3. \A u \in Thread : (Works(u)' <=> Works(u)) /\ (Deletes(u)' <=> Deletes(u))
                        /\ (pc'[u] = "insert" <=> pc[u] = "insert")
  BY <1>1, <1>2 DEF Works, Deletes
<1>4. \A v \in Thread : Kept(v)' <=> Kept(v)
  BY <1>1, <1>3, KeptSame
<1>5. TableOK' /\ First' = First
  BY <1>1, <1>4, TableSame DEF IInv
<1>6. TypeOK'
  <2>1. pc' \in [Thread -> {"run", "insert", "rt_schedule", "delete_timer", "delete_close"}]
    BY <1>1, <1>2
  <2> QED BY <1>1, <2>1, Rescheduled DEF IInv, TypeOK
<1>7. TargetsOK' /\ StatesOK'
  BY <1>1, <1>3 DEF IInv, TargetsOK, StatesOK
<1>8. CurrentOK' /\ FirstIsCurrent'
  BY <1>1, <1>4, <1>5, Rescheduled DEF CurrentOK, FirstIsCurrent
<1>9. SwitchIsConsistent' /\ NoUseAfterFree'
  BY <1>1, Rescheduled DEF IInv, SwitchIsConsistent, NoUseAfterFree
<1> QED BY <1>5, <1>6, <1>7, <1>8, <1>9 DEF IInv

LEMMA IsrScheduleStep ==
    ASSUME IInv, IsrSchedule
    PROVE  IInv'
<1>1. /\ Reschedule /\ isr' \in {"none", "timers"}
      /\ UNCHANGED <<stat, table, group, current_priority, remaining_tick, nest>>
      /\ UNCHANGED <<waiting, armed, cpu, pc, target, defunct, freed>>
  BY DEF IsrSchedule, readyVars
<1>2. \A v \in Thread : Kept(v)' <=> Kept(v)
  BY <1>1, KeptSame DEF Deletes
<1>3. TableOK' /\ First' = First
  BY <1>1, <1>2, TableSame DEF IInv
<1>4. TypeOK'
  BY <1>1, Rescheduled DEF IInv, TypeOK
<1>5. TargetsOK' /\ StatesOK'
  BY <1>1 DEF IInv, TargetsOK, StatesOK, Works, Deletes
<1>6. CurrentOK' /\ FirstIsCurrent'
  BY <1>1, <1>2, <1>3, Rescheduled DEF CurrentOK, FirstIsCurrent
<1>7. SwitchIsConsistent' /\ NoUseAfterFree'
  BY <1>1, Rescheduled DEF IInv, SwitchIsConsistent, NoUseAfterFree
<1> QED BY <1>3, <1>4, <1>5, <1>6, <1>7 DEF IInv

LEMMA PendSVStep ==
    ASSUME IInv, PendSV
    PROVE  IInv'
<1>1. /\ flag /\ isr = "none" /\ flag' = FALSE /\ from' = None /\ to' = None /\ cpu' = to
      /\ UNCHANGED <<stat, table, group, current_priority, remaining_tick, cur, nest>>
      /\ UNCHANGED <<waiting, armed, isr, pc, target, defunct, freed>>
  BY DEF PendSV, readyVars
<1>2. \A v \in Thread : Kept(v)' <=> Kept(v)
  BY <1>1, KeptSame DEF Deletes
<1>3. TableOK' /\ First' = First
  BY <1>1, <1>2, TableSame DEF IInv
<1>4. TypeOK' /\ TargetsOK' /\ StatesOK'
  BY <1>1 DEF IInv, TypeOK, TargetsOK, StatesOK, Works, Deletes
<1>5. cur \in Thread /\ Kept(cur) /\ to = cur
  BY <1>1 DEF IInv, TypeOK, CurrentOK, SwitchIsConsistent
<1>6. CurrentOK' /\ FirstIsCurrent'
  BY <1>1, <1>2, <1>3, <1>5 DEF IInv, CurrentOK, FirstIsCurrent
<1>7. SwitchIsConsistent' /\ NoUseAfterFree'
  BY <1>1, <1>5 DEF IInv, SwitchIsConsistent, NoUseAfterFree
<1> QED BY <1>3, <1>4, <1>6, <1>7 DEF IInv

LEMMA TickReturnStep ==
    ASSUME IInv, TickReturn
    PROVE  IInv'
<1>1. /\ isr = "timers" /\ isr' = "none"
      /\ UNCHANGED <<stat, table, group, current_priority, remaining_tick, cur, nest>>
      /\ UNCHANGED <<waiting, armed, flag, from, to, cpu, pc, target, defunct, freed>>
  BY DEF TickReturn, readyVars, switchVars
<1>2. \A v \in Thread : Kept(v)' <=> Kept(v)
  BY <1>1, KeptSame DEF Deletes
<1>3. TableOK' /\ First' = First
  BY <1>1, <1>2, TableSame DEF IInv
<1>4. TypeOK' /\ TargetsOK' /\ StatesOK'
  BY <1>1 DEF IInv, TypeOK, TargetsOK, StatesOK, Works, Deletes
<1>5. CurrentOK' /\ FirstIsCurrent'
  BY <1>1, <1>2, <1>3 DEF IInv, TypeOK, CurrentOK, FirstIsCurrent
<1>6. SwitchIsConsistent' /\ NoUseAfterFree'
  BY <1>1 DEF IInv, SwitchIsConsistent, NoUseAfterFree
<1> QED BY <1>3, <1>4, <1>5, <1>6 DEF IInv

LEMMA TickStep ==
    ASSUME IInv, Tick
    PROVE  IInv'
<1>1. /\ isr = "none" /\ isr' \in {"yield", "timers"}
      /\ UNCHANGED <<stat, group, current_priority, cur, nest>>
      /\ UNCHANGED <<waiting, armed, flag, from, to, cpu, pc, target, defunct, freed>>
  BY DEF Tick, switchVars
<1>2. \A v \in Thread : Kept(v)' <=> Kept(v)
  BY <1>1, KeptSame DEF Deletes
<1>3. remaining_tick' \in [Thread -> 1..InitTick]
  <2> DEFINE left == remaining_tick[cur] - 1
  <2>1. remaining_tick \in [Thread -> 1..InitTick] /\ cur \in Thread /\ InitTick \in Nat \ {0}
    BY TickAssumption DEF IInv, TypeOK
  <2>2. remaining_tick' = [remaining_tick EXCEPT ![cur] = IF left = 0 THEN InitTick ELSE left]
    BY DEF Tick
  <2>3. (IF left = 0 THEN InitTick ELSE left) \in 1..InitTick
    BY <2>1
  <2> QED BY <2>1, <2>2, <2>3
<1>4. TableOK' /\ (isr' # "yield" => First' = First)
  <2>1. CASE UNCHANGED table
    BY <1>1, <1>2, <2>1, TableSame DEF IInv
  <2>2. CASE ~UNCHANGED table
    <3>1. /\ Yields(cur) /\ isr' = "yield"
          /\ table' = [table EXCEPT ![current_priority[cur]] = Rotated(@, cur)]
      BY <2>2 DEF Tick
    <3>2. Kept(cur) /\ cur \in Thread
      BY <3>1 DEF IInv, TypeOK, CurrentOK, Yields
    <3> QED BY <1>1, <1>2, <3>1, <3>2, TableRotate DEF IInv
  <2> QED BY <2>1, <2>2
<1>5. TypeOK'
  BY <1>1, <1>3, <1>4 DEF IInv, TypeOK, TableOK, TableTypes
<1>6. TargetsOK' /\ StatesOK'
  BY <1>1 DEF IInv, TargetsOK, StatesOK, Works, Deletes
<1>7. CurrentOK' /\ FirstIsCurrent'
  BY <1>1, <1>2, <1>4 DEF IInv, TypeOK, CurrentOK, FirstIsCurrent
<1>8. SwitchIsConsistent' /\ NoUseAfterFree'
  BY <1>1 DEF IInv, SwitchIsConsistent, NoUseAfterFree
<1> QED BY <1>4, <1>5, <1>6, <1>7, <1>8 DEF IInv

(* A thread that is resumed in one step: by a thread, which then calls        *)
(* rt_schedule, or by an interrupt, which does so too.                        *)
LEMMA ResumeStep ==
    ASSUME IInv, NEW u \in waiting \cup armed, Insert(u),
           waiting' = waiting \ {u}, armed' = armed \ {u},
           UNCHANGED <<current_priority, remaining_tick, cur, nest, cpu>>,
           UNCHANGED <<flag, from, to, target, defunct, freed>>,
           \/ isr' \in {"yield", "last"} /\ UNCHANGED pc
           \/ /\ pc[cur] = "run" /\ ~flag
              /\ pc' = [pc EXCEPT ![cur] = "rt_schedule"] /\ UNCHANGED isr
    PROVE  IInv'
<1>1. /\ u \in Thread /\ stat[u] = "suspend" /\ ~Kept(u)
      /\ \A t \in Thread : Works(t) => target[t] # u
  BY DEF IInv, TypeOK, StatesOK, TargetsOK, Kept
<1>2. /\ cur \in Thread
      /\ pc \in [Thread -> {"run", "insert", "rt_schedule", "delete_timer", "delete_close"}]
      /\ stat \in [Thread -> {"init", "ready", "suspend", "close"}]
  BY DEF IInv, TypeOK
<1>3. \A t \in Thread : (Works(t)' <=> Works(t)) /\ (Deletes(t)' <=> Deletes(t))
                        /\ (pc'[t] = "insert" <=> pc[t] = "insert")
  BY <1>2 DEF Works, Deletes
<1>4. stat' = [stat EXCEPT ![u] = "ready"]
  BY DEF Insert
<1>5. \A v \in Thread : Deleted(v)' <=> Deleted(v)
  BY <1>3 DEF Deleted, Deletes
<1>6. \A v \in Thread : Kept(v)' <=> Kept(v) \/ v = u
  BY <1>1, <1>2, <1>4, <1>5 DEF Kept, Deleted, Works
<1>7. TableOK'
  BY <1>1, <1>6, TableInsert DEF IInv
<1>8. TypeOK'
  <2>1. stat' \in [Thread -> {"init", "ready", "suspend", "close"}]
    BY <1>1, <1>2, <1>4
  <2>2. pc' \in [Thread -> {"run", "insert", "rt_schedule", "delete_timer", "delete_close"}]
    BY <1>2
  <2>3. isr' \in {"none", "yield", "timers", "last"}
    BY DEF IInv, TypeOK
  <2> QED BY <1>7, <2>1, <2>2, <2>3 DEF IInv, TypeOK, TableOK, TableTypes
<1>9. TargetsOK'
  <2>1. \A t \in Thread : Works(t) => target[t] \in Thread /\ stat'[target[t]] = stat[target[t]]
    BY <1>1, <1>2, <1>4 DEF IInv, TypeOK
  <2> QED BY <1>3, <2>1 DEF IInv, TargetsOK, Works, Deletes
<1>10. StatesOK'
  BY <1>1, <1>2, <1>4, PrioType DEF IInv, TypeOK, StatesOK
<1>11. CurrentOK'
  BY <1>2, <1>4, <1>6 DEF IInv, CurrentOK
<1>12. FirstIsCurrent'
  BY <1>2 DEF FirstIsCurrent
<1>13. SwitchIsConsistent' /\ NoUseAfterFree'
  BY DEF IInv, SwitchIsConsistent, NoUseAfterFree
<1> QED BY <1>7, <1>8, <1>9, <1>10, <1>11, <1>12, <1>13 DEF IInv

LEMMA ThreadTimeoutStep ==
    ASSUME IInv, NEW u \in Thread, ThreadTimeout(u)
    PROVE  IInv'
BY ResumeStep DEF ThreadTimeout, switchVars

LEMMA DeviceWakeUpStep ==
    ASSUME IInv, NEW u \in Thread, DeviceWakeUp(u)
    PROVE  IInv'
BY ResumeStep DEF DeviceWakeUp, ResumeWaiting, switchVars

LEMMA WakeUpStep ==
    ASSUME IInv, NEW t \in Thread, NEW u \in Thread, WakeUp(t, u)
    PROVE  IInv'
<1>1. cur = t /\ ~flag /\ pc[t] = "run"
  BY Runner DEF WakeUp
<1> QED BY <1>1, ResumeStep DEF WakeUp, ResumeWaiting, Calls, switchVars

(* The end of rt_thread_resume. *)
LEMMA InsertStartedStep ==
    ASSUME IInv, NEW t \in Thread, InsertStarted(t)
    PROVE  IInv'
<1> DEFINE u == target[t]
<1>1. cur = t /\ ~flag /\ isr = "none" /\ pc[t] = "insert" /\ Kept(t)
  BY Runner DEF InsertStarted
<1>2. /\ Insert(u) /\ target' = [target EXCEPT ![t] = t]
      /\ pc' = [pc EXCEPT ![t] = "rt_schedule"]
      /\ UNCHANGED <<current_priority, remaining_tick, cur, nest, waiting, armed>>
      /\ UNCHANGED <<flag, from, to, cpu, isr, defunct, freed>>
  BY DEF InsertStarted, Calls, switchVars
<1>3. /\ u \in Thread /\ target \in [Thread -> Thread]
      /\ pc \in [Thread -> {"run", "insert", "rt_schedule", "delete_timer", "delete_close"}]
      /\ stat \in [Thread -> {"init", "ready", "suspend", "close"}]
  BY DEF IInv, TypeOK
<1>4. /\ u \notin waiting \cup armed /\ stat[u] = "suspend" /\ ~Kept(u)
      /\ \A v \in Thread : Works(v) /\ v # t => target[v] # u
  BY <1>1 DEF IInv, TargetsOK, Works, Kept
<1>5. \A v \in Thread : /\ Works(v)' <=> Works(v) /\ v # t
                        /\ Deletes(v)' <=> Deletes(v)
                        /\ pc'[v] = "insert" <=> pc[v] = "insert" /\ v # t
                        /\ v # t => target'[v] = target[v]
  BY <1>1, <1>2, <1>3 DEF Works, Deletes
<1>6. \A v \in Thread : Deleted(v)' <=> Deleted(v)
  BY <1>1, <1>5 DEF Deleted, Deletes
<1>7. stat' = [stat EXCEPT ![u] = "ready"]
  BY <1>2 DEF Insert
<1>8. \A v \in Thread : Kept(v)' <=> Kept(v) \/ v = u
  <2>1. ~Deleted(u)
    BY <1>1, <1>4 DEF Deleted, Works
  <2> QED BY <1>3, <1>6, <1>7, <2>1 DEF Kept
<1> HIDE DEF u
<1>9. TableOK'
  BY <1>2, <1>3, <1>4, <1>8, TableInsert DEF IInv
<1>10. TypeOK'
  <2>1. stat' \in [Thread -> {"init", "ready", "suspend", "close"}]
    BY <1>3, <1>7
  <2>2. pc' \in [Thread -> {"run", "insert", "rt_schedule", "delete_timer", "delete_close"}]
    BY <1>2, <1>3
  <2>3. target' \in [Thread -> Thread]
    BY <1>2, <1>3
  <2> QED BY <1>2, <1>9, <2>1, <2>2, <2>3 DEF IInv, TypeOK, TableOK, TableTypes
<1>11. TargetsOK'
  <2>1. \A v \in Thread : Works(v) /\ v # t =>
            target[v] \in Thread /\ stat'[target[v]] = stat[target[v]]
    BY <1>3, <1>4, <1>7
  <2>2. \A v \in Thread : Deletes(v) => v # t /\ Works(v)
    BY <1>1 DEF Deletes, Works
  <2>3. \A v \in Thread : pc[v] = "insert" => Works(v)
    BY DEF Works
  <2> QED BY <1>2, <1>5, <2>1, <2>2, <2>3 DEF IInv, TargetsOK
<1>12. StatesOK'
  BY <1>2, <1>3, <1>4, <1>7, PrioType DEF IInv, TypeOK, StatesOK
<1>13. CurrentOK' /\ FirstIsCurrent'
  BY <1>1, <1>2, <1>3, <1>8 DEF IInv, CurrentOK, FirstIsCurrent
<1>14. SwitchIsConsistent' /\ NoUseAfterFree'
  BY <1>2 DEF IInv, SwitchIsConsistent, NoUseAfterFree
<1> QED BY <1>9, <1>10, <1>11, <1>12, <1>13, <1>14 DEF IInv

(* rt_thread_startup and rt_thread_resume up to where they enable interrupts: *)
(* t is about to insert u.                                                    *)
LEMMA TargetStep ==
    ASSUME IInv, NEW t \in Thread, NEW u \in Thread, Startup(t, u) \/ ResumeOther(t, u)
    PROVE  IInv'
<1>1. /\ cur = t /\ ~flag /\ isr = "none" /\ pc[t] = "run" /\ Kept(t)
  BY Runner DEF Startup, ResumeOther
<1>2. /\ ~Handled(u) /\ target' = [target EXCEPT ![t] = u]
      /\ pc' = [pc EXCEPT ![t] = "insert"]
      /\ UNCHANGED <<table, group, remaining_tick, cur, nest, waiting, armed>>
      /\ UNCHANGED <<flag, from, to, cpu, isr, defunct, freed>>
  BY DEF Startup, ResumeOther, Calls, readyVars, switchVars
<1>3. /\ target \in [Thread -> Thread] /\ current_priority \in [Thread -> Prio]
      /\ pc \in [Thread -> {"run", "insert", "rt_schedule", "delete_timer", "delete_close"}]
      /\ stat \in [Thread -> {"init", "ready", "suspend", "close"}]
  BY DEF IInv, TypeOK
<1>4. /\ stat[u] \in {"init", "suspend"} /\ u \notin waiting \cup armed
      /\ stat' = [stat EXCEPT ![u] = "suspend"]
      /\ current_priority' \in [Thread -> Prio]
      /\ \A v \in Thread : v # u => current_priority'[v] = current_priority[v]
  <2>1. CASE Startup(t, u)
    <3>1. /\ stat[u] = "init" /\ stat' = [stat EXCEPT ![u] = "suspend"]
          /\ current_priority' = [current_priority EXCEPT ![u] = InitPrio[u]]
      BY <2>1 DEF Startup
    <3>2. InitPrio[u] \in Prio
      BY ThreadAssumption
    <3> QED BY <1>3, <3>1, <3>2 DEF IInv, StatesOK
  <2>2. CASE ResumeOther(t, u)
    <3>1. stat[u] = "suspend" /\ u \notin waiting \cup armed /\ stat' = stat
          /\ current_priority' = current_priority
      BY <2>2 DEF ResumeOther, readyVars
    <3>2. [stat EXCEPT ![u] = "suspend"] = stat
      BY <1>3, <3>1
    <3> QED BY <1>3, <3>1, <3>2
  <2> QED BY <2>1, <2>2
<1>5. \A v \in Thread : Works(v) => target[v] # u
  BY <1>2 DEF Handled, Works
<1>6. \A v \in Thread : /\ Works(v)' <=> Works(v) \/ v = t
                        /\ Deletes(v)' <=> Deletes(v)
                        /\ pc'[v] = "insert" <=> pc[v] = "insert" \/ v = t
                        /\ v # t => target'[v] = target[v]
  BY <1>1, <1>2, <1>3 DEF Works, Deletes
<1>7. ~Deletes(t) /\ ~Works(t)
  BY <1>1 DEF Deletes, Works
<1>8. \A v \in Thread : Deleted(v)' <=> Deleted(v)
  BY <1>6, <1>7 DEF Deleted, Deletes
<1>9. \A v \in Thread : Kept(v)' <=> Kept(v)
  BY <1>3, <1>4, <1>8 DEF Kept
<1>10. TableOK' /\ First' = First
  <2>1. \A p \in Prio : KeptAt(p)' = KeptAt(p)
    <3>1. ~Kept(u)
      BY <1>4 DEF Kept
    <3> QED BY <1>4, <1>9, <3>1 DEF KeptAt
  <2> QED BY <1>2, <1>4, <2>1 DEF IInv, TableOK, TableTypes, Lists, Bits, First
<1>11. TypeOK'
  <2>1. stat' \in [Thread -> {"init", "ready", "suspend", "close"}]
    BY <1>3, <1>4
  <2>2. pc' \in [Thread -> {"run", "insert", "rt_schedule", "delete_timer", "delete_close"}]
    BY <1>2, <1>3
  <2>3. target' \in [Thread -> Thread]
    BY <1>2, <1>3
  <2> QED BY <1>2, <1>10, <2>1, <2>2, <2>3 DEF IInv, TypeOK, TableOK, TableTypes
<1>12. TargetsOK'
  <2>1. target'[t] = u /\ stat'[u] = "suspend"
    BY <1>2, <1>3, <1>4
  <2>2. \A v \in Thread : Works(v) =>
            target[v] \in Thread /\ stat'[target[v]] = stat[target[v]]
    BY <1>3, <1>4, <1>5
  <2>3. \A v \in Thread : (Deletes(v) => Works(v)) /\ (pc[v] = "insert" => Works(v))
    BY DEF Deletes, Works
  <2> QED BY <1>2, <1>4, <1>5, <1>6, <1>7, <2>1, <2>2, <2>3 DEF IInv, TargetsOK
<1>13. StatesOK'
  <2>1. u # Idle
    BY <1>4 DEF IInv, StatesOK
  <2> QED BY <1>2, <1>3, <1>4, <2>1, PrioType DEF IInv, TypeOK, StatesOK
<1>14. CurrentOK' /\ FirstIsCurrent'
  BY <1>1, <1>2, <1>3, <1>9, <1>10 DEF IInv, CurrentOK, FirstIsCurrent
<1>15. SwitchIsConsistent' /\ NoUseAfterFree'
  BY <1>2 DEF IInv, SwitchIsConsistent, NoUseAfterFree
<1> QED BY <1>10, <1>11, <1>12, <1>13, <1>14, <1>15 DEF IInv

(* A ready thread u leaves its list, as suspended or closed, while the        *)
(* others stay.                                                               *)
LEMMA KeptButOne ==
    ASSUME IInv, NEW u \in Thread, Kept(u), NEW state \in {"suspend", "close"},
           stat' = [stat EXCEPT ![u] = state],
           \A t \in Thread : Deletes(t)' <=> Deletes(t), UNCHANGED target
    PROVE  /\ \A v \in Thread : Kept(v)' <=> Kept(v) /\ v # u
           /\ stat' \in [Thread -> {"init", "ready", "suspend", "close"}]
           /\ \A v \in Thread : Works(v) => stat'[target[v]] = stat[target[v]]
<1>1. /\ stat \in [Thread -> {"init", "ready", "suspend", "close"}]
      /\ target \in [Thread -> Thread]
  BY DEF IInv, TypeOK
<1>2. \A v \in Thread : Deleted(v)' <=> Deleted(v)
  BY DEF Deleted, Deletes
<1>3. \A v \in Thread : Works(v) => target[v] # u
  BY DEF IInv, TargetsOK, Kept, Works, Deleted
<1> QED BY <1>1, <1>2, <1>3 DEF Kept

(* The current thread blocks or exits. *)
LEMMA LeaveStep ==
    ASSUME IInv, NEW t \in Thread, NEW state \in {"suspend", "close"},
           Runs(t, "run"), t # Idle, nest = 0, RemoveAs(t, state),
           pc' = [pc EXCEPT ![t] = "rt_schedule"],
           waiting' \in SUBSET (waiting \cup {t}), armed' \in SUBSET (armed \cup {t}),
           state = "close" => t \notin waiting' \cup armed' /\ defunct' = defunct \cup {t},
           state = "suspend" => UNCHANGED defunct,
           UNCHANGED <<current_priority, remaining_tick, cur, nest>>,
           UNCHANGED <<flag, from, to, cpu, isr, target, freed>>
    PROVE  IInv'
<1>1. cur = t /\ ~flag /\ isr = "none" /\ pc[t] = "run" /\ Kept(t)
  BY Runner
<1>2. /\ target \in [Thread -> Thread]
      /\ pc \in [Thread -> {"run", "insert", "rt_schedule", "delete_timer", "delete_close"}]
      /\ stat \in [Thread -> {"init", "ready", "suspend", "close"}]
  BY DEF IInv, TypeOK
<1>3. \A v \in Thread : /\ Works(v)' <=> Works(v)
                        /\ Deletes(v)' <=> Deletes(v)
                        /\ pc'[v] = "insert" <=> pc[v] = "insert"
                        /\ pc[v] = "insert" => Works(v)
                        /\ Deletes(v) => Works(v)
  BY <1>1, <1>2 DEF Works, Deletes
<1>4. stat' = [stat EXCEPT ![t] = state]
  BY DEF RemoveAs
<1>5. /\ \A v \in Thread : Kept(v)' <=> Kept(v) /\ v # t
      /\ stat' \in [Thread -> {"init", "ready", "suspend", "close"}]
      /\ \A v \in Thread : Works(v) => stat'[target[v]] = stat[target[v]]
  BY <1>1, <1>3, <1>4, KeptButOne
<1>6. TableOK'
  BY <1>1, <1>5, TableRemove DEF IInv
<1>7. TypeOK'
  <2>1. pc' \in [Thread -> {"run", "insert", "rt_schedule", "delete_timer", "delete_close"}]
    BY <1>2
  <2>2. waiting' \in SUBSET Thread /\ armed' \in SUBSET Thread /\ defunct' \in SUBSET Thread
    BY DEF IInv, TypeOK
  <2> QED BY <1>5, <1>6, <2>1, <2>2 DEF IInv, TypeOK, TableOK, TableTypes
<1>8. TargetsOK'
  <2>1. \A v \in Thread : Works(v) => target[v] # t
    BY <1>1 DEF IInv, TargetsOK, Kept, Works, Deleted
  <2> QED BY <1>3, <1>5, <2>1 DEF IInv, TargetsOK
<1>9. StatesOK'
  <2>1. t \notin waiting \cup armed \cup defunct \cup freed
    BY <1>1 DEF IInv, StatesOK, Kept
  <2> QED BY <1>2, <1>4, <2>1, PrioType DEF IInv, TypeOK, StatesOK
<1>10. CurrentOK' /\ FirstIsCurrent'
  BY <1>1, <1>2, <1>4 DEF CurrentOK, FirstIsCurrent
<1>11. SwitchIsConsistent' /\ NoUseAfterFree'
  BY DEF IInv, SwitchIsConsistent, NoUseAfterFree
<1> QED BY <1>6, <1>7, <1>8, <1>9, <1>10, <1>11 DEF IInv

LEMMA BlockStep ==
    ASSUME IInv, NEW t \in Thread, NEW ipc \in BOOLEAN, NEW timed \in BOOLEAN,
           Block(t, ipc, timed)
    PROVE  IInv'
BY LeaveStep DEF Block, Calls, switchVars

LEMMA ExitStep ==
    ASSUME IInv, NEW t \in Thread, Exit(t)
    PROVE  IInv'
<1>1. t \notin waiting
  BY Runner DEF Exit, IInv, StatesOK, Kept
<1> QED BY <1>1, LeaveStep DEF Exit, Calls, switchVars

(* rt_thread_suspend by another thread. *)
LEMMA SuspendOtherStep ==
    ASSUME IInv, NEW t \in Thread, NEW u \in Thread, SuspendOther(t, u)
    PROVE  IInv'
<1>1. cur = t /\ ~flag /\ isr = "none" /\ pc[t] = "run" /\ Kept(t)
  BY Runner DEF SuspendOther
<1>2. /\ nest > 0 /\ u # t /\ u # Idle /\ stat[u] = "ready" /\ ~Handled(u)
      /\ RemoveAs(u, "suspend") /\ armed' = armed \ {u}
      /\ stat' = [stat EXCEPT ![u] = "suspend"]
      /\ UNCHANGED <<current_priority, remaining_tick, cur, nest, waiting>>
      /\ UNCHANGED <<flag, from, to, cpu, isr, pc, target, defunct, freed>>
  BY DEF SuspendOther, RemoveAs, switchVars
<1>3. stat \in [Thread -> {"init", "ready", "suspend", "close"}]
  BY DEF IInv, TypeOK
<1>4. Kept(u) /\ \A v \in Thread : Works(v) => target[v] # u
  BY <1>2 DEF Kept, Deleted, Handled, Works
<1>5. \A v \in Thread : /\ Works(v)' <=> Works(v)
                        /\ Deletes(v)' <=> Deletes(v)
                        /\ pc[v] = "insert" => Works(v)
                        /\ Deletes(v) => Works(v)
  BY <1>2 DEF Works, Deletes
<1>6. /\ \A v \in Thread : Kept(v)' <=> Kept(v) /\ v # u
      /\ stat' \in [Thread -> {"init", "ready", "suspend", "close"}]
      /\ \A v \in Thread : Works(v) => stat'[target[v]] = stat[target[v]]
  BY <1>2, <1>4, <1>5, KeptButOne
<1>7. TableOK'
  BY <1>2, <1>4, <1>6, TableRemove DEF IInv
<1>8. TypeOK'
  BY <1>2, <1>6, <1>7 DEF IInv, TypeOK, TableOK, TableTypes
<1>9. TargetsOK'
  BY <1>2, <1>5, <1>6 DEF IInv, TargetsOK
<1>10. StatesOK'
  <2>1. u \notin waiting \cup armed \cup defunct \cup freed
    BY <1>2 DEF IInv, StatesOK
  <2> QED BY <1>2, <1>3, <2>1, PrioType DEF IInv, TypeOK, StatesOK
<1>11. CurrentOK' /\ FirstIsCurrent'
  <2>1. nest \in Nat
    BY TickAssumption DEF IInv, TypeOK
  <2> QED BY <1>1, <1>2, <1>6, <2>1 DEF CurrentOK, FirstIsCurrent
<1>12. SwitchIsConsistent' /\ NoUseAfterFree'
  BY <1>2 DEF IInv, SwitchIsConsistent, NoUseAfterFree
<1> QED BY <1>7, <1>8, <1>9, <1>10, <1>11, <1>12 DEF IInv

(* rt_thread_delete up to where it enables interrupts. *)
LEMMA DeleteStep ==
    ASSUME Sleepers = FALSE, IInv, NEW t \in Thread, NEW u \in Thread, Delete(t, u)
    PROVE  IInv'
<1>1. cur = t /\ ~flag /\ isr = "none" /\ pc[t] = "run" /\ Kept(t)
  BY Runner DEF Delete
<1>2. /\ u # t /\ u # Idle /\ stat[u] # "close" /\ ~Handled(u) /\ u \notin armed
      /\ waiting' = waiting \ {u} /\ target' = [target EXCEPT ![t] = u]
      /\ pc' = [pc EXCEPT ![t] = "delete_timer"]
      /\ UNCHANGED <<current_priority, remaining_tick, cur, nest, armed>>
      /\ UNCHANGED <<flag, from, to, cpu, isr, defunct, freed>>
  BY DEF Delete, Calls, switchVars
<1>3. /\ target \in [Thread -> Thread]
      /\ pc \in [Thread -> {"run", "insert", "rt_schedule", "delete_timer", "delete_close"}]
      /\ stat \in [Thread -> {"init", "ready", "suspend", "close"}]
  BY DEF IInv, TypeOK
<1>4. UNCHANGED stat
  <2>1. CASE stat[u] = "ready"
    <3>1. stat' = [stat EXCEPT ![u] = "ready"]
      BY <2>1 DEF Delete, RemoveAs
    <3> QED BY <1>3, <2>1, <3>1
  <2>2. CASE stat[u] # "ready"
    BY <2>2 DEF Delete, readyVars
  <2> QED BY <2>1, <2>2
<1>5. \A v \in Thread : Works(v) => target[v] # u
  BY <1>2 DEF Handled, Works
<1>6. \A v \in Thread : /\ Works(v)' <=> Works(v) \/ v = t
                        /\ Deletes(v)' <=> Deletes(v) \/ v = t
                        /\ pc'[v] = "insert" <=> pc[v] = "insert"
                        /\ v # t => target'[v] = target[v]
                        /\ (Deletes(v) => Works(v)) /\ (pc[v] = "insert" => Works(v))
  BY <1>1, <1>2, <1>3 DEF Works, Deletes
<1>7. ~Works(t) /\ target'[t] = u
  BY <1>1, <1>2, <1>3 DEF Works
<1>8. \A v \in Thread : Kept(v)' <=> Kept(v) /\ v # u
  <2>1. \A v \in Thread : Deleted(v)' <=> Deleted(v) \/ v = u
    BY <1>6, <1>7 DEF Deleted, Deletes
  <2> QED BY <1>4, <2>1 DEF Kept
<1>9. TableOK' /\ (nest = 0 => First' = First)
  <2>1. CASE stat[u] = "ready"
    <3>1. Kept(u) /\ RemoveAs(u, "ready")
      BY <1>5, <2>1 DEF Delete, Kept, Deleted, Works
    <3>2. TableOK'
      BY <1>2, <1>8, <3>1, TableRemove DEF IInv
    <3>3. nest = 0 => First # u
      BY <1>1, <1>2 DEF IInv, FirstIsCurrent
    <3> QED BY <3>1, <3>2, <3>3, IdleIsKept, FirstAfterRemove DEF IInv
  <2>2. CASE stat[u] # "ready"
    <3>1. \A v \in Thread : Kept(v)' <=> Kept(v)
      BY <1>8, <2>2 DEF Kept
    <3>2. UNCHANGED <<table, group, current_priority>>
      BY <1>2, <2>2 DEF Delete, readyVars
    <3> QED BY <3>1, <3>2, TableSame DEF IInv
  <2> QED BY <2>1, <2>2
<1>10. TypeOK'
  <2>1. pc' \in [Thread -> {"run", "insert", "rt_schedule", "delete_timer", "delete_close"}]
    BY <1>2, <1>3
  <2>2. target' \in [Thread -> Thread]
    BY <1>2, <1>3
  <2>3. waiting' \in SUBSET Thread
    BY <1>2 DEF IInv, TypeOK
  <2> QED BY <1>2, <1>3, <1>4, <1>9, <2>1, <2>2, <2>3 DEF IInv, TypeOK, TableOK, TableTypes
<1>11. TargetsOK'
  <2>1. u \notin waiting' \cup armed'
    BY <1>2
  <2> QED BY <1>2, <1>4, <1>5, <1>6, <1>7, <2>1 DEF IInv, TargetsOK
<1>12. StatesOK'
  BY <1>2, <1>4 DEF IInv, StatesOK
<1>13. CurrentOK'
  BY <1>1, <1>2, <1>8 DEF IInv, CurrentOK
<1>14. FirstIsCurrent'
  BY <1>1, <1>2, <1>9 DEF IInv, FirstIsCurrent
<1>15. SwitchIsConsistent' /\ NoUseAfterFree'
  BY <1>2 DEF IInv, SwitchIsConsistent, NoUseAfterFree
<1> QED BY <1>9, <1>10, <1>11, <1>12, <1>13, <1>14, <1>15 DEF IInv

LEMMA DeleteTimerStep ==
    ASSUME IInv, NEW t \in Thread, DeleteTimer(t)
    PROVE  IInv'
<1>1. cur = t /\ ~flag /\ isr = "none" /\ pc[t] = "delete_timer" /\ Kept(t)
  BY Runner DEF DeleteTimer
<1>2. /\ armed' = armed \ {target[t]} /\ pc' = [pc EXCEPT ![t] = "delete_close"]
      /\ UNCHANGED <<stat, table, group, current_priority, remaining_tick, cur, nest>>
      /\ UNCHANGED <<waiting, flag, from, to, cpu, isr, target, defunct, freed>>
  BY DEF DeleteTimer, Calls, readyVars, switchVars
<1>3. pc \in [Thread -> {"run", "insert", "rt_schedule", "delete_timer", "delete_close"}]
  BY DEF IInv, TypeOK
<1>4. \A v \in Thread : (Works(v)' <=> Works(v)) /\ (Deletes(v)' <=> Deletes(v))
                        /\ (pc'[v] = "insert" <=> pc[v] = "insert")
  BY <1>1, <1>2, <1>3 DEF Works, Deletes
<1>5. \A v \in Thread : Kept(v)' <=> Kept(v)
  BY <1>2, <1>4, KeptSame
<1>6. TableOK' /\ First' = First
  BY <1>2, <1>5, TableSame DEF IInv
<1>7. TypeOK'
  <2>1. pc' \in [Thread -> {"run", "insert", "rt_schedule", "delete_timer", "delete_close"}]
    BY <1>2, <1>3
  <2>2. armed' \in SUBSET Thread
    BY <1>2 DEF IInv, TypeOK
  <2> QED BY <1>2, <2>1, <2>2 DEF IInv, TypeOK
<1>8. TargetsOK' /\ StatesOK'
  BY <1>2, <1>4 DEF IInv, TargetsOK, StatesOK
<1>9. CurrentOK' /\ FirstIsCurrent'
  BY <1>1, <1>2, <1>5, <1>6 DEF IInv, CurrentOK, FirstIsCurrent
<1>10. SwitchIsConsistent' /\ NoUseAfterFree'
  BY <1>2 DEF IInv, SwitchIsConsistent, NoUseAfterFree
<1> QED BY <1>6, <1>7, <1>8, <1>9, <1>10 DEF IInv

LEMMA DeleteCloseStep ==
    ASSUME IInv, NEW t \in Thread, DeleteClose(t)
    PROVE  IInv'
<1> PICK u \in Thread : u = target[t]
  BY DEF IInv, TypeOK
<1>1. cur = t /\ ~flag /\ isr = "none" /\ pc[t] = "delete_close" /\ Kept(t)
  BY Runner DEF DeleteClose
<1>2. /\ stat' = [stat EXCEPT ![u] = "close"] /\ defunct' = defunct \cup {u}
      /\ target' = [target EXCEPT ![t] = t] /\ pc' = [pc EXCEPT ![t] = "run"]
      /\ UNCHANGED <<table, group, current_priority, remaining_tick, cur, nest>>
      /\ UNCHANGED <<waiting, armed, flag, from, to, cpu, isr, freed>>
  BY DEF DeleteClose, Calls, switchVars
<1>3. /\ u \in Thread /\ target \in [Thread -> Thread]
      /\ pc \in [Thread -> {"run", "insert", "rt_schedule", "delete_timer", "delete_close"}]
      /\ stat \in [Thread -> {"init", "ready", "suspend", "close"}]
  BY DEF IInv, TypeOK
<1>4. /\ u \notin waiting \cup armed /\ u # Idle /\ Deleted(u) /\ Works(t) /\ Deletes(t)
      /\ \A v \in Thread : Works(v) /\ v # t => target[v] # u
  BY <1>1 DEF IInv, TargetsOK, Works, Deletes, Deleted
<1>5. \A v \in Thread : /\ Works(v)' <=> Works(v) /\ v # t
                        /\ Deletes(v)' <=> Deletes(v) /\ v # t
                        /\ pc'[v] = "insert" <=> pc[v] = "insert"
                        /\ v # t => target'[v] = target[v]
                        /\ (Deletes(v) => Works(v))
                        /\ (pc[v] = "insert" => Works(v) /\ v # t)
  BY <1>1, <1>2, <1>3 DEF Works, Deletes
<1>6. \A v \in Thread : v # u => stat'[v] = stat[v]
  BY <1>2, <1>3
<1>7. \A v \in Thread : Kept(v)' <=> Kept(v)
  <2>1. \A v \in Thread : v # u => (Deleted(v)' <=> Deleted(v))
    BY <1>4, <1>5 DEF Deleted, Deletes
  <2>2. ~Kept(u) /\ ~Kept(u)'
    BY <1>2, <1>3, <1>4 DEF Kept
  <2> QED BY <1>6, <2>1, <2>2 DEF Kept
<1>8. TableOK' /\ First' = First
  BY <1>2, <1>7, TableSame DEF IInv
<1>9. TypeOK'
  <2>1. pc' \in [Thread -> {"run", "insert", "rt_schedule", "delete_timer", "delete_close"}]
    BY <1>2, <1>3
  <2>2. stat' \in [Thread -> {"init", "ready", "suspend", "close"}]
    BY <1>2, <1>3
  <2>3. target' \in [Thread -> Thread] /\ defunct' \in SUBSET Thread
    BY <1>2, <1>3 DEF IInv, TypeOK
  <2> QED BY <1>2, <2>1, <2>2, <2>3 DEF IInv, TypeOK
<1>10. TargetsOK'
  <2>1. \A v \in Thread : Works(v) /\ v # t =>
            target[v] \in Thread /\ stat'[target[v]] = stat[target[v]]
    BY <1>3, <1>4, <1>6
  <2> QED BY <1>2, <1>5, <2>1 DEF IInv, TargetsOK
<1>11. StatesOK'
  <2>1. waiting \cup armed \cup defunct \cup freed \subseteq Thread
    BY DEF IInv, TypeOK
  <2>2. stat'[u] = "close"
    BY <1>2, <1>3
  <2> QED BY <1>2, <1>4, <1>6, <2>1, <2>2, PrioType DEF IInv, StatesOK
<1>12. CurrentOK' /\ FirstIsCurrent'
  BY <1>1, <1>2, <1>7, <1>8 DEF IInv, CurrentOK, FirstIsCurrent
<1>13. SwitchIsConsistent' /\ NoUseAfterFree'
  BY <1>2 DEF IInv, SwitchIsConsistent, NoUseAfterFree
<1> QED BY <1>8, <1>9, <1>10, <1>11, <1>12, <1>13 DEF IInv

(* The current thread changes its place in the table, or that of another      *)
(* thread, or the lock, and goes on in its own code or to rt_schedule.        *)
LEMMA CallStep ==
    ASSUME IInv, NEW t \in Thread, Runs(t, "run"), NEW call \in {"run", "rt_schedule"},
           pc' = [pc EXCEPT ![t] = call],
           call = "run" => UNCHANGED <<table, group>> /\ (nest' > 0 \/ nest' = nest),
           TableOK', nest' \in 0..MaxNest,
           \A v \in Thread : v = Idle => current_priority'[v] = current_priority[v],
           UNCHANGED <<stat, remaining_tick, cur, waiting, armed>>,
           UNCHANGED <<flag, from, to, cpu, isr, target, defunct, freed>>
    PROVE  IInv'
<1>1. cur = t /\ ~flag /\ isr = "none" /\ pc[t] = "run" /\ Kept(t)
  BY Runner
<1>2. /\ pc \in [Thread -> {"run", "insert", "rt_schedule", "delete_timer", "delete_close"}]
      /\ nest \in Nat /\ nest' \in Nat
  BY TickAssumption DEF IInv, TypeOK
<1>3. \A v \in Thread : (Works(v)' <=> Works(v)) /\ (Deletes(v)' <=> Deletes(v))
                        /\ (pc'[v] = "insert" <=> pc[v] = "insert")
  BY <1>1, <1>2 DEF Works, Deletes
<1>4. \A v \in Thread : Kept(v)' <=> Kept(v)
  BY <1>3, KeptSame
<1>5. TypeOK'
  <2>1. pc' \in [Thread -> {"run", "insert", "rt_schedule", "delete_timer", "delete_close"}]
    BY <1>2
  <2> QED BY <2>1 DEF IInv, TypeOK, TableOK, TableTypes
<1>6. TargetsOK' /\ StatesOK'
  BY <1>3, PrioType DEF IInv, TargetsOK, StatesOK
<1>7. CurrentOK'
  BY <1>1, <1>4 DEF IInv, CurrentOK
<1>8. FirstIsCurrent'
  <2>1. CASE call = "run"
    <3>1. First' = First
      BY <2>1 DEF First
    <3> QED BY <1>1, <1>2, <2>1, <3>1 DEF IInv, FirstIsCurrent
  <2>2. CASE call = "rt_schedule"
    BY <1>1, <1>2, <2>2 DEF FirstIsCurrent
  <2> QED BY <2>1, <2>2
<1>9. SwitchIsConsistent' /\ NoUseAfterFree'
  BY DEF IInv, SwitchIsConsistent, NoUseAfterFree
<1> QED BY <1>5, <1>6, <1>7, <1>8, <1>9 DEF IInv

LEMMA YieldStep ==
    ASSUME IInv, NEW t \in Thread, Yield(t)
    PROVE  IInv'
<1>1. /\ Runs(t, "run") /\ pc' = [pc EXCEPT ![t] = "rt_schedule"]
      /\ table' = [table EXCEPT ![current_priority[t]] = Rotated(@, t)]
      /\ UNCHANGED <<stat, group, current_priority, remaining_tick, cur, nest, waiting>>
      /\ UNCHANGED <<armed, flag, from, to, cpu, isr, target, defunct, freed>>
  BY DEF Yield, Calls, switchVars
<1>2. Kept(t) /\ pc[t] = "run" /\ nest' \in 0..MaxNest
      /\ pc \in [Thread -> {"run", "insert", "rt_schedule", "delete_timer", "delete_close"}]
  BY <1>1, Runner DEF IInv, TypeOK
<1>3. \A v \in Thread : Kept(v)' <=> Kept(v)
  <2>1. \A v \in Thread : Deletes(v)' <=> Deletes(v)
    BY <1>1, <1>2 DEF Deletes
  <2> QED BY <1>1, <2>1, KeptSame
<1>4. TableOK'
  BY <1>1, <1>2, <1>3, TableRotate DEF IInv
<1> QED BY <1>1, <1>2, <1>4, CallStep

LEMMA LockStep ==
    ASSUME IInv, NEW t \in Thread, EnterCritical(t) \/ ExitCritical(t)
    PROVE  IInv'
<1>1. /\ Runs(t, "run")
      /\ UNCHANGED <<stat, table, group, current_priority, remaining_tick, cur, waiting>>
      /\ UNCHANGED <<armed, flag, from, to, cpu, isr, target, defunct, freed>>
  BY DEF EnterCritical, ExitCritical, readyVars, switchVars
<1>2. /\ pc[t] = "run" /\ nest \in 0..MaxNest /\ MaxNest \in Nat
      /\ pc \in [Thread -> {"run", "insert", "rt_schedule", "delete_timer", "delete_close"}]
  BY <1>1, Runner, TickAssumption DEF IInv, TypeOK
<1>3. PICK call \in {"run", "rt_schedule"} :
          /\ pc' = [pc EXCEPT ![t] = call]
          /\ call = "run" => nest' > 0
          /\ nest' \in 0..MaxNest
  <2>1. CASE EnterCritical(t)
    <3>1. pc' = [pc EXCEPT ![t] = "run"]
      BY <1>2, <2>1 DEF EnterCritical
    <3>2. nest' > 0 /\ nest' \in 0..MaxNest
      BY <1>2, <2>1 DEF EnterCritical
    <3> QED BY <3>1, <3>2
  <2>2. CASE ExitCritical(t)
    <3>1. pc' = [pc EXCEPT ![t] = IF nest = 1 THEN "rt_schedule" ELSE "run"]
      BY <2>2 DEF ExitCritical, Calls
    <3>2. nest' \in 0..MaxNest /\ (nest # 1 => nest' > 0)
      BY <1>2, <2>2 DEF ExitCritical
    <3> QED BY <3>1, <3>2
  <2> QED BY <2>1, <2>2
<1>4. \A v \in Thread : Kept(v)' <=> Kept(v)
  <2>1. \A v \in Thread : Deletes(v)' <=> Deletes(v)
    BY <1>2, <1>3 DEF Deletes
  <2> QED BY <1>1, <2>1, KeptSame
<1>5. TableOK'
  BY <1>1, <1>4, TableSame DEF IInv
<1> QED BY <1>1, <1>3, <1>5, CallStep

(* rt_thread_control. *)
LEMMA ChangePriorityStep ==
    ASSUME IInv, NEW t \in Thread, NEW u \in Thread, NEW p \in Priorities,
           ChangePriority(t, u, p)
    PROVE  IInv'
<1>1. /\ Runs(t, "run") /\ pc' = [pc EXCEPT ![t] = "rt_schedule"] /\ u # Idle
      /\ stat[u] \in {"ready", "suspend"} /\ ~Handled(u)
      /\ current_priority' = [current_priority EXCEPT ![u] = p]
      /\ UNCHANGED <<stat, remaining_tick, cur, nest, waiting>>
      /\ UNCHANGED <<armed, flag, from, to, cpu, isr, target, defunct, freed>>
  BY DEF ChangePriority, Calls, switchVars
<1>2. /\ pc[t] = "run" /\ nest' \in 0..MaxNest
      /\ pc \in [Thread -> {"run", "insert", "rt_schedule", "delete_timer", "delete_close"}]
      /\ current_priority \in [Thread -> Prio]
  BY <1>1, Runner DEF IInv, TypeOK
<1>3. p \in Prio
  BY ThreadAssumption DEF Prio
<1>4. \A v \in Thread : Kept(v)' <=> Kept(v)
  <2>1. \A v \in Thread : Deletes(v)' <=> Deletes(v)
    BY <1>1, <1>2 DEF Deletes
  <2> QED BY <1>1, <2>1, KeptSame
<1>5. TableOK'
  <2>1. CASE stat[u] = "ready"
    <3> DEFINE q == current_priority[u]
               off == [table EXCEPT ![q] = Without(@, u)]
    <3>1. /\ table' = [off EXCEPT ![p] = Append(@, u)]
          /\ group' = (IF off[q] = <<>> THEN group \ {q} ELSE group) \cup {p}
      BY <2>1 DEF ChangePriority
    <3>2. Kept(u)
      BY <1>1, <2>1 DEF Kept, Deleted, Handled
    <3> HIDE DEF off, q
    <3>3. \A a, b : a = q /\ b = off => TableOK'
      BY <1>1, <1>3, <1>4, <3>1, <3>2, TableMove DEF IInv, off, q
    <3> QED BY <3>3
  <2>2. CASE stat[u] # "ready"
    <3>1. UNCHANGED <<table, group>> /\ ~Kept(u)
      BY <2>2 DEF ChangePriority, Kept
    <3>2. \A x \in Prio : KeptAt(x)' = KeptAt(x)
      BY <1>1, <1>2, <1>4, <3>1 DEF KeptAt
    <3>3. current_priority' \in [Thread -> Prio]
      BY <1>1, <1>2, <1>3
    <3> QED BY <3>1, <3>2, <3>3 DEF IInv, TableOK, TableTypes, Lists, Bits
  <2> QED BY <2>1, <2>2
<1>6. current_priority'[Idle] = current_priority[Idle]
  BY <1>1, <1>2, PrioType
<1> QED BY <1>1, <1>2, <1>5, <1>6, CallStep

(* rt_thread_idle_excute. *)
LEMMA ReclaimStep ==
    ASSUME IInv, NEW u \in Thread, Reclaim(u)
    PROVE  IInv'
<1>1. cpu = Idle /\ cur = Idle /\ ~flag
  BY Runner DEF Reclaim
<1>2. /\ u \in defunct /\ defunct' = defunct \ {u} /\ freed' = freed \cup {u}
      /\ UNCHANGED <<stat, table, group, current_priority, remaining_tick, cur, nest>>
      /\ UNCHANGED <<waiting, armed, flag, from, to, cpu, isr, pc, target>>
  BY DEF Reclaim, readyVars, switchVars
<1>3. \A v \in Thread : Kept(v)' <=> Kept(v)
  BY <1>2, KeptSame DEF Deletes
<1>4. TableOK' /\ First' = First
  BY <1>2, <1>3, TableSame DEF IInv
<1>5. stat[u] = "close" /\ u # Idle
  BY <1>2 DEF IInv, StatesOK
<1>6. TypeOK' /\ TargetsOK' /\ StatesOK'
  <2>1. defunct' \in SUBSET Thread /\ freed' \in SUBSET Thread
    BY <1>2 DEF IInv, TypeOK
  <2>2. TypeOK'
    BY <1>2, <2>1 DEF IInv, TypeOK
  <2>3. TargetsOK'
    BY <1>2 DEF IInv, TargetsOK, Works, Deletes
  <2>4. StatesOK'
    BY <1>2, <1>5 DEF IInv, StatesOK
  <2> QED BY <2>2, <2>3, <2>4
<1>7. CurrentOK' /\ FirstIsCurrent'
  <2>1. Kept(cur)'
    BY <1>2, <1>3, IdleIsKept, <1>1, PrioType
  <2>2. CurrentOK'
    BY <1>2, <2>1 DEF IInv, CurrentOK
  <2>3. FirstIsCurrent'
    BY <1>2, <1>4 DEF IInv, FirstIsCurrent
  <2> QED BY <2>2, <2>3
<1>8. SwitchIsConsistent' /\ NoUseAfterFree'
  BY <1>1, <1>2, <1>5 DEF IInv, SwitchIsConsistent, NoUseAfterFree
<1> QED BY <1>4, <1>6, <1>7, <1>8 DEF IInv

LEMMA InvStep ==
    ASSUME Sleepers = FALSE, IInv, [Next]_vars
    PROVE  IInv'
<1>1. ASSUME NEW t \in Thread, ThreadStep(t)
      PROVE  IInv'
  <2>1. CASE Schedule(t)
    BY <2>1, ScheduleStep
  <2>2. CASE InsertStarted(t)
    BY <2>2, InsertStartedStep
  <2>3. CASE Yield(t)
    BY <2>3, YieldStep
  <2>4. CASE EnterCritical(t) \/ ExitCritical(t)
    BY <2>4, LockStep
  <2>5. CASE Exit(t)
    BY <2>5, ExitStep
  <2>6. CASE DeleteTimer(t)
    BY <2>6, DeleteTimerStep
  <2>7. CASE DeleteClose(t)
    BY <2>7, DeleteCloseStep
  <2>8. CASE \E u \in Thread : Startup(t, u) \/ ResumeOther(t, u)
    BY <2>8, TargetStep
  <2>9. CASE \E u \in Thread : WakeUp(t, u)
    BY <2>9, WakeUpStep
  <2>10. CASE \E u \in Thread : SuspendOther(t, u)
    BY <2>10, SuspendOtherStep
  <2>11. CASE \E u \in Thread : Delete(t, u)
    BY <2>11, DeleteStep
  <2>12. CASE \E u \in Thread, p \in Priorities : ChangePriority(t, u, p)
    BY <2>12, ChangePriorityStep
  <2>13. CASE \E ipc, timed \in BOOLEAN : Block(t, ipc, timed)
    BY <2>13, BlockStep
  <2> QED BY <1>1, <2>1, <2>2, <2>3, <2>4, <2>5, <2>6, <2>7, <2>8, <2>9, <2>10, <2>11,
             <2>12, <2>13 DEF ThreadStep
<1>2. CASE \E u \in Thread : Reclaim(u)
  BY <1>2, ReclaimStep
<1>3. CASE Isr
  BY <1>3, TickStep, IsrScheduleStep, TickReturnStep, ThreadTimeoutStep,
     DeviceWakeUpStep DEF Isr
<1>4. CASE PendSV
  BY <1>4, PendSVStep
<1>5. CASE UNCHANGED vars
  <2>1. /\ UNCHANGED <<stat, table, group, current_priority, remaining_tick, cur, nest>>
        /\ UNCHANGED <<waiting, armed, flag, from, to, cpu, isr, pc, target, defunct, freed>>
    BY <1>5 DEF vars, readyVars, switchVars
  <2>2. \A v \in Thread : Kept(v)' <=> Kept(v)
    BY <2>1, KeptSame DEF Deletes
  <2>3. TableOK' /\ First' = First
    BY <2>1, <2>2, TableSame DEF IInv
  <2>4. TypeOK' /\ TargetsOK' /\ StatesOK'
    BY <2>1 DEF IInv, TypeOK, TargetsOK, StatesOK, Works, Deletes
  <2>5. CurrentOK' /\ FirstIsCurrent'
    BY <2>1, <2>2, <2>3 DEF IInv, TypeOK, CurrentOK, FirstIsCurrent
  <2>6. SwitchIsConsistent' /\ NoUseAfterFree'
    BY <2>1 DEF IInv, SwitchIsConsistent, NoUseAfterFree
  <2> QED BY <2>3, <2>4, <2>5, <2>6 DEF IInv
<1> QED BY <1>1, <1>2, <1>3, <1>4, <1>5 DEF Next

LEMMA InvHolds ==
    ASSUME Sleepers = FALSE
    PROVE  Spec => []IInv
BY InvInit, InvStep, PTL DEF Spec

-----------------------------------------------------------------------------
(* What the invariant shows *)

(* A thread is in a list once or not at all. *)
LEMMA OnceListed ==
    ASSUME IInv, NEW t \in Thread, NEW p \in Prio
    PROVE  Cardinality(Listed(t, p)) =
               IF Kept(t) /\ p = current_priority[t] THEN 1 ELSE 0
<1>1. Distinct(table[p]) /\ Elements(table[p]) = KeptAt(p)
  BY DEF IInv, TableOK, Lists
<1>2. Kept(t) /\ p = current_priority[t] <=> t \in Elements(table[p])
  BY <1>1 DEF KeptAt
<1>3. CASE t \in Elements(table[p])
  <2>1. PICK i \in DOMAIN table[p] : table[p][i] = t
    BY <1>3 DEF Elements
  <2>2. Listed(t, p) = {i}
    BY <1>1, <2>1 DEF Listed, Distinct
  <2>3. Cardinality({i}) = 1
    BY FS_Singleton
  <2> QED BY <1>2, <1>3, <2>2, <2>3
<1>4. CASE t \notin Elements(table[p])
  <2>1. Listed(t, p) = {}
    BY <1>4 DEF Listed, Elements
  <2> QED BY <1>2, <1>4, <2>1, FS_EmptySet
<1> QED BY <1>3, <1>4

(* Types hold, and the ready table, its bitmap and the states of the threads   *)
(* agree, whatever threads and interrupts do in any order: rt_schedule never   *)
(* reads an empty list.                                                        *)
THEOREM ReadyTableConsistent ==
    ASSUME Sleepers = FALSE
    PROVE  Spec => []SchedulerOK
<1>1. IInv => SchedulerOK
  <2> SUFFICES ASSUME IInv PROVE SchedulerOK
    OBVIOUS
  <2>1. \A t \in Thread, p \in Prio :
            Cardinality(Listed(t, p)) =
                IF stat[t] = "ready" /\ ~Deleted(t) /\ p = current_priority[t] THEN 1 ELSE 0
    BY OnceListed DEF Kept
  <2> QED BY <2>1 DEF SchedulerOK, ReadyTable, IInv, TableOK, Bits
<1> QED BY <1>1, InvHolds, PTL

(* rt_hw_context_switch and PendSV_Handler: however often rt_current_thread    *)
(* changes while a switch is pending, the right thread is saved and the right  *)
(* one loaded.                                                                 *)
THEOREM SwitchConsistent ==
    ASSUME Sleepers = FALSE
    PROVE  Spec => []SwitchIsConsistent
<1>1. IInv => SwitchIsConsistent
  BY DEF IInv
<1> QED BY <1>1, InvHolds, PTL

(* rt_thread_idle_excute never frees the stack of a thread that the CPU runs,  *)
(* or that a pending switch saves or loads.                                    *)
THEOREM NothingFreedIsUsed ==
    ASSUME Sleepers = FALSE
    PROVE  Spec => []NoUseAfterFree
<1>1. IInv => NoUseAfterFree
  BY DEF IInv
<1> QED BY <1>1, InvHolds, PTL

(* A thread in its own code, with the scheduler unlocked, is the first of the  *)
(* highest priority: no caller of a kernel function goes on although a thread  *)
(* of higher priority has become ready.                                        *)
THEOREM FirstOfTheHighestRuns ==
    ASSUME Sleepers = FALSE
    PROVE  Spec => []HighestRuns
<1>1. IInv => HighestRuns
  BY DEF IInv, HighestRuns, SwitchIsConsistent, FirstIsCurrent, First
<1> QED BY <1>1, InvHolds, PTL

(* rt_enter_critical: nothing takes the CPU from the thread that has locked    *)
(* the scheduler, no interrupt, and no switch that was already pending.        *)
THEOREM LockKeepsTheCpu ==
    ASSUME Sleepers = FALSE
    PROVE  Spec => LockKeepsCpu
<1>1. IInv /\ [Next]_vars => (nest > 0 => cpu' = cpu)
  <2> SUFFICES ASSUME IInv, [Next]_vars, nest > 0 PROVE cpu' = cpu
    OBVIOUS
  <2>1. ~PendSV
    BY DEF IInv, CurrentOK, PendSV
  <2>2. ASSUME NEW t \in Thread, ThreadStep(t) PROVE cpu' = cpu
    BY <2>2 DEF ThreadStep, Schedule, InsertStarted, Yield, EnterCritical, ExitCritical,
       Exit, DeleteTimer, DeleteClose, Startup, WakeUp, ResumeOther, SuspendOther, Delete,
       ChangePriority, Block
  <2>3. CASE Isr
    BY <2>3 DEF Isr, Tick, IsrSchedule, TickReturn, ThreadTimeout, DeviceWakeUp
  <2>4. CASE \E u \in Thread : Reclaim(u)
    BY <2>4 DEF Reclaim
  <2>5. CASE UNCHANGED vars
    BY <2>5 DEF vars
  <2> QED BY <2>1, <2>2, <2>3, <2>4, <2>5 DEF Next
<1>2. IInv /\ [Next]_vars => [nest > 0 => cpu' = cpu]_vars
  BY <1>1
<1>3. Spec => [][Next]_vars
  BY PTL DEF Spec
<1> QED BY <1>2, <1>3, InvHolds, PTL DEF LockKeepsCpu

-----------------------------------------------------------------------------
(* What rt_schedule chooses *)

(* Mutex and IpcObject take the scheduler for one step that lets a thread of   *)
(* the highest priority among the ready ones go on: rt_schedule does, called   *)
(* by a thread or by an interrupt, unless the scheduler is locked.             *)
Choice ==
    nest = 0 /\ (IsrSchedule \/ \E t \in Thread : Schedule(t))
        => cur' \in Top({t \in Thread : Kept(t)}, current_priority)
ChoosesTop == [][Choice]_vars

LEMMA FirstIsTop ==
    ASSUME IInv
    PROVE  First \in Top({t \in Thread : Kept(t)}, current_priority)
<1>1. /\ Highest(group) \in group /\ First \in Thread /\ Kept(First)
      /\ current_priority[First] = Highest(group)
  BY IdleIsKept, FirstIsKept DEF IInv
<1>2. ASSUME NEW t \in Thread, Kept(t)
      PROVE  Highest(group) <= current_priority[t]
  <2>1. current_priority[t] \in Prio
    BY DEF IInv, TypeOK
  <2>2. t \in Elements(table[current_priority[t]])
    BY <1>2, <2>1 DEF IInv, TableOK, Lists, KeptAt
  <2>3. table[current_priority[t]] # <<>>
    BY <2>2 DEF Elements
  <2>4. current_priority[t] \in group
    BY <2>1, <2>3 DEF IInv, TableOK, Bits
  <2>5. group \in SUBSET Nat
    BY PrioType DEF IInv, TypeOK
  <2>6. \E q \in group : \A r \in group : q <= r
    BY <2>4, <2>5, Smallest
  <2> QED BY <2>4, <2>6 DEF Highest
<1> QED BY <1>1, <1>2 DEF Top

(* However threads and interrupts call it, rt_schedule chooses one of the      *)
(* threads of highest priority among those in the ready table.                 *)
THEOREM TopIsChosen ==
    ASSUME Sleepers = FALSE
    PROVE  Spec => ChoosesTop
<1>1. IInv /\ [Next]_vars => Choice
  <2> SUFFICES ASSUME IInv, nest = 0, Reschedule
               PROVE  cur' \in Top({t \in Thread : Kept(t)}, current_priority)
    BY DEF Choice, IsrSchedule, Schedule
  <2> QED BY Rescheduled, FirstIsTop
<1>2. IInv /\ [Next]_vars => [Choice]_vars
  BY <1>1
<1>3. Spec => [][Next]_vars
  BY PTL DEF Spec
<1> QED BY <1>2, <1>3, InvHolds, PTL DEF ChoosesTop

-----------------------------------------------------------------------------
(* Taking turns: what the order of a ready list keeps *)

(* Thread u goes behind its equals: it yields, a tick ends its time slice, or  *)
(* rt_thread_control sets its priority.                                        *)
GivesWay(u) ==
    \/ Yield(u)
    \/ Tick /\ u = cur /\ remaining_tick[u] = 1
    \/ \E t \in Thread, p \in Priorities : ChangePriority(t, u, p)

(* In no list does a thread get in front of another one, except of one that    *)
(* gives way; whoever becomes ready is behind all others.                      *)
OrderKept(p) ==
    \A t, u \in Thread : Ahead(table'[p], t, u) =>
        /\ t \in Elements(table[p])
        /\ Ahead(table[p], t, u) \/ u \notin Elements(table[p]) \/ GivesWay(u)
TurnsKept == [][\A p \in Prio : OrderKept(p)]_vars

LEMMA AppendedAhead ==
    ASSUME NEW s \in Seq(Thread), NEW t \in Thread,
           NEW x, NEW y, Ahead(Append(s, t), x, y)
    PROVE  x \in Elements(s) /\ (y = t \/ Ahead(s, x, y))
<1>1. /\ Len(s) \in Nat /\ DOMAIN s = 1..Len(s) /\ DOMAIN Append(s, t) = 1..Len(s)+1
      /\ Append(s, t)[Len(s)+1] = t /\ \A n \in 1..Len(s) : Append(s, t)[n] = s[n]
  OBVIOUS
<1>2. PICK i, j : /\ i \in 1..Len(s)+1 /\ j \in 1..Len(s)+1 /\ i < j
                  /\ Append(s, t)[i] = x /\ Append(s, t)[j] = y
  BY <1>1 DEF Ahead
<1>3. i \in DOMAIN s /\ s[i] = x
  BY <1>1, <1>2
<1>4. CASE j = Len(s)+1
  BY <1>1, <1>2, <1>3, <1>4 DEF Elements
<1>5. CASE j # Len(s)+1
  <2>1. j \in DOMAIN s /\ s[j] = y
    BY <1>1, <1>2, <1>5
  <2> QED BY <1>2, <1>3, <2>1 DEF Elements, Ahead
<1> QED BY <1>4, <1>5

(* The lists after each change of the table. *)
LEMMA SameOrder ==
    ASSUME UNCHANGED table
    PROVE  \A p \in Prio : OrderKept(p)
BY AheadIn DEF OrderKept

LEMMA InsertOrder ==
    ASSUME IInv, NEW u \in Thread, Insert(u), ~Kept(u)
    PROVE  \A p \in Prio : OrderKept(p)
<1> DEFINE q == current_priority[u]
<1>1. /\ q \in Prio /\ table \in [Prio -> Seq(Thread)] /\ u \notin Elements(table[q])
      /\ table' = [table EXCEPT ![q] = Append(@, u)]
  BY DEF IInv, TypeOK, TableOK, Lists, KeptAt, Insert
<1> HIDE DEF q
<1> SUFFICES ASSUME NEW p \in Prio, NEW x \in Thread, NEW y \in Thread, Ahead(table'[p], x, y)
             PROVE  /\ x \in Elements(table[p])
                    /\ Ahead(table[p], x, y) \/ y \notin Elements(table[p])
  BY DEF OrderKept
<1>2. CASE p = q
  BY <1>1, <1>2, AppendedAhead
<1>3. CASE p # q
  BY <1>1, <1>3, AheadIn
<1> QED BY <1>2, <1>3

LEMMA RemoveOrder ==
    ASSUME IInv, NEW u \in Thread, NEW state, RemoveAs(u, state), Kept(u)
    PROVE  \A p \in Prio : OrderKept(p)
<1> DEFINE q == current_priority[u]
<1>1. /\ q \in Prio /\ table \in [Prio -> Seq(Thread)] /\ u \in Elements(table[q])
      /\ table' = [table EXCEPT ![q] = Without(@, u)]
  BY DEF IInv, TypeOK, TableOK, Lists, KeptAt, RemoveAs
<1> HIDE DEF q
<1>2. Keeps(table[q], Without(table[q], u))
  BY <1>1, RemovedKeeps
<1> SUFFICES ASSUME NEW p \in Prio, NEW x \in Thread, NEW y \in Thread, Ahead(table'[p], x, y)
             PROVE  x \in Elements(table[p]) /\ Ahead(table[p], x, y)
  BY DEF OrderKept
<1>3. CASE p = q
  BY <1>1, <1>2, <1>3 DEF Keeps
<1>4. CASE p # q
  BY <1>1, <1>4, AheadIn
<1> QED BY <1>3, <1>4

(* A thread goes to the end of the list of priority p, from the same list or   *)
(* from another one.                                                           *)
LEMMA MoveOrder ==
    ASSUME IInv, NEW u \in Thread, Kept(u), GivesWay(u), NEW p \in Prio, NEW q,
           q = current_priority[u], NEW off, off = [table EXCEPT ![q] = Without(@, u)],
           table' = [off EXCEPT ![p] = Append(@, u)]
    PROVE  \A n \in Prio : OrderKept(n)
<1>1. /\ q \in Prio /\ table \in [Prio -> Seq(Thread)] /\ Distinct(table[q])
      /\ u \in Elements(table[q])
  BY DEF IInv, TypeOK, TableOK, Lists, KeptAt
<1>2. Without(table[q], u) \in Seq(Thread) /\ Keeps(table[q], Without(table[q], u))
      /\ Elements(Without(table[q], u)) \subseteq Elements(table[q])
  BY <1>1, RemovedList, RemovedKeeps
<1>3. ASSUME NEW n \in Prio
      PROVE  off[n] \in Seq(Thread) /\ Elements(off[n]) \subseteq Elements(table[n])
             /\ Keeps(table[n], off[n])
  <2>1. CASE n = q
    BY <1>1, <1>2, <2>1
  <2>2. CASE n # q
    BY <1>1, <2>2, SameKeeps
  <2> QED BY <2>1, <2>2
<1>4. DOMAIN off = Prio
  BY <1>1
<1> SUFFICES ASSUME NEW n \in Prio, NEW x \in Thread, NEW y \in Thread, Ahead(table'[n], x, y)
             PROVE  x \in Elements(table[n]) /\ (Ahead(table[n], x, y) \/ y = u)
  BY DEF OrderKept
<1>5. CASE n = p
  <2> PICK s : s = off[n]
    OBVIOUS
  <2>1. s \in Seq(Thread) /\ table'[n] = Append(s, u)
    BY <1>3, <1>4, <1>5
  <2>2. x \in Elements(off[n]) /\ (y = u \/ Ahead(off[n], x, y))
    <3>1. Ahead(Append(s, u), x, y)
      BY <2>1
    <3>2. x \in Elements(s) /\ (y = u \/ Ahead(s, x, y))
      BY <2>1, <3>1, AppendedAhead
    <3> QED BY <3>2
  <2>3. Keeps(table[n], off[n]) /\ Elements(off[n]) \subseteq Elements(table[n])
    BY <1>3
  <2> QED BY <2>2, <2>3 DEF Keeps
<1>6. CASE n # p
  <2>1. table'[n] = off[n]
    BY <1>4, <1>6
  <2>2. Keeps(table[n], off[n]) /\ Ahead(off[n], x, y)
    BY <1>3, <2>1
  <2> QED BY <2>2 DEF Keeps
<1> QED BY <1>5, <1>6

LEMMA RotateOrder ==
    ASSUME IInv, NEW u \in Thread, Kept(u), GivesWay(u),
           table' = [table EXCEPT ![current_priority[u]] = Rotated(@, u)]
    PROVE  \A p \in Prio : OrderKept(p)
<1> PICK q : q = current_priority[u]
  OBVIOUS
<1> PICK off : off = [table EXCEPT ![q] = Without(@, u)]
  OBVIOUS
<1>1. q \in Prio /\ DOMAIN table = Prio
  BY DEF IInv, TypeOK
<1>2. table' = [off EXCEPT ![q] = Append(@, u)]
  BY <1>1 DEF Rotated
<1> QED BY <1>1, <1>2, MoveOrder

(* Threads take turns: in the list of a priority nobody overtakes another      *)
(* thread that has not given way by itself, by the end of its time slice or    *)
(* by a change of its priority.  With FirstOfTheHighestRuns: of two threads    *)
(* of the highest priority that stay ready the one behind runs as soon as      *)
(* those in front have each given way or left once.                            *)
THEOREM TurnsAreKept ==
    ASSUME Sleepers = FALSE
    PROVE  Spec => TurnsKept
<1>1. ASSUME IInv, [Next]_vars PROVE \A p \in Prio : OrderKept(p)
  <2> USE <1>1
  <2>1. ASSUME NEW t \in Thread, ThreadStep(t) PROVE \A p \in Prio : OrderKept(p)
    <3> USE <2>1
    <3>1. CASE \/ Schedule(t) \/ EnterCritical(t) \/ ExitCritical(t)
               \/ DeleteTimer(t) \/ DeleteClose(t)
               \/ \E u \in Thread : Startup(t, u) \/ ResumeOther(t, u)
      <4>1. UNCHANGED table
        BY <3>1 DEF Schedule, EnterCritical, ExitCritical, DeleteTimer, DeleteClose,
           Startup, ResumeOther, readyVars
      <4> QED BY <4>1, SameOrder
    <3>2. CASE InsertStarted(t)
      <4>1. target[t] \in Thread /\ Insert(target[t]) /\ stat[target[t]] = "suspend"
        BY <3>2 DEF InsertStarted, Runs, IInv, TypeOK, TargetsOK
      <4> QED BY <4>1, InsertOrder DEF Kept
    <3>3. CASE \E u \in Thread : WakeUp(t, u)
      <4>1. PICK u \in Thread : Insert(u) /\ u \in waiting
        BY <3>3 DEF WakeUp, ResumeWaiting
      <4> QED BY <4>1, InsertOrder DEF Kept, IInv, StatesOK
    <3>4. CASE Yield(t)
      <4>1. /\ GivesWay(t) /\ Kept(t)
            /\ table' = [table EXCEPT ![current_priority[t]] = Rotated(@, t)]
        BY <3>4, Runner DEF GivesWay, Yield
      <4> QED BY <4>1, RotateOrder
    <3>5. CASE Exit(t) \/ \E ipc, timed \in BOOLEAN : Block(t, ipc, timed)
      <4>1. Kept(t) /\ \E state : RemoveAs(t, state)
        BY <3>5, Runner DEF Exit, Block
      <4> QED BY <4>1, RemoveOrder
    <3>6. CASE \E u \in Thread : SuspendOther(t, u) \/ Delete(t, u)
      <4>1. PICK u \in Thread : SuspendOther(t, u) \/ Delete(t, u)
        BY <3>6
      <4>2. CASE stat[u] = "ready"
        <5>1. ~Handled(u) /\ \E state : RemoveAs(u, state)
          BY <4>1, <4>2 DEF SuspendOther, Delete
        <5>2. Kept(u)
          BY <4>2, <5>1 DEF Kept, Deleted, Handled
        <5> QED BY <5>1, <5>2, RemoveOrder
      <4>3. CASE stat[u] # "ready"
        BY <4>1, <4>3, SameOrder DEF SuspendOther, Delete, readyVars
      <4> QED BY <4>2, <4>3
    <3>7. CASE \E u \in Thread, p \in Priorities : ChangePriority(t, u, p)
      <4>1. PICK u \in Thread, p \in Priorities : ChangePriority(t, u, p)
        BY <3>7
      <4>2. CASE stat[u] = "ready"
        <5> DEFINE q == current_priority[u]
                   off == [table EXCEPT ![q] = Without(@, u)]
        <5>1. ~Handled(u) /\ table' = [off EXCEPT ![p] = Append(@, u)]
          BY <4>1, <4>2 DEF ChangePriority
        <5>2. Kept(u) /\ GivesWay(u) /\ p \in Prio
          BY <4>1, <4>2, <5>1, ThreadAssumption DEF Kept, Deleted, Handled, GivesWay, Prio
        <5>3. \A a, b : a = q /\ b = [table EXCEPT ![a] = Without(@, u)]
                        /\ table' = [b EXCEPT ![p] = Append(@, u)]
                        => \A n \in Prio : OrderKept(n)
          <6> HIDE DEF q, off
          <6> SUFFICES ASSUME NEW a, NEW b, a = q, b = [table EXCEPT ![a] = Without(@, u)],
                              table' = [b EXCEPT ![p] = Append(@, u)]
                       PROVE  \A n \in Prio : OrderKept(n)
            OBVIOUS
          <6>1. a = current_priority[u]
            BY DEF q
          <6> QED BY <5>2, <6>1, MoveOrder
        <5> QED BY <5>1, <5>3
      <4>3. CASE stat[u] # "ready"
        BY <4>1, <4>3, SameOrder DEF ChangePriority
      <4> QED BY <4>2, <4>3
    <3> QED BY <3>1, <3>2, <3>3, <3>4, <3>5, <3>6, <3>7 DEF ThreadStep
  <2>2. CASE Tick
    <3>1. CASE UNCHANGED table
      BY <3>1, SameOrder
    <3>2. CASE ~UNCHANGED table
      <4>1. /\ remaining_tick[cur] - 1 = 0 /\ Yields(cur)
            /\ table' = [table EXCEPT ![current_priority[cur]] = Rotated(@, cur)]
        BY <2>2, <3>2 DEF Tick
      <4>2. cur \in Thread /\ remaining_tick[cur] \in Int
        BY DEF IInv, TypeOK
      <4>3. GivesWay(cur)
        BY <2>2, <4>1, <4>2 DEF GivesWay
      <4>4. Kept(cur)
        BY <4>1 DEF Yields, IInv, CurrentOK
      <4> QED BY <4>1, <4>2, <4>3, <4>4, RotateOrder
    <3> QED BY <3>1, <3>2
  <2>3. CASE \E u \in Thread : ThreadTimeout(u) \/ DeviceWakeUp(u)
    <3>1. PICK u \in Thread : Insert(u) /\ u \in waiting \cup armed
      BY <2>3 DEF ThreadTimeout, DeviceWakeUp, ResumeWaiting
    <3> QED BY <3>1, InsertOrder DEF Kept, IInv, StatesOK
  <2>4. CASE \/ IsrSchedule \/ TickReturn \/ PendSV \/ UNCHANGED vars
             \/ \E u \in Thread : Reclaim(u)
    BY <2>4, SameOrder DEF IsrSchedule, TickReturn, PendSV, Reclaim, vars, readyVars
  <2> QED BY <2>1, <2>2, <2>3, <2>4 DEF Next, Isr
<1>2. IInv /\ [Next]_vars => [\A p \in Prio : OrderKept(p)]_vars
  BY <1>1
<1>3. Spec => [][Next]_vars
  BY PTL DEF Spec
<1> QED BY <1>2, <1>3, InvHolds, PTL DEF TurnsKept
=============================================================================
