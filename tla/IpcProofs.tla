----------------------------- MODULE IpcProofs ------------------------------
(***************************************************************************)
(* Proofs about Ipc for every set of threads with any priorities, every    *)
(* size of the mailbox, every set of event bits, every width of the value  *)
(* of a semaphore and every kind of waiting.  The lemmas about threads and *)
(* their lists say what each section does to those who wait and to those   *)
(* who were woken; each object then keeps its part of the invariant in its *)
(* own steps, and in the steps of the others because they do not concern   *)
(* its threads.                                                            *)
(***************************************************************************)
EXTENDS Ipc, WaitingListProofs, FiniteSetTheorems

-----------------------------------------------------------------------------
(* The invariant *)

PcLabels == {"run", "schedule", "check"}
ThreadTypes ==
    /\ ready \in SUBSET Thread /\ armed \in SUBSET Thread
    /\ cur \in Thread \cup {None}
    /\ pc \in [Thread -> PcLabels]
    /\ call \in [Thread -> Calls]
    /\ suspend_thread \in [Lists -> Seq(Thread)]

(* Who is suspended is in a call, who is in its own code is not, and the       *)
(* current thread is ready until it calls rt_schedule.                         *)
ThreadOK ==
    /\ ThreadTypes /\ ListsOK
    /\ \A t \in Thread : t \notin ready => call[t] # NoCall
    /\ \A t \in Thread : pc[t] = "run" => call[t] = NoCall
    /\ \A t \in Thread : pc[t] = "check" => call[t] # NoCall
    /\ cur \in Thread => cur \in ready \/ pc[cur] = "schedule"

(* A semaphore's value and the history of its tokens. *)
SemOK ==
    /\ value \in 0..SemMod-1 /\ balance \in Int /\ wrapped \in BOOLEAN
    /\ TokensKept /\ NoWaitWithToken

-----------------------------------------------------------------------------
(* Numbers *)

LEMMA ModRange ==
    ASSUME NEW m \in Nat \ {0}, NEW y \in Int
    PROVE  y % m \in 0..m-1
OBVIOUS

LEMMA ModSmall ==
    ASSUME NEW m \in Nat \ {0}, NEW y \in 0..m-1
    PROVE  y % m = y
OBVIOUS

-----------------------------------------------------------------------------
(* Calls and lists *)

LEMMA CallFacts ==
    /\ NoCall.on = None /\ None \notin Lists /\ NoCall \in Calls
    /\ \A c \in Calls : c # NoCall => c.on \in Lists /\ c.error \in Errors
BY DEF Calls, NoCall, None, Lists, Errors

LEMMA CallWithError ==
    ASSUME NEW c \in Calls, c # NoCall, NEW e \in Errors
    PROVE  LET d == [c EXCEPT !.error = e]
           IN  d \in Calls /\ d # NoCall /\ d.on = c.on /\ d.error = e
<1> DEFINE d == [c EXCEPT !.error = e]
<1>1. CASE c \in [on : {"sem", "recv"}, timed : BOOLEAN, error : Errors]
  <2>1. /\ d \in [on : {"sem", "recv"}, timed : BOOLEAN, error : Errors]
        /\ d.on = c.on /\ d.error = e
    BY <1>1
  <2> QED BY <2>1 DEF Calls, NoCall, None
<1>2. CASE c \in [on : {"send"}, timed : BOOLEAN, error : Errors, mail : Mail]
  <2>1. /\ d \in [on : {"send"}, timed : BOOLEAN, error : Errors, mail : Mail]
        /\ d.on = c.on /\ d.error = e
    BY <1>2
  <2> QED BY <2>1 DEF Calls, NoCall, None
<1>3. CASE c \in [on : {"event"}, timed : BOOLEAN, error : Errors, mask : SUBSET Bits,
                  asked : SUBSET Bits, all : BOOLEAN, clear : BOOLEAN]
  <2>1. /\ d \in [on : {"event"}, timed : BOOLEAN, error : Errors, mask : SUBSET Bits,
                  asked : SUBSET Bits, all : BOOLEAN, clear : BOOLEAN]
        /\ d.on = c.on /\ d.error = e
    BY <1>3
  <2> QED BY <2>1 DEF Calls, NoCall, None
<1> QED BY <1>1, <1>2, <1>3 DEF Calls

LEMMA EmptyList ==
    ASSUME NEW P, NEW s \in Seq(P)
    PROVE  s = <<>> <=> Elements(s) = {}
<1>1. s # <<>> => 1 \in DOMAIN s
  OBVIOUS
<1>2. s = <<>> => DOMAIN s = {}
  OBVIOUS
<1> QED BY <1>1, <1>2 DEF Elements

LEMMA WokenFinite ==
    ASSUME NEW l
    PROVE  IsFiniteSet(Woken(l)) /\ Cardinality(Woken(l)) \in Nat
<1>1. Woken(l) \subseteq Thread
  BY DEF Woken
<1>2. IsFiniteSet(Woken(l))
  BY <1>1, IpcAssumption, FS_Subset
<1> QED BY <1>2, FS_CardinalityType

(* What ListsOK says of the lists, with the words of WaitingListProofs. *)
LEMMA TheLists ==
    ASSUME ThreadOK, NEW l \in Lists
    PROVE  /\ suspend_thread[l] \in Seq(Thread) /\ Distinct(suspend_thread[l])
           /\ Elements(suspend_thread[l]) = {t \in Thread \ ready : call[t].on = l}
           /\ \A t \in Elements(suspend_thread[l]) : call[t].error = "OK"
BY DEF ThreadOK, ThreadTypes, ListsOK, Distinct

LEMMA ListsThen ==
    ASSUME \A l \in Lists :
               /\ suspend_thread'[l] \in Seq(Thread) /\ Distinct(suspend_thread'[l])
               /\ Elements(suspend_thread'[l]) = {t \in Thread \ ready' : call'[t].on = l}
               /\ \A t \in Elements(suspend_thread'[l]) : call'[t].error = "OK",
           armed' \subseteq {t \in Thread \ ready' : call'[t] # NoCall}
    PROVE  ListsOK'
BY DEF ListsOK, Distinct

-----------------------------------------------------------------------------
(* The threads and their lists *)

(* A thread goes to wait, for the first time or again. *)
LEMMA SuspendStep ==
    ASSUME ThreadOK, NEW t \in Thread, NEW what \in Calls, what # NoCall,
           what.error = "OK", t \in ready, call[t] \in {NoCall, what}, Suspend(t, what)
    PROVE  /\ ThreadOK'
           /\ \A l \in Lists : Woken(l)' = Woken(l) \ {t}
           /\ \A l \in Lists : l # what.on => suspend_thread'[l] = suspend_thread[l]
           /\ Elements(suspend_thread'[what.on]) = Elements(suspend_thread[what.on]) \cup {t}
           /\ call' = [call EXCEPT ![t] = what]
<1> DEFINE k == what.on
           s == suspend_thread[k]
           r == Suspended(s, t, Flag[k], InitPrio)
<1>1. k \in Lists
  BY CallFacts
<1>2. /\ suspend_thread' = [suspend_thread EXCEPT ![k] = r]
      /\ ready' = ready \ {t} /\ armed' \in SUBSET (armed \cup {t})
      /\ call' = [call EXCEPT ![t] = what] /\ pc' = [pc EXCEPT ![t] = "schedule"]
      /\ cur' = cur
  BY DEF Suspend
<1>3. /\ s \in Seq(Thread) /\ Distinct(s)
      /\ Elements(s) = {u \in Thread \ ready : call[u].on = k}
  BY <1>1, TheLists
<1>4. InitPrio \in [Thread -> Int] /\ t \in Thread \ Elements(s)
  BY <1>3, IpcAssumption
<1>5. r \in Seq(Thread) /\ Elements(r) = Elements(s) \cup {t} /\ Distinct(r)
  BY <1>3, <1>4, SuspendedList
<1> HIDE DEF r
<1>6. call \in [Thread -> Calls] /\ suspend_thread \in [Lists -> Seq(Thread)]
      /\ pc \in [Thread -> PcLabels]
  BY DEF ThreadOK, ThreadTypes
<1>7. /\ suspend_thread'[k] = r
      /\ \A l \in Lists : l # k => suspend_thread'[l] = suspend_thread[l]
  BY <1>1, <1>2, <1>6
<1>8. /\ call'[t] = what /\ \A u \in Thread : u # t => call'[u] = call[u]
      /\ pc'[t] = "schedule" /\ \A u \in Thread : u # t => pc'[u] = pc[u]
  BY <1>2, <1>6
<1>9. ListsOK'
  <2>1. ASSUME NEW l \in Lists
        PROVE  /\ suspend_thread'[l] \in Seq(Thread) /\ Distinct(suspend_thread'[l])
               /\ Elements(suspend_thread'[l]) = {u \in Thread \ ready' : call'[u].on = l}
               /\ \A u \in Elements(suspend_thread'[l]) : call'[u].error = "OK"
    <3>1. /\ suspend_thread[l] \in Seq(Thread) /\ Distinct(suspend_thread[l])
          /\ Elements(suspend_thread[l]) = {u \in Thread \ ready : call[u].on = l}
          /\ \A u \in Elements(suspend_thread[l]) : call[u].error = "OK"
      BY TheLists
    <3>2. {u \in Thread \ ready' : call'[u].on = l} =
              IF l = k THEN {u \in Thread \ ready : call[u].on = l} \cup {t}
                       ELSE {u \in Thread \ ready : call[u].on = l}
      BY <1>2, <1>8
    <3>3. CASE l = k
      BY <1>3, <1>5, <1>7, <1>8, <3>1, <3>2, <3>3
    <3>4. CASE l # k
      BY <1>7, <1>8, <3>1, <3>2, <3>4
    <3> QED BY <3>3, <3>4
  <2>2. armed' \subseteq {u \in Thread \ ready' : call'[u] # NoCall}
    BY <1>2, <1>8 DEF ThreadOK, ListsOK
  <2> QED BY <2>1, <2>2, ListsThen
<1>10. ThreadTypes'
  <2>1. suspend_thread' \in [Lists -> Seq(Thread)]
    BY <1>1, <1>2, <1>5, <1>6
  <2>2. pc' \in [Thread -> PcLabels]
    BY <1>2, <1>6 DEF PcLabels
  <2>3. call' \in [Thread -> Calls]
    BY <1>2, <1>6
  <2> QED BY <1>2, <2>1, <2>2, <2>3 DEF ThreadOK, ThreadTypes
<1>11. ThreadOK'
  <2>1. \A u \in Thread : /\ u \notin ready' => call'[u] # NoCall
                          /\ pc'[u] = "run" => call'[u] = NoCall
                          /\ pc'[u] = "check" => call'[u] # NoCall
    BY <1>2, <1>8 DEF ThreadOK
  <2>2. cur' \in Thread => cur' \in ready' \/ pc'[cur'] = "schedule"
    BY <1>2, <1>8 DEF ThreadOK
  <2> QED BY <1>9, <1>10, <2>1, <2>2 DEF ThreadOK
<1>12. ASSUME NEW l \in Lists
       PROVE  Woken(l)' = Woken(l) \ {t}
  <2>1. Woken(l)' = {u \in Thread \ Elements(suspend_thread'[l]) :
                       call'[u].on = l /\ call'[u].error = "OK"}
    BY DEF Woken
  <2>2. t \notin Woken(l)'
    BY <1>5, <1>7, <1>8, <2>1
  <2>3. \A u \in Thread \ {t} : u \in Woken(l)' <=> u \in Woken(l)
    BY <1>5, <1>7, <1>8, <2>1 DEF Woken
  <2>4. Woken(l)' \subseteq Thread /\ Woken(l) \subseteq Thread
    BY DEF Woken
  <2> QED BY <2>2, <2>3, <2>4
<1> QED BY <1>2, <1>5, <1>7, <1>11, <1>12

(* A step that changes no list, and no call but of the threads in D, which    *)
(* return.                                                                    *)
LEMMA ReturnStep ==
    ASSUME ThreadOK, NEW D \in SUBSET ready,
           call' = [t \in Thread |-> IF t \in D THEN NoCall ELSE call[t]],
           pc' \in [Thread -> PcLabels],
           \A t \in Thread : pc'[t] = "run" => t \in D \/ pc[t] = "run",
           \A t \in Thread : pc'[t] = "check" => t \notin D /\ call[t] # NoCall,
           cur' \in Thread \cup {None},
           cur' \in Thread => cur' \in ready \/ pc'[cur'] = "schedule",
           UNCHANGED <<ready, armed, suspend_thread>>
    PROVE  /\ ThreadOK'
           /\ \A l \in Lists : Woken(l)' = Woken(l) \ D
<1>1. call \in [Thread -> Calls] /\ D \subseteq Thread
  BY DEF ThreadOK, ThreadTypes
<1>2. \A t \in Thread : /\ t \in D => call'[t] = NoCall
                        /\ t \notin D => call'[t] = call[t]
  OBVIOUS
<1>3. ListsOK'
  <2>1. ASSUME NEW l \in Lists
        PROVE  /\ suspend_thread'[l] \in Seq(Thread) /\ Distinct(suspend_thread'[l])
               /\ Elements(suspend_thread'[l]) = {u \in Thread \ ready' : call'[u].on = l}
               /\ \A u \in Elements(suspend_thread'[l]) : call'[u].error = "OK"
    <3>1. /\ suspend_thread[l] \in Seq(Thread) /\ Distinct(suspend_thread[l])
          /\ Elements(suspend_thread[l]) = {u \in Thread \ ready : call[u].on = l}
          /\ \A u \in Elements(suspend_thread[l]) : call[u].error = "OK"
      BY TheLists
    <3>2. {u \in Thread \ ready' : call'[u].on = l} = {u \in Thread \ ready : call[u].on = l}
      BY <1>2
    <3> QED BY <1>2, <3>1, <3>2
  <2>2. armed' \subseteq {u \in Thread \ ready' : call'[u] # NoCall}
    BY <1>2 DEF ThreadOK, ListsOK
  <2> QED BY <2>1, <2>2, ListsThen
<1>4. ThreadTypes'
  <2>1. call' \in [Thread -> Calls]
    BY <1>1, CallFacts
  <2> QED BY <2>1 DEF ThreadOK, ThreadTypes
<1>5. ThreadOK'
  <2>1. \A u \in Thread : /\ u \notin ready' => call'[u] # NoCall
                          /\ pc'[u] = "run" => call'[u] = NoCall
                          /\ pc'[u] = "check" => call'[u] # NoCall
    BY <1>2 DEF ThreadOK
  <2> QED BY <1>3, <1>4, <2>1 DEF ThreadOK
<1>6. ASSUME NEW l \in Lists
      PROVE  Woken(l)' = Woken(l) \ D
  <2>1. Woken(l)' = {u \in Thread \ Elements(suspend_thread[l]) :
                       call'[u].on = l /\ call'[u].error = "OK"}
    BY DEF Woken
  <2>2. \A u \in D : call'[u].on # l
    BY <1>1, <1>2, CallFacts
  <2>3. \A u \in Thread \ D : u \in Woken(l)' <=> u \in Woken(l)
    BY <1>2, <2>1 DEF Woken
  <2>4. Woken(l)' \subseteq Thread /\ Woken(l) \subseteq Thread
    BY DEF Woken
  <2>5. \A u \in D : u \notin Woken(l)'
    BY <2>1, <2>2
  <2> QED BY <2>3, <2>4, <2>5
<1> QED BY <1>5, <1>6

(* rt_schedule behind a section that makes threads ready. *)
LEMMA Scheduled ==
    ASSUME ThreadOK, NEW c \in Callers, ThenSchedule(c), ready \subseteq ready',
           ready' \subseteq Thread
    PROVE  /\ pc' \in [Thread -> PcLabels] /\ cur' \in Thread \cup {None}
           /\ cur' \in Thread => cur' \in ready' \/ pc'[cur'] = "schedule"
           /\ \A t \in Thread : pc'[t] # "schedule" => pc'[t] = pc[t] /\ t # c
<1>1. pc \in [Thread -> PcLabels] /\ cur \in Thread \cup {None}
      /\ (cur \in Thread => cur \in ready \/ pc[cur] = "schedule")
  BY DEF ThreadOK, ThreadTypes
<1>2. CASE c = Isr
  <2>1. Reschedule(ready') /\ pc' = pc
    BY <1>2 DEF ThenSchedule
  <2>2. cur' = None \/ cur' \in ready'
    BY <2>1 DEF Reschedule, Top
  <2>3. Isr \notin Thread /\ None \notin Thread
    BY IpcAssumption
  <2> QED BY <1>1, <1>2, <2>1, <2>2, <2>3
<1>3. CASE c # Isr
  <2>1. c \in Thread
    BY <1>3 DEF Callers
  <2>2. pc' = [pc EXCEPT ![c] = "schedule"] /\ cur' = cur
    BY <1>3 DEF ThenSchedule
  <2> QED BY <1>1, <2>1, <2>2 DEF PcLabels
<1> QED BY <1>2, <1>3

LEMMA SuspendedButOne ==
    ASSUME NEW k, NEW u, ready' = ready \cup {u},
           \A t \in Thread : t # u /\ t \notin ready => call'[t] = call[t]
    PROVE  {t \in Thread \ ready' : call'[t].on = k}
              = {t \in Thread \ ready : call[t].on = k} \ {u}
OBVIOUS

(* Thread u leaves list l, which becomes r, and is ready; the calls in D return. *)
Leaves(l, u, D, r) ==
    /\ l \in Lists /\ u \in Elements(suspend_thread[l]) /\ D \in SUBSET ready
    /\ r \in Seq(Thread) /\ Distinct(r)
    /\ Elements(r) = Elements(suspend_thread[l]) \ {u}
    /\ suspend_thread' = [suspend_thread EXCEPT ![l] = r]
    /\ ready' = ready \cup {u} /\ armed' = armed \ {u}
    /\ call' \in [Thread -> Calls] /\ call'[u] # NoCall /\ call'[u].on = l
    /\ \A t \in D : call'[t] = NoCall
    /\ \A t \in Thread : t # u /\ t \notin D => call'[t] = call[t]
    /\ pc' \in [Thread -> PcLabels] /\ cur' \in Thread \cup {None}
    /\ cur' \in Thread => cur' \in ready' \/ pc'[cur'] = "schedule"
    /\ \A t \in Thread : pc'[t] # "schedule" => pc'[t] = pc[t] /\ t \notin D

LEMMA LeaveStep ==
    ASSUME ThreadOK, NEW l, NEW u, NEW D, NEW r, Leaves(l, u, D, r)
    PROVE  /\ ThreadOK'
           /\ u \in Thread \ ready /\ call[u].on = l /\ call[u].error = "OK"
           /\ \A k \in Lists : /\ Elements(suspend_thread'[k]) = Elements(suspend_thread[k]) \ {u}
                               /\ k # l => suspend_thread'[k] = suspend_thread[k]
                               /\ u \notin Woken(k)
           /\ \A k \in Lists : Woken(k)' =
                  (Woken(k) \ D) \cup IF k = l /\ call'[u].error = "OK" THEN {u} ELSE {}
<1> USE DEF Leaves
<1>1. /\ u \in Thread /\ u \notin ready /\ call[u].on = l /\ call[u].error = "OK"
  BY TheLists
<1>2. /\ call \in [Thread -> Calls] /\ suspend_thread \in [Lists -> Seq(Thread)]
      /\ pc \in [Thread -> PcLabels] /\ D \subseteq Thread /\ u \notin D
      /\ ready \subseteq Thread
  BY <1>1 DEF ThreadOK, ThreadTypes
<1>3. /\ suspend_thread'[l] = r
      /\ \A k \in Lists : k # l => suspend_thread'[k] = suspend_thread[k]
  BY <1>2
<1>4. \A k \in Lists : u \in Elements(suspend_thread[k]) <=> k = l
  BY <1>1, TheLists
<1>5. \A k \in Lists : Elements(suspend_thread'[k]) = Elements(suspend_thread[k]) \ {u}
  BY <1>3, <1>4
<1>6. \A t \in D : call'[t].on \notin Lists
  BY CallFacts
<1>7. ListsOK'
  <2>1. ASSUME NEW k \in Lists
        PROVE  /\ suspend_thread'[k] \in Seq(Thread) /\ Distinct(suspend_thread'[k])
               /\ Elements(suspend_thread'[k]) = {t \in Thread \ ready' : call'[t].on = k}
               /\ \A t \in Elements(suspend_thread'[k]) : call'[t].error = "OK"
    <3>1. /\ suspend_thread[k] \in Seq(Thread) /\ Distinct(suspend_thread[k])
          /\ Elements(suspend_thread[k]) = {t \in Thread \ ready : call[t].on = k}
          /\ \A t \in Elements(suspend_thread[k]) : call[t].error = "OK"
      BY TheLists
    <3>2. suspend_thread'[k] \in Seq(Thread) /\ Distinct(suspend_thread'[k])
      BY <1>3, <3>1
    <3>3. {t \in Thread \ ready' : call'[t].on = k}
              = {t \in Thread \ ready : call[t].on = k} \ {u}
      BY <1>2, SuspendedButOne
    <3>4. \A t \in Elements(suspend_thread'[k]) : call'[t] = call[t]
      BY <1>5, <3>1
    <3>5. Elements(suspend_thread'[k]) = {t \in Thread \ ready' : call'[t].on = k}
      BY <1>5, <3>1, <3>3
    <3>6. \A t \in Elements(suspend_thread'[k]) : call'[t].error = "OK"
      BY <1>5, <3>1, <3>4
    <3> QED BY <3>2, <3>5, <3>6
  <2>2. armed' \subseteq {t \in Thread \ ready' : call'[t] # NoCall}
    BY <1>2 DEF ThreadOK, ListsOK
  <2> QED BY <2>1, <2>2, ListsThen
<1>8. ThreadTypes'
  <2>1. suspend_thread' \in [Lists -> Seq(Thread)]
    BY <1>2
  <2> QED BY <1>1, <2>1 DEF ThreadOK, ThreadTypes
<1>9. ThreadOK'
  <2>1. \A t \in Thread : /\ t \notin ready' => call'[t] # NoCall
                          /\ pc'[t] = "run" => call'[t] = NoCall
                          /\ pc'[t] = "check" => call'[t] # NoCall
    BY <1>1 DEF ThreadOK
  <2> QED BY <1>7, <1>8, <2>1 DEF ThreadOK
<1>10. ASSUME NEW k \in Lists
       PROVE  /\ u \notin Woken(k)
              /\ Woken(k)' = (Woken(k) \ D) \cup
                    IF k = l /\ call'[u].error = "OK" THEN {u} ELSE {}
  <2>1. Woken(k)' = {t \in Thread \ Elements(suspend_thread'[k]) :
                       call'[t].on = k /\ call'[t].error = "OK"}
    BY DEF Woken
  <2>2. u \notin Woken(k)
    BY <1>1, <1>4 DEF Woken
  <2>3. u \in Woken(k)' <=> k = l /\ call'[u].error = "OK"
    BY <1>1, <1>5, <2>1
  <2>4. \A t \in D : t \notin Woken(k)'
    BY <1>6, <2>1
  <2>5. \A t \in Thread : t # u /\ t \notin D => (t \in Woken(k)' <=> t \in Woken(k))
    BY <1>5, <2>1 DEF Woken
  <2>6. Woken(k)' \subseteq Thread /\ Woken(k) \subseteq Thread
    BY DEF Woken
  <2> QED BY <1>1, <2>2, <2>3, <2>4, <2>5, <2>6
<1> QED BY <1>1, <1>3, <1>5, <1>9, <1>10

(* rt_ipc_list_resume, behind which caller c calls rt_schedule; D is empty,   *)
(* or c alone, whose call is over.                                            *)
LEMMA ResumeStep ==
    ASSUME ThreadOK, NEW l \in Lists, Suspends(l), Resume(l),
           NEW c \in Callers, ThenSchedule(c), NEW D \in SUBSET ready, D \subseteq {c},
           call' = [t \in Thread |-> IF t \in D THEN NoCall ELSE call[t]]
    PROVE  /\ ThreadOK'
           /\ \A k \in Lists : k # l => suspend_thread'[k] = suspend_thread[k]
           /\ \A k \in Lists : Elements(suspend_thread'[k]) \subseteq Elements(suspend_thread[k])
           /\ \E u \in Thread \ (ready \cup Woken(l)) :
                  /\ \A k \in Lists : Woken(k)' =
                        (Woken(k) \ D) \cup IF k = l THEN {u} ELSE {}
                  /\ u \in Elements(suspend_thread[l])
<1>1. PICK s : s = suspend_thread[l]
  OBVIOUS
<1>2. PICK u, r : u = Head(s) /\ r = Tail(s)
  OBVIOUS
<1>3. /\ r \in Seq(Thread) /\ Distinct(r) /\ u \in Elements(suspend_thread[l])
      /\ Elements(r) = Elements(suspend_thread[l]) \ {u}
      /\ suspend_thread' = [suspend_thread EXCEPT ![l] = r]
      /\ ready' = ready \cup {u} /\ armed' = armed \ {u}
  <2>1. s \in Seq(Thread) /\ Distinct(s) /\ s # <<>>
    BY <1>1, TheLists DEF Suspends
  <2>2. /\ r \in Seq(Thread) /\ Distinct(r) /\ u \in Elements(s)
        /\ Elements(r) = Elements(s) \ {u}
    BY <1>2, <2>1, TailList
  <2> QED BY <1>1, <1>2, <2>2 DEF Resume
<1>4. u \in Thread /\ u \notin ready /\ call[u].on = l /\ call[u].error = "OK"
      /\ call[u] # NoCall
  BY <1>3, TheLists, CallFacts
<1>5. /\ call \in [Thread -> Calls] /\ ready \subseteq Thread
  BY DEF ThreadOK, ThreadTypes
<1>6. /\ call' \in [Thread -> Calls] /\ call'[u] = call[u]
      /\ \A t \in D : call'[t] = NoCall
      /\ \A t \in Thread : t # u /\ t \notin D => call'[t] = call[t]
  BY <1>4, <1>5, CallFacts
<1>7. /\ pc' \in [Thread -> PcLabels] /\ cur' \in Thread \cup {None}
      /\ cur' \in Thread => cur' \in ready' \/ pc'[cur'] = "schedule"
      /\ \A t \in Thread : pc'[t] # "schedule" => pc'[t] = pc[t] /\ t # c
  BY <1>3, <1>4, <1>5, Scheduled
<1>8. /\ ThreadOK'
      /\ \A k \in Lists : /\ Elements(suspend_thread'[k]) = Elements(suspend_thread[k]) \ {u}
                          /\ k # l => suspend_thread'[k] = suspend_thread[k]
                          /\ u \notin Woken(k)
      /\ \A k \in Lists : Woken(k)' =
             (Woken(k) \ D) \cup IF k = l /\ call'[u].error = "OK" THEN {u} ELSE {}
  <2>1. \A t \in Thread : pc'[t] # "schedule" => pc'[t] = pc[t] /\ t \notin D
    BY <1>7
  <2>2. call'[u] # NoCall /\ call'[u].on = l
    BY <1>4, <1>6
  <2>3. Leaves(l, u, D, r)
    BY <1>3, <1>6, <1>7, <2>1, <2>2 DEF Leaves
  <2> QED BY <2>3, LeaveStep
<1>9. \A k \in Lists : Woken(k)' = (Woken(k) \ D) \cup IF k = l THEN {u} ELSE {}
  BY <1>4, <1>6, <1>8
<1>10. u \in Thread \ (ready \cup Woken(l)) /\ u \in Elements(suspend_thread[l])
  BY <1>3, <1>4, <1>8
<1>11. /\ \A k \in Lists : k # l => suspend_thread'[k] = suspend_thread[k]
       /\ \A k \in Lists : Elements(suspend_thread'[k]) \subseteq Elements(suspend_thread[k])
  BY <1>8
<1> QED BY <1>8, <1>9, <1>10, <1>11

(* rt_thread_timeout takes the thread off its list. *)
LEMMA TimeoutStep ==
    ASSUME ThreadOK, NEW u \in Thread, ThreadTimeout(u)
    PROVE  /\ ThreadOK' /\ u \notin ready
           /\ \A k \in Lists : /\ Elements(suspend_thread'[k]) = Elements(suspend_thread[k]) \ {u}
                               /\ Woken(k)' = Woken(k) /\ u \notin Woken(k)
           /\ \A t \in Thread : t # u => call'[t] = call[t]
<1>1. /\ u \in armed /\ call' = [call EXCEPT ![u].error = "TIMEOUT"]
      /\ suspend_thread' = [l \in Lists |->
             IF u \in Elements(suspend_thread[l]) THEN Without(suspend_thread[l], u)
                                                  ELSE suspend_thread[l]]
      /\ ready' = ready \cup {u} /\ armed' = armed \ {u}
      /\ Reschedule(ready') /\ pc' = pc
  BY DEF ThreadTimeout
<1>2. /\ call \in [Thread -> Calls] /\ suspend_thread \in [Lists -> Seq(Thread)]
      /\ pc \in [Thread -> PcLabels] /\ ready \subseteq Thread
  BY DEF ThreadOK, ThreadTypes
<1>3. u \notin ready /\ call[u] # NoCall
  BY <1>1 DEF ThreadOK, ListsOK
<1>4. PICK l \in Lists : l = call[u].on
  BY <1>2, <1>3, CallFacts
<1>5. \A k \in Lists : u \in Elements(suspend_thread[k]) <=> k = l
  BY <1>3, <1>4, TheLists
<1>6. PICK r : r = Without(suspend_thread[l], u)
  OBVIOUS
<1>7. /\ r \in Seq(Thread) /\ Distinct(r)
      /\ Elements(r) = Elements(suspend_thread[l]) \ {u}
  BY <1>5, <1>6, TheLists, RemovedList
<1>8. suspend_thread' = [suspend_thread EXCEPT ![l] = r]
  BY <1>1, <1>2, <1>5, <1>6
<1>9. /\ call'[u] \in Calls /\ call'[u] # NoCall /\ call'[u].on = l
      /\ call'[u].error = "TIMEOUT"
  <2>1. call'[u] = [call[u] EXCEPT !.error = "TIMEOUT"]
    BY <1>1, <1>2
  <2> QED BY <1>2, <1>3, <1>4, <2>1, CallWithError DEF Errors
<1>10. call' \in [Thread -> Calls] /\ \A t \in Thread : t # u => call'[t] = call[t]
  BY <1>1, <1>2, <1>9
<1>11. /\ cur' \in Thread \cup {None}
       /\ cur' \in Thread => cur' \in ready'
  BY <1>1, <1>2, IpcAssumption DEF Reschedule, Top
<1>12. Leaves(l, u, {}, r)
  BY <1>1, <1>2, <1>5, <1>7, <1>8, <1>9, <1>10, <1>11 DEF Leaves
<1>13. /\ ThreadOK'
       /\ \A k \in Lists : /\ Elements(suspend_thread'[k]) = Elements(suspend_thread[k]) \ {u}
                           /\ u \notin Woken(k)
       /\ \A k \in Lists : Woken(k)' =
              (Woken(k) \ {}) \cup IF k = l /\ call'[u].error = "OK" THEN {u} ELSE {}
  BY <1>12, LeaveStep
<1> QED BY <1>3, <1>9, <1>10, <1>13

(* rt_ipc_list_resume_all, by thread t. *)
LEMMA ResumeAllStep ==
    ASSUME ThreadOK, NEW t \in Thread, NEW ls \in SUBSET Lists, t \in ready,
           ResumeAll(ls), ThenSchedule(t)
    PROVE  /\ ThreadOK'
           /\ \A k \in Lists : /\ k \in ls => suspend_thread'[k] = <<>>
                               /\ k \notin ls => suspend_thread'[k] = suspend_thread[k]
                               /\ Woken(k)' = Woken(k)
           /\ \A k \in Lists : \A u \in Woken(k) : call'[u] = call[u]
           /\ \A k \in Lists : \A u \in Elements(suspend_thread'[k]) : call'[u] = call[u]
<1>1. PICK us : us = UNION {Elements(suspend_thread[l]) : l \in ls}
  OBVIOUS
<1>2. /\ suspend_thread' = [l \in Lists |-> IF l \in ls THEN <<>> ELSE suspend_thread[l]]
      /\ ready' = ready \cup us /\ armed' = armed \ us
      /\ call' = [u \in Thread |->
                     IF u \in us THEN [call[u] EXCEPT !.error = "ERROR"] ELSE call[u]]
  BY <1>1 DEF ResumeAll
<1>3. /\ call \in [Thread -> Calls] /\ suspend_thread \in [Lists -> Seq(Thread)]
      /\ pc \in [Thread -> PcLabels] /\ ready \subseteq Thread /\ armed \subseteq Thread
  BY DEF ThreadOK, ThreadTypes
<1>4. us = {u \in Thread \ ready : call[u].on \in ls}
  BY <1>1, TheLists
<1>5. \A u \in us : /\ call[u] # NoCall /\ call[u].on \in Lists
                    /\ call'[u] \in Calls /\ call'[u] # NoCall
                    /\ call'[u].on = call[u].on /\ call'[u].error = "ERROR"
  <2>1. \A u \in us : call'[u] = [call[u] EXCEPT !.error = "ERROR"]
    BY <1>2, <1>4
  <2>2. \A u \in us : call[u] # NoCall /\ call[u] \in Calls /\ call[u].on \in Lists
    BY <1>3, <1>4, CallFacts
  <2>3. "ERROR" \in Errors
    BY DEF Errors
  <2>4. ASSUME NEW u \in us
        PROVE  LET d == [call[u] EXCEPT !.error = "ERROR"]
               IN  d \in Calls /\ d # NoCall /\ d.on = call[u].on /\ d.error = "ERROR"
    BY <2>2, <2>3, CallWithError
  <2> QED BY <2>1, <2>2, <2>4
<1>6. \A u \in Thread : u \notin us => call'[u] = call[u]
  BY <1>2
<1>7. \A k \in Lists : /\ k \in ls => suspend_thread'[k] = <<>>
                       /\ k \notin ls => suspend_thread'[k] = suspend_thread[k]
  BY <1>2
<1>8. Elements(<<>>) = {} /\ Distinct(<<>>) /\ <<>> \in Seq(Thread)
  BY DEF Elements, Distinct
<1>9. ListsOK'
  <2>1. ASSUME NEW k \in Lists
        PROVE  /\ suspend_thread'[k] \in Seq(Thread) /\ Distinct(suspend_thread'[k])
               /\ Elements(suspend_thread'[k]) = {u \in Thread \ ready' : call'[u].on = k}
               /\ \A u \in Elements(suspend_thread'[k]) : call'[u].error = "OK"
    <3>1. CASE k \in ls
      <4>1. {u \in Thread \ ready' : call'[u].on = k} = {}
        BY <1>2, <1>4, <1>6, <3>1
      <4> QED BY <1>7, <1>8, <3>1, <4>1
    <3>2. CASE k \notin ls
      <4>1. /\ suspend_thread[k] \in Seq(Thread) /\ Distinct(suspend_thread[k])
            /\ Elements(suspend_thread[k]) = {u \in Thread \ ready : call[u].on = k}
            /\ \A u \in Elements(suspend_thread[k]) : call[u].error = "OK"
        BY TheLists
      <4>2. \A u \in Elements(suspend_thread[k]) : u \in Thread /\ u \notin us
        BY <1>4, <3>2, <4>1
      <4>3. {u \in Thread \ ready' : call'[u].on = k} = {u \in Thread \ ready : call[u].on = k}
        BY <1>2, <1>4, <1>5, <1>6, <3>2
      <4> QED BY <1>6, <1>7, <3>2, <4>1, <4>2, <4>3
    <3> QED BY <3>1, <3>2
  <2>2. armed' \subseteq {u \in Thread \ ready' : call'[u] # NoCall}
    BY <1>2, <1>6 DEF ThreadOK, ListsOK
  <2> QED BY <2>1, <2>2, ListsThen
<1>10. /\ pc' \in [Thread -> PcLabels] /\ cur' \in Thread \cup {None}
       /\ cur' \in Thread => cur' \in ready' \/ pc'[cur'] = "schedule"
       /\ \A u \in Thread : pc'[u] # "schedule" => pc'[u] = pc[u] /\ u # t
  <2>1. ready \subseteq ready' /\ ready' \subseteq Thread /\ t \in Callers
    BY <1>2, <1>3, <1>4 DEF Callers
  <2> QED BY <2>1, Scheduled
<1>11. ThreadTypes'
  <2>1. call' \in [Thread -> Calls]
    BY <1>2, <1>3, <1>5
  <2>2. suspend_thread' \in [Lists -> Seq(Thread)]
    BY <1>2, <1>3, <1>8
  <2>3. ready' \subseteq Thread /\ armed' \subseteq Thread
    BY <1>2, <1>3, <1>4
  <2> QED BY <1>10, <2>1, <2>2, <2>3 DEF ThreadTypes
<1>12. ThreadOK'
  <2>1. \A u \in Thread : call'[u] = NoCall <=> call[u] = NoCall
    BY <1>5, <1>6
  <2>2. \A u \in Thread : /\ u \notin ready' => call'[u] # NoCall
                          /\ pc'[u] = "run" => call'[u] = NoCall
                          /\ pc'[u] = "check" => call'[u] # NoCall
    BY <1>2, <1>10, <2>1 DEF ThreadOK
  <2> QED BY <1>9, <1>10, <1>11, <2>2 DEF ThreadOK
<1>13. ASSUME NEW k \in Lists
       PROVE  /\ Woken(k)' = Woken(k)
              /\ \A u \in Woken(k) : call'[u] = call[u]
              /\ \A u \in Elements(suspend_thread'[k]) : call'[u] = call[u]
  <2>1. Woken(k)' = {u \in Thread \ Elements(suspend_thread'[k]) :
                       call'[u].on = k /\ call'[u].error = "OK"}
    BY DEF Woken
  <2>2. \A u \in us : u \notin Woken(k)' /\ u \notin Woken(k)
    <3>1. \A u \in us : call'[u].error # "OK"
      BY <1>5
    <3>2. \A u \in us : call[u].on = k => u \in Elements(suspend_thread[k])
      BY <1>4, TheLists
    <3> QED BY <2>1, <3>1, <3>2 DEF Woken
  <2>3. \A u \in Thread \ us : u \in Elements(suspend_thread'[k]) <=> u \in Elements(suspend_thread[k])
    BY <1>1, <1>7, <1>8
  <2>4. \A u \in Thread \ us : u \in Woken(k)' <=> u \in Woken(k)
    BY <1>6, <2>1, <2>3 DEF Woken
  <2>5. Woken(k)' \subseteq Thread /\ Woken(k) \subseteq Thread
    BY DEF Woken
  <2>6. Woken(k)' = Woken(k)
    BY <2>2, <2>4, <2>5
  <2>7. \A u \in Elements(suspend_thread'[k]) : u \in Thread /\ u \notin us
    <3>1. CASE k \in ls
      BY <1>7, <1>8, <3>1
    <3>2. CASE k \notin ls
      <4>1. Elements(suspend_thread'[k]) = {u \in Thread \ ready : call[u].on = k}
        BY <1>7, <3>2, TheLists
      <4> QED BY <1>4, <3>2, <4>1
    <3> QED BY <3>1, <3>2
  <2> QED BY <1>6, <2>2, <2>5, <2>6, <2>7
<1> QED BY <1>7, <1>12, <1>13

(* A step does not concern list l: those who wait there may become fewer, and  *)
(* those who were woken stay as they are.                                      *)
Undisturbed(l) ==
    /\ Woken(l)' = Woken(l)
    /\ Elements(suspend_thread'[l]) \subseteq Elements(suspend_thread[l])
    /\ \A t \in Woken(l) \cup Elements(suspend_thread'[l]) : call'[t] = call[t]

LEMMA StillSuspends ==
    ASSUME ThreadOK, ThreadOK', NEW l \in Lists,
           Elements(suspend_thread'[l]) \subseteq Elements(suspend_thread[l]), Suspends(l)'
    PROVE  Suspends(l)
<1>1. suspend_thread[l] \in Seq(Thread) /\ suspend_thread'[l] \in Seq(Thread)
  BY DEF ThreadOK, ThreadTypes
<1>2. Elements(suspend_thread'[l]) # {}
  BY <1>1, EmptyList DEF Suspends
<1> QED BY <1>1, <1>2, EmptyList DEF Suspends

LEMMA Quiet ==
    ASSUME ThreadOK, UNCHANGED threadVars
    PROVE  /\ ThreadOK'
           /\ \A l \in Lists : Undisturbed(l) /\ suspend_thread'[l] = suspend_thread[l]
<1>1. UNCHANGED <<ready, cur, armed, pc, call, suspend_thread, loop>>
  BY DEF threadVars
<1> QED BY <1>1 DEF ThreadOK, ThreadTypes, ListsOK, Undisturbed, Woken

(* A thread that executes is ready; in its own code it is in no call, and      *)
(* behind its wait it is in one, and was woken if there was no error.          *)
LEMMA Runner ==
    ASSUME ThreadOK, NEW t \in Thread
    PROVE  /\ Runs(t, "run") => t \in ready /\ call[t] = NoCall /\ pc[t] = "run"
           /\ \A l \in Lists : Wakes(t, l) =>
                  /\ t \in ready /\ call[t] # NoCall /\ call[t] \in Calls /\ call[t].on = l
                  /\ t \in Woken(l) <=> call[t].error = "OK"
                  /\ \A k \in Lists : k # l => t \notin Woken(k)
<1>1. Runs(t, "run") => t \in ready /\ call[t] = NoCall /\ pc[t] = "run"
  BY DEF Runs, ThreadOK
<1>2. ASSUME NEW l \in Lists, Wakes(t, l)
      PROVE  /\ t \in ready /\ call[t] # NoCall /\ call[t] \in Calls /\ call[t].on = l
             /\ t \in Woken(l) <=> call[t].error = "OK"
             /\ \A k \in Lists : k # l => t \notin Woken(k)
  <2>1. t \in ready /\ call[t] # NoCall /\ call[t] \in Calls /\ call[t].on = l
    BY <1>2 DEF Wakes, Runs, ThreadOK, ThreadTypes
  <2>2. t \notin Elements(suspend_thread[l])
    BY <2>1, TheLists
  <2> QED BY <2>1, <2>2 DEF Woken
<1> QED BY <1>1, <1>2

LEMMA NotWoken ==
    ASSUME ThreadOK, NEW t \in Thread, call[t] = NoCall, NEW l \in Lists
    PROVE  t \notin Woken(l)
BY CallFacts DEF Woken

LEMMA Caller ==
    ASSUME ThreadOK, NEW c \in Callers, MayCall(c)
    PROVE  c # Isr => c \in Thread /\ c \in ready /\ call[c] = NoCall /\ pc[c] = "run"
BY Runner DEF MayCall, Callers

(* The call of thread t is over, and nothing else. *)
LEMMA ReturnsStep ==
    ASSUME ThreadOK, NEW t \in ready, Returns(t),
           UNCHANGED <<ready, cur, armed, suspend_thread>>
    PROVE  /\ ThreadOK'
           /\ \A l \in Lists : Woken(l)' = Woken(l) \ {t}
           /\ \A u \in Thread : u # t => call'[u] = call[u]
<1>1. /\ call \in [Thread -> Calls] /\ pc \in [Thread -> PcLabels] /\ t \in Thread
      /\ cur \in Thread \cup {None}
  BY DEF ThreadOK, ThreadTypes
<1>2. call' = [call EXCEPT ![t] = NoCall] /\ pc' = [pc EXCEPT ![t] = "run"]
  BY DEF Returns
<1>3. call' = [u \in Thread |-> IF u \in {t} THEN NoCall ELSE call[u]]
  BY <1>1, <1>2
<1>4. /\ pc' \in [Thread -> PcLabels]
      /\ \A u \in Thread : pc'[u] = "run" => u \in {t} \/ pc[u] = "run"
      /\ \A u \in Thread : pc'[u] = "check" => u \notin {t} /\ call[u] # NoCall
      /\ cur' \in Thread => cur' \in ready \/ pc'[cur'] = "schedule"
  <2>1. pc'[t] = "run" /\ \A u \in Thread : u # t => pc'[u] = pc[u]
    BY <1>1, <1>2
  <2>2. pc' \in [Thread -> PcLabels]
    BY <1>1, <1>2 DEF PcLabels
  <2> QED BY <2>1, <2>2 DEF ThreadOK
<1>5. {t} \in SUBSET ready
  OBVIOUS
<1>6. ThreadOK' /\ \A l \in Lists : Woken(l)' = Woken(l) \ {t}
  BY <1>1, <1>3, <1>4, <1>5, ReturnStep
<1> QED BY <1>3, <1>6

LEMMA ThreadNextStep ==
    ASSUME ThreadOK, ThreadNext
    PROVE  ThreadOK' /\ \A l \in Lists : Undisturbed(l)
<1>1. CASE TickYield \/ \E t \in Thread : Schedule(t)
  <2>1. UNCHANGED <<ready, armed, call, suspend_thread>> /\ Reschedule(ready)
    BY <1>1 DEF TickYield, Schedule
  <2>2. /\ call \in [Thread -> Calls] /\ pc \in [Thread -> PcLabels]
        /\ ready \subseteq Thread
    BY DEF ThreadOK, ThreadTypes
  <2>3. call' = [t \in Thread |-> IF t \in {} THEN NoCall ELSE call[t]]
    BY <2>1, <2>2
  <2>4. cur' \in Thread \cup {None} /\ (cur' \in Thread => cur' \in ready)
    BY <2>1, <2>2, IpcAssumption DEF Reschedule, Top
  <2>5. /\ pc' \in [Thread -> PcLabels]
        /\ \A t \in Thread : pc'[t] = "run" => call[t] = NoCall
        /\ \A t \in Thread : pc'[t] = "check" => call[t] # NoCall
    <3>1. CASE TickYield
      BY <2>2, <3>1 DEF TickYield, ThreadOK
    <3>2. CASE \E t \in Thread : Schedule(t)
      <4>1. PICK t \in Thread : Schedule(t)
        BY <3>2
      <4>2. /\ pc' = [pc EXCEPT ![t] = IF call[t] = NoCall THEN "run" ELSE "check"]
        BY <4>1 DEF Schedule
      <4> QED BY <2>2, <4>2 DEF ThreadOK, PcLabels
    <3> QED BY <1>1, <3>1, <3>2
  <2>6. \A t \in Thread : call'[t] = call[t]
    BY <2>1
  <2>7. ThreadOK'
    <3>1. ListsOK'
      BY <2>1 DEF ThreadOK, ListsOK
    <3>2. ThreadTypes'
      BY <2>1, <2>4, <2>5 DEF ThreadOK, ThreadTypes
    <3> QED BY <2>1, <2>4, <2>5, <3>1, <3>2 DEF ThreadOK
  <2> QED BY <2>1, <2>7 DEF Undisturbed, Woken
<1>2. CASE \E t \in Thread : ThreadTimeout(t)
  <2>1. PICK u \in Thread : ThreadTimeout(u)
    BY <1>2
  <2>2. ThreadOK' /\ u \notin ready
        /\ \A k \in Lists : /\ Elements(suspend_thread'[k]) = Elements(suspend_thread[k]) \ {u}
                            /\ Woken(k)' = Woken(k) /\ u \notin Woken(k)
        /\ \A t \in Thread : t # u => call'[t] = call[t]
    BY <2>1, TimeoutStep
  <2>3. \A k \in Lists : Woken(k) \subseteq Thread /\ Elements(suspend_thread[k]) \subseteq Thread
    BY TheLists DEF Woken
  <2> QED BY <2>2, <2>3 DEF Undisturbed
<1> QED BY <1>1, <1>2 DEF ThreadNext

-----------------------------------------------------------------------------
(* The semaphore *)

(* One thread more or less among those that were woken. *)
LEMMA OneMoreWoken ==
    ASSUME NEW l, NEW S, NEW u, u \notin Woken(l), S = Woken(l) \cup {u}
    PROVE  Cardinality(S) = Cardinality(Woken(l)) + 1
<1>1. IsFiniteSet(Woken(l))
  BY WokenFinite
<1> QED BY <1>1, FS_AddElement

LEMMA OneWokenLess ==
    ASSUME NEW l, NEW S, NEW u \in Woken(l), S = Woken(l) \ {u}
    PROVE  Cardinality(S) = Cardinality(Woken(l)) - 1
<1>1. IsFiniteSet(Woken(l))
  BY WokenFinite
<1> QED BY <1>1, FS_RemoveElement

LEMMA SemSame ==
    ASSUME ThreadOK, ThreadOK', SemOK, Undisturbed("sem"), UNCHANGED semVars
    PROVE  SemOK'
<1>1. value' = value /\ balance' = balance /\ wrapped' = wrapped
  BY DEF semVars
<1>2. Suspends("sem")' => Suspends("sem")
  BY StillSuspends DEF Undisturbed, Lists
<1>3. Woken("sem")' = Woken("sem")
  BY DEF Undisturbed
<1> QED BY <1>1, <1>2, <1>3 DEF SemOK, TokensKept, NoWaitWithToken

(* The numbers of a semaphore, and what a step that counts d tokens does. *)
LEMMA SemNumbers ==
    ASSUME SemOK
    PROVE  /\ Cardinality(Woken("sem")) \in Nat
           /\ value \in 0..SemMod-1 /\ SemMod \in Nat \ {0}
           /\ ~wrapped => balance = value + Cardinality(Woken("sem"))
           /\ (value + 1) % SemMod \in 0..SemMod-1
           /\ value + 1 # SemMod => (value + 1) % SemMod = value + 1
<1>1. Cardinality(Woken("sem")) \in Nat /\ SemMod \in Nat \ {0}
  BY WokenFinite, SemAssumption
<1>2. value \in 0..SemMod-1 /\ value + 1 \in Int
  BY SemAssumption DEF SemOK
<1>3. (value + 1) % SemMod \in 0..SemMod-1
  BY <1>1, <1>2, ModRange
<1>4. value + 1 # SemMod => (value + 1) % SemMod = value + 1
  <2>1. value + 1 # SemMod => value + 1 \in 0..SemMod-1
    BY <1>1, <1>2
  <2>. QED  BY <1>1, <2>1, ModSmall
<1>. QED  BY <1>1, <1>2, <1>3, <1>4 DEF SemOK, TokensKept

LEMMA Counted ==
    ASSUME SemOK, NEW d \in Int, Counts(d)
    PROVE  /\ balance' \in Int /\ wrapped' \in BOOLEAN
           /\ ~wrapped' => ~wrapped /\ balance' = balance + d
<1>1. balance \in Int /\ wrapped \in BOOLEAN
  BY DEF SemOK
<1>2. wrapped' = wrapped
  BY DEF Counts
<1>3. CASE wrapped
  <2>1. balance' = 0
    BY <1>3, Zenon DEF Counts
  <2>. QED  BY <1>1, <1>2, <1>3, <2>1
<1>4. CASE ~wrapped
  <2>1. balance' = balance + d
    BY <1>4, Zenon DEF Counts
  <2>. QED  BY <1>1, <1>2, <1>4, <2>1
<1>. QED  BY <1>3, <1>4

(* Those in calls on other lists are not concerned. *)
Others(l) == \A k \in Lists \ {l} : Undisturbed(k)

LEMMA SemStep ==
    ASSUME ThreadOK, SemOK, SemNext
    PROVE  ThreadOK' /\ SemOK' /\ Others("sem")
<1> USE SemNumbers
<1>l. "sem" \in Lists
  BY DEF Lists
<1>1. ASSUME NEW c \in Callers, SemTake(c)
      PROVE  ThreadOK' /\ SemOK' /\ Others("sem")
  <2>1. /\ ThreadOK' /\ \A l \in Lists : Undisturbed(l)
        /\ suspend_thread'["sem"] = suspend_thread["sem"] /\ Woken("sem")' = Woken("sem")
    BY <1>1, <1>l, Quiet DEF SemTake, Undisturbed
  <2>2. value > 0 /\ value' = value - 1 /\ Counts(-1) /\ -1 \in Int
    BY <1>1 DEF SemTake
  <2>3. SemOK'
    <3>1. /\ balance' \in Int /\ wrapped' \in BOOLEAN
          /\ ~wrapped' => ~wrapped /\ balance' = balance + (-1)
      BY <2>2, Counted
    <3>2. TokensKept'
      BY <2>1, <2>2, <3>1 DEF TokensKept
    <3>3. NoWaitWithToken'
      BY <2>1, <2>2 DEF SemOK, NoWaitWithToken, Suspends
    <3> QED BY <2>2, <3>1, <3>2, <3>3 DEF SemOK
  <2> QED BY <2>1, <2>3 DEF Others
<1>2. ASSUME NEW c \in Callers, SemReleaseToWaiter(c)
      PROVE  ThreadOK' /\ SemOK' /\ Others("sem")
  <2>1. /\ MayCall(c) /\ Suspends("sem") /\ Resume("sem") /\ ThenSchedule(c)
        /\ Counts(1) /\ call' = call /\ value' = value
    BY <1>2 DEF SemReleaseToWaiter
  <2>2. call' = [t \in Thread |-> IF t \in {} THEN NoCall ELSE call[t]]
    BY <2>1 DEF ThreadOK, ThreadTypes
  <2>3. {} \in SUBSET ready /\ {} \subseteq {c}
    OBVIOUS
  <2>4. /\ ThreadOK'
        /\ \A k \in Lists : Elements(suspend_thread'[k]) \subseteq Elements(suspend_thread[k])
        /\ \E u \in Thread \ (ready \cup Woken("sem")) :
               \A k \in Lists : Woken(k)' = (Woken(k) \ {}) \cup IF k = "sem" THEN {u} ELSE {}
    BY <1>l, <2>1, <2>2, <2>3, ResumeStep
  <2>5. PICK u \in Thread \ (ready \cup Woken("sem")) :
            \A k \in Lists : Woken(k)' = (Woken(k) \ {}) \cup IF k = "sem" THEN {u} ELSE {}
    BY <2>4
  <2>6. Others("sem")
    BY <2>1, <2>4, <2>5 DEF Others, Undisturbed
  <2>7. Cardinality(Woken("sem")') = Cardinality(Woken("sem")) + 1
    <3>1. u \notin Woken("sem") /\ Woken("sem")' = Woken("sem") \cup {u}
      BY <1>l, <2>5
    <3> QED BY <3>1, OneMoreWoken
  <2>8. SemOK'
    <3>1. /\ balance' \in Int /\ wrapped' \in BOOLEAN
          /\ ~wrapped' => ~wrapped /\ balance' = balance + 1
      BY <2>1, Counted
    <3>2. TokensKept'
      BY <2>1, <2>7, <3>1 DEF TokensKept
    <3>3. NoWaitWithToken'
      BY <2>1 DEF SemOK, NoWaitWithToken
    <3> QED BY <2>1, <3>1, <3>2, <3>3 DEF SemOK
  <2> QED BY <2>4, <2>6, <2>8
<1>3. ASSUME NEW c \in Callers, SemReleaseFree(c)
      PROVE  ThreadOK' /\ SemOK' /\ Others("sem")
  <2>1. /\ ThreadOK' /\ \A l \in Lists : Undisturbed(l)
        /\ suspend_thread'["sem"] = suspend_thread["sem"] /\ Woken("sem")' = Woken("sem")
    BY <1>3, <1>l, Quiet DEF SemReleaseFree, Undisturbed
  <2>2. /\ ~Suspends("sem")
        /\ value' = (value + 1) % SemMod
        /\ wrapped' = (wrapped \/ value + 1 = SemMod)
        /\ balance' = IF wrapped' THEN 0 ELSE balance + 1
    BY <1>3 DEF SemReleaseFree
  <2>3. SemOK'
    <3>1. wrapped' \in BOOLEAN /\ (~wrapped' => ~wrapped /\ value + 1 # SemMod)
      BY <2>2, Zenon
    <3>2. (wrapped' => balance' = 0) /\ (~wrapped' => balance' = balance + 1)
      BY <2>2, Zenon
    <3>3. balance' \in Int
      BY <3>1, <3>2 DEF SemOK
    <3>4. TokensKept'
      BY <2>1, <2>2, <3>1, <3>2 DEF TokensKept
    <3>5. NoWaitWithToken'
      BY <2>1, <2>2 DEF NoWaitWithToken, Suspends
    <3> QED BY <2>2, <3>1, <3>3, <3>4, <3>5 DEF SemOK
  <2> QED BY <2>1, <2>3 DEF Others
<1>4. ASSUME NEW t \in Thread, SemTakeReturns(t)
      PROVE  ThreadOK' /\ SemOK' /\ Others("sem")
  <2>1. /\ Wakes(t, "sem") /\ Returns(t) /\ value' = value
        /\ Counts(IF call[t].error = "OK" THEN -1 ELSE 0)
        /\ UNCHANGED <<ready, cur, armed, suspend_thread>>
    BY <1>4 DEF SemTakeReturns
  <2>2. /\ t \in ready /\ (t \in Woken("sem") <=> call[t].error = "OK")
        /\ \A k \in Lists : k # "sem" => t \notin Woken(k)
    BY <1>l, <2>1, Runner
  <2>3. /\ ThreadOK' /\ \A l \in Lists : Woken(l)' = Woken(l) \ {t}
        /\ \A u \in Thread : u # t => call'[u] = call[u]
    BY <2>1, <2>2, ReturnsStep
  <2>4. Others("sem")
    <3>1. \A k \in Lists : \A u \in Elements(suspend_thread[k]) : u \in Thread /\ u # t
      BY <2>2, TheLists
    <3>2. \A k \in Lists : Woken(k) \subseteq Thread
      BY DEF Woken
    <3> QED BY <2>1, <2>2, <2>3, <3>1, <3>2 DEF Others, Undisturbed
  <2>5. NoWaitWithToken'
    BY <2>1 DEF SemOK, NoWaitWithToken, Suspends
  <2>6. CASE call[t].error = "OK"
    <3>1. Cardinality(Woken("sem")') = Cardinality(Woken("sem")) - 1
      <4>1. t \in Woken("sem") /\ Woken("sem")' = Woken("sem") \ {t}
        BY <1>l, <2>2, <2>3, <2>6
      <4> QED BY <4>1, OneWokenLess
    <3>2. Counts(-1) /\ -1 \in Int
      BY <2>1, <2>6
    <3>3. /\ balance' \in Int /\ wrapped' \in BOOLEAN
          /\ ~wrapped' => ~wrapped /\ balance' = balance + (-1)
      BY <3>2, Counted
    <3>4. TokensKept'
      BY <2>1, <3>1, <3>3 DEF TokensKept
    <3> QED BY <2>1, <2>3, <2>4, <2>5, <3>3, <3>4 DEF SemOK
  <2>7. CASE call[t].error # "OK"
    <3>1. Woken("sem")' = Woken("sem")
      BY <1>l, <2>2, <2>3, <2>7
    <3>2. Counts(0)
      BY <2>1, <2>7
    <3>3. /\ balance' \in Int /\ wrapped' \in BOOLEAN
          /\ ~wrapped' => ~wrapped /\ balance' = balance + 0
      BY <3>2, Counted
    <3>4. TokensKept'
      BY <2>1, <3>1, <3>3 DEF TokensKept
    <3> QED BY <2>1, <2>3, <2>4, <2>5, <3>3, <3>4 DEF SemOK
  <2> QED BY <2>6, <2>7
<1>5. ASSUME NEW t \in Thread, SemReset(t, SemInitValue)
      PROVE  ThreadOK' /\ SemOK' /\ Others("sem")
  <2>1. /\ Runs(t, "run") /\ ResumeAll({"sem"}) /\ ThenSchedule(t)
        /\ value' = SemInitValue % SemMod
        /\ balance' = value' + Cardinality(Woken("sem")) /\ wrapped' = FALSE
    BY <1>5 DEF SemReset
  <2>2. t \in ready /\ {"sem"} \in SUBSET Lists
    BY <2>1, <1>l, Runner
  <2>3. /\ ThreadOK'
        /\ \A k \in Lists : /\ k \in {"sem"} => suspend_thread'[k] = <<>>
                            /\ k \notin {"sem"} => suspend_thread'[k] = suspend_thread[k]
                            /\ Woken(k)' = Woken(k)
        /\ \A k \in Lists : \A u \in Woken(k) : call'[u] = call[u]
        /\ \A k \in Lists : \A u \in Elements(suspend_thread'[k]) : call'[u] = call[u]
    BY <2>1, <2>2, ResumeAllStep
  <2>4. Others("sem")
    BY <2>3 DEF Others, Undisturbed
  <2>5. value' = SemInitValue /\ SemInitValue \in 0..SemMod-1
    BY <2>1, SemAssumption, ModSmall
  <2>6. SemOK'
    <3>1. balance' \in Int /\ wrapped' \in BOOLEAN
      <4>1. wrapped' \in BOOLEAN
        BY <2>1, Zenon
      <4>2. balance' \in Int
        BY <2>1, <2>5, WokenFinite, SemAssumption
      <4>. QED  BY <4>1, <4>2
    <3>2. TokensKept'
      BY <1>l, <2>1, <2>3, <2>5 DEF TokensKept
    <3>3. NoWaitWithToken'
      BY <1>l, <2>3 DEF NoWaitWithToken, Suspends
    <3> QED BY <2>5, <3>1, <3>2, <3>3 DEF SemOK
  <2> QED BY <2>3, <2>4, <2>6
<1>6. ASSUME NEW t \in Thread, NEW timed \in Timed, SemTakeWaits(t, timed)
      PROVE  ThreadOK' /\ SemOK' /\ Others("sem")
  <2>1. PICK what : what = [on |-> "sem", timed |-> timed, error |-> "OK"]
    OBVIOUS
  <2>2. /\ Runs(t, "run") /\ value = 0 /\ Suspend(t, what) /\ value' = value
        /\ balance' = balance /\ wrapped' = wrapped
    BY <1>6, <2>1 DEF SemTakeWaits, semVars
  <2>3. /\ what \in Calls /\ what # NoCall /\ what.error = "OK" /\ what.on = "sem"
    BY <2>1, IpcAssumption DEF Calls, NoCall, Errors, None
  <2>4. t \in ready /\ call[t] \in {NoCall, what} /\ \A l \in Lists : t \notin Woken(l)
    BY <2>2, Runner, NotWoken
  <2>5. /\ ThreadOK' /\ \A l \in Lists : Woken(l)' = Woken(l) \ {t}
        /\ \A l \in Lists : l # "sem" => suspend_thread'[l] = suspend_thread[l]
        /\ call' = [call EXCEPT ![t] = what]
    BY <2>2, <2>3, <2>4, SuspendStep
  <2>6. \A l \in Lists : Woken(l)' = Woken(l)
    BY <2>4, <2>5
  <2>7. Others("sem")
    <3>1. \A k \in Lists : \A u \in Elements(suspend_thread[k]) : u \in Thread /\ u # t
      BY <2>4, TheLists
    <3>2. \A k \in Lists : Woken(k) \subseteq Thread \ {t}
      BY <2>4 DEF Woken
    <3>3. \A u \in Thread : u # t => call'[u] = call[u]
      BY <2>5 DEF ThreadOK, ThreadTypes
    <3> QED BY <2>5, <2>6, <3>1, <3>2, <3>3 DEF Others, Undisturbed
  <2>8. SemOK'
    BY <1>l, <2>2, <2>6 DEF SemOK, TokensKept, NoWaitWithToken
  <2> QED BY <2>5, <2>7, <2>8
<1> QED BY <1>1, <1>2, <1>3, <1>4, <1>5, <1>6 DEF SemNext

-----------------------------------------------------------------------------
(* The mailbox *)

(* The ring of the mailbox, with the mails inside. *)
RingTypes ==
    /\ msg_pool \in [0..Size-1 -> Mail \cup {None}]
    /\ in_offset \in 0..Size-1 /\ out_offset \in 0..Size-1 /\ entry \in 0..Size
    /\ got \in Mail \cup {None}
RingOK ==
    /\ RingTypes
    /\ in_offset = (out_offset + entry) % Size
    /\ \A i \in 1..entry : Inside[i] \in Mail
MbOK == RingOK /\ MailsAreFetched /\ PlacesAreFilled

(* A place in the ring. *)
Ring(x) == x % Size

LEMMA Wrap ==
    ASSUME NEW x \in 0..2*Size-1
    PROVE  Ring(x) = IF x < Size THEN x ELSE x - Size
<1> USE DEF Ring
<1>1. Size \in Nat \ {0}
  BY MailAssumption
<1>2. CASE x < Size
  BY <1>1, <1>2, ModSmall
<1>3. CASE ~(x < Size)
  <2>1. x - Size \in 0..Size-1 /\ x = Size * 1 + (x - Size)
    BY <1>1, <1>3
  <2>2. \A q \in Int, r \in 0..Size-1 : (Size * q + r) % Size = r
    BY <1>1
  <2> QED BY <1>3, <2>1, <2>2
<1> QED BY <1>2, <1>3

LEMMA SameSeq ==
    ASSUME NEW P, NEW s \in Seq(P), NEW r \in Seq(P), Len(s) = Len(r),
           \A i \in 1..Len(s) : s[i] = r[i]
    PROVE  s = r
OBVIOUS

LEMMA MadeSeq ==
    ASSUME NEW P, NEW n \in Nat, NEW s, s = [i \in 1..n |-> s[i]], \A i \in 1..n : s[i] \in P
    PROVE  s \in Seq(P) /\ Len(s) = n
OBVIOUS

LEMMA TailSeq ==
    ASSUME NEW P, NEW s \in Seq(P), s # <<>>
    PROVE  /\ Tail(s) \in Seq(P) /\ Len(Tail(s)) = Len(s) - 1
           /\ \A i \in 1..Len(s)-1 : Tail(s)[i] = s[i+1]
OBVIOUS

LEMMA AppendSeq ==
    ASSUME NEW P, NEW s \in Seq(P), NEW m \in P
    PROVE  /\ Append(s, m) \in Seq(P) /\ Len(Append(s, m)) = Len(s) + 1
           /\ Append(s, m)[Len(s)+1] = m
           /\ \A i \in 1..Len(s) : Append(s, m)[i] = s[i]
OBVIOUS

LEMMA RingNext ==
    ASSUME NEW a \in 0..Size-1
    PROVE  /\ NextOffset(a) \in 0..Size-1 /\ Ring(a) = a
           /\ \A n \in 0..Size-1 : NextOffset(Ring(a + n)) = Ring(a + n + 1)
           /\ \A i \in 1..Size : Ring(NextOffset(a) + i - 1) = Ring(a + i)
<1>1. Size \in Nat \ {0}
  BY MailAssumption
<1>2. NextOffset(a) \in 0..Size-1 /\ a \in 0..2*Size-1
  BY <1>1 DEF NextOffset
<1>3. ASSUME NEW n \in 0..Size-1
      PROVE  NextOffset(Ring(a + n)) = Ring(a + n + 1)
  <2>1. a + n \in 0..2*Size-1 /\ a + n + 1 \in 0..2*Size-1
    BY <1>1
  <2>2. \A x \in 0..2*Size-1 : Ring(x) = IF x < Size THEN x ELSE x - Size
    BY Wrap
  <2> QED BY <1>1, <2>1, <2>2 DEF NextOffset
<1>4. ASSUME NEW i \in 1..Size
      PROVE  Ring(NextOffset(a) + i - 1) = Ring(a + i)
  <2>1. PICK b \in 0..Size-1 : b = NextOffset(a)
    BY <1>2
  <2>2. b + i - 1 \in 0..2*Size-1 /\ a + i \in 0..2*Size-1
    BY <1>1
  <2>3. \A x \in 0..2*Size-1 : Ring(x) = IF x < Size THEN x ELSE x - Size
    BY Wrap
  <2> QED BY <1>1, <2>1, <2>2, <2>3 DEF NextOffset
<1>5. Ring(a) = a
  BY <1>1, <1>2, Wrap
<1> QED BY <1>2, <1>3, <1>4, <1>5

LEMMA PutStep ==
    ASSUME RingOK, NEW m \in Mail, Put(m)
    PROVE  /\ RingOK' /\ entry' = entry + 1 /\ got' = got
           /\ Len(Inside) < Size /\ Inside' = Append(Inside, m)
<1>1. /\ Size \in Nat \ {0} /\ entry \in 0..Size /\ in_offset \in 0..Size-1
      /\ out_offset \in 0..Size-1 /\ in_offset = Ring(out_offset + entry)
      /\ msg_pool \in [0..Size-1 -> Mail \cup {None}]
  BY MailAssumption DEF RingOK, RingTypes, Ring
<1>2. /\ entry < Size /\ msg_pool' = [msg_pool EXCEPT ![in_offset] = m]
      /\ in_offset' = NextOffset(in_offset) /\ entry' = entry + 1
      /\ out_offset' = out_offset /\ got' = got
  BY DEF Put
<1>3. in_offset = IF out_offset + entry < Size THEN out_offset + entry
                                               ELSE out_offset + entry - Size
  <2>1. out_offset + entry \in 0..2*Size-1
    BY <1>1, <1>2
  <2> QED BY <1>1, <2>1, Wrap
<1>4. in_offset' \in 0..Size-1 /\ in_offset' = Ring(out_offset' + entry')
  <2>1. out_offset + entry + 1 \in 0..2*Size-1
    BY <1>1, <1>2
  <2>2. Ring(out_offset + entry + 1) =
            IF out_offset + entry + 1 < Size THEN out_offset + entry + 1
                                             ELSE out_offset + entry + 1 - Size
    BY <1>1, <1>2, <2>1, Wrap
  <2>3. out_offset' + entry' = out_offset + entry + 1
    BY <1>1, <1>2
  <2> QED BY <1>1, <1>2, <1>3, <2>2, <2>3 DEF NextOffset
<1>5. Inside = [i \in 1..entry |-> msg_pool[Ring(out_offset + i - 1)]]
      /\ Inside' = [i \in 1..entry+1 |-> msg_pool'[Ring(out_offset + i - 1)]]
  BY <1>2 DEF Inside, Ring
<1>6. ASSUME NEW i \in 1..entry+1
      PROVE  /\ Ring(out_offset + i - 1) \in 0..Size-1
             /\ Ring(out_offset + i - 1) = in_offset <=> i = entry + 1
  <2>1. out_offset + i - 1 \in 0..2*Size-1
    BY <1>1, <1>2
  <2>2. Ring(out_offset + i - 1) =
            IF out_offset + i - 1 < Size THEN out_offset + i - 1 ELSE out_offset + i - 1 - Size
    BY <1>1, <1>2, <2>1, Wrap
  <2> QED BY <1>1, <1>2, <1>3, <2>2
<1>7. /\ Inside'[entry+1] = m
      /\ \A i \in 1..entry : Inside'[i] = Inside[i]
  <2>1. \A k \in 0..Size-1 : msg_pool'[k] = IF k = in_offset THEN m ELSE msg_pool[k]
    BY <1>1, <1>2
  <2>2. entry + 1 \in 1..entry+1 /\ \A i \in 1..entry : i \in 1..entry+1 /\ i # entry + 1
    BY <1>1
  <2> QED BY <1>5, <1>6, <2>1, <2>2
<1>8. \A i \in 1..entry+1 : Inside'[i] \in Mail
  BY <1>1, <1>7 DEF RingOK
<1>9. Inside' = Append(Inside, m) /\ Len(Inside) = entry
  <2>1. Inside \in Seq(Mail) /\ Len(Inside) = entry
    <3>1. Inside = [i \in 1..entry |-> Inside[i]] /\ \A i \in 1..entry : Inside[i] \in Mail
      BY <1>5 DEF RingOK
    <3> QED BY <1>1, <3>1, MadeSeq
  <2>2. Inside' \in Seq(Mail) /\ Len(Inside') = entry + 1
    <3>1. Inside' = [i \in 1..entry+1 |-> Inside'[i]] /\ entry + 1 \in Nat
      BY <1>1, <1>5
    <3> QED BY <1>8, <3>1, MadeSeq
  <2>3. /\ Append(Inside, m) \in Seq(Mail) /\ Len(Append(Inside, m)) = entry + 1
        /\ Append(Inside, m)[entry+1] = m
        /\ \A i \in 1..entry : Append(Inside, m)[i] = Inside[i]
    BY <2>1, AppendSeq
  <2>4. \A i \in 1..entry+1 : Inside'[i] = Append(Inside, m)[i]
    BY <1>1, <1>7, <2>3
  <2> QED BY <2>1, <2>2, <2>3, <2>4, SameSeq
<1>10. RingTypes'
  <2>1. msg_pool' \in [0..Size-1 -> Mail \cup {None}]
    BY <1>1, <1>2
  <2>2. entry' \in 0..Size
    BY <1>1, <1>2
  <2> QED BY <1>1, <1>2, <1>4, <2>1, <2>2 DEF RingOK, RingTypes
<1> QED BY <1>2, <1>4, <1>8, <1>9, <1>10 DEF RingOK, Ring

LEMMA GetStep ==
    ASSUME RingOK, Get
    PROVE  /\ RingOK' /\ entry' = entry - 1
           /\ Inside # <<>> /\ got' = Head(Inside) /\ Inside' = Tail(Inside)
<1>1. /\ Size \in Nat \ {0} /\ entry \in 0..Size /\ in_offset \in 0..Size-1
      /\ out_offset \in 0..Size-1 /\ in_offset = Ring(out_offset + entry)
      /\ msg_pool \in [0..Size-1 -> Mail \cup {None}]
  BY MailAssumption DEF RingOK, RingTypes, Ring
<1>2. /\ entry > 0 /\ got' = msg_pool[out_offset]
      /\ out_offset' = NextOffset(out_offset) /\ entry' = entry - 1
      /\ msg_pool' = msg_pool /\ in_offset' = in_offset
  BY DEF Get
<1>3. /\ Inside = [i \in 1..entry |-> msg_pool[Ring(out_offset + i - 1)]]
      /\ Inside' = [i \in 1..entry-1 |-> msg_pool[Ring(out_offset' + i - 1)]]
  BY <1>2 DEF Inside, Ring
<1>4. out_offset' \in 0..Size-1
  BY <1>1, <1>2 DEF NextOffset
<1>5. \A i \in 1..entry : Ring(out_offset' + i - 1) = Ring(out_offset + i)
  <2>1. \A i \in 1..entry : i \in 1..Size
    BY <1>1
  <2> QED BY <1>1, <1>2, <2>1, RingNext
<1>6. in_offset' = Ring(out_offset' + entry')
  <2>1. Ring(out_offset' + entry - 1) = Ring(out_offset + entry)
    BY <1>1, <1>2, <1>5
  <2>2. out_offset' + entry' = out_offset' + entry - 1
    BY <1>1, <1>2, <1>4
  <2> QED BY <1>1, <1>2, <2>1, <2>2
<1>7. \A i \in 1..entry-1 : Inside'[i] = Inside[i+1]
  <2> TAKE i \in 1..entry-1
  <2>1. i \in 1..entry /\ i + 1 \in 1..entry /\ out_offset + (i + 1) - 1 = out_offset + i
    BY <1>1
  <2>2. Ring(out_offset' + i - 1) = Ring(out_offset + i)
    BY <1>5, <2>1
  <2> QED BY <1>3, <2>1, <2>2
<1>8. Inside[1] = msg_pool[out_offset]
  <2>1. Ring(out_offset) = out_offset /\ out_offset + 1 - 1 = out_offset
    BY <1>1, Wrap
  <2> QED BY <1>1, <1>2, <1>3, <2>1
<1>9. Inside \in Seq(Mail) /\ Len(Inside) = entry
      /\ \A i \in 1..entry : Inside[i] \in Mail
  <2>1. Inside = [i \in 1..entry |-> Inside[i]] /\ \A i \in 1..entry : Inside[i] \in Mail
    BY <1>3 DEF RingOK
  <2> QED BY <1>1, <2>1, MadeSeq
<1>10. Inside # <<>> /\ got' = Head(Inside) /\ got' \in Mail
  BY <1>1, <1>2, <1>8, <1>9
<1>11. \A i \in 1..entry-1 : Inside'[i] \in Mail
  <2>1. \A i \in 1..entry-1 : i + 1 \in 1..entry
    BY <1>1
  <2> QED BY <1>7, <1>9, <2>1
<1>13. Inside' = Tail(Inside)
  <2>1. Inside' \in Seq(Mail) /\ Len(Inside') = entry - 1
    <3>1. Inside' = [i \in 1..entry-1 |-> Inside'[i]] /\ entry - 1 \in Nat
      BY <1>1, <1>2, <1>3
    <3> QED BY <1>11, <3>1, MadeSeq
  <2>2. /\ Tail(Inside) \in Seq(Mail) /\ Len(Tail(Inside)) = entry - 1
        /\ \A i \in 1..entry-1 : Tail(Inside)[i] = Inside[i+1]
    BY <1>9, <1>10, TailSeq
  <2> QED BY <1>7, <2>1, <2>2, SameSeq
<1>12. RingTypes'
  <2>1. entry' \in 0..Size
    BY <1>1, <1>2
  <2> QED BY <1>1, <1>2, <1>4, <1>10, <2>1 DEF RingOK, RingTypes
<1> QED BY <1>2, <1>6, <1>10, <1>11, <1>12, <1>13 DEF RingOK, Ring

(* Those a call on list k concerns; it resumes from list l.  D is empty, or    *)
(* the caller alone, which was woken for this call.                            *)
PassesOn(c, l, k, D) ==
    /\ c \in Callers /\ l \in Lists /\ k \in Lists /\ l # k
    /\ ThenResume(c, l)
    /\ \/ D = {} /\ (c # Isr => pc[c] = "run")
       \/ D = {c} /\ c # Isr
    /\ c # Isr => c \in ready
    /\ D \subseteq Woken(k)
    /\ call' = [t \in Thread |-> IF t \in D THEN NoCall ELSE call[t]]

LEMMA PassOn ==
    ASSUME ThreadOK, NEW c, NEW l, NEW k, NEW D, PassesOn(c, l, k, D)
    PROVE  /\ ThreadOK'
           /\ \A j \in Lists \ {l, k} : Undisturbed(j)
           /\ Suspends(l)' => /\ Suspends(l)
                              /\ Cardinality(Woken(l)') = Cardinality(Woken(l)) + 1
           /\ Suspends(k)' => Suspends(k)
           /\ Cardinality(Woken(k)') = Cardinality(Woken(k)) - IF D = {} THEN 0 ELSE 1
<1> USE DEF PassesOn
<1>1. /\ D \in SUBSET ready /\ D \subseteq {c} /\ c \in Callers /\ l \in Lists /\ k \in Lists
      /\ D \subseteq Woken(k) /\ ready \subseteq Thread
  BY DEF ThreadOK, ThreadTypes
<1>2. call' = [t \in Thread |-> IF t \in D THEN NoCall ELSE call[t]]
  OBVIOUS
<1>3. ASSUME NEW S, S = Woken(k) \ D
      PROVE  Cardinality(S) = Cardinality(Woken(k)) - IF D = {} THEN 0 ELSE 1
  <2>1. CASE D = {}
    <3>1. S = Woken(k) /\ Cardinality(Woken(k)) \in Nat
      BY <1>3, <2>1, WokenFinite
    <3> QED BY <2>1, <3>1
  <2>2. CASE D # {}
    <3>1. D = {c} /\ c \in Woken(k) /\ S = Woken(k) \ {c}
      BY <1>3, <2>2
    <3> QED BY <2>2, <3>1, OneWokenLess
  <2> QED BY <2>1, <2>2
<1>4. ASSUME NEW j \in Lists \ {l, k}, Woken(j)' = Woken(j) \ D,
             Elements(suspend_thread'[j]) \subseteq Elements(suspend_thread[j])
      PROVE  Undisturbed(j)
  <2>1. \A t \in D : t \notin Woken(j) /\ t \notin Elements(suspend_thread[j])
    BY <1>1, TheLists DEF Woken
  <2>2. Woken(j) \subseteq Thread /\ Elements(suspend_thread[j]) \subseteq Thread
    BY TheLists DEF Woken
  <2> QED BY <1>2, <1>4, <2>1, <2>2 DEF Undisturbed
<1>5. CASE Suspends(l)
  <2>1. Resume(l) /\ ThenSchedule(c)
    BY <1>5 DEF ThenResume
  <2>2. /\ ThreadOK'
        /\ \A j \in Lists : Elements(suspend_thread'[j]) \subseteq Elements(suspend_thread[j])
        /\ \E u \in Thread \ (ready \cup Woken(l)) :
               /\ \A j \in Lists : Woken(j)' = (Woken(j) \ D) \cup IF j = l THEN {u} ELSE {}
               /\ u \in Elements(suspend_thread[l])
    <3> HIDE DEF PassesOn
    <3> QED BY <1>1, <1>2, <1>5, <2>1, ResumeStep
  <2>3. PICK u \in Thread \ (ready \cup Woken(l)) :
            \A j \in Lists : Woken(j)' = (Woken(j) \ D) \cup IF j = l THEN {u} ELSE {}
    BY <2>2
  <2>4. \A t \in D : t \notin Woken(l)
    BY DEF Woken
  <2>5. Woken(l)' = Woken(l) \cup {u} /\ u \notin Woken(l)
    BY <2>3, <2>4
  <2>6. Cardinality(Woken(l)') = Cardinality(Woken(l)) + 1
    BY <2>5, OneMoreWoken
  <2>7. \A j \in Lists : j # l => Woken(j)' = Woken(j) \ D
    BY <2>3
  <2>8. Suspends(k)' => Suspends(k)
    BY <1>1, <2>2, StillSuspends
  <2>9. Cardinality(Woken(k)') = Cardinality(Woken(k)) - IF D = {} THEN 0 ELSE 1
    BY <1>1, <1>3, <2>7
  <2>10. \A j \in Lists \ {l, k} : Undisturbed(j)
    BY <1>4, <2>2, <2>7
  <2> QED BY <1>5, <2>2, <2>6, <2>8, <2>9, <2>10
<1>6. CASE ~Suspends(l)
  <2>1. /\ pc' = IF c = Isr THEN pc ELSE [pc EXCEPT ![c] = "run"]
        /\ UNCHANGED <<ready, cur, armed, suspend_thread>>
    BY <1>6 DEF ThenResume
  <2>2. /\ pc \in [Thread -> PcLabels] /\ cur \in Thread \cup {None} /\ Isr \notin Thread
        /\ c # Isr => c \in Thread
    BY IpcAssumption DEF ThreadOK, ThreadTypes, Callers
  <2>3. \A t \in Thread : pc'[t] = IF t = c THEN "run" ELSE pc[t]
    BY <2>1, <2>2
  <2>4. /\ pc' \in [Thread -> PcLabels]
        /\ \A t \in Thread : pc'[t] = "run" => t \in D \/ pc[t] = "run"
        /\ \A t \in Thread : pc'[t] = "check" => t \notin D /\ call[t] # NoCall
        /\ cur' \in Thread \cup {None}
        /\ cur' \in Thread => cur' \in ready \/ pc'[cur'] = "schedule"
    <3>1. pc' \in [Thread -> PcLabels]
      BY <2>1, <2>2 DEF PcLabels
    <3> QED BY <2>1, <2>2, <2>3, <3>1 DEF ThreadOK
  <2>5. ThreadOK' /\ \A j \in Lists : Woken(j)' = Woken(j) \ D
    BY <1>1, <1>2, <2>1, <2>4, ReturnStep
  <2>6. \A j \in Lists \ {l, k} : Undisturbed(j)
    <3>1. \A j \in Lists : Elements(suspend_thread'[j]) \subseteq Elements(suspend_thread[j])
      BY <2>1
    <3> QED BY <1>4, <2>5, <3>1
  <2>7. Cardinality(Woken(k)') = Cardinality(Woken(k)) - IF D = {} THEN 0 ELSE 1
    BY <1>1, <1>3, <2>5
  <2> QED BY <1>6, <2>1, <2>5, <2>6, <2>7 DEF Suspends
<1> QED BY <1>5, <1>6

LEMMA WaitOn ==
    ASSUME ThreadOK, NEW t \in Thread, NEW what \in Calls, what # NoCall,
           what.error = "OK", t \in ready, call[t] \in {NoCall, what}, Suspend(t, what)
    PROVE  ThreadOK' /\ Others(what.on)
<1>1. /\ ThreadOK' /\ \A l \in Lists : Woken(l)' = Woken(l) \ {t}
      /\ \A l \in Lists : l # what.on => suspend_thread'[l] = suspend_thread[l]
      /\ call' = [call EXCEPT ![t] = what]
  BY SuspendStep
<1>2. \A k \in Lists \ {what.on} : t \notin Woken(k)
  BY CallFacts DEF Woken
<1>3. \A k \in Lists : \A u \in Elements(suspend_thread[k]) : u \in Thread /\ u # t
  BY TheLists
<1>4. \A k \in Lists : Woken(k) \subseteq Thread
  BY DEF Woken
<1>5. \A u \in Thread : u # t => call'[u] = call[u]
  BY <1>1 DEF ThreadOK, ThreadTypes
<1> QED BY <1>1, <1>2, <1>3, <1>4, <1>5 DEF Others, Undisturbed

LEMMA GivesUp ==
    ASSUME ThreadOK, NEW t \in Thread, NEW l \in Lists, Wakes(t, l), Returns(t),
           UNCHANGED <<ready, cur, armed, suspend_thread>>
    PROVE  ThreadOK' /\ Others(l) /\ (call[t].error # "OK" => Undisturbed(l))
<1>1. /\ t \in ready /\ (t \in Woken(l) <=> call[t].error = "OK")
      /\ \A k \in Lists : k # l => t \notin Woken(k)
  BY Runner
<1>2. /\ ThreadOK' /\ \A k \in Lists : Woken(k)' = Woken(k) \ {t}
      /\ \A u \in Thread : u # t => call'[u] = call[u]
  BY <1>1, ReturnsStep
<1>3. \A k \in Lists : \A u \in Elements(suspend_thread[k]) : u \in Thread /\ u # t
  BY <1>1, TheLists
<1>4. \A k \in Lists : Woken(k) \subseteq Thread
  BY DEF Woken
<1>5. ASSUME NEW k \in Lists, t \notin Woken(k)
      PROVE  Undisturbed(k)
  BY <1>2, <1>3, <1>4, <1>5 DEF Undisturbed
<1> QED BY <1>1, <1>2, <1>5 DEF Others

(* What keeps the mailbox sound when it does not change itself: a list may be  *)
(* concerned when there is nothing that its threads could wait for in vain.    *)
LEMMA MbKeeps ==
    ASSUME ThreadOK, ThreadOK', MbOK, UNCHANGED mbVars,
           entry = 0 \/ Undisturbed("recv"), entry = Size \/ Undisturbed("send")
    PROVE  MbOK' /\ Inside' = Inside
<1>1. UNCHANGED <<msg_pool, in_offset, out_offset, entry, got>>
  BY DEF mbVars
<1>2. "recv" \in Lists /\ "send" \in Lists
  BY DEF Lists
<1>3. RingOK' /\ Inside' = Inside
  BY <1>1 DEF MbOK, RingOK, RingTypes, Inside
<1>4. entry \in 0..Size /\ Size \in Nat /\ \A l : Cardinality(Woken(l)) \in Nat
  BY WokenFinite, MailAssumption DEF MbOK, RingOK, RingTypes
<1>5. Cardinality(Woken("recv")') \in Nat /\ Cardinality(Woken("send")') \in Nat
  <2>1. ASSUME NEW l \in Lists
        PROVE  Cardinality(Woken(l)') \in Nat
    <3>1. Woken(l)' \subseteq Thread
      BY DEF Woken
    <3> QED BY <3>1, IpcAssumption, FS_Subset, FS_CardinalityType
  <2> QED BY <1>2, <2>1
<1>6. MailsAreFetched'
  <2>1. CASE entry = 0
    BY <1>1, <1>5, <2>1 DEF MailsAreFetched
  <2>2. CASE Undisturbed("recv")
    <3>1. Suspends("recv")' => Suspends("recv")
      BY <1>2, <2>2, StillSuspends DEF Undisturbed
    <3> QED BY <1>1, <2>2, <3>1 DEF MailsAreFetched, Undisturbed, MbOK
  <2> QED BY <2>1, <2>2
<1>7. PlacesAreFilled'
  <2>1. CASE entry = Size
    BY <1>1, <1>4, <1>5, <2>1 DEF PlacesAreFilled
  <2>2. CASE Undisturbed("send")
    <3>1. Suspends("send")' => Suspends("send")
      BY <1>2, <2>2, StillSuspends DEF Undisturbed
    <3> QED BY <1>1, <2>2, <3>1 DEF PlacesAreFilled, Undisturbed, MbOK
  <2> QED BY <2>1, <2>2
<1> QED BY <1>3, <1>6, <1>7 DEF MbOK

(* What a step of the mailbox is for the queue that it implements. *)
QueueSteps ==
    \/ \E m \in Mail : Len(Inside) < Size /\ Inside' = Append(Inside, m) /\ got' = got
    \/ Inside # <<>> /\ Inside' = Tail(Inside) /\ got' = Head(Inside)
    \/ Inside' \in {<<>>, Inside} /\ got' = got
Apart == Undisturbed("sem") /\ Undisturbed("event")

LEMMA PassOnMail ==
    ASSUME ThreadOK, MbOK, NEW c, NEW D
    PROVE  /\ \A m \in Mail : Put(m) /\ PassesOn(c, "recv", "send", D) =>
                  ThreadOK' /\ MbOK' /\ Apart /\ QueueSteps
           /\ Get /\ PassesOn(c, "send", "recv", D) =>
                  ThreadOK' /\ MbOK' /\ Apart /\ QueueSteps
<1>1. /\ "sem" \in Lists \ {"send", "recv"} /\ "event" \in Lists \ {"send", "recv"}
      /\ "sem" \in Lists \ {"recv", "send"} /\ "event" \in Lists \ {"recv", "send"}
  BY DEF Lists
<1>2. /\ Cardinality(Woken("recv")) \in Nat /\ Cardinality(Woken("send")) \in Nat
      /\ entry \in 0..Size /\ Size \in Nat
  BY WokenFinite, MailAssumption DEF MbOK, RingOK, RingTypes
<1>3. ASSUME NEW m \in Mail, Put(m), PassesOn(c, "recv", "send", D)
      PROVE  ThreadOK' /\ MbOK' /\ Apart /\ QueueSteps
  <2>1. /\ ThreadOK' /\ \A j \in Lists \ {"recv", "send"} : Undisturbed(j)
        /\ Suspends("recv")' =>
              /\ Suspends("recv")
              /\ Cardinality(Woken("recv")') = Cardinality(Woken("recv")) + 1
        /\ Suspends("send")' => Suspends("send")
        /\ Cardinality(Woken("send")')
               = Cardinality(Woken("send")) - IF D = {} THEN 0 ELSE 1
    BY <1>3, PassOn
  <2>2. /\ RingOK' /\ entry' = entry + 1 /\ got' = got
        /\ Len(Inside) < Size /\ Inside' = Append(Inside, m)
    BY <1>3, PutStep DEF MbOK
  <2>3. MailsAreFetched'
    BY <1>2, <2>1, <2>2 DEF MbOK, MailsAreFetched
  <2>4. PlacesAreFilled'
    BY <1>2, <2>1, <2>2 DEF MbOK, PlacesAreFilled
  <2>5. Apart
    BY <1>1, <2>1 DEF Apart
  <2> QED BY <2>1, <2>2, <2>3, <2>4, <2>5 DEF MbOK, QueueSteps
<1>4. ASSUME Get, PassesOn(c, "send", "recv", D)
      PROVE  ThreadOK' /\ MbOK' /\ Apart /\ QueueSteps
  <2>1. /\ ThreadOK' /\ \A j \in Lists \ {"send", "recv"} : Undisturbed(j)
        /\ Suspends("send")' =>
              /\ Suspends("send")
              /\ Cardinality(Woken("send")') = Cardinality(Woken("send")) + 1
        /\ Suspends("recv")' => Suspends("recv")
        /\ Cardinality(Woken("recv")')
               = Cardinality(Woken("recv")) - IF D = {} THEN 0 ELSE 1
    BY <1>4, PassOn
  <2>2. /\ RingOK' /\ entry' = entry - 1
        /\ Inside # <<>> /\ got' = Head(Inside) /\ Inside' = Tail(Inside)
    BY <1>4, GetStep DEF MbOK
  <2>3. MailsAreFetched'
    BY <1>2, <2>1, <2>2 DEF MbOK, MailsAreFetched
  <2>4. PlacesAreFilled'
    BY <1>2, <2>1, <2>2 DEF MbOK, PlacesAreFilled
  <2>5. Apart
    BY <1>1, <2>1 DEF Apart
  <2> QED BY <2>1, <2>2, <2>3, <2>4, <2>5 DEF MbOK, QueueSteps
<1> QED BY <1>3, <1>4

(* A call that starts, or goes on behind its wait, passes on. *)
LEMMA CallPassesOn ==
    ASSUME ThreadOK, NEW l \in Lists, NEW k \in Lists, l # k
    PROVE  /\ \A c \in Callers : MayCall(c) /\ ThenResume(c, l) /\ UNCHANGED call
                  => PassesOn(c, l, k, {})
           /\ \A t \in Thread : /\ Wakes(t, k) /\ call[t].error = "OK" /\ ThenResume(t, l)
                                /\ call' = [call EXCEPT ![t] = NoCall]
                  => PassesOn(t, l, k, {t})
<1>1. call \in [Thread -> Calls]
  BY DEF ThreadOK, ThreadTypes
<1>2. ASSUME NEW c \in Callers, MayCall(c), ThenResume(c, l), UNCHANGED call
      PROVE  PassesOn(c, l, k, {})
  <2>1. call' = [t \in Thread |-> IF t \in {} THEN NoCall ELSE call[t]]
    BY <1>1, <1>2
  <2>2. c # Isr => c \in ready /\ pc[c] = "run"
    BY <1>2, Caller
  <2> QED BY <1>2, <2>1, <2>2 DEF PassesOn
<1>3. ASSUME NEW t \in Thread, Wakes(t, k), call[t].error = "OK", ThenResume(t, l),
             call' = [call EXCEPT ![t] = NoCall]
      PROVE  PassesOn(t, l, k, {t})
  <2>1. call' = [u \in Thread |-> IF u \in {t} THEN NoCall ELSE call[u]]
    BY <1>1, <1>3
  <2>2. t \in ready /\ t \in Woken(k)
    BY <1>3, Runner
  <2>3. t # Isr /\ t \in Callers
    BY IpcAssumption DEF Callers
  <2> QED BY <1>3, <2>1, <2>2, <2>3 DEF PassesOn
<1> QED BY <1>2, <1>3

LEMMA MbStep ==
    ASSUME ThreadOK, MbOK, MbNext
    PROVE  ThreadOK' /\ MbOK' /\ Apart /\ QueueSteps
<1>l. /\ "sem" \in Lists \ {"send"} /\ "event" \in Lists \ {"send"} /\ "recv" \in Lists \ {"send"}
      /\ "sem" \in Lists \ {"recv"} /\ "event" \in Lists \ {"recv"} /\ "send" \in Lists \ {"recv"}
      /\ "recv" \in Lists /\ "send" \in Lists
  BY DEF Lists
<1>a. Others("send") => Apart /\ Undisturbed("recv")
  BY <1>l DEF Others, Apart
<1>b. Others("recv") => Apart /\ Undisturbed("send")
  BY <1>l DEF Others, Apart
<1>c. UNCHANGED mbVars => got' = got
  BY DEF mbVars
<1>1. ASSUME NEW c \in Callers, Recv(c)
      PROVE  ThreadOK' /\ MbOK' /\ Apart /\ QueueSteps
  <2>1. Get /\ PassesOn(c, "send", "recv", {})
    BY <1>1, <1>l, CallPassesOn DEF Recv
  <2> QED BY <2>1, PassOnMail
<1>2. ASSUME NEW c \in Callers, NEW m \in Mail, Send(c, m)
      PROVE  ThreadOK' /\ MbOK' /\ Apart /\ QueueSteps
  <2>1. Put(m) /\ PassesOn(c, "recv", "send", {})
    BY <1>2, <1>l, CallPassesOn DEF Send
  <2> QED BY <2>1, PassOnMail
<1>3. ASSUME NEW t \in Thread, SendAgain(t)
      PROVE  ThreadOK' /\ MbOK' /\ Apart /\ QueueSteps
  <2>1. Put(call[t].mail) /\ PassesOn(t, "recv", "send", {t})
    BY <1>3, <1>l, CallPassesOn DEF SendAgain
  <2>2. call[t] \in Calls /\ call[t].on = "send" /\ call[t] # NoCall
    BY <1>3, <1>l, Runner DEF SendAgain
  <2>3. call[t].mail \in Mail
    BY <2>2 DEF Calls, NoCall
  <2> QED BY <2>1, <2>3, PassOnMail
<1>4. ASSUME NEW t \in Thread, RecvAgain(t)
      PROVE  ThreadOK' /\ MbOK' /\ Apart /\ QueueSteps
  <2>1. Get /\ PassesOn(t, "send", "recv", {t})
    BY <1>4, <1>l, CallPassesOn DEF RecvAgain
  <2> QED BY <2>1, PassOnMail
<1>5. ASSUME NEW t \in Thread, SendWaitsAgain(t)
      PROVE  ThreadOK' /\ MbOK' /\ Apart /\ QueueSteps
  <2>1. /\ Wakes(t, "send") /\ call[t].error = "OK" /\ entry = Size /\ Suspend(t, call[t])
        /\ UNCHANGED mbVars
    BY <1>5 DEF SendWaitsAgain
  <2>2. /\ t \in ready /\ call[t] \in Calls /\ call[t].on = "send" /\ call[t] # NoCall
    BY <2>1, <1>l, Runner
  <2>3. ThreadOK' /\ Others("send")
    BY <2>1, <2>2, WaitOn
  <2>4. MbOK' /\ Inside' = Inside
    BY <1>a, <2>1, <2>3, MbKeeps
  <2> QED BY <1>a, <1>c, <2>1, <2>3, <2>4 DEF QueueSteps
<1>6. ASSUME NEW t \in Thread, RecvWaitsAgain(t)
      PROVE  ThreadOK' /\ MbOK' /\ Apart /\ QueueSteps
  <2>1. /\ Wakes(t, "recv") /\ call[t].error = "OK" /\ entry = 0 /\ Suspend(t, call[t])
        /\ UNCHANGED mbVars
    BY <1>6 DEF RecvWaitsAgain
  <2>2. /\ t \in ready /\ call[t] \in Calls /\ call[t].on = "recv" /\ call[t] # NoCall
    BY <2>1, <1>l, Runner
  <2>3. ThreadOK' /\ Others("recv")
    BY <2>1, <2>2, WaitOn
  <2>4. MbOK' /\ Inside' = Inside
    BY <1>b, <2>1, <2>3, MbKeeps
  <2> QED BY <1>b, <1>c, <2>1, <2>3, <2>4 DEF QueueSteps
<1>7. ASSUME NEW t \in Thread, NEW m \in Mail, NEW timed \in Timed, SendWaits(t, m, timed)
      PROVE  ThreadOK' /\ MbOK' /\ Apart /\ QueueSteps
  <2>1. PICK what : what = Sending(m, timed)
    OBVIOUS
  <2>2. Runs(t, "run") /\ entry = Size /\ Suspend(t, what) /\ UNCHANGED mbVars
    BY <1>7, <2>1 DEF SendWaits
  <2>3. what \in Calls /\ what # NoCall /\ what.error = "OK" /\ what.on = "send"
    BY <2>1, IpcAssumption DEF Calls, NoCall, Errors, None, Sending
  <2>4. t \in ready /\ call[t] \in {NoCall, what}
    BY <2>2, Runner
  <2>5. ThreadOK' /\ Others("send")
    BY <2>2, <2>3, <2>4, WaitOn
  <2>6. MbOK' /\ Inside' = Inside
    BY <1>a, <2>2, <2>5, MbKeeps
  <2> QED BY <1>a, <1>c, <2>2, <2>5, <2>6 DEF QueueSteps
<1>8. ASSUME NEW t \in Thread, NEW timed \in Timed, RecvWaits(t, timed)
      PROVE  ThreadOK' /\ MbOK' /\ Apart /\ QueueSteps
  <2>1. PICK what : what = Receiving(timed)
    OBVIOUS
  <2>2. Runs(t, "run") /\ entry = 0 /\ Suspend(t, what) /\ UNCHANGED mbVars
    BY <1>8, <2>1 DEF RecvWaits
  <2>3. what \in Calls /\ what # NoCall /\ what.error = "OK" /\ what.on = "recv"
    BY <2>1, IpcAssumption DEF Calls, NoCall, Errors, None, Receiving
  <2>4. t \in ready /\ call[t] \in {NoCall, what}
    BY <2>2, Runner
  <2>5. ThreadOK' /\ Others("recv")
    BY <2>2, <2>3, <2>4, WaitOn
  <2>6. MbOK' /\ Inside' = Inside
    BY <1>b, <2>2, <2>5, MbKeeps
  <2> QED BY <1>b, <1>c, <2>2, <2>5, <2>6 DEF QueueSteps
<1>9. ASSUME NEW t \in Thread, SendGivesUp(t)
      PROVE  ThreadOK' /\ MbOK' /\ Apart /\ QueueSteps
  <2>1. /\ Wakes(t, "send") /\ (call[t].error # "OK" \/ entry = Size) /\ Returns(t)
        /\ UNCHANGED <<ready, cur, armed, suspend_thread>> /\ UNCHANGED mbVars
    BY <1>9 DEF SendGivesUp
  <2>2. ThreadOK' /\ Others("send") /\ (call[t].error # "OK" => Undisturbed("send"))
    BY <1>l, <2>1, GivesUp
  <2>3. MbOK' /\ Inside' = Inside
    BY <1>a, <2>1, <2>2, MbKeeps
  <2> QED BY <1>a, <1>c, <2>1, <2>2, <2>3 DEF QueueSteps
<1>10. ASSUME NEW t \in Thread, RecvGivesUp(t)
       PROVE  ThreadOK' /\ MbOK' /\ Apart /\ QueueSteps
  <2>1. /\ Wakes(t, "recv") /\ (call[t].error # "OK" \/ entry = 0) /\ Returns(t)
        /\ UNCHANGED <<ready, cur, armed, suspend_thread>> /\ UNCHANGED mbVars
    BY <1>10 DEF RecvGivesUp
  <2>2. ThreadOK' /\ Others("recv") /\ (call[t].error # "OK" => Undisturbed("recv"))
    BY <1>l, <2>1, GivesUp
  <2>3. MbOK' /\ Inside' = Inside
    BY <1>b, <2>1, <2>2, MbKeeps
  <2> QED BY <1>b, <1>c, <2>1, <2>2, <2>3 DEF QueueSteps
<1>11. ASSUME NEW t \in Thread, MbReset(t)
       PROVE  ThreadOK' /\ MbOK' /\ Apart /\ QueueSteps
  <2>1. /\ Runs(t, "run") /\ ResumeAll({"recv", "send"}) /\ ThenSchedule(t)
        /\ entry' = 0 /\ in_offset' = 0 /\ out_offset' = 0 /\ UNCHANGED <<msg_pool, got>>
    BY <1>11 DEF MbReset
  <2>2. t \in ready /\ {"recv", "send"} \in SUBSET Lists
    BY <1>l, <2>1, Runner
  <2>3. /\ ThreadOK'
        /\ \A k \in Lists : /\ k \in {"recv", "send"} => suspend_thread'[k] = <<>>
                            /\ k \notin {"recv", "send"} => suspend_thread'[k] = suspend_thread[k]
                            /\ Woken(k)' = Woken(k)
        /\ \A k \in Lists : \A u \in Woken(k) : call'[u] = call[u]
        /\ \A k \in Lists : \A u \in Elements(suspend_thread'[k]) : call'[u] = call[u]
    BY <2>1, <2>2, ResumeAllStep
  <2>4. Apart
    BY <1>l, <2>3 DEF Apart, Undisturbed
  <2>5. MailsAreFetched' /\ PlacesAreFilled'
    BY <1>l, <2>3 DEF MailsAreFetched, PlacesAreFilled, Suspends
  <2>6. RingOK'
    <3>1. Size \in Nat \ {0} /\ 0 \in 0..Size-1 /\ 0 \in 0..Size /\ 0 % Size = 0
      BY MailAssumption, ModSmall
    <3>2. RingTypes'
      BY <2>1, <3>1 DEF MbOK, RingOK, RingTypes
    <3>3. in_offset' = (out_offset' + entry') % Size
      BY <2>1, <3>1
    <3>4. 1..entry' = {}
      BY <2>1
    <3> QED BY <3>2, <3>3, <3>4 DEF RingOK
  <2>7. Inside' = <<>>
    BY <2>1 DEF Inside
  <2> QED BY <2>1, <2>3, <2>4, <2>5, <2>6, <2>7 DEF MbOK, QueueSteps
<1> QED BY <1>1, <1>2, <1>3, <1>4, <1>5, <1>6, <1>7, <1>8, <1>9, <1>10, <1>11 DEF MbNext

LEMMA MbSame ==
    ASSUME ThreadOK, ThreadOK', MbOK, Undisturbed("recv"), Undisturbed("send"),
           UNCHANGED mbVars
    PROVE  MbOK' /\ QueueSteps
<1>1. got' = got
  BY DEF mbVars
<1> QED BY <1>1, MbKeeps DEF QueueSteps

-----------------------------------------------------------------------------
(* The event *)

EvTypes ==
    /\ set \in SUBSET Bits
    /\ loop = NoLoop \/ loop \in [by : Callers, at : Nat, woke : SUBSET Thread]
    /\ loop # NoLoop => loop.at \in 1..Len(suspend_thread["event"])+1

(* A thread that waits has not received anything yet. *)
Waiters ==
    \A t \in Elements(suspend_thread["event"]) : call[t].mask = call[t].asked /\ call[t].mask # {}

Unsatisfied(t) == ~Satisfies(set, call[t].mask, call[t].all)

(* In the loop of rt_event_send the threads in front of the one it looks at    *)
(* want what is not there, and what a thread has taken is not there any more.  *)
LoopOK ==
    loop # NoLoop =>
        /\ loop.woke \subseteq Woken("event")
        /\ \A t \in loop.woke : call[t].clear => call[t].mask \cap set = {}
        /\ \A i \in 1..loop.at-1 : Unsatisfied(suspend_thread["event"][i])

EventOK == EvTypes /\ Waiters /\ ReceivesAsked /\ NoWaitWithBits /\ OneTaker /\ LoopOK

LEMMA LoopFacts ==
    /\ NoLoop.by = None /\ None \notin Callers
    /\ \A x \in [by : Callers, at : Nat, woke : SUBSET Thread] : x # NoLoop
<1>1. None \notin Callers
  BY IpcAssumption DEF Callers, None, Isr
<1>2. NoLoop.by = None
  BY DEF NoLoop
<1> QED BY <1>1, <1>2

(* Nothing new for those who wait: there are fewer of them, and fewer bits. *)
Fewer ==
    /\ Woken("event")' \subseteq Woken("event")
    /\ Elements(suspend_thread'["event"]) \subseteq Elements(suspend_thread["event"])
    /\ \A t \in Woken("event")' \cup Elements(suspend_thread'["event"]) : call'[t] = call[t]

LEMMA EvKeeps ==
    ASSUME EventOK, Fewer, set' \in SUBSET set, loop = NoLoop, loop' = NoLoop
    PROVE  EventOK'
<1> USE DEF EventOK, Fewer
<1>1. EvTypes'
  BY DEF EvTypes
<1>2. Waiters'
  BY DEF Waiters
<1>3. ReceivesAsked'
  BY DEF ReceivesAsked
<1>4. NoWaitWithBits'
  <2>1. ASSUME NEW t \in Elements(suspend_thread'["event"])
        PROVE  ~Satisfies(set', call'[t].mask, call'[t].all)
    <3>1. ~Satisfies(set, call[t].mask, call[t].all) /\ call'[t] = call[t]
      BY DEF NoWaitWithBits
    <3>2. \A m, a : Satisfies(set', m, a) => Satisfies(set, m, a)
      BY DEF Satisfies
    <3> QED BY <3>1, <3>2
  <2> QED BY <2>1 DEF NoWaitWithBits
<1>5. OneTaker' /\ LoopOK'
  BY DEF OneTaker, LoopOK
<1> QED BY <1>1, <1>2, <1>3, <1>4, <1>5

LEMMA EvSame ==
    ASSUME EventOK, Undisturbed("event"), set' \in SUBSET set, loop = NoLoop, loop' = NoLoop
    PROVE  EventOK'
<1>1. Fewer
  BY DEF Fewer, Undisturbed
<1> QED BY <1>1, EvKeeps

LEMMA EvWaitStep ==
    ASSUME ThreadOK, EventOK, NEW t \in Thread, NEW mask \in Masks, NEW option \in Options,
           NEW timed \in Timed, EvRecvWaits(t, mask, option, timed)
    PROVE  ThreadOK' /\ EventOK' /\ Others("event")
<1>1. PICK what : what = Waiting(mask, option, timed)
  OBVIOUS
<1>2. /\ Runs(t, "run") /\ ~Satisfies(set, mask, option.all) /\ Suspend(t, what)
      /\ set' = set
  BY <1>1 DEF EvRecvWaits, evVars
<1>3. /\ what \in Calls /\ what # NoCall /\ what.error = "OK" /\ what.on = "event"
      /\ what.mask = mask /\ what.asked = mask /\ what.all = option.all
  <2>1. option.all \in BOOLEAN /\ option.clear \in BOOLEAN /\ timed \in BOOLEAN
    BY EventAssumption, IpcAssumption
  <2>2. mask \in SUBSET Bits /\ "OK" \in Errors
    BY DEF Masks, Errors
  <2>3. what \in [on : {"event"}, timed : BOOLEAN, error : Errors, mask : SUBSET Bits,
                  asked : SUBSET Bits, all : BOOLEAN, clear : BOOLEAN]
    BY <1>1, <2>1, <2>2 DEF Waiting
  <2>4. /\ what.error = "OK" /\ what.on = "event" /\ what.mask = mask /\ what.asked = mask
        /\ what.all = option.all
    BY <1>1 DEF Waiting
  <2>5. what \in Calls
    BY <2>3 DEF Calls
  <2>6. what # NoCall
    BY <2>4, CallFacts DEF Lists
  <2> QED BY <2>4, <2>5, <2>6
<1>4. t \in ready /\ call[t] \in {NoCall, what} /\ loop = NoLoop /\ call[t] = NoCall
  BY <1>2, Runner DEF Runs
<1>5. "event" \in Lists
  BY DEF Lists
<1>6. ThreadOK' /\ Others("event")
  BY <1>2, <1>3, <1>4, WaitOn
<1>7. /\ \A l \in Lists : Woken(l)' = Woken(l) \ {t}
      /\ Elements(suspend_thread'["event"]) = Elements(suspend_thread["event"]) \cup {t}
      /\ call' = [call EXCEPT ![t] = what]
  BY <1>2, <1>3, <1>4, SuspendStep
<1>8. /\ call'[t] = what /\ \A u \in Thread : u # t => call'[u] = call[u]
      /\ Woken("event")' \subseteq Woken("event") /\ t \notin Woken("event")'
      /\ Woken("event") \subseteq Thread
  BY <1>5, <1>7 DEF ThreadOK, ThreadTypes, Woken
<1>9. \A u \in Elements(suspend_thread["event"]) : u \in Thread /\ u # t
  BY <1>4, <1>5, TheLists
<1>10. loop' = loop
  BY <1>2 DEF Suspend
<1>11. EvTypes'
  BY <1>2, <1>4, <1>10 DEF EventOK, EvTypes
<1>12. Waiters'
  BY <1>3, <1>7, <1>8, <1>9 DEF EventOK, Waiters, Masks
<1>13. ReceivesAsked'
  BY <1>8 DEF EventOK, ReceivesAsked
<1>14. NoWaitWithBits'
  BY <1>2, <1>3, <1>4, <1>7, <1>8, <1>9 DEF EventOK, NoWaitWithBits
<1>15. OneTaker' /\ LoopOK'
  BY <1>4, <1>10 DEF OneTaker, LoopOK
<1> QED BY <1>6, <1>11, <1>12, <1>13, <1>14, <1>15 DEF EventOK

LEMMA EvSendStep ==
    ASSUME ThreadOK, EventOK, NEW c \in Callers, NEW mask \in Masks, EvSend(c, mask)
    PROVE  ThreadOK' /\ EventOK' /\ Others("event")
<1>1. /\ set' = set \cup mask /\ mask \subseteq Bits /\ set \subseteq Bits
      /\ UNCHANGED <<ready, cur, armed, pc, call, suspend_thread>>
      /\ loop' = IF Suspends("event") THEN [by |-> c, at |-> 1, woke |-> {}] ELSE NoLoop
  BY DEF EvSend, Masks, EventOK, EvTypes
<1>2. "event" \in Lists
  BY DEF Lists
<1>3. ThreadOK'
  BY <1>1 DEF ThreadOK, ThreadTypes, ListsOK
<1>4. \A l \in Lists : Undisturbed(l)
  BY <1>1 DEF Undisturbed, Woken
<1>5. Waiters' /\ ReceivesAsked'
  BY <1>1, <1>4, <1>2 DEF EventOK, Waiters, ReceivesAsked, Undisturbed
<1>6. CASE Suspends("event")
  <2>1. /\ loop' \in [by : Callers, at : Nat, woke : SUBSET Thread]
        /\ loop'.at = 1 /\ loop'.woke = {} /\ loop' # NoLoop
    <3>1. loop' = [by |-> c, at |-> 1, woke |-> {}]
      BY <1>1, <1>6
    <3>2. loop' \in [by : Callers, at : Nat, woke : SUBSET Thread]
      BY <3>1
    <3> QED BY <3>1, <3>2, LoopFacts
  <2>2. EvTypes'
    <3>1. Len(suspend_thread["event"]) \in Nat
      BY <1>2 DEF ThreadOK, ThreadTypes
    <3> QED BY <1>1, <2>1, <3>1 DEF EvTypes
  <2>3. OneTaker' /\ LoopOK' /\ NoWaitWithBits'
    BY <2>1 DEF OneTaker, LoopOK, NoWaitWithBits
  <2> QED BY <1>3, <1>4, <1>5, <2>2, <2>3 DEF EventOK, Others
<1>7. CASE ~Suspends("event")
  <2>1. loop' = NoLoop /\ Elements(suspend_thread'["event"]) = {}
    <3>1. suspend_thread["event"] = <<>> /\ Elements(<<>>) = {}
      BY <1>7 DEF Suspends, Elements
    <3> QED BY <1>1, <1>7, <3>1
  <2>2. EvTypes' /\ OneTaker' /\ LoopOK' /\ NoWaitWithBits'
    BY <1>1, <2>1 DEF EvTypes, OneTaker, LoopOK, NoWaitWithBits
  <2> QED BY <1>3, <1>4, <1>5, <2>2 DEF EventOK, Others
<1> QED BY <1>6, <1>7

(* What is known in the loop of the thread that it looks at. *)
LEMMA TheLoop ==
    ASSUME ThreadOK, EventOK, loop # NoLoop
    PROVE  /\ loop \in [by : Callers, at : Nat, woke : SUBSET Thread]
           /\ suspend_thread["event"] \in Seq(Thread) /\ Distinct(suspend_thread["event"])
           /\ loop.at \in 1..Len(suspend_thread["event"])+1
           /\ InLoop => /\ loop.at \in 1..Len(suspend_thread["event"])
                        /\ Looked = suspend_thread["event"][loop.at]
                        /\ Looked \in Elements(suspend_thread["event"])
                        /\ Looked \in Thread \ ready /\ call[Looked].on = "event"
                        /\ call[Looked].error = "OK"
                        /\ call[Looked].mask # {} /\ call[Looked].mask = call[Looked].asked
<1>1. "event" \in Lists
  BY DEF Lists
<1>2. /\ suspend_thread["event"] \in Seq(Thread) /\ Distinct(suspend_thread["event"])
      /\ loop.at \in 1..Len(suspend_thread["event"])+1
      /\ loop \in [by : Callers, at : Nat, woke : SUBSET Thread]
  BY <1>1, TheLists DEF EventOK, EvTypes
<1>3. ASSUME InLoop
      PROVE  /\ loop.at \in 1..Len(suspend_thread["event"])
             /\ Looked = suspend_thread["event"][loop.at]
             /\ Looked \in Elements(suspend_thread["event"])
  BY <1>2, <1>3 DEF InLoop, Looked, Elements
<1>4. \A t \in Elements(suspend_thread["event"]) :
          /\ t \in Thread \ ready /\ call[t].on = "event" /\ call[t].error = "OK"
          /\ call[t].mask # {} /\ call[t].mask = call[t].asked
  BY <1>1, TheLists DEF EventOK, Waiters
<1> QED BY <1>2, <1>3, <1>4

LEMMA SendPassesStep ==
    ASSUME ThreadOK, EventOK, SendPasses
    PROVE  ThreadOK' /\ EventOK' /\ Others("event")
<1>1. /\ loop # NoLoop /\ InLoop /\ Unsatisfied(Looked) /\ set' = set
      /\ loop' = [loop EXCEPT !.at = @ + 1]
      /\ UNCHANGED <<ready, cur, armed, pc, call, suspend_thread>>
  BY DEF SendPasses, InLoop, evVars, Unsatisfied
<1>2. /\ loop \in [by : Callers, at : Nat, woke : SUBSET Thread]
      /\ loop.at \in 1..Len(suspend_thread["event"])
      /\ Looked = suspend_thread["event"][loop.at]
      /\ Len(suspend_thread["event"]) \in Nat
  BY <1>1, TheLoop
<1>3. /\ loop' \in [by : Callers, at : Nat, woke : SUBSET Thread]
      /\ loop'.at = loop.at + 1 /\ loop'.woke = loop.woke /\ loop' # NoLoop
  BY <1>1, <1>2, LoopFacts
<1>4. ThreadOK'
  BY <1>1 DEF ThreadOK, ThreadTypes, ListsOK
<1>5. \A l \in Lists : Undisturbed(l) /\ Woken(l)' = Woken(l)
  BY <1>1 DEF Undisturbed, Woken
<1>6. "event" \in Lists
  BY DEF Lists
<1>7. EvTypes'
  BY <1>1, <1>2, <1>3 DEF EventOK, EvTypes
<1>8. Waiters' /\ ReceivesAsked'
  BY <1>1, <1>5, <1>6 DEF EventOK, Waiters, ReceivesAsked
<1>9. NoWaitWithBits' /\ OneTaker'
  BY <1>1, <1>3 DEF EventOK, NoWaitWithBits, OneTaker
<1>10. LoopOK'
  <2>1. \A i \in 1..loop.at : Unsatisfied(suspend_thread["event"][i])
    BY <1>1, <1>2 DEF EventOK, LoopOK
  <2>2. \A t : Unsatisfied(t)' <=> Unsatisfied(t)
    BY <1>1 DEF Unsatisfied
  <2>3. loop'.at - 1 = loop.at
    BY <1>2, <1>3
  <2> QED BY <1>1, <1>3, <1>5, <1>6, <2>1, <2>2, <2>3 DEF EventOK, LoopOK
<1> QED BY <1>4, <1>5, <1>7, <1>8, <1>9, <1>10 DEF EventOK, Others

(* rt_event_send takes the thread it looks at off the list. *)
LEMMA SendResumesStep ==
    ASSUME ThreadOK, EventOK, SendResumes
    PROVE  ThreadOK' /\ EventOK' /\ Others("event")
<1>1. PICK u, s, k, m : /\ u = Looked /\ s = suspend_thread["event"] /\ k = loop.at
                        /\ m = Received(u)
  OBVIOUS
<1>2. /\ loop # NoLoop /\ InLoop /\ Satisfies(set, call[u].mask, call[u].all)
      /\ call' = [call EXCEPT ![u].mask = m]
      /\ set' = IF call[u].clear THEN set \ m ELSE set
      /\ suspend_thread' = [suspend_thread EXCEPT !["event"] = Without(s, u)]
      /\ ready' = ready \cup {u} /\ armed' = armed \ {u}
      /\ loop' = [loop EXCEPT !.woke = @ \cup {u}]
      /\ cur' = cur /\ pc' = pc
  BY <1>1 DEF SendResumes, InLoop
<1>3. /\ loop \in [by : Callers, at : Nat, woke : SUBSET Thread]
      /\ s \in Seq(Thread) /\ Distinct(s) /\ k \in 1..Len(s) /\ u = s[k] /\ u \in Elements(s)
      /\ u \in Thread \ ready /\ call[u].on = "event" /\ call[u].error = "OK"
      /\ call[u].mask # {} /\ call[u].mask = call[u].asked
  BY <1>1, <1>2, TheLoop
<1>4. /\ "event" \in Lists /\ call \in [Thread -> Calls] /\ ready \subseteq Thread
      /\ suspend_thread \in [Lists -> Seq(Thread)] /\ pc \in [Thread -> PcLabels]
      /\ set \in SUBSET Bits
  BY DEF Lists, ThreadOK, ThreadTypes, EventOK, EvTypes
<1>5. PICK r : r = Without(s, u)
  OBVIOUS
<1>6. /\ r \in Seq(Thread) /\ Distinct(r) /\ Elements(r) = Elements(s) \ {u}
      /\ Len(r) = Len(s) - 1 /\ \A i \in 1..k-1 : r[i] = s[i]
  <2>1. r \in Seq(Thread) /\ Distinct(r) /\ Elements(r) = Elements(s) \ {u}
    BY <1>3, <1>5, RemovedList
  <2>2. Len(Without(s, s[k])) = Len(s) - 1 /\ \A i \in 1..k-1 : Without(s, s[k])[i] = s[i]
    BY <1>3, RemovedAt
  <2> QED BY <1>3, <1>5, <2>1, <2>2
<1>7. call[u] \in [on : {"event"}, timed : BOOLEAN, error : Errors, mask : SUBSET Bits,
                   asked : SUBSET Bits, all : BOOLEAN, clear : BOOLEAN]
  BY <1>3, <1>4 DEF Calls, NoCall, None
<1>8. /\ m \in SUBSET Bits /\ m # {} /\ m \subseteq set /\ m \subseteq call[u].asked
      /\ call[u].all => m = call[u].asked
  BY <1>1, <1>2, <1>3, <1>7 DEF Received, Satisfies
<1>9. /\ call'[u] \in [on : {"event"}, timed : BOOLEAN, error : Errors, mask : SUBSET Bits,
                       asked : SUBSET Bits, all : BOOLEAN, clear : BOOLEAN]
      /\ call'[u].on = "event" /\ call'[u].error = "OK" /\ call'[u].mask = m
      /\ call'[u].asked = call[u].asked /\ call'[u].all = call[u].all
      /\ call'[u].clear = call[u].clear
  <2>1. call'[u] = [call[u] EXCEPT !.mask = m]
    BY <1>2, <1>3, <1>4
  <2> QED BY <1>3, <1>7, <1>8, <2>1
<1>10. /\ call' \in [Thread -> Calls] /\ call'[u] # NoCall
       /\ \A t \in Thread : t # u => call'[t] = call[t]
  <2>1. call'[u] \in Calls /\ call'[u] # NoCall
    BY <1>9, CallFacts DEF Calls, Lists
  <2> QED BY <1>2, <1>4, <2>1
<1>11. Leaves("event", u, {}, r)
  <2>1. cur' \in Thread \cup {None} /\ (cur' \in Thread => cur' \in ready' \/ pc'[cur'] = "schedule")
    BY <1>2 DEF ThreadOK, ThreadTypes
  <2> QED BY <1>1, <1>2, <1>3, <1>4, <1>5, <1>6, <1>9, <1>10, <2>1 DEF Leaves
<1>12. /\ ThreadOK'
       /\ \A j \in Lists : /\ Elements(suspend_thread'[j]) = Elements(suspend_thread[j]) \ {u}
                           /\ u \notin Woken(j)
       /\ \A j \in Lists : Woken(j)' =
              (Woken(j) \ {}) \cup IF j = "event" /\ call'[u].error = "OK" THEN {u} ELSE {}
  BY <1>11, LeaveStep
<1>13. Woken("event")' = Woken("event") \cup {u} /\ u \notin Woken("event")
  BY <1>4, <1>9, <1>12
<1>14. Others("event")
  <2>1. \A j \in Lists : /\ Woken(j) \subseteq Thread
                         /\ Elements(suspend_thread'[j]) \subseteq Thread \ {u}
    BY <1>12, TheLists DEF Woken
  <2> QED BY <1>10, <1>12, <2>1 DEF Others, Undisturbed
<1>15. /\ loop' \in [by : Callers, at : Nat, woke : SUBSET Thread]
       /\ loop'.at = k /\ loop'.woke = loop.woke \cup {u} /\ loop' # NoLoop
  BY <1>1, <1>2, <1>3, LoopFacts
<1>16. suspend_thread'["event"] = r
  BY <1>2, <1>4, <1>5
<1>17. EvTypes'
  <2>1. set' \in SUBSET Bits /\ k \in 1..Len(r)+1
    BY <1>2, <1>3, <1>4, <1>6
  <2> QED BY <1>15, <1>16, <2>1 DEF EvTypes
<1>18. Waiters'
  <2>1. \A t \in Elements(r) : t \in Elements(s) /\ t \in Thread /\ t # u
    BY <1>1, <1>4, <1>6, TheLists
  <2> QED BY <1>1, <1>10, <1>16, <2>1 DEF EventOK, Waiters
<1>19. \A t \in Woken("event") : t \in Thread /\ t # u /\ call'[t] = call[t]
  BY <1>10, <1>13 DEF Woken
<1>20. ReceivesAsked'
  BY <1>8, <1>9, <1>13, <1>19 DEF EventOK, ReceivesAsked
<1>21. NoWaitWithBits'
  BY <1>15 DEF NoWaitWithBits
<1>22. /\ loop.woke \subseteq Woken("event")
       /\ \A t \in loop.woke : call[t].clear => call[t].mask \cap set = {}
       /\ \A i \in 1..k-1 : Unsatisfied(s[i])
  BY <1>1, <1>2 DEF EventOK, LoopOK
<1>23. OneTaker'
  <2>1. \A t, v \in loop.woke :
            t # v /\ call[t].clear /\ call[v].clear => call[t].mask \cap call[v].mask = {}
    BY <1>2 DEF EventOK, OneTaker
  <2>2. \A t \in loop.woke : call'[t] = call[t] /\ (call[t].clear => call[t].mask \cap m = {})
    BY <1>8, <1>19, <1>22
  <2> QED BY <1>9, <1>15, <2>1, <2>2 DEF OneTaker
<1>24. LoopOK'
  <2>1. loop'.woke \subseteq Woken("event")'
    BY <1>13, <1>15, <1>22
  <2>2. \A t \in loop'.woke : call'[t].clear => call'[t].mask \cap set' = {}
    <3>1. \A t \in loop.woke : call'[t] = call[t]
      BY <1>19, <1>22
    <3>2. set' \subseteq set
      BY <1>2
    <3>3. call[u].clear => m \cap set' = {}
      BY <1>2
    <3> QED BY <1>9, <1>15, <1>22, <3>1, <3>2, <3>3
  <2>3. ASSUME NEW i \in 1..k-1
        PROVE  Unsatisfied(r[i])'
    <3>1. r[i] = s[i] /\ ~Satisfies(set, call[s[i]].mask, call[s[i]].all)
      BY <1>6, <1>22 DEF Unsatisfied
    <3>2. s[i] \in Thread /\ s[i] # u
      BY <1>3 DEF Distinct
    <3>3. \A x, a : Satisfies(set', x, a) => Satisfies(set, x, a)
      BY <1>2 DEF Satisfies
    <3>4. ~Satisfies(set', call'[r[i]].mask, call'[r[i]].all)
      BY <1>10, <3>1, <3>2, <3>3
    <3>5. r' = r
      BY <1>5, <1>16
    <3> QED BY <3>4, <3>5 DEF Unsatisfied
  <2> QED BY <1>15, <1>16, <2>1, <2>2, <2>3 DEF LoopOK
<1> QED BY <1>12, <1>14, <1>17, <1>18, <1>20, <1>21, <1>23, <1>24 DEF EventOK

(* The loop is over: one reschedule if a thread was woken. *)
LEMMA SendEndsStep ==
    ASSUME ThreadOK, EventOK, SendEnds
    PROVE  ThreadOK' /\ EventOK' /\ Others("event")
<1>1. /\ loop # NoLoop /\ ~InLoop /\ loop' = NoLoop
      /\ ready' = ready /\ UNCHANGED <<armed, call, suspend_thread>> /\ set' = set
      /\ ThenSchedule(loop.by) \/ UNCHANGED <<cur, pc>>
  BY DEF SendEnds, evVars
<1>2. /\ loop \in [by : Callers, at : Nat, woke : SUBSET Thread]
      /\ suspend_thread["event"] \in Seq(Thread)
      /\ loop.at \in 1..Len(suspend_thread["event"])+1
  BY <1>1, TheLoop
<1>3. /\ call \in [Thread -> Calls] /\ pc \in [Thread -> PcLabels] /\ ready \subseteq Thread
  BY DEF ThreadOK, ThreadTypes
<1>4. /\ pc' \in [Thread -> PcLabels] /\ cur' \in Thread \cup {None}
      /\ cur' \in Thread => cur' \in ready \/ pc'[cur'] = "schedule"
      /\ \A t \in Thread : pc'[t] # "schedule" => pc'[t] = pc[t]
  <2>1. CASE ThenSchedule(loop.by)
    <3>1. loop.by \in Callers /\ ready \subseteq ready' /\ ready' \subseteq Thread
      BY <1>1, <1>2, <1>3
    <3> QED BY <1>1, <2>1, <3>1, Scheduled
  <2>2. CASE UNCHANGED <<cur, pc>>
    BY <1>3, <2>2 DEF ThreadOK, ThreadTypes
  <2> QED BY <1>1, <2>1, <2>2
<1>5. ThreadOK' /\ \A l \in Lists : Woken(l)' = Woken(l) \ {}
  <2>1. call' = [t \in Thread |-> IF t \in {} THEN NoCall ELSE call[t]]
    BY <1>1, <1>3
  <2>2. \A t \in Thread : /\ pc'[t] = "run" => t \in {} \/ pc[t] = "run"
                          /\ pc'[t] = "check" => t \notin {} /\ call[t] # NoCall
    BY <1>4 DEF ThreadOK
  <2> QED BY <1>1, <1>4, <2>1, <2>2, ReturnStep
<1>6. \A l \in Lists : Undisturbed(l)
  BY <1>1, <1>5 DEF Undisturbed
<1>7. "event" \in Lists
  BY DEF Lists
<1>8. EvTypes' /\ Waiters' /\ ReceivesAsked'
  <2>1. Woken("event")' = Woken("event")
    BY <1>5, <1>7
  <2> QED BY <1>1, <2>1 DEF EventOK, EvTypes, Waiters, ReceivesAsked
<1>9. NoWaitWithBits'
  <2>1. \A i \in 1..Len(suspend_thread["event"]) : Unsatisfied(suspend_thread["event"][i])
    <3>1. loop.at - 1 = Len(suspend_thread["event"])
      BY <1>1, <1>2 DEF InLoop
    <3> QED BY <1>1, <3>1 DEF EventOK, LoopOK
  <2>2. \A t \in Elements(suspend_thread["event"]) : Unsatisfied(t)
    BY <1>2, <2>1 DEF Elements
  <2> QED BY <1>1, <2>2 DEF NoWaitWithBits, Unsatisfied
<1>10. OneTaker' /\ LoopOK'
  BY <1>1 DEF OneTaker, LoopOK
<1> QED BY <1>5, <1>6, <1>8, <1>9, <1>10 DEF EventOK, Others

LEMMA EvStep ==
    ASSUME ThreadOK, EventOK, EvNext
    PROVE  ThreadOK' /\ EventOK' /\ Others("event")
<1>l. "event" \in Lists
  BY DEF Lists
<1>1. ASSUME NEW t \in Thread, EvRecvReturns(t)
      PROVE  ThreadOK' /\ EventOK' /\ Others("event")
  <2>1. /\ Wakes(t, "event") /\ Returns(t) /\ UNCHANGED <<ready, cur, armed, suspend_thread>>
        /\ loop = NoLoop /\ loop' = NoLoop /\ set' = set
    BY <1>1 DEF EvRecvReturns, Wakes, Runs, evVars
  <2>2. ThreadOK' /\ Others("event")
    BY <1>l, <2>1, GivesUp
  <2>3. Fewer
    <3>1. t \in ready
      BY <1>l, <2>1, Runner
    <3>2. /\ \A k \in Lists : Woken(k)' = Woken(k) \ {t}
          /\ \A u \in Thread : u # t => call'[u] = call[u]
      BY <2>1, <3>1, ReturnsStep
    <3>3. \A u \in Elements(suspend_thread["event"]) : u \in Thread /\ u # t
      BY <1>l, <3>1, TheLists
    <3>4. Woken("event") \subseteq Thread
      BY DEF Woken
    <3> QED BY <1>l, <2>1, <3>2, <3>3, <3>4 DEF Fewer
  <2> QED BY <2>1, <2>2, <2>3, EvKeeps
<1>2. ASSUME NEW t \in Thread, EvReset(t)
      PROVE  ThreadOK' /\ EventOK' /\ Others("event")
  <2>1. /\ Runs(t, "run") /\ ResumeAll({"event"}) /\ ThenSchedule(t) /\ set' = {}
        /\ loop = NoLoop /\ loop' = NoLoop
    BY <1>2 DEF EvReset, Runs
  <2>2. t \in ready /\ {"event"} \in SUBSET Lists
    BY <1>l, <2>1, Runner
  <2>3. /\ ThreadOK'
        /\ \A k \in Lists : /\ k \in {"event"} => suspend_thread'[k] = <<>>
                            /\ k \notin {"event"} => suspend_thread'[k] = suspend_thread[k]
                            /\ Woken(k)' = Woken(k)
        /\ \A k \in Lists : \A u \in Woken(k) : call'[u] = call[u]
        /\ \A k \in Lists : \A u \in Elements(suspend_thread'[k]) : call'[u] = call[u]
    BY <2>1, <2>2, ResumeAllStep
  <2>4. Others("event")
    BY <2>3 DEF Others, Undisturbed
  <2>5. Fewer
    <3>1. Elements(<<>>) = {}
      BY DEF Elements
    <3> QED BY <1>l, <2>3, <3>1 DEF Fewer
  <2> QED BY <2>1, <2>3, <2>4, <2>5, EvKeeps
<1>3. ASSUME NEW t \in Thread, NEW mask \in Masks, NEW option \in Options,
             EvRecv(t, mask, option)
      PROVE  ThreadOK' /\ EventOK' /\ Others("event")
  <2>1. /\ loop = NoLoop /\ UNCHANGED threadVars /\ set' \in SUBSET set
    BY <1>3 DEF EvRecv, Runs
  <2>2. ThreadOK' /\ \A l \in Lists : Undisturbed(l)
    BY <2>1, Quiet
  <2>3. loop' = NoLoop
    BY <2>1 DEF threadVars
  <2> QED BY <1>l, <2>1, <2>2, <2>3, EvSame DEF Others
<1> QED BY <1>1, <1>2, <1>3, EvWaitStep, EvSendStep, SendPassesStep, SendResumesStep,
           SendEndsStep DEF EvNext

-----------------------------------------------------------------------------
(* All of it *)

IInv == ThreadOK /\ SemOK /\ MbOK /\ EventOK

LEMMA InvInit == Init => IInv
<1> SUFFICES ASSUME Init PROVE IInv
  OBVIOUS
<1> USE DEF Init, ThreadInit, SemInit, MbInit, EvInit
<1>1. /\ ready = Thread /\ cur \in Thread /\ armed = {}
      /\ \A t \in Thread : call[t] = NoCall /\ pc[t] = "run"
      /\ \A l \in Lists : suspend_thread[l] = <<>> /\ Elements(suspend_thread[l]) = {}
      /\ loop = NoLoop
  <2>1. Elements(<<>>) = {}
    BY DEF Elements
  <2>2. cur \in Thread
    BY DEF Top
  <2> QED BY <2>1, <2>2
<1>2. "sem" \in Lists /\ "recv" \in Lists /\ "send" \in Lists /\ "event" \in Lists
  BY DEF Lists
<1>3. \A l \in Lists : Woken(l) = {}
  BY <1>1, CallFacts DEF Woken
<1>4. ThreadOK
  <2>1. ThreadTypes
    <3>1. call \in [Thread -> Calls] /\ pc \in [Thread -> PcLabels]
      BY CallFacts DEF PcLabels
    <3>2. suspend_thread \in [Lists -> Seq(Thread)]
      OBVIOUS
    <3> QED BY <1>1, <3>1, <3>2 DEF ThreadTypes
  <2>2. ListsOK
    BY <1>1 DEF ListsOK
  <2> QED BY <1>1, <2>1, <2>2 DEF ThreadOK
<1>5. SemOK
  <2>1. Cardinality(Woken("sem")) = 0
    BY <1>2, <1>3, FS_EmptySet
  <2>2. value + 0 = value /\ value \in 0..SemMod-1 /\ balance = value
    BY SemAssumption
  <2>3. wrapped = FALSE
    BY Zenon DEF Init, SemInit
  <2>4. TokensKept /\ NoWaitWithToken
    BY <1>1, <1>2, <2>1, <2>2 DEF TokensKept, NoWaitWithToken, Suspends
  <2>5. wrapped \in BOOLEAN
    BY <2>3, Zenon
  <2>6. balance \in Int
    BY <2>2
  <2> QED BY <2>2, <2>4, <2>5, <2>6, Zenon DEF SemOK
<1>6. MbOK
  <2>1. Size \in Nat \ {0} /\ 0 \in 0..Size-1 /\ 0 \in 0..Size /\ 0 % Size = 0
    BY MailAssumption, ModSmall
  <2>2. RingOK
    BY <2>1 DEF RingOK, RingTypes
  <2> QED BY <1>1, <1>2, <2>2 DEF MbOK, MailsAreFetched, PlacesAreFilled, Suspends
<1>7. EventOK
  BY <1>1, <1>2, <1>3 DEF EventOK, EvTypes, Waiters, ReceivesAsked, NoWaitWithBits,
                          OneTaker, LoopOK
<1> QED BY <1>4, <1>5, <1>6, <1>7 DEF IInv

(* Nothing but rt_event_send runs in its loop. *)
LEMMA OutsideTheLoop ==
    ASSUME ThreadNext \/ SemNext \/ MbNext
    PROVE  loop = NoLoop /\ loop' = NoLoop
<1>1. CASE ThreadNext
  BY <1>1 DEF ThreadNext, TickYield, Schedule, ThreadTimeout, Runs
<1>2. CASE SemNext
  BY <1>2 DEF SemNext, SemTake, SemTakeWaits, SemTakeReturns, SemReleaseToWaiter,
              SemReleaseFree, SemReset, MayCall, Runs, Wakes, Suspend, threadVars
<1>3. CASE MbNext
  BY <1>3 DEF MbNext, Send, SendWaits, SendAgain, SendWaitsAgain, SendGivesUp, Recv,
              RecvWaits, RecvAgain, RecvWaitsAgain, RecvGivesUp, MbReset,
              MayCall, Runs, Wakes, Suspend
<1> QED BY <1>1, <1>2, <1>3

LEMMA InvStep == IInv /\ [Next]_vars => IInv' /\ QueueSteps
<1> SUFFICES ASSUME IInv, [Next]_vars PROVE IInv' /\ QueueSteps
  OBVIOUS
<1> USE DEF IInv
<1>l. /\ \A l \in Lists : l \in {"sem", "recv", "send", "event"}
      /\ {"recv", "send", "event"} \subseteq Lists \ {"sem"}
      /\ {"recv", "send", "sem"} \subseteq Lists \ {"event"}
      /\ {"recv", "send", "sem", "event"} \subseteq Lists
  BY DEF Lists
<1>1. CASE ThreadNext /\ UNCHANGED <<semVars, mbVars, evVars>>
  <2>1. ThreadOK' /\ \A l \in Lists : Undisturbed(l)
    BY <1>1, ThreadNextStep
  <2>2. loop = NoLoop /\ loop' = NoLoop /\ set' \in SUBSET set
    BY <1>1, OutsideTheLoop DEF evVars
  <2> QED BY <1>1, <1>l, <2>1, <2>2, SemSame, MbSame, EvSame
<1>2. CASE SemNext /\ UNCHANGED <<mbVars, evVars>>
  <2>1. ThreadOK' /\ SemOK' /\ Others("sem")
    BY <1>2, SemStep
  <2>2. loop = NoLoop /\ loop' = NoLoop /\ set' \in SUBSET set
    BY <1>2, OutsideTheLoop DEF evVars
  <2>3. Undisturbed("recv") /\ Undisturbed("send") /\ Undisturbed("event")
    BY <1>l, <2>1 DEF Others
  <2> QED BY <1>2, <2>1, <2>2, <2>3, MbSame, EvSame
<1>3. CASE MbNext /\ UNCHANGED <<semVars, evVars>>
  <2>1. ThreadOK' /\ MbOK' /\ Apart /\ QueueSteps
    BY <1>3, MbStep
  <2>2. loop = NoLoop /\ loop' = NoLoop /\ set' \in SUBSET set
    BY <1>3, OutsideTheLoop DEF evVars
  <2> QED BY <1>3, <2>1, <2>2, SemSame, EvSame DEF Apart
<1>4. CASE EvNext /\ UNCHANGED <<semVars, mbVars>>
  <2>1. ThreadOK' /\ EventOK' /\ Others("event")
    BY <1>4, EvStep
  <2>2. Undisturbed("recv") /\ Undisturbed("send") /\ Undisturbed("sem")
    BY <1>l, <2>1 DEF Others
  <2> QED BY <1>4, <2>1, <2>2, SemSame, MbSame
<1>5. CASE UNCHANGED vars
  <2>1. UNCHANGED threadVars /\ UNCHANGED <<semVars, mbVars, evVars>>
    BY <1>5 DEF vars
  <2>2. ThreadOK' /\ \A l \in Lists : Undisturbed(l)
    BY <2>1, Quiet
  <2>3. EventOK'
    <3>1. UNCHANGED <<ready, cur, armed, pc, call, suspend_thread, loop, set>>
      BY <2>1 DEF threadVars, evVars
    <3>2. EvTypes' /\ Waiters' /\ ReceivesAsked'
      BY <3>1 DEF EventOK, EvTypes, Waiters, ReceivesAsked, Woken
    <3>3. NoWaitWithBits' /\ OneTaker' /\ LoopOK'
      BY <3>1 DEF EventOK, NoWaitWithBits, OneTaker, LoopOK, Woken, Unsatisfied
    <3> QED BY <3>2, <3>3 DEF EventOK
  <2> QED BY <1>l, <2>1, <2>2, <2>3, SemSame, MbSame
<1> QED BY <1>1, <1>2, <1>3, <1>4, <1>5 DEF Next

LEMMA IpcInvariant == Spec => []IInv
<1>1. Init => IInv
  BY InvInit
<1>2. IInv /\ [Next]_vars => IInv'
  BY InvStep
<1> QED BY <1>1, <1>2, PTL DEF Spec

(* The lists of all objects hold exactly those who wait there, once each, and  *)
(* the semaphore, the ring of the mailbox and the event set stay in their      *)
(* ranges, whatever timeouts, resets and interrupts come between the sections  *)
(* of rt_sem_*, rt_mb_* and rt_event_*.                                        *)
THEOREM ObjectsAreSound == Spec => []IpcOK
<1>1. IInv => IpcOK
  <2> SUFFICES ASSUME IInv PROVE IpcOK
    OBVIOUS
  <2>1. /\ ready \in SUBSET Thread /\ armed \in SUBSET Thread /\ cur \in Thread \cup {None}
        /\ pc \in [Thread -> {"run", "schedule", "check"}]
        /\ (\A t \in Thread : call[t] \in Calls)
        /\ suspend_thread \in [Lists -> Seq(Thread)] /\ ListsOK
    BY DEF IInv, ThreadOK, ThreadTypes, PcLabels
  <2>2. value \in 0..SemMod-1 /\ balance \in Int /\ wrapped \in BOOLEAN
    BY DEF IInv, SemOK
  <2>3. /\ msg_pool \in [0..Size-1 -> Mail \cup {None}]
        /\ in_offset \in 0..Size-1 /\ out_offset \in 0..Size-1 /\ entry \in 0..Size
        /\ got \in Mail \cup {None}
    BY DEF IInv, MbOK, RingOK, RingTypes
  <2>4. /\ set \in SUBSET Bits
        /\ loop # NoLoop => /\ loop.by \in Callers /\ loop.woke \subseteq Thread
                            /\ loop.at \in 1..Len(suspend_thread["event"])+1
    BY DEF IInv, EventOK, EvTypes
  <2> QED BY <2>1, <2>2, <2>3, <2>4 DEF IpcOK, TypeOK
<1> QED BY <1>1, IpcInvariant, PTL

(* Until the value wraps, whatever its width, rt_sem_release and rt_sem_take    *)
(* neither lose nor make a token; a thread that was resumed holds the one it    *)
(* waited for.  The release that makes the value wrap loses them all.           *)
THEOREM NoTokenIsLost == Spec => []TokensKept
<1>1. IInv => TokensKept
  BY DEF IInv, SemOK
<1> QED BY <1>1, IpcInvariant, PTL

(* No wake-up is lost in rt_sem_release, rt_mb_send_wait, rt_mb_recv and       *)
(* rt_event_send: who waits for something that is there has somebody woken     *)
(* before him on the way to it.                                                *)
THEOREM NoWakeUpIsLost == Spec => []NobodyWaitsInVain
<1>1. IInv => NobodyWaitsInVain
  BY DEF IInv, SemOK, MbOK, EventOK, NobodyWaitsInVain
<1> QED BY <1>1, IpcInvariant, PTL

(* rt_event_recv returns what was asked for, and the loop of rt_event_send     *)
(* gives a bit to one of the threads that clear it, for every set of bits.     *)
THEOREM EventsReachOneTaker == Spec => []EventsAreTaken
<1>1. IInv => EventsAreTaken
  BY DEF IInv, EventOK, EventsAreTaken
<1> QED BY <1>1, IpcInvariant, PTL

(* The ring of the mailbox with its two offsets and its counter is a bounded   *)
(* queue, for every size: no mail of rt_mb_send_wait is overwritten, comes     *)
(* out of rt_mb_recv twice, or comes out of order.                             *)
THEOREM MailboxIsAQueue == Spec => ImplementsQueue
<1>1. Init => Queue!Init
  <2> SUFFICES ASSUME Init PROVE Queue!Init
    OBVIOUS
  <2>1. entry = 0 /\ got = None
    BY DEF Init, MbInit
  <2>2. Inside = <<>>
    BY <2>1 DEF Inside
  <2> QED BY <2>1, <2>2, MailAssumption DEF Queue!Init
<1>2. IInv /\ [Next]_vars => [Queue!Put \/ Queue!Get \/ Queue!Reset]_<<Inside, got>>
  <2> SUFFICES ASSUME QueueSteps
               PROVE  [Queue!Put \/ Queue!Get \/ Queue!Reset]_<<Inside, got>>
    BY InvStep
  <2>1. CASE \E m \in Mail : Len(Inside) < Size /\ Inside' = Append(Inside, m) /\ got' = got
    BY <2>1 DEF Queue!Put
  <2>2. CASE Inside # <<>> /\ Inside' = Tail(Inside) /\ got' = Head(Inside)
    BY <2>2 DEF Queue!Get
  <2>3. CASE Inside' \in {<<>>, Inside} /\ got' = got
    BY <2>3 DEF Queue!Reset
  <2> QED BY <2>1, <2>2, <2>3 DEF QueueSteps
<1> QED BY <1>1, <1>2, IpcInvariant, PTL DEF Spec, ImplementsQueue, Queue!Spec

-----------------------------------------------------------------------------
(* Turns *)

(* The lists with the flag PRIO are sorted. *)
Sorted(l) == Flag[l] = "FIFO" \/ ByPriority(suspend_thread[l], InitPrio)

(* What a step can do to list l: nothing, one thread more, its first or any    *)
(* other thread less, or all of them with an error.                            *)
ListStep(l) ==
    \/ suspend_thread'[l] = suspend_thread[l]
    \/ \E t \in Thread \ Elements(suspend_thread[l]) :
           suspend_thread'[l] = Suspended(suspend_thread[l], t, Flag[l], InitPrio)
    \/ Suspends(l) /\ suspend_thread'[l] = Tail(suspend_thread[l])
    \/ \E t \in Elements(suspend_thread[l]) :
           /\ suspend_thread'[l] = Without(suspend_thread[l], t)
           /\ l = "event" \/ call'[t].error # "OK"
    \/ /\ suspend_thread'[l] = <<>>
       /\ \A t \in Elements(suspend_thread[l]) : call'[t].error # "OK"

LEMMA TurnStep ==
    ASSUME ThreadOK, NEW l \in Lists, Sorted(l), ListStep(l)
    PROVE  Sorted(l)' /\ TurnsKept(l)
<1>1. PICK s : s = suspend_thread[l]
  OBVIOUS
<1>2. PICK r : r = suspend_thread'[l]
  OBVIOUS
<1>3. PICK flag \in {"FIFO", "PRIO"} : flag = Flag[l]
  BY IpcAssumption
<1>4. /\ s \in Seq(Thread) /\ Distinct(s) /\ InitPrio \in [Thread -> Int]
      /\ flag = "FIFO" \/ ByPriority(s, InitPrio)
  BY <1>1, <1>3, TheLists, IpcAssumption DEF Sorted
<1> DEFINE Served(t) == \A u \in Elements(r) : ~Ahead(s, u, t)
<1>5. SUFFICES /\ flag = "FIFO" \/ ByPriority(r, InitPrio)
               /\ InTurn(s, r, flag, InitPrio)
               /\ l # "event" => \A t \in Elements(s) \ Elements(r) :
                                     call'[t].error = "OK" => Served(t)
  BY <1>1, <1>2, <1>3 DEF Sorted, TurnsKept
<1>6. CASE r = s
  BY <1>4, <1>6, SameKeeps, KeepsInTurn
<1>7. ASSUME NEW t \in Thread \ Elements(s), r = Suspended(s, t, flag, InitPrio)
      PROVE  /\ flag = "FIFO" \/ ByPriority(r, InitPrio)
             /\ InTurn(s, r, flag, InitPrio)
             /\ Elements(s) \ Elements(r) = {}
  <2>1. InTurn(s, r, flag, InitPrio)
    BY <1>4, <1>7, SuspendedInTurn
  <2>2. flag = "FIFO" \/ ByPriority(r, InitPrio)
    BY <1>4, <1>7, SuspendedInOrder
  <2>3. Elements(r) = Elements(s) \cup {t}
    BY <1>4, <1>7, SuspendedList
  <2> QED BY <2>1, <2>2, <2>3
<1>8. CASE s # <<>> /\ r = Tail(s)
  <2>1. Keeps(s, r) /\ \A u : ~Ahead(s, u, Head(s))
    BY <1>4, <1>8, TailKeeps
  <2>2. Elements(r) = Elements(s) \ {Head(s)}
    BY <1>4, <1>8, TailList
  <2>3. flag = "FIFO" \/ ByPriority(r, InitPrio)
    BY <1>4, <1>8, TailInOrder
  <2> QED BY <2>1, <2>2, <2>3, KeepsInTurn
<1>9. ASSUME NEW t \in Elements(s), r = Without(s, t),
             l = "event" \/ call'[t].error # "OK"
      PROVE  /\ flag = "FIFO" \/ ByPriority(r, InitPrio)
             /\ InTurn(s, r, flag, InitPrio)
             /\ Elements(s) \ Elements(r) \subseteq {t}
  <2>1. Keeps(s, r)
    BY <1>4, <1>9, RemovedKeeps
  <2>2. flag = "FIFO" \/ ByPriority(r, InitPrio)
    BY <1>4, <1>9, RemovedInOrder
  <2>3. Elements(r) = Elements(s) \ {t}
    BY <1>4, <1>9, RemovedList
  <2> QED BY <2>1, <2>2, <2>3, KeepsInTurn
<1>10. CASE r = <<>> /\ \A t \in Elements(s) : call'[t].error # "OK"
  <2>1. Keeps(s, r)
    BY <1>10, SameKeeps
  <2>2. ByPriority(r, InitPrio)
    BY <1>10 DEF ByPriority
  <2> QED BY <1>10, <2>1, <2>2, KeepsInTurn
<1>11. \/ r = s
       \/ \E t \in Thread \ Elements(s) : r = Suspended(s, t, flag, InitPrio)
       \/ s # <<>> /\ r = Tail(s)
       \/ \E t \in Elements(s) : r = Without(s, t) /\ (l = "event" \/ call'[t].error # "OK")
       \/ r = <<>> /\ \A t \in Elements(s) : call'[t].error # "OK"
  BY <1>1, <1>2, <1>3 DEF ListStep, Suspends
<1> QED BY <1>6, <1>7, <1>8, <1>9, <1>10, <1>11

(* Each way in which a call changes the lists is such a step. *)
LEMMA SuspendLists ==
    ASSUME ThreadOK, NEW t \in ready, NEW what, what.on \in Lists, Suspend(t, what)
    PROVE  \A l \in Lists : ListStep(l)
<1>1. /\ suspend_thread \in [Lists -> Seq(Thread)] /\ t \in Thread
      /\ \A l \in Lists : t \notin Elements(suspend_thread[l])
  BY TheLists DEF ThreadOK, ThreadTypes
<1>2. /\ suspend_thread'[what.on] = Suspended(suspend_thread[what.on], t, Flag[what.on], InitPrio)
      /\ \A l \in Lists : l # what.on => suspend_thread'[l] = suspend_thread[l]
  BY <1>1 DEF Suspend
<1> QED BY <1>1, <1>2 DEF ListStep

LEMMA ResumeLists ==
    ASSUME ThreadOK, NEW l \in Lists, Suspends(l), Resume(l)
    PROVE  \A k \in Lists : ListStep(k)
<1>1. suspend_thread \in [Lists -> Seq(Thread)]
  BY DEF ThreadOK, ThreadTypes
<1>2. /\ suspend_thread'[l] = Tail(suspend_thread[l])
      /\ \A k \in Lists : k # l => suspend_thread'[k] = suspend_thread[k]
  BY <1>1 DEF Resume
<1> QED BY <1>2 DEF ListStep

LEMMA ResumeAllLists ==
    ASSUME ThreadOK, NEW ls \in SUBSET Lists, ResumeAll(ls)
    PROVE  \A k \in Lists : ListStep(k)
<1>1. PICK us : us = UNION {Elements(suspend_thread[l]) : l \in ls}
  OBVIOUS
<1>2. /\ \A l \in Lists : suspend_thread'[l] = IF l \in ls THEN <<>> ELSE suspend_thread[l]
      /\ \A t \in Thread : t \in us => call'[t] = [call[t] EXCEPT !.error = "ERROR"]
  BY <1>1 DEF ResumeAll
<1>3. ASSUME NEW k \in ls, NEW t \in Elements(suspend_thread[k]) PROVE call'[t].error # "OK"
  <2>1. /\ t \in us /\ t \in Thread /\ call[t] \in Calls /\ call[t].on = k /\ k \in Lists
    BY <1>1, TheLists DEF ThreadOK, ThreadTypes
  <2>2. call[t] # NoCall
    BY <2>1, CallFacts
  <2>3. "ERROR" \in Errors
    BY DEF Errors
  <2>4. PICK d : d = [call[t] EXCEPT !.error = "ERROR"]
    OBVIOUS
  <2>5. d.error = "ERROR"
    BY <2>1, <2>2, <2>3, <2>4, CallWithError
  <2> QED BY <1>2, <2>1, <2>4, <2>5
<1> QED BY <1>2, <1>3 DEF ListStep

LEMMA TimeoutLists ==
    ASSUME ThreadOK, NEW u \in Thread, ThreadTimeout(u)
    PROVE  \A k \in Lists : ListStep(k)
<1>1. /\ u \in armed /\ call' = [call EXCEPT ![u].error = "TIMEOUT"]
      /\ \A k \in Lists : suspend_thread'[k] =
             IF u \in Elements(suspend_thread[k]) THEN Without(suspend_thread[k], u)
                                                  ELSE suspend_thread[k]
  BY DEF ThreadTimeout
<1>2. call \in [Thread -> Calls] /\ call[u] # NoCall
  BY <1>1 DEF ThreadOK, ThreadTypes, ListsOK
<1>3. call'[u].error = "TIMEOUT"
  <2>1. call'[u] = [call[u] EXCEPT !.error = "TIMEOUT"]
    BY <1>1, <1>2
  <2> QED BY <1>2, <2>1, CallWithError DEF Errors
<1> QED BY <1>1, <1>3 DEF ListStep

LEMMA SameLists ==
    ASSUME UNCHANGED suspend_thread
    PROVE  \A k \in Lists : ListStep(k)
BY DEF ListStep

(* A mail goes in or comes out. *)
LEMMA PassLists ==
    ASSUME ThreadOK, NEW c, NEW l \in Lists, ThenResume(c, l)
    PROVE  \A k \in Lists : ListStep(k)
<1>1. CASE Suspends(l)
  BY <1>1, ResumeLists DEF ThenResume
<1>2. CASE ~Suspends(l)
  BY <1>2, SameLists DEF ThenResume
<1> QED BY <1>1, <1>2

LEMMA AnyList ==
    ASSUME IInv, [Next]_vars
    PROVE  \A k \in Lists : ListStep(k)
<1> USE DEF IInv
<1>l. /\ "sem" \in Lists /\ "recv" \in Lists /\ "send" \in Lists /\ "event" \in Lists
      /\ {"sem"} \in SUBSET Lists /\ {"recv", "send"} \in SUBSET Lists
      /\ {"event"} \in SUBSET Lists
  BY DEF Lists
<1>r. \A t \in Thread : (Runs(t, "run") => t \in ready)
                       /\ \A l \in Lists : Wakes(t, l) => t \in ready /\ call[t].on = l
  BY Runner
<1>1. CASE ThreadNext
  <2>1. CASE TickYield \/ \E t \in Thread : Schedule(t)
    BY <2>1, SameLists DEF TickYield, Schedule
  <2> QED BY <1>1, <2>1, TimeoutLists DEF ThreadNext
<1>2. CASE SemNext
  <2>1. CASE \E c \in Callers : SemTake(c) \/ SemReleaseFree(c)
    BY <2>1, SameLists DEF SemTake, SemReleaseFree, threadVars
  <2>2. CASE \E c \in Callers : SemReleaseToWaiter(c)
    BY <1>l, <2>2, ResumeLists DEF SemReleaseToWaiter
  <2>3. CASE \E t \in Thread : SemTakeReturns(t)
    BY <2>3, SameLists DEF SemTakeReturns
  <2>4. CASE \E t \in Thread : SemReset(t, SemInitValue)
    BY <1>l, <2>4, ResumeAllLists DEF SemReset
  <2>5. ASSUME NEW t \in Thread, NEW timed \in Timed, SemTakeWaits(t, timed)
        PROVE  \A k \in Lists : ListStep(k)
    <3>1. PICK what : what = [on |-> "sem", timed |-> timed, error |-> "OK"]
      OBVIOUS
    <3>2. Suspend(t, what) /\ t \in ready /\ what.on \in Lists
      BY <1>l, <1>r, <2>5, <3>1 DEF SemTakeWaits
    <3> QED BY <3>2, SuspendLists
  <2> QED BY <1>2, <2>1, <2>2, <2>3, <2>4, <2>5 DEF SemNext
<1>3. CASE MbNext
  <2>1. CASE \E c \in Callers : Recv(c) \/ \E m \in Mail : Send(c, m)
    BY <1>l, <2>1, PassLists DEF Recv, Send
  <2>2. CASE \E t \in Thread : SendAgain(t) \/ RecvAgain(t)
    BY <1>l, <2>2, PassLists DEF SendAgain, RecvAgain
  <2>3. CASE \E t \in Thread : SendGivesUp(t) \/ RecvGivesUp(t)
    BY <2>3, SameLists DEF SendGivesUp, RecvGivesUp
  <2>4. CASE \E t \in Thread : MbReset(t)
    BY <1>l, <2>4, ResumeAllLists DEF MbReset
  <2>5. ASSUME NEW t \in Thread, SendWaitsAgain(t) \/ RecvWaitsAgain(t)
        PROVE  \A k \in Lists : ListStep(k)
    <3>1. Suspend(t, call[t]) /\ t \in ready /\ call[t].on \in Lists
      BY <1>l, <1>r, <2>5 DEF SendWaitsAgain, RecvWaitsAgain
    <3> QED BY <3>1, SuspendLists
  <2>6. ASSUME NEW t \in Thread, NEW timed \in Timed, RecvWaits(t, timed)
        PROVE  \A k \in Lists : ListStep(k)
    <3>1. PICK what : what = Receiving(timed)
      OBVIOUS
    <3>2. Suspend(t, what) /\ t \in ready /\ what.on \in Lists
      BY <1>l, <1>r, <2>6, <3>1 DEF RecvWaits, Receiving
    <3> QED BY <3>2, SuspendLists
  <2>7. ASSUME NEW t \in Thread, NEW timed \in Timed, NEW m \in Mail, SendWaits(t, m, timed)
        PROVE  \A k \in Lists : ListStep(k)
    <3>1. PICK what : what = Sending(m, timed)
      OBVIOUS
    <3>2. Suspend(t, what) /\ t \in ready /\ what.on \in Lists
      BY <1>l, <1>r, <2>7, <3>1 DEF SendWaits, Sending
    <3> QED BY <3>2, SuspendLists
  <2> QED BY <1>3, <2>1, <2>2, <2>3, <2>4, <2>5, <2>6, <2>7 DEF MbNext
<1>4. CASE EvNext
  <2>1. CASE \E c \in Callers, mask \in Masks : EvSend(c, mask)
    BY <2>1, SameLists DEF EvSend
  <2>2. CASE SendPasses \/ SendEnds
    BY <2>2, SameLists DEF SendPasses, SendEnds
  <2>3. CASE SendResumes
    <3>1. /\ Looked \in Elements(suspend_thread["event"])
          /\ suspend_thread'["event"] = Without(suspend_thread["event"], Looked)
          /\ \A k \in Lists : k # "event" => suspend_thread'[k] = suspend_thread[k]
      <4>1. /\ loop # NoLoop /\ loop.at \in 1..Len(suspend_thread["event"])
            /\ suspend_thread["event"] \in Seq(Thread)
            /\ suspend_thread \in [Lists -> Seq(Thread)]
        BY <1>l, <2>3 DEF SendResumes, InLoop, EventOK, EvTypes, ThreadOK, ThreadTypes
      <4>2. Looked \in Elements(suspend_thread["event"])
        BY <4>1 DEF Looked, Elements
      <4> HIDE DEF Looked
      <4>3. suspend_thread' = [suspend_thread EXCEPT !["event"] =
                                  Without(suspend_thread["event"], Looked)]
        BY <2>3 DEF SendResumes
      <4> QED BY <1>l, <4>1, <4>2, <4>3
    <3>2. PICK t : t = Looked
      OBVIOUS
    <3> QED BY <3>1, <3>2 DEF ListStep
  <2>4. CASE \E t \in Thread : EvRecvReturns(t)
    BY <2>4, SameLists DEF EvRecvReturns
  <2>5. CASE \E t \in Thread : EvReset(t)
    BY <1>l, <2>5, ResumeAllLists DEF EvReset
  <2>6. CASE \E t \in Thread, mask \in Masks, option \in Options : EvRecv(t, mask, option)
    BY <2>6, SameLists DEF EvRecv, threadVars
  <2>7. ASSUME NEW t \in Thread, NEW mask \in Masks, NEW option \in Options,
               NEW timed \in Timed, EvRecvWaits(t, mask, option, timed)
        PROVE  \A k \in Lists : ListStep(k)
    <3>1. PICK what : what = Waiting(mask, option, timed)
      OBVIOUS
    <3>2. Suspend(t, what) /\ t \in ready /\ what.on \in Lists
      BY <1>l, <1>r, <2>7, <3>1 DEF EvRecvWaits, Waiting
    <3> QED BY <3>2, SuspendLists
  <2> QED BY <1>4, <2>1, <2>2, <2>3, <2>4, <2>5, <2>6, <2>7 DEF EvNext
<1>5. CASE UNCHANGED vars
  BY <1>5, SameLists DEF vars, threadVars
<1> QED BY <1>1, <1>2, <1>3, <1>4, <1>5 DEF Next

(* Nobody loses its turn in the waiting list of a semaphore, a mailbox or an   *)
(* event, for every number of threads: rt_ipc_list_suspend puts a thread       *)
(* behind its equals, rt_ipc_list_resume takes the first, and a timeout or a   *)
(* reset in between leaves the order of the others alone.                      *)
THEOREM NobodyIsOvertaken == Spec => ServedInTurn
<1> DEFINE Order == \A l \in Lists : Sorted(l)
<1>1. Init => Order
  BY DEF Init, ThreadInit, Sorted, ByPriority
<1>2. IInv /\ Order /\ [Next]_vars => Order' /\ \A l \in Lists : TurnsKept(l)
  <2> SUFFICES ASSUME IInv, Order, [Next]_vars
               PROVE  \A l \in Lists : Sorted(l)' /\ TurnsKept(l)
    OBVIOUS
  <2> QED BY AnyList, TurnStep DEF IInv
<1>3. IInv /\ Order /\ [Next]_vars => [\A l \in Lists : TurnsKept(l)]_vars
  BY <1>2
<1> HIDE DEF Order
<1> QED BY <1>1, <1>2, <1>3, IpcInvariant, PTL DEF Spec, ServedInTurn
=============================================================================
