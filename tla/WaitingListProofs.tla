------------------------- MODULE WaitingListProofs --------------------------
(***************************************************************************)
(* What the operators of WaitingList do to the set of elements of a list,  *)
(* for every set P of threads or timers.                                   *)
(***************************************************************************)
EXTENDS WaitingList, WellFoundedInduction, TLAPS

(* Each thread at most once in the list s. *)
Distinct(s) == \A i, j \in DOMAIN s : s[i] = s[j] => i = j

LEMMA Smallest ==
    ASSUME NEW S \in SUBSET Nat, S # {}
    PROVE  \E i \in S : \A j \in S : i <= j
<1> DEFINE R == OpToRel(<, Nat)
<1>1. IsWellFoundedOn(R, Nat)
  BY NatLessThanWellFounded
<1>2. \A x, y \in Nat : x < y => <<x, y>> \in R
  BY DEF OpToRel
<1> HIDE DEF R
<1>3. PICK x \in S : \A y \in S : ~ (<<y, x>> \in R)
  BY <1>1, WFMin
<1>4. x \in Nat /\ \A y \in S : y \in Nat /\ ~(y < x)
  BY <1>2, <1>3
<1>5. \A y \in S : x <= y
  BY <1>4
<1> QED BY <1>3, <1>5

(* A thread is put at some place of the list, its end included. *)
LEMMA PositionRange ==
    ASSUME NEW P, NEW s \in Seq(P), NEW t \in P, NEW flag,
           NEW prio \in [P -> Int]
    PROVE  Position(s, t, flag, prio) \in 1..Len(s)+1
<1> DEFINE lower == {i \in DOMAIN s : prio[t] < prio[s[i]]}
<1>1. Len(s) \in Nat /\ DOMAIN s = 1..Len(s)
  OBVIOUS
<1>2. CASE flag = "FIFO" \/ lower = {}
  BY <1>1, <1>2 DEF Position
<1>3. CASE ~(flag = "FIFO" \/ lower = {})
  <2>1. lower \subseteq Nat /\ lower # {}
    BY <1>1, <1>3
  <2>2. PICK i \in lower : \A j \in lower : i <= j
    BY <2>1, Smallest
  <2> QED BY <1>1, <1>3, <2>2 DEF Position
<1> QED BY <1>2, <1>3

(* The list after rt_list_insert_before. *)
LEMMA LinkedList ==
    ASSUME NEW P, NEW s \in Seq(P), NEW t \in P \ Elements(s), NEW k \in 1..Len(s)+1,
           Distinct(s)
    PROVE  /\ Linked(s, k, t) \in Seq(P)
           /\ Elements(Linked(s, k, t)) = Elements(s) \cup {t}
           /\ Distinct(Linked(s, k, t))
           /\ Linked(s, k, t) # <<>>
<1> DEFINE r == [i \in 1..Len(s)+1 |-> IF i < k THEN s[i] ELSE IF i = k THEN t ELSE s[i-1]]
<1>1. k \in 1..Len(s)+1 /\ Len(s) \in Nat /\ DOMAIN s = 1..Len(s)
  OBVIOUS
<1>2. Linked(s, k, t) = r
  BY DEF Linked
<1>3. DOMAIN r = 1..Len(s)+1 /\ \A i \in 1..Len(s)+1 : r[i] \in P
  BY <1>1
<1>4. r \in Seq(P) /\ r # <<>>
  BY <1>1, <1>3
<1>5. Elements(r) = Elements(s) \cup {t}
  <2>1. \A i \in DOMAIN r : r[i] \in Elements(s) \cup {t}
    BY <1>1 DEF Elements
  <2>2. r[k] = t
    BY <1>1
  <2>3. \A i \in DOMAIN s : s[i] \in Elements(r)
    <3> SUFFICES ASSUME NEW i \in DOMAIN s PROVE \E j \in DOMAIN r : r[j] = s[i]
      BY DEF Elements
    <3>1. CASE i < k
      BY <1>1, <3>1
    <3>2. CASE ~(i < k)
      <4>1. i + 1 \in DOMAIN r /\ r[i + 1] = s[i]
        BY <1>1, <3>2
      <4> QED BY <4>1
    <3> QED BY <3>1, <3>2
  <2> QED BY <1>1, <1>3, <2>1, <2>2, <2>3 DEF Elements
<1>6. Distinct(r)
  <2> SUFFICES ASSUME NEW i \in DOMAIN r, NEW j \in DOMAIN r, r[i] = r[j]
               PROVE i = j
    BY DEF Distinct
  <2> DEFINE old(n) == IF n < k THEN n ELSE n - 1
  <2>1. \A n \in DOMAIN s : s[n] # t
    BY DEF Elements
  <2>2. \A n \in DOMAIN r : n # k => old(n) \in DOMAIN s /\ r[n] = s[old(n)]
    BY <1>1
  <2>3. i = k <=> j = k
    <3>1. r[k] = t
      BY <1>1
    <3> QED BY <2>1, <2>2, <3>1
  <2>4. CASE i = k
    BY <2>3, <2>4
  <2>5. CASE i # k /\ j # k
    <3>1. old(i) = old(j)
      BY <2>2, <2>5 DEF Distinct
    <3> QED BY <1>1, <2>5, <3>1
  <2> QED BY <2>3, <2>4, <2>5
<1> QED BY <1>2, <1>4, <1>5, <1>6

(* The list after rt_ipc_list_suspend. *)
LEMMA SuspendedList ==
    ASSUME NEW P, NEW s \in Seq(P), NEW t \in P \ Elements(s), NEW flag,
           NEW prio \in [P -> Int], Distinct(s)
    PROVE  /\ Suspended(s, t, flag, prio) \in Seq(P)
           /\ Elements(Suspended(s, t, flag, prio)) = Elements(s) \cup {t}
           /\ Distinct(Suspended(s, t, flag, prio))
           /\ Suspended(s, t, flag, prio) # <<>>
BY PositionRange, LinkedList DEF Suspended

(* The list after rt_list_remove. *)
LEMMA RemovedList ==
    ASSUME NEW P, NEW s \in Seq(P), NEW t \in Elements(s), Distinct(s)
    PROVE  /\ Without(s, t) \in Seq(P)
           /\ Elements(Without(s, t)) = Elements(s) \ {t}
           /\ Distinct(Without(s, t))
<1> DEFINE k == CHOOSE i \in DOMAIN s : s[i] = t
           r == [i \in 1..Len(s)-1 |-> IF i < k THEN s[i] ELSE s[i+1]]
<1>1. k \in 1..Len(s) /\ s[k] = t /\ Len(s) \in Nat /\ DOMAIN s = 1..Len(s)
  <2>1. \E i \in DOMAIN s : s[i] = t
    BY DEF Elements
  <2> QED BY <2>1
<1>2. Without(s, t) = r
  BY DEF Without
<1> HIDE DEF k
<1>3. DOMAIN r = 1..Len(s)-1 /\ \A i \in 1..Len(s)-1 : r[i] \in P
  BY <1>1
<1>4. r \in Seq(P)
  BY <1>1, <1>3
<1>5. \A i \in DOMAIN s : s[i] = t => i = k
  BY <1>1 DEF Distinct
<1>6. Elements(r) = Elements(s) \ {t}
  <2>1. \A i \in DOMAIN r : r[i] \in Elements(s) \ {t}
    BY <1>1, <1>5 DEF Elements
  <2>2. \A i \in DOMAIN s : s[i] # t => s[i] \in Elements(r)
    <3> SUFFICES ASSUME NEW i \in DOMAIN s, s[i] # t
                 PROVE \E j \in DOMAIN r : r[j] = s[i]
      BY DEF Elements
    <3>1. CASE i < k
      BY <1>1, <3>1
    <3>2. CASE i > k
      <4>1. i - 1 \in DOMAIN r /\ r[i - 1] = s[i]
        BY <1>1, <3>2
      <4> QED BY <4>1
    <3> QED BY <1>1, <3>1, <3>2
  <2> QED BY <2>1, <2>2 DEF Elements
<1>7. Distinct(r)
  BY <1>1 DEF Distinct
<1> QED BY <1>2, <1>4, <1>6, <1>7

(* The list without its first thread. *)
LEMMA TailList ==
    ASSUME NEW P, NEW s \in Seq(P), s # <<>>, Distinct(s)
    PROVE  /\ Tail(s) \in Seq(P) /\ Head(s) \in P
           /\ Elements(Tail(s)) = Elements(s) \ {Head(s)}
           /\ Head(s) \in Elements(s)
           /\ Distinct(Tail(s))
<1>1. /\ Len(s) \in Nat \ {0} /\ DOMAIN s = 1..Len(s) /\ Head(s) = s[1]
      /\ DOMAIN Tail(s) = 1..Len(s)-1 /\ \A i \in 1..Len(s)-1 : Tail(s)[i] = s[i+1]
  OBVIOUS
<1>2. Tail(s) \in Seq(P) /\ Head(s) \in P
  BY <1>1
<1>3. Distinct(Tail(s))
  BY <1>1 DEF Distinct
<1>4. Head(s) \in Elements(s)
  BY <1>1 DEF Elements
<1>5. \A i \in DOMAIN Tail(s) : Tail(s)[i] \in Elements(s) \ {Head(s)}
  BY <1>1 DEF Elements, Distinct
<1>6. \A i \in DOMAIN s : s[i] # Head(s) => s[i] \in Elements(Tail(s))
  <2> SUFFICES ASSUME NEW i \in DOMAIN s, s[i] # Head(s)
               PROVE \E j \in DOMAIN Tail(s) : Tail(s)[j] = s[i]
    BY DEF Elements
  <2>1. i - 1 \in DOMAIN Tail(s) /\ Tail(s)[i - 1] = s[i]
    BY <1>1
  <2> QED BY <2>1
<1> QED BY <1>2, <1>3, <1>4, <1>5, <1>6 DEF Elements

(* The list without a thread that is not its first begins as before. *)
LEMMA FirstStays ==
    ASSUME NEW P, NEW s \in Seq(P), NEW t \in Elements(s), s[1] # t
    PROVE  Without(s, t) # <<>> /\ Without(s, t)[1] = s[1]
<1> DEFINE k == CHOOSE i \in DOMAIN s : s[i] = t
<1>1. k \in 1..Len(s) /\ s[k] = t /\ Len(s) \in Nat
  <2>1. \E i \in DOMAIN s : s[i] = t
    BY DEF Elements
  <2> QED BY <2>1
<1>2. Without(s, t) = [i \in 1..Len(s)-1 |-> IF i < k THEN s[i] ELSE s[i+1]]
  BY DEF Without
<1> HIDE DEF k
<1>3. k > 1 /\ 1 \in 1..Len(s)-1
  BY <1>1
<1>4. Without(s, t)[1] = s[1] /\ 1 \in DOMAIN Without(s, t)
  BY <1>1, <1>2, <1>3
<1> QED BY <1>4

(* The list with a thread put behind it. *)
LEMMA AppendedList ==
    ASSUME NEW P, NEW s \in Seq(P), NEW t \in P \ Elements(s), Distinct(s)
    PROVE  /\ Append(s, t) \in Seq(P) /\ Append(s, t) # <<>>
           /\ Elements(Append(s, t)) = Elements(s) \cup {t}
           /\ Distinct(Append(s, t))
<1>1. /\ Len(s) \in Nat /\ DOMAIN s = 1..Len(s)
      /\ DOMAIN Append(s, t) = 1..Len(s)+1
      /\ Append(s, t) \in Seq(P) /\ Append(s, t)[Len(s)+1] = t
      /\ \A i \in 1..Len(s) : Append(s, t)[i] = s[i]
  OBVIOUS
<1>2. Elements(Append(s, t)) = Elements(s) \cup {t}
  <2>1. \A i \in DOMAIN Append(s, t) : Append(s, t)[i] \in Elements(s) \cup {t}
    BY <1>1 DEF Elements
  <2>2. Elements(s) \cup {t} \subseteq Elements(Append(s, t))
    <3>1. \A i \in DOMAIN s : i \in DOMAIN Append(s, t) /\ Append(s, t)[i] = s[i]
      BY <1>1
    <3>2. Len(s)+1 \in DOMAIN Append(s, t)
      BY <1>1
    <3> QED BY <1>1, <3>1, <3>2 DEF Elements
  <2> QED BY <2>1, <2>2 DEF Elements
<1>3. \A i \in DOMAIN s : s[i] # t
  BY DEF Elements
<1>4. Distinct(Append(s, t))
  BY <1>1, <1>3 DEF Distinct
<1>5. Append(s, t) # <<>>
  BY <1>1
<1> QED BY <1>1, <1>2, <1>4, <1>5

(* The list without its k-th thread is as before in front of it. *)
LEMMA RemovedAt ==
    ASSUME NEW P, NEW s \in Seq(P), Distinct(s), NEW k \in 1..Len(s)
    PROVE  /\ Len(Without(s, s[k])) = Len(s) - 1
           /\ \A i \in 1..k-1 : Without(s, s[k])[i] = s[i]
<1>1. \A i \in DOMAIN s : s[i] = s[k] <=> i = k
  BY DEF Distinct
<1>2. (CHOOSE i \in DOMAIN s : s[i] = s[k]) = k
  BY <1>1
<1>3. Without(s, s[k]) = [i \in 1..Len(s)-1 |-> IF i < k THEN s[i] ELSE s[i+1]]
  BY <1>2 DEF Without
<1>4. Len(s) - 1 \in Nat /\ \A i \in 1..k-1 : i \in 1..Len(s)-1 /\ i < k
  OBVIOUS
<1> QED BY <1>3, <1>4

ByPriority(s, prio) == \A i, j \in DOMAIN s : i < j => prio[s[i]] <= prio[s[j]]

(* A thread inserted by its priority leaves a sorted list sorted. *)
LEMMA SuspendedInOrder ==
    ASSUME NEW P, NEW s \in Seq(P), NEW t \in P, NEW flag, flag # "FIFO",
           NEW prio \in [P -> Int], ByPriority(s, prio)
    PROVE  ByPriority(Suspended(s, t, flag, prio), prio)
<1> DEFINE lower == {i \in DOMAIN s : prio[t] < prio[s[i]]}
           k == Position(s, t, flag, prio)
           r == Linked(s, k, t)
<1>1. Len(s) \in Nat /\ DOMAIN s = 1..Len(s) /\ \A i \in 1..Len(s) : s[i] \in P
  OBVIOUS
<1>0. /\ \A i \in 1..Len(s) : prio[s[i]] \in Int
      /\ \A i, j \in 1..Len(s) : i < j => prio[s[i]] <= prio[s[j]]
      /\ prio[t] \in Int
  BY <1>1 DEF ByPriority
<1>2. k \in 1..Len(s)+1
  BY PositionRange
<1>3. \A i \in 1..Len(s) : i < k => prio[s[i]] <= prio[t]
  <2>1. CASE lower = {}
    BY <1>0, <1>1, <2>1
  <2>2. CASE lower # {}
    <3>1. \E i \in lower : \A j \in lower : i <= j
      <4>1. lower \in SUBSET Nat
        BY <1>1
      <4> HIDE DEF lower
      <4> QED BY <2>2, <4>1, Smallest
    <3>2. k = CHOOSE i \in lower : \A j \in lower : i <= j
      BY <2>2 DEF Position
    <3>3. \A j \in lower : k <= j
      <4> HIDE DEF lower, k
      <4> QED BY <3>1, <3>2
    <3> HIDE DEF k
    <3> QED BY <1>0, <1>1, <1>2, <3>3
  <2> QED BY <2>1, <2>2
<1>4. \A i \in 1..Len(s) : i >= k => prio[t] <= prio[s[i]]
  <2>1. CASE lower = {}
    BY <1>0, <1>1, <2>1 DEF Position
  <2>2. CASE lower # {}
    <3>1. \E i \in lower : \A j \in lower : i <= j
      <4>1. lower \in SUBSET Nat
        BY <1>1
      <4> HIDE DEF lower
      <4> QED BY <2>2, <4>1, Smallest
    <3>2. k = CHOOSE i \in lower : \A j \in lower : i <= j
      BY <2>2 DEF Position
    <3>3. k \in lower
      <4> HIDE DEF lower, k
      <4> QED BY <3>1, <3>2
    <3>4. prio[t] < prio[s[k]] /\ k \in 1..Len(s)
      <4> HIDE DEF k
      <4> QED BY <1>0, <1>1, <1>2, <3>3
    <3> HIDE DEF k
    <3>5. ASSUME NEW i \in 1..Len(s), i >= k PROVE prio[t] <= prio[s[i]]
      <4>1. prio[s[k]] <= prio[s[i]]
        BY <1>1, <3>4, <3>5, <1>0
      <4> QED BY <1>0, <1>1, <3>4, <4>1
    <3> QED BY <3>5
  <2> QED BY <2>1, <2>2
<1> HIDE DEF k
<1>5. DOMAIN r = 1..Len(s)+1
  BY DEF Linked
<1>6. ASSUME NEW i \in 1..Len(s)+1, NEW j \in 1..Len(s)+1, i < j
      PROVE  prio[r[i]] <= prio[r[j]]
  <2>1. /\ r[i] = IF i < k THEN s[i] ELSE IF i = k THEN t ELSE s[i-1]
        /\ r[j] = IF j < k THEN s[j] ELSE IF j = k THEN t ELSE s[j-1]
    BY DEF Linked
  <2> HIDE DEF r
  <2>2. CASE j < k
    BY <1>0, <1>1, <1>2, <1>6, <2>1, <2>2
  <2>3. CASE j = k
    BY <1>0, <1>1, <1>2, <1>3, <1>6, <2>1, <2>3
  <2>4. CASE j > k /\ i < k
    <3>1. prio[s[i]] <= prio[s[j-1]] \/ i = j-1
      BY <1>0, <1>1, <1>2, <1>6, <2>4
    <3> QED BY <1>0, <1>1, <1>2, <1>6, <2>1, <2>4, <3>1
  <2>5. CASE j > k /\ i = k
    BY <1>0, <1>1, <1>2, <1>4, <1>6, <2>1, <2>5
  <2>6. CASE j > k /\ i > k
    <3>1. i-1 \in 1..Len(s) /\ j-1 \in 1..Len(s) /\ i-1 < j-1
      BY <1>1, <1>2, <1>6, <2>6
    <3>2. prio[s[i-1]] <= prio[s[j-1]]
      BY <1>0, <3>1
    <3> QED BY <1>2, <2>1, <2>6, <3>2
  <2> QED BY <1>2, <2>2, <2>3, <2>4, <2>5, <2>6
<1>7. ByPriority(r, prio)
  BY <1>5, <1>6 DEF ByPriority
<1> QED BY <1>7 DEF Suspended, k

(* So do a removal and the removal of the first. *)
LEMMA RemovedInOrder ==
    ASSUME NEW P, NEW s \in Seq(P), NEW t \in Elements(s), NEW prio \in [P -> Int],
           ByPriority(s, prio)
    PROVE  ByPriority(Without(s, t), prio)
<1> DEFINE k == CHOOSE i \in DOMAIN s : s[i] = t
           r == [i \in 1..Len(s)-1 |-> IF i < k THEN s[i] ELSE s[i+1]]
<1>1. k \in 1..Len(s) /\ Len(s) \in Nat /\ DOMAIN s = 1..Len(s)
  <2>1. \E i \in DOMAIN s : s[i] = t
    BY DEF Elements
  <2> QED BY <2>1
<1>2. Without(s, t) = r
  BY DEF Without
<1> HIDE DEF k
<1>3. ASSUME NEW i \in 1..Len(s)-1, NEW j \in 1..Len(s)-1, i < j
      PROVE  prio[r[i]] <= prio[r[j]]
  <2> DEFINE a == IF i < k THEN i ELSE i+1
             b == IF j < k THEN j ELSE j+1
  <2>1. r[i] = s[a] /\ r[j] = s[b] /\ a \in DOMAIN s /\ b \in DOMAIN s /\ a < b
    BY <1>1, <1>3
  <2> QED BY <2>1 DEF ByPriority
<1>4. DOMAIN r = 1..Len(s)-1
  OBVIOUS
<1> QED BY <1>2, <1>3, <1>4 DEF ByPriority

LEMMA TailInOrder ==
    ASSUME NEW P, NEW s \in Seq(P), s # <<>>, NEW prio \in [P -> Int], ByPriority(s, prio)
    PROVE  /\ ByPriority(Tail(s), prio)
           /\ \A t \in Elements(s) : prio[Head(s)] <= prio[t]
<1>1. /\ Len(s) \in Nat \ {0} /\ DOMAIN s = 1..Len(s) /\ Head(s) = s[1]
      /\ DOMAIN Tail(s) = 1..Len(s)-1 /\ \A i \in 1..Len(s)-1 : Tail(s)[i] = s[i+1]
      /\ \A i \in 1..Len(s) : s[i] \in P
  OBVIOUS
<1>2. ASSUME NEW i \in DOMAIN Tail(s), NEW j \in DOMAIN Tail(s), i < j
      PROVE  prio[Tail(s)[i]] <= prio[Tail(s)[j]]
  <2>1. i+1 \in DOMAIN s /\ j+1 \in DOMAIN s /\ i+1 < j+1
    BY <1>1, <1>2
  <2>2. prio[s[i+1]] <= prio[s[j+1]]
    BY <2>1 DEF ByPriority
  <2> QED BY <1>1, <2>2
<1>3. ASSUME NEW i \in DOMAIN s PROVE prio[s[1]] <= prio[s[i]]
  <2>1. CASE i = 1
    BY <1>1, <2>1
  <2>2. CASE i # 1
    BY <1>1, <2>2 DEF ByPriority
  <2> QED BY <2>1, <2>2
<1> QED BY <1>1, <1>2, <1>3 DEF ByPriority, Elements

-----------------------------------------------------------------------------
(* Turns: what becomes of the order of those who wait. *)

(* The place where rt_ipc_list_suspend puts a thread: behind all those who run *)
(* at least as early, and in front of those who run later.                     *)
LEMMA PositionPlace ==
    ASSUME NEW P, NEW s \in Seq(P), NEW t \in P, NEW flag, NEW prio \in [P -> Int],
           flag = "FIFO" \/ ByPriority(s, prio), NEW k, k = Position(s, t, flag, prio)
    PROVE  /\ k \in 1..Len(s)+1
           /\ \A i \in DOMAIN s : i < k => flag = "FIFO" \/ prio[s[i]] <= prio[t]
           /\ \A i \in DOMAIN s : i >= k => flag # "FIFO" /\ prio[t] < prio[s[i]]
<1> DEFINE lower == {i \in DOMAIN s : prio[t] < prio[s[i]]}
<1>1. /\ Len(s) \in Nat /\ DOMAIN s = 1..Len(s) /\ \A i \in 1..Len(s) : s[i] \in P
      /\ \A i \in 1..Len(s) : prio[s[i]] \in Int
      /\ prio[t] \in Int
  OBVIOUS
<1>2. k \in 1..Len(s)+1
  BY PositionRange
<1>3. CASE flag = "FIFO" \/ lower = {}
  <2>1. k = Len(s) + 1
    BY <1>3 DEF Position
  <2>2. \A i \in DOMAIN s : flag = "FIFO" \/ prio[s[i]] <= prio[t]
    BY <1>1, <1>3
  <2> QED BY <1>1, <1>2, <2>1, <2>2
<1>4. CASE flag # "FIFO" /\ lower # {}
  <2>1. k = CHOOSE i \in lower : \A j \in lower : i <= j
    BY <1>4 DEF Position
  <2>2. \E i \in lower : \A j \in lower : i <= j
    <3>1. lower \in SUBSET Nat
      BY <1>1
    <3> HIDE DEF lower
    <3> QED BY <1>4, <3>1, Smallest
  <2>3. k \in lower /\ \A j \in lower : k <= j
    <3> HIDE DEF lower
    <3> QED BY <2>1, <2>2
  <2>4. k \in 1..Len(s) /\ prio[t] < prio[s[k]]
    BY <1>1, <2>3
  <2>5. ASSUME NEW i \in DOMAIN s, i < k PROVE prio[s[i]] <= prio[t]
    <3>1. i \notin lower
      BY <1>1, <2>3, <2>5
    <3> QED BY <1>1, <3>1
  <2>6. ASSUME NEW i \in DOMAIN s, i >= k PROVE prio[t] < prio[s[i]]
    <3>1. i = k \/ prio[s[k]] <= prio[s[i]]
      BY <1>1, <1>4, <2>4, <2>6 DEF ByPriority
    <3> QED BY <1>1, <2>4, <3>1
  <2> QED BY <1>2, <1>4, <2>5, <2>6
<1> QED BY <1>3, <1>4

(* Who is there and who is new after rt_list_insert_before. *)
LEMMA LinkedAhead ==
    ASSUME NEW P, NEW s \in Seq(P), NEW t \in P \ Elements(s), NEW k \in 1..Len(s)+1,
           NEW x, NEW y, Ahead(Linked(s, k, t), x, y)
    PROVE  \/ x = t /\ \E i \in DOMAIN s : i >= k /\ s[i] = y
           \/ y = t /\ \E i \in DOMAIN s : i < k /\ s[i] = x
           \/ x # t /\ y # t /\ Ahead(s, x, y)
<1> DEFINE r == Linked(s, k, t)
           old(n) == IF n < k THEN n ELSE n - 1
<1>1. /\ Len(s) \in Nat /\ DOMAIN s = 1..Len(s) /\ DOMAIN r = 1..Len(s)+1
      /\ \A n \in DOMAIN s : s[n] # t
  BY DEF Linked, Elements
<1>2. r[k] = t
  BY <1>1 DEF Linked
<1>3. \A n \in DOMAIN r : n # k => old(n) \in DOMAIN s /\ r[n] = s[old(n)]
  BY <1>1 DEF Linked
<1>4. PICK i, j : i \in DOMAIN r /\ j \in DOMAIN r /\ i < j /\ r[i] = x /\ r[j] = y
  BY DEF Ahead
<1> HIDE DEF r
<1>5. i \in Int /\ j \in Int /\ k \in Int
  BY <1>1, <1>4
<1>6. i < j
  BY <1>4
<1>7. CASE i = k
  <2>1. x = t
    BY <1>2, <1>4, <1>7
  <2>2. j # k /\ j - 1 >= k /\ old(j) = j - 1
    BY <1>5, <1>6, <1>7
  <2>3. old(j) \in DOMAIN s /\ s[old(j)] = y /\ old(j) >= k
    BY <1>3, <1>4, <2>2
  <2> QED BY <2>1, <2>3
<1>8. CASE j = k
  <2>1. y = t
    BY <1>2, <1>4, <1>8
  <2>2. i # k /\ i < k /\ old(i) = i
    BY <1>5, <1>6, <1>8
  <2>3. old(i) \in DOMAIN s /\ s[old(i)] = x /\ old(i) < k
    BY <1>3, <1>4, <2>2
  <2> QED BY <2>1, <2>3
<1>9. CASE i # k /\ j # k
  <2>1. /\ old(i) \in DOMAIN s /\ old(j) \in DOMAIN s /\ old(i) < old(j)
        /\ s[old(i)] = x /\ s[old(j)] = y
    BY <1>1, <1>3, <1>4, <1>9
  <2> QED BY <1>1, <2>1 DEF Ahead
<1> QED BY <1>7, <1>8, <1>9

LEMMA SuspendedInTurn ==
    ASSUME NEW P, NEW s \in Seq(P), NEW t \in P \ Elements(s), NEW flag \in {"FIFO", "PRIO"},
           NEW prio \in [P -> Int], flag = "FIFO" \/ ByPriority(s, prio)
    PROVE  InTurn(s, Suspended(s, t, flag, prio), flag, prio)
<1>1. PICK k : k = Position(s, t, flag, prio)
  OBVIOUS
<1>2. /\ k \in 1..Len(s)+1
      /\ \A i \in DOMAIN s : i < k => flag = "FIFO" \/ prio[s[i]] <= prio[t]
      /\ \A i \in DOMAIN s : i >= k => flag = "PRIO" /\ prio[t] < prio[s[i]]
  BY <1>1, PositionPlace
<1>3. PICK r : r = Linked(s, k, t)
  OBVIOUS
<1>4. Suspended(s, t, flag, prio) = r
  BY <1>1, <1>3 DEF Suspended
<1>5. ASSUME NEW x, NEW y, Ahead(r, x, y)
      PROVE  IF x \notin Elements(s) THEN flag = "PRIO" /\ prio[x] < prio[y]
             ELSE IF y \notin Elements(s) THEN flag = "FIFO" \/ prio[x] <= prio[y]
             ELSE Ahead(s, x, y)
  <2>1. \/ x = t /\ \E i \in DOMAIN s : i >= k /\ s[i] = y
        \/ y = t /\ \E i \in DOMAIN s : i < k /\ s[i] = x
        \/ x # t /\ y # t /\ Ahead(s, x, y)
    BY <1>2, <1>3, <1>5, LinkedAhead
  <2>2. CASE x = t /\ \E i \in DOMAIN s : i >= k /\ s[i] = y
    BY <1>2, <2>2
  <2>3. CASE y = t /\ \E i \in DOMAIN s : i < k /\ s[i] = x
    <3>1. x \in Elements(s)
      BY <2>3 DEF Elements
    <3> QED BY <1>2, <2>3, <3>1
  <2>4. CASE Ahead(s, x, y)
    <3>1. x \in Elements(s) /\ y \in Elements(s)
      BY <2>4 DEF Ahead, Elements
    <3> QED BY <2>4, <3>1
  <2> QED BY <2>1, <2>2, <2>3, <2>4
<1> QED BY <1>4, <1>5 DEF InTurn

(* A list from which one or all are gone keeps the order of the others.        *)
Keeps(s, r) ==
    \A t, u : Ahead(r, t, u) => t \in Elements(s) /\ u \in Elements(s) /\ Ahead(s, t, u)

LEMMA KeepsInTurn ==
    ASSUME NEW s, NEW r, Keeps(s, r), NEW flag, NEW prio
    PROVE  InTurn(s, r, flag, prio)
BY DEF Keeps, InTurn

LEMMA AheadIn ==
    ASSUME NEW s, NEW t, NEW u, Ahead(s, t, u)
    PROVE  t \in Elements(s) /\ u \in Elements(s)
BY DEF Ahead, Elements

LEMMA SameKeeps ==
    ASSUME NEW s
    PROVE  Keeps(s, s) /\ Keeps(s, <<>>)
<1>1. Keeps(s, s)
  BY AheadIn DEF Keeps
<1>2. \A t, u : ~Ahead(<<>>, t, u)
  BY DEF Ahead
<1> QED BY <1>1, <1>2 DEF Keeps

LEMMA RemovedKeeps ==
    ASSUME NEW P, NEW s \in Seq(P), NEW t \in Elements(s)
    PROVE  Keeps(s, Without(s, t))
<1> DEFINE k == CHOOSE i \in DOMAIN s : s[i] = t
           r == [i \in 1..Len(s)-1 |-> IF i < k THEN s[i] ELSE s[i+1]]
           old(n) == IF n < k THEN n ELSE n + 1
<1>1. k \in 1..Len(s) /\ Len(s) \in Nat /\ DOMAIN s = 1..Len(s)
  <2>1. \E i \in DOMAIN s : s[i] = t
    BY DEF Elements
  <2> QED BY <2>1
<1>2. Without(s, t) = r
  BY DEF Without
<1> HIDE DEF k
<1>3. \A n \in DOMAIN r : n \in 1..Len(s)-1 /\ old(n) \in DOMAIN s /\ r[n] = s[old(n)]
  BY <1>1
<1> HIDE DEF r
<1>4. ASSUME NEW x, NEW y, Ahead(r, x, y) PROVE Ahead(s, x, y)
  <2>1. PICK i, j : i \in DOMAIN r /\ j \in DOMAIN r /\ i < j /\ r[i] = x /\ r[j] = y
    BY <1>4 DEF Ahead
  <2>2. /\ old(i) \in DOMAIN s /\ old(j) \in DOMAIN s /\ old(i) < old(j)
        /\ s[old(i)] = x /\ s[old(j)] = y
    BY <1>1, <1>3, <2>1
  <2> QED BY <2>2 DEF Ahead
<1> QED BY <1>2, <1>4, AheadIn DEF Keeps

(* Without its first, the list keeps its order; and nobody was ahead of him.   *)
LEMMA TailKeeps ==
    ASSUME NEW P, NEW s \in Seq(P), s # <<>>, Distinct(s)
    PROVE  /\ Keeps(s, Tail(s))
           /\ \A u : ~Ahead(s, u, Head(s))
<1>1. /\ Len(s) \in Nat \ {0} /\ DOMAIN s = 1..Len(s) /\ Head(s) = s[1]
      /\ DOMAIN Tail(s) = 1..Len(s)-1 /\ \A i \in 1..Len(s)-1 : Tail(s)[i] = s[i+1]
  OBVIOUS
<1>2. ASSUME NEW x, NEW y, Ahead(Tail(s), x, y) PROVE Ahead(s, x, y)
  <2>1. PICK i, j : /\ i \in DOMAIN Tail(s) /\ j \in DOMAIN Tail(s) /\ i < j
                    /\ Tail(s)[i] = x /\ Tail(s)[j] = y
    BY <1>2 DEF Ahead
  <2>2. i+1 \in DOMAIN s /\ j+1 \in DOMAIN s /\ i+1 < j+1 /\ s[i+1] = x /\ s[j+1] = y
    BY <1>1, <2>1
  <2> QED BY <2>2 DEF Ahead
<1>3. ASSUME NEW u, Ahead(s, u, Head(s)) PROVE FALSE
  <2>1. PICK i, j : i \in DOMAIN s /\ j \in DOMAIN s /\ i < j /\ s[j] = s[1]
    BY <1>1, <1>3 DEF Ahead
  <2>2. j = 1
    BY <1>1, <2>1 DEF Distinct
  <2> QED BY <1>1, <2>1, <2>2
<1> QED BY <1>2, <1>3, AheadIn DEF Keeps
=============================================================================
