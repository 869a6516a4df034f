----------------------------- MODULE TimerProofs -----------------------------
(***************************************************************************)
(* Proofs about SoftTimer, and with it Timer, for every set of timers,     *)
(* hard or soft, all intervals and every width of the tick counter: the    *)
(* list keeps its order when the counter wraps, no timer fires early, none *)
(* is forgotten, and the timer thread does not oversleep.                  *)
(*                                                                         *)
(* Two premises: each timer belongs to one thread (Own), and the users of  *)
(* soft timers have a lower priority than the timer thread (Apart).        *)
(***************************************************************************)
EXTENDS SoftTimer, WaitingListProofs

Own == \A t \in Timers : \A u, v \in UsedBy[t] : u = v
Apart == Above = {}

-----------------------------------------------------------------------------
(* The invariant *)

(* The list holds activated timers, once each, in the order of the time that  *)
(* is left, and none that was stopped.                                        *)
InOrder(s, d, before) ==
    \A i, j \in DOMAIN s : i < j =>
        \/ d[s[i]] < d[s[j]]
        \/ d[s[i]] = d[s[j]] /\ <<s[i], s[j]>> \in before
ListOK ==
    /\ Distinct(list) /\ InOrder(list, due, earlier)
    /\ Listed \subseteq activated /\ stopped \cap Listed = {}

(* The timeout of a timer whose time runs is the tick in due[t] ticks, and it *)
(* is so near that the order of two ticks is the order of the times.          *)
Timed(t) == /\ timeout_tick[t] = (rt_tick + due[t]) % TickMod
            /\ due[t] \in -(MaxLate+1)..InitTick[t]
            /\ ~checking => due[t] >= -MaxLate
TimesOK == \A t \in Timers : SoftStarted(t) => Timed(t)

(* A thread calls for its own timers; a timer that is being started, or was    *)
(* taken off the list, is in no list.                                          *)
Starting(u) == pc[u] \in {"start_tick", "start_insert"}
Off(u) == Starting(u) \/ pc[u] = "stop_clear"
CallsOK ==
    \A u \in Users :
        /\ pc[u] # "ready" => u \in UsedBy[arg[u]]
        /\ Off(u) => arg[u] \notin Listed
        /\ Starting(u) => arg[u] \notin stopped
        /\ pc[u] = "start_insert" => due[arg[u]] >= -MaxLate

LateOK == ~soft /\ ~checking => \A t \in Listed : due[t] > 0 \/ t \in late

(* The timer thread: the timer it fires is in no list and nobody starts it,   *)
(* the next one it looks at is in the list, and was seen at current_tick.     *)
Seen == \E d \in due[n]..InitTick[n] : timeout_tick[n] = (current_tick + d) % TickMod
FiringOK ==
    /\ soft => ~checking
    /\ ~soft => at = "next"
    /\ at \in {"called", "restart"} =>
           /\ firing \in Timers \ Listed
           /\ \A u \in Users : Off(u) => arg[u] # firing
    /\ at = "called" => firing \notin activated \/ firing \notin stopped
    /\ at = "restart" => firing \notin stopped
    /\ at \in {"check", "called", "restart"} /\ n # End => n \in Listed
    /\ at \in {"check", "restart"} /\ n # End => Seen

Resuming == \E u \in Users : pc[u] = "start_resume"
InTime == next_timeout <= due[list[1]] + lag
SleepOK ==
    /\ at = "suspend" => list = <<>> \/ collided
    /\ at = "suspended" => list = <<>> \/ collided \/ Resuming
    /\ at = "tick" => list # <<>> /\ next_timeout = timeout_tick[list[1]]
    /\ at = "delay" => list # <<>> /\ InTime
    /\ at = "delayed" => list = <<>> \/ Resuming \/ next_timeout <= 1 \/ InTime

IInv == SoftTypeOK /\ ListOK /\ TimesOK /\ CallsOK /\ LateOK /\ FiringOK /\ SleepOK

-----------------------------------------------------------------------------
(* Ticks *)

LEMMA ModShift ==
    ASSUME NEW m \in Nat \ {0}, NEW x \in Int, NEW k \in Int
    PROVE  (x + m * k) % m = x % m
<1> DEFINE q == x \div m
           r == x % m
<1>1. q \in Int /\ r \in 0..m-1 /\ x = m * q + r
  OBVIOUS
<1> HIDE DEF q, r
<1>2. x + m * k = m * (q + k) + r /\ q + k \in Int
  BY <1>1
<1>3. \A j \in Int, i \in 0..m-1 : (m * j + i) % m = i
  OBVIOUS
<1>4. (x + m * k) % m = r
  BY <1>1, <1>2, <1>3
<1> QED BY <1>1, <1>4 DEF r

LEMMA ModSmall ==
    ASSUME NEW m \in Nat \ {0}, NEW x \in 0..m-1
    PROVE  x % m = x
OBVIOUS

LEMMA ModRange ==
    ASSUME NEW m \in Nat \ {0}, NEW x \in Int
    PROVE  x % m \in 0..m-1
OBVIOUS

LEMMA ModAdd ==
    ASSUME NEW m \in Nat \ {0}, NEW x \in Int, NEW y \in Int
    PROVE  ((x % m) + y) % m = (x + y) % m
<1> DEFINE q == x \div m
           r == x % m
<1>1. q \in Int /\ r \in 0..m-1 /\ x = m * q + r
  OBVIOUS
<1> HIDE DEF q, r
<1>2. x + y = (r + y) + m * q /\ r + y \in Int
  BY <1>1
<1> QED BY <1>1, <1>2, ModShift DEF r

LEMMA ModSub ==
    ASSUME NEW m \in Nat \ {0}, NEW x \in Int, NEW y \in Int
    PROVE  ((x % m) - (y % m)) % m = (x - y) % m
<1> DEFINE p == x \div m
           q == y \div m
           r == x % m
           s == y % m
<1>1. /\ p \in Int /\ r \in 0..m-1 /\ x = m * p + r
      /\ q \in Int /\ s \in 0..m-1 /\ y = m * q + s
  OBVIOUS
<1> HIDE DEF p, q, r, s
<1>2. x - y = (r - s) + m * (p - q) /\ r - s \in Int /\ p - q \in Int
  BY <1>1
<1>3. ((r - s) + m * (p - q)) % m = (r - s) % m
  BY <1>2, ModShift
<1> QED BY <1>2, <1>3 DEF r, s

(* Half the counter, and what fits into it. *)
LEMMA Halves ==
    /\ TickMod \in Nat \ {0} /\ Half \in Nat /\ 2 * Half <= TickMod - 1
    /\ MaxLate \in Nat /\ MaxLate + 1 < Half
    /\ \A t \in Timers : InitTick[t] \in Nat /\ InitTick[t] + MaxLate < Half
<1>1. \A k \in Int : 2 * (k \div 2) <= k /\ (k >= 0 => k \div 2 \in Nat)
  OBVIOUS
<1>2. TickMod - 1 \in Int /\ TickMod - 1 >= 0
  BY TimerAssumption
<1> QED BY <1>1, <1>2, TimerAssumption DEF Half, RT_TICK_MAX

(* The code's test of a difference of ticks, for times less than half apart. *)
LEMMA Near ==
    ASSUME NEW x \in -Half..Half-1
    PROVE  /\ x % TickMod < Half <=> x >= 0
           /\ x % TickMod \in 1..Half-1 <=> x > 0
           /\ x >= 0 => x % TickMod = x
           /\ x % TickMod \in 0..TickMod-1
<1>1. CASE x >= 0
  <2>1. x \in 0..TickMod-1
    BY <1>1, Halves
  <2>2. x % TickMod = x
    BY <2>1, Halves, ModSmall
  <2> QED BY <1>1, <2>1, <2>2, Halves
<1>2. CASE x < 0
  <2>1. x + TickMod \in 0..TickMod-1 /\ x + TickMod >= Half /\ x \in Int
    BY <1>2, Halves
  <2>2. \A k \in Int : (x + TickMod * k) % TickMod = x % TickMod
    BY <2>1, Halves, ModShift
  <2>3. 1 \in Int /\ TickMod * 1 = TickMod
    BY Halves
  <2>4. (x + TickMod) % TickMod = x % TickMod
    BY <2>2, <2>3
  <2>5. (x + TickMod) % TickMod = x + TickMod
    BY <2>1, Halves, ModSmall
  <2> QED BY <1>2, <2>1, <2>4, <2>5, Halves
<1> QED BY <1>1, <1>2, Halves

LEMMA SinceTicks ==
    ASSUME NEW now \in Int, NEW a \in Int, NEW b \in Int
    PROVE  Since((now + a) % TickMod, (now + b) % TickMod) = (a - b) % TickMod
<1> DEFINE x == now + a
           y == now + b
<1>1. x \in Int /\ y \in Int /\ x - y = a - b
  OBVIOUS
<1> HIDE DEF x, y
<1>3. TickMod \in Nat \ {0}
  BY Halves
<1>4. ((x % TickMod) - (y % TickMod)) % TickMod = (x - y) % TickMod
  BY <1>1, <1>3, ModSub
<1>2. ((x % TickMod) - (y % TickMod)) % TickMod = (a - b) % TickMod
  BY <1>1, <1>4, Zenon
<1> QED BY <1>2 DEF Since, x, y

(* A timer has expired when no time is left. *)
LEMMA ExpiredTick ==
    ASSUME NEW now \in 0..TickMod-1, NEW t \in Timers, NEW d \in -(MaxLate+1)..InitTick[t]
    PROVE  Since(now, (now + d) % TickMod) < Half <=> d <= 0
<1>1. (now + 0) % TickMod = now
  BY Halves, ModSmall
<1>2. now \in Int /\ d \in Int /\ 0 - d = -d /\ -d \in -Half..Half-1
  BY Halves
<1>5. Since((now + 0) % TickMod, (now + d) % TickMod) = (0 - d) % TickMod
  BY <1>2, SinceTicks
<1>3. Since(now, (now + d) % TickMod) = (-d) % TickMod
  BY <1>1, <1>2, <1>5
<1>4. (-d) % TickMod < Half <=> -d >= 0
  BY <1>2, Near
<1> QED BY <1>2, <1>3, <1>4

(* A tick later the same timeout is one tick nearer. *)
LEMMA TickLater ==
    ASSUME NEW now \in 0..TickMod-1, NEW d \in Int
    PROVE  (((now + 1) % TickMod) + (d - 1)) % TickMod = (now + d) % TickMod
<1>1. now + 1 \in Int /\ d - 1 \in Int /\ (now + 1) + (d - 1) = now + d
  OBVIOUS
<1> QED BY <1>1, Halves, ModAdd

-----------------------------------------------------------------------------
(* The list *)

(* r is s without some of its elements. *)
Thinner(r, s) ==
    \A i, j \in DOMAIN r : i < j =>
        \E k, l \in DOMAIN s : k < l /\ r[i] = s[k] /\ r[j] = s[l]

LEMMA ThinnerOrder ==
    ASSUME NEW r, NEW s, Thinner(r, s), NEW d, NEW before, InOrder(s, d, before),
           NEW d2, \A i \in DOMAIN r : d2[r[i]] = d[r[i]],
           NEW before2,
           \A i, j \in DOMAIN r : <<r[i], r[j]>> \in before => <<r[i], r[j]>> \in before2
    PROVE  InOrder(r, d2, before2)
<1> SUFFICES ASSUME NEW i \in DOMAIN r, NEW j \in DOMAIN r, i < j
             PROVE  \/ d2[r[i]] < d2[r[j]]
                    \/ d2[r[i]] = d2[r[j]] /\ <<r[i], r[j]>> \in before2
  BY DEF InOrder
<1>1. PICK k \in DOMAIN s, l \in DOMAIN s : k < l /\ r[i] = s[k] /\ r[j] = s[l]
  BY DEF Thinner
<1>2. \/ d[s[k]] < d[s[l]]
      \/ d[s[k]] = d[s[l]] /\ <<s[k], s[l]>> \in before
  BY <1>1 DEF InOrder
<1>3. \/ d[r[i]] < d[r[j]]
      \/ d[r[i]] = d[r[j]] /\ <<r[i], r[j]>> \in before
  BY <1>1, <1>2
<1> QED BY <1>3

LEMMA TailThinner ==
    ASSUME NEW P, NEW s \in Seq(P), s # <<>>
    PROVE  Thinner(Tail(s), s)
<1>1. /\ Len(s) \in Nat \ {0} /\ DOMAIN s = 1..Len(s)
      /\ DOMAIN Tail(s) = 1..Len(s)-1 /\ \A i \in 1..Len(s)-1 : Tail(s)[i] = s[i+1]
  OBVIOUS
<1> SUFFICES ASSUME NEW i \in DOMAIN Tail(s), NEW j \in DOMAIN Tail(s), i < j
             PROVE  \E k, l \in DOMAIN s : k < l /\ Tail(s)[i] = s[k] /\ Tail(s)[j] = s[l]
  BY DEF Thinner
<1>2. /\ i+1 \in DOMAIN s /\ j+1 \in DOMAIN s /\ i+1 < j+1
      /\ Tail(s)[i] = s[i+1] /\ Tail(s)[j] = s[j+1]
  BY <1>1
<1> QED BY <1>2

LEMMA WithoutThinner ==
    ASSUME NEW P, NEW s \in Seq(P), NEW t \in Elements(s)
    PROVE  Thinner(Without(s, t), s)
<1> DEFINE k == CHOOSE i \in DOMAIN s : s[i] = t
           r == [i \in 1..Len(s)-1 |-> IF i < k THEN s[i] ELSE s[i+1]]
           old(i) == IF i < k THEN i ELSE i + 1
<1>1. k \in 1..Len(s) /\ Len(s) \in Nat /\ DOMAIN s = 1..Len(s)
  <2>1. \E i \in DOMAIN s : s[i] = t
    BY DEF Elements
  <2> QED BY <2>1
<1>2. Without(s, t) = r
  BY DEF Without
<1> HIDE DEF k
<1>3. \A i \in DOMAIN r : old(i) \in DOMAIN s /\ r[i] = s[old(i)]
  BY <1>1
<1>4. \A i, j \in DOMAIN r : i < j => old(i) < old(j)
  BY <1>1
<1>5. Thinner(r, s)
  BY <1>3, <1>4 DEF Thinner
<1> QED BY <1>2, <1>5

(* The list after _rt_timer_remove. *)
LEMMA UnlinkedList ==
    ASSUME NEW P, NEW s \in Seq(P), NEW t, Distinct(s)
    PROVE  /\ Unlinked(s, t) \in Seq(P)
           /\ Elements(Unlinked(s, t)) = Elements(s) \ {t}
           /\ Distinct(Unlinked(s, t))
           /\ Thinner(Unlinked(s, t), s)
<1>1. CASE t \in Elements(s)
  BY <1>1, RemovedList, WithoutThinner DEF Unlinked
<1>2. CASE t \notin Elements(s)
  <2>1. Thinner(s, s)
    BY DEF Thinner
  <2> QED BY <1>2, <2>1 DEF Unlinked
<1> QED BY <1>1, <1>2

(* A timer is inserted behind those that expire no later, in front of the others. *)
LEMMA LinkedOrder ==
    ASSUME NEW P, NEW s \in Seq(P), NEW t \in P \ Elements(s), NEW k \in 1..Len(s)+1,
           NEW d \in [P -> Int], NEW before, InOrder(s, d, before),
           \A i \in 1..Len(s) : i < k => d[s[i]] <= d[t],
           \A i \in 1..Len(s) : k <= i => d[t] < d[s[i]],
           NEW before2,
           \A i, j \in 1..Len(s) : <<s[i], s[j]>> \in before => <<s[i], s[j]>> \in before2,
           \A i \in 1..Len(s) : <<s[i], t>> \in before2
    PROVE  InOrder(Linked(s, k, t), d, before2)
<1> DEFINE r == [i \in 1..Len(s)+1 |-> IF i < k THEN s[i] ELSE IF i = k THEN t ELSE s[i-1]]
<1>1. Len(s) \in Nat /\ DOMAIN s = 1..Len(s) /\ DOMAIN r = 1..Len(s)+1
  OBVIOUS
<1>2. Linked(s, k, t) = r
  BY DEF Linked
<1>3. \A i \in 1..Len(s) : s[i] \in P /\ d[s[i]] \in Int
  BY <1>1
<1>4. d[t] \in Int
  OBVIOUS
<1> DEFINE Ok(a, b) == d[a] < d[b] \/ (d[a] = d[b] /\ <<a, b>> \in before2)
<1>5. \A i, j \in 1..Len(s) : i < j => Ok(s[i], s[j])
  BY <1>1 DEF InOrder
<1>6. \A i \in 1..Len(s) : i < k => Ok(s[i], t)
  BY <1>3, <1>4
<1>7. \A i \in 1..Len(s) : k <= i => Ok(t, s[i])
  OBVIOUS
<1> HIDE DEF Ok
<1>8. ASSUME NEW i \in DOMAIN r, NEW j \in DOMAIN r, i < j PROVE Ok(r[i], r[j])
  <2>1. CASE j < k
    BY <1>1, <1>5, <1>8, <2>1
  <2>2. CASE j = k
    <3>1. i \in 1..Len(s) /\ i < k /\ r[i] = s[i] /\ r[j] = t
      BY <1>1, <1>8, <2>2
    <3> QED BY <1>6, <3>1
  <2>3. CASE k < j /\ i < k
    <3>1. i \in 1..Len(s) /\ j-1 \in 1..Len(s) /\ i < j-1 /\ r[i] = s[i] /\ r[j] = s[j-1]
      BY <1>1, <1>8, <2>3
    <3> QED BY <1>5, <3>1
  <2>4. CASE k < j /\ i = k
    <3>1. j-1 \in 1..Len(s) /\ k <= j-1 /\ r[i] = t /\ r[j] = s[j-1]
      BY <1>1, <1>8, <2>4
    <3> QED BY <1>7, <3>1
  <2>5. CASE k < j /\ k < i
    <3>1. i-1 \in 1..Len(s) /\ j-1 \in 1..Len(s) /\ i-1 < j-1
          /\ r[i] = s[i-1] /\ r[j] = s[j-1]
      BY <1>1, <1>8, <2>5
    <3> QED BY <1>5, <3>1
  <2> QED BY <1>1, <2>1, <2>2, <2>3, <2>4, <2>5
<1>9. InOrder(r, d, before2)
  BY <1>8 DEF InOrder, Ok
<1> QED BY <1>2, <1>9

(* In the order of a list the time that is left does not become less. *)
LEMMA InOrderGrows ==
    ASSUME NEW P, NEW s \in Seq(P), NEW d \in [P -> Int], NEW before,
           InOrder(s, d, before), NEW i \in 1..Len(s), NEW j \in i..Len(s)
    PROVE  d[s[i]] <= d[s[j]]
<1>1. i \in DOMAIN s /\ j \in DOMAIN s /\ (i = j \/ i < j)
  OBVIOUS
<1>2. d[s[i]] \in Int /\ d[s[j]] \in Int
  BY <1>1
<1>3. CASE i < j
  <2>1. \/ d[s[i]] < d[s[j]]
        \/ d[s[i]] = d[s[j]] /\ <<s[i], s[j]>> \in before
    BY <1>1, <1>3 DEF InOrder
  <2> QED BY <1>2, <2>1
<1> QED BY <1>1, <1>2, <1>3

(* The first of a thinner list has no less time left. *)
LEMMA ThinnerFirst ==
    ASSUME NEW P, NEW r \in Seq(P), NEW s \in Seq(P), Thinner(r, s), r # <<>>,
           Elements(r) \subseteq Elements(s),
           NEW d \in [P -> Int], NEW before, InOrder(s, d, before)
    PROVE  s # <<>> /\ d[s[1]] <= d[r[1]]
<1>1. Len(r) \in Nat \ {0} /\ DOMAIN r = 1..Len(r) /\ 1 \in DOMAIN r
  OBVIOUS
<1>2. PICK k \in DOMAIN s : r[1] = s[k]
  BY <1>1 DEF Elements
<1>3. Len(s) \in Nat /\ DOMAIN s = 1..Len(s) /\ k \in 1..Len(s) /\ 1 \in DOMAIN s
  BY <1>2
<1>4. 1 \in 1..Len(s) /\ k \in 1..Len(s)
  BY <1>3
<1>6. d[s[1]] <= d[s[k]]
  BY <1>4, InOrderGrows
<1>7. s # <<>>
  BY <1>3
<1> QED BY <1>2, <1>6, <1>7

(* The timeouts are the ticks in which d runs out, and near. *)
Timely(s, d, now) ==
    \A i \in DOMAIN s : /\ timeout_tick[s[i]] = (now + d[s[i]]) % TickMod
                        /\ d[s[i]] \in -(MaxLate+1)..InitTick[s[i]]

(* rt_timer_start compares ticks; it finds the place behind the timers with no *)
(* more time left, and in front of the others.                                 *)
LEMMA PlaceRight ==
    ASSUME NEW s \in Seq(Timers), NEW d \in [Timers -> Int], NEW before,
           InOrder(s, d, before), NEW now \in 0..TickMod-1, Timely(s, d, now),
           NEW e \in Int, e >= -MaxLate, e + MaxLate < Half
    PROVE  LET k == Place(s, (now + e) % TickMod) IN
           /\ k \in 1..Len(s)+1
           /\ \A i \in 1..Len(s) : i < k => d[s[i]] <= e
           /\ \A i \in 1..Len(s) : k <= i => e < d[s[i]]
<1> DEFINE tick == (now + e) % TickMod
           after == {i \in DOMAIN s : Since(timeout_tick[s[i]], tick) \in 1..Half-1}
           k == Place(s, tick)
<1>1. Len(s) \in Nat /\ DOMAIN s = 1..Len(s) /\ now \in Int
  OBVIOUS
<1>2. \A i \in 1..Len(s) : s[i] \in Timers /\ d[s[i]] \in Int
  BY <1>1
<1>3. ASSUME NEW i \in 1..Len(s)
      PROVE  Since(timeout_tick[s[i]], tick) \in 1..Half-1 <=> e < d[s[i]]
  <2> DEFINE x == d[s[i]]
  <2>1. /\ x \in Int /\ x \in -(MaxLate+1)..InitTick[s[i]]
        /\ timeout_tick[s[i]] = (now + x) % TickMod
    BY <1>1, <1>2 DEF Timely
  <2>2. /\ MaxLate \in Nat /\ Half \in Nat
        /\ InitTick[s[i]] \in Nat /\ InitTick[s[i]] + MaxLate < Half
    BY <1>2, Halves
  <2> HIDE DEF x
  <2>3. x - e \in -Half..Half-1
    <3>1. \A a, h, m \in Int : x \in -(m+1)..a /\ e >= -m /\ a + m < h /\ e + m < h
                                  => x - e \in -h..h-1
      BY <2>1
    <3> QED BY <2>1, <2>2, <3>1
  <2>4. Since((now + x) % TickMod, (now + e) % TickMod) = (x - e) % TickMod
    BY <1>1, <2>1, SinceTicks
  <2>5. (x - e) % TickMod \in 1..Half-1 <=> x - e > 0
    BY <2>3, Near
  <2>6. Since(timeout_tick[s[i]], tick) \in 1..Half-1 <=> e < x
    BY <2>1, <2>4, <2>5
  <2> QED BY <2>6 DEF x
<1>4. after = {i \in 1..Len(s) : e < d[s[i]]}
  BY <1>1, <1>3
<1>5. k = IF after = {} THEN Len(s) + 1 ELSE CHOOSE i \in after : \A j \in after : i <= j
  BY DEF Place
<1> HIDE DEF after, k, tick
<1> SUFFICES /\ k \in 1..Len(s)+1
             /\ \A i \in 1..Len(s) : i < k => d[s[i]] <= e
             /\ \A i \in 1..Len(s) : k <= i => e < d[s[i]]
  BY DEF k, tick
<1>6. CASE after = {}
  <2>1. k = Len(s) + 1
    BY <1>5, <1>6
  <2>2. \A i \in 1..Len(s) : ~(e < d[s[i]])
    BY <1>4, <1>6
  <2>3. \A i \in 1..Len(s) : d[s[i]] <= e
    BY <1>2, <2>2
  <2>4. \A i \in 1..Len(s) : i < k /\ ~(k <= i)
    BY <1>1, <2>1
  <2> QED BY <1>1, <2>1, <2>3, <2>4
<1>7. CASE after # {}
  <2>1. after \subseteq Nat
    BY <1>4
  <2>2. \E i \in after : \A j \in after : i <= j
    BY <1>7, <2>1, Smallest
  <2>3. k \in after /\ \A j \in after : k <= j
    BY <1>5, <1>7, <2>2
  <2>4. k \in 1..Len(s) /\ e < d[s[k]]
    BY <1>4, <2>3
  <2>5. \A i \in 1..Len(s) : i < k => d[s[i]] <= e
    BY <1>1, <1>2, <1>4, <2>3, <2>4
  <2>6. ASSUME NEW i \in 1..Len(s), k <= i PROVE e < d[s[i]]
    <3>1. i \in k..Len(s)
      BY <2>4, <2>6
    <3>2. d[s[k]] <= d[s[i]]
      BY <2>4, <3>1, InOrderGrows
    <3> QED BY <1>2, <2>4, <3>2
  <2> QED BY <1>1, <2>4, <2>5, <2>6
<1> QED BY <1>6, <1>7

(* The list after rt_timer_start has put t into it. *)
LEMMA InsertedList ==
    ASSUME NEW s \in Seq(Timers), Distinct(s), NEW t \in Timers \ Elements(s),
           NEW d \in [Timers -> Int], NEW before, InOrder(s, d, before),
           NEW now \in 0..TickMod-1, Timely(s, d, now),
           d[t] >= -MaxLate, d[t] + MaxLate < Half, NEW before2,
           \A i, j \in DOMAIN s : <<s[i], s[j]>> \in before => <<s[i], s[j]>> \in before2,
           \A i \in DOMAIN s : <<s[i], t>> \in before2
    PROVE  LET r == Inserted(s, t, (now + d[t]) % TickMod) IN
           /\ r \in Seq(Timers) /\ Distinct(r) /\ Elements(r) = Elements(s) \cup {t}
           /\ InOrder(r, d, before2)
<1> DEFINE k == Place(s, (now + d[t]) % TickMod)
           e == d[t]
<1>1. e \in Int /\ e >= -MaxLate /\ e + MaxLate < Half
  OBVIOUS
<1> HIDE DEF e
<1>2. LET h == Place(s, (now + e) % TickMod) IN
      /\ h \in 1..Len(s)+1
      /\ \A i \in 1..Len(s) : i < h => d[s[i]] <= e
      /\ \A i \in 1..Len(s) : h <= i => e < d[s[i]]
  BY <1>1, PlaceRight
<1>3. /\ k \in 1..Len(s)+1
      /\ \A i \in 1..Len(s) : i < k => d[s[i]] <= d[t]
      /\ \A i \in 1..Len(s) : k <= i => d[t] < d[s[i]]
  BY <1>2 DEF e
<1>4. DOMAIN s = 1..Len(s)
  OBVIOUS
<1>5. Inserted(s, t, (now + d[t]) % TickMod) = Linked(s, k, t)
  BY DEF Inserted
<1> HIDE DEF k
<1>6. /\ Linked(s, k, t) \in Seq(Timers) /\ Distinct(Linked(s, k, t))
      /\ Elements(Linked(s, k, t)) = Elements(s) \cup {t}
  BY <1>3, LinkedList
<1>7. InOrder(Linked(s, k, t), d, before2)
  BY <1>3, <1>4, LinkedOrder
<1> QED BY <1>5, <1>6, <1>7

-----------------------------------------------------------------------------
(* What the changes of the list do to it *)

(* t was taken off the list, or was in none. *)
TakenOff(t) ==
    /\ list' \in Seq(Timers) /\ Distinct(list') /\ Elements(list') = Listed \ {t}
    /\ Thinner(list', list)
    /\ due' = [due EXCEPT ![t] = 0] /\ earlier' = Forget(t)

(* t was put into the list. *)
PutIn(t) ==
    /\ list' \in Seq(Timers) /\ Distinct(list') /\ Elements(list') = Listed \cup {t}
    /\ earlier' = InsertedAfter(t, list) /\ due' = due
    /\ InOrder(list', due', earlier')

LEMMA ListFacts ==
    ASSUME SoftTypeOK
    PROVE  /\ list \in Seq(Timers) /\ Len(list) \in Nat /\ DOMAIN list = 1..Len(list)
           /\ Listed \subseteq Timers /\ \A i \in DOMAIN list : list[i] \in Listed
           /\ list # <<>> <=> Len(list) >= 1
           /\ list # <<>> => 1 \in DOMAIN list /\ Head(list) = list[1]
           /\ Listed = {} <=> list = <<>>
<1>1. list \in Seq(Timers)
  BY DEF SoftTypeOK, TypeOK
<1>2. Len(list) \in Nat /\ DOMAIN list = 1..Len(list)
  BY <1>1
<1>3. list # <<>> <=> Len(list) >= 1
  BY <1>1
<1>4. list # <<>> => 1 \in DOMAIN list /\ Head(list) = list[1]
  BY <1>1, <1>2, <1>3
<1>5. Listed \subseteq Timers /\ \A i \in DOMAIN list : list[i] \in Listed
  BY <1>1, <1>2 DEF Listed, Elements
<1>6. list = <<>> => Listed = {}
  BY DEF Listed, Elements
<1> QED BY <1>1, <1>2, <1>3, <1>4, <1>5, <1>6

LEMMA UnlinkedOff ==
    ASSUME SoftTypeOK, ListOK, NEW t \in Timers,
           list' = Unlinked(list, t), due' = [due EXCEPT ![t] = 0], earlier' = Forget(t)
    PROVE  TakenOff(t)
BY UnlinkedList DEF SoftTypeOK, TypeOK, ListOK, TakenOff, Listed

LEMMA TakenOffKeeps ==
    ASSUME SoftTypeOK, ListOK, NEW t \in Timers, TakenOff(t)
    PROVE  /\ InOrder(list', due', earlier')
           /\ due' \in [Timers -> Int] /\ earlier' \in SUBSET (Timers \X Timers)
           /\ due'[t] = 0 /\ \A x \in Timers \ {t} : due'[x] = due[x]
           /\ list' # <<>> => list # <<>> /\ due[list[1]] <= due'[list'[1]]
<1>1. /\ list \in Seq(Timers) /\ due \in [Timers -> Int]
      /\ earlier \in SUBSET (Timers \X Timers)
  BY DEF SoftTypeOK, TypeOK
<1>2. due' \in [Timers -> Int] /\ due'[t] = 0 /\ \A x \in Timers \ {t} : due'[x] = due[x]
  BY <1>1 DEF TakenOff
<1>3. earlier' \in SUBSET (Timers \X Timers)
  BY <1>1 DEF TakenOff, Forget
<1>4. \A i \in DOMAIN list' : list'[i] \in Listed \ {t} /\ list'[i] \in Timers
  <2>1. \A i \in DOMAIN list' : list'[i] \in Elements(list')
    BY DEF Elements
  <2> QED BY <2>1, ListFacts DEF TakenOff
<1>5. \A i \in DOMAIN list' : due'[list'[i]] = due[list'[i]]
  BY <1>2, <1>4
<1>6. \A i, j \in DOMAIN list' :
          <<list'[i], list'[j]>> \in earlier => <<list'[i], list'[j]>> \in earlier'
  BY <1>4 DEF TakenOff, Forget
<1>7. InOrder(list', due', earlier')
  <2>1. PICK r, d2, b2 : r = list' /\ d2 = due' /\ b2 = earlier'
    OBVIOUS
  <2>2. Thinner(r, list) /\ InOrder(list, due, earlier)
    BY <2>1 DEF TakenOff, ListOK
  <2>3. \A i \in DOMAIN r : d2[r[i]] = due[r[i]]
    BY <1>5, <2>1
  <2>4. \A i, j \in DOMAIN r : <<r[i], r[j]>> \in earlier => <<r[i], r[j]>> \in b2
    BY <1>6, <2>1
  <2>5. InOrder(r, d2, b2)
    BY <2>2, <2>3, <2>4, ThinnerOrder
  <2> QED BY <2>1, <2>5
<1>8. list' # <<>> => list # <<>> /\ due[list[1]] <= due[list'[1]]
  <2>1. Elements(list') \subseteq Elements(list)
    BY DEF TakenOff, Listed
  <2> QED BY <1>1, <2>1, ThinnerFirst DEF TakenOff, ListOK
<1>9. list' # <<>> => 1 \in DOMAIN list'
  BY DEF TakenOff
<1> QED BY <1>2, <1>3, <1>5, <1>7, <1>8, <1>9

(* The timeouts of the listed timers are near. *)
LEMMA ListedTimely ==
    ASSUME SoftTypeOK, TimesOK
    PROVE  Timely(list, due, rt_tick)
<1>1. \A i \in DOMAIN list : list[i] \in Timers /\ list[i] \in Listed
  BY ListFacts
<1> QED BY <1>1 DEF Timely, TimesOK, Timed, SoftStarted, Started

LEMMA InsertedIn ==
    ASSUME SoftTypeOK, ListOK, TimesOK, NEW t \in Timers \ Listed,
           Timed(t), due[t] >= -MaxLate,
           list' = Inserted(list, t, timeout_tick[t]),
           earlier' = InsertedAfter(t, list), due' = due
    PROVE  PutIn(t) /\ earlier' \in SUBSET (Timers \X Timers)
<1>1. /\ list \in Seq(Timers) /\ due \in [Timers -> Int] /\ rt_tick \in 0..TickMod-1
      /\ earlier \in SUBSET (Timers \X Timers)
  BY DEF SoftTypeOK, TypeOK
<1>2. Distinct(list) /\ InOrder(list, due, earlier) /\ t \notin Elements(list)
  BY DEF ListOK, Listed
<1>3. timeout_tick[t] = (rt_tick + due[t]) % TickMod
  BY DEF Timed
<1>4. due[t] + MaxLate < Half
  <2>1. due[t] \in Int /\ due[t] <= InitTick[t]
    BY <1>1, Halves DEF Timed
  <2> QED BY <2>1, Halves
<1>5. \A i \in DOMAIN list : list[i] \in Timers /\ list[i] \in Listed
  BY ListFacts
<1>6. /\ \A i, j \in DOMAIN list :
             <<list[i], list[j]>> \in earlier => <<list[i], list[j]>> \in earlier'
      /\ \A i \in DOMAIN list : <<list[i], t>> \in earlier'
  BY <1>5 DEF InsertedAfter, Forget, Listed
<1>7. earlier' \in SUBSET (Timers \X Timers)
  BY <1>1, ListFacts DEF InsertedAfter, Forget, Listed
<1> DEFINE r == Inserted(list, t, (rt_tick + due[t]) % TickMod)
<1>8. /\ r \in Seq(Timers) /\ Distinct(r) /\ Elements(r) = Elements(list) \cup {t}
      /\ InOrder(r, due, earlier')
  BY <1>1, <1>2, <1>4, <1>6, ListedTimely, InsertedList
<1>9. list' = r
  BY <1>3
<1> HIDE DEF r
<1> QED BY <1>7, <1>8, <1>9 DEF PutIn, Listed

-----------------------------------------------------------------------------
(* The calls of the threads, while neither SysTick nor the timer thread works  *)
(* on the list                                                                 *)

Quiet ==
    /\ ~checking /\ at \in {"next", "suspended", "delayed"}
    /\ UNCHANGED <<softVars, rt_tick, checking>>

LEMMA QuietFiring ==
    ASSUME IInv, Quiet PROVE FiringOK'
<1>1. UNCHANGED <<soft, checking, at, n, firing>>
  BY DEF Quiet, softVars, threadVars, localVars
<1> QED BY <1>1 DEF IInv, FiringOK, Quiet

LEMMA QuietSleep ==
    ASSUME IInv, Quiet, due' \in [Timers -> Int], list' \in Seq(Timers),
           Resuming => Resuming',
           list' # <<>> => Resuming' \/ (list # <<>> /\ due[list[1]] <= due'[list'[1]])
    PROVE  SleepOK'
<1>1. UNCHANGED <<at, collided, next_timeout, lag>>
  BY DEF Quiet, softVars, threadVars, localVars
<1>2. next_timeout \in Int /\ lag \in Int /\ due \in [Timers -> Int] /\ list \in Seq(Timers)
  BY Halves DEF IInv, SoftTypeOK, TypeOK
<1>3. list # <<>> => due[list[1]] \in Int
  <2>1. list # <<>> => list[1] \in Timers
    BY <1>2
  <2> QED BY <1>2, <2>1
<1>4. list' # <<>> => due'[list'[1]] \in Int
  <2>1. list' # <<>> => list'[1] \in Timers
    OBVIOUS
  <2> QED BY <2>1
<1>5. ASSUME InTime, list # <<>>, list' # <<>>, due[list[1]] <= due'[list'[1]] PROVE InTime'
  BY <1>1, <1>2, <1>3, <1>4, <1>5 DEF InTime
<1>6. CASE at = "next"
  BY <1>1, <1>6 DEF SleepOK
<1>7. CASE at = "suspended"
  BY <1>1, <1>7 DEF SleepOK, IInv
<1>8. CASE at = "delayed"
  BY <1>1, <1>5, <1>8 DEF SleepOK, IInv
<1> QED BY <1>6, <1>7, <1>8 DEF Quiet

LEMMA SoftTypesStay ==
    ASSUME IInv, Quiet, TypeOK' PROVE SoftTypeOK'
<1>1. UNCHANGED softVars
  BY DEF Quiet
<1> QED BY <1>1 DEF IInv, SoftTypeOK, softVars, threadVars, localVars

(* What Goto and Return do to the others and to the thread itself. *)
LEMMA Moves ==
    ASSUME SoftTypeOK, NEW u \in Users, NEW to, pc' = [pc EXCEPT ![u] = to]
    PROVE  pc'[u] = to /\ \A v \in Users \ {u} : pc'[v] = pc[v]
BY DEF SoftTypeOK, TypeOK

LEMMA ArgMoves ==
    ASSUME SoftTypeOK, NEW u \in Users, NEW t, arg' = [arg EXCEPT ![u] = t]
    PROVE  arg'[u] = t /\ \A v \in Users \ {u} : arg'[v] = arg[v]
BY DEF SoftTypeOK, TypeOK

LEMMA NoTimerType == NoTimer \in Timers
BY TimerAssumption DEF NoTimer

LEMMA StartRemoveStep ==
    ASSUME Own, IInv, Quiet, NEW u \in Users, NEW t \in Timers, StartRemove(u, t)
    PROVE  IInv'
<1>1. /\ pc[u] = "ready" /\ u \in UsedBy[t]
      /\ list' = Unlinked(list, t) /\ activated' = activated \ {t}
      /\ arg' = [arg EXCEPT ![u] = t] /\ pc' = [pc EXCEPT ![u] = "start_tick"]
      /\ due' = [due EXCEPT ![t] = 0] /\ earlier' = Forget(t)
      /\ solo' = Overlap(u, t) /\ stopped' = stopped \ {t}
      /\ UNCHANGED <<rt_tick, timeout_tick, checking, late>>
  BY DEF StartRemove, Runs, Goto
<1>2. SoftTypeOK /\ TypeOK /\ ListOK /\ TimesOK /\ CallsOK /\ LateOK /\ SleepOK
  BY DEF IInv, SoftTypeOK
<1>3. TakenOff(t)
  BY <1>1, <1>2, UnlinkedOff
<1>4. Listed' = Listed \ {t} /\ list' \in Seq(Timers) /\ Distinct(list')
  BY <1>3 DEF TakenOff, Listed
<1>5. /\ InOrder(list', due', earlier')
      /\ due' \in [Timers -> Int] /\ earlier' \in SUBSET (Timers \X Timers)
      /\ due'[t] = 0 /\ \A x \in Timers \ {t} : due'[x] = due[x]
      /\ list' # <<>> => list # <<>> /\ due[list[1]] <= due'[list'[1]]
  BY <1>2, <1>3, TakenOffKeeps
<1>6. /\ pc'[u] = "start_tick" /\ arg'[u] = t
      /\ \A v \in Users \ {u} : pc'[v] = pc[v] /\ arg'[v] = arg[v]
  BY <1>1, <1>2, Moves, ArgMoves
<1>7. TypeOK'
  BY <1>1, <1>2, <1>4, <1>5 DEF TypeOK, Overlap
<1>8. ListOK'
  BY <1>1, <1>2, <1>4, <1>5 DEF ListOK
<1>9. CallsOK'
  BY <1>1, <1>2, <1>4, <1>5, <1>6, Halves DEF CallsOK, Starting, Off
<1>10. TimesOK'
  <2> SUFFICES ASSUME NEW x \in Timers, SoftStarted(x)' PROVE Timed(x)'
    BY DEF TimesOK
  <2>1. at' = at /\ at # "restart"
    BY DEF Quiet, softVars, threadVars
  <2>2. x # t /\ SoftStarted(x)
    <3>1. CASE x \in Listed'
      BY <1>4, <3>1 DEF SoftStarted, Started
    <3>2. CASE \E v \in Users : pc'[v] = "start_insert" /\ arg'[v] = x
      <4>1. PICK v \in Users : pc'[v] = "start_insert" /\ arg'[v] = x
        BY <3>2
      <4>2. v # u /\ pc[v] = "start_insert" /\ arg[v] = x
        BY <1>6, <4>1
      <4>3. v \in UsedBy[x] /\ u \in UsedBy[t]
        BY <1>1, <1>2, <4>2 DEF CallsOK
      <4> QED BY <4>2, <4>3 DEF Own, SoftStarted, Started
    <3> QED BY <2>1, <3>1, <3>2 DEF SoftStarted, Started
  <2> QED BY <1>1, <1>2, <1>5, <2>2 DEF TimesOK, Timed
<1>11. LateOK'
  <2>1. soft' = soft /\ \A x \in Listed : x \in Timers
    BY <1>2, ListFacts DEF Quiet, softVars
  <2> QED BY <1>1, <1>2, <1>4, <1>5, <2>1 DEF LateOK
<1>12. SleepOK'
  <2>1. Resuming => Resuming'
    BY <1>1, <1>6 DEF Resuming
  <2> QED BY <1>4, <1>5, <2>1, QuietSleep
<1> QED BY <1>7, <1>8, <1>9, <1>10, <1>11, <1>12, QuietFiring, SoftTypesStay DEF IInv

LEMMA StartTickStep ==
    ASSUME Own, IInv, Quiet, NEW u \in Users, StartTick(u)
    PROVE  IInv'
<1> DEFINE t == arg[u]
<1>1. /\ pc[u] = "start_tick" /\ pc' = [pc EXCEPT ![u] = "start_insert"]
      /\ timeout_tick' = [timeout_tick EXCEPT ![t] = (rt_tick + InitTick[t]) % TickMod]
      /\ due' = [due EXCEPT ![t] = InitTick[t]]
      /\ UNCHANGED <<rt_tick, list, activated, checking, arg, late, earlier, solo, stopped>>
  BY DEF StartTick, Runs, Goto
<1>2. SoftTypeOK /\ TypeOK /\ ListOK /\ TimesOK /\ CallsOK /\ LateOK /\ SleepOK
  BY DEF IInv, SoftTypeOK
<1>3. t \in Timers /\ t \notin Listed /\ t \notin stopped /\ u \in UsedBy[t]
  BY <1>1, <1>2 DEF TypeOK, CallsOK, Off, Starting
<1>4. /\ pc'[u] = "start_insert" /\ \A v \in Users \ {u} : pc'[v] = pc[v]
  BY <1>1, <1>2, Moves
<1>5. /\ InitTick[t] \in Nat /\ InitTick[t] >= -MaxLate /\ InitTick[t] >= -(MaxLate+1)
      /\ TickMod \in Nat \ {0} /\ rt_tick + InitTick[t] \in Int
      /\ (rt_tick + InitTick[t]) % TickMod \in 0..TickMod-1
  <2>1. InitTick[t] \in Nat /\ MaxLate \in Nat /\ TickMod \in Nat \ {0} /\ rt_tick \in Int
    BY <1>2, <1>3, Halves DEF TypeOK
  <2>2. rt_tick + InitTick[t] \in Int
    BY <2>1
  <2>3. (rt_tick + InitTick[t]) % TickMod \in 0..TickMod-1
    BY <2>1, <2>2, ModRange
  <2>4. InitTick[t] >= -MaxLate /\ InitTick[t] >= -(MaxLate+1)
    BY <2>1
  <2> QED BY <2>1, <2>2, <2>3, <2>4
<1>6. /\ due' \in [Timers -> Int] /\ timeout_tick' \in [Timers -> 0..TickMod-1]
      /\ due'[t] = InitTick[t] /\ timeout_tick'[t] = (rt_tick + InitTick[t]) % TickMod
      /\ \A x \in Timers \ {t} : due'[x] = due[x] /\ timeout_tick'[x] = timeout_tick[x]
  BY <1>1, <1>2, <1>3, <1>5 DEF TypeOK
<1>7. Listed' = Listed /\ \A i \in DOMAIN list : due'[list[i]] = due[list[i]]
  <2>1. \A i \in DOMAIN list : list[i] \in Timers \ {t}
    BY <1>2, <1>3, ListFacts
  <2> QED BY <1>1, <1>6, <2>1 DEF Listed
<1> HIDE DEF t
<1>8. TypeOK'
  BY <1>1, <1>2, <1>6 DEF TypeOK
<1>9. ListOK'
  <2>1. InOrder(list', due', earlier')
    BY <1>1, <1>2, <1>7 DEF ListOK, InOrder
  <2> QED BY <1>1, <1>2, <1>7, <2>1 DEF ListOK
<1>10. CallsOK'
  <2> SUFFICES ASSUME NEW v \in Users
               PROVE  /\ pc'[v] # "ready" => v \in UsedBy[arg'[v]]
                      /\ Off(v)' => arg'[v] \notin Listed'
                      /\ Starting(v)' => arg'[v] \notin stopped'
                      /\ pc'[v] = "start_insert" => due'[arg'[v]] >= -MaxLate
    BY DEF CallsOK
  <2>1. CASE v = u
    BY <1>1, <1>3, <1>4, <1>5, <1>6, <1>7, <2>1 DEF t
  <2>2. CASE v # u
    <3>1. arg[v] \in Timers
      BY <1>2 DEF TypeOK
    <3>2. pc'[v] = pc[v] /\ arg'[v] = arg[v] /\ Listed' = Listed /\ stopped' = stopped
      BY <1>1, <1>4, <1>7, <2>2
    <3> QED BY <1>2, <1>5, <1>6, <3>1, <3>2 DEF CallsOK, Off, Starting
  <2> QED BY <2>1, <2>2
<1>11. TimesOK'
  <2> SUFFICES ASSUME NEW x \in Timers, SoftStarted(x)' PROVE Timed(x)'
    BY DEF TimesOK
  <2>1. at' = at /\ at # "restart"
    BY DEF Quiet, softVars, threadVars
  <2>2. CASE x = t
    <3>1. InitTick[x] \in -(MaxLate+1)..InitTick[x]
      BY <1>5, <2>2, Halves
    <3> QED BY <1>1, <1>5, <1>6, <2>2, <3>1 DEF Timed
  <2>3. CASE x # t
    <3>1. SoftStarted(x)
      BY <1>1, <1>4, <1>7, <2>1, <2>3 DEF SoftStarted, Started, t
    <3> QED BY <1>1, <1>2, <1>6, <2>3, <3>1 DEF TimesOK, Timed
  <2> QED BY <2>2, <2>3
<1>12. LateOK'
  <2>1. soft' = soft /\ \A x \in Listed : x \in Timers /\ x # t
    BY <1>2, <1>3, ListFacts DEF Quiet, softVars
  <2> QED BY <1>1, <1>2, <1>6, <1>7, <2>1 DEF LateOK
<1>13. SleepOK'
  <2>1. Resuming => Resuming'
    BY <1>1, <1>4 DEF Resuming
  <2>2. list # <<>> => due'[list[1]] = due[list[1]] /\ due[list[1]] \in Int
    <3>1. list # <<>> => list[1] \in Timers /\ 1 \in DOMAIN list
      BY <1>2, ListFacts
    <3> QED BY <1>2, <1>7, <3>1 DEF TypeOK
  <2>3. list' # <<>> => list # <<>> /\ due[list[1]] <= due'[list'[1]]
    BY <1>1, <2>2
  <2> QED BY <1>1, <1>2, <1>6, <2>1, <2>3, QuietSleep DEF TypeOK
<1> QED BY <1>8, <1>9, <1>10, <1>11, <1>12, <1>13, QuietFiring, SoftTypesStay DEF IInv

(* Steps that leave the list and the times alone. *)
LEMMA SameTimes ==
    ASSUME IInv, Quiet, UNCHANGED <<list, timeout_tick, due, earlier, late>>,
           Resuming => Resuming',
           \A v \in Users : pc'[v] = "start_insert" => pc[v] = "start_insert" /\ arg'[v] = arg[v]
    PROVE  TimesOK' /\ LateOK' /\ SleepOK' /\ Listed' = Listed
<1>1. SoftTypeOK /\ TypeOK /\ TimesOK /\ LateOK
  BY DEF IInv, SoftTypeOK
<1>2. UNCHANGED <<rt_tick, checking, at, soft, firing>> /\ at # "restart" /\ Listed' = Listed
  BY DEF Quiet, softVars, threadVars, localVars, Listed
<1>3. TimesOK'
  <2> SUFFICES ASSUME NEW x \in Timers, SoftStarted(x)' PROVE Timed(x)'
    BY DEF TimesOK
  <2>1. SoftStarted(x)
    BY <1>2 DEF SoftStarted, Started
  <2> QED BY <1>1, <1>2, <2>1 DEF TimesOK, Timed
<1>4. LateOK'
  BY <1>1, <1>2 DEF LateOK
<1>5. list' # <<>> => list # <<>> /\ due[list[1]] <= due'[list'[1]]
  <2>1. list # <<>> => list[1] \in Timers
    BY <1>1, ListFacts
  <2>2. list # <<>> => due[list[1]] \in Int
    BY <1>1, <2>1 DEF TypeOK
  <2> QED BY <2>2
<1>6. SleepOK'
  BY <1>1, <1>5, QuietSleep DEF TypeOK
<1> QED BY <1>2, <1>3, <1>4, <1>6

LEMMA StopRefusedStep ==
    ASSUME Own, IInv, Quiet, NEW u \in Users, NEW t \in Timers, StopRefused(u, t)
    PROVE  IInv'
<1>1. /\ pc[u] = "ready" /\ u \in UsedBy[t] /\ t \notin activated
      /\ stopped' = IF NoCall(Users \ {u}, t) THEN stopped \cup {t} ELSE stopped
      /\ UNCHANGED <<rt_tick, list, timeout_tick, activated, checking, pc, arg, due, late,
                     earlier, solo>>
  BY DEF StopRefused, Runs, timerVars, callVars
<1>2. SoftTypeOK /\ TypeOK /\ ListOK /\ CallsOK
  BY DEF IInv, SoftTypeOK
<1>3. TimesOK' /\ LateOK' /\ SleepOK' /\ Listed' = Listed
  BY <1>1, SameTimes DEF Resuming
<1>4. TypeOK'
  BY <1>1, <1>2 DEF TypeOK
<1>5. ListOK'
  BY <1>1, <1>2, <1>3 DEF ListOK
<1>6. \A v \in Users : Starting(v) => arg[v] \notin stopped'
  BY <1>1, <1>2 DEF CallsOK, Starting, NoCall
<1>7. CallsOK'
  BY <1>1, <1>2, <1>3, <1>6 DEF CallsOK, Starting, Off
<1> QED BY <1>3, <1>4, <1>5, <1>7, QuietFiring, SoftTypesStay DEF IInv

LEMMA StopCheckStep ==
    ASSUME Own, IInv, Quiet, NEW u \in Users, NEW t \in Timers, StopCheck(u, t)
    PROVE  IInv'
<1>1. /\ pc[u] = "ready" /\ u \in UsedBy[t]
      /\ arg' = [arg EXCEPT ![u] = t] /\ pc' = [pc EXCEPT ![u] = "stop_remove"]
      /\ solo' = Overlap(u, t) \cup (IF NoCall(Users \ {u}, t) THEN {u} ELSE {})
      /\ UNCHANGED <<rt_tick, list, timeout_tick, activated, checking, due, late, earlier,
                     stopped>>
  BY DEF StopCheck, Runs, Goto, timerVars
<1>2. SoftTypeOK /\ TypeOK /\ ListOK /\ CallsOK
  BY DEF IInv, SoftTypeOK
<1>3. /\ pc'[u] = "stop_remove" /\ arg'[u] = t
      /\ \A v \in Users \ {u} : pc'[v] = pc[v] /\ arg'[v] = arg[v]
  BY <1>1, <1>2, Moves, ArgMoves
<1>4. TimesOK' /\ LateOK' /\ SleepOK' /\ Listed' = Listed
  BY <1>1, <1>3, SameTimes DEF Resuming
<1>5. TypeOK'
  BY <1>1, <1>2 DEF TypeOK, Overlap
<1>6. ListOK'
  BY <1>1, <1>2, <1>4 DEF ListOK
<1>7. CallsOK'
  BY <1>1, <1>2, <1>3, <1>4 DEF CallsOK, Starting, Off
<1> QED BY <1>4, <1>5, <1>6, <1>7, QuietFiring, SoftTypesStay DEF IInv

LEMMA StopRemoveStep ==
    ASSUME Own, IInv, Quiet, NEW u \in Users, StopRemove(u)
    PROVE  IInv'
<1> DEFINE t == arg[u]
<1>1. /\ pc[u] = "stop_remove" /\ pc' = [pc EXCEPT ![u] = "stop_clear"]
      /\ list' = Unlinked(list, t)
      /\ due' = [due EXCEPT ![t] = 0] /\ earlier' = Forget(t)
      /\ UNCHANGED <<rt_tick, timeout_tick, activated, checking, arg, late, solo, stopped>>
  BY DEF StopRemove, Runs, Goto
<1>2. SoftTypeOK /\ TypeOK /\ ListOK /\ TimesOK /\ CallsOK /\ LateOK /\ SleepOK
  BY DEF IInv, SoftTypeOK
<1>3. t \in Timers /\ u \in UsedBy[t]
  BY <1>1, <1>2 DEF TypeOK, CallsOK
<1>4. pc'[u] = "stop_clear" /\ arg[u] = t /\ \A v \in Users \ {u} : pc'[v] = pc[v]
  BY <1>1, <1>2, Moves
<1> HIDE DEF t
<1>5. TakenOff(t)
  BY <1>1, <1>2, <1>3, UnlinkedOff
<1>6. Listed' = Listed \ {t} /\ list' \in Seq(Timers) /\ Distinct(list')
  BY <1>5 DEF TakenOff, Listed
<1>7. /\ InOrder(list', due', earlier')
      /\ due' \in [Timers -> Int] /\ earlier' \in SUBSET (Timers \X Timers)
      /\ due'[t] = 0 /\ \A x \in Timers \ {t} : due'[x] = due[x]
      /\ list' # <<>> => list # <<>> /\ due[list[1]] <= due'[list'[1]]
  BY <1>2, <1>3, <1>5, TakenOffKeeps
<1>8. TypeOK'
  BY <1>1, <1>2, <1>6, <1>7 DEF TypeOK
<1>9. ListOK'
  BY <1>1, <1>2, <1>6, <1>7 DEF ListOK
<1>10. CallsOK'
  <2> SUFFICES ASSUME NEW v \in Users
               PROVE  /\ pc'[v] # "ready" => v \in UsedBy[arg'[v]]
                      /\ Off(v)' => arg'[v] \notin Listed'
                      /\ Starting(v)' => arg'[v] \notin stopped'
                      /\ pc'[v] = "start_insert" => due'[arg'[v]] >= -MaxLate
    BY DEF CallsOK
  <2>1. CASE v = u
    BY <1>1, <1>3, <1>4, <1>6, <2>1 DEF Starting
  <2>2. CASE v # u
    <3>1. arg[v] \in Timers
      BY <1>2 DEF TypeOK
    <3>2. pc'[v] = pc[v] /\ arg'[v] = arg[v] /\ stopped' = stopped
      BY <1>1, <1>4, <2>2
    <3> QED BY <1>2, <1>6, <1>7, <3>1, <3>2, Halves DEF CallsOK, Off, Starting
  <2> QED BY <2>1, <2>2
<1>11. TimesOK'
  <2> SUFFICES ASSUME NEW x \in Timers, SoftStarted(x)' PROVE Timed(x)'
    BY DEF TimesOK
  <2>1. at' = at /\ at # "restart"
    BY DEF Quiet, softVars, threadVars
  <2>2. x # t /\ SoftStarted(x)
    <3>1. CASE x \in Listed'
      BY <1>6, <3>1 DEF SoftStarted, Started
    <3>2. CASE \E v \in Users : pc'[v] = "start_insert" /\ arg'[v] = x
      <4>1. PICK v \in Users : pc'[v] = "start_insert" /\ arg'[v] = x
        BY <3>2
      <4>2. v # u /\ pc[v] = "start_insert" /\ arg[v] = x
        BY <1>1, <1>4, <4>1
      <4>3. v \in UsedBy[x] /\ u \in UsedBy[t]
        BY <1>2, <1>3, <4>2 DEF CallsOK
      <4> QED BY <4>2, <4>3 DEF Own, SoftStarted, Started
    <3> QED BY <2>1, <3>1, <3>2 DEF SoftStarted, Started
  <2> QED BY <1>1, <1>2, <1>7, <2>2 DEF TimesOK, Timed
<1>12. LateOK'
  <2>1. soft' = soft /\ \A x \in Listed : x \in Timers
    BY <1>2, ListFacts DEF Quiet, softVars
  <2> QED BY <1>1, <1>2, <1>6, <1>7, <2>1 DEF LateOK
<1>13. SleepOK'
  <2>1. Resuming => Resuming'
    BY <1>1, <1>4 DEF Resuming
  <2> QED BY <1>6, <1>7, <2>1, QuietSleep
<1> QED BY <1>8, <1>9, <1>10, <1>11, <1>12, <1>13, QuietFiring, SoftTypesStay DEF IInv

LEMMA StopClearStep ==
    ASSUME Own, IInv, Quiet, NEW u \in Users, StopClear(u)
    PROVE  IInv'
<1> DEFINE t == arg[u]
<1>1. /\ pc[u] = "stop_clear" /\ pc' = [pc EXCEPT ![u] = "ready"]
      /\ arg' = [arg EXCEPT ![u] = NoTimer]
      /\ activated' = activated \ {t} /\ solo' = solo \ {u}
      /\ stopped' = IF u \in solo THEN stopped \cup {t} ELSE stopped
      /\ UNCHANGED <<rt_tick, list, timeout_tick, checking, due, late, earlier>>
  BY DEF StopClear, Runs, Goto, Return
<1>2. SoftTypeOK /\ TypeOK /\ ListOK /\ CallsOK
  BY DEF IInv, SoftTypeOK
<1>3. t \in Timers /\ u \in UsedBy[t] /\ t \notin Listed /\ NoTimer \in Timers
  BY <1>1, <1>2, NoTimerType DEF TypeOK, CallsOK, Off
<1>4. pc'[u] = "ready" /\ \A v \in Users \ {u} : pc'[v] = pc[v] /\ arg'[v] = arg[v]
  BY <1>1, <1>2, Moves, ArgMoves
<1> HIDE DEF t
<1>5. TimesOK' /\ LateOK' /\ SleepOK' /\ Listed' = Listed
  BY <1>1, <1>4, SameTimes DEF Resuming
<1>6. TypeOK'
  BY <1>1, <1>2, <1>3 DEF TypeOK
<1>7. ListOK'
  BY <1>1, <1>2, <1>3, <1>5 DEF ListOK
<1>8. \A v \in Users \ {u} : Starting(v) => arg[v] # t
  BY <1>2, <1>3 DEF CallsOK, Starting, Own
<1>9. CallsOK'
  BY <1>1, <1>2, <1>4, <1>5, <1>8 DEF CallsOK, Starting, Off
<1> QED BY <1>5, <1>6, <1>7, <1>9, QuietFiring, SoftTypesStay DEF IInv

(* The end of rt_timer_start, of a hard or a soft timer. *)
LEMMA InsertStep ==
    ASSUME Own, IInv, Quiet, NEW u \in Users, Insert(u),
           NEW to \in {"ready", "start_resume"}, NEW a \in Timers,
           pc' = [pc EXCEPT ![u] = to], arg' = [arg EXCEPT ![u] = a],
           to = "start_resume" => a = arg[u], soft => to = "start_resume",
           late' \in SUBSET Timers,
           ~soft => late' = IF due[arg[u]] <= 0 THEN late \cup {arg[u]} ELSE late \ {arg[u]}
    PROVE  IInv'
<1> DEFINE t == arg[u]
<1>1. /\ pc[u] = "start_insert" /\ list' = Inserted(list, t, timeout_tick[t])
      /\ activated' = activated \cup {t} /\ earlier' = InsertedAfter(t, list)
      /\ UNCHANGED <<rt_tick, timeout_tick, checking, due, solo, stopped>>
      /\ to = "start_resume" => a = t
  BY DEF Insert, Runs
<1>2. SoftTypeOK /\ TypeOK /\ ListOK /\ TimesOK /\ CallsOK /\ LateOK /\ SleepOK
  BY DEF IInv, SoftTypeOK
<1>3. /\ t \in Timers /\ t \notin Listed /\ t \notin stopped /\ u \in UsedBy[t]
      /\ due[t] >= -MaxLate /\ arg[u] = t /\ t \in Timers \ Listed
  BY <1>1, <1>2 DEF TypeOK, CallsOK, Off, Starting
<1>4. /\ pc'[u] = to /\ arg'[u] = a
      /\ \A v \in Users \ {u} : pc'[v] = pc[v] /\ arg'[v] = arg[v]
  BY <1>2, Moves, ArgMoves
<1>5. late' = late \cup {t} \/ late' = late \ {t} \/ soft
  OBVIOUS
<1>6. ~soft => due[t] > 0 \/ t \in late'
  <2>1. due[t] \in Int
    BY <1>2, <1>3 DEF TypeOK
  <2> QED BY <2>1
<1> HIDE DEF t
<1>7. Timed(t)
  BY <1>1, <1>2, <1>3 DEF TimesOK, SoftStarted, Started
<1>8. PutIn(t) /\ earlier' \in SUBSET (Timers \X Timers)
  BY <1>1, <1>2, <1>3, <1>7, InsertedIn
<1>9. /\ list' \in Seq(Timers) /\ Distinct(list') /\ Listed' = Listed \cup {t}
      /\ InOrder(list', due', earlier')
  BY <1>8 DEF PutIn, Listed
<1>10. TypeOK'
  BY <1>1, <1>2, <1>3, <1>8, <1>9 DEF TypeOK
<1>11. ListOK'
  BY <1>1, <1>2, <1>3, <1>9 DEF ListOK
<1>12. CallsOK'
  <2> SUFFICES ASSUME NEW v \in Users
               PROVE  /\ pc'[v] # "ready" => v \in UsedBy[arg'[v]]
                      /\ Off(v)' => arg'[v] \notin Listed'
                      /\ Starting(v)' => arg'[v] \notin stopped'
                      /\ pc'[v] = "start_insert" => due'[arg'[v]] >= -MaxLate
    BY DEF CallsOK
  <2>1. CASE v = u
    BY <1>1, <1>3, <1>4, <2>1 DEF Off, Starting
  <2>2. CASE v # u
    <3>1. pc'[v] = pc[v] /\ arg'[v] = arg[v] /\ stopped' = stopped /\ due' = due
      BY <1>1, <1>4, <2>2
    <3>2. Off(v) => arg[v] # t
      BY <1>2, <1>3, <2>2 DEF CallsOK, Off, Starting, Own
    <3> QED BY <1>2, <1>9, <3>1, <3>2 DEF CallsOK, Off, Starting
  <2> QED BY <2>1, <2>2
<1>13. TimesOK'
  <2> SUFFICES ASSUME NEW x \in Timers, SoftStarted(x)' PROVE Timed(x)'
    BY DEF TimesOK
  <2>1. at' = at /\ at # "restart"
    BY DEF Quiet, softVars, threadVars
  <2>2. Timed(x)
    <3>1. CASE x = t
      BY <1>7, <3>1
    <3>2. CASE x # t
      <4>1. SoftStarted(x)
        BY <1>4, <1>9, <2>1, <3>2 DEF SoftStarted, Started
      <4> QED BY <1>2, <4>1 DEF TimesOK
    <3> QED BY <3>1, <3>2
  <2> QED BY <1>1, <2>2 DEF Timed
<1>14. LateOK'
  <2>1. soft' = soft
    BY DEF Quiet, softVars
  <2> QED BY <1>1, <1>2, <1>5, <1>6, <1>9, <2>1 DEF LateOK
<1>15. SleepOK'
  <2>1. CASE soft
    <3>1. Resuming'
      BY <1>4, <2>1 DEF Resuming
    <3> QED BY <1>1, <1>2, <1>9, <3>1, QuietSleep DEF TypeOK
  <2>2. CASE ~soft
    <3>1. at' = "next"
      BY <2>2 DEF IInv, FiringOK, Quiet, softVars, threadVars
    <3> QED BY <3>1 DEF SleepOK
  <2> QED BY <2>1, <2>2
<1> QED BY <1>10, <1>11, <1>12, <1>13, <1>14, <1>15, QuietFiring, SoftTypesStay DEF IInv

LEMMA StartInsertStep ==
    ASSUME Own, IInv, Quiet, NEW u \in Users, StartInsert(u), ~soft
    PROVE  IInv'
<1>1. /\ Insert(u) /\ pc' = [pc EXCEPT ![u] = "ready"] /\ arg' = [arg EXCEPT ![u] = NoTimer]
      /\ late' = IF due[arg[u]] <= 0 THEN late \cup {arg[u]} ELSE late \ {arg[u]}
  BY DEF StartInsert, Return, Goto
<1>2. late \in SUBSET Timers /\ arg[u] \in Timers
  BY DEF IInv, SoftTypeOK, TypeOK
<1>3. late' \in SUBSET Timers
  BY <1>1, <1>2
<1> QED BY <1>1, <1>3, NoTimerType, InsertStep

LEMMA SoftInsertStep ==
    ASSUME Own, IInv, Quiet, NEW u \in Users, SoftInsert(u), soft
    PROVE  IInv'
<1>1. Insert(u) /\ pc' = [pc EXCEPT ![u] = "start_resume"] /\ arg' = arg /\ late' = late
  BY DEF SoftInsert, Goto
<1>2. late \in SUBSET Timers /\ arg[u] \in Timers /\ arg = [arg EXCEPT ![u] = arg[u]]
  BY DEF IInv, SoftTypeOK, TypeOK
<1>3. arg' = [arg EXCEPT ![u] = arg[u]] /\ late' \in SUBSET Timers
  BY <1>1, <1>2
<1> QED BY <1>1, <1>2, <1>3, InsertStep

-----------------------------------------------------------------------------
(* SysTick, for hard timers *)

(* A step of a program with hard timers only. *)
HardStep == ~soft /\ UNCHANGED softVars

LEMMA HardRest ==
    ASSUME IInv, HardStep PROVE FiringOK' /\ SleepOK' /\ (TypeOK' => SoftTypeOK')
<1>1. UNCHANGED softVars /\ ~soft /\ at = "next"
  BY DEF HardStep, IInv, FiringOK
<1>2. UNCHANGED <<soft, at, next_timeout, current_tick, n, firing, lag, collided>>
  BY <1>1 DEF softVars, threadVars, localVars
<1>3. FiringOK'
  BY <1>1, <1>2 DEF FiringOK
<1>4. SleepOK'
  BY <1>1, <1>2 DEF SleepOK
<1>5. TypeOK' => SoftTypeOK'
  BY <1>2 DEF IInv, SoftTypeOK
<1> QED BY <1>3, <1>4, <1>5

(* A tick brings each timeout that runs one tick nearer. *)
LEMMA TimedLater ==
    ASSUME SoftTypeOK, NEW x \in Timers, Timed(x), ~checking,
           rt_tick' = (rt_tick + 1) % TickMod, timeout_tick' = timeout_tick,
           due'[x] = due[x] - 1, checking' \/ due[x] > -MaxLate
    PROVE  Timed(x)'
<1>1. /\ rt_tick \in 0..TickMod-1 /\ due[x] \in Int /\ MaxLate \in Nat
      /\ InitTick[x] \in Nat /\ TickMod \in Nat \ {0}
  BY Halves DEF SoftTypeOK, TypeOK
<1>2. (rt_tick' + due'[x]) % TickMod = (rt_tick + due[x]) % TickMod
  BY <1>1, TickLater
<1>3. due[x] >= -MaxLate /\ due[x] <= InitTick[x]
  BY <1>1 DEF Timed
<1>4. due'[x] \in -(MaxLate+1)..InitTick[x] /\ (~checking' => due'[x] >= -MaxLate)
  BY <1>1, <1>3
<1>5. timeout_tick'[x] = (rt_tick' + due'[x]) % TickMod
  BY <1>2 DEF Timed
<1> QED BY <1>4, <1>5 DEF Timed

LEMMA OrderLater ==
    ASSUME NEW s \in Seq(Timers), NEW d \in [Timers -> Int], NEW d2 \in [Timers -> Int],
           NEW before, InOrder(s, d, before), \A i \in DOMAIN s : d2[s[i]] = d[s[i]] - 1
    PROVE  InOrder(s, d2, before)
<1> SUFFICES ASSUME NEW i \in DOMAIN s, NEW j \in DOMAIN s, i < j
             PROVE  \/ d2[s[i]] < d2[s[j]]
                    \/ d2[s[i]] = d2[s[j]] /\ <<s[i], s[j]>> \in before
  BY DEF InOrder
<1>1. s[i] \in Timers /\ s[j] \in Timers /\ d[s[i]] \in Int /\ d[s[j]] \in Int
  OBVIOUS
<1>2. \/ d[s[i]] < d[s[j]]
      \/ d[s[i]] = d[s[j]] /\ <<s[i], s[j]>> \in before
  BY DEF InOrder
<1>3. d2[s[i]] = d[s[i]] - 1 /\ d2[s[j]] = d[s[j]] - 1
  OBVIOUS
<1> QED BY <1>1, <1>2, <1>3

LEMMA TickStep ==
    ASSUME IInv, HardStep, Tick PROVE IInv'
<1>1. /\ ~checking /\ rt_tick' = (rt_tick + 1) % TickMod /\ checking' = TRUE
      /\ \A u \in Users : pc[u] = "start_insert" => due[arg[u]] > -MaxLate
      /\ due' = [x \in Timers |-> IF Started(x) THEN due[x] - 1 ELSE due[x]]
      /\ UNCHANGED <<list, timeout_tick, activated, pc, arg, late, earlier, solo, stopped>>
  BY DEF Tick, timerVars, callVars
<1>2. SoftTypeOK /\ TypeOK /\ ListOK /\ TimesOK /\ CallsOK
  BY DEF IInv, SoftTypeOK
<1>3. at = "next" /\ UNCHANGED <<soft, at, firing>> /\ Listed' = Listed
  BY <1>1 DEF HardStep, IInv, FiringOK, softVars, threadVars, localVars, Listed
<1>4. due' \in [Timers -> Int] /\ due \in [Timers -> Int]
  BY <1>1, <1>2 DEF TypeOK
<1>5. \A x \in Timers : SoftStarted(x) => due'[x] = due[x] - 1
  BY <1>1, <1>3 DEF SoftStarted
<1>6. rt_tick' \in 0..TickMod-1
  <2>1. rt_tick + 1 \in Int /\ TickMod \in Nat \ {0}
    BY <1>2, Halves DEF TypeOK
  <2> QED BY <1>1, <2>1, ModRange
<1>7. TypeOK'
  BY <1>1, <1>2, <1>4, <1>6 DEF TypeOK
<1>8. ListOK'
  <2>1. list \in Seq(Timers) /\ \A i \in DOMAIN list : due'[list[i]] = due[list[i]] - 1
    BY <1>2, <1>5, ListFacts DEF SoftStarted, Started
  <2>2. PICK d2 \in [Timers -> Int] : d2 = due'
    BY <1>4
  <2>3. InOrder(list, d2, earlier)
    BY <1>2, <1>4, <2>1, <2>2, OrderLater DEF ListOK
  <2> QED BY <1>1, <1>2, <1>3, <2>2, <2>3 DEF ListOK
<1>9. TimesOK'
  <2> SUFFICES ASSUME NEW x \in Timers, SoftStarted(x)' PROVE Timed(x)'
    BY DEF TimesOK
  <2>1. SoftStarted(x)
    BY <1>1, <1>3 DEF SoftStarted, Started
  <2> QED BY <1>1, <1>2, <1>5, <2>1, TimedLater DEF TimesOK
<1>10. CallsOK'
  <2>1. \A u \in Users : pc[u] = "start_insert" => due'[arg[u]] >= -MaxLate
    <3> SUFFICES ASSUME NEW u \in Users, pc[u] = "start_insert"
                 PROVE  due'[arg[u]] >= -MaxLate
      OBVIOUS
    <3>1. arg[u] \in Timers /\ SoftStarted(arg[u])
      BY <1>2 DEF TypeOK, SoftStarted, Started
    <3>2. due'[arg[u]] = due[arg[u]] - 1 /\ due[arg[u]] > -MaxLate /\ due[arg[u]] \in Int
      BY <1>1, <1>4, <1>5, <3>1
    <3> QED BY <3>2, Halves
  <2> QED BY <1>1, <1>2, <1>3, <2>1 DEF CallsOK, Off, Starting
<1>11. LateOK'
  BY <1>1 DEF LateOK
<1> QED BY <1>7, <1>8, <1>9, <1>10, <1>11, HardRest DEF IInv

LEMMA CheckReturnStep ==
    ASSUME IInv, HardStep, CheckReturn PROVE IInv'
<1>1. /\ checking /\ checking' = FALSE /\ late' = {}
      /\ list # <<>> => ~Expired(Head(list))
      /\ UNCHANGED <<rt_tick, list, timeout_tick, activated, pc, arg, due, earlier, solo, stopped>>
  BY DEF CheckReturn, timerVars, callVars
<1>2. SoftTypeOK /\ TypeOK /\ ListOK /\ TimesOK /\ CallsOK
  BY DEF IInv, SoftTypeOK
<1>3. at = "next" /\ UNCHANGED <<soft, at, firing>> /\ Listed' = Listed
  BY <1>1 DEF HardStep, IInv, FiringOK, softVars, threadVars, localVars, Listed
<1>4. list # <<>> => due[list[1]] > 0
  <2> SUFFICES ASSUME list # <<>> PROVE due[list[1]] > 0
    OBVIOUS
  <2> DEFINE h == list[1]
  <2>1. h \in Timers /\ Timed(h) /\ ~Expired(h) /\ due[h] \in Int
    BY <1>1, <1>2, ListFacts DEF TimesOK, SoftStarted, Started, TypeOK
  <2> HIDE DEF h
  <2>2. due[h] \in -(MaxLate+1)..InitTick[h] /\ timeout_tick[h] = (rt_tick + due[h]) % TickMod
    BY <2>1 DEF Timed
  <2>3. ~(due[h] <= 0)
    BY <1>2, <2>1, <2>2, ExpiredTick DEF Expired, TypeOK
  <2> QED BY <2>1, <2>3 DEF h
<1>5. \A x \in Listed : due[x] > 0
  <2> SUFFICES ASSUME NEW i \in DOMAIN list PROVE due[list[i]] > 0
    BY DEF Listed, Elements
  <2>1. list # <<>> /\ i \in 1..Len(list) /\ 1 \in 1..Len(list) /\ list[i] \in Timers /\ list[1] \in Timers
    BY <1>2, ListFacts
  <2>2. due[list[1]] <= due[list[i]]
    BY <1>2, <2>1, InOrderGrows DEF ListOK, TypeOK
  <2>3. due[list[1]] \in Int /\ due[list[i]] \in Int
    BY <1>2, <2>1 DEF TypeOK
  <2> QED BY <1>4, <2>1, <2>2, <2>3
<1>6. TypeOK'
  BY <1>1, <1>2 DEF TypeOK
<1>7. ListOK'
  BY <1>1, <1>2, <1>3 DEF ListOK
<1>8. CallsOK'
  BY <1>1, <1>2, <1>3 DEF CallsOK, Off, Starting
<1>9. LateOK'
  BY <1>1, <1>3, <1>5 DEF LateOK
<1>10. TimesOK'
  <2> SUFFICES ASSUME NEW x \in Timers, SoftStarted(x)' PROVE Timed(x)'
    BY DEF TimesOK
  <2>1. SoftStarted(x)
    BY <1>1, <1>3 DEF SoftStarted, Started
  <2>2. Timed(x) /\ due[x] \in Int
    BY <1>2, <2>1 DEF TimesOK, TypeOK
  <2>3. due[x] >= -MaxLate
    <3>1. x \in Listed \/ \E u \in Users : pc[u] = "start_insert" /\ arg[u] = x
      BY <1>3, <2>1 DEF SoftStarted, Started
    <3>2. CASE x \in Listed
      BY <1>5, <2>2, <3>2, Halves
    <3> QED BY <1>2, <3>1, <3>2 DEF CallsOK
  <2> QED BY <1>1, <2>2, <2>3 DEF Timed
<1> QED BY <1>6, <1>7, <1>8, <1>9, <1>10, HardRest DEF IInv

(* The list without its first timer t, for which another time is noted in d2. *)
RestSound(t, d2) ==
    /\ t \in Listed /\ Tail(list) \in Seq(Timers) /\ Distinct(Tail(list))
    /\ Elements(Tail(list)) = Listed \ {t} /\ Thinner(Tail(list), list)
    /\ d2 \in [Timers -> Int] /\ \A x \in Timers \ {t} : d2[x] = due[x]
    /\ InOrder(Tail(list), d2, Forget(t))

LEMMA RestOrder ==
    ASSUME SoftTypeOK, ListOK, list # <<>>, NEW t, t = list[1], NEW e \in Int, NEW d2,
           d2 = [due EXCEPT ![t] = e]
    PROVE  RestSound(t, d2) /\ d2[t] = e
<1> DEFINE rest == Tail(list)
<1>1. list \in Seq(Timers) /\ Distinct(list) /\ Head(list) = t /\ due \in [Timers -> Int]
  BY ListFacts DEF ListOK, SoftTypeOK, TypeOK
<1>2. /\ rest \in Seq(Timers) /\ t \in Timers /\ Elements(rest) = Listed \ {t}
      /\ t \in Listed /\ Distinct(rest)
  BY <1>1, TailList DEF Listed
<1>3. Thinner(rest, list)
  BY <1>1, TailThinner
<1> HIDE DEF rest
<1>4. d2 \in [Timers -> Int] /\ d2[t] = e /\ \A x \in Timers \ {t} : d2[x] = due[x]
  BY <1>1, <1>2
<1>5. \A i \in DOMAIN rest : rest[i] \in Timers \ {t}
  <2>1. \A i \in DOMAIN rest : rest[i] \in Elements(rest)
    BY DEF Elements
  <2> QED BY <1>2, <2>1, ListFacts
<1>6. \A i \in DOMAIN rest : d2[rest[i]] = due[rest[i]]
  BY <1>4, <1>5
<1>7. \A i, j \in DOMAIN rest : <<rest[i], rest[j]>> \in earlier => <<rest[i], rest[j]>> \in Forget(t)
  BY <1>5 DEF Forget
<1>8. InOrder(rest, d2, Forget(t))
  <2>1. InOrder(list, due, earlier)
    BY DEF ListOK
  <2> QED BY <1>3, <1>6, <1>7, <2>1, ThinnerOrder
<1> QED BY <1>2, <1>3, <1>4, <1>8 DEF rest, RestSound

(* What the firing of the first timer, of which e is noted, leaves as it was. *)
LEMMA FireRest ==
    ASSUME IInv, HardStep, checking, list # <<>>, NEW t, t = list[1], NEW e \in Nat,
           due' = [due EXCEPT ![t] = e], Listed' \subseteq Listed,
           UNCHANGED <<rt_tick, checking, callVars>>, stopped' \subseteq Timers,
           NoCall(Users, t) \/ stopped' = stopped,
           stopped' \subseteq stopped \cup {t},
           \A x \in Timers \ {t} : timeout_tick'[x] = timeout_tick[x],
           t \in Listed' => Timed(t)'
    PROVE  CallsOK' /\ TimesOK' /\ LateOK'
<1>1. SoftTypeOK /\ TypeOK /\ ListOK /\ TimesOK /\ CallsOK
  BY DEF IInv, SoftTypeOK
<1>2. at = "next" /\ UNCHANGED <<soft, at, firing>> /\ pc' = pc /\ arg' = arg
  BY DEF HardStep, IInv, FiringOK, softVars, threadVars, localVars, callVars
<1>3. t \in Listed /\ t \in Timers
  BY <1>1, ListFacts
<1>4. due' \in [Timers -> Int] /\ due'[t] = e /\ \A x \in Timers \ {t} : due'[x] = due[x]
  BY <1>1, <1>3 DEF TypeOK
<1>5. \A u \in Users : Off(u) => arg[u] # t
  BY <1>1, <1>3 DEF CallsOK
<1>6. CallsOK'
  <2> SUFFICES ASSUME NEW v \in Users
               PROVE  /\ pc[v] # "ready" => v \in UsedBy[arg[v]]
                      /\ Off(v) => arg[v] \notin Listed'
                      /\ Starting(v) => arg[v] \notin stopped'
                      /\ pc[v] = "start_insert" => due'[arg[v]] >= -MaxLate
    BY <1>2 DEF CallsOK, Off, Starting
  <2>1. arg[v] \in Timers
    BY <1>1 DEF TypeOK
  <2>2. Starting(v) => arg[v] # t
    BY <1>5 DEF Off
  <2>3. pc[v] = "start_insert" => Starting(v)
    BY DEF Starting
  <2> QED BY <1>1, <1>4, <2>1, <2>2, <2>3 DEF CallsOK
<1>7. TimesOK'
  <2> SUFFICES ASSUME NEW x \in Timers, SoftStarted(x)' PROVE Timed(x)'
    BY DEF TimesOK
  <2>1. x \in Listed' \/ \E u \in Users : pc[u] = "start_insert" /\ arg[u] = x
    BY <1>2 DEF SoftStarted, Started
  <2>2. CASE x = t
    <3>2. \A u \in Users : pc[u] = "start_insert" => Off(u)
      BY DEF Off, Starting
    <3>1. x \in Listed'
      BY <1>5, <2>1, <2>2, <3>2
    <3> QED BY <2>2, <3>1
  <2>3. CASE x # t
    <3>1. SoftStarted(x)
      BY <2>1 DEF SoftStarted, Started
    <3>2. timeout_tick'[x] = timeout_tick[x] /\ due'[x] = due[x]
      BY <1>4, <2>3
    <3> QED BY <1>1, <3>1, <3>2 DEF TimesOK, Timed
  <2> QED BY <2>2, <2>3
<1>8. LateOK'
  BY DEF LateOK
<1> QED BY <1>6, <1>7, <1>8

LEMMA FireStep ==
    ASSUME IInv, HardStep, NEW stops \in BOOLEAN, Fire(stops) PROVE IInv'
<1> PICK t : t = list[1]
  OBVIOUS
<1> DEFINE rest == Tail(list)
           tick == (rt_tick + InitTick[t]) % TickMod
<1>1. SoftTypeOK /\ TypeOK /\ ListOK /\ TimesOK /\ CallsOK
  BY DEF IInv, SoftTypeOK
<1>2. /\ checking /\ list # <<>> /\ Head(list) = t /\ t \in Timers /\ t \in Listed
      /\ stopped' = IF stops /\ NoCall(Users, t) THEN stopped \cup {t} ELSE stopped
      /\ UNCHANGED <<rt_tick, checking, callVars, solo>>
  BY <1>1, ListFacts DEF Fire
<1>3. stopped' \subseteq Timers /\ stopped' \subseteq stopped \cup {t}
      /\ (NoCall(Users, t) \/ stopped' = stopped) /\ stopped \cap Listed = {}
  BY <1>1, <1>2 DEF TypeOK, ListOK
<1>4. CASE t \in Periodic /\ t \in activated /\ ~stops
  <2> DEFINE e == InitTick[t]
  <2>1. /\ timeout_tick' = [timeout_tick EXCEPT ![t] = tick]
        /\ list' = Inserted(rest, t, tick)
        /\ due' = [due EXCEPT ![t] = e]
        /\ late' = late \ {t}
        /\ earlier' = InsertedAfter(t, rest)
        /\ activated' = activated /\ stopped' = stopped
    BY <1>2, <1>4 DEF Fire
  <2>2. /\ e \in Nat /\ e \in Int /\ rt_tick + e \in Int /\ TickMod \in Nat \ {0}
        /\ rt_tick \in 0..TickMod-1
        /\ e >= -MaxLate /\ e >= -(MaxLate+1) /\ e + MaxLate < Half
    <3>1. e \in Nat /\ MaxLate \in Nat /\ TickMod \in Nat \ {0} /\ e + MaxLate < Half
          /\ rt_tick \in 0..TickMod-1
      BY <1>1, <1>2, Halves DEF TypeOK
    <3> HIDE DEF e
    <3>2. rt_tick + e \in Int /\ e >= -MaxLate /\ e >= -(MaxLate+1)
      BY <3>1
    <3> QED BY <3>1, <3>2
  <2>3. tick = (rt_tick + e) % TickMod
    OBVIOUS
  <2> HIDE DEF e, tick
  <2>4. tick \in 0..TickMod-1
    BY <2>2, <2>3, ModRange
  <2>5. /\ rest \in Seq(Timers) /\ Distinct(rest) /\ Elements(rest) = Listed \ {t}
        /\ due' \in [Timers -> Int] /\ due'[t] = e
        /\ \A x \in Timers \ {t} : due'[x] = due[x]
        /\ InOrder(rest, due', Forget(t))
    <3>1. PICK d2 : d2 = [due EXCEPT ![t] = e]
      OBVIOUS
    <3>2. RestSound(t, d2) /\ d2[t] = e
      BY <1>1, <1>2, <2>2, <3>1, RestOrder
    <3> QED BY <2>1, <3>1, <3>2 DEF RestSound
  <2>6. /\ timeout_tick' \in [Timers -> 0..TickMod-1] /\ timeout_tick'[t] = tick
        /\ \A x \in Timers \ {t} : timeout_tick'[x] = timeout_tick[x]
    BY <1>1, <1>2, <2>1, <2>4 DEF TypeOK
  <2> HIDE DEF rest
  <2>7. \A i \in DOMAIN rest : rest[i] \in Listed \ {t} /\ rest[i] \in Timers \ {t}
    <3>1. \A i \in DOMAIN rest : rest[i] \in Elements(rest)
      BY DEF Elements
    <3> QED BY <1>1, <2>5, <3>1, ListFacts
  <2>8. Timely(rest, due', rt_tick)
    <3> SUFFICES ASSUME NEW i \in DOMAIN rest
                 PROVE  /\ timeout_tick[rest[i]] = (rt_tick + due'[rest[i]]) % TickMod
                        /\ due'[rest[i]] \in -(MaxLate+1)..InitTick[rest[i]]
      BY DEF Timely
    <3>1. Timed(rest[i]) /\ due'[rest[i]] = due[rest[i]]
      BY <1>1, <2>5, <2>7 DEF TimesOK, SoftStarted, Started
    <3> QED BY <3>1 DEF Timed
  <2>9. /\ \A i, j \in DOMAIN rest :
               <<rest[i], rest[j]>> \in Forget(t) => <<rest[i], rest[j]>> \in earlier'
        /\ \A i \in DOMAIN rest : <<rest[i], t>> \in earlier'
    BY <2>1 DEF InsertedAfter, Elements
  <2>10. earlier' \in SUBSET (Timers \X Timers)
    BY <1>1, <1>2, <2>1, <2>5, ListFacts DEF InsertedAfter, Forget, TypeOK
  <2>11. /\ list' \in Seq(Timers) /\ Distinct(list') /\ Listed' = Listed
         /\ InOrder(list', due', earlier')
    <3>0. PICK b2 : b2 = earlier'
      OBVIOUS
    <3>1. PICK d2 \in [Timers -> Int] : d2 = due'
      BY <2>5
    <3>2. /\ InOrder(rest, d2, Forget(t)) /\ Timely(rest, d2, rt_tick) /\ d2[t] = e
          /\ t \in Timers \ Elements(rest)
          /\ d2[t] >= -MaxLate /\ d2[t] + MaxLate < Half
      BY <1>2, <2>2, <2>5, <2>8, <3>1
    <3>3. /\ \A i, j \in DOMAIN rest :
               <<rest[i], rest[j]>> \in Forget(t) => <<rest[i], rest[j]>> \in b2
          /\ \A i \in DOMAIN rest : <<rest[i], t>> \in b2
      BY <2>9, <3>0, <3>1
    <3> DEFINE r == Inserted(rest, t, (rt_tick + d2[t]) % TickMod)
    <3>4. /\ r \in Seq(Timers) /\ Distinct(r) /\ Elements(r) = Elements(rest) \cup {t}
          /\ InOrder(r, d2, b2)
      <4>1. rest \in Seq(Timers) /\ Distinct(rest) /\ rt_tick \in 0..TickMod-1
        BY <2>2, <2>5
      <4> QED BY <3>2, <3>3, <4>1, InsertedList
    <3>5. list' = r
      BY <2>1, <2>3, <3>2
    <3> HIDE DEF r
    <3> QED BY <1>2, <2>5, <3>0, <3>1, <3>4, <3>5 DEF Listed
  <2>12. Timed(t)'
    <3>1. rt_tick' = rt_tick
      BY <1>2
    <3>2. due'[t] \in -(MaxLate+1)..InitTick[t]
      <4>1. -(MaxLate+1) \in Int /\ e \in -(MaxLate+1)..e
        BY <2>2, Halves
      <4> QED BY <2>5, <4>1 DEF e
    <3> QED BY <2>2, <2>3, <2>5, <2>6, <3>1, <3>2 DEF Timed
  <2>13. CallsOK' /\ TimesOK' /\ LateOK'
    BY <1>2, <1>3, <2>1, <2>2, <2>6, <2>11, <2>12, FireRest
  <2>14. TypeOK'
    BY <1>1, <1>2, <2>1, <2>5, <2>6, <2>10, <2>11 DEF TypeOK, callVars
  <2>15. ListOK'
    BY <1>1, <2>1, <2>11 DEF ListOK
  <2> QED BY <2>13, <2>14, <2>15, HardRest DEF IInv
<1>5. CASE ~(t \in Periodic /\ t \in activated /\ ~stops)
  <2>1. /\ list' = rest /\ activated' = activated \ {t}
        /\ due' = [due EXCEPT ![t] = 0] /\ earlier' = Forget(t)
        /\ timeout_tick' = timeout_tick /\ late' = late
    BY <1>2, <1>5 DEF Fire
  <2>2. /\ rest \in Seq(Timers) /\ Distinct(rest) /\ Elements(rest) = Listed \ {t}
        /\ due' \in [Timers -> Int]
        /\ InOrder(rest, due', Forget(t))
    <3>3. PICK e \in Int : e = 0
      OBVIOUS
    <3>1. PICK d2 : d2 = [due EXCEPT ![t] = e]
      OBVIOUS
    <3>2. RestSound(t, d2) /\ d2[t] = e
      BY <1>1, <1>2, <3>1, RestOrder
    <3> QED BY <2>1, <3>1, <3>2, <3>3 DEF RestSound
  <2>3. Listed' = Listed \ {t}
    BY <2>1, <2>2 DEF Listed
  <2> HIDE DEF rest
  <2>4. CallsOK' /\ TimesOK' /\ LateOK'
    BY <1>2, <1>3, <2>1, <2>3, FireRest
  <2>5. TypeOK'
    BY <1>1, <1>2, <1>3, <2>1, <2>2 DEF TypeOK, callVars, Forget
  <2>6. ListOK'
    BY <1>1, <1>2, <1>3, <2>1, <2>2, <2>3 DEF ListOK
  <2> QED BY <2>4, <2>5, <2>6, HardRest DEF IInv
<1> QED BY <1>4, <1>5

-----------------------------------------------------------------------------
(* The timer thread *)

(* Steps of the timer thread that leave the list and the timers alone. *)
LEMMA SameTimers ==
    ASSUME IInv, soft, soft' = soft, UNCHANGED vars, at' # "restart"
    PROVE  /\ TypeOK' /\ ListOK' /\ TimesOK' /\ CallsOK' /\ LateOK' /\ Listed' = Listed
           /\ ~checking'
<1>1. SoftTypeOK /\ TypeOK /\ ListOK /\ TimesOK /\ CallsOK /\ ~checking
  BY DEF IInv, SoftTypeOK, FiringOK
<1>2. UNCHANGED <<rt_tick, list, timeout_tick, activated, checking, pc, arg, due, late, earlier,
                  solo, stopped>>
  BY DEF vars, timerVars, callVars, histVars
<1>3. Listed' = Listed
  BY <1>2 DEF Listed
<1>4. TimesOK'
  <2> SUFFICES ASSUME NEW x \in Timers, SoftStarted(x)' PROVE Timed(x)'
    BY DEF TimesOK
  <2>1. SoftStarted(x)
    BY <1>2, <1>3 DEF SoftStarted, Started
  <2> QED BY <1>1, <1>2, <2>1 DEF TimesOK, Timed
<1>5. TypeOK'
  BY <1>1, <1>2 DEF TypeOK
<1>6. ListOK'
  BY <1>1, <1>2, <1>3 DEF ListOK
<1>7. CallsOK'
  BY <1>1, <1>2, <1>3 DEF CallsOK, Off, Starting
<1> QED BY <1>1, <1>2, <1>3, <1>4, <1>5, <1>6, <1>7 DEF LateOK

LEMMA NextTimeoutStep ==
    ASSUME IInv, soft, soft' = soft, NextTimeout PROVE IInv'
<1>1. /\ UNCHANGED vars /\ UNCHANGED <<current_tick, n, firing, lag>>
      /\ collided' = (list # <<>> /\ timeout_tick[Head(list)] = RT_TICK_MAX)
      /\ \/ /\ at' = "suspend" /\ next_timeout' = next_timeout
            /\ list = <<>> \/ timeout_tick[Head(list)] = RT_TICK_MAX
         \/ /\ at' = "tick" /\ next_timeout' = timeout_tick[Head(list)] /\ list # <<>>
  BY DEF NextTimeout, Entry, vars, timerVars, callVars, histVars
<1>2. /\ TypeOK' /\ ListOK' /\ TimesOK' /\ CallsOK' /\ LateOK' /\ ~checking'
  BY <1>1, SameTimers
<1>3. UNCHANGED <<list, timeout_tick>>
  BY <1>1 DEF vars, timerVars
<1>4. list # <<>> => Head(list) = list[1] /\ timeout_tick[list[1]] \in 0..TickMod-1
  <2>1. list # <<>> => Head(list) = list[1] /\ list[1] \in Timers
    BY ListFacts DEF IInv
  <2> QED BY <2>1 DEF IInv, SoftTypeOK, TypeOK
<1>5. SoftTypeOK'
  BY <1>1, <1>2, <1>4 DEF IInv, SoftTypeOK
<1>6. FiringOK'
  BY <1>1, <1>2 DEF FiringOK
<1>7. SleepOK'
  BY <1>1, <1>3, <1>4 DEF SleepOK
<1> QED BY <1>2, <1>5, <1>6, <1>7 DEF IInv

LEMMA SleepStep ==
    ASSUME IInv, soft, soft' = soft, SuspendSelf \/ Delay PROVE IInv'
<1>1. /\ UNCHANGED vars
      /\ UNCHANGED <<next_timeout, current_tick, n, firing, lag, collided>>
      /\ \/ at = "suspend" /\ at' = "suspended"
         \/ at = "delay" /\ at' = "delayed"
  BY DEF SuspendSelf, Delay, Entry, vars, timerVars, callVars, histVars, localVars
<1>2. /\ TypeOK' /\ ListOK' /\ TimesOK' /\ CallsOK' /\ LateOK' /\ ~checking'
  BY <1>1, SameTimers
<1>3. UNCHANGED <<list, due>>
  BY <1>1 DEF vars, timerVars, histVars
<1>4. SoftTypeOK'
  BY <1>1, <1>2 DEF IInv, SoftTypeOK
<1>5. FiringOK'
  BY <1>1, <1>2 DEF FiringOK
<1>6. InTime => InTime'
  BY <1>1, <1>3 DEF InTime
<1>7. SleepOK'
  BY <1>1, <1>3, <1>6 DEF SleepOK, IInv
<1> QED BY <1>2, <1>4, <1>5, <1>7 DEF IInv

(* The distance from now to the timeout of a timer whose time runs. *)
LEMMA Distance ==
    ASSUME SoftTypeOK, NEW x \in Timers, Timed(x)
    PROVE  /\ Since(timeout_tick[x], rt_tick) \in 0..TickMod-1
           /\ Since(timeout_tick[x], rt_tick) < Half => Since(timeout_tick[x], rt_tick) = due[x]
<1>1. /\ rt_tick \in 0..TickMod-1 /\ due[x] \in Int
      /\ due[x] \in -(MaxLate+1)..InitTick[x]
      /\ timeout_tick[x] = (rt_tick + due[x]) % TickMod
  BY DEF SoftTypeOK, TypeOK, Timed
<1>2. /\ MaxLate \in Nat /\ Half \in Nat /\ TickMod \in Nat \ {0} /\ MaxLate + 1 < Half
      /\ InitTick[x] \in Nat /\ InitTick[x] + MaxLate < Half
  BY Halves
<1>3. due[x] \in -Half..Half-1
  BY <1>1, <1>2
<1>4. (rt_tick + 0) % TickMod = rt_tick
  BY <1>1, <1>2, ModSmall
<1>5. Since((rt_tick + due[x]) % TickMod, (rt_tick + 0) % TickMod) = (due[x] - 0) % TickMod
  BY <1>1, SinceTicks
<1>6. Since(timeout_tick[x], rt_tick) = due[x] % TickMod
  BY <1>1, <1>4, <1>5
<1>7. /\ due[x] % TickMod < Half => due[x] % TickMod = due[x]
      /\ due[x] % TickMod \in 0..TickMod-1
  BY <1>3, Near
<1> QED BY <1>6, <1>7

LEMMA CurrentTickStep ==
    ASSUME IInv, soft, soft' = soft, CurrentTick PROVE IInv'
<1>1. /\ UNCHANGED vars
      /\ UNCHANGED <<current_tick, n, firing, lag, collided>>
      /\ at = "tick"
      /\ \/ /\ Since(next_timeout, rt_tick) < Half
            /\ at' = "delay" /\ next_timeout' = Since(next_timeout, rt_tick)
         \/ at' = "enter" /\ next_timeout' = 0
  BY DEF CurrentTick, Entry, vars, timerVars, callVars, histVars
<1>2. /\ TypeOK' /\ ListOK' /\ TimesOK' /\ CallsOK' /\ LateOK' /\ ~checking'
  BY <1>1, SameTimers
<1>3. UNCHANGED <<list, due>>
  BY <1>1 DEF vars, timerVars, histVars
<1>4. SoftTypeOK /\ TypeOK /\ TimesOK /\ lag \in Nat
      /\ list # <<>> /\ next_timeout = timeout_tick[list[1]]
  BY <1>1 DEF IInv, SleepOK, SoftTypeOK
<1>5. list[1] \in Timers /\ Timed(list[1]) /\ due[list[1]] \in Int
  BY <1>4, ListFacts DEF TimesOK, SoftStarted, Started, TypeOK
<1>6. /\ Since(next_timeout, rt_tick) \in 0..TickMod-1
      /\ Since(next_timeout, rt_tick) < Half => Since(next_timeout, rt_tick) = due[list[1]]
  BY <1>4, <1>5, Distance
<1>7. SoftTypeOK'
  <2>1. 0 \in 0..TickMod-1
    BY Halves
  <2> QED BY <1>1, <1>2, <1>4, <1>6, <2>1 DEF SoftTypeOK
<1>8. FiringOK'
  BY <1>1, <1>2 DEF FiringOK
<1>9. at' = "delay" => InTime'
  <2>1. at' = "delay" => next_timeout' = due[list[1]]
    BY <1>1, <1>6
  <2> QED BY <1>1, <1>3, <1>4, <1>5, <2>1 DEF InTime
<1>10. SleepOK'
  BY <1>1, <1>3, <1>4, <1>9 DEF SleepOK
<1> QED BY <1>2, <1>7, <1>8, <1>10 DEF IInv

(* What a timer in the list shows at the tick that is read. *)
LEMMA SeenNow ==
    ASSUME SoftTypeOK, NEW x \in Timers, Timed(x)
    PROVE  \E d \in due[x]..InitTick[x] : timeout_tick[x] = (rt_tick + d) % TickMod
<1>1. due[x] \in Int /\ InitTick[x] \in Int /\ due[x] \in -(MaxLate+1)..InitTick[x] /\ MaxLate \in Nat
  BY Halves DEF SoftTypeOK, TypeOK, Timed
<1>2. due[x] \in due[x]..InitTick[x]
  BY <1>1
<1> QED BY <1>2 DEF Timed

LEMMA CheckEnterStep ==
    ASSUME IInv, soft, soft' = soft, CheckEnter PROVE IInv'
<1>1. /\ UNCHANGED vars
      /\ UNCHANGED <<next_timeout, firing, lag, collided>>
      /\ at' = "check" /\ current_tick' = rt_tick
      /\ n' = IF list = <<>> THEN End ELSE Head(list)
  BY DEF CheckEnter, Entry, vars, timerVars, callVars, histVars
<1>2. /\ TypeOK' /\ ListOK' /\ TimesOK' /\ CallsOK' /\ LateOK' /\ ~checking' /\ Listed' = Listed
  BY <1>1, SameTimers
<1>3. UNCHANGED <<list, due, timeout_tick, rt_tick>>
  BY <1>1 DEF vars, timerVars, histVars
<1>4. SoftTypeOK /\ TypeOK /\ TimesOK
  BY DEF IInv, SoftTypeOK
<1>5. n' # End => n' \in Listed /\ n' \in Timers
  BY <1>1, <1>4, ListFacts
<1>6. n' \in Timers \cup {End}
  BY <1>5
<1>7. SoftTypeOK'
  BY <1>1, <1>2, <1>4, <1>6 DEF SoftTypeOK, TypeOK
<1>8. n' # End => Seen'
  <2> SUFFICES ASSUME n' # End PROVE Seen'
    OBVIOUS
  <2>1. PICK x \in Timers : x = n' /\ x \in Listed
    BY <1>5
  <2>2. \E d \in due[x]..InitTick[x] : timeout_tick[x] = (rt_tick + d) % TickMod
    BY <1>4, <2>1, SeenNow DEF TimesOK, SoftStarted, Started
  <2> QED BY <1>1, <1>3, <2>1, <2>2 DEF Seen
<1>9. FiringOK'
  BY <1>1, <1>2, <1>5, <1>8 DEF FiringOK
<1>10. SleepOK'
  BY <1>1 DEF SleepOK
<1> QED BY <1>2, <1>7, <1>9, <1>10 DEF IInv

LEMMA CheckLeaveStep ==
    ASSUME IInv, soft, soft' = soft, CheckLeave PROVE IInv'
<1>1. /\ UNCHANGED vars
      /\ UNCHANGED <<next_timeout, lag, collided>>
      /\ at' = "next" /\ current_tick' = 0 /\ n' = End /\ firing' = End
  BY DEF CheckLeave, Entry, vars, timerVars, callVars, histVars
<1>2. /\ TypeOK' /\ ListOK' /\ TimesOK' /\ CallsOK' /\ LateOK' /\ ~checking'
  BY <1>1, SameTimers
<1>3. SoftTypeOK'
  <2>1. 0 \in 0..TickMod-1
    BY Halves
  <2> QED BY <1>1, <1>2, <2>1 DEF IInv, SoftTypeOK
<1>4. FiringOK'
  BY <1>1, <1>2 DEF FiringOK
<1>5. SleepOK'
  BY <1>1 DEF SleepOK
<1> QED BY <1>2, <1>3, <1>4, <1>5 DEF IInv

(* A user of soft timers wakes the timer thread up. *)
LEMMA SoftResumeStep ==
    ASSUME Own, IInv, soft, soft' = soft, NEW u \in Users, Asleep, SoftResume(u) PROVE IInv'
<1>1. /\ pc[u] = "start_resume" /\ pc' = [pc EXCEPT ![u] = "ready"]
      /\ arg' = [arg EXCEPT ![u] = NoTimer]
      /\ at' = "enter" /\ next_timeout' = 0 /\ lag' = 0 /\ collided' = FALSE
      /\ UNCHANGED <<rt_tick, list, timeout_tick, activated, checking, due, late, earlier,
                     solo, stopped, current_tick, n, firing>>
  BY DEF SoftResume, Return, Goto, Wakes, timerVars, histVars
<1>2. SoftTypeOK /\ TypeOK /\ ListOK /\ TimesOK /\ CallsOK /\ ~checking
  BY DEF IInv, SoftTypeOK, FiringOK
<1>3. /\ pc'[u] = "ready" /\ \A v \in Users \ {u} : pc'[v] = pc[v] /\ arg'[v] = arg[v]
  BY <1>1, <1>2, Moves, ArgMoves
<1>4. Listed' = Listed
  BY <1>1 DEF Listed
<1>5. SoftTypeOK'
  <2>1. 0 \in 0..TickMod-1 /\ 0 \in Nat
    BY Halves
  <2>2. TypeOK'
    BY <1>1, <1>2, NoTimerType DEF TypeOK
  <2> QED BY <1>1, <1>2, <2>1, <2>2 DEF SoftTypeOK
<1>6. ListOK'
  BY <1>1, <1>2, <1>4 DEF ListOK
<1>7. CallsOK'
  BY <1>1, <1>2, <1>3, <1>4 DEF CallsOK, Off, Starting
<1>8. TimesOK'
  <2> SUFFICES ASSUME NEW x \in Timers, SoftStarted(x)' PROVE Timed(x)'
    BY DEF TimesOK
  <2>1. SoftStarted(x)
    BY <1>1, <1>3, <1>4 DEF SoftStarted, Started
  <2> QED BY <1>1, <1>2, <2>1 DEF TimesOK, Timed
<1>9. LateOK' /\ FiringOK' /\ SleepOK'
  BY <1>1, <1>2 DEF LateOK, FiringOK, SleepOK
<1> QED BY <1>5, <1>6, <1>7, <1>8, <1>9 DEF IInv

(* The timer behind t in the list is another one. *)
LEMMA NextIsListed ==
    ASSUME SoftTypeOK, Distinct(list), NEW t \in Listed
    PROVE  NextOf(t) = End \/ NextOf(t) \in Listed \ {t}
<1> DEFINE i == CHOOSE j \in DOMAIN list : list[j] = t
<1>1. i \in DOMAIN list /\ list[i] = t
  <2>1. \E j \in DOMAIN list : list[j] = t
    BY DEF Listed, Elements
  <2> QED BY <2>1
<1>2. NextOf(t) = IF i = Len(list) THEN End ELSE list[i+1]
  BY DEF NextOf
<1> HIDE DEF i
<1>3. CASE i # Len(list)
  <2>1. i + 1 \in DOMAIN list /\ i + 1 # i
    BY <1>1, <1>3, ListFacts
  <2>2. list[i+1] \in Listed /\ list[i+1] # t
    BY <1>1, <2>1, ListFacts DEF Distinct
  <2> QED BY <1>2, <1>3, <2>2
<1> QED BY <1>2, <1>3

LEMMA SoftFireStep ==
    ASSUME IInv, soft, soft' = soft, NEW stops \in BOOLEAN, SoftFire(stops) PROVE IInv'
<1> PICK t : t = n
  OBVIOUS
<1>1. /\ at = "check" /\ t # End
      /\ firing' = t /\ n' = NextOf(t)
      /\ list' = Unlinked(list, t)
      /\ activated' = IF stops THEN activated \ {t} ELSE activated
      /\ due' = [due EXCEPT ![t] = 0] /\ earlier' = Forget(t)
      /\ stopped' = IF stops /\ NoCall(Users, t) THEN stopped \cup {t} ELSE stopped
      /\ at' = "called"
      /\ UNCHANGED <<timeout_tick, next_timeout, current_tick, lag, collided>>
      /\ UNCHANGED <<rt_tick, checking, pc, arg, late, solo>>
  BY DEF SoftFire, SoftExpired, Entry, callVars
<1>2. SoftTypeOK /\ TypeOK /\ ListOK /\ TimesOK /\ CallsOK /\ ~checking
  BY DEF IInv, SoftTypeOK, FiringOK
<1>3. t \in Listed /\ t \in Timers
  BY <1>1, <1>2 DEF IInv, FiringOK, SoftTypeOK
<1>4. TakenOff(t)
  BY <1>1, <1>2, <1>3, UnlinkedOff
<1>5. Listed' = Listed \ {t} /\ list' \in Seq(Timers) /\ Distinct(list')
  BY <1>4 DEF TakenOff, Listed
<1>6. /\ InOrder(list', due', earlier')
      /\ due' \in [Timers -> Int] /\ earlier' \in SUBSET (Timers \X Timers)
      /\ due'[t] = 0 /\ \A x \in Timers \ {t} : due'[x] = due[x]
  BY <1>2, <1>3, <1>4, TakenOffKeeps
<1>7. n' = End \/ n' \in Listed \ {t}
  BY <1>1, <1>2, <1>3, NextIsListed DEF ListOK
<1>8. \A u \in Users : Off(u) => arg[u] # t
  BY <1>2, <1>3 DEF CallsOK
<1>9. t \notin stopped /\ stopped \cap Listed = {} /\ Listed \subseteq activated
  BY <1>2, <1>3 DEF ListOK
<1>10. SoftTypeOK'
  <2>1. n' \in Timers \cup {End}
    BY <1>2, <1>7, ListFacts
  <2>2. TypeOK'
    BY <1>1, <1>2, <1>3, <1>5, <1>6 DEF TypeOK
  <2> QED BY <1>1, <1>2, <1>3, <2>1, <2>2 DEF SoftTypeOK
<1>11. ListOK'
  BY <1>1, <1>5, <1>6, <1>9 DEF ListOK
<1>12. CallsOK'
  <2> SUFFICES ASSUME NEW v \in Users
               PROVE  /\ pc[v] # "ready" => v \in UsedBy[arg[v]]
                      /\ Off(v) => arg[v] \notin Listed'
                      /\ Starting(v) => arg[v] \notin stopped'
                      /\ pc[v] = "start_insert" => due'[arg[v]] >= -MaxLate
    BY <1>1 DEF CallsOK, Off, Starting
  <2>1. arg[v] \in Timers
    BY <1>2 DEF TypeOK
  <2>2. Starting(v) => arg[v] # t
    BY <1>8 DEF Off
  <2>3. pc[v] = "start_insert" => Starting(v)
    BY DEF Starting
  <2> QED BY <1>1, <1>2, <1>5, <1>6, <2>1, <2>2, <2>3 DEF CallsOK
<1>13. TimesOK'
  <2> SUFFICES ASSUME NEW x \in Timers, SoftStarted(x)' PROVE Timed(x)'
    BY DEF TimesOK
  <2>1. x \in Listed' \/ \E u \in Users : pc[u] = "start_insert" /\ arg[u] = x
    BY <1>1 DEF SoftStarted, Started
  <2>2. x # t
    BY <1>5, <1>8, <2>1 DEF Off, Starting
  <2>3. SoftStarted(x)
    BY <1>5, <2>1 DEF SoftStarted, Started
  <2> QED BY <1>1, <1>2, <1>6, <2>2, <2>3 DEF TimesOK, Timed
<1>14. LateOK' /\ SleepOK'
  BY <1>1 DEF LateOK, SleepOK
<1>15. FiringOK'
  <2>1. firing' \in Timers \ Listed' /\ \A u \in Users : Off(u)' => arg'[u] # firing'
    BY <1>1, <1>3, <1>5, <1>8 DEF Off, Starting
  <2>2. firing' \notin activated' \/ firing' \notin stopped'
    BY <1>1, <1>9
  <2>3. n' # End => n' \in Listed'
    BY <1>5, <1>7
  <2> QED BY <1>1, <1>2, <2>1, <2>2, <2>3 DEF FiringOK
<1> QED BY <1>10, <1>11, <1>12, <1>13, <1>14, <1>15 DEF IInv

LEMMA SoftFiredStep ==
    ASSUME IInv, soft, soft' = soft, SoftFired PROVE IInv'
<1> PICK t : t = firing
  OBVIOUS
<1> DEFINE e == InitTick[t]
           tick == (rt_tick + e) % TickMod
<1>1. /\ at = "called" /\ current_tick' = rt_tick
      /\ activated' = activated \ {t}
      /\ \/ /\ t \in activated /\ at' = "restart"
            /\ timeout_tick' = [timeout_tick EXCEPT ![t] = tick]
            /\ due' = [due EXCEPT ![t] = e]
         \/ at' = "check" /\ timeout_tick' = timeout_tick /\ due' = due
      /\ UNCHANGED <<list, earlier, stopped, next_timeout, n, firing, lag, collided>>
      /\ UNCHANGED <<rt_tick, checking, pc, arg, late, solo>>
  BY DEF SoftFired, Entry, callVars
<1>2. SoftTypeOK /\ TypeOK /\ ListOK /\ TimesOK /\ CallsOK /\ ~checking
  BY DEF IInv, SoftTypeOK, FiringOK
<1>3. /\ t \in Timers /\ t \notin Listed /\ \A u \in Users : Off(u) => arg[u] # t
      /\ t \in activated => t \notin stopped
      /\ n # End => n \in Listed
  BY <1>1 DEF IInv, FiringOK
<1>4. /\ e \in Nat /\ e >= -MaxLate /\ e \in -(MaxLate+1)..e /\ tick \in 0..TickMod-1
      /\ e = InitTick[t] /\ tick = (rt_tick + e) % TickMod
  <2>1. e \in Nat /\ MaxLate \in Nat /\ TickMod \in Nat \ {0} /\ rt_tick \in 0..TickMod-1
    BY <1>2, <1>3, Halves DEF TypeOK
  <2> HIDE DEF e
  <2>2. rt_tick + e \in Int
    BY <2>1
  <2>3. tick \in 0..TickMod-1
    BY <2>1, <2>2, ModRange
  <2>4. e >= -MaxLate /\ e \in -(MaxLate+1)..e
    BY <2>1
  <2> QED BY <2>1, <2>3, <2>4 DEF e
<1> HIDE DEF e, tick
<1>5. /\ due' \in [Timers -> Int] /\ timeout_tick' \in [Timers -> 0..TickMod-1]
      /\ \A x \in Timers \ {t} : due'[x] = due[x] /\ timeout_tick'[x] = timeout_tick[x]
      /\ due'[t] = e \/ due'[t] = due[t]
      /\ at' = "restart" => due'[t] = e /\ timeout_tick'[t] = tick
  <2>1. due \in [Timers -> Int] /\ timeout_tick \in [Timers -> 0..TickMod-1]
    BY <1>2 DEF TypeOK
  <2>2. CASE at' = "restart"
    <3>1. /\ due' = [due EXCEPT ![t] = e] /\ timeout_tick' = [timeout_tick EXCEPT ![t] = tick]
      BY <1>1, <2>2
    <3> QED BY <1>3, <1>4, <2>1, <3>1
  <2>3. CASE at' # "restart"
    <3>1. due' = due /\ timeout_tick' = timeout_tick
      BY <1>1, <2>3
    <3> QED BY <2>1, <2>3, <3>1
  <2> QED BY <2>2, <2>3
<1>6. Listed' = Listed /\ \A i \in DOMAIN list : due'[list[i]] = due[list[i]]
  <2>1. \A i \in DOMAIN list : list[i] \in Timers \ {t}
    BY <1>2, <1>3, ListFacts
  <2> QED BY <1>1, <1>5, <2>1 DEF Listed
<1>7. SoftTypeOK'
  <2>1. TypeOK'
    BY <1>1, <1>2, <1>5 DEF TypeOK
  <2> QED BY <1>1, <1>2, <2>1 DEF SoftTypeOK, TypeOK
<1>8. ListOK'
  <2>1. InOrder(list', due', earlier')
    BY <1>1, <1>2, <1>6 DEF ListOK, InOrder
  <2> QED BY <1>1, <1>2, <1>3, <1>6, <2>1 DEF ListOK
<1>9. CallsOK'
  <2> SUFFICES ASSUME NEW v \in Users
               PROVE  /\ pc[v] # "ready" => v \in UsedBy[arg[v]]
                      /\ Off(v) => arg[v] \notin Listed
                      /\ Starting(v) => arg[v] \notin stopped
                      /\ pc[v] = "start_insert" => due'[arg[v]] >= -MaxLate
    BY <1>1, <1>6 DEF CallsOK, Off, Starting
  <2>1. arg[v] \in Timers /\ (pc[v] = "start_insert" => Off(v))
    BY <1>2 DEF TypeOK, Off, Starting
  <2> QED BY <1>2, <1>3, <1>5, <2>1 DEF CallsOK
<1>10. TimesOK'
  <2> SUFFICES ASSUME NEW x \in Timers, SoftStarted(x)' PROVE Timed(x)'
    BY DEF TimesOK
  <2>1. CASE x = t
    <3>1. at' = "restart"
      BY <1>1, <1>3, <1>6, <2>1 DEF SoftStarted, Started, Off, Starting
    <3> QED BY <1>1, <1>2, <1>4, <1>5, <2>1, <3>1 DEF Timed
  <2>2. CASE x # t
    <3>1. SoftStarted(x)
      BY <1>1, <1>6, <2>2 DEF SoftStarted, Started
    <3> QED BY <1>1, <1>2, <1>5, <2>2, <3>1 DEF TimesOK, Timed
  <2> QED BY <2>1, <2>2
<1>11. LateOK' /\ SleepOK'
  BY <1>1 DEF LateOK, SleepOK
<1>12. n # End => Seen'
  <2> SUFFICES ASSUME n # End PROVE Seen'
    OBVIOUS
  <2>1. PICK x \in Timers : x = n /\ x \in Listed /\ x # t
    BY <1>2, <1>3, ListFacts
  <2>2. \E d \in due[x]..InitTick[x] : timeout_tick[x] = (rt_tick + d) % TickMod
    BY <1>2, <2>1, SeenNow DEF TimesOK, SoftStarted, Started
  <2>3. n' = x /\ due'[x] = due[x] /\ timeout_tick'[x] = timeout_tick[x] /\ current_tick' = rt_tick
    BY <1>1, <1>5, <2>1
  <2> QED BY <2>2, <2>3 DEF Seen
<1>13. FiringOK'
  BY <1>1, <1>2, <1>3, <1>6, <1>12 DEF FiringOK, Off, Starting
<1> QED BY <1>7, <1>8, <1>9, <1>10, <1>11, <1>13 DEF IInv

LEMMA SoftRestartStep ==
    ASSUME IInv, soft, soft' = soft, SoftRestart PROVE IInv'
<1> PICK t : t = firing
  OBVIOUS
<1>1. /\ at = "restart" /\ at' = "check"
      /\ list' = Inserted(list, t, timeout_tick[t])
      /\ activated' = activated \cup {t}
      /\ earlier' = InsertedAfter(t, list)
      /\ UNCHANGED <<timeout_tick, due, stopped, lag, collided>>
      /\ UNCHANGED <<next_timeout, current_tick, n, firing>>
      /\ UNCHANGED <<rt_tick, checking, pc, arg, late, solo>>
  BY DEF SoftRestart, Entry, callVars, localVars
<1>2. SoftTypeOK /\ TypeOK /\ ListOK /\ TimesOK /\ CallsOK /\ ~checking
  BY DEF IInv, SoftTypeOK, FiringOK
<1>3. /\ t \in Timers \ Listed /\ \A u \in Users : Off(u) => arg[u] # t
      /\ t \notin stopped
      /\ n # End => n \in Listed /\ Seen
  BY <1>1 DEF IInv, FiringOK
<1>4. Timed(t) /\ due[t] >= -MaxLate
  BY <1>1, <1>2, <1>3 DEF TimesOK, SoftStarted, Timed
<1>5. PutIn(t) /\ earlier' \in SUBSET (Timers \X Timers)
  BY <1>1, <1>2, <1>3, <1>4, InsertedIn
<1>6. /\ list' \in Seq(Timers) /\ Distinct(list') /\ Listed' = Listed \cup {t}
      /\ InOrder(list', due', earlier')
  BY <1>5 DEF PutIn, Listed
<1>7. SoftTypeOK'
  <2>1. TypeOK'
    BY <1>1, <1>2, <1>3, <1>5, <1>6 DEF TypeOK
  <2> QED BY <1>1, <1>2, <2>1 DEF SoftTypeOK
<1>8. ListOK'
  BY <1>1, <1>2, <1>3, <1>6 DEF ListOK
<1>9. CallsOK'
  BY <1>1, <1>2, <1>3, <1>6 DEF CallsOK, Off, Starting
<1>10. TimesOK'
  <2> SUFFICES ASSUME NEW x \in Timers, SoftStarted(x)' PROVE Timed(x)'
    BY DEF TimesOK
  <2>1. Timed(x)
    <3>1. CASE x = t
      BY <1>4, <3>1
    <3>2. CASE x # t
      <4>1. SoftStarted(x)
        BY <1>1, <1>6, <3>2 DEF SoftStarted, Started
      <4> QED BY <1>2, <4>1 DEF TimesOK
    <3> QED BY <3>1, <3>2
  <2> QED BY <1>1, <2>1 DEF Timed
<1>11. LateOK' /\ SleepOK'
  BY <1>1 DEF LateOK, SleepOK
<1>12. FiringOK'
  <2>1. Seen => Seen'
    BY <1>1 DEF Seen
  <2> QED BY <1>1, <1>2, <1>3, <1>6, <2>1 DEF FiringOK
<1> QED BY <1>7, <1>8, <1>9, <1>10, <1>11, <1>12 DEF IInv

LEMMA SoftTickStep ==
    ASSUME IInv, soft, soft' = soft, SoftTick PROVE IInv'
<1>1. /\ \A x \in Timers : SoftStarted(x) => due[x] > -MaxLate
      /\ rt_tick' = (rt_tick + 1) % TickMod
      /\ due' = [x \in Timers |-> IF SoftStarted(x) THEN due[x] - 1 ELSE due[x]]
      /\ UNCHANGED <<list, timeout_tick, activated, checking, pc, arg, late, earlier, solo,
                     stopped, current_tick, n, firing>>
      /\ \/ /\ at = "delayed" /\ at' = "enter" /\ next_timeout' = 0 /\ lag' = 0
            /\ collided' = FALSE
         \/ /\ next_timeout' = IF at = "delayed" THEN next_timeout - 1 ELSE next_timeout
            /\ at = "delayed" => next_timeout > 1
            /\ lag' = IF at = "delay" THEN lag + 1 ELSE lag
            /\ at' = at /\ collided' = collided
  <2>1. next_timeout \in Int
    BY Halves DEF IInv, SoftTypeOK
  <2> QED BY <2>1 DEF SoftTick, Wakes, timerVars, callVars
<1>2. SoftTypeOK /\ TypeOK /\ ListOK /\ TimesOK /\ CallsOK /\ FiringOK /\ SleepOK /\ ~checking
  BY DEF IInv, SoftTypeOK, FiringOK
<1>3. due' \in [Timers -> Int] /\ due \in [Timers -> Int]
  BY <1>1, <1>2 DEF TypeOK
<1>4. \A x \in Timers : SoftStarted(x) => due'[x] = due[x] - 1
  BY <1>1
<1>5. Listed' = Listed /\ \A i \in DOMAIN list : list[i] \in Timers /\ due'[list[i]] = due[list[i]] - 1
  <2>1. \A i \in DOMAIN list : list[i] \in Timers /\ list[i] \in Listed
    BY <1>2, ListFacts
  <2> QED BY <1>1, <1>4, <2>1 DEF Listed, SoftStarted, Started
<1>6. rt_tick' \in 0..TickMod-1
  <2>1. rt_tick + 1 \in Int /\ TickMod \in Nat \ {0}
    BY <1>2, Halves DEF TypeOK
  <2> QED BY <1>1, <2>1, ModRange
<1>7. SoftTypeOK'
  <2>1. TypeOK'
    BY <1>1, <1>2, <1>3, <1>6 DEF TypeOK
  <2>2. next_timeout' \in 0..TickMod-1 /\ lag' \in Nat /\ collided' \in BOOLEAN
    <3>1. /\ next_timeout \in 0..TickMod-1 /\ lag \in Nat /\ collided \in BOOLEAN
          /\ TickMod \in Nat \ {0}
      BY <1>2, Halves DEF SoftTypeOK
    <3>2. /\ next_timeout' \in {0, next_timeout} \/ (next_timeout > 1 /\ next_timeout' = next_timeout - 1)
          /\ lag' \in {0, lag, lag + 1} /\ collided' \in {FALSE, collided}
      BY <1>1
    <3>3. next_timeout' \in 0..TickMod-1
      <4>1. 0 \in 0..TickMod-1
        BY Halves
      <4> QED BY <3>1, <3>2, <4>1
    <3>4. lag' \in Nat
      BY <3>1, <3>2
    <3>5. collided' \in BOOLEAN
      BY <3>1, <3>2
    <3> QED BY <3>3, <3>4, <3>5
  <2> QED BY <1>1, <1>2, <2>1, <2>2 DEF SoftTypeOK
<1>8. ListOK'
  <2>1. PICK d2 \in [Timers -> Int] : d2 = due'
    BY <1>3
  <2>2. InOrder(list, d2, earlier)
    BY <1>2, <1>3, <1>5, <2>1, OrderLater DEF ListOK, TypeOK
  <2> QED BY <1>1, <1>2, <1>5, <2>1, <2>2 DEF ListOK
<1>9. TimesOK'
  <2> SUFFICES ASSUME NEW x \in Timers, SoftStarted(x)' PROVE Timed(x)'
    BY DEF TimesOK
  <2>1. SoftStarted(x)
    BY <1>1, <1>5 DEF SoftStarted, Started
  <2> QED BY <1>1, <1>2, <1>4, <2>1, TimedLater DEF TimesOK
<1>10. CallsOK'
  <2>1. \A u \in Users : pc[u] = "start_insert" => due'[arg[u]] >= -MaxLate
    <3> SUFFICES ASSUME NEW u \in Users, pc[u] = "start_insert"
                 PROVE  due'[arg[u]] >= -MaxLate
      OBVIOUS
    <3>1. arg[u] \in Timers /\ SoftStarted(arg[u])
      BY <1>2 DEF TypeOK, SoftStarted, Started
    <3>2. due'[arg[u]] = due[arg[u]] - 1 /\ due[arg[u]] > -MaxLate /\ due[arg[u]] \in Int
      BY <1>1, <1>3, <1>4, <3>1
    <3> QED BY <3>2, Halves
  <2> QED BY <1>1, <1>2, <1>5, <2>1 DEF CallsOK, Off, Starting
<1>11. LateOK'
  BY DEF LateOK
<1>12. n \in Listed /\ Seen => Seen'
  <2> SUFFICES ASSUME n \in Listed, Seen PROVE Seen'
    OBVIOUS
  <2>1. PICK x \in Timers : x = n /\ x \in Listed
    BY <1>2, ListFacts
  <2>2. PICK d \in due[x]..InitTick[x] : timeout_tick[x] = (current_tick + d) % TickMod
    BY <2>1 DEF Seen
  <2>3. /\ n' = x /\ due'[x] = due[x] - 1 /\ timeout_tick' = timeout_tick
        /\ current_tick' = current_tick /\ due[x] \in Int /\ InitTick[x] \in Int
    BY <1>1, <1>3, <1>4, <2>1, Halves DEF SoftStarted, Started
  <2>4. d \in due'[x]..InitTick[x]
    BY <2>3
  <2> QED BY <2>2, <2>3, <2>4 DEF Seen
<1>13. FiringOK'
  <2>1. at' = at \/ at' = "enter"
    BY <1>1
  <2> QED BY <1>1, <1>2, <1>5, <1>12, <2>1 DEF FiringOK, Off, Starting
<1>14. SleepOK'
  <2>1. Resuming => Resuming'
    BY <1>1 DEF Resuming
  <2>2. list # <<>> => due'[list[1]] = due[list[1]] - 1 /\ due[list[1]] \in Int
    BY <1>2, <1>3, <1>5, ListFacts
  <2>3. lag \in Int /\ next_timeout \in Int
    BY <1>2, Halves DEF SoftTypeOK
  <2>4. CASE at' = "enter"
    BY <2>4 DEF SleepOK
  <2>5. CASE at' = at /\ at = "delay"
    BY <1>1, <1>2, <2>2, <2>3, <2>5 DEF SleepOK, InTime
  <2>6. CASE at' = at /\ at = "delayed"
    <3>1. next_timeout' = next_timeout - 1 /\ next_timeout > 1 /\ lag' = lag /\ list' = list
      BY <1>1, <2>6
    <3>2. list = <<>> \/ Resuming \/ (list # <<>> /\ next_timeout <= due[list[1]] + lag)
      BY <1>2, <2>3, <2>6, <3>1 DEF SleepOK, InTime
    <3>3. list # <<>> /\ next_timeout <= due[list[1]] + lag => InTime'
      BY <2>2, <2>3, <3>1 DEF InTime
    <3> QED BY <2>1, <2>6, <3>1, <3>2, <3>3 DEF SleepOK
  <2>7. CASE at' = at /\ at \notin {"delay", "delayed"}
    BY <1>1, <1>2, <2>1, <2>7 DEF SleepOK
  <2> QED BY <1>1, <2>4, <2>5, <2>6, <2>7
<1> QED BY <1>7, <1>8, <1>9, <1>10, <1>11, <1>13, <1>14 DEF IInv

-----------------------------------------------------------------------------
(* The theorems *)

LEMMA InitOK == SoftInit => IInv
<1> SUFFICES ASSUME SoftInit PROVE IInv
  OBVIOUS
<1>1. /\ rt_tick = 0 /\ list = <<>> /\ timeout_tick = [t \in Timers |-> 0]
      /\ activated = {} /\ checking = FALSE
      /\ pc = [u \in Users |-> "ready"] /\ arg = [u \in Users |-> NoTimer]
      /\ due = [t \in Timers |-> 0] /\ late = {} /\ earlier = {} /\ solo = {} /\ stopped = {}
      /\ soft \in Kinds /\ at = "next" /\ next_timeout = 0 /\ current_tick = 0
      /\ n = End /\ firing = End /\ lag = 0 /\ collided = FALSE
  BY DEF SoftInit, Init
<1>2. Listed = {}
  BY <1>1 DEF Listed, Elements
<1>3. 0 \in 0..TickMod-1 /\ Kinds \subseteq BOOLEAN
  BY Halves, SoftAssumption
<1>4. SoftTypeOK
  <2>1. /\ timeout_tick \in [Timers -> 0..TickMod-1] /\ due \in [Timers -> Int]
        /\ pc \in [Users -> {"ready", "start_tick", "start_insert", "start_resume",
                            "stop_remove", "stop_clear"}]
        /\ arg \in [Users -> Timers] /\ list \in Seq(Timers)
    BY <1>1, <1>3, NoTimerType
  <2>2. TypeOK
    BY <1>1, <1>3, <2>1 DEF TypeOK
  <2> QED BY <1>1, <1>3, <2>2 DEF SoftTypeOK
<1>5. \A u \in Users : pc[u] = "ready"
  BY <1>1
<1>6. ListOK
  BY <1>1, <1>2 DEF ListOK, Distinct, InOrder
<1>7. TimesOK /\ CallsOK
  BY <1>1, <1>2, <1>5 DEF TimesOK, CallsOK, SoftStarted, Started, Off, Starting
<1>8. LateOK /\ FiringOK /\ SleepOK
  BY <1>1, <1>2 DEF LateOK, FiringOK, SleepOK
<1> QED BY <1>4, <1>6, <1>7, <1>8 DEF IInv

LEMMA UserStep ==
    ASSUME Own, IInv, Quiet, NEW u \in Users,
           \/ StartTick(u) \/ StopRemove(u) \/ StopClear(u)
           \/ \E t \in Timers : StartRemove(u, t) \/ StopRefused(u, t) \/ StopCheck(u, t)
    PROVE  IInv'
BY StartTickStep, StopRemoveStep, StopClearStep, StartRemoveStep, StopRefusedStep, StopCheckStep

LEMMA HardNext ==
    ASSUME Own, IInv, ~soft, Next, UNCHANGED softVars
    PROVE  IInv'
<1>1. HardStep /\ at = "next"
  BY DEF HardStep, IInv, FiringOK
<1>2. ASSUME NEW u \in Users, Call(u) PROVE IInv'
  <2>1. Quiet
    BY <1>1, <1>2 DEF Quiet, HardStep, Call, StartTick, StartInsert, Insert, StopRemove, StopClear,
                      StartRemove, StopRefused, StopCheck, Runs
  <2> QED BY <1>2, <2>1, UserStep, StartInsertStep DEF Call
<1> QED BY <1>1, <1>2, TickStep, CheckReturnStep, FireStep DEF Next

LEMMA ThreadSteps ==
    ASSUME IInv, soft, soft' = soft, ThreadStep
    PROVE  IInv'
BY NextTimeoutStep, SleepStep, CurrentTickStep, CheckEnterStep, SoftFiredStep, SoftRestartStep,
   CheckLeaveStep, SoftFireStep DEF ThreadStep

LEMMA SoftUserStep ==
    ASSUME Own, Apart, IInv, soft, soft' = soft, NEW u \in Users, SoftCall(u)
    PROVE  IInv'
<1>1. Asleep
  BY DEF SoftCall, MayRun, Apart
<1>2. CASE SoftResume(u)
  BY <1>1, <1>2, SoftResumeStep
<1>3. CASE ~SoftResume(u)
  <2>1. /\ UNCHANGED threadVars
        /\ \/ SoftInsert(u)
           \/ StartTick(u) \/ StopRemove(u) \/ StopClear(u)
           \/ \E t \in Timers : StartRemove(u, t) \/ StopRefused(u, t) \/ StopCheck(u, t)
    BY <1>3 DEF SoftCall
  <2>2. ~checking /\ rt_tick' = rt_tick /\ checking' = checking
    BY <2>1 DEF SoftInsert, Insert, StartTick, StopRemove, StopClear, StartRemove, StopRefused,
                StopCheck, Runs
  <2>3. Quiet
    BY <1>1, <2>1, <2>2 DEF Quiet, Asleep, softVars
  <2> QED BY <2>1, <2>3, UserStep, SoftInsertStep
<1> QED BY <1>2, <1>3

LEMMA Unchanged == ASSUME IInv, UNCHANGED allVars PROVE IInv'
<1>1. UNCHANGED <<rt_tick, list, timeout_tick, activated, checking, pc, arg, due, late, earlier,
                  solo, stopped, soft, at, next_timeout, current_tick, n, firing, lag, collided>>
  BY DEF allVars, vars, timerVars, callVars, histVars, softVars, threadVars, localVars
<1>2. SoftTypeOK' /\ ListOK'
  BY <1>1 DEF IInv, SoftTypeOK, TypeOK, ListOK, Listed
<1>3. TimesOK'
  BY <1>1 DEF IInv, TimesOK, SoftStarted, Started, Timed, Listed
<1>4. CallsOK' /\ LateOK'
  BY <1>1 DEF IInv, CallsOK, LateOK, Off, Starting, Listed
<1>5. FiringOK'
  BY <1>1 DEF IInv, FiringOK, Off, Starting, Listed, Seen
<1>6. SleepOK'
  BY <1>1 DEF IInv, SleepOK, Resuming, InTime
<1> QED BY <1>2, <1>3, <1>4, <1>5, <1>6 DEF IInv

LEMMA StepOK == ASSUME Own, Apart, IInv, [SoftNext]_allVars PROVE IInv'
<1>1. SoftUsers \subseteq Users
  BY SoftAssumption
<1>2. CASE ~soft /\ Next /\ UNCHANGED softVars
  BY <1>2, HardNext
<1>3. CASE soft /\ (SoftTick \/ ThreadStep \/ \E u \in SoftUsers : SoftCall(u)) /\ UNCHANGED soft
  BY <1>1, <1>3, SoftTickStep, ThreadSteps, SoftUserStep
<1>4. CASE UNCHANGED allVars
  BY <1>4, Unchanged
<1> QED BY <1>2, <1>3, <1>4 DEF SoftNext

LEMMA Invariant == ASSUME Own, Apart PROVE SoftSpec => []IInv
<1>1. SoftInit => IInv
  BY InitOK
<1>2. IInv /\ [SoftNext]_allVars => IInv'
  BY StepOK
<1> QED BY <1>1, <1>2, PTL DEF SoftSpec

(* However the tick counter wraps, the list of timers is in the order in which *)
(* they are due, and timers due at the same tick in the order of their starts. *)
THEOREM ListInOrder == ASSUME Own, Apart PROVE SoftSpec => []TimersOK
<1>1. IInv => TimersOK
  BY DEF IInv, ListOK, InOrder, TimersOK, Ordered
<1> QED BY <1>1, Invariant, PTL

(* rt_timer_check leaves no hard timer in the list behind its time.            *)
THEOREM NoTimerIsLeft == ASSUME Own, Apart PROVE SoftSpec => []HardNeverLate
<1>1. IInv => HardNeverLate
  BY DEF IInv, LateOK, HardNeverLate, NeverLate
<1> QED BY <1>1, Invariant, PTL

(* A timer stopped by a call of rt_timer_stop that no other call overlapped is *)
(* in no list until it is started again.                                       *)
THEOREM StopMeansStopped == ASSUME Own, Apart PROVE SoftSpec => []StopStops
<1>1. IInv => StopStops
  BY DEF IInv, ListOK, StopStops
<1> QED BY <1>1, Invariant, PTL

(* The timer thread does not oversleep the first soft timer, unless that timer *)
(* is due at the tick RT_TICK_MAX.                                             *)
THEOREM ThreadWakesInTime == ASSUME Own, Apart PROVE SoftSpec => []AwakeInTime
<1>1. IInv => AwakeInTime
  <2> SUFFICES ASSUME IInv, soft, list # <<>>, \A u \in Users : pc[u] # "start_resume"
               PROVE  /\ at = "suspended" => collided
                      /\ at = "delayed" => \/ next_timeout <= 1
                                           \/ next_timeout <= due[Head(list)] + lag
    BY DEF AwakeInTime
  <2>1. Head(list) = list[1] /\ ~Resuming
    BY ListFacts DEF IInv, Resuming
  <2> QED BY <2>1 DEF IInv, SleepOK, InTime
<1> QED BY <1>1, Invariant, PTL

(* A timer that the check finds expired has no time left. *)
LEMMA ExpiredIsDue ==
    ASSUME SoftTypeOK, NEW x \in Timers, NEW now \in 0..TickMod-1,
           NEW d \in -(MaxLate+1)..InitTick[x], timeout_tick[x] = (now + d) % TickMod,
           Since(now, timeout_tick[x]) < Half
    PROVE  d <= 0
BY ExpiredTick

(* No timer fires before its time, hard or soft, also when the counter wraps.  *)
THEOREM NoTimerIsEarly == ASSUME Own, Apart PROVE SoftSpec => NeverEarly
<1>1. ASSUME IInv, [SoftNext]_allVars
      PROVE  [/\ checking /\ checking' /\ list # <<>> => due[Head(list)] <= 0
              /\ at = "check" /\ at' = "called" => due[n] <= 0]_allVars
  <2>1. SoftTypeOK /\ TypeOK /\ TimesOK /\ FiringOK
    BY <1>1 DEF IInv, SoftTypeOK
  <2>2. CASE ~soft /\ Next /\ UNCHANGED softVars
    <3>1. at = "next"
      BY <2>1, <2>2 DEF FiringOK
    <3>2. ASSUME checking, checking', list # <<>> PROVE due[Head(list)] <= 0
      <4>1. \E stops \in BOOLEAN : Fire(stops)
        BY <2>2, <3>2 DEF Next, Call, StartTick, StartInsert, Insert, StopRemove, StopClear,
                          StartRemove, StopRefused, StopCheck, Runs, Tick, CheckReturn
      <4>2. Expired(Head(list))
        BY <4>1 DEF Fire
      <4>3. PICK x \in Timers : x = Head(list) /\ x \in Listed
        BY <2>1, <3>2, ListFacts
      <4>4. Timed(x) /\ Since(rt_tick, timeout_tick[x]) < Half /\ rt_tick \in 0..TickMod-1
        BY <2>1, <4>2, <4>3 DEF TimesOK, SoftStarted, Started, Expired, TypeOK
      <4>5. due[x] <= 0
        BY <2>1, <4>4, ExpiredIsDue DEF Timed
      <4> QED BY <4>3, <4>5
    <3> QED BY <3>1, <3>2
  <2>3. CASE soft /\ (SoftTick \/ ThreadStep \/ \E u \in SoftUsers : SoftCall(u)) /\ UNCHANGED soft
    <3>1. ~checking
      BY <2>1, <2>3 DEF FiringOK
    <3>2. ASSUME at = "check", at' = "called" PROVE due[n] <= 0
      <4>1. SoftExpired
        BY <2>3, <3>2 DEF SoftTick, ThreadStep, SoftCall, SoftResume, Wakes, threadVars,
             NextTimeout, SuspendSelf, CurrentTick, Delay, CheckEnter, SoftFired, SoftRestart,
             CheckLeave, SoftFire, Entry
      <4>2. n # End /\ Since(current_tick, timeout_tick[n]) < Half
        BY <4>1 DEF SoftExpired
      <4>3. PICK x \in Timers : x = n /\ x \in Listed
        BY <2>1, <3>2, <4>2, ListFacts DEF FiringOK
      <4>4. PICK d \in due[x]..InitTick[x] : timeout_tick[x] = (current_tick + d) % TickMod
        BY <2>1, <3>2, <4>2, <4>3 DEF FiringOK, Seen
      <4>5. /\ due[x] \in Int /\ due[x] \in -(MaxLate+1)..InitTick[x] /\ InitTick[x] \in Int
            /\ MaxLate \in Int /\ current_tick \in 0..TickMod-1
        BY <2>1, <4>3, Halves DEF TimesOK, Timed, SoftStarted, Started, TypeOK, SoftTypeOK
      <4>6. d \in -(MaxLate+1)..InitTick[x] /\ due[x] <= d
        BY <4>4, <4>5
      <4>7. d <= 0
        BY <2>1, <4>2, <4>3, <4>4, <4>5, <4>6, ExpiredIsDue
      <4> QED BY <4>3, <4>5, <4>6, <4>7
    <3> QED BY <3>1, <3>2
  <2> QED BY <1>1, <2>2, <2>3 DEF SoftNext
<1> QED BY <1>1, Invariant, PTL DEF SoftSpec, NeverEarly
=============================================================================
