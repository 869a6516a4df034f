----------------------------- MODULE HeapProofs -----------------------------
(***************************************************************************)
(* Proofs about Heap for every size of the heap, of its headers and of its *)
(* smallest block, and every set of threads and requests.  Of              *)
(* WaitingListProofs only the lemma Smallest is needed.                    *)
(***************************************************************************)
EXTENDS Heap, WaitingListProofs

-----------------------------------------------------------------------------
(* The list *)

Header == [used : BOOLEAN, next : 0..heap_end, prev : 0..heap_end]
Inner(h) == (DOMAIN h) \ {heap_end}

(* A sound list of headers: Chain of Heap with the way back from each block,   *)
(* and the types.                                                              *)
Ends(h) ==
    /\ 0 \in DOMAIN h /\ heap_end \in DOMAIN h /\ DOMAIN h \subseteq 0..heap_end
    /\ h \in [DOMAIN h -> Header]
    /\ h[0].prev = 0 /\ h[heap_end].used
Forth(h) ==
    \A a \in Inner(h) : /\ h[a].next \in DOMAIN h /\ h[a].next >= a + S
                        /\ \A b \in DOMAIN h : b <= a \/ b >= h[a].next
Back(h) ==
    /\ \A a \in Inner(h) : h[a].next # heap_end => h[h[a].next].prev = a
    /\ \A a \in Inner(h) : a # 0 => h[a].prev \in Inner(h) /\ h[h[a].prev].next = a
Sound(h) == Ends(h) /\ Forth(h) /\ Back(h)

LEMMA Numbers ==
    /\ S \in Nat \ {0} /\ MIN_SIZE \in Nat \ {0} /\ mem_size_aligned \in Nat
    /\ heap_end \in Nat /\ heap_end = mem_size_aligned + S /\ heap_end > 0
BY HeapAssumption DEF heap_end

(* What SMT needs of a header. *)
LEMMA Fields ==
    ASSUME NEW h, Ends(h), NEW a \in DOMAIN h
    PROVE  /\ a \in 0..heap_end /\ a \in Int
           /\ h[a].used \in BOOLEAN /\ h[a].next \in 0..heap_end /\ h[a].prev \in 0..heap_end
           /\ h[a] = [used |-> h[a].used, next |-> h[a].next, prev |-> h[a].prev]
<1>1. a \in 0..heap_end /\ h[a] \in Header
  BY DEF Ends
<1> QED BY <1>1, Numbers DEF Header

LEMMA Marked ==
    ASSUME NEW x \in Header, NEW u \in BOOLEAN
    PROVE  /\ [x EXCEPT !.used = u] \in Header /\ [x EXCEPT !.used = u].used = u
           /\ [x EXCEPT !.used = u].next = x.next /\ [x EXCEPT !.used = u].prev = x.prev
BY DEF Header

LEMMA LinkedForth ==
    ASSUME NEW x \in Header, NEW n \in 0..heap_end
    PROVE  /\ [x EXCEPT !.next = n] \in Header /\ [x EXCEPT !.next = n].next = n
           /\ [x EXCEPT !.next = n].used = x.used /\ [x EXCEPT !.next = n].prev = x.prev
BY DEF Header

LEMMA LinkedBack ==
    ASSUME NEW x \in Header, NEW n \in 0..heap_end
    PROVE  /\ [x EXCEPT !.prev = n] \in Header /\ [x EXCEPT !.prev = n].prev = n
           /\ [x EXCEPT !.prev = n].used = x.used /\ [x EXCEPT !.prev = n].next = x.next
BY DEF Header

(* A block is marked as used or free. *)
Marks(h, g, a, u) ==
    /\ DOMAIN g = DOMAIN h /\ g[a].used = u
    /\ \A x \in DOMAIN h : /\ x # a => g[x].used = h[x].used
                           /\ g[x].next = h[x].next

LEMMA MarkStep ==
    ASSUME NEW h, Sound(h), NEW a \in Inner(h), NEW u \in BOOLEAN, NEW g,
           g = [h EXCEPT ![a].used = u]
    PROVE  Sound(g) /\ Marks(h, g, a, u)
<1>1. /\ a \in DOMAIN h /\ a # heap_end /\ h \in [DOMAIN h -> Header]
  BY DEF Inner, Sound, Ends
<1>2. DOMAIN g = DOMAIN h /\ \A x \in DOMAIN h : x # a => g[x] = h[x]
  BY <1>1
<1>3. g[a] = [h[a] EXCEPT !.used = u]
  BY <1>1
<1>4. /\ g[a] \in Header /\ g[a].used = u /\ g[a].next = h[a].next /\ g[a].prev = h[a].prev
  BY <1>1, <1>3, Marked
<1>5. g \in [DOMAIN g -> Header]
  <2>1. \A x \in DOMAIN h : g[x] \in Header
    BY <1>1, <1>2, <1>4
  <2>2. g = [x \in DOMAIN h |-> g[x]]
    BY <1>1
  <2> QED BY <1>2, <2>1, <2>2
<1>6. \A x \in DOMAIN h : g[x].next = h[x].next /\ g[x].prev = h[x].prev
  BY <1>2, <1>4
<1>7. Ends(g)
  BY <1>1, <1>2, <1>5, <1>6 DEF Sound, Ends
<1>8. Forth(g)
  BY <1>2, <1>6 DEF Sound, Forth, Inner
<1>9. Back(g)
  <2>1. \A x \in Inner(h) : h[x].next \in DOMAIN h
    BY DEF Sound, Forth
  <2>2. \A x \in Inner(h) : x # 0 => h[x].prev \in DOMAIN h
    BY DEF Sound, Back, Inner
  <2> QED BY <1>2, <1>6, <2>1, <2>2 DEF Sound, Back, Inner
<1>10. Marks(h, g, a, u)
  BY <1>2, <1>4, <1>6 DEF Marks
<1> QED BY <1>7, <1>8, <1>9, <1>10 DEF Sound

(* The order of the addresses: a block, and the one behind it. *)
LEMMA Order ==
    ASSUME NEW h, Sound(h), NEW a \in Inner(h)
    PROVE  /\ a \in DOMAIN h /\ a \in 0..heap_end /\ a \in Int /\ a # heap_end
           /\ h[a].next \in DOMAIN h /\ h[a].next \in Int /\ h[a].next >= a + S
           /\ h[a].next <= heap_end /\ h[a].next > a
           /\ \A b \in DOMAIN h : b <= a \/ b >= h[a].next
<1>1. a \in DOMAIN h /\ a # heap_end /\ Ends(h)
  BY DEF Inner, Sound
<1>2. a \in 0..heap_end /\ a \in Int
  BY <1>1, Fields
<1>4. h[a].next \in 0..heap_end
  BY <1>1, Fields
<1>3. /\ h[a].next \in DOMAIN h /\ h[a].next >= a + S
      /\ \A b \in DOMAIN h : b <= a \/ b >= h[a].next
  BY DEF Sound, Forth
<1> QED BY <1>1, <1>2, <1>3, <1>4, Numbers

(* Block b, which follows a, becomes part of it. *)
Merged(h, g, a, b) ==
    /\ DOMAIN g = (DOMAIN h) \ {b}
    /\ \A x \in DOMAIN g : /\ g[x].used = h[x].used
                           /\ g[x].next = IF x = a THEN h[b].next ELSE h[x].next

LEMMA MergeStep ==
    ASSUME NEW h, Sound(h), NEW a \in Inner(h), NEW b, b = h[a].next, b # heap_end,
           NEW g, g = Merge(h, a, b)
    PROVE  /\ Sound(g) /\ Merged(h, g, a, b)
           /\ b \in Inner(h) /\ b > a /\ b # 0 /\ h[b].prev = a
<1>1. PICK c : c = h[b].next
  OBVIOUS
<1>2. b \in Inner(h)
  BY Order DEF Inner
<1>3. /\ a \in DOMAIN h /\ a \in Int /\ b \in Int /\ c \in Int /\ a \in 0..heap_end
      /\ c \in DOMAIN h /\ a < b /\ b < c /\ b >= a + S /\ c \in 0..heap_end
      /\ a # heap_end /\ c >= b + S
      /\ \A y \in DOMAIN h : y <= a \/ y >= b
      /\ \A y \in DOMAIN h : y <= b \/ y >= c
      /\ 0 <= a
  BY <1>1, <1>2, Order, Numbers
<1>4. /\ DOMAIN g = (DOMAIN h) \ {b}
      /\ \A x \in DOMAIN g : g[x] = IF x = a THEN [h[a] EXCEPT !.next = c]
                                    ELSE IF x = c THEN [h[c] EXCEPT !.prev = a] ELSE h[x]
      /\ g = [x \in DOMAIN g |-> g[x]]
  <2> DEFINE f(x) == CASE x = a -> [h[a] EXCEPT !.next = h[b].next]
                       [] x = h[b].next -> [h[x] EXCEPT !.prev = a]
                       [] OTHER -> h[x]
  <2>1. g = [x \in (DOMAIN h) \ {b} |-> f(x)]
    BY DEF Merge
  <2>2. a # c
    BY <1>3
  <2>3. \A x : f(x) = IF x = a THEN [h[a] EXCEPT !.next = c]
                      ELSE IF x = c THEN [h[c] EXCEPT !.prev = a] ELSE h[x]
    BY <1>1, <2>2
  <2> HIDE DEF f
  <2> QED BY <2>1, <2>3
<1>5. \A x \in DOMAIN h : h[x] \in Header
  BY DEF Sound, Ends
<1>6. \A x \in DOMAIN g :
          /\ g[x] \in Header /\ g[x].used = h[x].used
          /\ g[x].next = IF x = a THEN c ELSE h[x].next
          /\ g[x].prev = IF x = c THEN a ELSE h[x].prev
  <2>a. a # c /\ a \in DOMAIN g /\ c \in DOMAIN g
    BY <1>3, <1>4
  <2>b. g[a] = [h[a] EXCEPT !.next = c] /\ g[c] = [h[c] EXCEPT !.prev = a]
    BY <1>4, <2>a
  <2>c. h[a] \in Header /\ h[c] \in Header
    BY <1>3, <1>5
  <2>d. /\ g[a] \in Header /\ g[a].used = h[a].used /\ g[a].next = c /\ g[a].prev = h[a].prev
    <3>1. c \in 0..heap_end
      BY <1>3
    <3> QED BY <2>b, <2>c, <3>1, LinkedForth
  <2>e. /\ g[c] \in Header /\ g[c].used = h[c].used /\ g[c].next = h[c].next /\ g[c].prev = a
    <3>1. a \in 0..heap_end
      BY <1>3
    <3> QED BY <2>b, <2>c, <3>1, LinkedBack
  <2> TAKE x \in DOMAIN g
  <2>1. CASE x = a
    BY <2>a, <2>d, <2>1
  <2>2. CASE x = c
    BY <2>a, <2>e, <2>2
  <2>3. CASE x # a /\ x # c
    BY <1>4, <1>5, <2>3
  <2> QED BY <2>1, <2>2, <2>3
<1>7. h[b].prev = a /\ b # 0
  BY <1>3 DEF Sound, Back
<1>8. Ends(g)
  <2>1. g \in [DOMAIN g -> Header]
    BY <1>4, <1>6
  <2>2. 0 \in DOMAIN g /\ heap_end \in DOMAIN g /\ DOMAIN g \subseteq 0..heap_end
    BY <1>4, <1>7 DEF Sound, Ends
  <2>3. g[0].prev = 0 /\ g[heap_end].used
    <3>1. c # 0
      BY <1>3
    <3> QED BY <1>6, <2>2, <3>1 DEF Sound, Ends
  <2> QED BY <2>1, <2>2, <2>3 DEF Ends
<1>9. Inner(g) = Inner(h) \ {b} /\ \A x \in Inner(g) : x \in DOMAIN g
  BY <1>4 DEF Inner
<1>10. Forth(g)
  <2> SUFFICES ASSUME NEW x \in Inner(g)
               PROVE  /\ g[x].next \in DOMAIN g /\ g[x].next >= x + S
                      /\ \A y \in DOMAIN g : y <= x \/ y >= g[x].next
    BY DEF Forth
  <2>1. CASE x = a
    <3>1. g[x].next = c /\ c \in DOMAIN g /\ c >= a + S
      BY <1>3, <1>4, <1>6, <1>9, <2>1, Numbers
    <3>2. \A y \in DOMAIN g : y \in DOMAIN h /\ y # b /\ y \in Int
      BY <1>4, Fields DEF Sound
    <3> QED BY <1>3, <2>1, <3>1, <3>2
  <2>2. CASE x # a
    <3>1. g[x].next = h[x].next /\ x \in Inner(h)
      BY <1>6, <1>9, <2>2
    <3>2. h[x].next # b
      <4>1. h[x].next = b => h[b].prev = x
        BY <3>1 DEF Sound, Back
      <4> QED BY <1>7, <2>2, <4>1
    <3> QED BY <1>4, <3>1, <3>2, Order
  <2> QED BY <2>1, <2>2
<1>11. Back(g)
  <2>1. ASSUME NEW x \in Inner(g), g[x].next # heap_end
        PROVE  g[g[x].next].prev = x
    <3>1. CASE x = a
      BY <1>3, <1>4, <1>6, <1>9, <3>1
    <3>2. CASE x # a
      <4>1. /\ g[x].next = h[x].next /\ x \in Inner(h) /\ x # b /\ h[x].next \in DOMAIN g
        BY <1>6, <1>9, <1>10, <3>2 DEF Forth
      <4>2. h[h[x].next].prev = x
        BY <2>1, <4>1 DEF Sound, Back
      <4>3. h[x].next # c
        <5>1. c # heap_end => h[c].prev = b
          BY <1>1, <1>2 DEF Sound, Back
        <5> QED BY <2>1, <4>1, <4>2, <5>1
      <4> QED BY <1>6, <4>1, <4>2, <4>3
    <3> QED BY <3>1, <3>2
  <2>2. ASSUME NEW x \in Inner(g), x # 0
        PROVE  g[x].prev \in Inner(g) /\ g[g[x].prev].next = x
    <3>1. CASE x = c
      <4>1. a \in Inner(g) /\ g[x].prev = a
        BY <1>3, <1>6, <1>9, <3>1
      <4> QED BY <1>6, <1>9, <3>1, <4>1
    <3>2. CASE x # c
      <4>1. g[x].prev = h[x].prev /\ x \in Inner(h) /\ x # b
        BY <1>6, <1>9, <3>2
      <4>2. h[x].prev \in Inner(h) /\ h[h[x].prev].next = x
        BY <2>2, <4>1 DEF Sound, Back
      <4>3. h[x].prev # b /\ h[x].prev # a
        BY <1>1, <3>2, <4>1, <4>2
      <4> QED BY <1>6, <1>9, <4>1, <4>2, <4>3
    <3> QED BY <3>1, <3>2
  <2> QED BY <2>1, <2>2 DEF Back
<1>12. Merged(h, g, a, b)
  BY <1>1, <1>4, <1>6 DEF Merged
<1> QED BY <1>2, <1>3, <1>7, <1>8, <1>10, <1>11, <1>12 DEF Sound

(* A new free block at c, between a and the block behind it. *)
IsSplit(h, g, a, c) ==
    /\ DOMAIN g = (DOMAIN h) \cup {c} /\ c \notin DOMAIN h
    /\ ~g[c].used /\ g[c].next = h[a].next /\ g[c].prev = a
    /\ g[a].next = c
    /\ \A x \in DOMAIN h : /\ g[x].used = h[x].used
                           /\ x # a => g[x].next = h[x].next

LEMMA SplitStep ==
    ASSUME NEW h, Sound(h), NEW a \in Inner(h), NEW c \in Int, a + S <= c,
           c + S <= h[a].next, NEW g, g = Split(h, a, c)
    PROVE  Sound(g) /\ c \in Inner(g) /\ IsSplit(h, g, a, c)
<1>1. PICK n : n = h[a].next
  OBVIOUS
<1>2. /\ a \in DOMAIN h /\ a \in Int /\ n \in Int /\ a \in 0..heap_end /\ n \in DOMAIN h
      /\ a < c /\ c < n /\ n <= heap_end /\ c \in 0..heap_end /\ n \in 0..heap_end
      /\ c # heap_end /\ c # 0 /\ c + S <= n /\ a # heap_end
      /\ \A y \in DOMAIN h : y <= a \/ y >= n
  BY <1>1, Order, Numbers
<1>3. c \notin DOMAIN h
  BY <1>2
<1>4. /\ DOMAIN g = (DOMAIN h) \cup {c}
      /\ g[c] = [used |-> FALSE, next |-> n, prev |-> a]
      /\ \A x \in DOMAIN h : g[x] = IF x = a THEN [h[a] EXCEPT !.next = c]
                                    ELSE IF x = n /\ n # heap_end
                                    THEN [h[n] EXCEPT !.prev = c] ELSE h[x]
      /\ g = [x \in DOMAIN g |-> g[x]]
  BY <1>1, <1>2, <1>3 DEF Split
<1>5. \A x \in DOMAIN h : h[x] \in Header
  BY DEF Sound, Ends
<1>6. \A x \in DOMAIN h :
          /\ g[x] \in Header /\ g[x].used = h[x].used
          /\ g[x].next = IF x = a THEN c ELSE h[x].next
          /\ g[x].prev = IF x = n /\ n # heap_end THEN c ELSE h[x].prev
  <2>a. a # n /\ h[a] \in Header /\ h[n] \in Header
    BY <1>2, <1>5
  <2>b. /\ g[a] = [h[a] EXCEPT !.next = c]
        /\ n # heap_end => g[n] = [h[n] EXCEPT !.prev = c]
    BY <1>2, <1>4, <2>a
  <2>e. c \in 0..heap_end
    BY <1>2
  <2>c. /\ g[a] \in Header /\ g[a].used = h[a].used /\ g[a].next = c /\ g[a].prev = h[a].prev
    BY <2>a, <2>b, <2>e, LinkedForth
  <2>d. n # heap_end => /\ g[n] \in Header /\ g[n].used = h[n].used
                        /\ g[n].next = h[n].next /\ g[n].prev = c
    <3> DEFINE e == [h[n] EXCEPT !.prev = c]
    <3>1. e \in Header /\ e.used = h[n].used /\ e.next = h[n].next /\ e.prev = c
      BY <2>a, <2>e, LinkedBack
    <3> HIDE DEF e
    <3>2. n # heap_end => g[n] = e
      BY <2>b DEF e
    <3> QED BY <3>1, <3>2
  <2> TAKE x \in DOMAIN h
  <2>1. CASE x = a
    BY <2>a, <2>c, <2>1
  <2>2. CASE x = n /\ n # heap_end
    BY <2>a, <2>d, <2>2
  <2>3. CASE x # a /\ ~(x = n /\ n # heap_end)
    BY <1>4, <1>5, <2>3
  <2> QED BY <1>2, <2>1, <2>2, <2>3
<1>7. g[c] \in Header /\ ~g[c].used /\ g[c].next = n /\ g[c].prev = a
  BY <1>2, <1>4 DEF Header
<1>8. Ends(g)
  <2>1. g \in [DOMAIN g -> Header]
    BY <1>4, <1>6, <1>7
  <2>2. 0 \in DOMAIN h /\ heap_end \in DOMAIN h /\ DOMAIN h \subseteq 0..heap_end
        /\ h[0].prev = 0 /\ h[heap_end].used
    BY DEF Sound, Ends
  <2>3. g[0].prev = 0 /\ g[heap_end].used
    <3>1. n # 0
      BY <1>2
    <3> QED BY <1>6, <2>2, <3>1
  <2> QED BY <1>2, <1>4, <2>1, <2>2, <2>3 DEF Ends
<1>9. Inner(g) = Inner(h) \cup {c} /\ \A x \in Inner(h) : x \in DOMAIN h
  BY <1>2, <1>4 DEF Inner
<1>10. Forth(g)
  <2> SUFFICES ASSUME NEW x \in Inner(g)
               PROVE  /\ g[x].next \in DOMAIN g /\ g[x].next >= x + S
                      /\ \A y \in DOMAIN g : y <= x \/ y >= g[x].next
    BY DEF Forth
  <2>0. \A y \in DOMAIN h : y \in Int
    BY Fields DEF Sound
  <2>1. CASE x = c
    BY <1>2, <1>4, <1>7, <2>0, <2>1, Numbers
  <2>2. CASE x = a
    BY <1>2, <1>4, <1>6, <2>0, <2>2, Numbers
  <2>3. CASE x # c /\ x # a
    <3>1. x \in Inner(h) /\ x \in DOMAIN h /\ g[x].next = h[x].next
      BY <1>6, <1>9, <2>3
    <3>2. /\ h[x].next \in DOMAIN h /\ h[x].next >= x + S /\ x \in Int /\ h[x].next \in Int
          /\ \A y \in DOMAIN h : y <= x \/ y >= h[x].next
      BY <3>1, Order
    <3>3. c <= x \/ c >= h[x].next
      <4>1. a <= x \/ a >= h[x].next
        BY <1>2, <3>2
      <4>2. x <= a \/ x >= n
        BY <1>2, <3>1
      <4> QED BY <1>2, <2>3, <3>2, <4>1, <4>2
    <3> QED BY <1>4, <3>1, <3>2, <3>3
  <2> QED BY <2>1, <2>2, <2>3
<1>11. Back(g)
  <2>1. ASSUME NEW x \in Inner(g), g[x].next # heap_end
        PROVE  g[g[x].next].prev = x
    <3>1. CASE x = c
      BY <1>2, <1>6, <1>7, <2>1, <3>1
    <3>2. CASE x = a
      BY <1>2, <1>6, <1>7, <3>2
    <3>3. CASE x # c /\ x # a
      <4>1. /\ g[x].next = h[x].next /\ x \in Inner(h) /\ h[x].next \in DOMAIN h
        BY <1>6, <1>9, <3>3, Order
      <4>2. h[h[x].next].prev = x
        BY <2>1, <4>1 DEF Sound, Back
      <4>3. ~(h[x].next = n /\ n # heap_end)
        <5>1. n # heap_end => h[n].prev = a
          BY <1>1 DEF Sound, Back
        <5> QED BY <3>3, <4>2, <5>1
      <4> QED BY <1>6, <4>1, <4>2, <4>3
    <3> QED BY <3>1, <3>2, <3>3
  <2>2. ASSUME NEW x \in Inner(g), x # 0
        PROVE  g[x].prev \in Inner(g) /\ g[g[x].prev].next = x
    <3>1. CASE x = c
      BY <1>2, <1>6, <1>7, <1>9, <3>1
    <3>2. CASE x = n
      <4>1. x # heap_end
        BY DEF Inner
      <4> QED BY <1>2, <1>6, <1>7, <1>9, <3>2, <4>1
    <3>3. CASE x # c /\ x # n
      <4>1. g[x].prev = h[x].prev /\ x \in Inner(h)
        BY <1>6, <1>9, <3>3
      <4>2. h[x].prev \in Inner(h) /\ h[h[x].prev].next = x
        BY <2>2, <4>1 DEF Sound, Back
      <4>3. h[x].prev # a
        BY <1>1, <3>3, <4>2
      <4> QED BY <1>6, <1>9, <4>1, <4>2, <4>3
    <3> QED BY <3>1, <3>2, <3>3
  <2> QED BY <2>1, <2>2 DEF Back
<1>12. IsSplit(h, g, a, c)
  BY <1>1, <1>2, <1>3, <1>4, <1>6, <1>7 DEF IsSplit
<1> QED BY <1>8, <1>9, <1>10, <1>11, <1>12 DEF Sound

-----------------------------------------------------------------------------
(* plug_holes *)

(* lfree may be l; no free block is below l; free neighbours have been merged, *)
(* everywhere or except at m; blocks in use stay as they were from h to g.     *)
Lfree(h, l) == l \in DOMAIN h /\ (l = heap_end \/ ~h[l].used)
Lowest(h, l) == \A x \in Inner(h) : x < l => h[x].used
NoHoles(h) == \A x \in Inner(h) : h[x].used \/ h[h[x].next].used
HolesAt(h, m) == \A x \in Inner(h) : x = m \/ h[x].next = m \/ h[x].used \/ h[h[x].next].used
HolesInFront(h, m) == \A x \in Inner(h) : h[x].next = m \/ h[x].used \/ h[h[x].next].used
KeepsUsed(h, g) ==
    /\ DOMAIN g \subseteq DOMAIN h
    /\ \A x \in DOMAIN h : h[x].used => x \in DOMAIN g
    /\ \A x \in DOMAIN g : /\ g[x].used = h[x].used
                           /\ h[x].used => g[x].next = h[x].next

LEMMA KeepsBoth ==
    ASSUME NEW h, NEW g, NEW k, KeepsUsed(h, g), KeepsUsed(g, k)
    PROVE  KeepsUsed(h, k)
<1>1. DOMAIN k \subseteq DOMAIN h
  BY DEF KeepsUsed
<1>2. \A x \in DOMAIN h : h[x].used => x \in DOMAIN k
  BY DEF KeepsUsed
<1>3. \A x \in DOMAIN k : /\ k[x].used = h[x].used
                          /\ h[x].used => k[x].next = h[x].next
  BY DEF KeepsUsed
<1> QED BY <1>1, <1>2, <1>3 DEF KeepsUsed

(* Block b, which follows a, becomes part of it, and both are free. *)
LEMMA MergeFree ==
    ASSUME NEW h, Sound(h), NEW a \in Inner(h), NEW b, b = h[a].next, b # heap_end,
           ~h[a].used, ~h[b].used, NEW g, g = Merge(h, a, b),
           NEW l, Lfree(h, l), NEW k, k = IF l = b THEN a ELSE l
    PROVE  Sound(g) /\ KeepsUsed(h, g) /\ Lfree(g, k) /\ (Lowest(h, l) => Lowest(g, k))
<1>0. Sound(g) /\ Merged(h, g, a, b) /\ b > a
  BY MergeStep
<1>1. /\ Sound(g) /\ DOMAIN g = (DOMAIN h) \ {b}
      /\ \A x \in DOMAIN g : /\ g[x].used = h[x].used
                             /\ g[x].next = IF x = a THEN h[b].next ELSE h[x].next
      /\ b > a
  BY <1>0 DEF Merged
<1>2. KeepsUsed(h, g)
  BY <1>1 DEF KeepsUsed
<1>3. a \in DOMAIN g /\ a # b
  BY <1>1, Order
<1>4. Lfree(g, k)
  <2>1. a \in DOMAIN h /\ ~g[a].used
    BY <1>1, <1>3
  <2>2. CASE l = b
    BY <1>3, <2>1, <2>2 DEF Lfree
  <2>3. CASE l # b
    <3>1. k = l /\ l \in DOMAIN h /\ l \in DOMAIN g
      BY <1>1, <2>3 DEF Lfree
    <3> QED BY <1>1, <3>1 DEF Lfree
  <2> QED BY <2>2, <2>3
<1>5. ASSUME Lowest(h, l) PROVE Lowest(g, k)
  <2>1. k = l
    BY <1>1, <1>5 DEF Lowest
  <2> QED BY <1>1, <1>5, <2>1 DEF Lowest, Inner
<1> QED BY <1>1, <1>2, <1>4, <1>5

LEMMA ForwardStep ==
    ASSUME NEW h, Sound(h), NEW m \in Inner(h), ~h[m].used, HolesAt(h, m),
           NEW l, Lfree(h, l), NEW p, p = PlugForward(h, l, m)
    PROVE  /\ Sound(p.header) /\ KeepsUsed(h, p.header) /\ Lfree(p.header, p.lfree)
           /\ Lowest(h, l) => Lowest(p.header, p.lfree)
           /\ m \in Inner(p.header) /\ ~p.header[m].used
           /\ HolesInFront(p.header, m)
<1>0. m \in DOMAIN h /\ m # heap_end /\ h[m].next # m /\ h[heap_end].used /\ m \in Int
  BY Order DEF Sound, Ends
<1>1. CASE HoleBehind(h, m)
  <2>1. PICK b : b = h[m].next
    OBVIOUS
  <2>2. PICK g : g = Merge(h, m, b)
    OBVIOUS
  <2>3. b # heap_end /\ ~h[b].used
    BY <1>1, <2>1 DEF HoleBehind
  <2>4. p.header = g /\ p.lfree = IF l = b THEN m ELSE l
    BY <1>1, <2>1, <2>2 DEF PlugForward
  <2>5. /\ Sound(g) /\ KeepsUsed(h, g) /\ Lfree(g, p.lfree)
        /\ Lowest(h, l) => Lowest(g, p.lfree)
    BY <2>1, <2>2, <2>3, <2>4, MergeFree
  <2>6. /\ DOMAIN g = (DOMAIN h) \ {b}
        /\ \A x \in DOMAIN g : /\ g[x].used = h[x].used
                               /\ g[x].next = IF x = m THEN h[b].next ELSE h[x].next
        /\ b \in Inner(h) /\ b > m
    BY <2>1, <2>2, <2>3, MergeStep DEF Merged
  <2>7. m \in Inner(g) /\ ~g[m].used
    BY <1>0, <2>6 DEF Inner
  <2>8. h[h[b].next].used
    <3>1. h[b].next > b /\ b \in Int /\ h[b].next \in Int
      BY <2>6, Order
    <3> QED BY <1>0, <2>3, <2>6, <3>1 DEF HolesAt
  <2>9. HolesInFront(g, m)
    <3> SUFFICES ASSUME NEW x \in Inner(g)
                 PROVE  g[x].next = m \/ g[x].used \/ g[g[x].next].used
      BY DEF HolesInFront
    <3>1. x \in DOMAIN g /\ x \in Inner(h) /\ g[x].next \in DOMAIN g
      BY <2>5, <2>6, Order DEF Inner
    <3> QED BY <2>6, <2>8, <3>1 DEF HolesAt
  <2> QED BY <2>4, <2>5, <2>7, <2>9
<1>2. CASE ~HoleBehind(h, m)
  <2>1. p.header = h /\ p.lfree = l
    BY <1>2 DEF PlugForward
  <2>2. h[h[m].next].used
    BY <1>0, <1>2 DEF HoleBehind
  <2>3. HolesInFront(h, m)
    BY <2>2 DEF HolesInFront, HolesAt
  <2>4. KeepsUsed(h, h)
    BY DEF KeepsUsed
  <2> QED BY <2>1, <2>3, <2>4
<1> QED BY <1>1, <1>2

LEMMA BackwardStep ==
    ASSUME NEW h, Sound(h), NEW m \in Inner(h), ~h[m].used, HolesInFront(h, m),
           NEW l, Lfree(h, l), NEW p, p = PlugBackward(h, l, m)
    PROVE  /\ Sound(p.header) /\ KeepsUsed(h, p.header) /\ Lfree(p.header, p.lfree)
           /\ Lowest(h, l) => Lowest(p.header, p.lfree)
           /\ NoHoles(p.header)
<1>0. m \in DOMAIN h /\ m # heap_end /\ h[m].next # m /\ m \in Int
  BY Order
<1>1. CASE HoleInFront(h, m)
  <2>1. PICK a : a = h[m].prev
    OBVIOUS
  <2>2. PICK g : g = Merge(h, a, m)
    OBVIOUS
  <2>3. m # 0 /\ ~h[a].used
    BY <1>1, <2>1 DEF HoleInFront, Sound, Ends
  <2>4. a \in Inner(h) /\ m = h[a].next
    BY <2>1, <2>3 DEF Sound, Back
  <2>5. p.header = g /\ p.lfree = IF l = m THEN a ELSE l
    BY <1>1, <2>1, <2>2 DEF PlugBackward
  <2>6. /\ Sound(g) /\ KeepsUsed(h, g) /\ Lfree(g, p.lfree)
        /\ Lowest(h, l) => Lowest(g, p.lfree)
    BY <1>0, <2>2, <2>3, <2>4, <2>5, MergeFree
  <2>7. /\ DOMAIN g = (DOMAIN h) \ {m}
        /\ \A x \in DOMAIN g : /\ g[x].used = h[x].used
                               /\ g[x].next = IF x = a THEN h[m].next ELSE h[x].next
    BY <1>0, <2>2, <2>4, MergeStep DEF Merged
  <2>8. h[h[m].next].used
    BY <1>0 DEF HolesInFront
  <2>9. NoHoles(g)
    <3> SUFFICES ASSUME NEW x \in Inner(g)
                 PROVE  g[x].used \/ g[g[x].next].used
      BY DEF NoHoles
    <3>1. x \in DOMAIN g /\ x \in Inner(h) /\ g[x].next \in DOMAIN g
      BY <2>6, <2>7, Order DEF Inner
    <3>2. CASE x = a
      BY <2>7, <2>8, <3>1, <3>2
    <3>3. CASE x # a
      <4>1. h[x].next # m
        BY <1>0, <2>1, <3>1, <3>3 DEF Sound, Back
      <4> QED BY <2>7, <3>1, <3>3, <4>1 DEF HolesInFront
    <3> QED BY <3>2, <3>3
  <2> QED BY <2>5, <2>6, <2>9
<1>2. CASE ~HoleInFront(h, m)
  <2>1. p.header = h /\ p.lfree = l
    BY <1>2 DEF PlugBackward
  <2>2. \A x \in Inner(h) : h[x].next = m => h[x].used
    <3> SUFFICES ASSUME NEW x \in Inner(h), h[x].next = m PROVE h[x].used
      OBVIOUS
    <3>1. h[m].prev = x /\ x # m
      BY <1>0 DEF Sound, Back
    <3> QED BY <1>2, <3>1 DEF HoleInFront
  <2>3. NoHoles(h)
    BY <2>2 DEF NoHoles, HolesInFront
  <2>4. KeepsUsed(h, h)
    BY DEF KeepsUsed
  <2> QED BY <2>1, <2>3, <2>4
<1> QED BY <1>1, <1>2

LEMMA PlugStep ==
    ASSUME NEW h, Sound(h), NEW m \in Inner(h), ~h[m].used, HolesAt(h, m),
           NEW l, Lfree(h, l), NEW p, p = plug_holes(h, l, m)
    PROVE  /\ Sound(p.header) /\ KeepsUsed(h, p.header) /\ Lfree(p.header, p.lfree)
           /\ Lowest(h, l) => Lowest(p.header, p.lfree)
           /\ NoHoles(p.header)
<1>1. PICK q : q = PlugForward(h, l, m)
  OBVIOUS
<1>2. /\ Sound(q.header) /\ KeepsUsed(h, q.header) /\ Lfree(q.header, q.lfree)
      /\ Lowest(h, l) => Lowest(q.header, q.lfree)
      /\ m \in Inner(q.header) /\ ~q.header[m].used
      /\ HolesInFront(q.header, m)
  BY <1>1, ForwardStep
<1>3. p = PlugBackward(q.header, q.lfree, m)
  BY <1>1 DEF plug_holes
<1>4. /\ Sound(p.header) /\ KeepsUsed(q.header, p.header) /\ Lfree(p.header, p.lfree)
      /\ Lowest(q.header, q.lfree) => Lowest(p.header, p.lfree)
      /\ NoHoles(p.header)
  BY <1>2, <1>3, BackwardStep
<1> QED BY <1>2, <1>4, KeepsBoth

-----------------------------------------------------------------------------
(* rt_malloc *)

LEMMA LeastOf ==
    ASSUME NEW s \in SUBSET Nat, s # {}
    PROVE  Least(s) \in s /\ \A b \in s : Least(s) <= b
<1>1. \E a \in s : \A b \in s : a <= b
  BY Smallest
<1> QED BY <1>1 DEF Least

LEMMA NextFreeIsNext ==
    ASSUME NEW h, Sound(h), NEW a \in DOMAIN h
    PROVE  /\ Lfree(h, NextFree(h, a)) /\ NextFree(h, a) >= a
           /\ \A x \in Inner(h) : x >= a /\ x < NextFree(h, a) => h[x].used
<1> DEFINE s == {b \in DOMAIN h : b >= a /\ (~h[b].used \/ b = heap_end)}
<1>1. DOMAIN h \subseteq 0..heap_end /\ heap_end \in DOMAIN h
  BY DEF Sound, Ends
<1>2. s \in SUBSET Nat /\ heap_end \in s
  BY <1>1, Numbers
<1>3. NextFree(h, a) = Least(s)
  BY DEF NextFree
<1>4. PICK n : n = Least(s)
  OBVIOUS
<1>5. n \in s /\ \A b \in s : n <= b
  BY <1>2, <1>4, LeastOf
<1>6. Lfree(h, n) /\ n >= a
  BY <1>5 DEF Lfree
<1>7. ASSUME NEW x \in Inner(h), x >= a, x < n
      PROVE  h[x].used
  <2>1. x \in DOMAIN h /\ x \in Int /\ n \in Int
    BY <1>1, <1>2, <1>5 DEF Inner
  <2>2. x \notin s
    BY <1>5, <1>7, <2>1
  <2> QED BY <1>7, <2>1, <2>2
<1> QED BY <1>3, <1>4, <1>6, <1>7

(* A block that is taken is used and large enough, and every other block is as *)
(* it was; what is left of it is a free block.                                 *)
Changes(h, g, a) ==
    /\ DOMAIN h \subseteq DOMAIN g
    /\ \A x \in DOMAIN h : x # a => g[x].used = h[x].used /\ g[x].next = h[x].next
    /\ \A x \in DOMAIN g : x \notin DOMAIN h => ~g[x].used /\ x > a

LEMMA TakenStep ==
    ASSUME Sound(header), NoHoles(header), NEW a \in Inner(header), ~header[a].used,
           NEW size \in Nat, Room(header, a) >= size, NEW g, g = Taken(a, size)
    PROVE  /\ Sound(g) /\ NoHoles(g) /\ Changes(header, g, a)
           /\ a \in Inner(g) /\ g[a].used /\ Room(g, a) >= size
<1>1. PICK h : h = [header EXCEPT ![a].used = TRUE]
  OBVIOUS
<1>2. /\ Sound(h) /\ DOMAIN h = DOMAIN header /\ h[a].used
      /\ \A x \in DOMAIN header : /\ x # a => h[x].used = header[x].used
                                  /\ h[x].next = header[x].next
  <2>1. Sound(h) /\ Marks(header, h, a, TRUE)
    BY <1>1, MarkStep
  <2> QED BY <2>1 DEF Marks
<1>3. Inner(h) = Inner(header) /\ a \in DOMAIN header /\ a \in Int
  BY <1>2, Order DEF Inner
<1>4. NoHoles(h)
  <2> SUFFICES ASSUME NEW x \in Inner(h)
               PROVE  h[x].used \/ h[h[x].next].used
    BY DEF NoHoles
  <2>1. x \in DOMAIN header /\ header[x].next \in DOMAIN header
    BY <1>3, Order
  <2>2. header[x].used \/ header[header[x].next].used
    BY <1>3 DEF NoHoles
  <2>3. \A y \in DOMAIN header : header[y].used => h[y].used
    BY <1>2
  <2> QED BY <1>2, <2>1, <2>2, <2>3
<1>5. Changes(header, h, a)
  BY <1>2 DEF Changes
<1>6. Room(h, a) = Room(header, a) /\ h[a].next = header[a].next /\ header[a].next \in Int
  BY <1>2, <1>3, Order DEF Room
<1>7. CASE ~(Room(h, a) >= size + S + MIN_SIZE)
  <2>1. g = h
    BY <1>1, <1>7 DEF Taken
  <2> QED BY <1>2, <1>3, <1>4, <1>5, <1>6, <2>1
<1>8. CASE Room(h, a) >= size + S + MIN_SIZE
  <2>1. PICK c : c = a + S + size
    OBVIOUS
  <2>2. g = Split(h, a, c)
    BY <1>1, <1>8, <2>1 DEF Taken
  <2>3. c \in Int /\ a + S <= c /\ c + S <= h[a].next /\ c > a
    BY <1>3, <1>6, <1>8, <2>1, Numbers DEF Room
  <2>4. /\ Sound(g) /\ DOMAIN g = (DOMAIN h) \cup {c} /\ c \notin DOMAIN h
        /\ c \in Inner(g) /\ ~g[c].used /\ g[c].next = h[a].next /\ g[c].prev = a
        /\ g[a].next = c
        /\ \A x \in DOMAIN h : /\ g[x].used = h[x].used
                               /\ x # a => g[x].next = h[x].next
    <3>1. a \in Inner(h) /\ Sound(h)
      BY <1>2, <1>3
    <3>2. Sound(g) /\ c \in Inner(g) /\ IsSplit(h, g, a, c)
      BY <2>2, <2>3, <3>1, SplitStep
    <3> QED BY <3>2 DEF IsSplit
  <2>5. a \in Inner(g) /\ g[a].used
    BY <1>2, <1>3, <2>4 DEF Inner
  <2>6. Room(g, a) >= size
    BY <1>3, <2>1, <2>4, Numbers DEF Room
  <2>7. Changes(header, g, a)
    BY <1>2, <2>3, <2>4 DEF Changes
  <2>8. NoHoles(g)
    <3> SUFFICES ASSUME NEW x \in Inner(g)
                 PROVE  g[x].used \/ g[g[x].next].used
      BY DEF NoHoles
    <3>1. CASE x = c
      <4>1. header[header[a].next].used /\ header[a].next \in DOMAIN header
        BY Order DEF NoHoles
      <4>2. header[a].next # a
        BY <1>3, <1>6, <2>3, Numbers
      <4> QED BY <1>2, <1>6, <2>4, <3>1, <4>1, <4>2
    <3>2. CASE x # c
      <4>1. x \in Inner(h) /\ x \in DOMAIN h
        BY <2>4, <3>2 DEF Inner
      <4>2. h[x].next \in DOMAIN h
        BY <1>2, <4>1, Order
      <4> QED BY <1>4, <2>4, <2>5, <4>1, <4>2 DEF NoHoles
    <3> QED BY <3>1, <3>2
  <2> QED BY <2>4, <2>5, <2>6, <2>7, <2>8
<1> QED BY <1>7, <1>8

(* The list as the threads find it when none of them is inside. *)
ListOK(h, l) == Sound(h) /\ NoHoles(h) /\ Lfree(h, l)

(* What a step that gives block a away or takes it back leaves alone. *)
Leaves(h, g, a) ==
    /\ \A x \in Inner(h) : x # a /\ h[x].used => /\ x \in Inner(g) /\ g[x].used
                                                 /\ g[x].next = h[x].next
    /\ \A x \in Inner(g) : x # a /\ g[x].used => x \in Inner(h) /\ h[x].used

LEMMA AllocateStep ==
    ASSUME ListOK(header, lfree), NEW a, NEW size \in Sizes, Allocate(a, size)
    PROVE  /\ ListOK(header', lfree')
           /\ Lowest(header, lfree) => Lowest(header', lfree')
           /\ Leaves(header, header', a)
           /\ a \in Inner(header) /\ ~header[a].used
           /\ a \in Inner(header') /\ header'[a].used /\ size <= Room(header', a)
<1>1. PICK n : n = Request(size)
  OBVIOUS
<1>2. n \in Nat /\ size \in Nat /\ size <= n
  BY <1>1, HeapAssumption DEF Request
<1>3. Found(n) \in SUBSET Nat /\ Found(n) # {} /\ a = Least(Found(n))
  BY <1>1, Numbers DEF Allocate, Found, ListOK, Sound, Ends
<1>4. a \in Found(n)
  BY <1>3, LeastOf
<1>5. /\ a \in DOMAIN header /\ a >= lfree /\ a < mem_size_aligned - n
      /\ ~header[a].used /\ Room(header, a) >= n
  BY <1>4 DEF Found, Fits
<1>6. a \in Inner(header) /\ a \in Int /\ lfree \in Int /\ lfree \in DOMAIN header
  BY <1>2, <1>3, <1>4, <1>5, Numbers, Fields DEF Inner, ListOK, Lfree, Sound
<1>7. PICK g : g = header'
  OBVIOUS
<1>8. g = Taken(a, n) /\ lfree' = IF a = lfree THEN NextFree(g, a) ELSE lfree
  BY <1>1, <1>7 DEF Allocate
<1>9. /\ Sound(g) /\ NoHoles(g) /\ Changes(header, g, a)
      /\ a \in Inner(g) /\ g[a].used /\ Room(g, a) >= n
  BY <1>2, <1>5, <1>6, <1>8, TakenStep DEF ListOK
<1>10. Leaves(header, g, a)
  BY <1>9 DEF Leaves, Changes, Inner
<1>11. size <= Room(g, a)
  <2>1. a \in Int /\ g[a].next \in Int
    BY <1>9, Order
  <2> QED BY <1>2, <1>9, <2>1, Numbers DEF Room
<1>12. CASE a = lfree
  <2>1. PICK k : k = NextFree(g, a)
    OBVIOUS
  <2>2. /\ Lfree(g, k) /\ k >= a
        /\ \A x \in Inner(g) : x >= a /\ x < k => g[x].used
    BY <1>9, <2>1, NextFreeIsNext DEF Inner
  <2>3. lfree' = k
    BY <1>8, <1>12, <2>1
  <2>4. ASSUME Lowest(header, lfree), NEW x \in Inner(g), x < k
        PROVE  g[x].used
    <3>1. x \in Int
      BY <1>9, Order
    <3>2. CASE x >= a
      BY <2>2, <2>4, <3>2
    <3>3. CASE x < a
      <4>1. x \in DOMAIN header /\ x # a
        BY <1>6, <1>9, <3>1, <3>3 DEF Changes, Inner
      <4> QED BY <1>9, <1>12, <2>4, <3>3, <4>1 DEF Changes, Lowest, Inner
    <3> QED BY <1>6, <3>1, <3>2, <3>3
  <2>5. Lowest(header, lfree) => Lowest(g, k)
    BY <2>4 DEF Lowest
  <2> QED BY <1>5, <1>6, <1>7, <1>9, <1>10, <1>11, <2>2, <2>3, <2>5 DEF ListOK
<1>13. CASE a # lfree
  <2>1. lfree' = lfree
    BY <1>8, <1>13
  <2>2. Lfree(g, lfree)
    BY <1>9, <1>13 DEF ListOK, Lfree, Changes
  <2>3. ASSUME Lowest(header, lfree), NEW x \in Inner(g), x < lfree
        PROVE  g[x].used
    <3>1. x \in Int
      BY <1>9, Order
    <3>2. x \in DOMAIN header /\ x # a
      BY <1>5, <1>6, <1>9, <2>3, <3>1 DEF Changes, Inner
    <3> QED BY <1>9, <2>3, <3>2 DEF Changes, Lowest, Inner
  <2>4. Lowest(header, lfree) => Lowest(g, lfree)
    BY <2>3 DEF Lowest
  <2> QED BY <1>5, <1>6, <1>7, <1>9, <1>10, <1>11, <2>1, <2>2, <2>4 DEF ListOK
<1> QED BY <1>12, <1>13

-----------------------------------------------------------------------------
(* rt_free, and rt_realloc of a block that becomes smaller *)

LEMMA ReleaseStep ==
    ASSUME ListOK(header, lfree), NEW a \in Inner(header), header[a].used, Release(a)
    PROVE  /\ ListOK(header', lfree')
           /\ Lowest(header, lfree) => Lowest(header', lfree')
           /\ Leaves(header, header', a)
           /\ a \in Inner(header') => ~header'[a].used
<1>1. PICK h : h = [header EXCEPT ![a].used = FALSE]
  OBVIOUS
<1>2. PICK l : l = IF a < lfree THEN a ELSE lfree
  OBVIOUS
<1>3. PICK p : p = plug_holes(h, l, a)
  OBVIOUS
<1>4. header' = p.header /\ lfree' = p.lfree
  BY <1>1, <1>2, <1>3 DEF Release
<1>5. Sound(h) /\ Marks(header, h, a, FALSE)
  BY <1>1, MarkStep DEF ListOK
<1>6. /\ DOMAIN h = DOMAIN header /\ ~h[a].used
      /\ \A x \in DOMAIN header : /\ x # a => h[x].used = header[x].used
                                  /\ h[x].next = header[x].next
  BY <1>5 DEF Marks
<1>7. Inner(h) = Inner(header) /\ a \in DOMAIN header /\ a \in Int
  BY <1>6, Order DEF Inner, ListOK
<1>8. lfree \in Int /\ lfree \in DOMAIN header /\ Sound(header)
  BY Fields DEF ListOK, Lfree, Sound
<1>9. HolesAt(h, a)
  <2> SUFFICES ASSUME NEW x \in Inner(h), x # a, h[x].next # a
               PROVE  h[x].used \/ h[h[x].next].used
    BY DEF HolesAt
  <2>1. x \in DOMAIN header /\ x \in Inner(header) /\ header[x].next \in DOMAIN header
    BY <1>7, <1>8, Order
  <2>2. header[x].used \/ header[header[x].next].used
    BY <2>1 DEF ListOK, NoHoles
  <2> QED BY <1>6, <2>1, <2>2
<1>10. Lfree(h, l)
  <2>1. CASE l = a
    BY <1>6, <1>7, <2>1 DEF Lfree
  <2>2. CASE l # a
    <3>1. l = lfree
      BY <1>2, <2>2
    <3> QED BY <1>6, <1>8, <2>2, <3>1 DEF ListOK, Lfree
  <2> QED BY <2>1, <2>2
<1>11. Lowest(header, lfree) => Lowest(h, l)
  <2> SUFFICES ASSUME Lowest(header, lfree), NEW x \in Inner(h), x < l PROVE h[x].used
    BY DEF Lowest
  <2>1. x \in Inner(header) /\ x \in DOMAIN header /\ x \in Int
    BY <1>7, <1>8, Order
  <2>2. x # a /\ x < lfree
    BY <1>2, <1>7, <1>8, <2>1
  <2> QED BY <1>6, <2>1, <2>2 DEF Lowest
<1>12. /\ Sound(p.header) /\ KeepsUsed(h, p.header) /\ Lfree(p.header, p.lfree)
       /\ Lowest(h, l) => Lowest(p.header, p.lfree)
       /\ NoHoles(p.header)
  BY <1>3, <1>5, <1>6, <1>7, <1>9, <1>10, PlugStep
<1>13. Leaves(header, p.header, a)
  BY <1>6, <1>7, <1>12 DEF Leaves, KeepsUsed, Inner
<1>14. a \in Inner(p.header) => ~p.header[a].used
  BY <1>6, <1>12 DEF KeepsUsed, Inner
<1> QED BY <1>4, <1>11, <1>12, <1>13, <1>14 DEF ListOK

LEMMA ShrinkStep ==
    ASSUME ListOK(header, lfree), NEW a \in Inner(header), header[a].used,
           NEW size \in Nat, Splits(a, size), NEW p,
           p = plug_holes(Split(header, a, a + S + size), lfree, a + S + size)
    PROVE  /\ ListOK(p.header, p.lfree) /\ Leaves(header, p.header, a)
           /\ a \in Inner(p.header) /\ p.header[a].used /\ size <= Room(p.header, a)
<1>1. PICK c : c = a + S + size
  OBVIOUS
<1>2. PICK h : h = Split(header, a, c)
  OBVIOUS
<1>3. /\ a \in DOMAIN header /\ a \in Int /\ header[a].next \in Int /\ Sound(header)
      /\ a # heap_end
  BY Order DEF ListOK
<1>4. c \in Int /\ a + S <= c /\ c + S <= header[a].next
  BY <1>1, <1>3, Numbers DEF Splits, Room
<1>5. Sound(h) /\ c \in Inner(h) /\ IsSplit(header, h, a, c)
  BY <1>2, <1>3, <1>4, SplitStep
<1>6. /\ DOMAIN h = (DOMAIN header) \cup {c} /\ c \notin DOMAIN header
      /\ ~h[c].used /\ h[a].next = c
      /\ \A x \in DOMAIN header : /\ h[x].used = header[x].used
                                  /\ x # a => h[x].next = header[x].next
  BY <1>5 DEF IsSplit
<1>7. HolesAt(h, c)
  <2> SUFFICES ASSUME NEW x \in Inner(h), x # c, h[x].next # c
               PROVE  h[x].used \/ h[h[x].next].used
    BY DEF HolesAt
  <2>1. x \in Inner(header) /\ x \in DOMAIN header /\ x # a
    BY <1>6 DEF Inner
  <2>2. header[x].next \in DOMAIN header
    BY <1>3, <2>1, Order
  <2>3. header[x].used \/ header[header[x].next].used
    BY <2>1 DEF ListOK, NoHoles
  <2> QED BY <1>6, <2>1, <2>2, <2>3
<1>8. Lfree(h, lfree)
  BY <1>6 DEF ListOK, Lfree
<1>9. p = plug_holes(h, lfree, c)
  BY <1>1, <1>2
<1>10. /\ Sound(p.header) /\ KeepsUsed(h, p.header) /\ Lfree(p.header, p.lfree)
       /\ NoHoles(p.header)
  BY <1>5, <1>6, <1>7, <1>8, <1>9, PlugStep
<1>11. Leaves(header, p.header, a)
  BY <1>6, <1>10 DEF Leaves, KeepsUsed, Inner
<1>12. a \in Inner(p.header) /\ p.header[a].used /\ p.header[a].next = c
  BY <1>3, <1>6, <1>10 DEF KeepsUsed, Inner
<1>13. size <= Room(p.header, a)
  BY <1>1, <1>3, <1>12, Numbers DEF Room
<1> QED BY <1>10, <1>11, <1>12, <1>13 DEF ListOK

-----------------------------------------------------------------------------
(* The invariant: the list is sound between two calls, and what is in use is    *)
(* held by one thread.                                                          *)

ListInv == ListOK(header, lfree) /\ (~shrunk => Lowest(header, lfree)) /\ shrunk \in BOOLEAN
HeldInv ==
    /\ held \in [Thread -> SUBSET Inner(header)]
    /\ DOMAIN asked = UNION {held[t] : t \in Thread}
    /\ \A x \in DOMAIN asked : asked[x] \in Sizes
    /\ OwnMemory /\ NothingLost
CallOK(t) == \/ call[t] = Idle
             \/ \E a \in held[t], n \in Sizes : call[t] = Moving(a, n)
             \/ \E a, b \in held[t] : a # b /\ call[t] = Moved(a, b)
CallInv == call = [t \in Thread |-> call[t]] /\ \A t \in Thread : CallOK(t)
IInv == ListInv /\ HeldInv /\ CallInv

(* A block comes to t, or stays with it, and now is for size words. *)
LEMMA HeldTakes ==
    ASSUME HeldInv, NEW t \in Thread, NEW a, NEW size \in Sizes,
           Leaves(header, header', a), a \in Inner(header'), header'[a].used,
           size <= Room(header', a), \A u \in Thread : u # t => a \notin held[u],
           held' = [held EXCEPT ![t] = @ \cup {a}], Asking(a, size)
    PROVE  HeldInv'
<1>1. /\ held' = [u \in Thread |-> IF u = t THEN held[t] \cup {a} ELSE held[u]]
      /\ \A u \in Thread : held'[u] = IF u = t THEN held[t] \cup {a} ELSE held[u]
  BY DEF HeldInv
<1>2. \A u \in Thread : \A x \in held[u] : x \in Inner(header) /\ header[x].used
  BY DEF HeldInv, OwnMemory
<1>3. \A u \in Thread : held'[u] \in SUBSET Inner(header')
  BY <1>1, <1>2 DEF Leaves
<1>4. held' \in [Thread -> SUBSET Inner(header')]
  BY <1>1, <1>3
<1>5. /\ DOMAIN asked' = (DOMAIN asked) \cup {a}
      /\ \A x \in DOMAIN asked' : asked'[x] = IF x = a THEN size ELSE asked[x]
  BY DEF Asking
<1>6. DOMAIN asked' = UNION {held'[u] : u \in Thread}
  BY <1>1, <1>5 DEF HeldInv
<1>7. \A x \in DOMAIN asked' : asked'[x] \in Sizes
  BY <1>5 DEF HeldInv
<1>8. OwnMemory'
  <2>1. \A u, v \in Thread : u # v => held'[u] \cap held'[v] = {}
    BY <1>1 DEF HeldInv, OwnMemory
  <2>2. ASSUME NEW u \in Thread, NEW x \in held'[u]
        PROVE  header'[x].used /\ asked'[x] <= Room(header', x)
    <3>1. x \in DOMAIN asked'
      BY <1>6, <2>2
    <3>2. CASE x = a
      BY <1>5, <3>1, <3>2
    <3>3. CASE x # a
      <4>1. x \in held[u] /\ x \in Inner(header) /\ header[x].used
        BY <1>1, <1>2, <2>2, <3>3
      <4>2. asked[x] <= Room(header, x)
        BY <4>1 DEF HeldInv, OwnMemory
      <4>3. header'[x].used /\ header'[x].next = header[x].next
        BY <3>3, <4>1 DEF Leaves
      <4> QED BY <1>5, <3>1, <3>3, <4>2, <4>3 DEF Room
    <3> QED BY <3>2, <3>3
  <2> QED BY <2>1, <2>2 DEF OwnMemory
<1>9. NothingLost'
  <2> SUFFICES ASSUME NEW x \in Inner(header'), header'[x].used
               PROVE  \E u \in Thread : x \in held'[u]
    BY DEF NothingLost, Blocks, Inner
  <2>1. CASE x = a
    BY <1>1, <2>1
  <2>2. CASE x # a
    <3>1. x \in Inner(header) /\ header[x].used
      BY <2>2 DEF Leaves
    <3>2. PICK u \in Thread : x \in held[u]
      BY <3>1 DEF HeldInv, NothingLost, Blocks, Inner
    <3> QED BY <1>1, <3>2
  <2> QED BY <2>1, <2>2
<1> QED BY <1>4, <1>6, <1>7, <1>8, <1>9 DEF HeldInv

(* A block of t goes back to the heap. *)
LEMMA HeldGives ==
    ASSUME HeldInv, NEW t \in Thread, NEW a \in held[t],
           Leaves(header, header', a), a \in Inner(header') => ~header'[a].used,
           held' = [held EXCEPT ![t] = @ \ {a}], Forgetting(a)
    PROVE  HeldInv'
<1>0. \A u \in Thread : u # t => a \notin held[u]
  BY DEF HeldInv, OwnMemory
<1>1. /\ held' = [u \in Thread |-> held[u] \ {a}]
      /\ \A u \in Thread : held'[u] = held[u] \ {a}
  BY <1>0 DEF HeldInv
<1>2. \A u \in Thread : \A x \in held[u] : x \in Inner(header) /\ header[x].used
  BY DEF HeldInv, OwnMemory
<1>3. \A u \in Thread : held'[u] \in SUBSET Inner(header')
  BY <1>1, <1>2 DEF Leaves
<1>4. held' \in [Thread -> SUBSET Inner(header')]
  BY <1>1, <1>3
<1>5. /\ DOMAIN asked' = (DOMAIN asked) \ {a}
      /\ \A x \in DOMAIN asked' : asked'[x] = asked[x]
  BY DEF Forgetting, Restrict
<1>6. DOMAIN asked' = UNION {held'[u] : u \in Thread}
  BY <1>1, <1>5 DEF HeldInv
<1>7. \A x \in DOMAIN asked' : asked'[x] \in Sizes
  BY <1>5 DEF HeldInv
<1>8. OwnMemory'
  <2>1. \A u, v \in Thread : u # v => held'[u] \cap held'[v] = {}
    BY <1>1 DEF HeldInv, OwnMemory
  <2>2. ASSUME NEW u \in Thread, NEW x \in held'[u]
        PROVE  header'[x].used /\ asked'[x] <= Room(header', x)
    <3>1. x \in DOMAIN asked' /\ x # a
      BY <1>1, <1>6, <2>2
    <3>2. x \in held[u] /\ x \in Inner(header) /\ header[x].used
      BY <1>1, <1>2, <2>2
    <3>3. asked[x] <= Room(header, x)
      BY <3>2 DEF HeldInv, OwnMemory
    <3>4. header'[x].used /\ header'[x].next = header[x].next
      BY <3>1, <3>2 DEF Leaves
    <3> QED BY <1>5, <3>1, <3>3, <3>4 DEF Room
  <2> QED BY <2>1, <2>2 DEF OwnMemory
<1>9. NothingLost'
  <2> SUFFICES ASSUME NEW x \in Inner(header'), header'[x].used
               PROVE  \E u \in Thread : x \in held'[u]
    BY DEF NothingLost, Blocks, Inner
  <2>1. x # a /\ x \in Inner(header) /\ header[x].used
    BY DEF Leaves
  <2>2. PICK u \in Thread : x \in held[u]
    BY <2>1 DEF HeldInv, NothingLost, Blocks, Inner
  <2> QED BY <1>1, <2>1, <2>2
<1> QED BY <1>4, <1>6, <1>7, <1>8, <1>9 DEF HeldInv

(* Only t went on, and keeps the blocks its call is about. *)
LEMMA CallStep ==
    ASSUME CallInv, NEW t \in Thread, NEW k, call' = [call EXCEPT ![t] = k], CallOK(t)',
           \A u \in Thread : u # t => held'[u] = held[u]
    PROVE  CallInv'
<1>1. /\ call' = [u \in Thread |-> call'[u]]
      /\ \A u \in Thread : u # t => call'[u] = call[u]
  BY DEF CallInv
<1>2. \A u \in Thread : CallOK(u)'
  <2> SUFFICES ASSUME NEW u \in Thread PROVE CallOK(u)'
    OBVIOUS
  <2>1. CASE u = t
    BY <2>1
  <2>2. CASE u # t
    <3>1. call'[u] = call[u] /\ held'[u] = held[u] /\ CallOK(u)
      BY <1>1, <2>2 DEF CallInv
    <3> QED BY <3>1 DEF CallOK
  <2> QED BY <2>1, <2>2
<1> QED BY <1>1, <1>2 DEF CallInv

LEMMA CallStays ==
    ASSUME CallInv, NEW t \in Thread, call[t] = Idle, UNCHANGED call,
           \A u \in Thread : u # t => held'[u] = held[u]
    PROVE  CallInv'
<1>1. \A u \in Thread : CallOK(u)'
  <2> SUFFICES ASSUME NEW u \in Thread PROVE CallOK(u)'
    OBVIOUS
  <2>1. CASE u = t
    BY <2>1 DEF CallOK
  <2>2. CASE u # t
    <3>1. call'[u] = call[u] /\ held'[u] = held[u] /\ CallOK(u)
      BY <2>2 DEF CallInv
    <3> QED BY <3>1 DEF CallOK
  <2> QED BY <2>1, <2>2
<1> QED BY <1>1 DEF CallInv

(* A block that is free is not held. *)
LEMMA FreeNotHeld ==
    ASSUME HeldInv, NEW a, ~header[a].used
    PROVE  \A u \in Thread : a \notin held[u]
BY DEF HeldInv, OwnMemory

LEMMA HeldIsUsed ==
    ASSUME HeldInv, NEW t \in Thread, NEW a \in held[t]
    PROVE  a \in Inner(header) /\ header[a].used
BY DEF HeldInv, OwnMemory

LEMMA MallocStep ==
    ASSUME IInv, NEW t \in Thread, NEW size \in Sizes, Malloc(t, size)
    PROVE  IInv'
<1>1. ListInv /\ HeldInv /\ CallInv /\ ListOK(header, lfree)
  BY DEF IInv, ListInv
<1>2. PICK a \in DOMAIN header : /\ Allocate(a, size) /\ Asking(a, size)
                                 /\ held' = [held EXCEPT ![t] = @ \cup {a}]
  BY DEF Malloc
<1>3. call[t] = Idle /\ UNCHANGED <<call, shrunk>>
  BY DEF Malloc
<1>4. /\ ListOK(header', lfree')
      /\ Lowest(header, lfree) => Lowest(header', lfree')
      /\ Leaves(header, header', a)
      /\ a \in Inner(header) /\ ~header[a].used
      /\ a \in Inner(header') /\ header'[a].used /\ size <= Room(header', a)
  BY <1>1, <1>2, AllocateStep
<1>5. ListInv'
  BY <1>1, <1>3, <1>4 DEF ListInv
<1>6. HeldInv'
  BY <1>1, <1>2, <1>4, FreeNotHeld, HeldTakes
<1>7. CallInv'
  <2>1. \A u \in Thread : u # t => held'[u] = held[u]
    BY <1>1, <1>2 DEF HeldInv
  <2> QED BY <1>1, <1>3, <2>1, CallStays
<1> QED BY <1>5, <1>6, <1>7 DEF IInv

LEMMA FreeStep ==
    ASSUME IInv, NEW t \in Thread, NEW a \in held[t], Free(t, a)
    PROVE  IInv'
<1>1. ListInv /\ HeldInv /\ CallInv /\ ListOK(header, lfree)
  BY DEF IInv, ListInv
<1>2. /\ call[t] = Idle /\ Release(a) /\ Forgetting(a)
      /\ held' = [held EXCEPT ![t] = @ \ {a}]
      /\ UNCHANGED <<call, shrunk>>
  BY DEF Free
<1>3. a \in Inner(header) /\ header[a].used
  BY <1>1, HeldIsUsed
<1>4. /\ ListOK(header', lfree')
      /\ Lowest(header, lfree) => Lowest(header', lfree')
      /\ Leaves(header, header', a)
      /\ a \in Inner(header') => ~header'[a].used
  BY <1>1, <1>2, <1>3, ReleaseStep
<1>5. ListInv'
  BY <1>1, <1>2, <1>4 DEF ListInv
<1>6. HeldInv'
  BY <1>1, <1>2, <1>4, HeldGives
<1>7. CallInv'
  <2>1. \A u \in Thread : u # t => held'[u] = held[u]
    BY <1>1, <1>2 DEF HeldInv
  <2> QED BY <1>1, <1>2, <2>1, CallStays
<1> QED BY <1>5, <1>6, <1>7 DEF IInv

LEMMA ResizeStep ==
    ASSUME IInv, NEW t \in Thread, NEW a \in held[t], NEW size \in Sizes,
           Shrink(t, a, size)
    PROVE  IInv'
<1>1. ListInv /\ HeldInv /\ CallInv /\ ListOK(header, lfree)
  BY DEF IInv, ListInv
<1>2. PICK p : p = plug_holes(Split(header, a, a + S + size), lfree, a + S + size)
  OBVIOUS
<1>3. /\ call[t] = Idle /\ Splits(a, size) /\ header' = p.header /\ lfree' = p.lfree
      /\ Asking(a, size) /\ shrunk' = TRUE /\ UNCHANGED <<held, call>>
  BY <1>2 DEF Shrink
<1>4. a \in Inner(header) /\ header[a].used /\ size \in Nat
  BY <1>1, HeldIsUsed, HeapAssumption
<1>5. /\ ListOK(p.header, p.lfree) /\ Leaves(header, p.header, a)
      /\ a \in Inner(p.header) /\ p.header[a].used /\ size <= Room(p.header, a)
  BY <1>1, <1>2, <1>3, <1>4, ShrinkStep
<1>6. ListInv'
  BY <1>3, <1>5 DEF ListInv
<1>7. HeldInv'
  <2>1. held' = [held EXCEPT ![t] = @ \cup {a}]
    <3>1. held \in [Thread -> SUBSET Inner(header)] /\ held[t] \cup {a} = held[t]
      BY <1>1 DEF HeldInv
    <3> QED BY <1>3, <3>1
  <2>2. \A u \in Thread : u # t => a \notin held[u]
    BY <1>1 DEF HeldInv, OwnMemory
  <2>3. /\ Leaves(header, header', a) /\ a \in Inner(header') /\ header'[a].used
        /\ size <= Room(header', a)
    BY <1>3, <1>5
  <2> QED BY <1>1, <1>3, <2>1, <2>2, <2>3, HeldTakes
<1>8. CallInv'
  BY <1>1, <1>3, CallStays
<1> QED BY <1>6, <1>7, <1>8 DEF IInv

LEMMA HeldStays ==
    ASSUME HeldInv, UNCHANGED <<header, held, asked>>
    PROVE  HeldInv'
BY DEF HeldInv, OwnMemory, NothingLost, Blocks, Inner, Room

LEMMA ListStays ==
    ASSUME ListInv, UNCHANGED <<header, lfree, shrunk>>
    PROVE  ListInv'
BY DEF ListInv

LEMMA MoveStep ==
    ASSUME IInv, NEW t \in Thread, NEW a \in held[t], NEW size \in Sizes,
           Move(t, a, size)
    PROVE  IInv'
<1>1. /\ call' = [call EXCEPT ![t] = Moving(a, size)]
      /\ UNCHANGED <<header, lfree, held, asked, shrunk>>
  BY DEF Move
<1>2. call'[t] = Moving(a, size)
  BY <1>1 DEF IInv, CallInv
<1>3. CallOK(t)'
  BY <1>1, <1>2 DEF CallOK
<1>4. CallInv'
  BY <1>1, <1>3, CallStep DEF IInv
<1>5. HeldInv' /\ ListInv'
  BY <1>1, HeldStays, ListStays DEF IInv
<1> QED BY <1>4, <1>5 DEF IInv

LEMMA MoveRefusedStep ==
    ASSUME IInv, NEW t \in Thread, MoveRefused(t)
    PROVE  IInv'
<1>1. call' = [call EXCEPT ![t] = Idle] /\ UNCHANGED <<header, lfree, held, asked, shrunk>>
  BY DEF MoveRefused
<1>2. call'[t] = Idle
  BY <1>1 DEF IInv, CallInv
<1>3. CallOK(t)'
  BY <1>2 DEF CallOK
<1>4. CallInv'
  BY <1>1, <1>3, CallStep DEF IInv
<1>5. HeldInv' /\ ListInv'
  BY <1>1, HeldStays, ListStays DEF IInv
<1> QED BY <1>4, <1>5 DEF IInv

LEMMA MoveMallocStep ==
    ASSUME IInv, NEW t \in Thread, MoveMalloc(t)
    PROVE  IInv'
<1>1. ListInv /\ HeldInv /\ CallInv /\ ListOK(header, lfree)
  BY DEF IInv, ListInv
<1>2. PICK a \in held[t], n \in Sizes : call[t] = Moving(a, n)
  BY <1>1 DEF MoveMalloc, CallInv, CallOK, Idle, Moved
<1>3. call[t].size = n /\ call[t].old = a
  BY <1>2 DEF Moving
<1>4. PICK b \in DOMAIN header : /\ Allocate(b, n) /\ Asking(b, n)
                                 /\ held' = [held EXCEPT ![t] = @ \cup {b}]
                                 /\ call' = [call EXCEPT ![t] = Moved(call[t].old, b)]
  BY <1>3 DEF MoveMalloc
<1>5. UNCHANGED shrunk
  BY DEF MoveMalloc
<1>6. /\ ListOK(header', lfree')
      /\ Lowest(header, lfree) => Lowest(header', lfree')
      /\ Leaves(header, header', b)
      /\ b \in Inner(header) /\ ~header[b].used
      /\ b \in Inner(header') /\ header'[b].used /\ n <= Room(header', b)
  BY <1>1, <1>4, AllocateStep
<1>7. ListInv'
  BY <1>1, <1>5, <1>6 DEF ListInv
<1>8. \A u \in Thread : b \notin held[u]
  BY <1>1, <1>6, FreeNotHeld
<1>9. HeldInv'
  BY <1>1, <1>4, <1>6, <1>8, HeldTakes
<1>10. CallInv'
  <2>1. /\ held'[t] = held[t] \cup {b}
        /\ \A u \in Thread : u # t => held'[u] = held[u]
    BY <1>1, <1>4 DEF HeldInv
  <2>2. a # b /\ a \in held'[t] /\ b \in held'[t]
    BY <1>8, <2>1
  <2>3. call' = [call EXCEPT ![t] = Moved(a, b)]
    BY <1>3, <1>4
  <2>4. call'[t] = Moved(a, b)
    BY <1>1, <2>3 DEF CallInv
  <2>5. CallOK(t)'
    BY <2>2, <2>4 DEF CallOK
  <2> QED BY <1>1, <2>1, <2>3, <2>5, CallStep
<1> QED BY <1>7, <1>9, <1>10 DEF IInv

LEMMA MoveFreeStep ==
    ASSUME IInv, NEW t \in Thread, MoveFree(t)
    PROVE  IInv'
<1>1. ListInv /\ HeldInv /\ CallInv /\ ListOK(header, lfree)
  BY DEF IInv, ListInv
<1>2. PICK a, b \in held[t] : a # b /\ call[t] = Moved(a, b)
  BY <1>1 DEF MoveFree, CallInv, CallOK, Idle, Moving
<1>3. call[t].old = a
  BY <1>2 DEF Moved
<1>4. /\ Release(a) /\ Forgetting(a) /\ held' = [held EXCEPT ![t] = @ \ {a}]
      /\ call' = [call EXCEPT ![t] = Idle] /\ UNCHANGED shrunk
  BY <1>3 DEF MoveFree
<1>5. a \in Inner(header) /\ header[a].used
  BY <1>1, HeldIsUsed
<1>6. /\ ListOK(header', lfree')
      /\ Lowest(header, lfree) => Lowest(header', lfree')
      /\ Leaves(header, header', a)
      /\ a \in Inner(header') => ~header'[a].used
  BY <1>1, <1>4, <1>5, ReleaseStep
<1>7. ListInv'
  BY <1>1, <1>4, <1>6 DEF ListInv
<1>8. HeldInv'
  BY <1>1, <1>4, <1>6, HeldGives
<1>9. CallInv'
  <2>1. \A u \in Thread : u # t => held'[u] = held[u]
    BY <1>1, <1>4 DEF HeldInv
  <2>2. call'[t] = Idle
    BY <1>1, <1>4 DEF CallInv
  <2>3. CallOK(t)'
    BY <2>2 DEF CallOK
  <2> QED BY <1>1, <1>4, <2>1, <2>3, CallStep
<1> QED BY <1>7, <1>8, <1>9 DEF IInv

LEMMA InitInv == Init => IInv
<1> SUFFICES ASSUME Init PROVE IInv
  OBVIOUS
<1> USE DEF Init
<1>1. /\ DOMAIN header = {0, heap_end} /\ Inner(header) = {0}
      /\ header[0] = [used |-> FALSE, next |-> heap_end, prev |-> 0]
      /\ header[heap_end] = [used |-> TRUE, next |-> heap_end, prev |-> heap_end]
      /\ header \in [DOMAIN header -> Header]
  <2>1. 0 # heap_end /\ 0 \in 0..heap_end /\ heap_end \in 0..heap_end
    BY Numbers
  <2> QED BY <2>1 DEF Header, Inner
<1>9. lfree = 0 /\ shrunk = FALSE
  OBVIOUS
<1> HIDE DEF Init
<1>2. Ends(header)
  BY <1>1, Numbers DEF Ends
<1>3. Forth(header)
  <2> SUFFICES ASSUME NEW x \in Inner(header)
               PROVE  /\ header[x].next \in DOMAIN header /\ header[x].next >= x + S
                      /\ \A y \in DOMAIN header : y <= x \/ y >= header[x].next
    BY DEF Forth
  <2>1. x = 0 /\ header[x].next = heap_end /\ heap_end >= 0 + S
    BY <1>1, Numbers
  <2>2. ASSUME NEW y \in DOMAIN header PROVE y <= 0 \/ y >= heap_end
    <3>1. y = 0 \/ y = heap_end
      BY <1>1
    <3> QED BY <3>1, Numbers
  <2> QED BY <1>1, <2>1, <2>2
<1>4. Back(header) /\ NoHoles(header)
  BY <1>1 DEF Back, NoHoles
<1>5. Lfree(header, lfree) /\ Lowest(header, lfree)
  <2>1. lfree = 0 /\ 0 \in DOMAIN header /\ ~header[0].used
    BY <1>1, <1>9
  <2>2. \A x \in Inner(header) : ~(x < 0)
    BY <1>1
  <2> QED BY <2>1, <2>2 DEF Lfree, Lowest
<1>6. ListInv
  BY <1>2, <1>3, <1>4, <1>5, <1>9 DEF ListInv, ListOK, Sound
<1>7. HeldInv
  <2>1. held \in [Thread -> SUBSET Inner(header)] /\ \A t \in Thread : held[t] = {}
    BY DEF Init
  <2>2. DOMAIN asked = {}
    BY DEF Init
  <2>3. DOMAIN asked = UNION {held[t] : t \in Thread}
    BY <2>1, <2>2
  <2>4. OwnMemory /\ NothingLost
    BY <1>1, <2>1 DEF OwnMemory, NothingLost, Blocks, Inner
  <2> QED BY <2>1, <2>2, <2>3, <2>4 DEF HeldInv
<1>8. CallInv
  BY DEF Init, CallInv, CallOK
<1> QED BY <1>6, <1>7, <1>8 DEF IInv

LEMMA StepInv == IInv /\ [Next]_vars => IInv'
<1> SUFFICES ASSUME IInv, [Next]_vars PROVE IInv'
  OBVIOUS
<1>1. CASE UNCHANGED vars
  <2>1. UNCHANGED <<header, lfree, held, call, asked, shrunk>>
    BY <1>1 DEF vars
  <2>2. CallInv'
    BY <2>1 DEF IInv, CallInv, CallOK
  <2> QED BY <2>1, <2>2, HeldStays, ListStays DEF IInv
<1>2. CASE Next
  <2> SUFFICES ASSUME NEW t \in Thread,
                      \/ \E size \in Sizes : Malloc(t, size)
                      \/ \E a \in held[t] : Free(t, a)
                      \/ \E a \in held[t] : \E size \in Sizes : Shrink(t, a, size)
                      \/ \E a \in held[t] : \E size \in Sizes : Move(t, a, size)
                      \/ MoveMalloc(t) \/ MoveRefused(t) \/ MoveFree(t)
               PROVE  IInv'
    BY <1>2 DEF Next
  <2>1. CASE \E size \in Sizes : Malloc(t, size)
    BY <2>1, MallocStep
  <2>2. CASE \E a \in held[t] : Free(t, a)
    BY <2>2, FreeStep
  <2>3. CASE \E a \in held[t] : \E size \in Sizes : Shrink(t, a, size)
    BY <2>3, ResizeStep
  <2>4. CASE \E a \in held[t] : \E size \in Sizes : Move(t, a, size)
    BY <2>4, MoveStep
  <2>5. CASE MoveMalloc(t) \/ MoveRefused(t) \/ MoveFree(t)
    BY <2>5, MoveMallocStep, MoveRefusedStep, MoveFreeStep
  <2> QED BY <2>1, <2>2, <2>3, <2>4, <2>5
<1> QED BY <1>1, <1>2

LEMMA Invariance == Spec => []IInv
BY InitInv, StepInv, PTL DEF Spec

-----------------------------------------------------------------------------

(* However threads allocate, resize and free, and whatever comes between the    *)
(* parts of an rt_realloc: the list leads through all blocks and back, free     *)
(* neighbours are merged, what rt_malloc asserts of lfree holds, and a block is *)
(* in use exactly while one thread holds it, with the room that thread asked    *)
(* for.                                                                         *)
THEOREM HeapIsSound == Spec => []HeapOK
<1>1. IInv => HeapOK
  <2> SUFFICES ASSUME IInv PROVE HeapOK
    OBVIOUS
  <2>1. Ends(header) /\ Forth(header) /\ Back(header) /\ NoHoles(header) /\ Lfree(header, lfree)
    BY DEF IInv, ListInv, ListOK, Sound
  <2>2. Blocks = Inner(header)
    BY DEF Blocks, Inner
  <2>3. TypeOK
    <3>1. DOMAIN asked = UNION Range(held)
      <4>1. DOMAIN held = Thread
        BY DEF IInv, HeldInv
      <4>2. Range(held) = {held[t] : t \in Thread}
        BY <4>1 DEF Range
      <4> QED BY <4>2 DEF IInv, HeldInv
    <3>2. Range(asked) \subseteq Sizes
      BY DEF IInv, HeldInv, Range
    <3>3. \A t \in Thread : \/ call[t] = Idle
                            \/ \E a \in held[t], n \in Sizes : call[t] = Moving(a, n)
                            \/ \E a, b \in held[t] : a # b /\ call[t] = Moved(a, b)
      BY DEF IInv, CallInv, CallOK
    <3>4. held \in [Thread -> SUBSET Blocks] /\ shrunk \in BOOLEAN
      BY <2>2 DEF IInv, HeldInv, ListInv
    <3>5. header \in [DOMAIN header ->
                         [used : BOOLEAN, next : 0..heap_end, prev : 0..heap_end]]
      BY <2>1 DEF Ends, Header
    <3>6. /\ DOMAIN header \subseteq 0..heap_end /\ {0, heap_end} \subseteq DOMAIN header
          /\ lfree \in DOMAIN header
      BY <2>1 DEF Ends, Lfree
    <3> QED BY <3>1, <3>2, <3>3, <3>4, <3>5, <3>6 DEF TypeOK
  <2>4. Chain
    BY <2>1, <2>2 DEF Chain, Ends, Forth, Back
  <2>5. NoFreeNeighbours /\ LfreeIsFree
    BY <2>1, <2>2 DEF NoFreeNeighbours, NoHoles, LfreeIsFree, Lfree
  <2>6. OwnMemory /\ NothingLost
    BY DEF IInv, HeldInv
  <2> QED BY <2>3, <2>4, <2>5, <2>6 DEF HeapOK
<1> QED BY <1>1, Invariance, PTL

(* The words that t got with block x are a region of the memory, *)
Words(x) == [at |-> x + S, size |-> asked[x]]

LEMMA OwnedIs ==
    ASSUME NEW t \in Thread
    PROVE  Owned[t] = {Words(x) : x \in held[t]}
BY DEF Owned, Words

LEMMA WordsOf ==
    ASSUME IInv, NEW u \in Thread, NEW x \in held[u]
    PROVE  /\ x \in Inner(header) /\ x \in Int /\ asked[x] \in Sizes /\ asked[x] \in Int
           /\ x >= 0 /\ header[x].next \in Int
           /\ x + S + asked[x] <= header[x].next /\ header[x].next <= heap_end
<1>1. x \in Inner(header) /\ Sound(header) /\ asked[x] <= Room(header, x) /\ x \in DOMAIN asked
  BY DEF IInv, ListInv, ListOK, HeldInv, OwnMemory
<1>2. /\ x \in Int /\ x \in 0..heap_end /\ header[x].next \in Int
      /\ header[x].next <= heap_end
  BY <1>1, Order
<1>3. asked[x] \in Sizes /\ asked[x] \in Int
  <2>1. asked[x] \in Sizes
    BY <1>1 DEF IInv, HeldInv
  <2>2. \A n \in Sizes : n \in Nat
    BY HeapAssumption
  <2> QED BY <2>1, <2>2
<1>4. asked[x] <= header[x].next - (x + S)
  BY <1>1 DEF Room
<1> QED BY <1>1, <1>2, <1>3, <1>4, Numbers

(* and two blocks have no word in common. *)
LEMMA WordsApart ==
    ASSUME IInv, NEW u \in Thread, NEW v \in Thread,
           NEW x \in held[u], NEW y \in held[v], x # y
    PROVE  Memory!Apart(Words(x), Words(y))
<1>1. /\ x \in Inner(header) /\ x \in Int /\ asked[x] \in Int /\ header[x].next \in Int
      /\ x + S + asked[x] <= header[x].next
  BY WordsOf
<1>2. /\ y \in Inner(header) /\ y \in Int /\ asked[y] \in Int /\ header[y].next \in Int
      /\ y + S + asked[y] <= header[y].next
  BY WordsOf
<1>3. Sound(header) /\ x \in DOMAIN header /\ y \in DOMAIN header
  BY <1>1, <1>2 DEF IInv, ListInv, ListOK, Inner
<1>4. (y <= x \/ y >= header[x].next) /\ (x <= y \/ x >= header[y].next)
  BY <1>1, <1>2, <1>3, Order
<1>5. x + S + asked[x] <= y + S \/ y + S + asked[y] <= x + S
  BY <1>1, <1>2, <1>4, Numbers
<1> QED BY <1>5 DEF Memory!Apart, Words

Regions ==
    /\ \A u \in Thread : \A x \in held[u] :
          x >= 0 /\ x \in Int /\ asked[x] \in Sizes /\ x + S + asked[x] <= heap_end
    /\ \A u, v \in Thread : \A x \in held[u], y \in held[v] :
          x # y => Memory!Apart(Words(x), Words(y))

LEMMA InRegions == IInv => Regions
<1> SUFFICES ASSUME IInv PROVE Regions
  OBVIOUS
<1>1. ASSUME NEW u \in Thread, NEW x \in held[u]
      PROVE  x >= 0 /\ x \in Int /\ asked[x] \in Sizes /\ x + S + asked[x] <= heap_end
  <2>1. /\ x \in Int /\ asked[x] \in Sizes /\ asked[x] \in Int
        /\ x >= 0 /\ header[x].next \in Int
        /\ x + S + asked[x] <= header[x].next /\ header[x].next <= heap_end
    BY WordsOf
  <2> QED BY <2>1, Numbers
<1> QED BY <1>1, WordsApart DEF Regions

(* What t owns in block a, which it now holds, is apart from all that others   *)
(* own, and that t itself owns in other blocks.                                 *)
LEMMA IsAvailable ==
    ASSUME Regions', NEW t \in Thread, NEW a \in held'[t], NEW except,
           \A u \in Thread : \A x \in held[u] :
                /\ x # a \/ Words(x) \in except
                /\ x # a => x \in held'[u] /\ asked'[x] = asked[x]
    PROVE  Memory!Available(Words(a)', except)
<1>1. asked'[a] \in Sizes /\ S <= a + S /\ a + S + asked'[a] <= heap_end
  <2>1. /\ a >= 0 /\ a \in Int /\ asked'[a] \in Sizes
        /\ a + S + asked'[a] <= heap_end
    BY DEF Regions
  <2> QED BY <2>1, Numbers
<1>2. ASSUME NEW u \in Thread, NEW r \in Owned[u] \ except
      PROVE  Memory!Apart(Words(a)', r)
  <2>1. PICK x \in held[u] : r = Words(x)
    BY <1>2, OwnedIs
  <2>2. x # a /\ x \in held'[u] /\ asked'[x] = asked[x]
    BY <1>2, <2>1
  <2>3. Memory!Apart(Words(a)', Words(x)')
    BY <2>2 DEF Regions, Memory!Apart
  <2>4. Words(x)' = Words(x)
    BY <2>2 DEF Words
  <2> QED BY <2>1, <2>3, <2>4 DEF Memory!Apart
<1> QED BY <1>1, <1>2 DEF Memory!Available, Words

(* A block comes to t: Malloc. *)
LEMMA OwnsMore ==
    ASSUME IInv, Regions', NEW t \in Thread, NEW a, NEW size,
           \A u \in Thread : a \notin held[u],
           held' = [held EXCEPT ![t] = @ \cup {a}], Asking(a, size)
    PROVE  Memory!Malloc(t)
<1>1. /\ held'[t] = held[t] \cup {a}
      /\ \A u \in Thread : u # t => held'[u] = held[u]
  BY DEF IInv, HeldInv
<1>2. \A u \in Thread : \A x \in held[u] : x # a /\ x \in held'[u] /\ asked'[x] = asked[x]
  <2>1. \A u \in Thread : \A x \in held[u] : x \in DOMAIN asked
    BY DEF IInv, HeldInv
  <2> QED BY <1>1, <2>1 DEF Asking
<1>3. \A u \in Thread : \A x \in held[u] : Words(x)' = Words(x)
  BY <1>2 DEF Words
<1>4. Memory!Available(Words(a)', {})
  BY <1>1, <1>2, IsAvailable
<1>5. Owned' = [Owned EXCEPT ![t] = @ \cup {Words(a)'}]
  <2>1. Owned'[t] = Owned[t] \cup {Words(a)'}
    <3>1. Owned'[t] = {Words(x)' : x \in held'[t]}
      BY DEF Owned, Words
    <3> QED BY <1>1, <1>3, <3>1, OwnedIs
  <2>2. ASSUME NEW u \in Thread, u # t PROVE Owned'[u] = Owned[u]
    <3>1. Owned'[u] = {Words(x)' : x \in held'[u]}
      BY DEF Owned, Words
    <3> QED BY <1>1, <1>3, <2>2, <3>1, OwnedIs
  <2>3. Owned = [u \in Thread |-> Owned[u]] /\ Owned' = [u \in Thread |-> Owned'[u]]
    BY DEF Owned
  <2> QED BY <2>1, <2>2, <2>3
<1>6. Words(a)' \in Owned'[t]
  BY <1>1 DEF Owned, Words
<1> QED BY <1>4, <1>5, <1>6 DEF Memory!Malloc

(* A block of t goes back: Return. *)
LEMMA OwnsLess ==
    ASSUME IInv, NEW t \in Thread, NEW a \in held[t],
           held' = [held EXCEPT ![t] = @ \ {a}], Forgetting(a)
    PROVE  Memory!Return(t)
<1>1. /\ held'[t] = held[t] \ {a}
      /\ \A u \in Thread : u # t => held'[u] = held[u] /\ a \notin held[u]
  BY DEF IInv, HeldInv, OwnMemory
<1>2. \A u \in Thread : \A x \in held'[u] : asked'[x] = asked[x]
  <2>1. \A u \in Thread : \A x \in held'[u] : x \in DOMAIN asked /\ x # a
    BY <1>1 DEF IInv, HeldInv
  <2> QED BY <2>1 DEF Forgetting, Restrict
<1>3. \A u \in Thread : \A x \in held'[u] : Words(x)' = Words(x)
  BY <1>2 DEF Words
<1>4. \A x \in held[t] : Words(x) = Words(a) => x = a
  <2>1. \A x \in held[t] : x \in Int
    BY WordsOf
  <2>2. \A x \in held[t] : Words(x).at = x + S
    BY DEF Words
  <2> QED BY <2>1, <2>2, Numbers
<1>5. Owned' = [Owned EXCEPT ![t] = @ \ {Words(a)}]
  <2>1. Owned'[t] = Owned[t] \ {Words(a)}
    <3>1. Owned'[t] = {Words(x)' : x \in held'[t]}
      BY DEF Owned, Words
    <3>2. Owned'[t] = {Words(x) : x \in held[t] \ {a}}
      BY <1>1, <1>3, <3>1
    <3> QED BY <1>4, <3>2, OwnedIs
  <2>2. ASSUME NEW u \in Thread, u # t PROVE Owned'[u] = Owned[u]
    <3>1. Owned'[u] = {Words(x)' : x \in held'[u]}
      BY DEF Owned, Words
    <3> QED BY <1>1, <1>3, <2>2, <3>1, OwnedIs
  <2>3. Owned = [u \in Thread |-> Owned[u]] /\ Owned' = [u \in Thread |-> Owned'[u]]
    BY DEF Owned
  <2> QED BY <2>1, <2>2, <2>3
<1>6. Words(a) \in Owned[t]
  BY OwnedIs
<1> QED BY <1>5, <1>6 DEF Memory!Return

(* A block of t gets another size: Resize. *)
LEMMA OwnsOther ==
    ASSUME IInv, Regions', NEW t \in Thread, NEW a \in held[t], NEW size,
           held' = held, Asking(a, size)
    PROVE  Memory!Resize(t)
<1>1. \A u \in Thread : u # t => a \notin held[u]
  BY DEF IInv, HeldInv, OwnMemory
<1>2. \A u \in Thread : \A x \in held[u] : x # a => asked'[x] = asked[x]
  <2>1. \A u \in Thread : \A x \in held[u] : x \in DOMAIN asked
    BY DEF IInv, HeldInv
  <2> QED BY <2>1 DEF Asking
<1>3. \A u \in Thread : \A x \in held[u] : x # a => Words(x)' = Words(x)
  BY <1>2 DEF Words
<1>4. Memory!Available(Words(a)', {Words(a)})
  <2>1. a \in held'[t]
    OBVIOUS
  <2>2. \A u \in Thread : \A x \in held[u] :
             /\ x # a \/ Words(x) \in {Words(a)}
             /\ x # a => x \in held'[u] /\ asked'[x] = asked[x]
    BY <1>2
  <2> QED BY <2>1, <2>2, IsAvailable
<1>5. \A x \in held[t] : Words(x) = Words(a) => x = a
  <2>1. \A x \in held[t] : x \in Int
    BY WordsOf
  <2>2. \A x \in held[t] : Words(x).at = x + S
    BY DEF Words
  <2> QED BY <2>1, <2>2, Numbers
<1>6. Owned' = [Owned EXCEPT ![t] = (@ \ {Words(a)}) \cup {Words(a)'}]
  <2>1. Owned'[t] = (Owned[t] \ {Words(a)}) \cup {Words(a)'}
    <3>1. Owned'[t] = {Words(x)' : x \in held[t]}
      BY DEF Owned, Words
    <3>2. Owned'[t] = {Words(x)' : x \in held[t] \ {a}} \cup {Words(a)'}
      BY <3>1
    <3>3. {Words(x)' : x \in held[t] \ {a}} = {Words(x) : x \in held[t] \ {a}}
      BY <1>3
    <3>4. {Words(x) : x \in held[t] \ {a}} = Owned[t] \ {Words(a)}
      BY <1>5, OwnedIs
    <3> QED BY <3>2, <3>3, <3>4
  <2>2. ASSUME NEW u \in Thread, u # t PROVE Owned'[u] = Owned[u]
    <3>1. Owned'[u] = {Words(x)' : x \in held[u]}
      BY DEF Owned, Words
    <3> QED BY <1>1, <1>3, <2>2, <3>1, OwnedIs
  <2>3. Owned = [u \in Thread |-> Owned[u]] /\ Owned' = [u \in Thread |-> Owned'[u]]
    BY DEF Owned
  <2> QED BY <2>1, <2>2, <2>3
<1>7. Words(a) \in Owned[t] /\ Words(a)' \in Owned'[t] /\ Words(a)'.at = Words(a).at
  BY DEF Owned, Words
<1> QED BY <1>4, <1>6, <1>7 DEF Memory!Resize

LEMMA OwnedStays ==
    ASSUME UNCHANGED <<held, asked>>
    PROVE  UNCHANGED Owned
BY DEF Owned

LEMMA AllocatorStep == IInv /\ Regions' /\ [Next]_vars => [Memory!Next]_Owned
<1> SUFFICES ASSUME IInv, Regions', [Next]_vars PROVE [Memory!Next]_Owned
  OBVIOUS
<1>1. CASE UNCHANGED vars
  BY <1>1, OwnedStays DEF vars
<1>2. CASE Next
  <2>1. PICK t \in Thread :
           \/ \E size \in Sizes : Malloc(t, size)
           \/ \E a \in held[t] : Free(t, a)
           \/ \E a \in held[t] : \E size \in Sizes : Shrink(t, a, size)
           \/ \E a \in held[t] : \E size \in Sizes : Move(t, a, size)
           \/ MoveMalloc(t) \/ MoveRefused(t) \/ MoveFree(t)
    BY <1>2 DEF Next
  <2>2. ListInv /\ HeldInv /\ CallInv /\ ListOK(header, lfree)
    BY DEF IInv, ListInv
  <2>3. ASSUME NEW size \in Sizes, Malloc(t, size) PROVE Memory!Next
    <3>1. PICK a \in DOMAIN header : /\ Allocate(a, size) /\ Asking(a, size)
                                     /\ held' = [held EXCEPT ![t] = @ \cup {a}]
      BY <2>3 DEF Malloc
    <3>2. ~header[a].used
      BY <2>2, <3>1, AllocateStep
    <3>3. \A u \in Thread : a \notin held[u]
      BY <2>2, <3>2, FreeNotHeld
    <3>4. Memory!Malloc(t)
      BY <3>1, <3>3, OwnsMore
    <3> QED BY <3>4 DEF Memory!Next
  <2>4. ASSUME NEW a \in held[t], Free(t, a) PROVE Memory!Next
    <3>1. Forgetting(a) /\ held' = [held EXCEPT ![t] = @ \ {a}]
      BY <2>4 DEF Free
    <3>2. Memory!Return(t)
      BY <3>1, OwnsLess
    <3> QED BY <3>2 DEF Memory!Next
  <2>5. ASSUME NEW a \in held[t], NEW size \in Sizes, Shrink(t, a, size) PROVE Memory!Next
    <3>1. Asking(a, size) /\ held' = held
      BY <2>5 DEF Shrink
    <3>2. Memory!Resize(t)
      BY <3>1, OwnsOther
    <3> QED BY <3>2 DEF Memory!Next
  <2>6. ASSUME NEW a \in held[t], NEW size \in Sizes, Move(t, a, size) PROVE UNCHANGED Owned
    BY <2>6, OwnedStays DEF Move
  <2>7. CASE MoveMalloc(t)
    <3>1. PICK a \in held[t], n \in Sizes : call[t] = Moving(a, n)
      BY <2>2, <2>7 DEF MoveMalloc, CallInv, CallOK, Idle, Moved
    <3>2. call[t].size = n
      BY <3>1 DEF Moving
    <3>3. PICK b \in DOMAIN header : /\ Allocate(b, n) /\ Asking(b, n)
                                     /\ held' = [held EXCEPT ![t] = @ \cup {b}]
      BY <2>7, <3>2 DEF MoveMalloc
    <3>4. ~header[b].used
      BY <2>2, <3>3, AllocateStep
    <3>5. \A u \in Thread : b \notin held[u]
      BY <2>2, <3>4, FreeNotHeld
    <3>6. Memory!Malloc(t)
      BY <3>3, <3>5, OwnsMore
    <3> QED BY <3>6 DEF Memory!Next
  <2>8. CASE MoveRefused(t)
    BY <2>8, OwnedStays DEF MoveRefused
  <2>9. CASE MoveFree(t)
    <3>1. PICK a, b \in held[t] : a # b /\ call[t] = Moved(a, b)
      BY <2>2, <2>9 DEF MoveFree, CallInv, CallOK, Idle, Moving
    <3>2. call[t].old = a
      BY <3>1 DEF Moved
    <3>3. Forgetting(a) /\ held' = [held EXCEPT ![t] = @ \ {a}]
      BY <2>9, <3>2 DEF MoveFree
    <3>4. Memory!Return(t)
      BY <3>3, OwnsLess
    <3> QED BY <3>4 DEF Memory!Next
  <2> QED BY <2>1, <2>3, <2>4, <2>5, <2>6, <2>7, <2>8, <2>9
<1> QED BY <1>1, <1>2

(* rt_malloc, rt_realloc and rt_free are an allocator: however blocks are split,*)
(* merged and moved, a thread gets words that nobody owns, and keeps them until *)
(* it gives them back.                                                          *)
THEOREM HeapIsAllocator == Spec => ImplementsAllocator
<1>1. Init => Memory!Init
  <2> SUFFICES ASSUME Init PROVE Owned = [t \in Thread |-> {}]
    BY DEF Memory!Init
  <2>1. \A t \in Thread : held[t] = {}
    BY DEF Init
  <2> QED BY <2>1 DEF Owned
<1>2. IInv /\ Regions' /\ [Next]_vars => [Memory!Next]_Owned
  BY AllocatorStep
<1> QED BY <1>1, <1>2, Invariance, InRegions, PTL DEF Spec, ImplementsAllocator, Memory!Spec

(* First fit from lfree: until rt_realloc has made a block smaller, rt_malloc   *)
(* finds a block that is large enough, but for one that ends with the heap and  *)
(* fits exactly.                                                                *)
THEOREM MallocFinds == Spec => []FoundIfThere
<1>1. IInv => FoundIfThere
  <2> SUFFICES ASSUME IInv, ~shrunk, NEW size \in Sizes, NEW a \in Blocks,
                      Fits(a, Request(size)), a + S + Request(size) # heap_end
               PROVE  Found(Request(size)) # {}
    BY DEF FoundIfThere
  <2>1. Sound(header) /\ Lowest(header, lfree) /\ Lfree(header, lfree)
    BY DEF IInv, ListInv, ListOK
  <2>2. a \in Inner(header) /\ ~header[a].used /\ Room(header, a) >= Request(size)
    BY DEF Blocks, Inner, Fits
  <2>3. PICK n : n = Request(size)
    OBVIOUS
  <2>4. n \in Nat
    BY <2>3, HeapAssumption DEF Request
  <2>5. /\ a \in DOMAIN header /\ a \in Int /\ header[a].next \in Int
        /\ header[a].next <= heap_end /\ lfree \in Int
    BY <2>1, <2>2, Order, Fields DEF Lfree, Sound
  <2>6. a >= lfree
    BY <2>1, <2>2, <2>5 DEF Lowest
  <2>7. a < mem_size_aligned - n
    <3>1. header[a].next - (a + S) >= n
      BY <2>2, <2>3 DEF Room
    <3>2. a + S + n # mem_size_aligned + S
      BY <2>3, Numbers
    <3>3. \A x, b, m, r, s \in Int :
             b - (x + s) >= r /\ b <= m + s /\ x + s + r # m + s => x < m - r
      OBVIOUS
    <3>4. mem_size_aligned \in Int /\ S \in Int /\ n \in Int /\ heap_end = mem_size_aligned + S
      BY <2>4, Numbers
    <3> QED BY <2>5, <3>1, <3>2, <3>3, <3>4
  <2>8. Fits(a, n)
    BY <2>3
  <2> QED BY <2>3, <2>5, <2>6, <2>7, <2>8 DEF Found
<1> QED BY <1>1, Invariance, PTL

(* rt_realloc is the only call that leaves a free block below lfree: until it  *)
(* has made a block smaller, rt_malloc and rt_free keep lfree at the lowest     *)
(* free block, as its comment says.                                             *)
THEOREM LowestUntilShrunk == Spec => [](~shrunk => LfreeIsLowest)
<1>1. IInv => (~shrunk => LfreeIsLowest)
  BY DEF IInv, ListInv, Lowest, Inner, LfreeIsLowest, Blocks
<1> QED BY <1>1, Invariance, PTL
=============================================================================
