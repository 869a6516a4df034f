-------------------------------- MODULE Heap ---------------------------------
(***************************************************************************)
(* The allocator of mem.c: one list of blocks in address order, each with  *)
(* a header in front of its data, first fit from lfree, merging on free;   *)
(* and the threads that allocate, resize and free.                         *)
(*                                                                         *)
(* An address is an offset from heap_ptr and, like a size, counts words of *)
(* RT_ALIGN_SIZE bytes.  The headers of the list are the domain of header, *)
(* so that a step that looks at an address with no header has no value.    *)
(* What heap_sem protects is one step (Semaphore!TokensKept says why only  *)
(* one thread is inside); a resize that moves the block gives heap_sem up  *)
(* three times, and other threads come in between.                         *)
(***************************************************************************)
EXTENDS Integers, Functions

CONSTANTS
    Thread,
    SIZEOF_STRUCT_MEM, MIN_SIZE,
    mem_size_aligned,
    Sizes         (* what threads ask for *)

S == SIZEOF_STRUCT_MEM
heap_end == mem_size_aligned + S

ASSUME HeapAssumption ==
    /\ S \in Nat \ {0} /\ MIN_SIZE \in Nat \ {0}
    /\ mem_size_aligned \in Nat /\ mem_size_aligned > MIN_SIZE
    /\ Sizes \subseteq Nat \ {0}

None == "none"
Idle == [doing |-> "idle"]
Moving(a, n) == [doing |-> "moving", old |-> a, size |-> n]
Moved(a, b) == [doing |-> "moved", old |-> a, new |-> b]

VARIABLES
    header,       (* the headers: used, next and prev, by address               *)
    lfree,        (* where the search for a free block starts                   *)
    held,         (* per thread: the blocks it may use                          *)
    call,         (* per thread: how far its rt_realloc is                      *)
    asked,        (* history, per block that is held: the size asked for        *)
    shrunk        (* history: rt_realloc has made a block smaller               *)

vars == <<header, lfree, held, call, asked, shrunk>>

(* rt_system_heap_init *)
Init ==
    /\ header = [a \in {0, heap_end} |->
                    IF a = 0 THEN [used |-> FALSE, next |-> heap_end, prev |-> 0]
                             ELSE [used |-> TRUE, next |-> heap_end, prev |-> heap_end]]
    /\ lfree = 0
    /\ held = [t \in Thread |-> {}] /\ call = [t \in Thread |-> Idle]
    /\ asked = <<>> /\ shrunk = FALSE

Room(h, a) == h[a].next - (a + S)       \* the size of the data of block a
Least(s) == CHOOSE a \in s : \A b \in s : a <= b

-----------------------------------------------------------------------------
(* The list *)

(* A new free block at c, between a and the block behind it. *)
Split(h, a, c) ==
    LET n == h[a].next
    IN  [x \in DOMAIN h \cup {c} |->
            CASE x = c -> [used |-> FALSE, next |-> n, prev |-> a]
              [] x = a -> [h[a] EXCEPT !.next = c]
              [] x = n /\ n # heap_end -> [h[n] EXCEPT !.prev = c]
              [] OTHER -> h[x]]

(* Block b, which follows a, becomes part of it. *)
Merge(h, a, b) ==
    [x \in DOMAIN h \ {b} |->
        CASE x = a -> [h[a] EXCEPT !.next = h[b].next]
          [] x = h[b].next -> [h[x] EXCEPT !.prev = a]
          [] OTHER -> h[x]]

(* plug_holes(m): the list and lfree after m was merged with the free blocks  *)
(* behind it and in front of it.                                              *)
HoleBehind(h, m) == ~h[h[m].next].used /\ h[m].next \notin {m, heap_end}
HoleInFront(h, m) == ~h[h[m].prev].used /\ h[m].prev # m
PlugForward(h, l, m) ==
    IF HoleBehind(h, m)
    THEN [header |-> Merge(h, m, h[m].next), lfree |-> IF l = h[m].next THEN m ELSE l]
    ELSE [header |-> h, lfree |-> l]
PlugBackward(h, l, m) ==
    IF HoleInFront(h, m)
    THEN [header |-> Merge(h, h[m].prev, m), lfree |-> IF l = m THEN h[m].prev ELSE l]
    ELSE [header |-> h, lfree |-> l]
plug_holes_keeping(h, l, m) ==  (* mutant: lfree stays at a header that is gone *)
    [header |-> PlugBackward(PlugForward(h, l, m).header, l, m).header, lfree |-> l]
plug_holes(h, l, m) ==
    LET p == PlugForward(h, l, m) IN PlugBackward(p.header, p.lfree, m)

(* A request is for at least MIN_SIZE, and too large a one is refused. *)
Request(size) == IF size < MIN_SIZE THEN MIN_SIZE ELSE size

(* The blocks at which the loop of rt_malloc stops: it goes up from lfree and *)
(* ends at mem_size_aligned - size.                                           *)
FitsUsed(a, size) ==  (* mutant: the loop does not look at used *)
    Room(header, a) >= size
Fits(a, size) == ~header[a].used /\ Room(header, a) >= size
FoundEarly(size) ==  (* mutant: the loop ends a header too early *)
    {a \in DOMAIN header : /\ a >= lfree /\ a < mem_size_aligned - S - size
                           /\ Fits(a, size)}
Found(size) ==
    {a \in DOMAIN header : /\ a >= lfree /\ a < mem_size_aligned - size
                           /\ Fits(a, size)}

(* What is done to the list when size words are taken from block a. *)
Taken(a, size) ==
    LET h == [header EXCEPT ![a].used = TRUE]
    IN  IF Room(h, a) >= size + S + MIN_SIZE THEN Split(h, a, a + S + size) ELSE h

(* lfree moves on to the next block that is free. *)
NextFree(h, a) == Least({b \in DOMAIN h : b >= a /\ (~h[b].used \/ b = heap_end)})

(* rt_malloc up to the release of heap_sem: t gets block a *)
Allocate(a, size) ==
    /\ size <= mem_size_aligned
    /\ Found(Request(size)) # {} /\ a = Least(Found(Request(size)))
    /\ header' = Taken(a, Request(size))
    /\ lfree' = IF a = lfree THEN NextFree(header', a) ELSE lfree

(* rt_free *)
Release(a) ==
    LET h == [header EXCEPT ![a].used = FALSE]
        p == plug_holes(h, IF a < lfree THEN a ELSE lfree, a)
    IN  header' = p.header /\ lfree' = p.lfree

Asking(a, size) == asked' = [x \in DOMAIN asked \cup {a} |->
                                IF x = a THEN size ELSE asked[x]]
Forgetting(a) == asked' = Restrict(asked, DOMAIN asked \ {a})

-----------------------------------------------------------------------------
(* The calls.  One that returns NULL changes nothing, and has no action of its *)
(* own; rt_calloc is rt_malloc, and rt_realloc without a block or with size 0  *)
(* is rt_malloc or rt_free.                                                    *)

Malloc(t, size) ==
    /\ call[t] = Idle
    /\ \E a \in DOMAIN header :
        /\ Allocate(a, size) /\ Asking(a, size)
        /\ held' = [held EXCEPT ![t] = @ \cup {a}]
    /\ UNCHANGED <<call, shrunk>>

Free(t, a) ==
    /\ call[t] = Idle /\ a \in held[t]
    /\ Release(a) /\ Forgetting(a)
    /\ held' = [held EXCEPT ![t] = @ \ {a}]
    /\ UNCHANGED <<call, shrunk>>

(* rt_realloc of block a that leaves enough behind for a block of its own *)
Splits(a, size) == size + S + MIN_SIZE < Room(header, a)

Shrink(t, a, size) ==
    LET c == a + S + size
        p == plug_holes(Split(header, a, c), lfree, c)
    IN  /\ call[t] = Idle /\ a \in held[t]
        /\ size <= mem_size_aligned /\ size # Room(header, a) /\ Splits(a, size)
        /\ header' = p.header /\ lfree' = p.lfree
        /\ Asking(a, size)
        /\ shrunk' = TRUE
        /\ UNCHANGED <<held, call>>

(* rt_realloc that moves the block: to malloc, copy and free is left. *)
Move(t, a, size) ==
    /\ call[t] = Idle /\ a \in held[t]
    /\ size <= mem_size_aligned /\ size # Room(header, a) /\ ~Splits(a, size)
    /\ call' = [call EXCEPT ![t] = Moving(a, size)]
    /\ UNCHANGED <<header, lfree, held, asked, shrunk>>

MoveMalloc(t) ==
    /\ call[t].doing = "moving"
    /\ \E b \in DOMAIN header :
        /\ Allocate(b, call[t].size) /\ Asking(b, call[t].size)
        /\ held' = [held EXCEPT ![t] = @ \cup {b}]
        /\ call' = [call EXCEPT ![t] = Moved(@.old, b)]
    /\ UNCHANGED shrunk

MoveRefused(t) ==
    /\ call[t].doing = "moving" /\ Found(Request(call[t].size)) = {}
    /\ call' = [call EXCEPT ![t] = Idle]
    /\ UNCHANGED <<header, lfree, held, asked, shrunk>>

MoveFree(t) ==
    /\ call[t].doing = "moved"
    /\ Release(call[t].old) /\ Forgetting(call[t].old)
    /\ held' = [held EXCEPT ![t] = @ \ {call[t].old}]
    /\ call' = [call EXCEPT ![t] = Idle]
    /\ UNCHANGED shrunk

Next ==
    \E t \in Thread :
        \/ \E size \in Sizes : Malloc(t, size)
        \/ \E a \in held[t] : \/ Free(t, a)
                              \/ \E size \in Sizes : Shrink(t, a, size) \/ Move(t, a, size)
        \/ MoveMalloc(t) \/ MoveRefused(t) \/ MoveFree(t)
Spec == Init /\ [][Next]_vars

-----------------------------------------------------------------------------
(* Properties *)

Blocks == DOMAIN header \ {heap_end}

(* Every variable stays in its range. *)
TypeOK ==
    /\ DOMAIN header \subseteq 0..heap_end /\ {0, heap_end} \subseteq DOMAIN header
    /\ header \in [DOMAIN header -> [used : BOOLEAN, next : 0..heap_end, prev : 0..heap_end]]
    /\ lfree \in DOMAIN header
    /\ held \in [Thread -> SUBSET Blocks]
    /\ \A t \in Thread : \/ call[t] = Idle
                         \/ \E a \in held[t], n \in Sizes : call[t] = Moving(a, n)
                         \/ \E a, b \in held[t] : a # b /\ call[t] = Moved(a, b)
    /\ DOMAIN asked = UNION Range(held) /\ Range(asked) \subseteq Sizes
    /\ shrunk \in BOOLEAN

(* However blocks were split and merged, the list is one: it leads from each    *)
(* block to the one behind it and back, and leaves room for the header.  The    *)
(* end marker has no way back: rt_malloc does not write it.                     *)
Chain ==
    /\ header[0].prev = 0 /\ header[heap_end].used
    /\ \A a \in Blocks :
        /\ header[a].next \in DOMAIN header /\ header[a].next >= a + S
        /\ \A b \in DOMAIN header : b <= a \/ b >= header[a].next
        /\ header[a].next # heap_end => header[header[a].next].prev = a

(* Free neighbours have been merged. *)
NoFreeNeighbours ==
    \A a \in Blocks : header[a].used \/ header[header[a].next].used

(* rt_malloc asserts: lfree is a free block or the end.                         *)
LfreeIsFree == lfree = heap_end \/ ~header[lfree].used

(* A thread that got size words has them to itself until it frees them, also    *)
(* while rt_realloc moves them: no two threads have the same block, and its     *)
(* data ends before the next header.                                            *)
OwnMemory ==
    /\ \A t, u \in Thread : t # u => held[t] \cap held[u] = {}
    /\ \A t \in Thread : \A a \in held[t] : header[a].used /\ asked[a] <= Room(header, a)

(* Nothing leaks: a block in use is held by a thread.                           *)
NothingLost == \A a \in Blocks : header[a].used => \E t \in Thread : a \in held[t]

(* All of these: the list stays sound, and the blocks in use are those that     *)
(* threads hold, each block one of them.                                        *)
HeapOK == /\ TypeOK /\ Chain /\ NoFreeNeighbours /\ LfreeIsFree
          /\ OwnMemory /\ NothingLost

(* rt_malloc, rt_realloc and rt_free are an allocator: a thread owns, for each  *)
(* block it holds, the words it asked for, and never gets a word that another   *)
(* thread owns; nobody's words change hands, while blocks are split, merged     *)
(* and moved.                                                                   *)
Owned == [t \in Thread |-> {[at |-> a + S, size |-> asked[a]] : a \in held[t]}]
Memory == INSTANCE Allocator WITH owns <- Owned, Start <- S, End <- heap_end
ImplementsAllocator == Memory!Spec

(* rt_malloc finds a block that fits if there is one, unless the block ends     *)
(* where the heap does and fits exactly; until a block has been made smaller.   *)
FoundIfThere ==
    ~shrunk => \A size \in Sizes : \A a \in Blocks :
        Fits(a, Request(size)) /\ a + S + Request(size) # heap_end
            => Found(Request(size)) # {}

(* "pointer to the lowest free block": no block below lfree is free.            *)
LfreeIsLowest == \A a \in Blocks : a < lfree => header[a].used
=============================================================================
