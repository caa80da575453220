-------------------------------- MODULE Heap --------------------------------
(***************************************************************************)
(* The kernel heap (kernel/mm/heap.c): first-fit allocation from a list of *)
(* blocks that lie next to each other in memory, each behind its header.   *)
(*                                                                         *)
(* Addresses count from HEAP_START.  mem holds the headers whose magic     *)
(* number is intact, by address; what callers write into their blocks is   *)
(* never taken for a header.  heap_size is heap_break, the two always      *)
(* change together.  mapped is where the pages mapped for the heap end:    *)
(* heap_expand maps them one by one from heap_break on, and what it has    *)
(* mapped stays when it fails.  used is a history variable: for each block *)
(* handed out, the bytes its owner may touch.                              *)
(*                                                                         *)
(* block_split subtracts sizes without a sign.  When the block is as large *)
(* as the request, or larger by less than a header, the result wraps       *)
(* around and the header of the next block is overwritten (or memory       *)
(* behind the heap, a page fault).  damage is the address at which that    *)
(* happened; the header written there is kept, and what the kernel does    *)
(* from then on is not modelled.                                           *)
(***************************************************************************)
EXTENDS Integers

CONSTANTS
    HEAP_ALIGNMENT, HEAP_HEADER_SIZE, HEAP_MIN_BLOCK,
    HEAP_INITIAL_SIZE, HEAP_EXPAND_SIZE, HEAP_MAX_SIZE,
    PAGE_SIZE,
    PTR_SIZE,         \* sizeof(void*)
    SIZE_WRAP,        \* 2^64 in the code: where size_t wraps around
    Sizes,            \* the sizes callers ask for
    Alignments,       \* the alignments callers ask for
    Pages             \* how many pages there may be left for the heap to grow

ASSUME HeapAssumption ==
    /\ {HEAP_ALIGNMENT, HEAP_HEADER_SIZE, HEAP_MIN_BLOCK, PAGE_SIZE, PTR_SIZE,
        HEAP_INITIAL_SIZE, HEAP_EXPAND_SIZE, HEAP_MAX_SIZE, SIZE_WRAP}
           \subseteq Nat \ {0}
    /\ \A n \in {HEAP_HEADER_SIZE, HEAP_MIN_BLOCK, PAGE_SIZE, HEAP_INITIAL_SIZE} :
          n % HEAP_ALIGNMENT = 0
    /\ HEAP_INITIAL_SIZE >= HEAP_HEADER_SIZE + HEAP_MIN_BLOCK
    /\ HEAP_INITIAL_SIZE <= HEAP_MAX_SIZE
    /\ HEAP_MAX_SIZE + HEAP_HEADER_SIZE + HEAP_MIN_BLOCK < SIZE_WRAP
    /\ Pages \subseteq Nat

\* What kmalloc is asked for, by its callers and by kmalloc_aligned.
Asked == Sizes \cup {n + a + PTR_SIZE : n \in Sizes, a \in Alignments}

\* No request is within two pages of the end of the address space, where
\* rounding it up would wrap around.
ASSUME RequestAssumption ==
    /\ Sizes \subseteq Nat /\ Alignments \subseteq Nat \ {0}
    /\ \A n \in Asked \cup {HEAP_MIN_BLOCK, HEAP_EXPAND_SIZE} :
          n + HEAP_HEADER_SIZE + 2 * HEAP_ALIGNMENT + PAGE_SIZE <= SIZE_WRAP
    /\ \A a \in Alignments : HEAP_MAX_SIZE + PTR_SIZE + a <= SIZE_WRAP

VARIABLES
    mem,              \* address of a header -> its fields
    heap_break,
    mapped,
    used,
    damage

vars == <<mem, heap_break, mapped, used, damage>>

NULL == -1
heap_first == 0
FREE == "FREE"
USED == "USED"

ALIGN_UP(n, a) == ((n + a - 1) % SIZE_WRAP) - (((n + a - 1) % SIZE_WRAP) % a)

MaxOf(m, n) == IF m > n THEN m ELSE n

Header(f, s, n, p) == [flags |-> f, size |-> s, next |-> n, prev |-> p]

block_to_ptr(b) == b + HEAP_HEADER_SIZE

\* The address right behind a block.
End(m, b) == b + HEAP_HEADER_SIZE + m[b].size

\* How many blocks there can be at most.
MaxBlocks == HEAP_MAX_SIZE \div (HEAP_HEADER_SIZE + HEAP_MIN_BLOCK)

\* The blocks in the order of the list, NULL past its end.
Walk(m) ==
    LET at[i \in 0 .. MaxBlocks] ==
            IF i = 0 THEN heap_first
            ELSE IF at[i - 1] \in DOMAIN m THEN m[at[i - 1]].next ELSE NULL
    IN  at

(***************************************************************************)
(* The helpers that change the list; each takes the headers m and returns  *)
(* the headers afterwards.                                                 *)
(***************************************************************************)
Wraps(m, b, size) == m[b].size < size + HEAP_HEADER_SIZE

\* Where block_split writes a header it should not write, NULL if it does not.
Damage(m, b, size) == IF Wraps(m, b, size) THEN b + HEAP_HEADER_SIZE + size ELSE NULL

\* block_split leaves the block whole when the rest is too small.
TooSmall(remaining) == remaining < HEAP_MIN_BLOCK

block_split(m, b, size) ==
    LET remaining == (m[b].size - size - HEAP_HEADER_SIZE) % SIZE_WRAP
        new == b + HEAP_HEADER_SIZE + size
        next == m[b].next
        kept == {a \in DOMAIN m : a + HEAP_HEADER_SIZE <= new \/ new + HEAP_HEADER_SIZE <= a}
        written == [a \in kept \cup {new} |->
                      IF a = new THEN Header(FREE, remaining, next, b)
                      ELSE IF a = b THEN [m[b] EXCEPT !.next = new, !.size = size]
                      ELSE m[a]]
    IN  IF TooSmall(remaining) THEN m
        ELSE IF next \in DOMAIN written THEN [written EXCEPT ![next].prev = new]
        ELSE written

\* Without the back pointer of the block behind the absorbed one.
Absorb_NoBackLink(m, b, next) ==
    [a \in DOMAIN m \ {next} |->
        IF a = b THEN [m[b] EXCEPT !.size = @ + HEAP_HEADER_SIZE + m[next].size,
                                   !.next = m[next].next]
        ELSE m[a]]

Absorb(m, b, next) ==
    [a \in DOMAIN m \ {next} |->
        IF a = b THEN [m[b] EXCEPT !.size = @ + HEAP_HEADER_SIZE + m[next].size,
                                   !.next = m[next].next]
        ELSE IF a = m[next].next THEN [m[a] EXCEPT !.prev = b]
        ELSE m[a]]

block_merge_next(m, b) ==
    LET next == m[b].next
    IN  IF next \in DOMAIN m /\ m[next].flags = FREE THEN Absorb(m, b, next) ELSE m

\* The block of the list that has none behind it.
LastBlock(m) == CHOOSE b \in DOMAIN m : m[b].next = NULL

heap_expand(m, brk, size) ==
    LET last == LastBlock(m)
        linked == [a \in DOMAIN m \cup {brk} |->
                     IF a = brk THEN Header(FREE, size - HEAP_HEADER_SIZE, NULL, last)
                     ELSE IF a = last THEN [m[a] EXCEPT !.next = brk]
                     ELSE m[a]]
    IN  IF linked[last].flags = FREE THEN block_merge_next(linked, last) ELSE linked

(***************************************************************************)
(* kmalloc: the first block of the list that fits is split and handed out, *)
(* if need be after the heap has grown.  pages is how many pages physical  *)
(* memory and the page tables can provide for that.  The result is what    *)
(* the variables become, and the block, which is NULL if the call failed.  *)
(***************************************************************************)
Request_RoundsDown(size) == MaxOf(size - (size % HEAP_ALIGNMENT), HEAP_MIN_BLOCK)

Request(size) == MaxOf(ALIGN_UP(size, HEAP_ALIGNMENT), HEAP_MIN_BLOCK)

Fits(m, size) ==
    {i \in DOMAIN Walk(m) :
        /\ Walk(m)[i] \in DOMAIN m
        /\ m[Walk(m)[i]].flags = FREE
        /\ m[Walk(m)[i]].size >= size}

FirstFit(m, size) ==
    Walk(m)[CHOOSE i \in Fits(m, size) : \A j \in Fits(m, size) : i <= j]

HandOut(m, brk, top, size) ==
    LET b == FirstFit(m, size)
    IN  [mem |-> [block_split(m, b, size) EXCEPT ![b].flags = USED],
         heap_break |-> brk,
         mapped |-> top,
         block |-> b,
         damage |-> Damage(m, b, size)]

Fail(top) ==
    [mem |-> mem, heap_break |-> heap_break, mapped |-> top, block |-> NULL,
     damage |-> NULL]

\* heap_expand refuses to pass the maximum.
MayGrow_NoMaximum(more) == TRUE

MayGrow(more) == heap_break + more <= HEAP_MAX_SIZE

\* heap_expand adds the block though not all of its pages could be mapped.
Expanded_Anyway(pages, more) == TRUE

Expanded(pages, more) == pages * PAGE_SIZE >= more

KMalloc(bytes, pages) ==
    LET size == Request(bytes)
        more == ALIGN_UP(MaxOf(size + HEAP_HEADER_SIZE, HEAP_EXPAND_SIZE), PAGE_SIZE)
        got == IF pages * PAGE_SIZE < more THEN pages * PAGE_SIZE ELSE more
        top == MaxOf(mapped, heap_break + got)
    IN  IF Fits(mem, size) # {} THEN HandOut(mem, heap_break, mapped, size)
        ELSE IF ~MayGrow(more) THEN Fail(mapped)
        ELSE IF ~Expanded(pages, more) THEN Fail(top)
        ELSE HandOut(heap_expand(mem, heap_break, more), heap_break + more, top, size)

\* The block is marked free and merged with free neighbours.
KFree_NoMergePrev(m, b) == block_merge_next([m EXCEPT ![b].flags = FREE], b)

KFree(m, b) ==
    LET freed == block_merge_next([m EXCEPT ![b].flags = FREE], b)
        prev == freed[b].prev
    IN  IF prev # NULL /\ freed[prev].flags = FREE
        THEN block_merge_next(freed, prev) ELSE freed

\* used with block b recorded as given out for the bytes first .. first + n - 1.
GivenOut(u, b, first, n) == [a \in DOMAIN u \cup {b} |-> IF a = b THEN <<first, n>> ELSE u[a]]

TakenBack(u, b) == [a \in DOMAIN u \ {b} |-> u[a]]

(***************************************************************************)
(* The operations.  A caller frees and reallocates what kmalloc or         *)
(* krealloc gave it (a second kfree finds no header in use and returns);   *)
(* kfree of a pointer from kmalloc_aligned finds no header either, so such *)
(* a block is never given back.                                            *)
(***************************************************************************)
heap_init ==
    /\ mem = [b \in {heap_first} |->
                Header(FREE, HEAP_INITIAL_SIZE - HEAP_HEADER_SIZE, NULL, NULL)]
    /\ heap_break = HEAP_INITIAL_SIZE
    /\ mapped = HEAP_INITIAL_SIZE
    /\ used = [b \in {} |-> <<>>]
    /\ damage = NULL

\* The state after a call of kmalloc with outcome r.
Becomes(r) ==
    /\ mem' = r.mem
    /\ heap_break' = r.heap_break
    /\ mapped' = r.mapped
    /\ damage' = r.damage

kmalloc(bytes, pages) ==
    LET r == KMalloc(bytes, pages)
    IN  /\ damage = NULL
        /\ bytes > 0
        /\ Becomes(r)
        /\ used' = IF r.block = NULL THEN used
                   ELSE GivenOut(used, r.block, block_to_ptr(r.block), bytes)

\* The pointer kmalloc returned is stored right before the aligned address.
kmalloc_aligned(bytes, alignment, pages) ==
    \/ alignment <= HEAP_ALIGNMENT /\ kmalloc(bytes, pages)
    \/ LET r == KMalloc(bytes + alignment + PTR_SIZE, pages)
           aligned == ALIGN_UP(block_to_ptr(r.block) + PTR_SIZE, alignment)
       IN  /\ damage = NULL
           /\ alignment > HEAP_ALIGNMENT
           /\ Becomes(r)
           /\ used' = IF r.block = NULL THEN used
                      ELSE GivenOut(used, r.block, aligned - PTR_SIZE, bytes + PTR_SIZE)

\* The owner's pointer is right behind the header, where kfree looks for it.
Plain(b) == used[b][1] = block_to_ptr(b)

kfree(b) ==
    /\ damage = NULL
    /\ b \in DOMAIN used /\ Plain(b)
    /\ mem' = KFree(mem, b)
    /\ used' = TakenBack(used, b)
    /\ UNCHANGED <<heap_break, mapped, damage>>

\* krealloc of NULL is kmalloc, and to size 0 it is kfree.  When the kmalloc
\* inside it wraps around, the model stops before the copy and the kfree: what
\* they do depends on what the wrong header overwrote.
krealloc(b, bytes, pages) ==
    LET size == ALIGN_UP(bytes, HEAP_ALIGNMENT)
        merged == block_merge_next(mem, b)
    IN  /\ damage = NULL
        /\ b \in DOMAIN used /\ Plain(b)
        /\ bytes > 0
        /\ \/ /\ size <= mem[b].size
              /\ used' = GivenOut(used, b, block_to_ptr(b), bytes)
              /\ UNCHANGED <<mem, heap_break, mapped, damage>>
           \/ /\ size > mem[b].size
              /\ merged # mem /\ merged[b].size >= size
              /\ mem' = block_split(merged, b, size)
              /\ damage' = Damage(merged, b, size)
              /\ used' = GivenOut(used, b, block_to_ptr(b), bytes)
              /\ UNCHANGED <<heap_break, mapped>>
           \/ /\ size > mem[b].size
              /\ merged = mem \/ merged[b].size < size
              /\ LET r == KMalloc(size, pages)
                     u == GivenOut(used, r.block, block_to_ptr(r.block), bytes)
                 IN  IF r.block = NULL THEN Becomes(r) /\ UNCHANGED used
                     ELSE IF r.damage # NULL THEN Becomes(r) /\ used' = u
                     ELSE /\ Becomes([r EXCEPT !.mem = KFree(r.mem, b)])
                          /\ used' = TakenBack(u, b)

Next ==
    \/ \E bytes \in Sizes, pages \in Pages : kmalloc(bytes, pages)
    \/ \E bytes \in Sizes, alignment \in Alignments, pages \in Pages :
          kmalloc_aligned(bytes, alignment, pages)
    \/ \E b \in DOMAIN used : kfree(b)
    \/ \E b \in DOMAIN used, bytes \in Sizes, pages \in Pages :
          krealloc(b, bytes, pages)

Spec == heap_init /\ [][Next]_vars

(***************************************************************************)
(* Properties.                                                             *)
(***************************************************************************)
\* Every variable has the type of the C object it stands for.
TypeOK ==
    /\ DOMAIN mem \subseteq 0 .. HEAP_MAX_SIZE
    /\ \A b \in DOMAIN mem : /\ mem[b].flags \in {FREE, USED}
                             /\ mem[b].size \in 0 .. SIZE_WRAP - 1
                             /\ mem[b].next \in (0 .. HEAP_MAX_SIZE) \cup {NULL}
                             /\ mem[b].prev \in (0 .. HEAP_MAX_SIZE) \cup {NULL}
    /\ heap_break \in HEAP_INITIAL_SIZE .. HEAP_MAX_SIZE
    /\ mapped \in HEAP_INITIAL_SIZE .. HEAP_MAX_SIZE
    /\ damage \in (0 .. HEAP_MAX_SIZE) \cup {NULL}

\* The blocks in front of the damage: all of them if there is none.
Front == {b \in DOMAIN mem : damage = NULL \/ b < damage}

\* The list runs through the heap without gap or overlap: each block ends
\* where the next begins, the last one at heap_break, and prev is the inverse
\* of next.  After a split that wrapped around this holds from heap_first up to
\* the address of the damage, and the block handed out ends there
\* (heap.c:53-94, 290-343).
Tiled ==
    /\ heap_first \in Front
    /\ \A b \in Front :
          /\ mem[b].next = IF damage = NULL /\ End(mem, b) = heap_break THEN NULL
                           ELSE End(mem, b)
          /\ mem[b].next # NULL => mem[b].next \in DOMAIN mem
          /\ mem[b].next \in Front => mem[mem[b].next].prev = b
          /\ b # heap_first => /\ mem[b].prev \in Front
                               /\ mem[mem[b].prev].next = b
          /\ b = heap_first => mem[b].prev = NULL
          /\ mem[b].size % HEAP_ALIGNMENT = 0 /\ mem[b].size >= HEAP_MIN_BLOCK

\* Two neighbours are never both free: kfree, krealloc and heap_expand leave
\* nothing unmerged (heap.c:213-242).  A free header written by a split that
\* wrapped around is not counted, the blocks in front of it are.
Coalesced ==
    \A b \in Front :
        mem[b].flags = FREE /\ mem[b].next \in Front => mem[mem[b].next].flags = USED

\* The blocks in use are those handed out and not freed, and all bytes an
\* owner was promised are inside its block, also behind an aligned pointer
\* (heap.c:140-206, 244-283).  Of the owners behind the address at which a
\* split wrapped around nothing is said; the caller that was given the block
\* right in front of it has all of its bytes.
OwnersFit ==
    /\ {b \in DOMAIN used : damage = NULL \/ b < damage} = {b \in Front : mem[b].flags = USED}
    /\ \A b \in DOMAIN used \cap Front : /\ block_to_ptr(b) <= used[b][1]
                                         /\ used[b][1] + used[b][2] <= End(mem, b)

\* Every block lies on mapped pages and below the limit of the heap, also
\* after expansions that ran out of memory half-way (heap.c:290-315), except
\* for the one whose size wrapped around.
Backed ==
    /\ heap_break <= mapped /\ mapped <= HEAP_MAX_SIZE
    /\ \A b \in Front : End(mem, b) <= mapped

(***************************************************************************)
(* What the code says and does not do.                                     *)
(***************************************************************************)
\* "Split a block if it's large enough" (heap.c:52): after any call all
\* headers and blocks are inside the heap and apart from each other.
HeadersApart ==
    \A b, c \in DOMAIN mem : /\ End(mem, b) <= heap_break
                             /\ b < c => End(mem, b) <= c

\* No page stays behind: an expansion that failed has given back what it had
\* taken.  The code gives back only the page it could not map, and the next
\* expansion maps new pages in place of the others (heap.c:303-315).
NoPageLeftBehind == mapped = heap_break
=============================================================================
