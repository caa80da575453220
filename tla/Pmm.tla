-------------------------------- MODULE Pmm --------------------------------
(***************************************************************************)
(* The physical memory manager (kernel/mm/pmm.c): one bit per page frame,  *)
(* a free-page counter and a hint where to start searching.  A page frame  *)
(* is its number; physical address 0, which the code returns for "out of   *)
(* memory", is page 0, and page 0 is always reserved.                      *)
(*                                                                         *)
(* fenced, owned and ret are history variables: the pages whose reservation *)
(* was counted, the allocations the callers own as <<first page, count>>,  *)
(* and the result of the last call.  Callers free what they own, each      *)
(* allocation whole; what is freed a second time before it is allocated    *)
(* again is included.                                                      *)
(***************************************************************************)
EXTENDS Integers, FiniteSets

CONSTANTS
    MAX_PAGES,        \* MM_MAX_PAGES
    PAGE_SIZE,
    MemoryMaps,       \* the E820 maps the boot loader may hand over
    SystemPages,      \* first MB, kernel, bitmap, page tables
    MaxCount          \* bound on the pages asked for at once

Page == 0 .. MAX_PAGES - 1
NoResult == -1

ALIGN_DOWN(a) == a - (a % PAGE_SIZE)
ALIGN_UP(a) == ALIGN_DOWN(a + PAGE_SIZE - 1)

\* The pages of an E820 entry that pmm_init frees: only whole ones.
UsablePages(e) ==
    {p \in Page : /\ e.usable
                  /\ ALIGN_UP(e.base) <= p * PAGE_SIZE
                  /\ p * PAGE_SIZE < ALIGN_DOWN(e.base + e.length)}

ASSUME PageAssumption ==
    /\ MAX_PAGES \in Nat \ {0}
    /\ PAGE_SIZE \in Nat \ {0}
    /\ MaxCount \in Nat

ASSUME SystemPagesAssumption == 0 \in SystemPages /\ SystemPages \subseteq Page

\* A memory map is a sequence of entries that do not overlap.
ASSUME MemoryMapAssumption ==
    \A map \in MemoryMaps :
        /\ IsFiniteSet(DOMAIN map)
        /\ \A i, j \in DOMAIN map :
              i # j => UsablePages(map[i]) \cap UsablePages(map[j]) = {}

VARIABLES
    bitmap,           \* the pages whose bit is set
    free_count,       \* pmm_free_count
    reserved_pages,   \* pmm_reserved_pages
    first_free_hint,  \* pmm_first_free_hint
    total_pages,      \* pmm_total_pages
    fenced,
    owned,
    ret

pmmVars == <<bitmap, free_count, reserved_pages, first_free_hint, total_pages,
          fenced, owned, ret>>

Free == Page \ bitmap

Smallest(S) == {x \in S : \A y \in S : x <= y}

Span(s, n) == s .. s + n - 1

HeldPages == UNION {Span(a[1], a[2]) : a \in owned}

(***************************************************************************)
(* pmm_init: all pages used, those of usable entries freed and counted     *)
(* entry by entry, then the system regions reserved again.                 *)
(***************************************************************************)
pmm_init(map) ==
    LET counted == {ip \in (DOMAIN map) \X Page : ip[2] \in UsablePages(map[ip[1]])}
        usable == UNION {UsablePages(map[i]) : i \in DOMAIN map}
        taken == usable \cap SystemPages
    IN  /\ bitmap = Page \ (usable \ SystemPages)
        /\ total_pages = Cardinality(counted)
        /\ free_count = total_pages - Cardinality(taken)
        /\ reserved_pages = Cardinality(taken)
        /\ fenced = taken
        /\ \/ first_free_hint \in Smallest(Free)
           \/ Free = {} /\ first_free_hint = 0
        /\ owned = {}
        /\ ret = NoResult

PmmInit == \E map \in MemoryMaps : pmm_init(map)

(***************************************************************************)
(* Allocation.                                                             *)
(***************************************************************************)
FreeIn(lo, hi) == {p \in Free : lo <= p /\ p < hi}

\* Only the pages behind the hint.
Candidates_NoWrap == FreeIn(first_free_hint, MAX_PAGES)

Candidates ==
    IF FreeIn(first_free_hint, MAX_PAGES) # {}
    THEN FreeIn(first_free_hint, MAX_PAGES)
    ELSE FreeIn(0, first_free_hint)

\* Marking the pages of an allocation, without the last one.
Marked_OffByOne(s, n) == bitmap \cup (s .. s + n - 2)

Marked(s, n) == bitmap \cup Span(s, n)

Take(s, n) ==
    /\ bitmap' = Marked(s, n)
    /\ free_count' = free_count - n
    /\ first_free_hint' = s + n
    /\ owned' = owned \cup {<<s, n>>}
    /\ ret' = s
    /\ UNCHANGED <<reserved_pages, total_pages, fenced>>

OutOfMemory ==
    /\ ret' = 0
    /\ UNCHANGED <<bitmap, free_count, reserved_pages, first_free_hint, total_pages,
                   fenced, owned>>

pmm_alloc_page ==
    \/ \E p \in Smallest(Candidates) : Take(p, 1)
    \/ Candidates = {} /\ OutOfMemory

\* The runs of n free pages inside lo .. hi - 1, by their first page.
RunsIn(lo, hi, n) == {s \in lo .. hi - n : Span(s, n) \subseteq Free}

Runs(n) ==
    IF RunsIn(first_free_hint, MAX_PAGES, n) # {}
    THEN RunsIn(first_free_hint, MAX_PAGES, n)
    ELSE RunsIn(0, first_free_hint, n)

pmm_alloc_pages(n) ==
    \/ n = 1 /\ pmm_alloc_page
    \/ n > 1 /\ \E s \in Smallest(Runs(n)) : Take(s, n)
    \/ n > 1 /\ Runs(n) = {} /\ OutOfMemory
    \/ n = 0 /\ OutOfMemory

(***************************************************************************)
(* Deallocation.  Each page is skipped with a warning if it is out of      *)
(* range or free already.                                                  *)
(***************************************************************************)
\* Without the test for a double free.
Freed_Twice(pages) == {p \in pages : p # 0 /\ p < MAX_PAGES}

Freed(pages) == {p \in pages : p # 0 /\ p < MAX_PAGES /\ p \in bitmap}

pmm_free_pages(s, n) ==
    LET freed == Freed(Span(s, n))
    IN  /\ bitmap' = bitmap \ freed
        /\ free_count' = free_count + Cardinality(freed)
        /\ first_free_hint' \in Smallest(freed \cup {first_free_hint})
        /\ owned' = owned \ {<<s, n>>}
        /\ ret' = NoResult
        /\ UNCHANGED <<reserved_pages, total_pages, fenced>>

\* Owned and freed whole, or free already, or an address that is never free.
MayFree(s, n) ==
    <<s, n>> \in owned \/ \A p \in Span(s, n) : p = 0 \/ p \notin bitmap

(***************************************************************************)
(* Reservation, and undoing one.                                           *)
(***************************************************************************)
\* Counting pages that were not free as well.
Reserved_Used(pages) == pages \cap Page

Reserved(pages) == pages \cap Free

pmm_reserve_pages(s, n) ==
    LET taken == Reserved(Span(s, n))
    IN  /\ bitmap' = bitmap \cup taken
        /\ free_count' = free_count - Cardinality(taken)
        /\ reserved_pages' = reserved_pages + Cardinality(taken)
        /\ fenced' = fenced \cup taken
        /\ ret' = NoResult
        /\ UNCHANGED <<first_free_hint, total_pages, owned>>

\* The hint stays where it is.
pmm_unreserve_page(p) ==
    /\ p \in bitmap
    /\ bitmap' = bitmap \ {p}
    /\ free_count' = free_count + 1
    /\ reserved_pages' = IF reserved_pages > 0 THEN reserved_pages - 1 ELSE 0
    /\ fenced' = fenced \ {p}
    /\ ret' = NoResult
    /\ UNCHANGED <<first_free_hint, total_pages, owned>>

PmmNext ==
    \/ \E n \in 0 .. MaxCount : pmm_alloc_pages(n)
    \/ \E s \in 0 .. MAX_PAGES, n \in 0 .. MaxCount :
          MayFree(s, n) /\ pmm_free_pages(s, n)
    \/ \E s \in 0 .. MAX_PAGES, n \in 0 .. MaxCount : pmm_reserve_pages(s, n)
    \/ \E p \in fenced \ SystemPages : pmm_unreserve_page(p)

PmmSpec == PmmInit /\ [][PmmNext]_pmmVars

(***************************************************************************)
(* Properties.                                                             *)
(***************************************************************************)
\* Every variable has the type of the C object it stands for; the counters
\* never leave the range of page counts (they are unsigned).
PmmTypeOK ==
    /\ bitmap \subseteq Page
    /\ free_count \in 0 .. MAX_PAGES
    /\ reserved_pages \in 0 .. MAX_PAGES
    /\ first_free_hint \in 0 .. MAX_PAGES
    /\ total_pages \in 0 .. MAX_PAGES
    /\ fenced \subseteq Page
    /\ owned \subseteq Page \X (1 .. MAX_PAGES)
    /\ ret \in Page \cup {NoResult}

\* pmm_free_count is the number of clear bits, after any mix of allocation,
\* double free, reservation and its undoing (pmm.c:174-323).
FreeCountExact == free_count = Cardinality(Free)

\* No page is in two allocations, and an allocated page is neither free nor
\* reserved nor a page of the system regions, which stay taken (pmm.c:174-323).
Exclusive ==
    /\ \A a, b \in owned : a # b => Span(a[1], a[2]) \cap Span(b[1], b[2]) = {}
    /\ HeldPages \subseteq bitmap \ (fenced \cup SystemPages)
    /\ fenced \cup SystemPages \subseteq bitmap

\* Every page pmm_init found is free, reserved or allocated, so the used_pages
\* of pmm_get_stats are exactly those reserved or allocated: nothing leaks
\* (pmm.c:336-345).
Accounted ==
    /\ reserved_pages = Cardinality(fenced)
    /\ total_pages = free_count + reserved_pages + Cardinality(HeldPages)

\* pmm_alloc_page gives up only when no page is free at all, wherever the
\* hint points (pmm.c:174-198).
AllocPageFinds == [][pmm_alloc_page /\ ret' = 0 => Free = {}]_pmmVars

(***************************************************************************)
(* What the code says and does not do.                                     *)
(***************************************************************************)
\* "Cannot allocate %d contiguous pages" (pmm.c:235) is printed only when
\* there are none.
AllocPagesFinds ==
    [][\A n \in 2 .. MaxCount :
          pmm_alloc_pages(n) /\ ret' = 0 => RunsIn(0, MAX_PAGES, n) = {}]_pmmVars
=============================================================================
