--------------------------------- MODULE Vmm ---------------------------------
(***************************************************************************)
(* Address spaces: the four-level page tables the boot loader leaves       *)
(* (boot/stage2/loader.asm), what the virtual memory manager makes of them *)
(* (kernel/mm/vmm.c) for the heap (kernel/mm/heap.c) and for user          *)
(* processes (kernel/user/user_process.c).                                 *)
(*                                                                         *)
(* A table has N entries at every level (512 in the code), so that a       *)
(* virtual page is a tuple of four indices and physical memory, all of it  *)
(* mapped by huge pages at boot, has N * N page frames.  The physical      *)
(* memory manager hands out the lowest free frame (module Pmm).  Tables    *)
(* are read and written through the direct map, PHYS_TO_VIRT.              *)
(***************************************************************************)
EXTENDS Integers, Sequences, FiniteSetsExt

CONSTANTS
    N,                 \* entries of a table
    Pool,              \* page frames that are free when vmm_init runs
    USER_CODE_REGION,  \* index in the page directory of USER_CODE_BASE
    HEAP_REGION,       \* and of HEAP_START
    CodePages,         \* pages of the program
    StackPages,        \* USER_STACK_SIZE in pages
    HeapLimit,         \* bound on the pages of the heap
    SpaceLimit         \* bound on the calls of user_process_create

Index == 0 .. N - 1
Frame == 0 .. N * N - 1

\* The indices of the loader's mappings and of the user stack.
LOW == 0
HIGH == N - 1
KERNEL_PDPT == N - 2
STACK == (N \div 2) - 1
KernelHalf == (N \div 2) .. N - 1

boot_pdpt == 2
boot_pd == 3

ASSUME LayoutAssumption ==
    /\ N \in Nat /\ N >= 6
    /\ Pool \subseteq Frame \ 0 .. boot_pd /\ Pool # {}
    /\ {USER_CODE_REGION, HEAP_REGION} \subseteq Index \ {0}
    /\ USER_CODE_REGION # HEAP_REGION
    /\ HEAP_REGION * N + HeapLimit <= N * N
    /\ {CodePages, StackPages} \subseteq 1 .. N - 2

VARIABLES
    table,             \* what each page frame holds as a table
    free,              \* frames the physical memory manager holds
    vmm_pml4,          \* the kernel's own top-level table
    heap_pages,        \* pages of the heap so far
    space,             \* address spaces of the user processes, in order of creation
    loading            \* address space user_process_create works on, or none

vars == <<table, free, vmm_pml4, heap_pages, space, loading>>

Entry == [frame : Frame, present : BOOLEAN, user : BOOLEAN, huge : BOOLEAN]
NotPresent == [frame |-> 0, present |-> FALSE, user |-> FALSE, huge |-> FALSE]
KernelEntry(f) == [NotPresent EXCEPT !.frame = f, !.present = TRUE]
UserEntry(f) == [KernelEntry(f) EXCEPT !.user = TRUE]
HugeEntry(f) == [KernelEntry(f) EXCEPT !.huge = TRUE]
Empty == [i \in Index |-> NotPresent]

None == [pml4 |-> 0, page |-> <<>>]

Virt == Index \X Index \X Index \X Index
CodePage(i) == <<LOW, 0, USER_CODE_REGION, i>>
StackPage(i) == <<STACK, N - 1, N - 1, N - 2 - StackPages + i>>
HeapPage(i) == <<HIGH, KERNEL_PDPT, HEAP_REGION + (i \div N), i % N>>
PHYS_TO_VIRT(f) == <<HIGH, KERNEL_PDPT, f \div N, f % N>>

-----------------------------------------------------------------------------
\* Walking the tables t from top-level table p: the frame that page v is mapped
\* to, 0 if it is not mapped.
vmm_get_physical(t, p, v) ==
    LET pml4e == t[p][v[1]]
        pdpte == t[pml4e.frame][v[2]]
        pde   == t[pdpte.frame][v[3]]
        pte   == t[pde.frame][v[4]]
    IN IF ~(pml4e.present /\ pdpte.present /\ pde.present) THEN 0
       ELSE IF pde.huge THEN pde.frame + v[4]
       ELSE IF pte.present THEN pte.frame
       ELSE 0

\* The tables below top-level table p, through the entries in top of it.
Below(t, f, top) == {t[f][i].frame : i \in {j \in top : t[f][j].present /\ ~t[f][j].huge}}
TablesBelow(t, p, top) ==
    LET pdpts == Below(t, p, top)
        pds   == UNION {Below(t, f, Index) : f \in pdpts}
        pts   == UNION {Below(t, f, Index) : f \in pds}
    IN pdpts \cup pds \cup pts
TablesOf(p) == {p} \cup TablesBelow(table, p, Index)

-----------------------------------------------------------------------------
\* What an operation has done to memory so far, and whether all went well.
Memory == [table |-> table, free |-> free, ok |-> TRUE]

\* pmm_alloc_page: the frame it returns is the lowest free one.
NewFrame(m) == Min(m.free)
pmm_alloc_page(m) ==
    IF m.free = {} THEN [m EXCEPT !.ok = FALSE] ELSE [m EXCEPT !.free = @ \ {NewFrame(m)}]

\* A new table with the given contents, linked at entry i of table f with the flags
\* of link.
NewTable(m, f, i, contents, link) ==
    LET new == NewFrame(m)
        a   == pmm_alloc_page(m)
    IN IF ~a.ok THEN a
       ELSE [a EXCEPT !.table = [@ EXCEPT ![new] = contents, ![f][i] = [link EXCEPT !.frame = new]]]

\* The 4 KB pages that replace a huge page.
Split(e, link) == [k \in Index |-> [link EXCEPT !.frame = e.frame + k]]

\* The table that entry i of f links: made if it is missing, split if it is huge.
KernelTable(m, f, i) ==
    LET e == m.table[f][i]
    IN IF ~m.ok \/ (e.present /\ ~e.huge) THEN m
       ELSE NewTable(m, f, i, IF e.huge THEN Split(e, KernelEntry(0)) ELSE Empty, KernelEntry(0))

vmm_map_page(m0, v, phys) ==
    LET m1   == KernelTable(m0, vmm_pml4, v[1])
        pdpt == m1.table[vmm_pml4][v[1]].frame
        m2   == KernelTable(m1, pdpt, v[2])
        pd   == m2.table[pdpt][v[2]].frame
        m3   == KernelTable(m2, pd, v[3])
        pt   == m3.table[pd][v[3]].frame
    IN IF m3.ok THEN [m3 EXCEPT !.table[pt][v[4]] = KernelEntry(phys)] ELSE m3

OwnTable_InPlace(m, f, i) ==
    LET e == m.table[f][i]
    IN IF ~m.ok THEN m
       ELSE IF e.present THEN [m EXCEPT !.table[f][i].user = TRUE]
       ELSE NewTable(m, f, i, Empty, UserEntry(0))

OwnTable_CopiesAgain(m, f, i) ==
    LET e == m.table[f][i]
    IN IF ~m.ok THEN m
       ELSE NewTable(m, f, i, IF e.present THEN m.table[e.frame] ELSE Empty, UserEntry(0))

\* The process's own table at entry i of f: one shared with the kernel has no
\* user flag and is copied.
OwnTable(m, f, i) ==
    LET e == m.table[f][i]
    IN IF ~m.ok \/ (e.present /\ e.user) THEN m
       ELSE NewTable(m, f, i, IF e.present THEN m.table[e.frame] ELSE Empty, UserEntry(0))

\* The page table at entry i of page directory f.  A present one is used as it is.
UserTable(m, f, i) ==
    LET e == m.table[f][i]
    IN IF ~m.ok \/ (e.present /\ ~e.huge) THEN m
       ELSE NewTable(m, f, i, IF e.huge THEN Split(e, UserEntry(0)) ELSE Empty, UserEntry(0))

vmm_map_user_page(m0, pml4, v, phys) ==
    LET m1   == OwnTable(m0, pml4, v[1])
        pdpt == m1.table[pml4][v[1]].frame
        m2   == OwnTable(m1, pdpt, v[2])
        pd   == m2.table[pdpt][v[2]].frame
        m3   == UserTable(m2, pd, v[3])
        pt   == m3.table[pd][v[3]].frame
    IN IF m3.ok THEN [m3 EXCEPT !.table[pt][v[4]] = UserEntry(phys)] ELSE m3

-----------------------------------------------------------------------------
\* The loader maps all of memory twice, low and high, through one page directory.
boot_tables ==
    [f \in Frame |->
        CASE f = boot_pdpt -> [Empty EXCEPT ![0] = KernelEntry(boot_pd), ![KERNEL_PDPT] = KernelEntry(boot_pd)]
          [] f = boot_pd   -> [r \in Index |-> HugeEntry(r * N)]
          [] OTHER         -> Empty]

\* vmm_init: a top-level table of the kernel's own.  Its link to itself, which
\* nothing uses, is left out.
Init ==
    /\ vmm_pml4 = Min(Pool)
    /\ free = Pool \ {vmm_pml4}
    /\ table = [boot_tables EXCEPT
                  ![vmm_pml4] = [Empty EXCEPT ![LOW] = KernelEntry(boot_pdpt), ![HIGH] = KernelEntry(boot_pdpt)]]
    /\ heap_pages = 0
    /\ space = <<>>
    /\ loading = None

PagesToLoad == CodePages + StackPages

\* heap_init and heap_expand map the heap page by page.  A page that cannot be
\* mapped goes back.  User processes are created before the scheduler starts: of
\* the calls of user_process_create only process_create takes heap memory.
heap_expand ==
    /\ heap_pages < HeapLimit
    /\ loading = None \/ Len(loading.page) = PagesToLoad
    /\ LET page == NewFrame(Memory)
           a    == pmm_alloc_page(Memory)
           m    == vmm_map_page(a, HeapPage(heap_pages), page)
       IN /\ a.ok /\ m.ok
          /\ table' = m.table
          /\ free' = m.free
    /\ heap_pages' = heap_pages + 1
    /\ UNCHANGED <<vmm_pml4, space, loading>>

vmm_create_address_space_LowOnly ==
    /\ loading = None /\ Len(space) < SpaceLimit
    /\ free # {}
    /\ free' = free \ {Min(free)}
    /\ table' = [table EXCEPT ![Min(free)] = [i \in Index |-> IF i = LOW THEN table[vmm_pml4][i] ELSE NotPresent]]
    /\ loading' = [None EXCEPT !.pml4 = Min(free)]
    /\ UNCHANGED <<vmm_pml4, heap_pages, space>>

\* user_process_create starts: the kernel half and the identity mapping are copied.
vmm_create_address_space ==
    /\ loading = None /\ Len(space) < SpaceLimit
    /\ free # {}
    /\ free' = free \ {Min(free)}
    /\ table' = [table EXCEPT ![Min(free)] =
                    [i \in Index |-> IF i \in KernelHalf \cup {LOW} THEN table[vmm_pml4][i] ELSE NotPresent]]
    /\ loading' = [None EXCEPT !.pml4 = Min(free)]
    /\ UNCHANGED <<vmm_pml4, heap_pages, space>>

PageToLoad_SameStackPage(i) == IF i < CodePages THEN CodePage(i) ELSE StackPage(0)

\* user_load_code, then user_stack_alloc, go through the pages in this order.
PageToLoad(i) == IF i < CodePages THEN CodePage(i) ELSE StackPage(i - CodePages)

Mapped ==
    LET page == NewFrame(Memory)
        a    == pmm_alloc_page(Memory)
    IN IF ~a.ok THEN a ELSE vmm_map_user_page(a, loading.pml4, PageToLoad(Len(loading.page)), page)

\* One round of the loops of user_load_code and user_stack_alloc.
load_page ==
    /\ loading # None /\ Len(loading.page) < PagesToLoad
    /\ Mapped.ok
    /\ table' = Mapped.table
    /\ free' = Mapped.free
    /\ loading' = [loading EXCEPT !.page = Append(@, NewFrame(Memory))]
    /\ UNCHANGED <<vmm_pml4, heap_pages, space>>

\* process_create gives the process its slot and the address space is complete.
process_create ==
    /\ loading # None /\ Len(loading.page) = PagesToLoad
    /\ space' = Append(space, loading)
    /\ loading' = None
    /\ UNCHANGED <<table, free, vmm_pml4, heap_pages>>

Next ==
    \/ heap_expand
    \/ vmm_create_address_space
    \/ load_page
    \/ process_create

Spec == Init /\ [][Next]_vars
-----------------------------------------------------------------------------
\* The way out of user_process_create when memory runs out or, at the end, when
\* there is no slot for the process: the page at hand goes back, the tables that
\* were linked before the failure stay for vmm_destroy_address_space to free.
vmm_destroy_address_space ==
    /\ loading # None
    /\ \/ /\ Len(loading.page) < PagesToLoad
          /\ ~Mapped.ok
          /\ table' = Mapped.table
          /\ free' = Mapped.free \cup (IF free = {} THEN {} ELSE {NewFrame(Memory)})
                       \cup {loading.pml4} \cup TablesBelow(Mapped.table, loading.pml4, Index \ KernelHalf)
       \/ /\ Len(loading.page) = PagesToLoad
          /\ free' = free \cup {loading.pml4} \cup TablesBelow(table, loading.pml4, Index \ KernelHalf)
          /\ UNCHANGED table
    /\ loading' = None
    /\ UNCHANGED <<vmm_pml4, heap_pages, space>>

\* The system with creations that fail.
FailSpec == Init /\ [][Next \/ vmm_destroy_address_space]_vars
-----------------------------------------------------------------------------
Live == {space[i] : i \in DOMAIN space} \cup ({loading} \ {None})
Pages(s) == {s.page[i] : i \in DOMAIN s.page}
KernelTables == TablesOf(vmm_pml4)
OwnTables(s) == TablesOf(s.pml4) \ KernelTables
HeapFrames == {vmm_get_physical(table, vmm_pml4, HeapPage(i)) : i \in 0 .. heap_pages - 1}

\* Kernel threads run on the tables of whatever process ran before them
\* (context_switch does not load CR3 for them): the kernel half and the kernel
\* image in the identity mapping are mapped alike in every address space, also
\* when the heap grows after the address space was made.
KernelMappedAlike ==
    \A s \in Live : \A v \in Virt :
        v[1] \in KernelHalf \/ (v[1] = LOW /\ v[2] = 0 /\ v[3] = 0)
            => vmm_get_physical(table, s.pml4, v) = vmm_get_physical(table, vmm_pml4, v)

\* A process finds its program and its stack where the loader of it put them,
\* whatever was mapped in other address spaces since.
PagesMapped ==
    \A s \in Live : \A i \in DOMAIN s.page :
        vmm_get_physical(table, s.pml4, PageToLoad(i - 1)) = s.page[i]

\* Every page frame has one use: free, a table of the kernel, a page of the heap,
\* a table or a page of one process.  None is lost.
OneUse ==
    LET uses == {free, KernelTables \cap Pool, HeapFrames} \cup
                UNION {{OwnTables(s), Pages(s)} : s \in Live}
    IN /\ \A a, b \in uses : a = b \/ a \cap b = {}
       /\ \A s, t \in Live : OwnTables(s) = OwnTables(t) \/ Pages(s) = Pages(t) => s = t
       /\ UNION uses = Pool

\* The only mappings of the kernel that ever change are those of new heap pages,
\* in the high and in the low copy: splitting a huge page keeps the others, and
\* mapping a page for a process touches none.
KernelMappingsStay ==
    [][\A v \in Virt :
          vmm_get_physical(table, vmm_pml4, v)' # vmm_get_physical(table, vmm_pml4, v)
              => \E i \in heap_pages .. heap_pages' - 1 : <<v[3], v[4]>> = <<HeapPage(i)[3], HeapPage(i)[4]>>]_vars

\* "Only free user-space page tables": giving up an address space frees no table
\* the kernel maps its memory with.
KernelTablesStay == KernelTables \cap free = {}

\* "Does NOT free the physical pages that were mapped - caller must do that":
\* outside user_process_create every frame is free or has a use.
NothingLost ==
    loading = None =>
        Pool \subseteq free \cup KernelTables \cup HeapFrames \cup UNION {OwnTables(s) \cup Pages(s) : s \in Live}

\* PHYS_TO_VIRT converts "between physical and virtual addresses": a frame that
\* the memory manager may hand out is reached through the direct map.
DirectMap == \A f \in free : vmm_get_physical(table, vmm_pml4, PHYS_TO_VIRT(f)) = f
=============================================================================
