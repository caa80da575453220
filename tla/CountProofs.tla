---------------------------- MODULE CountProofs ----------------------------
(***************************************************************************)
(* Counters kept beside what they count.                                    *)
(*                                                                          *)
(* Vnodes count the open files on them, for any number of processes, files  *)
(* and table entries.                                                       *)
(*                                                                          *)
(* The physical memory manager keeps its books, for any number of pages,    *)
(* any memory map without overlapping entries and any system regions.       *)
(***************************************************************************)
EXTENDS VfsSteps, Pmm, FiniteSetTheorems

(***************************************************************************)
(* Vnodes and open files.                                                  *)
(***************************************************************************)
\* A set of numbers that is not empty has a first one.
LEMMA LowestExists ==
    ASSUME NEW S, S \subseteq Nat, S # {}
    PROVE  Lowest(S) # {}
<1>. DEFINE R == OpToRel(<, Nat)
<1>1. IsWellFoundedOn(R, Nat)
  BY NatLessThanWellFounded, Zenon
<1>2. \A x, y \in Nat : <<x, y>> \in R <=> x < y
  BY DEF OpToRel
<1>. HIDE DEF R
<1>3. PICK n \in S : \A k \in S : ~ (<<k, n>> \in R)
  BY <1>1, WFMin, Zenon
<1>4. \A k \in S : ~ (k < n)
  BY <1>2, <1>3, Zenon
<1>. QED  BY <1>4 DEF Lowest

\* Any set of open files is finite, and no larger than their table.
LEMMA FileSet ==
    ASSUME NEW S \in SUBSET OpenFile
    PROVE  IsFiniteSet(S) /\ Cardinality(S) \in Nat /\ Cardinality(S) <= MAX_OPEN_FILES
<1>1. MAX_OPEN_FILES - 1 \in Int /\ MAX_OPEN_FILES \in Nat /\ ~(0 > MAX_OPEN_FILES - 1)
  BY TableAssumption
<1>2. IsFiniteSet(OpenFile) /\ Cardinality(OpenFile) = MAX_OPEN_FILES
  BY <1>1, FS_Interval DEF OpenFile
<1>3. IsFiniteSet(S) /\ Cardinality(S) <= MAX_OPEN_FILES
  BY <1>2, FS_Subset
<1>. QED  BY <1>3, FS_CardinalityType

\* The sizes of sets of open files and of descriptors.
LEMMA FilesCounted == FilesCount
<1>1. Cardinality({}) = 0 /\ \A fd \in Fd : Cardinality({fd}) = 1
  BY FS_EmptySet, FS_Singleton, Zenon
<1>2. ASSUME NEW S \in SUBSET OpenFile
      PROVE  /\ Cardinality(S) \in 0 .. MAX_OPEN_FILES /\ (Cardinality(S) = 0 => S = {})
             /\ \A f \in OpenFile \ S : Cardinality(S \cup {f}) = Cardinality(S) + 1
             /\ \A R \in SUBSET S : Cardinality(S \ R) = Cardinality(S) - Cardinality(R)
  <2>1. IsFiniteSet(S) /\ Cardinality(S) \in Nat /\ Cardinality(S) <= MAX_OPEN_FILES
    BY FileSet
  <2>2. Cardinality(S) = 0 => S = {}
    BY <2>1, FS_EmptySet
  <2>3. ASSUME NEW f \in OpenFile \ S PROVE Cardinality(S \cup {f}) = Cardinality(S) + 1
    BY <2>1, <2>3, FS_AddElement, Zenon
  <2>4. ASSUME NEW R \in SUBSET S PROVE Cardinality(S \ R) = Cardinality(S) - Cardinality(R)
    <3>1. S \cap R = R
      OBVIOUS
    <3>. QED  BY <2>1, <3>1, FS_Difference, Zenon
  <2>5. MAX_OPEN_FILES \in Nat
    BY TableAssumption
  <2>6. Cardinality(S) \in 0 .. MAX_OPEN_FILES
    BY <2>1, <2>5
  <2>. QED  BY <2>2, <2>3, <2>4, <2>6, Zenon
<1>. QED  BY <1>1, <1>2, Zenon DEF FilesCount

\* Initially only the root has a vnode, and no file is open.
LEMMA VfsInitIInv == VfsInit => VfsIInv
<1>. SUFFICES ASSUME VfsInit PROVE VfsIInv
  OBVIOUS
<1>1. PICK number \in [Dir -> 0 .. Cardinality(Dir) - 1] :
         /\ number[RootPath] = 0
         /\ entry = [p \in Path |-> IF p \in Dir THEN number[p] ELSE NoInode]
  BY DEF VfsInit
<1>2. /\ inode = [i \in Inode |-> IF i < Cardinality(Dir) THEN [type |-> "DIR", size |-> 0]
                                  ELSE FreeInode]
      /\ vnode = [v \in Vnode |-> IF v = g_root_vnode THEN [ref_count |-> 1, inode_num |-> 0]
                                  ELSE FreeVnode]
      /\ file = [f \in OpenFile |-> FreeFile]
      /\ fd_table = [p \in Process |-> NoTable]
  BY DEF VfsInit
<1>3. \A d \in Dir : number[d] \in Inode /\ inode[number[d]].type = "DIR" /\ number[d] # NoInode
  <2>1. ASSUME NEW d \in Dir PROVE number[d] \in Inode /\ number[d] < Cardinality(Dir)
    <3>1. number[d] \in 0 .. Cardinality(Dir) - 1 /\ RAMFS_MAX_FILES >= Cardinality(Dir) /\ RAMFS_MAX_FILES \in Nat
      BY TableAssumption
    <3>2. Cardinality(Dir) \in Nat
      BY TableAssumption, FS_CardinalityType
    <3>. QED  BY <3>1, <3>2 DEF Inode
  <2>. QED  BY <1>2, <2>1, Numbers
<1>4. Shapes(entry, inode, file, fd_table)
  <2>1. entry \in [Path -> Inode \cup {NoInode}]
    BY <1>1, <1>3
  <2>2. inode \in [Inode -> InodeRecord]
    BY <1>2, TableAssumption DEF InodeRecord, FreeInode
  <2>3. FreeFile \in FileRecord
    BY Numbers DEF FreeFile, FileRecord
  <2>4. NoTable \in Descriptors
    BY DEF NoTable, Descriptors
  <2>. QED  BY <1>2, <2>1, <2>2, <2>3, <2>4 DEF Shapes
<1>5. VnodeTable(vnode, inode)
  <2>1. inode[0].type # "FREE"
    BY <1>1, <1>3, Numbers
  <2>2. vnode \in [Vnode -> VnodeRecord]
    BY <1>2, Numbers DEF VnodeRecord, FreeVnode
  <2>3. /\ g_root_vnode \in Vnode /\ vnode[g_root_vnode] = [ref_count |-> 1, inode_num |-> 0]
        /\ \A v \in Vnode : v # g_root_vnode => vnode[v].ref_count = 0
    BY <1>2, Numbers DEF g_root_vnode, FreeVnode
  <2>. QED  BY <2>1, <2>2, <2>3 DEF VnodeTable
<1>6. Counted(vnode, file)
  <2>1. \A v \in Vnode : OpenOn(file, v) = {}
    BY <1>2 DEF OpenOn, FreeFile
  <2>2. \A v \in Vnode \ {g_root_vnode} : vnode[v].ref_count = 0
    BY <1>2 DEF FreeVnode
  <2>. QED  BY <2>1, <2>2, FS_EmptySet, Zenon DEF Counted
<1>7. RootBounded(vnode)
  BY <1>2, Numbers, TableAssumption DEF RootBounded, g_root_vnode
<1>8. OneDescriptor(file, fd_table)
  <2>1. \A p \in Process, fd \in Fd : fd_table[p].entries[fd] \notin OpenFile
    BY <1>2, Numbers DEF NoTable
  <2>2. \A f \in OpenFile : file[f].ref_count = 0
    BY <1>2 DEF FreeFile
  <2>. QED  BY <2>1, <2>2 DEF OneDescriptor
<1>9. Entries(entry, inode)
  BY <1>1, <1>3, Numbers DEF Entries
<1>. QED  BY <1>4, <1>5, <1>6, <1>7, <1>8, <1>9 DEF VfsIInv

\* Every step keeps the invariant.
LEMMA VfsNextIInv ==
    ASSUME CountersSuffice
    PROVE  VfsIInv /\ [VfsNext]_vfsVars => VfsIInv'
<1>1. CASE UNCHANGED vfsVars
  BY <1>1 DEF vfsVars, VfsIInv
<1>. QED  BY <1>1, FilesCounted, VfsStep DEF VfsNext

\* The inductive invariant of the vnode, open file and descriptor tables: each
\* vnode in use stands for an inode of its own and counts its open files, each
\* open file has one descriptor.
THEOREM VfsInvariant == CountersSuffice /\ VfsSpec => []VfsIInv
<1>. SUFFICES ASSUME CountersSuffice PROVE VfsSpec => []VfsIInv
  OBVIOUS
<1>1. VfsIInv /\ [VfsNext]_vfsVars => VfsIInv'
  BY VfsNextIInv
<1>. QED  BY <1>1, VfsInitIInv, PTL DEF VfsSpec

\* Reference counts are exact at both levels: no vnode and no open file is freed
\* while it is referred to, and none is kept when the last reference goes.
THEOREM ReferencesExact == CountersSuffice /\ VfsSpec => []ReferencesCounted
<1>1. VfsIInv => ReferencesCounted
  <2>. SUFFICES ASSUME VfsIInv PROVE ReferencesCounted
    OBVIOUS
  <2>1. \A v \in Vnode \ {g_root_vnode} :
           vnode[v].ref_count = Cardinality({f \in OpenFile : file[f].ref_count > 0 /\ file[f].vnode = v})
    BY DEF VfsIInv, Counted, OpenOn
  <2>2. ASSUME NEW f \in OpenFile
        PROVE  file[f].ref_count =
                  Cardinality({pfd \in Process \X Fd : fd_table[pfd[1]].entries[pfd[2]] = f})
    <3>. DEFINE Leads == {pfd \in Process \X Fd : fd_table[pfd[1]].entries[pfd[2]] = f}
    <3>1. CASE file[f].ref_count = 0
      <4>1. Leads = {}
        BY <3>1 DEF VfsIInv, OneDescriptor
      <4>. QED  BY <3>1, <4>1, FS_EmptySet, Zenon
    <3>2. CASE file[f].ref_count # 0
      <4>1. PICK p \in Process, fd \in Fd : fd_table[p].entries[fd] = f
        BY <3>2 DEF VfsIInv, OneDescriptor
      <4>2. Leads = {<<p, fd>>}
        <5>1. <<p, fd>> \in Leads
          BY <4>1
        <5>2. ASSUME NEW x \in Leads PROVE x = <<p, fd>>
          <6>1. x \in Process \X Fd /\ fd_table[x[1]].entries[x[2]] = f
            OBVIOUS
          <6>2. x[1] = p /\ x[2] = fd
            BY <4>1, <6>1 DEF VfsIInv, OneDescriptor
          <6>. QED  BY <6>1, <6>2
        <5>. QED  BY <5>1, <5>2
      <4>3. file[f].ref_count = 1
        BY <4>1 DEF VfsIInv, OneDescriptor
      <4>. QED  BY <4>2, <4>3, FS_Singleton, Zenon
    <3>. QED  BY <3>1, <3>2
  <2>. QED  BY <2>1, <2>2 DEF ReferencesCounted
<1>. QED  BY <1>1, VfsInvariant, PTL

\* There is always a vnode: those in use stand for different inodes in use, so
\* when inode i has none, one of the MAX_VNODES slots is free.
THEOREM VnodesAlwaysSuffice == CountersSuffice /\ VfsSpec => []VnodesSuffice
<1>1. VfsIInv => VnodesSuffice
  <2>. SUFFICES ASSUME VfsIInv PROVE VnodesSuffice
    OBVIOUS
  <2>1. ASSUME NEW i \in Inode PROVE Slot(vnode, i) # {}
    <3>. DEFINE used == {v \in Vnode : vnode[v].ref_count > 0 /\ vnode[v].inode_num = i}
                free == {v \in Vnode : vnode[v].ref_count = 0}
    <3>1. used \subseteq Nat /\ free \subseteq Nat
      BY Numbers, Zenon
    <3>2. used # {} \/ free # {}
      <4>. SUFFICES ASSUME used = {}, free = {} PROVE FALSE
        OBVIOUS
      <4>. DEFINE number == [v \in Vnode |-> vnode[v].inode_num]
                  Others == Inode \ {i}
      <4>1. vnode \in [Vnode -> VnodeRecord]
        BY DEF VfsIInv, VnodeTable
      <4>2. \A v \in Vnode : vnode[v].ref_count > 0 /\ vnode[v].inode_num \in Others
        BY <4>1 DEF VnodeRecord
      <4>3. number \in [Vnode -> Others]
        BY <4>2
      <4>4. \A v, w \in Vnode : number[v] = number[w] => v = w
        BY <4>2 DEF VfsIInv, VnodeTable
      <4>5. /\ MAX_VNODES \in Nat /\ MAX_VNODES > 0 /\ MAX_VNODES - 1 \in Int
            /\ RAMFS_MAX_FILES \in Nat /\ RAMFS_MAX_FILES > 0 /\ RAMFS_MAX_FILES - 1 \in Int
            /\ MAX_VNODES >= RAMFS_MAX_FILES
        BY TableAssumption
      <4>6. IsFiniteSet(Vnode) /\ Cardinality(Vnode) = MAX_VNODES
        BY <4>5, FS_Interval DEF Vnode
      <4>7. IsFiniteSet(Inode) /\ Cardinality(Inode) = RAMFS_MAX_FILES
        BY <4>5, FS_Interval DEF Inode
      <4>8. IsFiniteSet(Others) /\ Cardinality(Others) = RAMFS_MAX_FILES - 1
        BY <4>7, FS_RemoveElement
      <4>9. Cardinality(Others) < Cardinality(Vnode)
        BY <4>5, <4>6, <4>8
      <4>. HIDE DEF number, Others
      <4>. QED  BY <4>3, <4>4, <4>6, <4>8, <4>9, FS_PigeonHole
    <3>3. Slot(vnode, i) = IF used # {} THEN Lowest(used) ELSE Lowest(free)
      BY DEF Slot
    <3>. HIDE DEF used, free
    <3>. QED  BY <3>1, <3>2, <3>3, LowestExists, Zenon
  <2>. QED  BY <2>1 DEF VfsIInv, VnodeTable, VnodesSuffice
<1>. QED  BY <1>1, VfsInvariant, PTL

\* No call of a process, be it open, close, read, write, lseek, stat or its exit,
\* opens, closes, moves or redirects a descriptor of another process.
THEOREM DescriptorsStayPrivate == CountersSuffice /\ VfsSpec => DescriptorsPrivate
<1>. SUFFICES ASSUME CountersSuffice PROVE VfsSpec => DescriptorsPrivate
  OBVIOUS
<1>1. VfsIInv => [\A p \in Process : OthersKept(p) \/ ~Call(p)]_vfsVars
  BY FilesCounted, VfsStep
<1>2. VfsSpec => []VfsIInv
  BY VfsInvariant
<1>. QED  BY <1>1, <1>2, PTL DEF VfsSpec, DescriptorsPrivate

\* The tables have the types of their declarations.
THEOREM VfsTyped == CountersSuffice /\ VfsSpec => []VfsTypeOK
<1>. SUFFICES ASSUME CountersSuffice PROVE VfsSpec => []VfsTypeOK
  OBVIOUS
<1>1. VfsIInv => VfsTypeOK
  <2>. SUFFICES ASSUME VfsIInv PROVE VfsTypeOK
    OBVIOUS
  <2>1. ASSUME NEW v \in Vnode PROVE vnode[v] \in [ref_count : 0 .. RefLimit - 1, inode_num : Inode]
    <3>1. vnode[v] \in VnodeRecord /\ MAX_OPEN_FILES \in Nat /\ RootRefs \in Nat /\ RefLimit \in Nat
      BY TableAssumption DEF VfsIInv, VnodeTable
    <3>2. vnode[v].ref_count < RefLimit
      <4>1. CASE v = g_root_vnode
        BY <3>1, <4>1 DEF VnodeRecord, VfsIInv, RootBounded, CountersSuffice
      <4>2. CASE v # g_root_vnode
        <5>1. vnode[v].ref_count = Cardinality(OpenOn(file, v))
          BY <4>2 DEF VfsIInv, Counted
        <5>2. Cardinality(OpenOn(file, v)) <= MAX_OPEN_FILES
          BY FileSet DEF OpenOn
        <5>. QED  BY <3>1, <5>1, <5>2 DEF VnodeRecord, CountersSuffice
      <4>. QED  BY <4>1, <4>2
    <3>. QED  BY <3>1, <3>2 DEF VnodeRecord
  <2>2. ASSUME NEW f \in OpenFile
        PROVE  file[f] \in [ref_count : 0 .. RefLimit - 1, flags : Flags \cup {{}},
                            offset : Nat, vnode : Vnode, path : Path]
    <3>1. file[f] \in FileRecord /\ RefLimit > 1 /\ RefLimit \in Nat
      BY TableAssumption DEF VfsIInv, Shapes, CountersSuffice
    <3>2. file[f].ref_count = 0 \/ file[f].ref_count = 1
      BY DEF VfsIInv, OneDescriptor
    <3>. QED  BY <3>1, <3>2 DEF FileRecord
  <2>3. vnode \in [Vnode -> [ref_count : 0 .. RefLimit - 1, inode_num : Inode]]
    BY <2>1 DEF VfsIInv, VnodeTable
  <2>4. file \in [OpenFile -> [ref_count : 0 .. RefLimit - 1, flags : Flags \cup {{}},
                               offset : Nat, vnode : Vnode, path : Path]]
    BY <2>2 DEF VfsIInv, Shapes
  <2>. QED  BY <2>3, <2>4 DEF VfsIInv, Shapes, VfsTypeOK, InodeRecord, Descriptors
<1>2. VfsSpec => []VfsIInv
  BY VfsInvariant
<1>. QED  BY <1>1, <1>2, PTL

(***************************************************************************)
(* Physical pages.                                                         *)
(***************************************************************************)
\* The books of the physical memory manager, together inductive.
PmmInv == PmmTypeOK /\ FreeCountExact /\ Exclusive /\ Accounted

\* Any set of pages is finite, and no larger than the bitmap.
LEMMA PageSet ==
    ASSUME NEW S \in SUBSET Page
    PROVE  IsFiniteSet(S) /\ Cardinality(S) \in 0 .. MAX_PAGES
<1>1. MAX_PAGES - 1 \in Int
  BY PageAssumption
<1>2. IsFiniteSet(Page) /\ Cardinality(Page) = MAX_PAGES
  BY <1>1, FS_Interval, PageAssumption DEF Page
<1>3. IsFiniteSet(S) /\ Cardinality(S) <= MAX_PAGES
  BY <1>2, FS_Subset
<1>4. Cardinality(S) \in Nat
  BY <1>3, FS_CardinalityType
<1>. QED  BY <1>3, <1>4, PageAssumption

\* Counting two disjoint sets of pages.
LEMMA PageSum ==
    ASSUME NEW S \in SUBSET Page, NEW T \in SUBSET Page, S \cap T = {}
    PROVE  Cardinality(S \cup T) = Cardinality(S) + Cardinality(T)
<1>1. IsFiniteSet(S) /\ IsFiniteSet(T)
  BY PageSet
<1>2. Cardinality(S) \in Int /\ Cardinality(T) \in Int
  BY PageSet, PageAssumption
<1>3. Cardinality(S \cup T) = Cardinality(S) + Cardinality(T) - Cardinality(S \cap T)
  BY <1>1, FS_Union
<1>4. Cardinality(S \cap T) = 0
  BY FS_EmptySet
<1>. QED  BY <1>2, <1>3, <1>4

\* Counting a set of pages without a part of it.
LEMMA PageDifference ==
    ASSUME NEW S \in SUBSET Page, NEW T \in SUBSET S
    PROVE  Cardinality(S \ T) = Cardinality(S) - Cardinality(T)
<1>1. T \in SUBSET Page /\ S \ T \in SUBSET Page /\ T \cap (S \ T) = {} /\ T \cup (S \ T) = S
  OBVIOUS
<1>2. Cardinality(S) = Cardinality(T) + Cardinality(S \ T)
  BY <1>1, PageSum
<1>3. Cardinality(T) \in Int /\ Cardinality(S \ T) \in Int
  BY <1>1, PageSet, PageAssumption
<1>. QED  BY <1>2, <1>3

\* A span of n pages has n pages.
LEMMA SpanSize ==
    ASSUME NEW s \in Nat, NEW n \in Nat
    PROVE  Cardinality(Span(s, n)) = n
<1>1. s + n - 1 \in Int /\ s \in Int
  OBVIOUS
<1>2. Cardinality(s .. s + n - 1) = IF s > s + n - 1 THEN 0 ELSE s + n - 1 - s + 1
  BY <1>1, FS_Interval
<1>. QED  BY <1>2 DEF Span

\* pmm_init counts each usable page once, because the entries of the memory
\* map do not overlap.
LEMMA PmmInitInv == PmmInit => PmmInv
<1>. SUFFICES ASSUME NEW map \in MemoryMaps, pmm_init(map) PROVE PmmInv
  BY DEF PmmInit
<1>. DEFINE counted == {ip \in (DOMAIN map) \X Page : ip[2] \in UsablePages(map[ip[1]])}
            usable == UNION {UsablePages(map[i]) : i \in DOMAIN map}
            taken == usable \cap SystemPages
            page == [ip \in counted |-> ip[2]]
<1>1. /\ bitmap = Page \ (usable \ SystemPages)
      /\ total_pages = Cardinality(counted)
      /\ free_count = total_pages - Cardinality(taken)
      /\ reserved_pages = Cardinality(taken)
      /\ fenced = taken
      /\ \/ first_free_hint \in Smallest(Free)
         \/ Free = {} /\ first_free_hint = 0
      /\ owned = {}
      /\ ret = NoResult
  BY DEF pmm_init
<1>2. usable \in SUBSET Page /\ taken \in SUBSET usable /\ usable \ taken = Free
  BY <1>1, SystemPagesAssumption DEF UsablePages, Free
<1>3. ExistsBijection(counted, usable)
  <2>1. page \in [counted -> usable]
    OBVIOUS
  <2>2. \A a, b \in counted : page[a] = page[b] => a = b
    <3>. SUFFICES ASSUME NEW a \in counted, NEW b \in counted, a[2] = b[2] PROVE a = b
      OBVIOUS
    <3>1. a[2] \in UsablePages(map[a[1]]) \cap UsablePages(map[b[1]])
      OBVIOUS
    <3>2. a[1] = b[1]
      BY <3>1, MemoryMapAssumption
    <3>. QED  BY <3>2
  <2>3. \A p \in usable : \E a \in counted : page[a] = p
    <3>. SUFFICES ASSUME NEW p \in usable PROVE \E a \in counted : page[a] = p
      OBVIOUS
    <3>1. PICK i \in DOMAIN map : p \in UsablePages(map[i])
      OBVIOUS
    <3>2. p \in Page
      BY <1>2
    <3>3. <<i, p>> \in counted
      BY <3>1, <3>2
    <3>. QED  BY <3>3
  <2>. HIDE DEF counted, usable, page
  <2>4. IsInjective(page)
    BY <2>1, <2>2 DEF IsInjective
  <2>5. page \in Bijection(counted, usable)
    BY <2>1, <2>3, <2>4 DEF Bijection, Injection, Surjection
  <2>. QED  BY <2>5 DEF ExistsBijection
<1>4. IsFiniteSet(counted)
  <2>1. IsFiniteSet((DOMAIN map) \X Page)
    BY PageSet, FS_Product, MemoryMapAssumption, Zenon
  <2>. QED  BY <2>1, FS_Subset
<1>5. total_pages = Cardinality(usable)
  BY <1>1, <1>3, <1>4, FS_Bijection
<1>6. free_count = Cardinality(Free)
  BY <1>1, <1>2, <1>5, PageDifference
<1>7. HeldPages = {} /\ Cardinality(HeldPages) = 0
  BY <1>1, FS_EmptySet, Zenon DEF HeldPages
<1>8. PmmTypeOK
  <2>1. free_count \in 0 .. MAX_PAGES
    BY <1>6, PageSet DEF Free
  <2>2. reserved_pages \in 0 .. MAX_PAGES /\ total_pages \in 0 .. MAX_PAGES
    BY <1>1, <1>2, <1>5, PageSet
  <2>3. first_free_hint \in 0 .. MAX_PAGES
    BY <1>1, PageAssumption DEF Smallest, Free, Page
  <2>. QED  BY <1>1, <1>2, <2>1, <2>2, <2>3 DEF PmmTypeOK
<1>9. FreeCountExact /\ Exclusive
  BY <1>1, <1>6, <1>7, SystemPagesAssumption DEF FreeCountExact, Exclusive
<1>10. Accounted
  <2>1. free_count \in Int /\ reserved_pages \in Int /\ total_pages \in Int
    BY <1>8, PageAssumption DEF PmmTypeOK
  <2>. QED  BY <1>1, <1>7, <2>1 DEF Accounted
<1>. QED  BY <1>8, <1>9, <1>10 DEF PmmInv

\* A step that takes free pages, gives back an allocation or (un)reserves
\* pages: what the invariant asks of the sets of pages gives the counters.
LEMMA Books ==
    ASSUME PmmInv,
           bitmap' \subseteq Page, fenced' \subseteq Page,
           owned' \subseteq Page \X (1 .. MAX_PAGES),
           first_free_hint' \in 0 .. MAX_PAGES,
           ret' \in Page \cup {NoResult},
           total_pages' = total_pages,
           Exclusive',
           free_count' = Cardinality(Free'),
           reserved_pages' = Cardinality(fenced'),
           Cardinality(Free') + Cardinality(fenced') + Cardinality(HeldPages') =
              Cardinality(Free) + Cardinality(fenced) + Cardinality(HeldPages)
    PROVE  PmmInv'
<1>1. Free' \in SUBSET Page /\ HeldPages' \in SUBSET Page
  BY DEF Free, Exclusive
<1>2. free_count' \in 0 .. MAX_PAGES /\ reserved_pages' \in 0 .. MAX_PAGES
  BY <1>1, PageSet
<1>3. PmmTypeOK'
  BY <1>2 DEF PmmTypeOK, PmmInv
<1>4. Accounted'
  BY DEF Accounted, PmmInv, FreeCountExact
<1>. QED  BY <1>3, <1>4 DEF PmmInv, FreeCountExact

\* The sets of pages the invariant talks about are finite sets of pages.
LEMMA Sets ==
    ASSUME PmmInv
    PROVE  /\ Free \in SUBSET Page /\ bitmap \in SUBSET Page
           /\ fenced \in SUBSET Page /\ HeldPages \in SUBSET Page
           /\ Page \subseteq Nat /\ MAX_PAGES \in Nat
           /\ Cardinality(Free) \in Int
           /\ Cardinality(fenced) \in Int
           /\ Cardinality(HeldPages) \in Int
<1>1. /\ Free \in SUBSET Page /\ bitmap \in SUBSET Page
      /\ fenced \in SUBSET Page /\ HeldPages \in SUBSET Page
  BY DEF PmmInv, PmmTypeOK, Exclusive, Free
<1>2. Page \subseteq Nat /\ MAX_PAGES \in Nat
  BY PageAssumption DEF Page
<1>. QED  BY <1>1, <1>2, PageSet

\* Giving a span of free pages to a caller (pmm_alloc_page, pmm_alloc_pages).
LEMMA TakeIInv ==
    ASSUME PmmInv, NEW s \in Nat, NEW n \in Nat \ {0}, Span(s, n) \subseteq Free, Take(s, n)
    PROVE  PmmInv'
<1>. DEFINE new == Span(s, n)
<1>1. /\ bitmap' = bitmap \cup new
      /\ free_count' = free_count - n
      /\ first_free_hint' = s + n
      /\ owned' = owned \cup {<<s, n>>}
      /\ ret' = s
      /\ UNCHANGED <<reserved_pages, total_pages, fenced>>
  BY DEF Take, Marked
<1>2. s \in Span(s, n) /\ s + n - 1 \in Span(s, n)
  BY DEF Span
<1>3. s \in Page /\ s + n - 1 \in Page
  BY <1>2 DEF Free
<1>4. s + n \in 0 .. MAX_PAGES /\ n \in 1 .. MAX_PAGES
  BY <1>3, PageAssumption DEF Page
<1>5. HeldPages' = HeldPages \cup new
  <2>1. \A p : p \in HeldPages <=> \E a \in owned : p \in Span(a[1], a[2])
    BY DEF HeldPages
  <2>2. \A p : p \in HeldPages' <=> \E a \in owned' : p \in Span(a[1], a[2])
    BY DEF HeldPages
  <2>3. \A p : p \in HeldPages' <=> p \in HeldPages \/ p \in Span(<<s, n>>[1], <<s, n>>[2])
    BY <1>1, <2>1, <2>2, Zenon
  <2>4. <<s, n>>[1] = s /\ <<s, n>>[2] = n
    OBVIOUS
  <2>. QED  BY <2>3, <2>4
<1>6. Free' = Free \ new
  BY <1>1 DEF Free
<1>7. Cardinality(new) = n /\ new \in SUBSET Page
  BY SpanSize, Sets
<1>8. new \cap HeldPages = {} /\ new \cap (fenced \cup SystemPages) = {}
  BY DEF PmmInv, Exclusive, Free
<1>9. Exclusive'
  <2>1. \A a \in owned : Span(a[1], a[2]) \subseteq HeldPages
    BY DEF HeldPages
  <2>2. \A a \in owned : Span(a[1], a[2]) \cap new = {}
    BY <2>1, <1>8
  <2>3. \A a, b \in owned' : a # b => Span(a[1], a[2]) \cap Span(b[1], b[2]) = {}
    BY <1>1, <2>2 DEF PmmInv, Exclusive
  <2>. QED  BY <1>1, <1>5, <1>8, <2>3 DEF PmmInv, Exclusive
<1>10. Cardinality(HeldPages') = Cardinality(HeldPages) + n
  BY <1>5, <1>7, <1>8, PageSum, Sets
<1>11. Cardinality(Free') = Cardinality(Free) - n
  BY <1>6, <1>7, PageDifference, Sets
<1>12. bitmap' \subseteq Page /\ owned' \subseteq Page \X (1 .. MAX_PAGES)
  <2>1. <<s, n>> \in Page \X (1 .. MAX_PAGES)
    BY <1>3, <1>4
  <2>2. bitmap \subseteq Page /\ owned \subseteq Page \X (1 .. MAX_PAGES)
    BY DEF PmmInv, PmmTypeOK
  <2>. HIDE DEF new
  <2>. QED  BY <1>1, <1>7, <2>1, <2>2
<1>13. free_count' = Cardinality(Free')
  BY <1>1, <1>11 DEF PmmInv, FreeCountExact
<1>14. reserved_pages' = Cardinality(fenced') /\ fenced' = fenced
  BY <1>1 DEF PmmInv, Accounted
<1>15. fenced' \subseteq Page
  BY <1>14, Sets
<1>16. Cardinality(Free') + Cardinality(fenced') + Cardinality(HeldPages') =
          Cardinality(Free) + Cardinality(fenced) + Cardinality(HeldPages)
  BY <1>10, <1>11, <1>14, Sets
<1>17. first_free_hint' \in 0 .. MAX_PAGES /\ ret' \in Page /\ total_pages' = total_pages
  BY <1>1, <1>3, <1>4
<1>. QED  BY <1>9, <1>12, <1>13, <1>14, <1>15, <1>16, <1>17, Books

\* Giving pages back (pmm_free_page, pmm_free_pages): a whole allocation, or
\* pages that are free already, which changes nothing.
LEMMA FreeIInv ==
    ASSUME PmmInv, NEW s \in Nat, NEW n \in Nat, MayFree(s, n), pmm_free_pages(s, n)
    PROVE  PmmInv'
<1>. DEFINE freed == Freed(Span(s, n))
<1>1. /\ bitmap' = bitmap \ freed
      /\ free_count' = free_count + Cardinality(freed)
      /\ first_free_hint' \in Smallest(freed \cup {first_free_hint})
      /\ owned' = owned \ {<<s, n>>}
      /\ ret' = NoResult
      /\ UNCHANGED <<reserved_pages, total_pages, fenced>>
  BY DEF pmm_free_pages
<1>2. freed \subseteq bitmap /\ freed \in SUBSET Page
  BY Sets DEF Freed
<1>3. /\ \A p : p \in HeldPages <=> \E a \in owned : p \in Span(a[1], a[2])
      /\ \A p : p \in HeldPages' <=> \E a \in owned' : p \in Span(a[1], a[2])
  BY DEF HeldPages
<1>4. <<s, n>>[1] = s /\ <<s, n>>[2] = n
  OBVIOUS
<1>5. freed \subseteq HeldPages /\ HeldPages' = HeldPages \ freed
  <2>1. CASE <<s, n>> \in owned
    <3>1. Span(s, n) \subseteq HeldPages
      BY <1>3, <1>4, <2>1
    <3>2. freed = Span(s, n)
      <4>1. \A p \in Span(s, n) : p \in bitmap /\ p \notin SystemPages
        BY <3>1 DEF PmmInv, Exclusive
      <4>2. \A p \in Span(s, n) : p # 0 /\ p < MAX_PAGES
        BY <4>1, Sets, SystemPagesAssumption, PageAssumption DEF Page
      <4>. QED  BY <4>1, <4>2 DEF Freed
    <3>3. \A a \in owned : a # <<s, n>> => Span(a[1], a[2]) \cap Span(s, n) = {}
      BY <1>4, <2>1 DEF PmmInv, Exclusive
    <3>. HIDE DEF freed
    <3>. QED  BY <1>1, <1>3, <1>4, <3>1, <3>2, <3>3
  <2>2. CASE <<s, n>> \notin owned
    <3>1. freed = {}
      BY <2>2 DEF MayFree, Freed
    <3>2. owned' = owned
      BY <1>1, <2>2
    <3>3. HeldPages' = HeldPages
      BY <1>3, <3>2, Zenon
    <3>. QED  BY <3>1, <3>3
  <2>. QED  BY <2>1, <2>2
<1>6. Free' = Free \cup freed /\ Free \cap freed = {}
  BY <1>1, <1>2, Sets DEF Free
<1>7. Cardinality(freed) \in Int
  BY <1>2, PageSet, PageAssumption
<1>8. Cardinality(Free') = Cardinality(Free) + Cardinality(freed)
  BY <1>2, <1>6, PageSum, Sets
<1>9. Cardinality(HeldPages') = Cardinality(HeldPages) - Cardinality(freed)
  BY <1>5, PageDifference, Sets
<1>10. fenced' = fenced /\ reserved_pages' = Cardinality(fenced') /\ fenced' \subseteq Page
  BY <1>1, Sets DEF PmmInv, Accounted
<1>11. Exclusive'
  <2>1. \A a, b \in owned' : a # b => Span(a[1], a[2]) \cap Span(b[1], b[2]) = {}
    BY <1>1 DEF PmmInv, Exclusive
  <2>. HIDE DEF freed
  <2>2. HeldPages' \subseteq bitmap' \ (fenced \cup SystemPages)
    BY <1>1, <1>5 DEF PmmInv, Exclusive
  <2>3. fenced \cup SystemPages \subseteq bitmap'
    BY <1>1, <1>5 DEF PmmInv, Exclusive
  <2>. QED  BY <1>10, <2>1, <2>2, <2>3 DEF Exclusive
<1>12. first_free_hint' \in 0 .. MAX_PAGES
  <2>1. \A p \in Page : p \in 0 .. MAX_PAGES
    BY PageAssumption DEF Page
  <2>2. first_free_hint \in 0 .. MAX_PAGES
    BY DEF PmmInv, PmmTypeOK
  <2>3. first_free_hint' \in freed \cup {first_free_hint}
    BY <1>1 DEF Smallest
  <2>. QED  BY <1>2, <2>1, <2>2, <2>3
<1>13. bitmap' \subseteq Page /\ owned' \subseteq Page \X (1 .. MAX_PAGES)
  BY <1>1 DEF PmmInv, PmmTypeOK
<1>14. free_count' = Cardinality(Free')
  BY <1>1, <1>8 DEF PmmInv, FreeCountExact
<1>15. Cardinality(Free') + Cardinality(fenced') + Cardinality(HeldPages') =
          Cardinality(Free) + Cardinality(fenced) + Cardinality(HeldPages)
  BY <1>7, <1>8, <1>9, <1>10, Sets
<1>. QED  BY <1>1, <1>10, <1>11, <1>12, <1>13, <1>14, <1>15, Books

\* pmm_reserve_page and pmm_reserve_pages: only pages that were free count.
LEMMA ReserveIInv ==
    ASSUME PmmInv, NEW s \in Nat, NEW n \in Nat, pmm_reserve_pages(s, n)
    PROVE  PmmInv'
<1>. DEFINE taken == Reserved(Span(s, n))
<1>1. /\ bitmap' = bitmap \cup taken
      /\ free_count' = free_count - Cardinality(taken)
      /\ reserved_pages' = reserved_pages + Cardinality(taken)
      /\ fenced' = fenced \cup taken
      /\ ret' = NoResult
      /\ UNCHANGED <<first_free_hint, total_pages, owned>>
  BY DEF pmm_reserve_pages
<1>2. taken \in SUBSET Free /\ taken \in SUBSET Page
  BY Sets DEF Reserved
<1>. HIDE DEF taken
<1>3. HeldPages' = HeldPages
  BY <1>1 DEF HeldPages
<1>4. taken \cap fenced = {} /\ taken \cap HeldPages = {}
  BY <1>2 DEF PmmInv, Exclusive, Free
<1>5. Free' = Free \ taken
  BY <1>1 DEF Free
<1>6. Cardinality(taken) \in Int
  BY <1>2, PageSet, PageAssumption
<1>7. Cardinality(Free') = Cardinality(Free) - Cardinality(taken)
  BY <1>2, <1>5, PageDifference, Sets
<1>8. Cardinality(fenced') = Cardinality(fenced) + Cardinality(taken)
  BY <1>1, <1>2, <1>4, PageSum, Sets
<1>9. Exclusive'
  BY <1>1, <1>3, <1>4, Zenon DEF PmmInv, Exclusive
<1>10. bitmap' \subseteq Page /\ fenced' \subseteq Page
  BY <1>1, <1>2, Sets
<1>11. /\ owned' \subseteq Page \X (1 .. MAX_PAGES)
       /\ first_free_hint' \in 0 .. MAX_PAGES
  BY <1>1 DEF PmmInv, PmmTypeOK
<1>12. free_count' = Cardinality(Free') /\ reserved_pages' = Cardinality(fenced')
  BY <1>1, <1>7, <1>8 DEF PmmInv, FreeCountExact, Accounted
<1>13. Cardinality(Free') + Cardinality(fenced') + Cardinality(HeldPages') =
          Cardinality(Free) + Cardinality(fenced) + Cardinality(HeldPages)
  BY <1>3, <1>6, <1>7, <1>8, Sets
<1>. QED  BY <1>1, <1>9, <1>10, <1>11, <1>12, <1>13, Books

\* pmm_unreserve_page: the page becomes free and is no longer counted.
LEMMA UnreserveIInv ==
    ASSUME PmmInv, NEW p \in fenced \ SystemPages, pmm_unreserve_page(p)
    PROVE  PmmInv'
<1>1. /\ bitmap' = bitmap \ {p}
      /\ free_count' = free_count + 1
      /\ reserved_pages' = IF reserved_pages > 0 THEN reserved_pages - 1 ELSE 0
      /\ fenced' = fenced \ {p}
      /\ ret' = NoResult
      /\ UNCHANGED <<first_free_hint, total_pages, owned>>
  BY DEF pmm_unreserve_page
<1>2. p \in Page /\ p \in bitmap /\ p \notin HeldPages
  BY Sets DEF PmmInv, Exclusive
<1>3. HeldPages' = HeldPages
  BY <1>1 DEF HeldPages
<1>4. Free' = Free \cup {p} /\ p \notin Free
  BY <1>1, <1>2 DEF Free
<1>5. IsFiniteSet(Free) /\ IsFiniteSet(fenced)
  BY PageSet, Sets
<1>6. Cardinality(Free') = Cardinality(Free) + 1
  BY <1>4, <1>5, FS_AddElement, Zenon
<1>7. Cardinality(fenced') = Cardinality(fenced) - 1
  BY <1>1, <1>5, FS_RemoveElement, Zenon
<1>8. Cardinality(fenced) > 0
  BY <1>5, FS_EmptySet, PageSet, Sets, PageAssumption
<1>9. Exclusive'
  BY <1>1, <1>2, <1>3 DEF PmmInv, Exclusive
<1>10. bitmap' \subseteq Page /\ fenced' \subseteq Page
  BY <1>1, Sets
<1>11. /\ owned' \subseteq Page \X (1 .. MAX_PAGES)
       /\ first_free_hint' \in 0 .. MAX_PAGES
  BY <1>1 DEF PmmInv, PmmTypeOK
<1>12. free_count' = Cardinality(Free') /\ reserved_pages' = Cardinality(fenced')
  BY <1>1, <1>6, <1>7, <1>8 DEF PmmInv, FreeCountExact, Accounted
<1>13. Cardinality(Free') + Cardinality(fenced') + Cardinality(HeldPages') =
          Cardinality(Free) + Cardinality(fenced) + Cardinality(HeldPages)
  BY <1>3, <1>6, <1>7, Sets
<1>. QED  BY <1>1, <1>9, <1>10, <1>11, <1>12, <1>13, Books

\* A failed allocation changes nothing.
LEMMA OutOfMemoryIInv == PmmInv /\ OutOfMemory => PmmInv'
<1>. SUFFICES ASSUME PmmInv, OutOfMemory PROVE PmmInv'
  OBVIOUS
<1>1. /\ bitmap' = bitmap /\ fenced' = fenced /\ owned' = owned
      /\ free_count' = free_count /\ reserved_pages' = reserved_pages
      /\ first_free_hint' = first_free_hint /\ total_pages' = total_pages
      /\ ret' = 0
  BY DEF OutOfMemory
<1>2. Free' = Free /\ HeldPages' = HeldPages
  BY <1>1 DEF Free, HeldPages
<1>3. 0 \in Page
  BY SystemPagesAssumption
<1>4. PmmTypeOK'
  BY <1>1, <1>3 DEF PmmInv, PmmTypeOK
<1>5. FreeCountExact' /\ Exclusive' /\ Accounted'
  BY <1>1, <1>2 DEF PmmInv, FreeCountExact, Exclusive, Accounted
<1>. QED  BY <1>4, <1>5 DEF PmmInv

\* pmm_alloc_page takes a free page, from whichever side of the hint.
LEMMA AllocPageIInv == PmmInv /\ pmm_alloc_page => PmmInv'
<1>. SUFFICES ASSUME PmmInv, pmm_alloc_page PROVE PmmInv'
  OBVIOUS
<1>1. CASE Candidates = {} /\ OutOfMemory
  BY <1>1, OutOfMemoryIInv
<1>2. CASE \E p \in Smallest(Candidates) : Take(p, 1)
  <2>1. PICK p \in Smallest(Candidates) : Take(p, 1)
    BY <1>2
  <2>2. p \in Free /\ p \in Nat
    BY Sets DEF Smallest, Candidates, FreeIn
  <2>3. Span(p, 1) \subseteq Free
    BY <2>2 DEF Span
  <2>. QED  BY <2>1, <2>2, <2>3, TakeIInv
<1>. QED  BY <1>1, <1>2 DEF pmm_alloc_page

\* pmm_alloc_pages takes a run of free pages.
LEMMA AllocPagesIInv ==
    ASSUME PmmInv, NEW n \in Nat, pmm_alloc_pages(n)
    PROVE  PmmInv'
<1>1. CASE n > 1 /\ \E s \in Smallest(Runs(n)) : Take(s, n)
  <2>1. PICK s \in Smallest(Runs(n)) : Take(s, n)
    BY <1>1
  <2>2. first_free_hint \in Nat /\ MAX_PAGES \in Nat
    BY PageAssumption DEF PmmInv, PmmTypeOK
  <2>3. s \in Nat /\ Span(s, n) \subseteq Free
    BY <2>2 DEF Smallest, Runs, RunsIn
  <2>4. n \in Nat \ {0}
    BY <1>1
  <2>. QED  BY <2>1, <2>3, <2>4, TakeIInv
<1>. QED  BY <1>1, AllocPageIInv, OutOfMemoryIInv DEF pmm_alloc_pages

\* Every call keeps the invariant.
LEMMA PmmNextInv == PmmInv /\ [PmmNext]_pmmVars => PmmInv'
<1>. SUFFICES ASSUME PmmInv, [PmmNext]_pmmVars PROVE PmmInv'
  OBVIOUS
<1>1. CASE \E n \in 0 .. MaxCount : pmm_alloc_pages(n)
  BY <1>1, AllocPagesIInv, PageAssumption
<1>2. CASE \E s \in 0 .. MAX_PAGES, n \in 0 .. MaxCount :
              MayFree(s, n) /\ pmm_free_pages(s, n)
  BY <1>2, FreeIInv, PageAssumption
<1>3. CASE \E s \in 0 .. MAX_PAGES, n \in 0 .. MaxCount : pmm_reserve_pages(s, n)
  BY <1>3, ReserveIInv, PageAssumption
<1>4. CASE \E p \in fenced \ SystemPages : pmm_unreserve_page(p)
  BY <1>4, UnreserveIInv
<1>5. CASE UNCHANGED pmmVars
  <2>1. Free' = Free /\ HeldPages' = HeldPages
    BY <1>5 DEF pmmVars, Free, HeldPages
  <2>2. PmmTypeOK'
    BY <1>5 DEF pmmVars, PmmInv, PmmTypeOK
  <2>3. FreeCountExact' /\ Exclusive' /\ Accounted'
    BY <1>5, <2>1 DEF pmmVars, PmmInv, FreeCountExact, Exclusive, Accounted
  <2>. QED  BY <2>2, <2>3 DEF PmmInv
<1>. QED  BY <1>1, <1>2, <1>3, <1>4, <1>5 DEF PmmNext

\* The free counter equals the number of clear bits, no page has two owners,
\* and every usable page is free, reserved or allocated.
THEOREM PmmSafe == PmmSpec => [](PmmTypeOK /\ FreeCountExact /\ Exclusive /\ Accounted)
<1>1. PmmInv => PmmTypeOK /\ FreeCountExact /\ Exclusive /\ Accounted
  BY DEF PmmInv
<1>. QED  BY <1>1, PmmInitInv, PmmNextInv, PTL DEF PmmSpec

\* No page is given to two owners, and none that is free or reserved is owned.
THEOREM PagesExclusive == PmmSpec => []Exclusive
BY PmmSafe, PTL

\* Every usable page is free, reserved or owned: none is lost by any sequence of
\* allocating, freeing, reserving and unreserving.
THEOREM PagesAccounted == PmmSpec => []Accounted
BY PmmSafe, PTL

\* pmm_alloc_page fails only when no page is free: searching from the hint to
\* the end and then from the start to the hint misses nothing.
THEOREM AllocPageComplete == PmmSpec => AllocPageFinds
<1>1. PmmInv /\ [PmmNext]_pmmVars => [pmm_alloc_page /\ ret' = 0 => Free = {}]_pmmVars
  <2>. SUFFICES ASSUME PmmInv, pmm_alloc_page, ret' = 0 PROVE Free = {}
    OBVIOUS
  <2>1. CASE Candidates = {} /\ OutOfMemory
    <3>1. first_free_hint \in Nat
      BY PageAssumption DEF PmmInv, PmmTypeOK
    <3>2. \A p \in Free : p \in Nat /\ p < MAX_PAGES
      BY PageAssumption DEF Free, Page
    <3>. QED  BY <2>1, <3>1, <3>2 DEF Candidates, FreeIn
  <2>2. CASE \E p \in Smallest(Candidates) : Take(p, 1)
    <3>1. PICK p \in Smallest(Candidates) : Take(p, 1)
      BY <2>2
    <3>2. p = 0
      BY <3>1 DEF Take
    <3>3. 0 \in Free
      BY <3>2 DEF Smallest, Candidates, FreeIn
    <3>4. 0 \in bitmap
      BY SystemPagesAssumption DEF PmmInv, Exclusive
    <3>. QED  BY <3>3, <3>4 DEF Free
  <2>. QED  BY <2>1, <2>2 DEF pmm_alloc_page
<1>. QED  BY <1>1, PmmInitInv, PmmNextInv, PTL DEF PmmSpec, AllocPageFinds
=============================================================================
