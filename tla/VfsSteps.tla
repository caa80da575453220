------------------------------ MODULE VfsSteps ------------------------------
(***************************************************************************)
(* Open files, descriptors and vnodes: every system call and every exit of  *)
(* a process keeps the reference counts equal to what refers, and leaves    *)
(* what the other processes see alone.                                      *)
(***************************************************************************)
EXTENDS Vfs, TLAPS

(***************************************************************************)
(* Vnodes, open files and descriptors.                                     *)
(***************************************************************************)
\* The records of the tables.
VnodeRecord == [ref_count : Nat, inode_num : Inode]
InodeRecord == [type : {"FREE", "FILE", "DIR"}, size : 0 .. MaxSize]
FileRecord ==
    [ref_count : Nat, flags : Flags \cup {{}}, offset : Nat, vnode : Vnode, path : Path]
Descriptors ==
    [entries : [Fd -> OpenFile \cup {Console, NoFile}], num_open : Nat, alive : BOOLEAN]

\* The open files on vnode v, in the table F of open files.
OpenOn(F, v) == {f \in OpenFile : F[f].ref_count > 0 /\ F[f].vnode = v}

\* A vnode table: one vnode per inode, none for a free inode, and the root in
\* its place with a reference of its own.
VnodeTable(t, nodes) ==
    /\ t \in [Vnode -> VnodeRecord]
    /\ \A v, w \in Vnode :
          t[v].ref_count > 0 /\ t[w].ref_count > 0 /\ t[v].inode_num = t[w].inode_num => v = w
    /\ \A v \in Vnode : t[v].ref_count > 0 => nodes[t[v].inode_num].type # "FREE"
    /\ t[g_root_vnode].ref_count > 0 /\ t[g_root_vnode].inode_num = 0

\* All other vnodes count the open files on them.
Counted(t, F) ==
    \A v \in Vnode \ {g_root_vnode} : t[v].ref_count = Cardinality(OpenOn(F, v))

\* What the steps need to know of sizes: those of sets of open files and of
\* descriptors.  CountProofs shows it.
FilesCount ==
    /\ Cardinality({}) = 0 /\ \A fd \in Fd : Cardinality({fd}) = 1
    /\ \A S \in SUBSET OpenFile :
          /\ Cardinality(S) \in 0 .. MAX_OPEN_FILES /\ (Cardinality(S) = 0 => S = {})
          /\ \A f \in OpenFile \ S : Cardinality(S \cup {f}) = Cardinality(S) + 1
          /\ \A R \in SUBSET S : Cardinality(S \ R) = Cardinality(S) - Cardinality(R)

\* Table t2 has the references of t and, where t has any, its inodes.
SameReferences(t2, t) ==
    \A v \in Vnode : /\ v # g_root_vnode => t2[v].ref_count = t[v].ref_count
                     /\ t[v].ref_count > 0 => t2[v].inode_num = t[v].inode_num

\* Table t2 is t with one reference more to vnode v, which stands for inode i,
\* or with one less.
Gained(t2, t, v, i) ==
    /\ v \in Vnode /\ t2[v].ref_count = t[v].ref_count + 1 /\ t2[v].inode_num = i
    /\ t[v].ref_count > 0 => t[v].inode_num = i
    /\ \A w \in Vnode : w # v => t2[w] = t[w]
Lost(t2, t, v) ==
    /\ v = g_root_vnode => t2[v] = t[v]
    /\ v # g_root_vnode => t2[v].ref_count = t[v].ref_count - 1
    /\ t2[v].ref_count > 0 => t2[v].inode_num = t[v].inode_num
    /\ \A w \in Vnode : w # v => t2[w] = t[w]

\* An open file has one descriptor, in one process that lives.
OneDescriptor(F, T) ==
    /\ \A p \in Process, fd \in Fd :
          T[p].entries[fd] \in OpenFile => F[T[p].entries[fd]].ref_count = 1 /\ T[p].alive
    /\ \A f \in OpenFile : F[f].ref_count # 0 =>
          \E p \in Process, fd \in Fd : T[p].entries[fd] = f
    /\ \A p, q \in Process, fd, gd \in Fd :
          T[p].entries[fd] \in OpenFile /\ T[p].entries[fd] = T[q].entries[gd] => p = q /\ fd = gd

\* Paths lead to inodes in use, those of directories always.
Entries(names, nodes) ==
    /\ \A path \in Path : names[path] # NoInode => nodes[names[path]].type # "FREE"
    /\ \A d \in Dir : names[d] # NoInode

\* The bounds on the counters that are never lowered, or lowered late: the
\* references to the root that are followed, and an open file more than there
\* is room for, do not make a counter come round to zero.
CountersSuffice == RootRefs + 1 < RefLimit /\ MAX_OPEN_FILES + 1 < RefLimit

RootBounded(t) == t[g_root_vnode].ref_count <= RootRefs + 1

\* The other tables have the shapes of their declarations.
Shapes(names, nodes, F, T) ==
    /\ names \in [Path -> Inode \cup {NoInode}]
    /\ nodes \in [Inode -> InodeRecord]
    /\ F \in [OpenFile -> FileRecord]
    /\ T \in [Process -> Descriptors]

\* The inductive invariant: each vnode in use stands for an inode of its own
\* and counts its open files, and each open file has one descriptor.
VfsIInv ==
    /\ Shapes(entry, inode, file, fd_table)
    /\ VnodeTable(vnode, inode) /\ Counted(vnode, file) /\ RootBounded(vnode)
    /\ OneDescriptor(file, fd_table)
    /\ Entries(entry, inode)

\* The tables of the file system are numbered from 0, and the marks for no
\* inode, no file and the console are not numbers of theirs.
LEMMA Numbers ==
    /\ Vnode \subseteq Nat /\ Inode \subseteq Nat /\ OpenFile \subseteq Nat /\ Fd \subseteq Nat
    /\ 0 \in Vnode /\ 0 \in Inode /\ RootPath \in Dir /\ Dir \subseteq Path /\ File \subseteq Path
    /\ NoInode \notin Inode /\ NoFile \notin OpenFile /\ Console \notin OpenFile
BY TableAssumption DEF Vnode, Inode, OpenFile, Fd, Dir, Path, NoInode, NoFile, Console

\* A set of open files that takes in another, or loses some.
LEMMA MoreFiles ==
    ASSUME FilesCount, NEW S \in SUBSET OpenFile, NEW f \in OpenFile, f \notin S
    PROVE  Cardinality(S \cup {f}) = Cardinality(S) + 1
BY DEF FilesCount

LEMMA FewerFiles ==
    ASSUME FilesCount, NEW S \in SUBSET OpenFile, NEW R \in SUBSET S
    PROVE  /\ Cardinality(S) \in Nat /\ Cardinality(R) \in Nat /\ Cardinality(R) <= Cardinality(S)
           /\ Cardinality(S \ R) = Cardinality(S) - Cardinality(R)
<1>1. MAX_OPEN_FILES \in Nat
  BY TableAssumption
<1>2. S \ R \in SUBSET OpenFile /\ R \in SUBSET OpenFile
  OBVIOUS
<1>3. /\ Cardinality(S) \in 0 .. MAX_OPEN_FILES /\ Cardinality(R) \in 0 .. MAX_OPEN_FILES
      /\ Cardinality(S \ R) \in 0 .. MAX_OPEN_FILES
  BY <1>2, Zenon DEF FilesCount
<1>4. Cardinality(S \ R) = Cardinality(S) - Cardinality(R)
  BY Zenon DEF FilesCount
<1>. QED  BY <1>1, <1>3, <1>4

\* The vnode for an inode is one of the table.
LEMMA SlotIsVnode ==
    ASSUME NEW t, NEW i, NEW v \in Slot(t, i)
    PROVE  v \in Vnode
BY DEF Slot, Lowest

\* What the invariant says of an open file.
LEMMA OpenFileShape ==
    ASSUME VfsIInv, NEW f \in OpenFile
    PROVE  /\ file[f] \in FileRecord /\ inode \in [Inode -> InodeRecord] /\ InodeOf(f) \in Inode
           /\ inode[InodeOf(f)] \in InodeRecord
           /\ file[f].offset \in Nat /\ inode[InodeOf(f)].size \in Nat
           /\ inode[InodeOf(f)].size <= MaxSize
<1>1. /\ file \in [OpenFile -> FileRecord] /\ inode \in [Inode -> InodeRecord]
      /\ vnode \in [Vnode -> VnodeRecord]
  BY DEF VfsIInv, Shapes, VnodeTable
<1>2. file[f] \in FileRecord
  BY <1>1
<1>3. file[f].vnode \in Vnode /\ file[f].offset \in Nat
  BY <1>2 DEF FileRecord
<1>4. InodeOf(f) \in Inode
  BY <1>1, <1>3 DEF VnodeRecord, InodeOf
<1>5. inode[InodeOf(f)] \in InodeRecord
  BY <1>1, <1>4
<1>6. inode[InodeOf(f)].size \in 0 .. MaxSize /\ MaxSize \in Nat
  BY <1>5, TableAssumption DEF InodeRecord
<1>. QED  BY <1>1, <1>2, <1>3, <1>4, <1>5, <1>6

\* What vnode_get_or_create does: one more reference to the vnode of inode i,
\* which is the root's for the root's inode only.
LEMMA Gotten ==
    ASSUME NEW t, NEW nodes, VnodeTable(t, nodes), NEW i \in Inode, nodes[i].type # "FREE",
           NEW v, v \in Slot(t, i), t[v].ref_count + 1 < RefLimit,
           NEW t2, t2 = vnode_get_or_create(t, i, v)
    PROVE  VnodeTable(t2, nodes) /\ Gained(t2, t, v, i)
<1>1. /\ v \in Vnode
      /\ t[v].ref_count > 0 => t[v].inode_num = i
      /\ t[v].ref_count = 0 => \A w \in Vnode : t[w].ref_count > 0 => t[w].inode_num # i
  BY DEF Slot, Lowest
<1>2. t \in [Vnode -> VnodeRecord]
  BY DEF VnodeTable
<1>3. /\ t2 = [t EXCEPT ![v] = t2[v]] /\ t2[v].ref_count = t[v].ref_count + 1 /\ t2[v].inode_num = i
      /\ t2[v] \in VnodeRecord
  <2>1. t[v] \in VnodeRecord
    BY <1>1, <1>2
  <2>2. CASE t[v].ref_count > 0
    <3>1. t2[v] = [t[v] EXCEPT !.ref_count = (@ + 1) % RefLimit] /\ t2 = [t EXCEPT ![v] = t2[v]]
      BY <1>1, <1>2, <2>2, Zenon DEF vnode_get_or_create
    <3>2. (t[v].ref_count + 1) % RefLimit = t[v].ref_count + 1
      BY <2>1, TableAssumption DEF VnodeRecord
    <3>. QED  BY <1>1, <2>1, <2>2, <3>1, <3>2 DEF VnodeRecord
  <2>3. CASE t[v].ref_count = 0
    <3>1. t2[v] = [ref_count |-> 1, inode_num |-> i] /\ t2 = [t EXCEPT ![v] = t2[v]]
      BY <1>1, <1>2, <2>3 DEF vnode_get_or_create
    <3>. QED  BY <2>3, <3>1 DEF VnodeRecord
  <2>. QED  BY <2>1, <2>2, <2>3 DEF VnodeRecord
<1>4. \A w \in Vnode : w # v => t2[w] = t[w]
  BY <1>2, <1>3
<1>5. VnodeTable(t2, nodes)
  <2>1. t2 \in [Vnode -> VnodeRecord]
    BY <1>2, <1>3
  <2>2. ASSUME NEW u \in Vnode, NEW w \in Vnode, t2[u].ref_count > 0, t2[w].ref_count > 0,
               t2[u].inode_num = t2[w].inode_num
        PROVE  u = w
    <3>1. CASE u = v /\ w # v
      BY <1>1, <1>2, <1>3, <1>4, <2>2, <3>1 DEF VnodeTable, VnodeRecord
    <3>2. CASE w = v /\ u # v
      BY <1>1, <1>2, <1>3, <1>4, <2>2, <3>2 DEF VnodeTable, VnodeRecord
    <3>3. CASE w # v /\ u # v
      BY <1>4, <2>2, <3>3 DEF VnodeTable
    <3>. QED  BY <3>1, <3>2, <3>3
  <2>3. ASSUME NEW w \in Vnode, t2[w].ref_count > 0 PROVE nodes[t2[w].inode_num].type # "FREE"
    BY <1>3, <1>4, <2>3 DEF VnodeTable
  <2>4. t2[g_root_vnode].ref_count > 0 /\ t2[g_root_vnode].inode_num = 0
    <3>1. t[g_root_vnode].ref_count > 0 /\ t[g_root_vnode].inode_num = 0 /\ g_root_vnode \in Vnode
      BY Numbers DEF VnodeTable, g_root_vnode
    <3>2. CASE v = g_root_vnode
      BY <1>1, <1>2, <1>3, <3>1, <3>2 DEF VnodeRecord
    <3>3. CASE v # g_root_vnode
      BY <1>4, <3>1, <3>3
    <3>. QED  BY <3>2, <3>3
  <2>. QED  BY <2>1, <2>2, <2>3, <2>4 DEF VnodeTable
<1>. QED  BY <1>1, <1>3, <1>4, <1>5 DEF Gained

\* What n calls of vnode_unref do: nothing to the root; another vnode loses n
\* references, and its inode with the last.
LEMMA Unreferenced ==
    ASSUME NEW t, NEW nodes, VnodeTable(t, nodes), NEW v \in Vnode, NEW n \in Nat,
           v # g_root_vnode => n <= t[v].ref_count
    PROVE  LET r == vnode_unref(t, v, n)[v]
           IN  /\ r \in VnodeRecord
               /\ v = g_root_vnode => r = t[v]
               /\ v # g_root_vnode => r.ref_count = t[v].ref_count - n
               /\ r.ref_count > 0 => t[v].ref_count > 0 /\ r.inode_num = t[v].inode_num
               /\ vnode_unref(t, v, n) = [t EXCEPT ![v] = r]
<1>1. t \in [Vnode -> VnodeRecord]
  BY DEF VnodeTable
<1>2. t[v] \in VnodeRecord
  BY <1>1
<1>3. FreeVnode \in VnodeRecord /\ FreeVnode.ref_count = 0
  BY Numbers DEF FreeVnode, VnodeRecord
<1>. DEFINE r == vnode_unref(t, v, n)[v]
<1>4. /\ r = IF v = g_root_vnode \/ n = 0 THEN t[v]
             ELSE IF t[v].ref_count <= n THEN FreeVnode
             ELSE [t[v] EXCEPT !.ref_count = @ - n]
      /\ vnode_unref(t, v, n) = [t EXCEPT ![v] = r]
  BY <1>1, Zenon DEF vnode_unref
<1>. HIDE DEF r
<1>5. CASE v = g_root_vnode \/ n = 0
  BY <1>2, <1>4, <1>5 DEF r, VnodeRecord
<1>6. CASE v # g_root_vnode /\ n # 0 /\ t[v].ref_count <= n
  BY <1>2, <1>3, <1>4, <1>6 DEF r, VnodeRecord
<1>7. CASE v # g_root_vnode /\ n # 0 /\ ~(t[v].ref_count <= n)
  <2>1. r = [t[v] EXCEPT !.ref_count = @ - n]
    BY <1>4, <1>7
  <2>2. t[v].ref_count - n \in Nat
    BY <1>2, <1>7 DEF VnodeRecord
  <2>. QED  BY <1>2, <1>4, <1>7, <2>1, <2>2 DEF r, VnodeRecord
<1>. QED  BY <1>2, <1>5, <1>6, <1>7

\* A table whose vnodes have at most the references they had, and their inodes,
\* is a vnode table.
LEMMA Lowered ==
    ASSUME NEW t, NEW nodes, VnodeTable(t, nodes),
           NEW t2 \in [Vnode -> VnodeRecord],
           t2[g_root_vnode] = t[g_root_vnode],
           \A v \in Vnode : t2[v].ref_count > 0 =>
               t[v].ref_count > 0 /\ t2[v].inode_num = t[v].inode_num
    PROVE  VnodeTable(t2, nodes)
BY DEF VnodeTable

\* What a vnode table is made of.
LEMMA TableShape ==
    ASSUME NEW t, NEW nodes, VnodeTable(t, nodes)
    PROVE  /\ t \in [Vnode -> VnodeRecord] /\ g_root_vnode \in Vnode /\ t[g_root_vnode].ref_count > 0
           /\ \A v \in Vnode : t[v].ref_count \in Nat /\ t[v].inode_num \in Inode
<1>1. t \in [Vnode -> VnodeRecord] /\ t[g_root_vnode].ref_count > 0
  BY DEF VnodeTable
<1>2. g_root_vnode \in Vnode
  BY Numbers DEF g_root_vnode
<1>3. \A v \in Vnode : t[v].ref_count \in Nat /\ t[v].inode_num \in Inode
  BY <1>1 DEF VnodeRecord
<1>. QED  BY <1>1, <1>2, <1>3

\* What one call of vnode_unref does.
LEMMA GivenBack ==
    ASSUME NEW t, NEW nodes, VnodeTable(t, nodes), NEW v \in Vnode, t[v].ref_count > 0,
           NEW t2, t2 = vnode_unref(t, v, 1)
    PROVE  VnodeTable(t2, nodes) /\ Lost(t2, t, v)
<1>1. t \in [Vnode -> VnodeRecord] /\ g_root_vnode \in Vnode /\ t[v].ref_count \in Nat
  BY TableShape
<1>2. 1 \in Nat /\ 1 <= t[v].ref_count
  BY <1>1
<1>3. /\ t2[v] \in VnodeRecord
      /\ v = g_root_vnode => t2[v] = t[v]
      /\ v # g_root_vnode => t2[v].ref_count = t[v].ref_count - 1
      /\ t2[v].ref_count > 0 => t[v].ref_count > 0 /\ t2[v].inode_num = t[v].inode_num
      /\ t2 = [t EXCEPT ![v] = t2[v]]
  BY <1>2, Unreferenced
<1>4. t2 \in [Vnode -> VnodeRecord] /\ \A w \in Vnode : w # v => t2[w] = t[w]
  BY <1>1, <1>3
<1>5. t2[g_root_vnode] = t[g_root_vnode]
  BY <1>1, <1>3, <1>4
<1>6. \A w \in Vnode : t2[w].ref_count > 0 => t[w].ref_count > 0 /\ t2[w].inode_num = t[w].inode_num
  BY <1>3, <1>4
<1>. QED  BY <1>3, <1>4, <1>5, <1>6, Lowered DEF Lost

\* The counters have room for one more reference, as long as the root's is
\* followed.
LEMMA RoomToCount ==
    ASSUME FilesCount, VfsIInv, CountersSuffice, RootFollowed
    PROVE  \A v \in Vnode : vnode[v].ref_count + 1 < RefLimit
<1>. SUFFICES ASSUME NEW v \in Vnode PROVE vnode[v].ref_count + 1 < RefLimit
  OBVIOUS
<1>1. RootRefs \in Nat /\ RefLimit \in Nat /\ MAX_OPEN_FILES \in Nat
  BY TableAssumption
<1>2. vnode[v].ref_count \in Nat
  BY DEF VfsIInv, VnodeTable, VnodeRecord
<1>3. CASE v = g_root_vnode
  BY <1>1, <1>2, <1>3 DEF RootFollowed, CountersSuffice
<1>4. CASE v # g_root_vnode
  <2>1. vnode[v].ref_count = Cardinality(OpenOn(file, v))
    BY <1>4 DEF VfsIInv, Counted
  <2>2. Cardinality(OpenOn(file, v)) <= MAX_OPEN_FILES
    BY TableAssumption DEF OpenOn, FilesCount
  <2>. QED  BY <1>1, <1>2, <2>1, <2>2 DEF CountersSuffice
<1>. QED  BY <1>3, <1>4

\* An open file is on a vnode in use.
LEMMA OpenHasVnode ==
    ASSUME FilesCount, NEW F, NEW t, NEW nodes, VnodeTable(t, nodes), Counted(t, F),
           NEW f \in OpenFile, F[f].ref_count > 0, F[f].vnode \in Vnode
    PROVE  t[F[f].vnode].ref_count > 0
<1>1. CASE F[f].vnode = g_root_vnode
  BY <1>1 DEF VnodeTable
<1>2. CASE F[f].vnode # g_root_vnode
  <2>1. f \in OpenOn(F, F[f].vnode)
    BY DEF OpenOn
  <2>2. OpenOn(F, F[f].vnode) \in SUBSET OpenFile
    BY DEF OpenOn
  <2>3. Cardinality(OpenOn(F, F[f].vnode)) \in Nat /\ Cardinality(OpenOn(F, F[f].vnode)) # 0
    BY <2>1, <2>2, TableAssumption DEF FilesCount
  <2>4. t[F[f].vnode].ref_count = Cardinality(OpenOn(F, F[f].vnode))
    BY <1>2 DEF Counted
  <2>. QED  BY <2>3, <2>4
<1>. QED  BY <1>1, <1>2

\* In particular the file behind a descriptor.
LEMMA DescriptorHasVnode ==
    ASSUME FilesCount, VfsIInv, NEW q \in Process, NEW fd \in Fd, FileOf(q, fd) \in OpenFile
    PROVE  /\ file[FileOf(q, fd)].ref_count = 1 /\ file[FileOf(q, fd)].vnode \in Vnode
           /\ vnode[file[FileOf(q, fd)].vnode].ref_count > 0
<1>1. file[FileOf(q, fd)].ref_count = 1
  BY DEF VfsIInv, OneDescriptor, FileOf
<1>2. file[FileOf(q, fd)].vnode \in Vnode
  BY DEF VfsIInv, Shapes, FileRecord
<1>. QED  BY <1>1, <1>2, OpenHasVnode DEF VfsIInv

\* A process sees the same when its descriptors are the same, lead to the same
\* open files, and those to the same inodes.
LEMMA SameView ==
    ASSUME NEW q \in Process, fd_table'[q].entries = fd_table[q].entries,
           \A fd \in Fd : FileOf(q, fd) \in OpenFile =>
               LET f == FileOf(q, fd)
               IN  /\ file'[f].flags = file[f].flags /\ file'[f].offset = file[f].offset
                   /\ file'[f].vnode = file[f].vnode
                   /\ vnode'[file[f].vnode].inode_num = vnode[file[f].vnode].inode_num
    PROVE  View(q)' = View(q)
<1>1. \A fd \in Fd : FileOf(q, fd)' = FileOf(q, fd)
  BY DEF FileOf
<1>2. ASSUME NEW fd \in Fd, FileOf(q, fd) \in OpenFile
      PROVE  /\ file'[FileOf(q, fd)].flags = file[FileOf(q, fd)].flags
             /\ file'[FileOf(q, fd)].offset = file[FileOf(q, fd)].offset
             /\ InodeOf(FileOf(q, fd))' = InodeOf(FileOf(q, fd))
  BY <1>1, <1>2 DEF InodeOf
<1>. QED  BY <1>1, <1>2 DEF View

\* Looking a path up and letting go of the vnode again: only the root, whose
\* references are not given back, has one more.
LEMMA Visited ==
    ASSUME NEW t, NEW nodes, VnodeTable(t, nodes), NEW i \in Inode, nodes[i].type # "FREE",
           NEW v, v \in Slot(t, i), t[v].ref_count + 1 < RefLimit,
           NEW t2, t2 = vnode_unref(vnode_get_or_create(t, i, v), v, 1)
    PROVE  /\ VnodeTable(t2, nodes) /\ SameReferences(t2, t)
           /\ t2[g_root_vnode].ref_count <= t[g_root_vnode].ref_count + 1
<1>. DEFINE t1 == vnode_get_or_create(t, i, v)
<1>1. VnodeTable(t1, nodes) /\ Gained(t1, t, v, i)
  BY Gotten
<1>2. t2 = vnode_unref(t1, v, 1)
  OBVIOUS
<1>. HIDE DEF t1
<1>3. /\ g_root_vnode \in Vnode
      /\ \A w \in Vnode : t[w].ref_count \in Nat /\ t1[w].ref_count \in Nat
  BY <1>1, TableShape
<1>4. VnodeTable(t2, nodes) /\ Lost(t2, t1, v)
  <2>1. v \in Vnode /\ t1[v].ref_count > 0
    BY <1>1, <1>3 DEF Gained
  <2>. QED  BY <1>1, <1>2, <2>1, GivenBack
<1>5. SameReferences(t2, t)
  BY <1>1, <1>3, <1>4 DEF Gained, Lost, SameReferences
<1>6. t2[g_root_vnode].ref_count <= t[g_root_vnode].ref_count + 1
  BY <1>1, <1>3, <1>4 DEF Gained, Lost
<1>. QED  BY <1>4, <1>5, <1>6

\* sys_stat, and an open that finds no room for a new file.
LEMMA VisitStep ==
    ASSUME FilesCount, VfsIInv, CountersSuffice, RootFollowed,
           NEW i \in Inode, inode[i].type # "FREE", NEW v \in Slot(vnode, i),
           vnode' = vnode_unref(vnode_get_or_create(vnode, i, v), v, 1),
           UNCHANGED <<entry, inode, file, fd_table>>
    PROVE  VfsIInv' /\ \A q \in Process : View(q)' = View(q)
<1>1. v \in Vnode /\ vnode[v].ref_count + 1 < RefLimit
  BY RoomToCount, SlotIsVnode
<1>2. /\ VnodeTable(vnode', inode) /\ SameReferences(vnode', vnode)
      /\ vnode'[g_root_vnode].ref_count <= vnode[g_root_vnode].ref_count + 1
  <2>1. VnodeTable(vnode, inode)
    BY DEF VfsIInv
  <2>. QED  BY <1>1, <2>1, Visited
<1>3. Counted(vnode', file')
  BY <1>2 DEF VfsIInv, Counted, SameReferences
<1>4. RootBounded(vnode')
  <2>1. g_root_vnode \in Vnode
    BY Numbers DEF g_root_vnode
  <2>2. vnode[g_root_vnode].ref_count \in Nat /\ vnode'[g_root_vnode].ref_count \in Nat
    BY <1>2, <2>1 DEF VfsIInv, VnodeTable, VnodeRecord
  <2>. QED  BY <1>2, <2>2, TableAssumption DEF RootFollowed, RootBounded
<1>5. VfsIInv'
  BY <1>2, <1>3, <1>4 DEF VfsIInv
<1>6. ASSUME NEW q \in Process PROVE View(q)' = View(q)
  <2>1. ASSUME NEW fd \in Fd, FileOf(q, fd) \in OpenFile
        PROVE  vnode'[file[FileOf(q, fd)].vnode].inode_num = vnode[file[FileOf(q, fd)].vnode].inode_num
    BY <1>2, <2>1, DescriptorHasVnode DEF SameReferences
  <2>. QED  BY <2>1, SameView
<1>. QED  BY <1>5, <1>6

\* The files that file_unref closes are those the descriptors lead to; the
\* others stay as they are.
LEMMA ClosedFiles ==
    ASSUME FilesCount, VfsIInv, NEW p \in Process, NEW S \in SUBSET Fd, file_unref(p, S)
    PROVE  /\ Closed(p, S) = {f \in OpenFile : \E fd \in S : FileOf(p, fd) = f}
           /\ \A f \in OpenFile : file'[f] = IF f \in Closed(p, S) THEN FreeFile ELSE file[f]
           /\ file' \in [OpenFile -> FileRecord]
           /\ \A f \in OpenFile : file'[f].ref_count > 0 <=> file[f].ref_count > 0 /\ f \notin Closed(p, S)
<1>. DEFINE Leads(f) == {fd \in S : fd_table[p].entries[fd] = f}
<1>1. ASSUME NEW f \in OpenFile, NEW fd \in S, FileOf(p, fd) = f
      PROVE  Cardinality(Leads(f)) = 1 /\ file[f].ref_count = 1
  <2>1. Leads(f) = {fd}
    BY <1>1 DEF VfsIInv, OneDescriptor, FileOf
  <2>2. file[f].ref_count = 1
    BY <1>1 DEF VfsIInv, OneDescriptor, FileOf
  <2>. QED  BY <2>1, <2>2 DEF FilesCount
<1>2. ASSUME NEW f \in OpenFile, \A fd \in S : FileOf(p, fd) # f
      PROVE  Cardinality(Leads(f)) = 0
  <2>1. Leads(f) = {}
    BY <1>2 DEF FileOf
  <2>. QED  BY <2>1 DEF FilesCount
<1>3. \A f \in OpenFile : f \in Closed(p, S) <=> /\ file[f].ref_count > 0
                                                /\ file[f].ref_count <= Cardinality(Leads(f))
  BY DEF Closed
<1>4. file \in [OpenFile -> FileRecord]
  BY DEF VfsIInv, Shapes
<1>. HIDE DEF Leads
<1>5. ASSUME NEW f \in OpenFile
      PROVE  f \in Closed(p, S) <=> \E fd \in S : FileOf(p, fd) = f
  <2>1. CASE \E fd \in S : FileOf(p, fd) = f
    BY <1>1, <1>3, <2>1
  <2>2. CASE \A fd \in S : FileOf(p, fd) # f
    <3>1. file[f].ref_count \in Nat
      BY <1>4 DEF FileRecord
    <3>. QED  BY <1>2, <1>3, <2>2, <3>1
  <2>. QED  BY <2>1, <2>2
<1>6. Closed(p, S) = {f \in OpenFile : \E fd \in S : FileOf(p, fd) = f}
  BY <1>5 DEF Closed
<1>7. file' = [f \in OpenFile |-> IF f \in Closed(p, S) THEN FreeFile
                                  ELSE [file[f] EXCEPT !.ref_count = @ - Cardinality(Leads(f))]]
  BY DEF file_unref, Leads
<1>8. ASSUME NEW f \in OpenFile
      PROVE  file'[f] = IF f \in Closed(p, S) THEN FreeFile ELSE file[f]
  <2>1. CASE f \in Closed(p, S)
    BY <1>7, <2>1
  <2>2. CASE f \notin Closed(p, S)
    <3>1. Cardinality(Leads(f)) = 0
      BY <1>2, <1>5, <2>2
    <3>2. file'[f] = [file[f] EXCEPT !.ref_count = @ - 0]
      BY <1>7, <2>2, <3>1
    <3>3. file[f] \in FileRecord
      BY <1>4
    <3>4. file[f].ref_count - 0 = file[f].ref_count
      BY <3>3 DEF FileRecord
    <3>5. [file[f] EXCEPT !.ref_count = @ - 0] = file[f]
      BY <3>3, <3>4 DEF FileRecord
    <3>. QED  BY <2>2, <3>2, <3>5
  <2>. QED  BY <2>1, <2>2
<1>9. FreeFile \in FileRecord /\ FreeFile.ref_count = 0
  BY Numbers DEF FreeFile, FileRecord
<1>10. file' \in [OpenFile -> FileRecord]
  <2>1. file' = [f \in OpenFile |-> file'[f]]
    BY <1>7
  <2>2. \A f \in OpenFile : file'[f] \in FileRecord
    BY <1>4, <1>8, <1>9
  <2>. QED  BY <2>1, <2>2
<1>. QED  BY <1>6, <1>8, <1>9, <1>10

\* Each vnode but the root's gives up as many references as files on it are
\* closed, and its inode with the last one.
LEMMA ClosedVnodes ==
    ASSUME FilesCount, VfsIInv, NEW p \in Process, NEW S \in SUBSET Fd, file_unref(p, S)
    PROVE  /\ VnodeTable(vnode', inode) /\ Counted(vnode', file')
           /\ vnode'[g_root_vnode] = vnode[g_root_vnode]
           /\ \A v \in Vnode : vnode'[v].ref_count > 0 => vnode'[v].inode_num = vnode[v].inode_num
<1>. DEFINE Gone(v) == {f \in Closed(p, S) : file[f].vnode = v}
<1>1. \A f \in OpenFile : f \in Closed(p, S) => file[f].ref_count > 0
  BY DEF Closed
<1>2. /\ Closed(p, S) \subseteq OpenFile
      /\ \A f \in OpenFile : file'[f] = IF f \in Closed(p, S) THEN FreeFile ELSE file[f]
      /\ \A f \in OpenFile : file'[f].ref_count > 0 <=> file[f].ref_count > 0 /\ f \notin Closed(p, S)
  BY ClosedFiles DEF Closed
<1>3. ASSUME NEW v \in Vnode
      PROVE  /\ Gone(v) \subseteq OpenOn(file, v) /\ OpenOn(file', v) = OpenOn(file, v) \ Gone(v)
             /\ Cardinality(Gone(v)) \in Nat /\ Cardinality(Gone(v)) <= Cardinality(OpenOn(file, v))
             /\ Cardinality(OpenOn(file', v)) = Cardinality(OpenOn(file, v)) - Cardinality(Gone(v))
  <2>1. Gone(v) \subseteq OpenOn(file, v) /\ OpenOn(file', v) = OpenOn(file, v) \ Gone(v)
    BY <1>1, <1>2 DEF OpenOn
  <2>2. Gone(v) \in SUBSET OpenFile /\ OpenOn(file, v) \in SUBSET OpenFile
    BY <1>2 DEF OpenOn
  <2>. HIDE DEF Gone
  <2>3. /\ Cardinality(Gone(v)) \in Nat /\ Cardinality(Gone(v)) <= Cardinality(OpenOn(file, v))
        /\ Cardinality(OpenOn(file, v) \ Gone(v)) = Cardinality(OpenOn(file, v)) - Cardinality(Gone(v))
    BY <2>1, <2>2, FewerFiles
  <2>. QED  BY <2>1, <2>3
<1>4. vnode' = [v \in Vnode |-> vnode_unref(vnode, v, Cardinality(Gone(v)))[v]]
  BY DEF file_unref
<1>. HIDE DEF Gone
<1>5. VnodeTable(vnode, inode) /\ Counted(vnode, file)
  BY DEF VfsIInv
<1>6. ASSUME NEW v \in Vnode
      PROVE  /\ vnode'[v] \in VnodeRecord
             /\ v = g_root_vnode => vnode'[v] = vnode[v]
             /\ v # g_root_vnode => vnode'[v].ref_count = Cardinality(OpenOn(file', v))
             /\ vnode'[v].ref_count > 0 =>
                   vnode[v].ref_count > 0 /\ vnode'[v].inode_num = vnode[v].inode_num
  <2>1. v # g_root_vnode => vnode[v].ref_count = Cardinality(OpenOn(file, v))
    BY <1>5 DEF Counted
  <2>2. v # g_root_vnode => Cardinality(Gone(v)) <= vnode[v].ref_count
    BY <1>3, <2>1
  <2>3. vnode'[v] = vnode_unref(vnode, v, Cardinality(Gone(v)))[v]
    BY <1>4
  <2>. QED  BY <1>3, <1>5, <2>1, <2>2, <2>3, Unreferenced
<1>7. g_root_vnode \in Vnode
  BY Numbers DEF g_root_vnode
<1>8. vnode' \in [Vnode -> VnodeRecord]
  BY <1>4, <1>6
<1>9. VnodeTable(vnode', inode)
  BY <1>5, <1>6, <1>7, <1>8, Lowered
<1>10. Counted(vnode', file')
  BY <1>6 DEF Counted
<1>. QED  BY <1>6, <1>7, <1>9, <1>10

\* sys_close and the exit of a process: the descriptors S of p go.
LEMMA UnrefStep ==
    ASSUME FilesCount, VfsIInv, NEW p \in Process, NEW S \in SUBSET Fd, file_unref(p, S),
           NEW d \in Descriptors,
           fd_table' = [fd_table EXCEPT ![p] = d],
           \A fd \in Fd : d.entries[fd] = IF fd \in S THEN NoFile ELSE FileOf(p, fd),
           S # Fd => d.alive = fd_table[p].alive,
           UNCHANGED <<entry, inode>>
    PROVE  VfsIInv' /\ OthersKept(p)
<1>1. /\ Closed(p, S) = {f \in OpenFile : \E fd \in S : FileOf(p, fd) = f}
      /\ \A f \in OpenFile : file'[f] = IF f \in Closed(p, S) THEN FreeFile ELSE file[f]
      /\ file' \in [OpenFile -> FileRecord]
      /\ \A f \in OpenFile : file'[f].ref_count > 0 <=> file[f].ref_count > 0 /\ f \notin Closed(p, S)
  BY ClosedFiles
<1>2. /\ VnodeTable(vnode', inode) /\ Counted(vnode', file')
      /\ vnode'[g_root_vnode] = vnode[g_root_vnode]
      /\ \A v \in Vnode : vnode'[v].ref_count > 0 => vnode'[v].inode_num = vnode[v].inode_num
  BY ClosedVnodes
<1>3. fd_table \in [Process -> Descriptors]
  BY DEF VfsIInv, Shapes
<1>4. Shapes(entry', inode', file', fd_table')
  <2>1. fd_table' \in [Process -> Descriptors]
    BY <1>3
  <2>. QED  BY <1>1, <2>1 DEF VfsIInv, Shapes
<1>5. /\ \A q \in Process : q # p => fd_table'[q] = fd_table[q]
      /\ fd_table'[p] = d
  BY <1>3
<1>6. ASSUME NEW q \in Process, NEW fd \in Fd, fd_table'[q].entries[fd] \in OpenFile
      PROVE  /\ fd_table'[q].entries[fd] = FileOf(q, fd)
             /\ FileOf(q, fd) \notin Closed(p, S)
             /\ fd_table'[q].alive = fd_table[q].alive
  <2>1. CASE q = p
    <3>1. fd \notin S
      BY <1>5, <1>6, <2>1, Numbers
    <3>2. fd_table'[q].entries[fd] = FileOf(q, fd)
      BY <1>5, <2>1, <3>1
    <3>3. \A gd \in S : FileOf(p, gd) # FileOf(p, fd)
      BY <1>6, <2>1, <3>1, <3>2 DEF VfsIInv, OneDescriptor, FileOf
    <3>. QED  BY <1>1, <1>5, <2>1, <3>1, <3>2, <3>3
  <2>2. CASE q # p
    <3>1. fd_table'[q].entries[fd] = FileOf(q, fd) /\ fd_table'[q].alive = fd_table[q].alive
      BY <1>5, <2>2 DEF FileOf
    <3>2. \A gd \in S : FileOf(p, gd) # FileOf(q, fd)
      BY <1>6, <2>2, <3>1 DEF VfsIInv, OneDescriptor, FileOf
    <3>. QED  BY <1>1, <3>1, <3>2
  <2>. QED  BY <2>1, <2>2
<1>7. OneDescriptor(file', fd_table')
  <2>1. ASSUME NEW q \in Process, NEW fd \in Fd, fd_table'[q].entries[fd] \in OpenFile
        PROVE  file'[fd_table'[q].entries[fd]].ref_count = 1 /\ fd_table'[q].alive
    BY <1>1, <1>6, <2>1 DEF VfsIInv, OneDescriptor, FileOf
  <2>2. ASSUME NEW f \in OpenFile, file'[f].ref_count # 0
        PROVE  \E q \in Process, fd \in Fd : fd_table'[q].entries[fd] = f
    <3>1. file'[f].ref_count > 0
      BY <1>1, <2>2 DEF FileRecord
    <3>2. file[f].ref_count # 0 /\ f \notin Closed(p, S)
      BY <1>1, <3>1
    <3>3. PICK q \in Process, fd \in Fd : FileOf(q, fd) = f
      BY <3>2 DEF VfsIInv, OneDescriptor, FileOf
    <3>4. q = p => fd \notin S
      BY <1>1, <3>2, <3>3
    <3>5. fd_table'[q].entries[fd] = f
      BY <1>5, <3>3, <3>4 DEF FileOf
    <3>. QED  BY <3>5
  <2>3. ASSUME NEW q \in Process, NEW r \in Process, NEW fd \in Fd, NEW gd \in Fd,
               fd_table'[q].entries[fd] \in OpenFile,
               fd_table'[q].entries[fd] = fd_table'[r].entries[gd]
        PROVE  q = r /\ fd = gd
    <3>1. FileOf(q, fd) \in OpenFile /\ FileOf(q, fd) = FileOf(r, gd)
      BY <1>6, <2>3
    <3>. QED  BY <3>1 DEF VfsIInv, OneDescriptor, FileOf
  <2>. QED  BY <2>1, <2>2, <2>3 DEF OneDescriptor
<1>8. VfsIInv'
  BY <1>2, <1>4, <1>7 DEF VfsIInv, RootBounded
<1>9. ASSUME NEW q \in Process \ {p} PROVE View(q)' = View(q)
  <2>1. fd_table'[q].entries = fd_table[q].entries
    BY <1>5
  <2>2. ASSUME NEW fd \in Fd, FileOf(q, fd) \in OpenFile
        PROVE  /\ file'[FileOf(q, fd)] = file[FileOf(q, fd)]
               /\ vnode'[file[FileOf(q, fd)].vnode].inode_num = vnode[file[FileOf(q, fd)].vnode].inode_num
    <3>1. fd_table'[q].entries[fd] = FileOf(q, fd)
      BY <2>1 DEF FileOf
    <3>2. file'[FileOf(q, fd)] = file[FileOf(q, fd)]
      BY <1>1, <1>6, <2>2, <3>1
    <3>3. file'[FileOf(q, fd)].ref_count > 0
      BY <1>7, <2>2, <3>1 DEF OneDescriptor
    <3>4. /\ file'[FileOf(q, fd)].vnode \in Vnode
          /\ vnode'[file'[FileOf(q, fd)].vnode].ref_count > 0
      BY <1>1, <1>2, <2>2, <3>3, OpenHasVnode DEF FileRecord
    <3>. QED  BY <1>2, <3>2, <3>4
  <2>. QED  BY <2>1, <2>2, SameView
<1>. QED  BY <1>8, <1>9 DEF OthersKept

\* Table t has the references of the vnode table and one more, to vnode v.
Holding(t, v) ==
    /\ v \in Vnode /\ t[v].ref_count > 0
    /\ \A w \in Vnode :
          /\ w # g_root_vnode => t[w].ref_count = vnode[w].ref_count + (IF w = v THEN 1 ELSE 0)
          /\ vnode[w].ref_count > 0 => t[w].inode_num = vnode[w].inode_num

\* vfs_open refuses or finds no open file: it gives the reference back.
LEMMA OpenFails ==
    ASSUME FilesCount, VfsIInv, NEW nodes, NEW t, NEW v, VnodeTable(t, nodes), Holding(t, v), RootBounded(t),
           Entries(entry', nodes), Shapes(entry', inode', file, fd_table),
           \A i \in Inode : inode'[i].type = nodes[i].type,
           vnode' = vnode_unref(t, v, 1), UNCHANGED <<file, fd_table>>
    PROVE  VfsIInv' /\ \A q \in Process : View(q)' = View(q)
<1>1. v \in Vnode /\ t[v].ref_count > 0
  BY DEF Holding
<1>2. VnodeTable(vnode', nodes) /\ Lost(vnode', t, v)
  BY <1>1, GivenBack
<1>3. VnodeTable(vnode', inode')
  <2>1. \A w \in Vnode : vnode'[w].inode_num \in Inode
    BY <1>2, TableShape
  <2>. QED  BY <1>2, <2>1 DEF VnodeTable
<1>4. \A w \in Vnode : vnode[w].ref_count \in Nat
  <2>1. VnodeTable(vnode, inode)
    BY DEF VfsIInv
  <2>. QED  BY <2>1, TableShape
<1>9. SameReferences(vnode', vnode)
  BY <1>1, <1>2, <1>4 DEF Holding, Lost, SameReferences
<1>10. Counted(vnode', file')
  BY <1>9 DEF VfsIInv, Counted, SameReferences
<1>11. Entries(entry', inode')
  <2>1. entry' \in [Path -> Inode \cup {NoInode}]
    BY DEF Shapes
  <2>. QED  BY <2>1 DEF Entries
<1>12. VfsIInv'
  <2>1. vnode'[g_root_vnode] = t[g_root_vnode]
    BY <1>2, Numbers DEF Lost, g_root_vnode
  <2>2. OneDescriptor(file', fd_table')
    BY DEF VfsIInv
  <2>3. Shapes(entry', inode', file', fd_table')
    BY DEF Shapes
  <2>4. RootBounded(vnode')
    BY <2>1 DEF RootBounded
  <2>. QED  BY <1>3, <1>10, <1>11, <2>2, <2>3, <2>4 DEF VfsIInv
<1>13. ASSUME NEW q \in Process PROVE View(q)' = View(q)
  <2>1. ASSUME NEW fd \in Fd, FileOf(q, fd) \in OpenFile
        PROVE  vnode'[file[FileOf(q, fd)].vnode].inode_num = vnode[file[FileOf(q, fd)].vnode].inode_num
    BY <1>9, <2>1, DescriptorHasVnode DEF SameReferences
  <2>. QED  BY <2>1, SameView, Zenon
<1>. QED  BY <1>12, <1>13

\* A descriptor table with other entries.
LEMMA Entered ==
    ASSUME NEW d \in Descriptors, NEW e \in [Fd -> OpenFile \cup {Console, NoFile}],
           NEW d2, d2 = [d EXCEPT !.entries = e]
    PROVE  d2 \in Descriptors /\ d2.entries = e /\ d2.alive = d.alive
BY DEF Descriptors

\* vfs_open succeeds: a free entry of the table of open files takes the
\* reference, and a free descriptor of p leads to it.
LEMMA OpenSucceeds ==
    ASSUME FilesCount, VfsIInv, NEW nodes, NEW v, VnodeTable(vnode', nodes), Holding(vnode', v),
           RootBounded(vnode'), NEW p \in Process, fd_table[p].alive,
           Shapes(entry', inode', file, fd_table), Entries(entry', nodes),
           \A i \in Inode : inode'[i].type = nodes[i].type,
           NEW f \in FreeFiles, NEW fd \in FreeFds(p),
           NEW r \in FileRecord,
           r.ref_count = 1, r.vnode = v,
           file' = [file EXCEPT ![f] = r],
           fd_table' = [fd_table EXCEPT ![p].entries[fd] = f]
    PROVE  VfsIInv' /\ OthersKept(p)
<1>1. f \in OpenFile /\ file[f].ref_count = 0 /\ fd \in Fd /\ FileOf(p, fd) = NoFile
  BY DEF FreeFiles, FreeFds, FileOf
<1>2. /\ file \in [OpenFile -> FileRecord]
      /\ fd_table \in [Process -> Descriptors]
  BY DEF Shapes
<1>3. file'[f] = r /\ \A g \in OpenFile : g # f => file'[g] = file[g]
  BY <1>1, <1>2
<1>4. /\ \A q \in Process : q # p => fd_table'[q] = fd_table[q]
      /\ fd_table'[p] = [fd_table[p] EXCEPT !.entries[fd] = f]
  BY <1>2
<1>5. /\ fd_table'[p].entries = [fd_table[p].entries EXCEPT ![fd] = f]
      /\ fd_table'[p].alive = fd_table[p].alive
      /\ fd_table'[p] \in Descriptors
  <2>1. fd_table[p] \in Descriptors
    BY <1>2
  <2>2. [fd_table[p].entries EXCEPT ![fd] = f] \in [Fd -> OpenFile \cup {Console, NoFile}]
    BY <1>1, <2>1 DEF Descriptors
  <2>3. fd_table'[p] = [fd_table[p] EXCEPT !.entries = [fd_table[p].entries EXCEPT ![fd] = f]]
    BY <1>4
  <2>4. fd_table'[p] \in Descriptors /\ fd_table'[p].entries = [fd_table[p].entries EXCEPT ![fd] = f]
    BY <2>1, <2>2, <2>3, Entered
  <2>5. fd_table'[p].alive = fd_table[p].alive
    BY <2>1, <2>2, <2>3, Entered, Zenon
  <2>. QED  BY <2>4, <2>5, Zenon
<1>6. ASSUME NEW q \in Process, NEW gd \in Fd
      PROVE  fd_table'[q].entries[gd] = IF q = p /\ gd = fd THEN f ELSE FileOf(q, gd)
  <2>1. fd_table[p].entries \in [Fd -> OpenFile \cup {Console, NoFile}]
    BY <1>2 DEF Descriptors
  <2>. QED  BY <1>4, <1>5, <2>1 DEF FileOf
<1>7. Shapes(entry', inode', file', fd_table')
  <2>1. file' \in [OpenFile -> FileRecord]
    BY <1>1, <1>2
  <2>2. fd_table' \in [Process -> Descriptors]
    <3>1. fd_table' = [fd_table EXCEPT ![p] = fd_table'[p]]
      BY <1>2, <1>4
    <3>. QED  BY <1>2, <1>5, <3>1
  <2>. QED  BY <2>1, <2>2 DEF Shapes
<1>8. VnodeTable(vnode', inode')
  BY DEF VnodeTable, VnodeRecord
<1>9. Counted(vnode', file')
  <2>. SUFFICES ASSUME NEW w \in Vnode \ {g_root_vnode}
                PROVE  vnode'[w].ref_count = Cardinality(OpenOn(file', w))
    BY Zenon DEF Counted
  <2>1. vnode[w].ref_count = Cardinality(OpenOn(file, w))
    BY DEF VfsIInv, Counted
  <2>2. OpenOn(file, w) \in SUBSET OpenFile /\ Cardinality(OpenOn(file, w)) \in Nat
    BY TableAssumption DEF OpenOn, FilesCount
  <2>3. f \notin OpenOn(file, w)
    BY <1>1 DEF OpenOn
  <2>4. CASE w = v
    <3>1. OpenOn(file', w) = OpenOn(file, w) \cup {f}
      BY <1>1, <1>3, <2>4 DEF OpenOn
    <3>2. Cardinality(OpenOn(file', w)) = Cardinality(OpenOn(file, w)) + 1
      BY <1>1, <2>2, <2>3, <3>1, MoreFiles, Zenon
    <3>. QED  BY <2>1, <2>4, <3>2 DEF Holding
  <2>5. CASE w # v
    <3>1. OpenOn(file', w) = OpenOn(file, w)
      BY <1>1, <1>3, <2>5 DEF OpenOn
    <3>. QED  BY <2>1, <2>2, <2>5, <3>1 DEF Holding
  <2>. QED  BY <2>4, <2>5
<1>10. \A q \in Process, gd \in Fd : FileOf(q, gd) # f
  BY <1>1 DEF VfsIInv, OneDescriptor, FileOf
<1>11. OneDescriptor(file', fd_table')
  <2>1. ASSUME NEW q \in Process, NEW gd \in Fd, fd_table'[q].entries[gd] \in OpenFile
        PROVE  file'[fd_table'[q].entries[gd]].ref_count = 1 /\ fd_table'[q].alive
    <3>1. CASE q = p /\ gd = fd
      BY <1>3, <1>5, <1>6, <3>1
    <3>2. CASE ~(q = p /\ gd = fd)
      <4>1. fd_table'[q].entries[gd] = FileOf(q, gd)
        BY <1>6, <3>2
      <4>2. fd_table'[q].alive = fd_table[q].alive
        BY <1>4, <1>5
      <4>. QED  BY <1>3, <1>10, <2>1, <4>1, <4>2 DEF VfsIInv, OneDescriptor, FileOf
    <3>. QED  BY <3>1, <3>2
  <2>2. ASSUME NEW g \in OpenFile, file'[g].ref_count # 0
        PROVE  \E q \in Process, gd \in Fd : fd_table'[q].entries[gd] = g
    <3>1. CASE g = f
      BY <1>1, <1>6, <3>1
    <3>2. CASE g # f
      <4>1. file[g].ref_count # 0
        BY <1>3, <2>2, <3>2
      <4>2. PICK q \in Process, gd \in Fd : FileOf(q, gd) = g
        BY <4>1 DEF VfsIInv, OneDescriptor, FileOf
      <4>3. fd_table'[q].entries[gd] = g
        BY <1>1, <1>6, <4>2, Numbers
      <4>. QED  BY <4>3
    <3>. QED  BY <3>1, <3>2
  <2>3. ASSUME NEW q \in Process, NEW s \in Process, NEW gd \in Fd, NEW hd \in Fd,
               fd_table'[q].entries[gd] \in OpenFile,
               fd_table'[q].entries[gd] = fd_table'[s].entries[hd]
        PROVE  q = s /\ gd = hd
    <3>1. CASE q = p /\ gd = fd
      BY <1>6, <1>10, <2>3, <3>1
    <3>2. CASE s = p /\ hd = fd
      BY <1>6, <1>10, <2>3, <3>2
    <3>3. CASE ~(q = p /\ gd = fd) /\ ~(s = p /\ hd = fd)
      <4>1. FileOf(q, gd) \in OpenFile /\ FileOf(q, gd) = FileOf(s, hd)
        BY <1>6, <2>3, <3>3
      <4>. QED  BY <4>1 DEF VfsIInv, OneDescriptor, FileOf
    <3>. QED  BY <3>1, <3>2, <3>3
  <2>. QED  BY <2>1, <2>2, <2>3 DEF OneDescriptor
<1>12. Entries(entry', inode')
  <2>1. entry' \in [Path -> Inode \cup {NoInode}]
    BY DEF Shapes
  <2>. QED  BY <2>1 DEF Entries
<1>13. VfsIInv'
  BY <1>7, <1>8, <1>9, <1>11, <1>12 DEF VfsIInv
<1>14. ASSUME NEW q \in Process \ {p} PROVE View(q)' = View(q)
  <2>1. fd_table'[q].entries = fd_table[q].entries
    BY <1>4
  <2>2. ASSUME NEW gd \in Fd, FileOf(q, gd) \in OpenFile
        PROVE  /\ file'[FileOf(q, gd)] = file[FileOf(q, gd)]
               /\ vnode'[file[FileOf(q, gd)].vnode].inode_num = vnode[file[FileOf(q, gd)].vnode].inode_num
    <3>1. file'[FileOf(q, gd)] = file[FileOf(q, gd)]
      BY <1>3, <1>10, <2>2
    <3>. QED  BY <2>2, <3>1, DescriptorHasVnode DEF Holding
  <2>. QED  BY <2>1, <2>2, SameView
<1>. QED  BY <1>13, <1>14 DEF OthersKept

\* The rest of vfs_open and of sys_open.
LEMMA OpenVnodeStep ==
    ASSUME FilesCount, VfsIInv, NEW nodes, NEW t, NEW v, VnodeTable(t, nodes), Holding(t, v), RootBounded(t),
           NEW p \in Process, fd_table[p].alive, NEW path \in Path, NEW flags \in Flags,
           NEW created, Shapes(entry', nodes, file, fd_table), Entries(entry', nodes),
           OpenVnode(p, path, flags, t, v, nodes, created)
    PROVE  VfsIInv' /\ OthersKept(p)
<1>. DEFINE i == t[v].inode_num
            refused == nodes[i].type = "DIR" /\ flags \cap O_ACCMODE # {"O_RDONLY"}
            trunc == "O_TRUNC" \in flags /\ nodes[i].type = "FILE" /\ ~created
            after == IF trunc /\ ~refused THEN [nodes EXCEPT ![i].size = 0] ELSE nodes
            r == [ref_count |-> 1, flags |-> flags, vnode |-> v, path |-> path,
                  offset |-> IF "O_APPEND" \in flags THEN after[i].size ELSE 0]
<1>1. /\ inode' = after
      /\ \/ /\ refused \/ FreeFiles = {}
            /\ vnode' = vnode_unref(t, v, 1)
            /\ UNCHANGED <<file, fd_table>>
         \/ \E f \in Lowest(FreeFiles), fd \in Lowest(FreeFds(p)) :
            /\ ~refused
            /\ vnode' = t
            /\ file' = [file EXCEPT ![f] = r]
            /\ fd_table' = [fd_table EXCEPT ![p].entries[fd] = f]
  BY DEF OpenVnode
<1>2. v \in Vnode /\ i \in Inode
  BY DEF VnodeTable, Holding, VnodeRecord
<1>3. nodes \in [Inode -> InodeRecord]
  BY DEF Shapes
<1>4. MaxSize \in Nat
  BY TableAssumption
<1>. HIDE DEF i, refused, trunc
<1>5. /\ after \in [Inode -> InodeRecord]
      /\ \A j \in Inode : after[j].type = nodes[j].type
  <2>1. CASE trunc /\ ~refused
    <3>1. after = [nodes EXCEPT ![i].size = 0]
      BY <2>1
    <3>2. nodes[i] \in InodeRecord /\ 0 \in 0 .. MaxSize
      BY <1>2, <1>3, <1>4
    <3>3. [nodes[i] EXCEPT !.size = 0] \in InodeRecord
      BY <3>2 DEF InodeRecord
    <3>. QED  BY <1>2, <1>3, <3>1, <3>2, <3>3
  <2>2. CASE ~(trunc /\ ~refused)
    BY <1>3, <2>2
  <2>. QED  BY <2>1, <2>2
<1>6. r \in FileRecord
  <2>1. after[i].size \in Nat
    BY <1>2, <1>4, <1>5 DEF InodeRecord
  <2>. QED  BY <1>2, <2>1 DEF FileRecord
<1>7. r.ref_count = 1 /\ r.vnode = v
  OBVIOUS
<1>. HIDE DEF after, r
<1>8. Shapes(entry', after, file, fd_table)
  BY <1>5 DEF Shapes
<1>9. CASE vnode' = vnode_unref(t, v, 1) /\ UNCHANGED <<file, fd_table>>
  BY <1>1, <1>5, <1>8, <1>9, OpenFails DEF OthersKept
<1>10. ASSUME NEW f \in Lowest(FreeFiles), NEW fd \in Lowest(FreeFds(p)),
              vnode' = t, file' = [file EXCEPT ![f] = r],
              fd_table' = [fd_table EXCEPT ![p].entries[fd] = f]
       PROVE  VfsIInv' /\ OthersKept(p)
  <2>1. f \in FreeFiles /\ fd \in FreeFds(p)
    BY DEF Lowest
  <2>2. /\ VnodeTable(vnode', nodes) /\ Holding(vnode', v) /\ RootBounded(vnode')
        /\ Shapes(entry', inode', file, fd_table) /\ \A j \in Inode : inode'[j].type = nodes[j].type
    BY <1>1, <1>5, <1>8, <1>10
  <2>. QED  BY <1>6, <1>7, <1>10, <2>1, <2>2, OpenSucceeds, Zenon
<1>. QED  BY <1>1, <1>9, <1>10, Zenon

\* sys_open of a path that exists.
LEMMA OpenFoundStep ==
    ASSUME FilesCount, VfsIInv, CountersSuffice, RootFollowed, NEW p \in Process, fd_table[p].alive,
           NEW path \in Path, NEW flags \in Flags, Exists(path), OpenFound(p, path, flags)
    PROVE  VfsIInv' /\ OthersKept(p)
<1>. DEFINE i == entry[path]
<1>1. i \in Inode /\ inode[i].type # "FREE"
  BY DEF VfsIInv, Shapes, Entries, Exists
<1>2. PICK v \in Slot(vnode, i) :
         /\ OpenVnode(p, path, flags, vnode_get_or_create(vnode, i, v), v, inode, FALSE)
         /\ UNCHANGED entry
  BY Zenon DEF OpenFound
<1>. HIDE DEF i
<1>. DEFINE t == vnode_get_or_create(vnode, i, v)
<1>3. VnodeTable(vnode, inode)
  BY DEF VfsIInv
<1>4. VnodeTable(t, inode) /\ Gained(t, vnode, v, i)
  <2>1. v \in Vnode /\ vnode[v].ref_count + 1 < RefLimit
    BY RoomToCount, SlotIsVnode
  <2>. QED  BY <1>1, <1>3, <2>1, Gotten
<1>5. g_root_vnode \in Vnode /\ \A w \in Vnode : vnode[w].ref_count \in Nat
  BY <1>3, TableShape
<1>6. OpenVnode(p, path, flags, t, v, inode, FALSE)
  BY <1>2, Zenon
<1>. HIDE DEF t
<1>7. Holding(t, v)
  BY <1>4, <1>5 DEF Holding, Gained
<1>8. RootBounded(t)
  <2>1. vnode[g_root_vnode].ref_count <= RootRefs /\ RootRefs \in Nat
    BY TableAssumption DEF RootFollowed
  <2>. QED  BY <1>4, <1>5, <2>1 DEF RootBounded, Gained
<1>9. Shapes(entry', inode, file, fd_table) /\ Entries(entry', inode)
  BY <1>2, Zenon DEF VfsIInv
<1>. QED  BY <1>4, <1>6, <1>7, <1>8, <1>9, OpenVnodeStep, Zenon

\* The parent's vnode q was taken, the new inode's vnode v is, and q given back.
LEMMA TakenTwice ==
    ASSUME NEW nodes, NEW nodes0, VnodeTable(vnode, nodes0), RootFollowed, NEW t, NEW q, NEW d,
           VnodeTable(t, nodes), Gained(t, vnode, q, d),
           NEW i \in Inode, nodes[i].type # "FREE", \A w \in Vnode : t[w].ref_count > 0 => t[w].inode_num # i,
           NEW v, v \in Slot(t, i), 1 < RefLimit,
           NEW t2, t2 = vnode_unref(vnode_get_or_create(t, i, v), q, 1)
    PROVE  VnodeTable(t2, nodes) /\ Holding(t2, v) /\ RootBounded(t2)
<1>. DEFINE t1 == vnode_get_or_create(t, i, v)
<1>1. /\ g_root_vnode \in Vnode /\ t[g_root_vnode].ref_count > 0
      /\ \A w \in Vnode : vnode[w].ref_count \in Nat /\ t[w].ref_count \in Nat
  BY TableShape
<1>2. v \in Vnode /\ t[v].ref_count = 0
  BY <1>1 DEF Slot, Lowest
<1>3. VnodeTable(t1, nodes) /\ Gained(t1, t, v, i)
  BY <1>2, Gotten
<1>4. t2 = vnode_unref(t1, q, 1)
  OBVIOUS
<1>. HIDE DEF t1
<1>5. q \in Vnode /\ q # v /\ v # g_root_vnode /\ t1[q] = t[q] /\ t1[q].ref_count > 0
  BY <1>1, <1>2, <1>3 DEF Gained
<1>6. VnodeTable(t2, nodes) /\ Lost(t2, t1, q)
  BY <1>3, <1>4, <1>5, GivenBack
<1>7. ASSUME NEW w \in Vnode
      PROVE  /\ w # g_root_vnode => t2[w].ref_count = vnode[w].ref_count + (IF w = v THEN 1 ELSE 0)
             /\ vnode[w].ref_count > 0 => t2[w].inode_num = vnode[w].inode_num
  <2>1. CASE w = v
    BY <1>2, <1>3, <1>5, <1>6, <2>1 DEF Gained, Lost
  <2>2. CASE w = q
    BY <1>1, <1>5, <1>6, <2>2 DEF Gained, Lost
  <2>3. CASE w # v /\ w # q
    BY <1>1, <1>3, <1>6, <2>3 DEF Gained, Lost
  <2>. QED  BY <2>1, <2>2, <2>3
<1>8. t2[v].ref_count > 0
  BY <1>2, <1>3, <1>5, <1>6 DEF Gained, Lost
<1>9. RootBounded(t2)
  <2>1. vnode[g_root_vnode].ref_count <= RootRefs /\ RootRefs \in Nat
    BY TableAssumption DEF RootFollowed
  <2>2. t1[g_root_vnode] = t[g_root_vnode]
    BY <1>1, <1>3, <1>5 DEF Gained
  <2>3. t2[g_root_vnode] = t1[g_root_vnode]
    BY <1>1, <1>6 DEF Lost
  <2>. QED  BY <1>1, <2>1, <2>2, <2>3 DEF RootBounded, Gained
<1>. QED  BY <1>2, <1>6, <1>7, <1>8, <1>9 DEF Holding

\* A new inode, with a path to it.
LEMMA Created ==
    ASSUME NEW names, NEW i \in Inode, inode[i].type = "FREE", NEW path \in Path,
           entry \in [Path -> Inode \cup {NoInode}], inode \in [Inode -> InodeRecord], Entries(entry, inode),
           names = [entry EXCEPT ![path] = i],
           NEW nodes, nodes = [inode EXCEPT ![i] = [type |-> "FILE", size |-> 0]]
    PROVE  /\ names \in [Path -> Inode \cup {NoInode}] /\ nodes \in [Inode -> InodeRecord]
           /\ Entries(names, nodes) /\ nodes[i].type # "FREE"
           /\ \A j \in Inode : inode[j].type # "FREE" => nodes[j].type # "FREE"
<1>1. nodes \in [Inode -> InodeRecord] /\ nodes[i].type # "FREE"
      /\ \A j \in Inode : inode[j].type # "FREE" => nodes[j].type # "FREE"
  BY TableAssumption DEF InodeRecord
<1>2. /\ names \in [Path -> Inode \cup {NoInode}]
      /\ \A w \in Path : names[w] = IF w = path THEN i ELSE entry[w]
  OBVIOUS
<1>3. ASSUME NEW w \in Path, names[w] # NoInode PROVE nodes[names[w]].type # "FREE"
  <2>1. CASE w = path
    BY <1>1, <1>2, <2>1
  <2>2. CASE w # path
    <3>1. names[w] \in Inode /\ inode[names[w]].type # "FREE"
      BY <1>2, <1>3, <2>2 DEF Entries
    <3>. QED  BY <1>1, <3>1
  <2>. QED  BY <2>1, <2>2
<1>4. \A w \in Dir : names[w] # NoInode
  BY <1>2, Numbers DEF Entries
<1>. QED  BY <1>1, <1>2, <1>3, <1>4 DEF Entries

\* vfs_create made inode i, and its vnode is opened.
LEMMA OpenCreated ==
    ASSUME FilesCount, VfsIInv, CountersSuffice, RootFollowed, NEW p \in Process, fd_table[p].alive,
           NEW path \in Path, NEW flags \in Flags,
           NEW t, NEW q, NEW d, VnodeTable(t, inode), Gained(t, vnode, q, d),
           NEW i \in Inode, inode[i].type = "FREE", entry' = [entry EXCEPT ![path] = i],
           NEW nodes, nodes = [inode EXCEPT ![i] = [type |-> "FILE", size |-> 0]],
           NEW v, v \in Slot(t, i), NEW t2, t2 = vnode_unref(vnode_get_or_create(t, i, v), q, 1),
           OpenVnode(p, path, flags, t2, v, nodes, TRUE)
    PROVE  VfsIInv' /\ OthersKept(p)
<1>1. Shapes(entry, inode, file, fd_table) /\ VnodeTable(vnode, inode) /\ Entries(entry, inode)
  BY DEF VfsIInv
<1>2. entry \in [Path -> Inode \cup {NoInode}] /\ inode \in [Inode -> InodeRecord]
  BY <1>1 DEF Shapes
<1>3. /\ entry' \in [Path -> Inode \cup {NoInode}] /\ nodes \in [Inode -> InodeRecord]
      /\ Entries(entry', nodes) /\ nodes[i].type # "FREE"
      /\ \A j \in Inode : inode[j].type # "FREE" => nodes[j].type # "FREE"
  BY <1>1, <1>2, Created, Zenon
<1>4. VnodeTable(t, nodes)
  <2>1. \A w \in Vnode : t[w].inode_num \in Inode
    BY TableShape
  <2>. QED  BY <1>3, <2>1, Zenon DEF VnodeTable
<1>5. \A w \in Vnode : t[w].ref_count > 0 => t[w].inode_num # i
  BY Zenon DEF VnodeTable
<1>6. 1 < RefLimit
  BY TableAssumption DEF CountersSuffice
<1>7. VnodeTable(t2, nodes) /\ Holding(t2, v) /\ RootBounded(t2)
  BY <1>1, <1>3, <1>4, <1>5, <1>6, TakenTwice, Zenon
<1>8. Shapes(entry', nodes, file, fd_table)
  BY <1>1, <1>3 DEF Shapes
<1>. QED  BY <1>3, <1>7, <1>8, OpenVnodeStep, Zenon

\* sys_open of a path that does not, with O_CREAT: the parent directory's vnode
\* is taken, the new inode's too, and the parent's given back.
LEMMA OpenNewStep ==
    ASSUME FilesCount, VfsIInv, CountersSuffice, RootFollowed, NEW p \in Process, fd_table[p].alive,
           NEW path \in Path, NEW flags \in Flags, ~Exists(path), OpenNew(p, path, flags)
    PROVE  VfsIInv' /\ OthersKept(p)
<1>. DEFINE d == entry[Parent[path]]
            FreeInodes == {j \in Inode : inode[j].type = "FREE"}
<1>1. path \in File /\ Parent[path] \in Dir
  BY DEF VfsIInv, Entries, Exists, Path, Dir
<1>2. d \in Inode /\ inode[d].type # "FREE"
  BY <1>1, Numbers DEF VfsIInv, Shapes, Entries
<1>3. PICK q \in Slot(vnode, d) :
         LET t == vnode_get_or_create(vnode, d, q)
         IN  \/ /\ vnode' = vnode_unref(t, q, 1)
                /\ UNCHANGED <<entry, inode, file, fd_table>>
             \/ \E i \in Lowest(FreeInodes) :
                /\ entry' = [entry EXCEPT ![path] = i]
                /\ \E v \in Slot(t, i) :
                      OpenVnode(p, path, flags, vnode_unref(vnode_get_or_create(t, i, v), q, 1), v,
                                [inode EXCEPT ![i] = [type |-> "FILE", size |-> 0]], TRUE)
  BY Zenon DEF OpenNew
<1>. HIDE DEF d
<1>. DEFINE t == vnode_get_or_create(vnode, d, q)
<1>4. VnodeTable(vnode, inode)
  BY DEF VfsIInv
<1>5. VnodeTable(t, inode) /\ Gained(t, vnode, q, d)
  <2>1. q \in Vnode /\ vnode[q].ref_count + 1 < RefLimit
    BY RoomToCount, SlotIsVnode
  <2>. QED  BY <1>2, <1>4, <2>1, Gotten
<1>6. CASE vnode' = vnode_unref(t, q, 1) /\ UNCHANGED <<entry, inode, file, fd_table>>
  BY <1>2, <1>6, VisitStep DEF OthersKept
<1>7. ASSUME NEW i \in Lowest(FreeInodes), entry' = [entry EXCEPT ![path] = i], NEW v \in Slot(t, i),
             OpenVnode(p, path, flags, vnode_unref(vnode_get_or_create(t, i, v), q, 1), v,
                       [inode EXCEPT ![i] = [type |-> "FILE", size |-> 0]], TRUE)
      PROVE  VfsIInv' /\ OthersKept(p)
  <2>. DEFINE nodes == [inode EXCEPT ![i] = [type |-> "FILE", size |-> 0]]
              t2 == vnode_unref(vnode_get_or_create(t, i, v), q, 1)
  <2>1. i \in Inode /\ inode[i].type = "FREE"
    BY DEF Lowest
  <2>2. OpenVnode(p, path, flags, t2, v, nodes, TRUE)
    BY <1>7, Zenon
  <2>3. nodes = [inode EXCEPT ![i] = [type |-> "FILE", size |-> 0]]
        /\ t2 = vnode_unref(vnode_get_or_create(t, i, v), q, 1)
    OBVIOUS
  <2>. HIDE DEF nodes, t, t2
  <2>. QED  BY <1>5, <1>7, <2>1, <2>2, <2>3, OpenCreated, Zenon
<1>. QED  BY <1>3, <1>6, <1>7, Zenon

\* sys_read, sys_write and sys_lseek move the offset of a file of p, sys_write
\* lets its inode grow.
LEMMA MoveStep ==
    ASSUME VfsIInv, NEW p \in Process, NEW fd \in Fd, FileOf(p, fd) \in OpenFile,
           NEW n \in Nat, file' = [file EXCEPT ![FileOf(p, fd)].offset = n],
           inode' \in [Inode -> InodeRecord], \A i \in Inode : inode'[i].type = inode[i].type,
           UNCHANGED <<entry, vnode, fd_table>>
    PROVE  VfsIInv' /\ OthersKept(p)
<1>. DEFINE f == FileOf(p, fd)
<1>1. file \in [OpenFile -> FileRecord] /\ f \in OpenFile
  BY DEF VfsIInv, Shapes
<1>2. /\ \A g \in OpenFile : g # f => file'[g] = file[g]
      /\ file'[f] = [file[f] EXCEPT !.offset = n]
  BY <1>1
<1>3. file[f] \in FileRecord
  BY <1>1
<1>4. file'[f] \in FileRecord /\ file'[f].ref_count = file[f].ref_count /\ file'[f].vnode = file[f].vnode
  BY <1>2, <1>3 DEF FileRecord
<1>5. /\ file' \in [OpenFile -> FileRecord]
      /\ \A g \in OpenFile : file'[g].ref_count = file[g].ref_count /\ file'[g].vnode = file[g].vnode
  <2>1. file' = [file EXCEPT ![f] = file'[f]]
    BY <1>1, <1>2
  <2>. QED  BY <1>1, <1>2, <1>4, <2>1
<1>6. Shapes(entry', inode', file', fd_table')
  BY <1>5 DEF VfsIInv, Shapes
<1>7. VnodeTable(vnode', inode') /\ Entries(entry', inode')
  <2>1. VnodeTable(vnode, inode) /\ Entries(entry, inode) /\ entry \in [Path -> Inode \cup {NoInode}]
    BY DEF VfsIInv, Shapes
  <2>2. VnodeTable(vnode', inode')
    BY <2>1 DEF VnodeTable, VnodeRecord
  <2>3. Entries(entry', inode')
    BY <2>1 DEF Entries
  <2>. QED  BY <2>2, <2>3
<1>8. Counted(vnode', file')
  <2>1. \A v \in Vnode : OpenOn(file', v) = OpenOn(file, v)
    BY <1>5 DEF OpenOn
  <2>. QED  BY <2>1, Zenon DEF VfsIInv, Counted
<1>9. OneDescriptor(file', fd_table')
  BY <1>5 DEF VfsIInv, OneDescriptor
<1>10. VfsIInv'
  BY <1>6, <1>7, <1>8, <1>9 DEF VfsIInv, RootBounded
<1>11. ASSUME NEW q \in Process \ {p} PROVE View(q)' = View(q)
  <2>1. ASSUME NEW gd \in Fd, FileOf(q, gd) \in OpenFile
        PROVE  file'[FileOf(q, gd)] = file[FileOf(q, gd)]
    <3>1. FileOf(q, gd) # f
      BY <2>1 DEF VfsIInv, OneDescriptor, FileOf
    <3>. QED  BY <1>2, <2>1, <3>1
  <2>. QED  BY <2>1, SameView, Zenon
<1>. QED  BY <1>10, <1>11 DEF OthersKept

\* Descriptor tables that lead to the same open files.
LEMMA SameOpen ==
    ASSUME NEW F, NEW T, NEW T2, OneDescriptor(F, T),
           \A q \in Process, fd \in Fd :
               T[q].entries[fd] \in OpenFile \/ T2[q].entries[fd] \in OpenFile => T2[q] = T[q]
    PROVE  OneDescriptor(F, T2)
<1>1. \A p \in Process, fd \in Fd :
         T2[p].entries[fd] \in OpenFile => F[T2[p].entries[fd]].ref_count = 1 /\ T2[p].alive
  BY DEF OneDescriptor
<1>2. \A f \in OpenFile : F[f].ref_count # 0 => \E p \in Process, fd \in Fd : T2[p].entries[fd] = f
  BY DEF OneDescriptor
<1>3. ASSUME NEW p \in Process, NEW q \in Process, NEW fd \in Fd, NEW gd \in Fd,
             T2[p].entries[fd] \in OpenFile, T2[p].entries[fd] = T2[q].entries[gd]
      PROVE  p = q /\ fd = gd
  <2>1. T2[p] = T[p] /\ T2[q] = T[q]
    BY <1>3
  <2>. QED  BY <1>3, <2>1 DEF OneDescriptor
<1>. QED  BY <1>1, <1>2, <1>3 DEF OneDescriptor

\* A new process has its three console descriptors.
LEMMA CreateStep ==
    ASSUME VfsIInv, NEW p \in Process, process_create(p)
    PROVE  VfsIInv' /\ OthersKept(p)
<1>. DEFINE d == [entries |-> [fd \in Fd |-> IF fd < 3 THEN Console ELSE NoFile],
                  num_open |-> 3, alive |-> TRUE]
<1>1. ~fd_table[p].alive /\ fd_table' = [fd_table EXCEPT ![p] = d] /\ UNCHANGED <<entry, inode, vnode, file>>
  BY DEF process_create
<1>2. d \in Descriptors /\ \A fd \in Fd : d.entries[fd] \notin OpenFile
  BY Numbers DEF Descriptors
<1>. HIDE DEF d
<1>3. fd_table \in [Process -> Descriptors]
  BY DEF VfsIInv, Shapes
<1>4. fd_table'[p] = d /\ \A q \in Process : q # p => fd_table'[q] = fd_table[q]
  BY <1>1, <1>3
<1>5. \A fd \in Fd : fd_table[p].entries[fd] \notin OpenFile
  BY <1>1 DEF VfsIInv, OneDescriptor
<1>6. OneDescriptor(file', fd_table')
  <2>1. ASSUME NEW q \in Process, NEW fd \in Fd,
               fd_table[q].entries[fd] \in OpenFile \/ fd_table'[q].entries[fd] \in OpenFile
        PROVE  fd_table'[q] = fd_table[q]
    BY <1>2, <1>4, <1>5, <2>1
  <2>2. OneDescriptor(file, fd_table) /\ file' = file
    BY <1>1 DEF VfsIInv
  <2>. QED  BY <2>1, <2>2, SameOpen
<1>7. Shapes(entry', inode', file', fd_table')
  <2>1. fd_table' \in [Process -> Descriptors]
    BY <1>1, <1>2, <1>3
  <2>. QED  BY <1>1, <2>1 DEF VfsIInv, Shapes
<1>8. VfsIInv'
  BY <1>1, <1>6, <1>7 DEF VfsIInv
<1>9. ASSUME NEW q \in Process \ {p} PROVE View(q)' = View(q)
  BY <1>1, <1>4, SameView
<1>. QED  BY <1>8, <1>9 DEF OthersKept

\* The exit of a process closes all its descriptors.
LEMMA ExitStep ==
    ASSUME FilesCount, VfsIInv, NEW p \in Process, process_exit(p)
    PROVE  VfsIInv' /\ OthersKept(p)
<1>1. file_unref(p, Fd) /\ fd_table' = [fd_table EXCEPT ![p] = NoTable] /\ UNCHANGED <<entry, inode>>
  BY DEF process_exit
<1>2. NoTable \in Descriptors /\ \A fd \in Fd : NoTable.entries[fd] = NoFile
  BY DEF NoTable, Descriptors
<1>. QED  BY <1>1, <1>2, UnrefStep, Zenon

\* sys_close closes one.
LEMMA CloseStep ==
    ASSUME FilesCount, VfsIInv, NEW p \in Process, NEW fd \in Fd, sys_close(p, fd)
    PROVE  VfsIInv' /\ OthersKept(p)
<1>. DEFINE e == [fd_table[p].entries EXCEPT ![fd] = NoFile]
            d == [fd_table[p] EXCEPT !.entries = e]
<1>1. /\ file_unref(p, {fd}) /\ UNCHANGED <<entry, inode>>
      /\ fd_table' = [fd_table EXCEPT ![p].entries[fd] = NoFile]
  BY DEF sys_close
<1>2. fd_table \in [Process -> Descriptors] /\ fd_table[p] \in Descriptors
  BY DEF VfsIInv, Shapes
<1>3. fd_table' = [fd_table EXCEPT ![p] = d]
  BY <1>1
<1>4. /\ e \in [Fd -> OpenFile \cup {Console, NoFile}]
      /\ \A gd \in Fd : e[gd] = IF gd \in {fd} THEN NoFile ELSE FileOf(p, gd)
  BY <1>2 DEF Descriptors, FileOf
<1>. HIDE DEF e
<1>5. d = [fd_table[p] EXCEPT !.entries = e]
  OBVIOUS
<1>. HIDE DEF d
<1>6. d \in Descriptors /\ d.entries = e /\ d.alive = fd_table[p].alive
  <2>1. d \in Descriptors /\ d.entries = e
    BY <1>2, <1>4, <1>5, Entered
  <2>2. d.alive = fd_table[p].alive
    BY <1>2, <1>5, Zenon DEF Descriptors
  <2>. QED  BY <2>1, <2>2, Zenon
<1>7. /\ {fd} \in SUBSET Fd
      /\ \A gd \in Fd : d.entries[gd] = IF gd \in {fd} THEN NoFile ELSE FileOf(p, gd)
  BY <1>4, <1>6
<1>. QED  BY <1>1, <1>3, <1>6, <1>7, UnrefStep, Zenon

\* sys_read moves the offset, not past the end of the file.
LEMMA ReadStep ==
    ASSUME VfsIInv, NEW p \in Process, NEW fd \in Fd, NEW count \in Counts, sys_read(p, fd, count)
    PROVE  VfsIInv' /\ OthersKept(p)
<1>. DEFINE f == FileOf(p, fd)
            left == inode[InodeOf(f)].size - file[f].offset
            n == file[f].offset + IF left <= 0 THEN 0 ELSE IF count <= left THEN count ELSE left
<1>1. /\ f \in OpenFile /\ file' = [file EXCEPT ![f].offset = n]
      /\ UNCHANGED <<entry, inode, vnode, fd_table>>
  BY DEF sys_read
<1>2. /\ inode[InodeOf(f)].size \in Nat /\ file[f].offset \in Nat
      /\ inode \in [Inode -> InodeRecord]
  BY <1>1, OpenFileShape
<1>3. count \in Nat
  BY TableAssumption
<1>4. n \in Nat
  BY <1>2, <1>3
<1>. HIDE DEF n
<1>. QED  BY <1>1, <1>2, <1>4, MoveStep, Zenon

\* sys_write moves it past what was written, and the end of the file with it.
LEMMA WriteStep ==
    ASSUME VfsIInv, NEW p \in Process, NEW fd \in Fd, NEW count \in Counts, sys_write(p, fd, count)
    PROVE  VfsIInv' /\ OthersKept(p)
<1>. DEFINE f == FileOf(p, fd)
            i == InodeOf(f)
            at == IF "O_APPEND" \in file[f].flags THEN inode[i].size ELSE file[f].offset
<1>1. f \in OpenFile /\ UNCHANGED <<entry, vnode, fd_table>>
  BY DEF sys_write
<1>2. PICK k \in 0 .. count :
         /\ at + k <= MaxSize
         /\ inode' = [inode EXCEPT ![i].size = IF @ <= at + k THEN at + k ELSE @]
         /\ file' = [file EXCEPT ![f].offset = at + k]
  BY Zenon DEF sys_write
<1>3. /\ inode \in [Inode -> InodeRecord] /\ i \in Inode /\ inode[i] \in InodeRecord
      /\ inode[i].size \in Nat /\ inode[i].size <= MaxSize /\ file[f].offset \in Nat
  BY <1>1, OpenFileShape, Zenon
<1>. HIDE DEF i
<1>6. MaxSize \in Nat /\ count \in Nat
  BY TableAssumption
<1>8. at + k \in 0 .. MaxSize
  BY <1>2, <1>3, <1>6
<1>. HIDE DEF at
<1>9. (IF inode[i].size <= at + k THEN at + k ELSE inode[i].size) \in 0 .. MaxSize
  BY <1>3, <1>6, <1>8
<1>10. inode' \in [Inode -> InodeRecord] /\ \A j \in Inode : inode'[j].type = inode[j].type
  <2>. DEFINE r == [inode[i] EXCEPT !.size = IF inode[i].size <= at + k THEN at + k ELSE inode[i].size]
  <2>1. inode' = [inode EXCEPT ![i] = r]
    BY <1>2
  <2>2. r \in InodeRecord /\ r.type = inode[i].type
    BY <1>3, <1>9 DEF InodeRecord
  <2>. HIDE DEF r
  <2>. QED  BY <1>3, <2>1, <2>2
<1>11. at + k \in Nat
  BY <1>6, <1>8
<1>. QED  BY <1>1, <1>2, <1>10, <1>11, MoveStep, Zenon

\* sys_lseek sets it, never below zero.
LEMMA SeekStep ==
    ASSUME VfsIInv, NEW p \in Process, NEW fd \in Fd, NEW offset \in Offsets,
           NEW whence \in {"SEEK_SET", "SEEK_CUR", "SEEK_END"}, sys_lseek(p, fd, offset, whence)
    PROVE  VfsIInv' /\ OthersKept(p)
<1>. DEFINE f == FileOf(p, fd)
            from == CASE whence = "SEEK_SET" -> 0
                      [] whence = "SEEK_CUR" -> file[f].offset
                      [] whence = "SEEK_END" -> inode[InodeOf(f)].size
<1>1. /\ f \in OpenFile /\ file' = [file EXCEPT ![f].offset = from + offset] /\ Position(from + offset)
      /\ UNCHANGED <<entry, inode, vnode, fd_table>>
  BY DEF sys_lseek
<1>2. /\ inode[InodeOf(f)].size \in Nat /\ file[f].offset \in Nat
      /\ inode \in [Inode -> InodeRecord]
  BY <1>1, OpenFileShape
<1>3. offset \in Int
  BY TableAssumption
<1>4. from \in Int
  BY <1>2
<1>. HIDE DEF from
<1>5. from + offset \in Nat
  BY <1>1, <1>3, <1>4 DEF Position
<1>. QED  BY <1>1, <1>2, <1>5, MoveStep, Zenon

\* A call of process p keeps the invariant, and what all others see.
LEMMA VfsStep ==
    ASSUME FilesCount, VfsIInv, CountersSuffice, NEW p \in Process, Call(p)
    PROVE  VfsIInv' /\ OthersKept(p)
<1>1. ASSUME process_create(p) \/ process_exit(p)
      PROVE  VfsIInv' /\ OthersKept(p)
  BY <1>1, CreateStep, ExitStep
<1>2. ASSUME NEW path \in Path, NEW flags \in Flags,
             RootFollowed, sys_open(p, path, flags)
      PROVE  VfsIInv' /\ OthersKept(p)
  BY <1>2, OpenFoundStep, OpenNewStep, Zenon DEF sys_open
<1>3. ASSUME NEW path \in Path, RootFollowed, sys_stat(p, path)
      PROVE  VfsIInv' /\ OthersKept(p)
  <2>1. entry[path] \in Inode /\ inode[entry[path]].type # "FREE"
    BY <1>3 DEF sys_stat, VfsIInv, Shapes, Entries, Exists
  <2>2. PICK v \in Slot(vnode, entry[path]) :
           vnode' = vnode_unref(vnode_get_or_create(vnode, entry[path], v), v, 1)
    BY <1>3 DEF sys_stat
  <2>3. UNCHANGED <<entry, inode, file, fd_table>>
    BY <1>3 DEF sys_stat
  <2>. QED  BY <1>3, <2>1, <2>2, <2>3, VisitStep DEF OthersKept
<1>4. ASSUME NEW fd \in Fd, sys_close(p, fd)
      PROVE  VfsIInv' /\ OthersKept(p)
  BY <1>4, CloseStep
<1>5. ASSUME NEW fd \in Fd, NEW count \in Counts,
             sys_read(p, fd, count) \/ sys_write(p, fd, count)
      PROVE  VfsIInv' /\ OthersKept(p)
  BY <1>5, ReadStep, WriteStep
<1>6. ASSUME NEW fd \in Fd, NEW offset \in Offsets,
             NEW whence \in {"SEEK_SET", "SEEK_CUR", "SEEK_END"}, sys_lseek(p, fd, offset, whence)
      PROVE  VfsIInv' /\ OthersKept(p)
  BY <1>6, SeekStep
<1>. QED  BY <1>1, <1>2, <1>3, <1>4, <1>5, <1>6 DEF Call
=============================================================================
