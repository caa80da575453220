--------------------------------- MODULE Vfs ---------------------------------
(***************************************************************************)
(* Open files: the vnode table (kernel/fs/vfs.c), the system-wide table of *)
(* open files and the descriptor tables of the processes (kernel/fs/       *)
(* file.c), under the file system calls (kernel/syscall/sys_fs.c,          *)
(* sys_io.c).                                                              *)
(*                                                                         *)
(* The file system below is what module RamFs promises: an inode has a     *)
(* type and a size, a new one is the lowest free one, a creation may find  *)
(* no room and a write may store a part only.  A path is an atom with a    *)
(* parent directory.  A call runs to its end before the next one starts:   *)
(* in the shipped system the shell is the only process that makes them.    *)
(***************************************************************************)
EXTENDS Integers, FiniteSets

CONSTANTS
    MAX_VNODES, MAX_OPEN_FILES, MAX_FD_PER_PROCESS, RAMFS_MAX_FILES,
    RefLimit,          \* reference counters are numbers modulo RefLimit (2^32)
    MaxSize,           \* of a file
    Process,
    File,              \* paths of files
    Parent,            \* the directory each of them is in
    Flags,             \* sets of O_ bits that callers of open pass
    Counts,            \* lengths that callers of read and write pass
    Offsets,           \* offsets that callers of lseek pass
    MaxOffset,         \* bound on the file positions that are followed
    RootRefs           \* bound on the references to the root that are followed

RootPath == "/"
Dir == {RootPath} \cup {Parent[f] : f \in File}
Path == Dir \cup File

ASSUME TableAssumption ==
    /\ {MAX_VNODES, MAX_OPEN_FILES, MAX_FD_PER_PROCESS, RAMFS_MAX_FILES, RefLimit, MaxSize}
          \subseteq Nat \ {0}
    /\ MAX_VNODES >= RAMFS_MAX_FILES
    /\ IsFiniteSet(Dir) /\ RAMFS_MAX_FILES >= Cardinality(Dir)
    /\ File \cap Dir = {}
    /\ Counts \subseteq Nat /\ Offsets \subseteq Int /\ RootRefs \in Nat

VARIABLES
    entry,             \* path -> inode
    inode,             \* type and size
    vnode,             \* vnode_table
    file,              \* open_file_table
    fd_table           \* process -> descriptors in use, or NoTable

vfsVars == <<entry, inode, vnode, file, fd_table>>

Inode == 0 .. RAMFS_MAX_FILES - 1
Vnode == 0 .. MAX_VNODES - 1
OpenFile == 0 .. MAX_OPEN_FILES - 1
Fd == 0 .. MAX_FD_PER_PROCESS - 1
Console == -1
NoFile == -2
NoTable == [entries |-> [fd \in Fd |-> NoFile], num_open |-> 0, alive |-> FALSE]
NoInode == -1
g_root_vnode == 0

FreeInode == [type |-> "FREE", size |-> 0]
FreeVnode == [ref_count |-> 0, inode_num |-> 0]
FreeFile == [ref_count |-> 0, flags |-> {}, offset |-> 0, vnode |-> 0, path |-> RootPath]

\* The first free slot of a table, as a set with at most one member.
Lowest(S) == {x \in S : \A y \in S : x <= y}

(***************************************************************************)
(* Vnodes.  The operators map a vnode table t to the next.                 *)
(***************************************************************************)
\* The slot vnode_get_or_create takes for inode i, as a set with at most one
\* member: the one that stands for i already, else the first free one.
Slot_Fresh(t, i) ==
    LET free == {v \in Vnode : t[v].ref_count = 0}
    IN  Lowest(free)

Slot(t, i) ==
    LET used == {v \in Vnode : t[v].ref_count > 0 /\ t[v].inode_num = i}
        free == {v \in Vnode : t[v].ref_count = 0}
    IN  IF used # {} THEN Lowest(used) ELSE Lowest(free)

vnode_get_or_create(t, i, v) ==
    IF t[v].ref_count > 0 THEN [t EXCEPT ![v].ref_count = (@ + 1) % RefLimit]
    ELSE [t EXCEPT ![v] = [ref_count |-> 1, inode_num |-> i]]

\* n calls of vnode_unref.
vnode_unref(t, v, n) ==
    IF v = g_root_vnode \/ n = 0 THEN t
    ELSE IF t[v].ref_count <= n THEN [t EXCEPT ![v] = FreeVnode]
    ELSE [t EXCEPT ![v].ref_count = @ - n]

Exists(path) == entry[path] # NoInode

VfsInit ==
    /\ \E number \in [Dir -> 0 .. Cardinality(Dir) - 1] :
          /\ number[RootPath] = 0 /\ \A d, e \in Dir : number[d] = number[e] => d = e
          /\ entry = [p \in Path |-> IF p \in Dir THEN number[p] ELSE NoInode]
    /\ inode = [i \in Inode |-> IF i < Cardinality(Dir) THEN [type |-> "DIR", size |-> 0]
                                ELSE FreeInode]
    /\ vnode = [v \in Vnode |-> IF v = g_root_vnode THEN [ref_count |-> 1, inode_num |-> 0]
                                ELSE FreeVnode]
    /\ file = [f \in OpenFile |-> FreeFile]
    /\ fd_table = [p \in Process |-> NoTable]

(***************************************************************************)
(* Processes come and go (proc/process.c).                                 *)
(***************************************************************************)
\* fd_table_create and fd_init_stdio.
process_create(p) ==
    /\ ~fd_table[p].alive
    /\ fd_table' = [fd_table EXCEPT
          ![p] = [entries |-> [fd \in Fd |-> IF fd < 3 THEN Console ELSE NoFile],
                  num_open |-> 3, alive |-> TRUE]]
    /\ UNCHANGED <<entry, inode, vnode, file>>

\* The open files that lose their last reference when the descriptors in S of
\* process p go, and how many of them are on vnode v.
Closed(p, S) ==
    {f \in OpenFile : /\ file[f].ref_count > 0
                      /\ file[f].ref_count <= Cardinality({fd \in S : fd_table[p].entries[fd] = f})}

\* file_unref for the descriptors in S of process p.
file_unref_KeepsVnode(p, S) ==
    /\ file' = [f \in OpenFile |->
                  IF f \in Closed(p, S) THEN FreeFile
                  ELSE [file[f] EXCEPT !.ref_count =
                          @ - Cardinality({fd \in S : fd_table[p].entries[fd] = f})]]
    /\ vnode' = vnode

file_unref(p, S) ==
    /\ file' = [f \in OpenFile |->
                  IF f \in Closed(p, S) THEN FreeFile
                  ELSE [file[f] EXCEPT !.ref_count =
                          @ - Cardinality({fd \in S : fd_table[p].entries[fd] = f})]]
    /\ vnode' = [v \in Vnode |->
                   vnode_unref(vnode, v, Cardinality({f \in Closed(p, S) : file[f].vnode = v}))[v]]

\* fd_table_destroy.
process_exit(p) ==
    /\ fd_table[p].alive
    /\ file_unref(p, Fd)
    /\ fd_table' = [fd_table EXCEPT ![p] = NoTable]
    /\ UNCHANGED <<entry, inode>>

(***************************************************************************)
(* Opening and closing.                                                    *)
(***************************************************************************)
O_ACCMODE == {"O_RDONLY", "O_WRONLY"}

\* The slots file_alloc may take.
FreeFiles_OrLastReference == {f \in OpenFile : file[f].ref_count <= 1}

FreeFiles == {f \in OpenFile : file[f].ref_count = 0}

FreeFds(p) == {fd \in Fd : fd_table[p].entries[fd] = NoFile}

\* The rest of vfs_open and of sys_open, once it holds a reference to vnode v in
\* the vnode table t; nodes are the inodes, with the new one if it was created.
OpenVnode(p, path, flags, t, v, nodes, created) ==
    LET i == t[v].inode_num
        refused == nodes[i].type = "DIR" /\ flags \cap O_ACCMODE # {"O_RDONLY"}
        trunc == "O_TRUNC" \in flags /\ nodes[i].type = "FILE" /\ ~created
        after == IF trunc /\ ~refused THEN [nodes EXCEPT ![i].size = 0] ELSE nodes
    IN  /\ inode' = after
        /\ \/ /\ refused \/ FreeFiles = {}
              /\ vnode' = vnode_unref(t, v, 1)
              /\ UNCHANGED <<file, fd_table>>
           \/ \E f \in Lowest(FreeFiles), fd \in Lowest(FreeFds(p)) :
              /\ ~refused
              /\ vnode' = t
              /\ file' = [file EXCEPT ![f] =
                    [ref_count |-> 1, flags |-> flags, vnode |-> v, path |-> path,
                     offset |-> IF "O_APPEND" \in flags THEN after[i].size ELSE 0]]
              /\ fd_table' = [fd_table EXCEPT ![p].entries[fd] = f]

\* vfs_lookup found the path.
OpenFound(p, path, flags) ==
    \E v \in Slot(vnode, entry[path]) :
        /\ OpenVnode(p, path, flags, vnode_get_or_create(vnode, entry[path], v), v, inode, FALSE)
        /\ UNCHANGED entry

\* It did not: the file is created in its parent directory, if there is room.
OpenNew(p, path, flags) ==
    LET d == entry[Parent[path]]
        FreeInodes == {i \in Inode : inode[i].type = "FREE"}
    IN  \E q \in Slot(vnode, d) :
           LET t == vnode_get_or_create(vnode, d, q)
           IN  \/ /\ vnode' = vnode_unref(t, q, 1)           \* no room
                  /\ UNCHANGED <<entry, inode, file, fd_table>>
               \/ \E i \in Lowest(FreeInodes) :
                  /\ entry' = [entry EXCEPT ![path] = i]
                  /\ \E v \in Slot(t, i) :
                        OpenVnode(p, path, flags, vnode_unref(vnode_get_or_create(t, i, v), q, 1), v,
                                  [inode EXCEPT ![i] = [type |-> "FILE", size |-> 0]], TRUE)

sys_open(p, path, flags) ==
    /\ fd_table[p].alive
    /\ FreeFds(p) # {}
    /\ \/ Exists(path) /\ OpenFound(p, path, flags)
       \/ ~Exists(path) /\ "O_CREAT" \in flags /\ OpenNew(p, path, flags)

sys_close(p, fd) ==
    /\ fd_table[p].entries[fd] \in OpenFile
    /\ fd >= 3
    /\ file_unref(p, {fd})
    /\ fd_table' = [fd_table EXCEPT ![p].entries[fd] = NoFile]
    /\ UNCHANGED <<entry, inode>>

(***************************************************************************)
(* Reading, writing, positions, status.                                    *)
(***************************************************************************)
FileOf(p, fd) == fd_table[p].entries[fd]
InodeOf(f) == vnode[file[f].vnode].inode_num

sys_read(p, fd, count) ==
    LET f == FileOf(p, fd)
        left == inode[InodeOf(f)].size - file[f].offset
    IN  /\ f \in OpenFile
        /\ file[f].flags \cap O_ACCMODE # {"O_WRONLY"}
        /\ inode[InodeOf(f)].type = "FILE"
        /\ file' = [file EXCEPT ![f].offset =
                      @ + IF left <= 0 THEN 0 ELSE IF count <= left THEN count ELSE left]
        /\ UNCHANGED <<entry, inode, vnode, fd_table>>

\* Some part of the data is stored.
sys_write(p, fd, count) ==
    LET f == FileOf(p, fd)
        i == InodeOf(f)
        at == IF "O_APPEND" \in file[f].flags THEN inode[i].size ELSE file[f].offset
    IN  /\ f \in OpenFile
        /\ file[f].flags \cap O_ACCMODE # {"O_RDONLY"}
        /\ inode[i].type = "FILE"
        /\ at <= MaxSize
        /\ \E k \in 0 .. count :
              /\ at + k <= MaxSize
              /\ inode' = [inode EXCEPT ![i].size = IF @ <= at + k THEN at + k ELSE @]
              /\ file' = [file EXCEPT ![f].offset = at + k]
        /\ UNCHANGED <<entry, vnode, fd_table>>

Position_Any(new) == TRUE

Position(new) == new >= 0

sys_lseek(p, fd, offset, whence) ==
    LET f == FileOf(p, fd)
        from == CASE whence = "SEEK_SET" -> 0
                  [] whence = "SEEK_CUR" -> file[f].offset
                  [] whence = "SEEK_END" -> inode[InodeOf(f)].size
    IN  /\ f \in OpenFile
        /\ Position(from + offset)
        /\ from + offset <= MaxOffset
        /\ file' = [file EXCEPT ![f].offset = from + offset]
        /\ UNCHANGED <<entry, inode, vnode, fd_table>>

\* Leaves no trace but on the root, whose references are never given back.
sys_stat(p, path) ==
    /\ fd_table[p].alive
    /\ Exists(path)
    /\ \E v \in Slot(vnode, entry[path]) :
          vnode' = vnode_unref(vnode_get_or_create(vnode, entry[path], v), v, 1)
    /\ UNCHANGED <<entry, inode, file, fd_table>>

\* What stat says of a file's mode: the type bit and the default permissions.
S_IFREG == 32768
S_IFDIR == 16384
st_mode(path) == IF inode[entry[path]].type = "DIR" THEN S_IFDIR + 7 ELSE S_IFREG + 6

\* The condition under which sys_chdir changes the directory.
chdir_accepts(path) == Exists(path) /\ st_mode(path) = S_IFDIR

\* Only the kernel's interface has it; no system call leads here.
vfs_unlink(path) ==
    LET d == entry[Parent[path]]
    IN  /\ Exists(path)
        /\ \E q \in Slot(vnode, d) :
              vnode' = vnode_unref(vnode_get_or_create(vnode, d, q), q, 1)
        /\ inode' = [inode EXCEPT ![entry[path]] = FreeInode]
        /\ entry' = [entry EXCEPT ![path] = NoInode]
        /\ UNCHANGED <<file, fd_table>>

RootFollowed == vnode[g_root_vnode].ref_count <= RootRefs

\* What process p may do.
Call(p) ==
    \/ process_create(p)
    \/ process_exit(p)
    \/ \E path \in Path, flags \in Flags : RootFollowed /\ sys_open(p, path, flags)
    \/ \E path \in Path : RootFollowed /\ sys_stat(p, path)
    \/ \E fd \in Fd : sys_close(p, fd)
    \/ \E fd \in Fd, count \in Counts : sys_read(p, fd, count)
    \/ \E fd \in Fd, count \in Counts : sys_write(p, fd, count)
    \/ \E fd \in Fd, offset \in Offsets, whence \in {"SEEK_SET", "SEEK_CUR", "SEEK_END"} :
          sys_lseek(p, fd, offset, whence)

VfsNext == \E p \in Process : Call(p)

VfsSpec == VfsInit /\ [][VfsNext]_vfsVars

\* With removal.
UnlinkSpec == VfsInit /\ [][VfsNext \/ \E path \in File : vfs_unlink(path)]_vfsVars

(***************************************************************************)
(* Properties.                                                             *)
(***************************************************************************)
\* The variables have the types of their declarations.
VfsTypeOK ==
    /\ entry \in [Path -> Inode \cup {NoInode}]
    /\ inode \in [Inode -> [type : {"FREE", "FILE", "DIR"}, size : 0 .. MaxSize]]
    /\ vnode \in [Vnode -> [ref_count : 0 .. RefLimit - 1, inode_num : Inode]]
    /\ file \in [OpenFile -> [ref_count : 0 .. RefLimit - 1, flags : Flags \cup {{}},
                              offset : Nat, vnode : Vnode, path : Path]]
    /\ fd_table \in [Process -> [entries : [Fd -> OpenFile \cup {Console, NoFile}],
                                 num_open : Nat, alive : BOOLEAN]]

\* A vnode other than the root's counts the open files on it, an open file the
\* descriptors that lead to it: through opens that fail at each of their steps,
\* closes and exits, file_unref and vnode_unref free neither too early nor never.
ReferencesCounted ==
    /\ \A v \in Vnode \ {g_root_vnode} :
          vnode[v].ref_count = Cardinality({f \in OpenFile : file[f].ref_count > 0 /\ file[f].vnode = v})
    /\ \A f \in OpenFile :
          file[f].ref_count =
             Cardinality({pfd \in Process \X Fd : fd_table[pfd[1]].entries[pfd[2]] = f})

\* No inode has two vnodes, and a vnode in use stands for an inode in use, so
\* MAX_VNODES = RAMFS_MAX_FILES slots are enough: vnode_get_or_create never fails.
VnodesSuffice ==
    /\ \A v, w \in Vnode : /\ vnode[v].ref_count > 0 /\ vnode[w].ref_count > 0
                           /\ vnode[v].inode_num = vnode[w].inode_num
                           => v = w
    /\ \A v \in Vnode : vnode[v].ref_count > 0 => inode[vnode[v].inode_num].type # "FREE"
    /\ \A i \in Inode : Slot(vnode, i) # {}

\* What a process sees of its open files.
View(p) ==
    [fd \in Fd |-> IF FileOf(p, fd) \in OpenFile
                   THEN <<file[FileOf(p, fd)].flags, file[FileOf(p, fd)].offset, InodeOf(FileOf(p, fd))>>
                   ELSE <<FileOf(p, fd)>>]

\* Every process but p sees its descriptors as before.
OthersKept(p) == \A q \in Process \ {p} : View(q)' = View(q)

\* No call of a process opens, closes, moves or redirects a descriptor of
\* another: the open_file_table and the vnode_table they share do not leak
\* through to them (file.c:248-326, vfs.c:157-184).  A step that changes what
\* some other process sees is not a call of p.
DescriptorsPrivate == [][\A p \in Process : OthersKept(p) \/ ~Call(p)]_vfsVars

\* "Count of open descriptors" (file.h).
NumOpenCounts ==
    \A p \in Process :
        fd_table[p].num_open = Cardinality({fd \in Fd : fd_table[p].entries[fd] # NoFile})

\* "Root is always referenced" (vfs.c).
RootReferenced == vnode[g_root_vnode].ref_count > 0

\* "Represents an open file or directory in the VFS layer" (vfs.h): the vnode of
\* an open file is not that of a file with another path.
VnodeIsOpenFile ==
    \A f \in OpenFile, path \in Path :
        file[f].ref_count > 0 /\ path # file[f].path => entry[path] # InodeOf(f)

\* "Verify path exists and is a directory" (sys_fs.c): that is all it takes.
ChdirAccepts == \A d \in Dir : chdir_accepts(d)
=============================================================================
