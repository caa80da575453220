-------------------------------- MODULE RamFs --------------------------------
(***************************************************************************)
(* The RAM file system (kernel/fs/ramfs.c): inodes, data blocks with their *)
(* bitmaps and counters, directories as blocks of entries, file contents   *)
(* behind direct block pointers; and the create, unlink and truncate that  *)
(* kernel/fs/vfs.c puts on top.                                            *)
(*                                                                         *)
(* Block 0 stands for "no block", as in the code.  A directory's size      *)
(* counts entries.  Time stamps, permissions and owners are left out.  A   *)
(* call that fails changes nothing and is not an action.                   *)
(***************************************************************************)
EXTENDS Integers, Sequences, FiniteSets, FiniteSetsExt

CONSTANTS
    RAMFS_MAX_FILES, RAMFS_MAX_BLOCKS, RAMFS_DATA_START_BLOCK,
    RAMFS_BLOCK_SIZE, RAMFS_DIRECT_BLOCKS, RAMFS_DIRENTS_PER_BLOCK,
    Name,             \* file names that fit into an entry
    Data              \* what callers write: sequences of bytes

Byte == 0 .. 2

ASSUME GeometryAssumption ==
    /\ {RAMFS_MAX_FILES, RAMFS_DATA_START_BLOCK, RAMFS_BLOCK_SIZE, RAMFS_DIRECT_BLOCKS,
        RAMFS_DIRENTS_PER_BLOCK} \subseteq Nat \ {0}
    /\ RAMFS_MAX_BLOCKS \in Nat /\ RAMFS_MAX_BLOCKS >= RAMFS_DATA_START_BLOCK
    /\ Data \subseteq Seq(Byte)

VARIABLES
    inode,                       \* the inode table
    inode_bitmap, free_inodes,   \* of the superblock
    block_bitmap, free_blocks,
    content,                     \* the bytes of the data blocks
    entries                      \* the same blocks seen as directory entries

vars == <<inode, inode_bitmap, free_inodes, block_bitmap, free_blocks, content, entries>>

RAMFS_ROOT_INODE == 0
Inode == 0 .. RAMFS_MAX_FILES - 1
Block == 0 .. RAMFS_MAX_BLOCKS - 1
DataBlock == RAMFS_DATA_START_BLOCK .. RAMFS_MAX_BLOCKS - 1
Direct == 0 .. RAMFS_DIRECT_BLOCKS - 1
Slot == 0 .. RAMFS_DIRENTS_PER_BLOCK - 1
NoName == "-"

MaxSize == RAMFS_DIRECT_BLOCKS * RAMFS_BLOCK_SIZE

FreeInode ==
    [type |-> "FREE", size |-> 0, link_count |-> 0, block_count |-> 0, parent |-> 0,
     blocks |-> [i \in Direct |-> 0]]

FreeEntry == [inode |-> 0, name |-> NoName]

ZeroBytes == [k \in 0 .. RAMFS_BLOCK_SIZE - 1 |-> 0]
NoEntries == [j \in Slot |-> FreeEntry]

ramfs_format ==
    /\ inode = [i \in Inode |->
                  IF i = RAMFS_ROOT_INODE
                  THEN [FreeInode EXCEPT !.type = "DIR", !.link_count = 2]
                  ELSE FreeInode]
    /\ inode_bitmap = {RAMFS_ROOT_INODE}
    /\ free_inodes = RAMFS_MAX_FILES - 1
    /\ block_bitmap = Block \ DataBlock
    /\ free_blocks = RAMFS_MAX_BLOCKS - RAMFS_DATA_START_BLOCK
    /\ content = [b \in DataBlock |-> ZeroBytes]
    /\ entries = [b \in DataBlock |-> NoEntries]

(***************************************************************************)
(* Blocks.                                                                 *)
(***************************************************************************)
FreeBlocks == DataBlock \ block_bitmap

\* The block the n-th call of ramfs_alloc_block in a row returns: each time the
\* lowest free one.
Allocated(n) == CHOOSE b \in FreeBlocks : Cardinality({c \in FreeBlocks : c <= b}) = n

\* How many such calls succeed.
Obtainable == Min({free_blocks, Cardinality(FreeBlocks)})

TakeBlocks(S) ==
    /\ block_bitmap' = block_bitmap \cup S
    /\ free_blocks' = free_blocks - Cardinality(S)

\* An allocated block is cleared first.
Cleared_Stale(b, S, old, zero) == old

Cleared(b, S, old, zero) == IF b \in S THEN zero ELSE old

\* ramfs_free_block for all of S.
GiveBlocks(S) ==
    LET freed == S \cap DataBlock \cap block_bitmap
    IN  /\ block_bitmap' = block_bitmap \ freed
        /\ free_blocks' = free_blocks + Cardinality(freed)

Blocks(i) == {inode[i].blocks[k] : k \in Direct} \ {0}

(***************************************************************************)
(* File contents.                                                          *)
(***************************************************************************)
\* The count bytes from offset on, fewer at the end of the file; a missing
\* block reads as zeros.
ramfs_read(i, count, offset) ==
    LET n == IF offset >= inode[i].size THEN 0 ELSE Min({count, inode[i].size - offset})
    IN  [k \in 1 .. n |->
            LET pos == offset + k - 1
                b == inode[i].blocks[pos \div RAMFS_BLOCK_SIZE]
            IN  IF b = 0 THEN 0 ELSE content[b][pos % RAMFS_BLOCK_SIZE]]

\* A write past the largest file is cut short.
Count_Unlimited(data, offset) == Len(data)

Count(data, offset) == Min({Len(data), MaxSize - offset})

\* Missing blocks are allocated one after the other; at the first that cannot
\* be had the write ends.  The size is set even if nothing was written.
ramfs_write(i, data, offset) ==
    LET count == Count(data, offset)
        touched == Direct \cap {(offset + m) \div RAMFS_BLOCK_SIZE : m \in 0 .. count - 1}
        missing == {k \in touched : inode[i].blocks[k] = 0}
        rank(k) == Cardinality({m \in missing : m <= k})
        reached == {k \in touched : rank(k) <= Obtainable}
        written == IF reached = touched THEN count
                   ELSE Max({0, Min(touched \ reached) * RAMFS_BLOCK_SIZE - offset})
        new == {Allocated(rank(k)) : k \in missing \cap reached}
        blocks == [k \in Direct |-> IF k \in missing \cap reached THEN Allocated(rank(k))
                                    ELSE inode[i].blocks[k]]
        Position(b, x) == (CHOOSE k \in reached : blocks[k] = b) * RAMFS_BLOCK_SIZE + x
    IN  /\ inode[i].type = "FILE"
        /\ offset <= MaxSize
        /\ TakeBlocks(new)
        /\ inode' = [inode EXCEPT ![i].blocks = blocks,
                                  ![i].block_count = @ + Cardinality(new),
                                  ![i].size = Max({@, offset + written})]
        /\ content' = [b \in DataBlock |->
                         [x \in DOMAIN ZeroBytes |->
                            IF b \in {blocks[k] : k \in reached}
                               /\ Position(b, x) \in offset .. offset + written - 1
                            THEN data[Position(b, x) - offset + 1]
                            ELSE Cleared(b, new, content[b], ZeroBytes)[x]]]
        /\ entries' = [b \in DataBlock |-> Cleared(b, new, entries[b], NoEntries)]
        /\ UNCHANGED <<inode_bitmap, free_inodes>>

ramfs_truncate(i, new_size) ==
    LET size == Min({new_size, MaxSize})
        gone == IF size >= inode[i].size THEN {}
                ELSE {k \in Direct : k * RAMFS_BLOCK_SIZE >= size /\ inode[i].blocks[k] # 0}
    IN  /\ inode[i].type = "FILE"
        /\ GiveBlocks({inode[i].blocks[k] : k \in gone})
        /\ inode' = [inode EXCEPT ![i].blocks = [k \in Direct |-> IF k \in gone THEN 0 ELSE @[k]],
                                  ![i].block_count = @ - Cardinality(gone),
                                  ![i].size = size]
        /\ UNCHANGED <<inode_bitmap, free_inodes, content, entries>>

(***************************************************************************)
(* Directories.                                                            *)
(***************************************************************************)
\* The places <<block index, slot>> of a directory that hold an entry.
Places(d) ==
    {kj \in Direct \X Slot : /\ inode[d].blocks[kj[1]] # 0
                             /\ entries[inode[d].blocks[kj[1]]][kj[2]].inode # 0}

Entry(d, kj) == entries[inode[d].blocks[kj[1]]][kj[2]]

\* The entry with that name, as a set with at most one member.
ramfs_dir_lookup(d, n) ==
    {Entry(d, kj).inode : kj \in {p \in Places(d) : Entry(d, p).name = n}}

\* The inodes a path leads to, and the directories among them.
Found ==
    {RAMFS_ROOT_INODE} \cup
    UNION {{Entry(d, kj).inode : kj \in Places(d)} : d \in {i \in Inode : inode[i].type = "DIR"}}
Directories == {d \in Found : inode[d].type = "DIR"}

\* An entry goes into the first block with room; a missing block is allocated.
Roomy(d) ==
    {k \in Direct : \/ inode[d].blocks[k] = 0
                    \/ \E j \in Slot : entries[inode[d].blocks[k]][j].inode = 0}

\* In this and the next operator, table is the inode table with what the caller
\* itself changes.
ramfs_dir_add_entry(d, n, i, table) ==
    LET k == Min(Roomy(d))
        grows == inode[d].blocks[k] = 0
        b == IF grows THEN Allocated(1) ELSE inode[d].blocks[k]
        taken == IF grows THEN {b} ELSE {}
        j == IF grows THEN 0 ELSE Min({x \in Slot : entries[b][x].inode = 0})
    IN  /\ ramfs_dir_lookup(d, n) = {}
        /\ Roomy(d) # {}
        /\ grows => Obtainable > 0
        /\ TakeBlocks(taken)
        /\ inode' = [table EXCEPT ![d].blocks[k] = b,
                                  ![d].block_count = @ + Cardinality(taken),
                                  ![d].size = @ + 1]
        /\ entries' = [c \in DataBlock |->
                         LET old == Cleared(c, taken, entries[c], NoEntries)
                         IN  IF c = b THEN [old EXCEPT ![j] = [inode |-> i, name |-> n]]
                             ELSE old]
        /\ content' = [c \in DataBlock |-> Cleared(c, taken, content[c], ZeroBytes)]

ramfs_dir_remove_entry(d, n, table) ==
    LET kj == CHOOSE p \in Places(d) : Entry(d, p).name = n
    IN  /\ entries' = [entries EXCEPT ![inode[d].blocks[kj[1]]][kj[2]] = FreeEntry]
        /\ inode' = [table EXCEPT ![d].size = @ - 1]

(***************************************************************************)
(* Inodes, and what the VFS does with them.                                *)
(***************************************************************************)
FreeInodes == Inode \ inode_bitmap

ramfs_alloc_inode(i) ==
    /\ free_inodes > 0
    /\ FreeInodes # {}
    /\ i = Min(FreeInodes)
    /\ inode_bitmap' = inode_bitmap \cup {i}
    /\ free_inodes' = free_inodes - 1

\* The caller puts FreeInode into the table.
ramfs_free_inode_FirstBlock(i) ==
    /\ GiveBlocks({inode[i].blocks[0]})
    /\ inode_bitmap' = inode_bitmap \ {i}
    /\ free_inodes' = free_inodes + 1

ramfs_free_inode(i) ==
    /\ GiveBlocks(Blocks(i))
    /\ inode_bitmap' = inode_bitmap \ {i}
    /\ free_inodes' = free_inodes + 1

\* A directory counts the ".." of each directory in it.
DotDots_Uncounted(type) == 0

DotDots(type) == IF type = "DIR" THEN 1 ELSE 0

ramfs_vfs_create(d, n, type) ==
    \E i \in FreeInodes :
        /\ ramfs_alloc_inode(i)
        /\ ramfs_dir_add_entry(d, n, i,
              [inode EXCEPT ![i] = [FreeInode EXCEPT !.type = type, !.parent = d,
                                                     !.link_count = 1 + DotDots(type)],
                            ![d].link_count = @ + DotDots(type)])

\* An inode that loses its last link is freed.
ramfs_vfs_unlink(d, n) ==
    \E i \in ramfs_dir_lookup(d, n) :
        LET unlinked == [inode EXCEPT ![d].link_count = @ - DotDots(inode[i].type),
                                      ![i].link_count = @ - 1]
            last == unlinked[i].link_count = 0
        IN  /\ inode[i].type = "DIR" => inode[i].size = 0
            /\ ramfs_dir_remove_entry(d, n, IF last THEN [unlinked EXCEPT ![i] = FreeInode]
                                            ELSE unlinked)
            /\ \/ last /\ ramfs_free_inode(i)
               \/ ~last /\ UNCHANGED <<block_bitmap, free_blocks, inode_bitmap, free_inodes>>
            /\ UNCHANGED content

Init == ramfs_format

\* Every operation starts from a path, so it reaches what Found holds.
Next ==
    \/ \E d \in Directories, n \in Name, type \in {"FILE", "DIR"} : ramfs_vfs_create(d, n, type)
    \/ \E d \in Directories, n \in Name : ramfs_vfs_unlink(d, n)
    \/ \E i \in Found, data \in Data, offset \in 0 .. MaxSize : ramfs_write(i, data, offset)
    \/ \E i \in Found : ramfs_truncate(i, 0)

Spec == Init /\ [][Next]_vars

(***************************************************************************)
(* Properties.                                                             *)
(***************************************************************************)
\* The variables have the values their declarations in ramfs.h allow; no file
\* is larger than its direct blocks can hold.
TypeOK ==
    /\ inode \in [Inode -> [type : {"FREE", "FILE", "DIR"}, size : 0 .. Max({MaxSize,
                            RAMFS_DIRECT_BLOCKS * RAMFS_DIRENTS_PER_BLOCK}),
                            link_count : Nat, block_count : 0 .. RAMFS_DIRECT_BLOCKS,
                            parent : Inode, blocks : [Direct -> {0} \cup DataBlock]]]
    /\ inode_bitmap \subseteq Inode /\ free_inodes \in 0 .. RAMFS_MAX_FILES
    /\ block_bitmap \subseteq Block /\ free_blocks \in 0 .. RAMFS_MAX_BLOCKS
    /\ content \in [DataBlock -> [0 .. RAMFS_BLOCK_SIZE - 1 -> Byte]]
    /\ entries \in [DataBlock -> [Slot -> [inode : Inode, name : Name \cup {NoName}]]]
    /\ \A i \in Inode : inode[i].type = "FILE" => inode[i].size <= MaxSize

\* Every data block marked in the bitmap belongs to one place of one inode, every
\* block of an inode is marked, and free_blocks counts the others: whatever
\* sequence of writes, truncations and removals ramfs_alloc_block and
\* ramfs_free_block serve, no block is shared and none is lost.
BlocksAccounted ==
    /\ block_bitmap \cap DataBlock = UNION {Blocks(i) : i \in Inode}
    /\ \A i, j \in Inode : i # j => Blocks(i) \cap Blocks(j) = {}
    /\ \A i \in Inode : inode[i].block_count = Cardinality(Blocks(i))
                        /\ inode[i].block_count = Cardinality({k \in Direct : inode[i].blocks[k] # 0})
    /\ free_blocks = Cardinality(FreeBlocks)

\* The tree is consistent: directory sizes and link counts agree with the
\* entries, an entry leads to an inode in use whose parent is that directory, no
\* inode has two entries, no directory two entries of one name; free_inodes
\* counts what the bitmap leaves, and exactly the unmarked inodes are FREE.
TreeConsistent ==
    /\ free_inodes = Cardinality(FreeInodes)
    /\ \A i \in Inode : inode[i].type = "FREE" <=> i \notin inode_bitmap
    /\ \A d \in Directories :
          /\ inode[d].size = Cardinality(Places(d))
          /\ inode[d].link_count =
                2 + Cardinality({p \in Places(d) : inode[Entry(d, p).inode].type = "DIR"})
          /\ \A p \in Places(d) :
                /\ Entry(d, p).inode \in inode_bitmap \ {RAMFS_ROOT_INODE}
                /\ inode[Entry(d, p).inode].parent = d
                /\ \A q \in Places(d) :
                      p # q => /\ Entry(d, p).inode # Entry(d, q).inode
                               /\ Entry(d, p).name # Entry(d, q).name

\* The name, in each directory, of every inode that has one.
Tree ==
    LET Named == UNION {{<<d, kj>> : kj \in Places(d)} : d \in Directories}
        Path(p) == <<p[1], Entry(p[1], p[2]).name>>
    IN  [dn \in {Path(p) : p \in Named} |->
            LET p == CHOOSE p \in Named : Path(p) = dn IN Entry(p[1], p[2]).inode]

FS == INSTANCE FileStore
        WITH Object <- Inode, Root <- RAMFS_ROOT_INODE, Extent <- 0 .. MaxSize,
             tree <- Tree,
             bytes <- [f \in {i \in Found : inode[i].type = "FILE"} |-> ramfs_read(f, MaxSize, 0)]

\* What ramfs_read returns and what ramfs_dir_lookup finds are those of a plain
\* map from names to byte sequences: the blocks, their sharing out, reuse and
\* clearing, sparse files, and writes that run out of blocks half way never show
\* a byte that was not written to that file.
ImplementsFileStore == FS!Spec

\* "Free inode if no more links" (vfs.c): what has no entry left is freed.
Reachable == inode_bitmap = Found
=============================================================================
