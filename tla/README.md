# Chanux in TLA+

Chanux is an educational operating system for x86_64: a boot loader, a kernel
with preemptive processes, memory management, a RAM file system behind a VFS,
a keyboard and a text console, and user programs in ring 3. This directory
holds TLA+ modules that model its state machines, TLC configurations that check
them on small instances, and TLAPS proofs for every size of the core parts.

Contents: [the system](#the-system) · [modules](#modules-and-code) ·
[runs](#runs) · [further configurations](#further-configurations) ·
[fairness](#fairness) · [proofs](#proofs) · [not modelled](#not-modelled) ·
[plan](#plan) · [how to run](#how-to-run)

## The system

One CPU, one kernel. Concurrency comes from two sources only: interrupts (the
timer IRQ0 at 100 Hz and the keyboard IRQ1) and the switches between processes
that the timer or a call of the running process causes. Interrupt gates clear
IF, and the scheduler's functions bracket themselves with cli and sti; system
calls otherwise run with interrupts on.

| part | state | operations | what is hard about it |
|---|---|---|---|
| processes, scheduler (`kernel/proc`) | `process_table`, `current_process`, run queue, `need_reschedule` | create, yield, block, unblock, sleep, exit, `schedule`, `sched_tick` | preemption between any two steps; the switch happens inside the interrupt handler, before its End Of Interrupt |
| timer, PIC (`drivers/pit`, `drivers/pic`, `interrupts/irq.c`) | `tick_count`, in-service bit | IRQ0, EOI | who sends the EOI after a switch |
| physical memory (`mm/pmm.c`) | bitmap, counters, search hint | init from the E820 map, allocate one or several pages, free, reserve | stale hint, partial pages, double free |
| kernel heap (`mm/heap.c`) | block headers in memory, `heap_break` | kmalloc, kmalloc_aligned, kfree, krealloc, expand | unsigned sizes, merging, aligned pointers inside blocks |
| virtual memory (`mm/vmm.c`, `user/user_process.c`, `boot/stage2/loader.asm`) | page tables | kernel mapping, huge page splitting, address spaces, user mapping, destruction | tables shared between address spaces and with the kernel; memory runs out half-way |
| keyboard (`drivers/keyboard`) | ring buffer, modifier flags | IRQ1, polling read | handler against reader without a lock; full ring |
| RAM file system (`fs/ramfs.c`) | inodes, bitmaps, blocks | create, unlink, read, write, truncate, lookup | reuse of blocks, sparse files, half-done writes |
| VFS, open files (`fs/vfs.c`, `fs/file.c`, `syscall/sys_fs.c`) | vnode table, open file table, descriptor tables | open, close, read, write, lseek, stat, unlink | three tables with reference counts, failures between two of them |
| paths (`fs/path.c`) | a work buffer | normalize, dirname, basename, join | `..` at the root, repeated slashes, length limit |
| context switch, interrupt stubs, system call entry (`arch/x86_64`) | registers, kernel stacks, RSP0, CR3, one scratch word | switch, interrupt, IRETQ, SYSCALL, dispatch, SYSRET | a process leaves the CPU in one of three ways and is resumed by one that left in another |
| console (`drivers/vga`) | cursor, cells | `vga_putchar`, scroll | several writers, no lock |
| shell (`user/shell`) | line buffer, position | read a line, parse, execute | what is on the screen against what is in the buffer; limits of line and argv |
| string library, GDT, exception handlers | constant tables | | see [not modelled](#not-modelled) |

How they interact: the timer calls the scheduler; `process_create` takes kernel
stacks from the heap; the heap takes pages from the PMM and maps them with the
VMM; `user_process_create` makes an address space with the VMM and the PMM, then
a process; `process_exit` closes descriptors in the VFS; system calls use paths,
the VFS, the keyboard and the scheduler.

## Modules and code

`PROJECT.json` maps each definition to the lines it stands for. An operator
`X_Y` stands beside `X` with a plausible mistake `Y` in it; no specification
uses it. It documents which property would notice that mistake.

**Scheduler** (`proc/process.c`, `proc/sched.c`, `arch/x86_64/context.asm`,
`interrupts/irq.c`, `drivers/pit`, `syscall/sys_process.c`). One record field of
the process table is one function over slots. Sections with interrupts off are
one action; `sys_sleep`, `sched_start` and `user_process_create`, which run with
interrupts on, are cut into their steps (`sys_sleep` / `SleepBlock` /
`SleepReturn`, `sched_start` / `context_switch_first`, `UserProcessCreate` /
`UserProcessFields`), and `TimerIRQ` may come between. `TimerIRQ` is the
whole path: wake-ups in table order, accounting, the decision, the switch, and
the EOI if the process that resumes continues inside `irq_handler`. That depends
on where it was switched out, the variable `frame`. Absolute ticks are abstracted
to the distance to the wake tick (`wake_in`). `ms + 9` wraps at `UINT64_WRAP`.

**RunQueue** (`sched.c:37-137`): the doubly linked list with head, tail, next and
prev. **Fifo** is what the header comment of `sched.c` promises. The history
variable `call` says which function was called last and for which process; `Fifo`
has it too, so that the refinement matches each call with the abstract operation of
its own name: a pick is the removal of the oldest, not just of some member.
`Scheduler` uses the queue as a sequence; `RunQueue` and its refinement justify it.

**Pmm** (`mm/pmm.c`): the bitmap is the set of taken pages; page 0 doubles as the
code's "no page". Initialisation folds the memory map with the code's rounding
and clipping. Callers free what they own, or free it again.

**Heap** (`mm/heap.c`): `mem` maps addresses to headers, so that a header written
in the wrong place overwrites another. Sizes wrap at `SIZE_WRAP`. `heap_expand`
maps page by page and may run out half-way: `pages` is how many there are left,
`mapped` where the mapped pages end, also after a failure. When `block_split` wraps
around, the step is taken with all it writes, and `damage` is the address of the
header it wrote by mistake. The properties hold in that state too, of the blocks in
front of that address (`Front`). The model stops there, inside `krealloc` before its copy and its
`kfree`: what the code does next depends on the bytes that were overwritten.

**Vmm** (`mm/vmm.c`, `heap.c` expansion, `user/user_process.c`, the tables of
`loader.asm`): four levels of tables with `N` entries; the boot tables share one
PDPT between PML4[0] and PML4[last] and one page directory between two entries
of it, as in the code. `vmm_map_page` splits huge pages, `vmm_map_user_page` copies
shared tables before it writes. Flags, the TLB and page contents are left out.

**Keyboard** (`drivers/keyboard/keyboard.c`, `syscall/sys_io.c:sys_read`): the
reader's steps are cut between its accesses to `buffer_head`, `key_buffer` and
`buffer_tail`. **BoundedFifo** is the promise.

**RamFs** (`fs/ramfs.c` and the callbacks in `fs/vfs.c`): inodes with direct
blocks, directories as blocks of entries, bytes in blocks. **FileStore** is the
promise: a map from names to byte sequences.

**Vfs** (`fs/vfs.c`, `fs/file.c`, `syscall/sys_fs.c`, `syscall/sys_io.c`): vnodes,
open files, descriptors and their counters, over an abstract RAM file system.
`vfs_unlink` has no caller in the shipped image, so `VfsSpec` leaves it out and
`UnlinkSpec` adds it. The first free slot of a table is `Lowest`, a set with at most
one member, so that "none" needs no value of its own.

**Path** (`fs/path.c`): `path_normalize` one loop iteration at a time, run twice as
the system call and the VFS do.

**Context** (`arch/x86_64/context.asm`, `syscall.asm`, `idt.asm`,
`user_entry.asm`, `syscall/syscall.c`): the CPU is a record of
instruction and stack pointer, interrupt flag and general registers; a kernel
stack is memory for `Room` frames, each with the registers the code pushes there. One action is the instructions
between two points at which an interrupt can strike or a register is read by
somebody else: `Syscall`, `PushFrame`, `Shuffle`, `Dispatch`, `SysRet`,
`Interrupt`, `InterruptReturn`, `context_switch`, `context_switch_first`,
`user_mode_enter`. A register holds a token that says who put it there
(the program's own code, an argument, a result, a C function), which is all that
tells a restored register from a clobbered or somebody else's one. `Scheduler` has
the decision who runs next, `Context` what the switch does to the machine, so
here any process that can run may be next.

**Console** (`drivers/vga/vga.c`, `kprintf`): `vga_putchar` cut where the compiled
code loads or stores `cursor_x`, `cursor_y` or a cell, by any number of writers
that preempt each other. `paper` is the reference: an endless sheet on which
the same characters are typed, of which the screen shows the last rows; `torn`
records that two calls have overlapped since the screen was last clean.

**Shell** (`user/shell/shell.c`, `user/lib/libc.c`, `sys_write`) extends `Console`: one
writer of it runs the shell. `readline` takes one key at a time with its echo,
`parse_line` and each command follow the code's branches; the wording of messages
is one constant, and a file is a number of blocks that `cat` copies to the screen.

**MC...** modules give the constants of an instance that a configuration cannot
write down, and, in `MCRunQueue`, the refinement mapping. Modules whose proofs share
a module qualify their names: `QueueSpec`, `KeyboardSpec`, `VfsSpec`, `PmmSpec`
are the specifications of `RunQueue`, `Keyboard`, `Vfs` and `Pmm`.

## Runs

Each passing run has, for every property, a mutation of the model that violates
it (`mutants` in `PROJECT.json`).

| run | instance | what it checks |
|---|---|---|
| `scheduler` | idle and 3 processes, quantum 2, sleeps of 0 ms (a yield), of 1 tick and (by wrap-around) of 0 ticks | one RUNNING process; the queue is exactly the READY ones, each once; stack and address space of the current process; a wake tick if and only if asleep; a pending EOI lies on some preempted stack; TERMINATED is for ever; under fairness, READY processes run and sleeps end |
| `run_queue` | 5 processes | pointers spell out the arrival order in both directions; the list implements `Fifo`, each call as the operation of its name |
| `context` | 2 user processes, a kernel thread, idle; one call and one computing step each | interrupts and switches change no register, flag or stack of the program they interrupt; a system call returns to its caller, on its stack, with its own result; at most four frames on a kernel stack; a user process runs in its own address space |
| `pmm` | 8 pages of 4 bytes, 3 memory maps, requests up to 3 | no page twice; every page free, reserved or allocated and counted so; one-page allocation fails only when nothing is free |
| `heap` | 32 bytes growing to 48 in pages of 8, header 4, three sizes, two alignments, 0, 1 or 3 pages to be had | blocks lie on mapped pages, tile the heap, free neighbours are merged, owners' bytes are inside their blocks; in the state after a wrap-around, in front of the damage |
| `keyboard` | ring of 3, 3 accepted characters, reads of 0, 1 and 2 | the ring implements `BoundedFifo`; a poller reads everything |
| `ramfs` | 3 inodes, 3 data blocks, files of 2 blocks | blocks and inodes accounted; the tree consistent; implements `FileStore` |
| `vfs` | 2 processes, 2 descriptors each, 2 open files, 4 vnodes | reference counts exact at both levels; vnodes never run out; whatever a process calls, the descriptors of the others lead to the same flags, position and inode |
| `path` | all paths of up to 6 tokens from 3 directories, limit 8 | each loop iteration keeps the meaning; refusal only for length; the second pass changes nothing |
| `vmm` | tables of 8, 2 processes of 2+2 pages, 9 heap pages | the kernel is mapped alike in all spaces; process pages stay; each frame has one use; kernel mappings change only for new heap pages |
| `terminal` | screen of 5 by 2, shell and 2 printing threads; 5 keys alone, 2 keys and a thread, or 3 printed characters by threads; lines of 6, 3 arguments | the cursor is on the screen whenever no `vga_putchar` is in progress; the screen shows the last rows of the paper if no two calls overlapped; the line on the screen is the line in the buffer while nobody else prints, also where it wraps or scrolls, except after a character was erased with the cursor in column 0; the words parsed are those of the line |

One run ends in a counterexample to a sentence of the sources:

* `vmm_destroy`. A process given up for want of memory frees tables that entries
  0-255 share with the kernel. `vmm.c:435`: "Only free user-space page tables".

**Why the bounds are enough.** They are chosen so that each limit in the code is
met. Scheduler: with three processes one can run, one wait and one sleep or
terminate, and the table fills up; a quantum of 2 distinguishes a tick that
expires from one that does not. RunQueue: 5 members give a head, a tail and inner
members with inner neighbours. Pmm: the maps have a hole, unaligned edges, an
entry without a whole page and memory past the bitmap. Heap: growth to the
maximum, exact fits, near fits, and aligned pointers occur. Keyboard: the ring is
full, and head and tail come round. RamFs: inodes and blocks run out, also in
the middle of a write. Vfs: every table runs full. Path: the buffer overflows and `..`
passes the root. Vmm: the heap grows past the huge page it split first. Context:
each way of leaving the CPU (interrupted in the program, interrupted in a system
call, yielding in one, a thread's own call) meets each way of having left it, and
the kernel thread runs between two user processes. Terminal: lines wrap and
scroll, the line buffer fills up, argv is cut, and three writers overlap in every
step of a character; larger budgets for all writers at once are out of TLC's
reach, and `CursorReturns` is proved for all of them.

Deadlock is checked except where a system may stop: `Scheduler` (all processes
gone or the timer blocked), `Heap`, `RamFs`, `Path`, `Vmm` and `Shell` (nothing left that
can succeed, or the budget used up; a call that fails and changes nothing is not a step).

## Further configurations

These `.cfg` files are kept beside the runs. Each ends in a counterexample to a
sentence of the code.

| configuration | sentence | what TLC shows |
|---|---|---|
| `SchedulerIdleCanBeInterrupted` | `process.c:121` "Just halts the CPU until the next interrupt." | the timer interrupt starts idle for the first time; its first context does not return through `irq_handler`, so it executes `hlt` with IRQ0 in service, and neither timer nor keyboard is delivered |
| `HeapHeadersApart` | `heap.c:52` "Split a block if it's large enough" | `block->size - size - HEAP_HEADER_SIZE` is unsigned; for a block that exceeds the request by less than a header it wraps, and a header is written over the next block |
| `HeapNoPageLeftBehind` | `heap.c:302` "Map new pages" | an expansion that runs out half-way keeps what it mapped; the next one maps other pages in its place |
| `SchedulerPreemptive` | `sched.c:20` "sched_tick() decrements time slice and reschedules if expired" | after a switch from the timer to a process that never ran, no EOI is sent; that process is not preempted |
| `SchedulerSleepEnds` | `sys_process.c:71` "will be unblocked when the sleep time expires" | two processes that yield to each other keep the one that owes the EOI off the CPU; no ticks, no wake-up |
| `SchedulerFullTimeSlice` | `sched.c:8` "Each process gets a fixed time slice" | `need_reschedule` set by a yield survives the switch and preempts the next process at its first tick |
| `SchedulerTerminatedSlotReused` | `process.c:320` "The stack will be freed when this process slot is reused" | no TERMINATED slot is ever reused |
| `MCRunQueueRemove` | `sched.h:100` "Used when a process blocks or terminates." | removing the running process, which is in no queue, empties the queue |
| `MCRamFsReachable` | `vfs.c:703` "Free inode if no more links" | a removed directory keeps a link count of 1 and its inode |
| `MCVfsNumOpen` | `file.h:65` "Count of open descriptors" | `sys_open` and `sys_close` do not count |
| `MCVfsRoot` | `vfs.c:82` "Root is always referenced" | the root's counter grows with each lookup, is never lowered, and wraps |
| `MCVfsUnlink` | `vfs.h:44` "Represents an open file or directory" | an unlinked open file's vnode passes to the next file created |
| `MCVfsChdir` | `sys_fs.c:410` "Verify path exists and is a directory" | `st_mode` carries permissions, so comparing it with `S_IFDIR` rejects every directory |
| `MCVmmLost` | `vmm.h:191` "caller must do that" | `user_process_create` gives up without freeing mapped pages |
| `MCVmmDirect` | `kernel.h:51` "Convert between physical and virtual addresses" | the heap's addresses replace part of the direct map |

Some definitions have no configuration of their own; naming one in the
configuration of its module shows the same kind of thing.

| definition | sentence | what TLC shows |
|---|---|---|
| `IdleOnlyWhenNoneReady` (`Scheduler`) | `process.c:120` "Runs when no other process is ready." | a woken sleeper waits for idle's slice to end |
| `AllocPagesFinds` (`Pmm`) | `pmm.c:235` "Cannot allocate %d contiguous pages!" | a free run across the hint is missed |
| `ShiftMeansHeld` (`Keyboard`) | `keyboard.h:101` "Check if Shift key is currently pressed." | two Shift keys, one flag |
| `EditingShown` (`Shell`) | `shell.c:115` "Supports backspace for editing." | at column 0 a backspace does not go back to the row above: the character leaves the buffer and stays on the screen |
| `OthersPreserved` (`Context`) | `user/lib/syscall.asm:20` "All other registers are preserved by the kernel." | the registers C may clobber come back as the handler left them; `syscall_raw` relies only on the others |

Others hold and are left out of the runs because a deeper property or a theorem
covers them: the invariants `IInv` of `Scheduler`, `Context` and `Heap`, the `TypeOK`s,
`FreeCountExact`, `InOrder`, `ArgumentsArrive`, `DescriptorsClosed` (all proved),
`ClearBlanks` (`clear` leaves a blank screen), `SplitAgrees` (parent and name give
the path back).

## Fairness

* `TimerSpec`: weak fairness of `TimerIRQ`, because the PIT runs free and the PIC
  delivers IRQ0 whenever it is not in service, and of `context_switch_first`,
  straight-line code of `sched_start`. Nothing is assumed of processes.
* `FairSpec` adds weak fairness of `Leave`: a process does not compute for ever
  between its calls. The shell yields between polls and the demo processes return.
  It is needed: with an EOI pending only a voluntary switch can help.
* `Keyboard!Polling`: the shell calls `read` again and again with room for a
  character and each call ends.

`ReadyRuns` and `SleepEndsIfIdling` are conditional on what the counterexamples
above show to be necessary: idle has been preempted once, and, for sleeps, the
CPU keeps going idle.

## Proofs

All theorems hold for every value of the constants that satisfies the named
assumptions in the modules; TLC evaluates those on each instance. Where a component
has two proof modules the second extends the first, and each is checked on its own.

| component | modules | theorems |
|---|---|---|
| scheduler | `SchedulerProofs` | `InvariantHolds`, `SchedulerSafe`, `QueueExact`, `ContextOwned`, `EOISafe`, `WakeTickSafe`, `TerminatedStays` |
| context switch, system calls | `ContextSteps`, `ContextProofs` | `ContextInvariant`, `TransparentAlways`, `SyscallReturnsAlways`, `ArgumentsArriveAlways`, `StackBoundedAlways`, `OwnAddressSpaceAlways` |
| heap | `HeapSteps`, `HeapProofs` | `HeapInvariant`, `HeapTiled`, `HeapCoalesced`, `HeapOwnersFit`, `HeapBacked` |
| VFS, open files | `VfsSteps`, `CountProofs` | `VfsInvariant`, `ReferencesExact`, `VnodesAlwaysSuffice`, `DescriptorsStayPrivate`, `VfsTyped` |
| physical memory | `CountProofs` | `PmmSafe`, `PagesExclusive`, `PagesAccounted`, `AllocPageComplete` |
| run queue, keyboard, console and shell | `ComponentProofs` | `RunQueueLinked`; `RingIsBoundedFifo`, `CharactersInOrder`; `CursorReturns`, `DescriptorsReturned`, `ReadlineFits` |

**Scheduler.** `InvariantHolds` proves `Spec => []IInv`. The properties of
the run are not inductive on their own: that exactly one process is RUNNING needs
the queue to hold READY processes only, once each (else `schedule` would pick the
current one again); the wake tick needs the steps of `sys_sleep` (`SleepSteps`);
the pending EOI needs to know that idle never leaves through a call (`IdleSteps`)
and that nothing is in service before the start (`BeforeStart`). `ScheduleStep` is
the core: one lemma on `schedule` for any states, slices and queue its callers may
leave; the lemmas for timer, yield, block, exit and sleep apply it. `PickStep` and
the `...Queued` lemmas are about sequences without repetition. From `IInv` follow
`SchedulerSafe` (`OneRunning`, the queue, the context), `EOISafe`, `WakeTickSafe`
and the action property `TerminatedStays`. Assumptions: a table and a quantum of
at least 1, sleep arguments in the range of the word.

**Context.** `ContextInvariant` proves `Spec => []IInv` for any numbers of user
processes and kernel threads. That a program finds its registers again is not
inductive: one must know, for the running process, at which point of which path it
is and that the frames below are those of the paths it came through (`OwnOK`), and
for each waiting process that its saved stack pointer leads to a frame that leads
back to its own code (`Suspended`). There is one lemma per action. From it follow
`TransparentAlways`, `SyscallReturnsAlways`, `ArgumentsArriveAlways`,
`StackBoundedAlways` and `OwnAddressSpaceAlways`. Assumption: stacks have room for
four frames.

**Heap.** `HeapInvariant` proves `Spec => []IInv` for every size of the heap, of its
headers and of pages, every set of request sizes and alignments, and any physical
memory that runs out. The run's properties say that the list tiles the heap, that free
neighbours are merged and that owners' bytes are in their blocks. They are not
inductive: a split or a merge writes headers at computed addresses, and one must know
that no other header is there. `Chain` says so: headers lie apart, next and prev are
the neighbours in address order, the last block ends at `heap_break`. To it belong
`Merged` (no two free neighbours) and `Owned` (the blocks in use are those given out,
with the owners' bytes inside) and `Limits` (the break is on mapped pages, below the
maximum); together they are `Healthy`. A split that wraps around ends that, and the
invariant `Inv` then says what is left: `Limits`, the list (`ListTo`) and the owners
(`OwnedTo`) in front of `damage`. `CutOff` and the lemmas after it show this of the two
splits that can wrap: the hand-out in `kmalloc`, directly, after an expansion or
called from `krealloc`, and the growth in place in `krealloc`. The theorems hold in every reachable state, the damaged ones
included; they say nothing of calls made on a damaged heap, which are not modelled. `HeapSteps` has the
surgery on the list: splitting, merging with either neighbour, appending an
expansion, each as a lemma on a header table `m` and a break; `HeapProofs` the
search, `KMalloc` with its retry after `heap_expand`, and one lemma per call. The
search follows `next` with a recursive function. That it finds a block that fits, if it
finds any, is proved by the least address at which it would not (`Least`, from the
well-foundedness of `<` on the naturals). Assumptions: `HeapAssumption` (the
geometry: header, minimum block and pages are multiples of the alignment, and the
maximum fits the word) and `RequestAssumption` (rounding up a request does not wrap
the word; the wrap inside `block_split` is modelled, not assumed away).

**Vfs.** `VfsInvariant` proves that the three tables count each other, for any number
of processes, descriptors, open files, vnodes and inodes. `VfsIInv` adds to the run's
properties what makes them inductive: an open file has exactly one descriptor, of a
live process (`OneDescriptor`), so closing it frees it and nobody else's; a
vnode in use stands for one inode in use and the root's is in its place
(`VnodeTable`); paths lead to inodes in use (`Entries`), so that a new vnode is not for
a free inode. A call of `vnode_get_or_create` makes a table that has `Gained` a
reference, `vnode_unref` one that has `Lost` one; `vfs_open` is their composition on
each of its paths, and a lemma says of each that either nothing is left counted
(`Visited`, `OpenFails`) or one reference is `Holding`, which the open file then takes over
(`OpenSucceeds`). The step lemmas rest on a few facts on sizes, stated as `FilesCount` and
taken as their hypothesis; `FilesCounted` in `CountProofs` proves it from the theorems on
finite sets. `VnodesAlwaysSuffice` needs a counting argument: a full vnode table maps
vnodes to inodes one to one, so it has one for every inode. From the same lemmas follows
the action property `DescriptorsStayPrivate`: a call of one process changes, for no
other process, what its descriptors lead to, because open files have one descriptor
each and a vnode is not given up while an open file counts on it. `CountersSuffice`, a hypothesis of
the theorems, says that the references followed do not make a counter wrap; it
cannot be dropped, since `MCVfsRoot` shows what happens when the root's does.
Assumptions: as many vnodes as inodes, and a finite set of directories, which fits the inodes.

**Physical memory.** `PmmSafe`: `PmmTypeOK`, `FreeCountExact`, `Exclusive` and `Accounted`
for any number of pages, any memory map whose entries do not overlap, and any
system pages that include page 0. `AllocPageComplete`: a one-page allocation fails
only when no page is free, wherever the hint is. Cardinality facts are in
`PageSet`, `PageSum`, `PageDifference` and `SpanSize`; each operation is reduced
to taking or returning a set of pages (`TakeIInv`, `FreeIInv`, `ReserveIInv`,
`UnreserveIInv`). `PagesExclusive` and `PagesAccounted` restate the two that the
run checks.

**Run queue.** `RunQueueLinked`: for any set of processes the pointers spell
out the arrival order. `AddIInv`, `PickIInv` and `RemoveIInv` treat one operation
each; `UnlinkIInv` is the removal at any position.

**Keyboard.** `RingIsBoundedFifo`: for every buffer size, `Keyboard` implements
`BoundedFifo`, and `CharactersInOrder`: what was accepted is what was delivered
followed by what is unread. The argument is about one sequence, the slots from tail
to head (`Ring`): `RingPut` says that storing at the head of a ring that is not full
appends to it, `RingGet` that moving the tail drops its first element; `QueueStep`
that each step accepts, delivers or leaves it alone. The invariant `RingInv` adds
that the slot a reader is about to release is in use, which holds because only the
reader moves the tail.

**Console and shell.** `CursorReturns`: for any screen, any number of writers and any
interleaving, the cursor is on the screen when no `vga_putchar` is in progress. While
calls overlap the cursor can leave the screen by any distance, so the invariant
(`CursorInv`) cannot bound it. It says instead that whoever left it outside has yet
to look: a column past the edge is in the hands of a call that will wrap it
(`Wrapping`), a row past the bottom of one that will scroll (`Scrolling`), and
registers hold what those calls loaded (`Registers`). `DescriptorsReturned` (no
command keeps a descriptor) and `ReadlineFits` (the line and its terminating zero fit
the buffer) need no strengthening beyond the shell's position in its code.

**Only model-checked**:

* liveness (`ReadyRuns`, `SleepEndsIfIdling`, a poller reads everything): fairness and
  ENABLED are out of the prover's reach;
* `ImplementsFifo`: its mapping collects the queue along the pointers with a recursive
  function. An induction by the least counterexample, as for the heap's search, would
  need the length of each walk in the invariant;
* `ImplementsFileStore`: its mapping reads directories and blocks, so it needs the
  invariant of `RamFs`, which is not proved;
* `ShowsPaper`, `LineShown`, `ArgumentsParsed`: folds over what was printed or typed.
  The library's induction principles take an operator as a parameter, which the
  provers cannot instantiate;
* `Path`: what a path means is a fold over its tokens, likewise;
* `RamFs` (`BlocksAccounted`, `TreeConsistent`): a write takes several blocks at once, by
  their rank among the free ones, and sizes and link counts are cardinalities. The proof
  needs many facts on counting and has not been carried out;
* `Vmm` (`KernelMappedAlike`, `PagesMapped`, `OneUse`, `KernelMappingsStay`): the
  invariant must describe four levels of tables of which some are shared on purpose;
  it has not been found in a form the provers handle.

## Not modelled

* Boot sector and mode switches: a straight line of BIOS calls and port writes.
  Only the page tables they leave are modelled, as the initial state of `Vmm`.
* GDT, IDT: written once at boot. The one field that changes, TSS.RSP0, is a
  variable of `Scheduler` and `Context`. Exception handlers print and halt.
* PIT and PIC programming: port writes at boot; the in-service bit and the tick are
  in `Scheduler`.
* The conversions of `kprintf`, colours, the hardware cursor and the serial mirror.
  `vga_clear` and `vga_set_cursor` are not called after boot.
* String library and the number formatters of the user library: stateless loops over
  bytes, on data the models abstract.
* `init` program: built, not started by `kernel_main`.
* Operations nobody calls: `vmm_unmap_page`, `vmm_map_range`,
  `vmm_clone_kernel_mappings`, `fd_table_clone`, `vfs_create`, `keyboard_getchar`.
  `vfs_mkdir` runs only in `fs_init`.
* The TLB, permissions and time stamps. `validate_user_ptr`: the programs of the
  image pass pointers to their own buffers.
* In `Vfs` a call is one step: the shell is the only process of the shipped system
  that makes file calls.

## Plan

Done: the modules, runs and proofs above, in the order scheduler, run queue, PMM,
heap, keyboard, RAM file system, VFS, paths, virtual memory, context switch and
system calls, console and shell, heap expansion.

Next, in this order:

1. `Vfs` with calls cut into steps, for two processes that make file calls.
2. Proofs: `BlocksAccounted` for RamFs;
   `KernelMappingsStay` for Vmm; the refinement of `Fifo` with the arrival order as
   the witness.
3. The composition of `Scheduler` and `Context`: the switch that `Scheduler` decides
   as the switch that `Context` performs.

## How to run

    tlc -config Scheduler.cfg Scheduler
    tlc -config MCPmm.cfg MCPmm
    tlc -config MCShell.cfg MCShell
    tlapm SchedulerProofs.tla
    tlapm HeapSteps.tla
    tlapm HeapProofs.tla

`PROJECT.json` lists module and configuration of each run.
