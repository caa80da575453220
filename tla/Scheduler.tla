----------------------------- MODULE Scheduler -----------------------------
(***************************************************************************)
(* Processes and the preemptive round-robin scheduler of the kernel:       *)
(* kernel/proc/process.c, kernel/proc/sched.c, kernel/arch/x86_64/         *)
(* context.asm, the timer path (kernel/interrupts/irq.c, drivers/pit) and  *)
(* the process system calls (kernel/syscall/sys_process.c).                *)
(*                                                                         *)
(* One CPU.  Every section the code runs between cli and sti, or inside    *)
(* the interrupt handler (interrupt gate, IF = 0), is one action.  What    *)
(* runs with interrupts enabled is cut into several actions, and the       *)
(* timer may strike between any two of them.                               *)
(*                                                                         *)
(* An operator named X_Y is X with a plausible mistake Y in it; it is not  *)
(* part of the specification and shows which property would notice.        *)
(*                                                                         *)
(* A switch does not return to the code that asked for it: the process     *)
(* that resumes continues where *it* was switched out.  frame[p] records   *)
(* where that is, because it decides whether the End Of Interrupt of the   *)
(* timer interrupt in progress is sent.                                    *)
(***************************************************************************)
EXTENDS Integers, Sequences

CONSTANTS
    MAX_PROCESSES,        \* size of process_table
    DEFAULT_TIME_SLICE,   \* quantum, in timer ticks
    SleepMs,              \* the arguments processes pass to sys_sleep
    UINT64_WRAP           \* 2^64 in the code: where ms + 9 wraps around

ASSUME MaxProcessesAssumption == MAX_PROCESSES \in Nat \ {0}
ASSUME TimeSliceAssumption == DEFAULT_TIME_SLICE \in Nat \ {0}
ASSUME SleepAssumption ==
    UINT64_WRAP \in Nat \ {0} /\ SleepMs \subseteq 0 .. UINT64_WRAP - 1

VARIABLES
    state,            \* process_table[p].state
    time_slice,       \* process_table[p].time_slice
    wake_in,          \* wake_tick - tick_count (0 when due), or NoWake
    kernel_stack,     \* process_table[p].kernel_stack # NULL
    pml4_phys,        \* process_table[p].pml4_phys # 0: has an address space
    frame,            \* where p resumes when it is switched to
    at,               \* how far p is inside sys_sleep
    run_queue,        \* run_queue_head .. run_queue_tail
    current,          \* current_process
    need_reschedule,
    boot,             \* how far kernel_main is
    in_service,       \* PIC in-service bit of IRQ0: no EOI seen yet
    rsp0,             \* whose kernel stack TSS.RSP0 and SYSCALL entry use
    cr3               \* whose address space is loaded (idle: the kernel's)

procVars == <<state, time_slice, wake_in, kernel_stack, pml4_phys, frame, at>>
cpuVars == <<current, rsp0, cr3>>
vars == <<procVars, run_queue, need_reschedule, boot, in_service, cpuVars>>

Slot == 0 .. MAX_PROCESSES - 1
idle == 0
NoWake == -1

UNUSED == "UNUSED"
READY == "READY"
RUNNING == "RUNNING"
BLOCKED == "BLOCKED"
TERMINATED == "TERMINATED"
ProcessState == {UNUSED, READY, RUNNING, BLOCKED, TERMINATED}

\* Where the saved context of a process continues: at the start of
\* process_entry_wrapper, after schedule() inside the timer interrupt handler
\* (pic_send_eoi and iretq follow), or after schedule() in a call the process
\* made itself (sti and return follow).
Frame == {"entry", "irq", "call"}

\* kernel_main: creating processes; between process_create and the
\* assignments that complete a user process; in sched_start with the first
\* process picked; gone for good.
Boot == {"create", "user", "starting", "done"}

scheduler_running == boot \in {"starting", "done"}

Queued(q) == {q[i] : i \in DOMAIN q}

(***************************************************************************)
(* The run queue, as the sequence of its members.                          *)
(***************************************************************************)
sched_add_QueuesIdle(q, p) == IF p \in Queued(q) THEN q ELSE Append(q, p)

sched_add(q, p) == IF p = idle \/ p \in Queued(q) THEN q ELSE Append(q, p)

sched_pick_next(q) == IF q = <<>> THEN idle ELSE Head(q)

PickRest(q) == IF q = <<>> THEN q ELSE Tail(q)

\* context_switch loads CR3 only for a process with its own address space.
new_cr3_Never(p) == cr3

new_cr3(p) == IF pml4_phys[p] THEN p ELSE cr3

\* pic_send_eoi follows where a process resumes inside irq_handler.
SendsEOI_Never(fr) == FALSE

SendsEOI(fr) == fr = "irq"

\* The orders in which a scan of process_table meets the slots of S: one.
InTableOrder(S) ==
    {w \in UNION {[1 .. n -> S] : n \in 0 .. MAX_PROCESSES} :
        /\ \A i, j \in DOMAIN w : i < j => w[i] < w[j]
        /\ \A p \in S : \E i \in DOMAIN w : w[i] = p}

(***************************************************************************)
(* schedule() and context_switch(), called with interrupts off.  st, ts    *)
(* and q are the process states, time slices and run queue the caller has  *)
(* left; fr is where the caller continues when it is switched back; isr is *)
(* the in-service bit at the call.  Whoever runs next sends the EOI if it  *)
(* continues in the interrupt handler.                                     *)
(***************************************************************************)
schedule(st, ts, q, fr, isr) ==
    LET prev == current
        next == sched_pick_next(q)
        rest == PickRest(q)
        runnable == st[prev] = RUNNING
    IN  IF next = prev
        THEN /\ state' = st
             /\ time_slice' = [ts EXCEPT ![next] = DEFAULT_TIME_SLICE]
             /\ run_queue' = rest
             /\ in_service' = (isr /\ ~SendsEOI(fr))
             /\ UNCHANGED <<frame, cpuVars>>
        ELSE /\ state' = [st EXCEPT ![prev] = IF runnable THEN READY ELSE @,
                                    ![next] = RUNNING]
             /\ time_slice' =
                    [ts EXCEPT ![prev] = IF runnable THEN DEFAULT_TIME_SLICE ELSE @,
                               ![next] = DEFAULT_TIME_SLICE]
             /\ run_queue' = IF runnable THEN sched_add(rest, prev) ELSE rest
             /\ current' = next
             /\ frame' = [frame EXCEPT ![prev] = fr]
             /\ rsp0' = next
             /\ cr3' = new_cr3(next)
             /\ in_service' = (isr /\ ~SendsEOI(frame[next]))

(***************************************************************************)
(* Initial state: kernel_main after process_init and sched_init.           *)
(***************************************************************************)
process_init ==
    /\ state = [p \in Slot |-> IF p = idle THEN READY ELSE UNUSED]
    /\ time_slice = [p \in Slot |-> IF p = idle THEN DEFAULT_TIME_SLICE ELSE 0]
    /\ wake_in = [p \in Slot |-> NoWake]
    /\ kernel_stack = [p \in Slot |-> p = idle]
    /\ pml4_phys = [p \in Slot |-> FALSE]
    /\ frame = [p \in Slot |-> "entry"]
    /\ at = [p \in Slot |-> "run"]
    /\ current = idle

sched_init ==
    /\ run_queue = <<>>
    /\ need_reschedule = FALSE
    /\ boot = "create"

Init ==
    /\ process_init
    /\ sched_init
    /\ in_service = FALSE
    /\ rsp0 = idle
    /\ cr3 = idle

(***************************************************************************)
(* process_create takes the first UNUSED slot.  hasStack says whether      *)
(* kmalloc finds a kernel stack; a stack left in the slot is freed first.  *)
(* With no UNUSED slot the call fails and changes nothing.  Slots are      *)
(* never made UNUSED again and next_pid counts up with them, so the pid of *)
(* a process is its slot.                                                  *)
(***************************************************************************)
find_free_slot ==
    {p \in Slot : /\ state[p] = UNUSED
                  /\ \A r \in Slot : r < p => state[r] # UNUSED}

process_create(p, hasStack) ==
    /\ p \in find_free_slot
    /\ kernel_stack' = [kernel_stack EXCEPT ![p] = hasStack]
    /\ IF hasStack
       THEN /\ state' = [state EXCEPT ![p] = READY]
            /\ time_slice' = [time_slice EXCEPT ![p] = DEFAULT_TIME_SLICE]
            /\ frame' = [frame EXCEPT ![p] = "entry"]
            /\ run_queue' = sched_add(run_queue, p)
       ELSE UNCHANGED <<state, time_slice, frame, run_queue>>
    /\ UNCHANGED <<wake_in, pml4_phys, at, need_reschedule, in_service, cpuVars>>

(***************************************************************************)
(* kernel_main, with interrupts on and the scheduler not yet running (the  *)
(* timer then only counts and sends its EOI).                              *)
(***************************************************************************)
BootCreate(p, hasStack) ==
    /\ boot = "create"
    /\ process_create(p, hasStack)
    /\ UNCHANGED boot

\* user_process_create queues the process first and gives it its address
\* space, stack and code afterwards.
UserProcessCreate(p, hasStack) ==
    /\ boot = "create"
    /\ process_create(p, hasStack)
    /\ boot' = IF hasStack THEN "user" ELSE boot

UserProcessFields ==
    /\ boot = "user"
    /\ pml4_phys' = [pml4_phys EXCEPT ![run_queue[Len(run_queue)]] = TRUE]
    /\ boot' = "create"
    /\ UNCHANGED <<state, time_slice, wake_in, kernel_stack, frame, at, run_queue,
                   need_reschedule, in_service, cpuVars>>

sched_start ==
    /\ boot = "create"
    /\ LET first == sched_pick_next(run_queue)
       IN  /\ state' = [state EXCEPT ![first] = RUNNING]
           /\ time_slice' = [time_slice EXCEPT ![first] = DEFAULT_TIME_SLICE]
           /\ current' = first
    /\ run_queue' = PickRest(run_queue)
    /\ boot' = "starting"
    /\ UNCHANGED <<wake_in, kernel_stack, pml4_phys, frame, at, need_reschedule,
                   in_service, rsp0, cr3>>

context_switch_first ==
    /\ boot = "starting"
    /\ rsp0' = current
    /\ cr3' = new_cr3(current)
    /\ boot' = "done"
    /\ UNCHANGED <<procVars, run_queue, need_reschedule, in_service, current>>

(***************************************************************************)
(* IRQ0: irq_handler, pit_irq_handler, sched_tick, the switch if there is  *)
(* one, and the EOI if the resumed process sends it.  The PIC delivers     *)
(* nothing while the previous IRQ0 is in service.  StartWindow: the few    *)
(* instructions of sched_start after scheduler_running = true take less    *)
(* than a quantum.                                                         *)
(***************************************************************************)
StartWindow == boot = "starting" => time_slice[current] > 1

\* == instead of >= in the comparison with wake_tick.
WakeIn_Exact(p) == IF wake_in[p] >= 0 THEN wake_in[p] - 1 ELSE wake_in[p]

WakeIn(p) == IF wake_in[p] > 0 THEN wake_in[p] - 1 ELSE wake_in[p]

process_wake_sleeping_AnyState == {p \in Slot : WakeIn(p) = 0}

process_wake_sleeping == {p \in Slot : state[p] = BLOCKED /\ WakeIn(p) = 0}

SliceExpired(ts) == ts[current] = 0

TimerIRQ ==
    /\ scheduler_running
    /\ ~in_service
    /\ StartWindow
    /\ LET woken == process_wake_sleeping
           st == [p \in Slot |-> IF p \in woken THEN READY ELSE state[p]]
           left == [time_slice EXCEPT ![current] = IF @ > 0 THEN @ - 1 ELSE 0]
       IN  \E w \in InTableOrder({p \in woken : sched_add(run_queue, p) # run_queue}) :
             LET q == run_queue \o w
                 expired == SliceExpired(left)
                 idleStays == expired /\ current = idle /\ q = <<>>
                 ts == [p \in Slot |-> IF p \in woken \/ (p = idle /\ idleStays)
                                       THEN DEFAULT_TIME_SLICE ELSE left[p]]
                 resched == need_reschedule \/ (expired /\ ~idleStays)
             IN  /\ wake_in' = [p \in Slot |-> IF p \in woken THEN NoWake ELSE WakeIn(p)]
                 /\ IF resched
                    THEN schedule(st, ts, q, "irq", TRUE)
                    ELSE /\ state' = st
                         /\ time_slice' = ts
                         /\ run_queue' = q
                         /\ in_service' = FALSE
                         /\ UNCHANGED <<frame, cpuVars>>
    /\ need_reschedule' = FALSE
    /\ UNCHANGED <<kernel_stack, pml4_phys, at, boot>>

(***************************************************************************)
(* Calls made by the running process.  The idle process makes none.        *)
(***************************************************************************)
Calls(where) == boot = "done" /\ current # idle /\ at[current] = where

Create(p, hasStack) ==
    /\ Calls("run")
    /\ process_create(p, hasStack)
    /\ UNCHANGED boot

process_exit_FreesStack ==
    /\ Calls("run")
    /\ schedule([state EXCEPT ![current] = TERMINATED], time_slice, run_queue,
                "call", in_service)
    /\ kernel_stack' = [kernel_stack EXCEPT ![current] = FALSE]
    /\ UNCHANGED <<wake_in, pml4_phys, at, need_reschedule, boot>>

process_exit ==
    /\ Calls("run")
    /\ schedule([state EXCEPT ![current] = TERMINATED], time_slice, run_queue,
                "call", in_service)
    /\ UNCHANGED <<wake_in, kernel_stack, pml4_phys, at, need_reschedule, boot>>

process_yield ==
    /\ schedule(state, [time_slice EXCEPT ![current] = DEFAULT_TIME_SLICE],
                run_queue, "call", in_service)
    /\ need_reschedule' = TRUE
    /\ UNCHANGED <<wake_in, kernel_stack, pml4_phys, at, boot>>

process_block ==
    /\ schedule([state EXCEPT ![current] = BLOCKED], time_slice, run_queue,
                "call", in_service)
    /\ UNCHANGED <<wake_in, kernel_stack, pml4_phys, need_reschedule, boot>>

Yield == Calls("run") /\ process_yield

Block == Calls("run") /\ process_block /\ UNCHANGED at

process_unblock_AnyState(p) ==
    /\ Calls("run")
    /\ p # current /\ state[p] # UNUSED
    /\ state' = [state EXCEPT ![p] = READY]
    /\ time_slice' = [time_slice EXCEPT ![p] = DEFAULT_TIME_SLICE]
    /\ run_queue' = sched_add(run_queue, p)
    /\ UNCHANGED <<wake_in, kernel_stack, pml4_phys, frame, at, need_reschedule,
                   boot, in_service, cpuVars>>

process_unblock(p) ==
    /\ Calls("run")
    /\ state[p] = BLOCKED
    /\ state' = [state EXCEPT ![p] = READY]
    /\ time_slice' = [time_slice EXCEPT ![p] = DEFAULT_TIME_SLICE]
    /\ run_queue' = sched_add(run_queue, p)
    /\ UNCHANGED <<wake_in, kernel_stack, pml4_phys, frame, at, need_reschedule,
                   boot, in_service, cpuVars>>

\* sys_sleep runs with interrupts on: the wake tick is set, the process
\* blocks, and after it is resumed the wake tick is cleared.  A sleep of 0 ms
\* is a yield.
ticks_to_sleep(ms) == ((ms + 9) % UINT64_WRAP) \div 10

sys_sleep(ms) ==
    /\ Calls("run")
    /\ IF ms = 0
       THEN process_yield
       ELSE /\ wake_in' = [wake_in EXCEPT ![current] = ticks_to_sleep(ms)]
            /\ at' = [at EXCEPT ![current] = "sleep"]
            /\ UNCHANGED <<state, time_slice, kernel_stack, pml4_phys, frame,
                           run_queue, need_reschedule, boot, in_service, cpuVars>>

SleepBlock ==
    /\ Calls("sleep")
    /\ process_block
    /\ at' = [at EXCEPT ![current] = "slept"]

SleepReturn_KeepsWakeTick ==
    /\ Calls("slept")
    /\ at' = [at EXCEPT ![current] = "run"]
    /\ UNCHANGED <<wake_in, state, time_slice, kernel_stack, pml4_phys, frame,
                   run_queue, need_reschedule, boot, in_service, cpuVars>>

SleepReturn ==
    /\ Calls("slept")
    /\ wake_in' = [wake_in EXCEPT ![current] = NoWake]
    /\ at' = [at EXCEPT ![current] = "run"]
    /\ UNCHANGED <<state, time_slice, kernel_stack, pml4_phys, frame, run_queue,
                   need_reschedule, boot, in_service, cpuVars>>

(***************************************************************************)
(* Specification.                                                          *)
(***************************************************************************)
Booting ==
    \/ \E p \in Slot, hasStack \in BOOLEAN : BootCreate(p, hasStack)
    \/ \E p \in Slot, hasStack \in BOOLEAN : UserProcessCreate(p, hasStack)
    \/ UserProcessFields
    \/ sched_start
    \/ context_switch_first

\* The calls that end, sooner or later, in schedule().
Leave ==
    \/ process_exit
    \/ Yield
    \/ Block
    \/ \E ms \in SleepMs : sys_sleep(ms)
    \/ SleepBlock
    \/ SleepReturn

Next ==
    \/ Booting
    \/ TimerIRQ
    \/ Leave
    \/ \E p \in Slot, hasStack \in BOOLEAN : Create(p, hasStack)
    \/ \E p \in Slot : process_unblock(p)

Spec == Init /\ [][Next]_vars

\* The timer keeps ticking whenever the PIC may deliver it, and sched_start
\* gets to its end; nothing is assumed of the processes.
TimerSpec == Spec /\ WF_vars(TimerIRQ) /\ WF_vars(context_switch_first)

\* In addition no process computes forever: it yields, sleeps, blocks or
\* exits (the shell yields between polls of the keyboard, the demo processes
\* return).
FairSpec == TimerSpec /\ WF_vars(Leave)

(***************************************************************************)
(* Properties.                                                             *)
(***************************************************************************)
\* Every variable has the type of the C object it stands for.
TypeOK ==
    /\ state \in [Slot -> ProcessState]
    /\ time_slice \in [Slot -> 0 .. DEFAULT_TIME_SLICE]
    /\ wake_in \in [Slot -> Int] /\ \A p \in Slot : wake_in[p] >= NoWake
    /\ kernel_stack \in [Slot -> BOOLEAN]
    /\ pml4_phys \in [Slot -> BOOLEAN]
    /\ frame \in [Slot -> Frame]
    /\ at \in [Slot -> {"run", "sleep", "slept"}]
    /\ run_queue \in Seq(Slot)
    /\ current \in Slot
    /\ need_reschedule \in BOOLEAN
    /\ boot \in Boot
    /\ in_service \in BOOLEAN
    /\ rsp0 \in Slot
    /\ cr3 \in Slot

\* From sched_start on exactly one process is RUNNING and current_process
\* points to it, whatever mix of preemption, yield, block, wake-up and exit
\* led there (sched.c:274-312).
OneRunning ==
    scheduler_running => \A p \in Slot : state[p] = RUNNING <=> p = current

\* The run queue holds every READY process but the idle one, nothing else,
\* and each once: no wake-up, yield or preemption loses a process or queues
\* it twice (sched.c:56-84, process.c:404-415 and 441-456).
QueueHolds(q, st) ==
    /\ Queued(q) = {p \in Slot \ {idle} : st[p] = READY}
    /\ \A i, j \in DOMAIN q : q[i] = q[j] => i = j

QueueIsReady == QueueHolds(run_queue, state)

\* Once kernel_main is gone, system calls and interrupts from user mode land
\* on the kernel stack of the running process, and a process with an address
\* space of its own runs in it (context.asm, steps 3 and 4).
ContextOfCurrent ==
    boot = "done" => /\ rsp0 = current
                     /\ pml4_phys[current] => cr3 = current

\* A process that has left the table's UNUSED state owns a kernel stack; in
\* particular a terminated one keeps the stack it ran its last schedule() on
\* (process.c:318-322).
StackOwned == \A p \in Slot : state[p] # UNUSED => kernel_stack[p]

\* No process runs, or waits to run, with an empty time slice: however
\* schedule() and the wake-ups interleave, the 8-bit decrement in sched_tick
\* always starts above zero (sched.c:241-254).
SliceLeft == \A p \in Slot : state[p] \in {READY, RUNNING} => time_slice[p] > 0

\* A process blocked in sys_sleep always has a wake tick, so the timer will
\* find it, and one blocked by process_block has none, so the timer will not
\* wake it: a timer interrupt between the two halves of sys_sleep, or a
\* process_unblock during the sleep, leaves no stale tick (sys_process.c:89-96).
WakeTickMatches ==
    \A p \in Slot : state[p] = BLOCKED => (wake_in[p] # NoWake <=> at[p] = "slept")

\* While IRQ0 is in service some READY process was preempted inside the
\* handler: the pending EOI is on its stack, and nobody else can send it
\* (irq.c:97-102).
EOIOnSomeStack ==
    in_service => \E p \in Slot : /\ p # current
                                  /\ state[p] = READY
                                  /\ frame[p] = "irq"

\* The idle process halts with the timer blocked at most in its first run:
\* once it has been preempted, resuming it sends the pending EOI.
DeafIdleOnlyFresh == (current = idle /\ in_service) => frame[idle] = "entry"

\* The facts about boot, the idle process and the steps of sys_sleep that
\* make the invariants above inductive.
BeforeStart ==
    ~scheduler_running => /\ current = idle
                          /\ ~in_service
                          /\ \A p \in Slot : state[p] \in {UNUSED, READY}

IdleSteps == /\ state[idle] \in {READY, RUNNING}
             /\ frame[idle] # "call"
             /\ at[idle] = "run"

SleepSteps ==
    \A p \in Slot :
        /\ at[p] = "run" => wake_in[p] = NoWake
        /\ at[p] = "sleep" => wake_in[p] >= 0 /\ state[p] \in {READY, RUNNING}
        /\ at[p] = "slept" /\ state[p] = BLOCKED => wake_in[p] >= 0

\* The inductive invariant: all of the above at once, and that a user process
\* whose fields are being filled in (user_process.c:301-306) is in the queue.
IInv ==
    /\ TypeOK
    /\ OneRunning
    /\ QueueIsReady
    /\ ContextOfCurrent
    /\ StackOwned
    /\ SliceLeft
    /\ EOIOnSomeStack
    /\ DeafIdleOnlyFresh
    /\ BeforeStart
    /\ IdleSteps
    /\ SleepSteps
    /\ boot = "user" => run_queue # <<>>

\* A terminated process is never resumed, woken, queued or reused
\* (process.c:324-328).
TerminatedForever ==
    [][\A p \in Slot : state[p] = TERMINATED => /\ state'[p] = TERMINATED
                                                /\ p # current'
                                                /\ p \notin Queued(run_queue')]_vars

\* Once the idle process has been preempted for the first time, every other
\* READY process runs again, even through the periods in which the timer is
\* blocked by a pending EOI.
ReadyRuns ==
    \A p \in Slot \ {idle} :
        (state[p] = READY /\ frame[idle] = "irq") ~> state[p] = RUNNING

\* From then on every sleep ends, provided the CPU does not stop going idle.
SleepEndsIfIdling ==
    ([]<>(current = idle)) =>
        \A p \in Slot \ {idle} :
            (state[p] = BLOCKED /\ at[p] = "slept" /\ frame[idle] = "irq")
                ~> state[p] # BLOCKED

(***************************************************************************)
(* What the comments of the code say, and the code does not do.            *)
(***************************************************************************)
\* "sched_tick() decrements time slice and reschedules if expired"
\* (sched.c:20): a process does not keep the CPU while others wait.
Preemptive ==
    \A p \in Slot :
        (current = p /\ run_queue # <<>>) ~> (current # p \/ run_queue = <<>>)

\* A sleeping process "will be unblocked when the sleep time expires"
\* (sys_process.c:71-72), whatever the other processes do (the idle process
\* has run, so this is not the case of IdleCanBeInterrupted).
SleepEnds ==
    \A p \in Slot :
        (state[p] = BLOCKED /\ at[p] = "slept" /\ frame[idle] = "irq")
            ~> state[p] # BLOCKED

\* The idle process "just halts the CPU until the next interrupt"
\* (process.c:121): the next timer interrupt can be delivered to it.
IdleCanBeInterrupted == boot = "done" /\ current = idle => ~in_service

\* "Each process gets a fixed time slice" (sched.c:8): the timer takes the
\* CPU from a process only with the last tick of its slice.
FullTimeSlice ==
    [][(boot = "done" /\ current' # current /\ frame'[current] = "irq")
          => time_slice[current] = 1]_vars

\* The idle process "runs when no other process is ready" (process.c:120).
IdleOnlyWhenNoneReady == boot = "done" /\ current = idle => run_queue = <<>>

\* "The stack will be freed when this process slot is reused in
\* process_create()" (process.c:320-321): with no other slot left, the slot
\* of a terminated process is found.
TerminatedSlotReused ==
    (\E p \in Slot : state[p] = TERMINATED) => find_free_slot # {}
=============================================================================
