------------------------------- MODULE Context -------------------------------
(***************************************************************************)
(* Entering and leaving the kernel, and switching between processes, at    *)
(* the level of registers and stack frames: syscall_entry, the interrupt   *)
(* stubs, context_switch, user_mode_enter and the system call dispatcher.  *)
(*                                                                         *)
(* A register holds a token that says who put it there, so a register that *)
(* is lost, swapped or read from somebody else's stack is recognised.  A   *)
(* kernel stack is memory for Room frames; a frame that has been popped is *)
(* dead.  Which process runs next is left open: module Scheduler has the   *)
(* policy, and everything here holds whichever process it picks.           *)
(***************************************************************************)
EXTENDS Integers

CONSTANTS
    UserProc,   \* processes made by user_process_create (pml4_phys # 0)
    KThread,    \* kernel threads (pml4_phys = 0)
    Idle,       \* the idle process, one of them
    Boot,       \* kernel_main before the scheduler starts; has a stack, no PCB
    Room,       \* bound: frames that fit on a kernel stack
    Calls,      \* the system call numbers that programs use
    MaxSteps    \* bound: blocks of own instructions a process executes

ASSUME ContextAssumption ==
    /\ UserProc \cap KThread = {}
    /\ Idle \in KThread
    /\ Boot \notin UserProc \cup KThread
    /\ Calls \subseteq Nat
    /\ MaxSteps \in Nat
    /\ Room \in Nat /\ Room >= 4

Process == UserProc \cup KThread

VARIABLES
    cpu,                 \* rip, rsp, interrupt flag and general registers
    current,             \* current_process
    stack,               \* frames on the kernel stack of each process
    saved,               \* PCB.rsp
    rsp0,                \* TSS.RSP0
    syscall_kstack_top,  \* kernel stack that syscall_entry switches to
    user_stack_save,     \* scratch word of syscall_entry
    cr3,                 \* owner of the loaded address space
    dead,                \* terminated processes
    own,                 \* history: what each process's own code left in the CPU
    call                 \* history: the CPU at the last system call, its
                         \*   arguments, the ones the dispatcher got, the result

kernel == <<stack, saved, rsp0, syscall_kstack_top, user_stack_save, cr3>>
vars == <<cpu, current, kernel, dead, own, call>>
-----------------------------------------------------------------------------
(* Registers                                                               *)

CalleeSaved == {"rbx", "rbp", "r12", "r13", "r14", "r15"}
CallerSaved == {"rax", "rcx", "rdx", "rsi", "rdi", "r8", "r9", "r10", "r11"}
GPR == CalleeSaved \cup CallerSaved

\* Registers filled by the n-th block of instructions of "who".
Filled(who, n) == [r \in GPR |-> <<who, n, r>>]

\* user_mode_enter clears every general register.
Cleared == [r \in GPR |-> <<Boot, 0, "zero">>]

\* An RSP: the top of p's kernel stack with d frames on it, or the user stack
\* of p where its n-th block of instructions left it.
KernelSP(p, d) == <<"kernel", p, d>>
UserSP(p, n)   == <<"user", p, n>>

\* A RIP: a place in the kernel, or in the program of the current process.
At(place) == <<"kernel", place, 0>>
Program(n) == <<"user", "program", n>>
InUser  == cpu.rip[1] = "user"
Running(place) == cpu.rip = At(place)

\* RFLAGS as SYSCALL puts it into R11; only the interrupt flag matters.
Rflags(p, f) == <<p, f, "rflags">>

\* Frames.  An interrupt frame is the whole CPU, a system call frame RIP, RSP,
\* RFLAGS and the callee-saved registers, a switch frame the callee-saved
\* registers and the return address, a frame of a C function the registers
\* it must restore.
Callee(reg) == [r \in CalleeSaved |-> reg[r]]
Restored(reg, kept) == [r \in GPR |-> IF r \in CalleeSaved THEN kept[r] ELSE reg[r]]

None == [kind |-> "none"]
Put(st, p, d, f) == [st EXCEPT ![p][d] = f]
Pushed(sp, f) == Put(stack, sp[2], sp[3] + 1, f)
Top == stack[cpu.rsp[2]][cpu.rsp[3]]
Popped == Put(stack, cpu.rsp[2], cpu.rsp[3], None)
Up(sp)   == KernelSP(sp[2], sp[3] + 1)
Down(sp) == KernelSP(sp[2], sp[3] - 1)
-----------------------------------------------------------------------------
(* A new process: setup_initial_stack leaves a frame that context_switch   *)
(* pops as if the process had called it from process_entry_wrapper.        *)

InitialFrame ==
    [kind |-> "switch", rip |-> At("wrapper"),
     kept |-> [r \in CalleeSaved |-> <<Boot, 0, "zero">>]]

NoCall == [from |-> [rip |-> Program(0), rsp |-> KernelSP(Boot, 0), if |-> 0, reg |-> Cleared],
           asked |-> <<>>, got |-> <<>>, result |-> <<Boot, 0, "zero">>]

Init ==
    /\ cpu = [rip |-> At("boot"), rsp |-> KernelSP(Boot, 0), if |-> 1,
              reg |-> Filled(Boot, 0)]
    /\ current = Boot
    /\ stack = [p \in Process \cup {Boot} |->
                    [d \in 1..Room |-> IF d = 1 /\ p # Boot THEN InitialFrame ELSE None]]
    /\ saved = [p \in Process |-> KernelSP(p, 1)]
    /\ rsp0 = Boot /\ syscall_kstack_top = Boot
    /\ user_stack_save = KernelSP(Boot, 0)
    /\ cr3 = Boot
    /\ dead = {}
    /\ own = [p \in Process \cup {Boot} |->
                  IF p = Boot THEN cpu
                  ELSE [rip |-> At("wrapper"), rsp |-> KernelSP(p, 0), if |-> 0,
                        reg |-> Cleared]]
    /\ call = [p \in Process |-> NoCall]
-----------------------------------------------------------------------------
(* Own code: blocks of instructions between which interrupts may come.     *)

\* The step is taken by the code of the current process itself.
Own == own' = [own EXCEPT ![current] = cpu']

\* Instructions of a user program, or of the body of a kernel thread: the
\* n-th block (the idle process only halts).
Compute ==
    \E n \in 1..MaxSteps :
        /\ \/ /\ InUser /\ cpu.rip = Program(n - 1)
              /\ cpu' = [cpu EXCEPT !.rip = Program(n), !.rsp = UserSP(current, n),
                                    !.reg = Filled(current, n)]
           \/ /\ cpu.rip = <<"kernel", "thread", n - 1>> /\ current # Idle
              /\ cpu' = [cpu EXCEPT !.rip = <<"kernel", "thread", n>>,
                                    !.reg = Filled(current, n)]
        /\ Own
        /\ UNCHANGED <<current, kernel, dead, call>>

\* The six arguments of a C function.
Arguments(reg) == <<reg["rdi"], reg["rsi"], reg["rdx"], reg["rcx"], reg["r8"], reg["r9"]>>

\* syscall_raw moves its C arguments into the registers of the SYSCALL
\* convention.
RawRegisters(reg, num) ==
    [reg EXCEPT !["rax"] = num, !["rdi"] = reg["rsi"], !["rsi"] = reg["rdx"],
                !["rdx"] = reg["rcx"], !["r10"] = reg["r8"], !["r8"] = reg["r9"]]

\* What the caller of syscall_raw asks for: the number and five arguments.
Asked(num, reg) == <<num, reg["rsi"], reg["rdx"], reg["rcx"], reg["r8"], reg["r9"]>>

\* The registers after SYSCALL: RIP in RCX, RFLAGS in R11.
SyscallRegisters(reg, rip, flags) == [reg EXCEPT !["rcx"] = rip, !["r11"] = flags]

\* The interrupt flag after SYSCALL: syscall_init puts it into SFMASK.
SfmaskUnset(f) == f
Sfmask(f) == 0

\* The n-th block of a program ends in a system call: syscall_raw, the SYSCALL
\* instruction as syscall_init programmed it (interrupts off), and the switch
\* to the kernel stack.
Syscall ==
    \E c \in Calls, n \in 1..MaxSteps :
        LET num  == <<current, c, "rdi">>
            from == [rip |-> Program(n), rsp |-> UserSP(current, n), if |-> cpu.if,
                     reg |-> Filled(current, n)]
        IN  /\ InUser /\ cpu.rip = Program(n - 1)
            /\ cpu' = [rip |-> At("syscall_entry"), rsp |-> KernelSP(syscall_kstack_top, 0),
                       if  |-> Sfmask(cpu.if),
                       reg |-> SyscallRegisters(RawRegisters(from.reg, num), from.rip,
                                                Rflags(current, from.if))]
            /\ user_stack_save' = from.rsp
            /\ call' = [call EXCEPT ![current] =
                          [from |-> from, asked |-> Asked(num, from.reg),
                           got |-> <<>>, result |-> num]]
            /\ Own
            /\ UNCHANGED <<current, stack, saved, rsp0, syscall_kstack_top, cr3, dead>>

\* The frame of the system call; interrupts are enabled once it is complete.
PushFrame ==
    /\ Running("syscall_entry")
    /\ stack' = Pushed(cpu.rsp, [kind |-> "syscall", rsp |-> user_stack_save,
                                 r11 |-> cpu.reg["r11"], rcx |-> cpu.reg["rcx"],
                                 kept |-> Callee(cpu.reg)])
    /\ cpu' = [cpu EXCEPT !.rip = At("arguments"), !.rsp = Up(@), !.if = 1]
    /\ Own
    /\ UNCHANGED <<current, saved, rsp0, syscall_kstack_top, user_stack_save, cr3, dead, call>>

\* The moves that set up the C call of syscall_dispatch.
ShuffledLate(reg) ==
    [reg EXCEPT !["r15"] = reg["rdi"], !["r14"] = reg["rsi"], !["r13"] = reg["rdx"],
                !["r12"] = reg["r10"], !["rdi"] = reg["rax"], !["rsi"] = reg["rax"],
                !["rdx"] = reg["rsi"], !["rcx"] = reg["rdx"], !["r8"] = reg["r10"]]

Shuffled(reg) ==
    [reg EXCEPT !["r15"] = reg["rdi"], !["r14"] = reg["rsi"], !["r13"] = reg["rdx"],
                !["r12"] = reg["r10"], !["rdi"] = reg["rax"], !["rsi"] = reg["rdi"],
                !["rdx"] = reg["rsi"], !["rcx"] = reg["rdx"], !["r8"] = reg["r10"]]

Shuffle ==
    /\ Running("arguments")
    /\ cpu' = [cpu EXCEPT !.rip = At("syscall_dispatch"), !.reg = Shuffled(@)]
    /\ Own
    /\ UNCHANGED <<current, kernel, dead, call>>

SYS_EXIT  == 0
SYS_YIELD == 3
SYS_SLEEP == 5
SYS_MAX   == 14

\* The numbers with a handler: every entry of syscall_table is filled.
syscall_table == 0..(SYS_MAX - 1)

\* Handlers that return, that switch to another process and that never return.
Handler(num) == CASE num \notin syscall_table -> "ENOSYS"
                  [] num = SYS_EXIT -> "sys_exit"
                  [] num \in {SYS_YIELD, SYS_SLEEP} -> "sys_yield"
                  [] OTHER -> "handler"

\* syscall_dispatch: a C function, which saves the callee-saved registers it
\* uses on its stack and calls the handler of the number, or answers -ENOSYS.
Dispatch ==
    /\ Running("syscall_dispatch")
    /\ stack' = Pushed(cpu.rsp, [kind |-> "C", kept |-> Callee(cpu.reg)])
    /\ call' = [call EXCEPT ![current].got = Arguments(cpu.reg)]
    /\ cpu' = [cpu EXCEPT !.rip = At(Handler(cpu.reg["rdi"][2])), !.rsp = Up(@),
                          !.reg = Filled(Boot, 0)]
    /\ Own
    /\ UNCHANGED <<current, saved, rsp0, syscall_kstack_top, user_stack_save, cr3, dead>>

\* The handler, or the dispatcher itself, returns its result in RAX.
HandlerReturn ==
    /\ \E place \in {"handler", "ENOSYS", "yielded"} : Running(place)
    /\ LET rax == <<current, call[current].asked[1][2], "result">>
       IN  /\ cpu' = [rip |-> At("syscall_return"), rsp |-> Down(cpu.rsp), if |-> 1,
                      reg |-> [Restored(cpu.reg, Top.kept) EXCEPT !["rax"] = rax]]
           /\ call' = [call EXCEPT ![current].result = rax]
    /\ stack' = Popped
    /\ Own
    /\ UNCHANGED <<current, saved, rsp0, syscall_kstack_top, user_stack_save, cr3, dead>>

\* Interrupts off, registers off the frame, SYSRET: RIP from RCX, RFLAGS from
\* R11, RSP from the frame.
SysRet ==
    /\ Running("syscall_return")
    /\ cpu' = [rip |-> Top.rcx, rsp |-> Top.rsp, if |-> Top.r11[2],
               reg |-> SyscallRegisters(Restored(cpu.reg, Top.kept), Top.rcx, Top.r11)]
    /\ stack' = Popped
    /\ call' = [call EXCEPT ![current] = NoCall]
    /\ Own
    /\ UNCHANGED <<current, saved, rsp0, syscall_kstack_top, user_stack_save, cr3, dead>>
-----------------------------------------------------------------------------
(* Interrupts                                                              *)

\* Every gate of the IDT is an interrupt gate, which switches interrupts off.
TrapGate(f) == f
InterruptGate(f) == 0

\* An IRQ is accepted: the CPU pushes SS..RIP on TSS.RSP0 if it comes from user
\* mode and on the current stack otherwise, the stub pushes the general
\* registers, and the gate has switched interrupts off.
Interrupt ==
    LET sp == IF InUser THEN KernelSP(rsp0, 0) ELSE cpu.rsp
    IN  /\ cpu.if = 1
        /\ stack' = Pushed(sp, [kind |-> "irq", cpu |-> cpu])
        /\ cpu' = [rip |-> At("irq_handler"), rsp |-> Up(sp), if |-> InterruptGate(cpu.if),
                   reg |-> Filled(Boot, 0)]
        /\ UNCHANGED <<current, saved, rsp0, syscall_kstack_top, user_stack_save, cr3,
                       dead, own, call>>

InterruptReturnR11 ==
    /\ Running("irq_handler")
    /\ cpu' = [Top.cpu EXCEPT !.reg["r11"] = cpu.reg["r11"]]
    /\ stack' = Popped
    /\ UNCHANGED <<current, saved, rsp0, syscall_kstack_top, user_stack_save, cr3,
                   dead, own, call>>

\* irq_handler returns: the stub pops the registers and executes IRETQ.
InterruptReturn ==
    /\ Running("irq_handler")
    /\ cpu' = Top.cpu
    /\ stack' = Popped
    /\ UNCHANGED <<current, saved, rsp0, syscall_kstack_top, user_stack_save, cr3,
                   dead, own, call>>
-----------------------------------------------------------------------------
(* Switching                                                               *)

\* A kernel thread runs in the address space that is loaded already.
StaleCR3(q) == cr3
NextCR3(q) == IF q \in UserProc THEN q ELSE cr3

\* The second half of a switch: q's stack, RSP0, system call stack and, for a
\* user process, address space are loaded and q's switch frame is popped.
Load(q, st) ==
    LET sp == saved[q]
        f  == st[sp[2]][sp[3]]
    IN  /\ current' = q
        /\ rsp0' = q
        /\ syscall_kstack_top' = q
        /\ cr3' = NextCR3(q)
        /\ cpu' = [rip |-> f.rip, rsp |-> Down(sp), if |-> 0,
                   reg |-> Restored(Filled(Boot, 0), f.kept)]
        /\ stack' = Put(st, sp[2], sp[3], None)
        \* The C code around the switch has used the caller-saved registers.
        /\ own' = IF f.rip = At("irq_handler") THEN own
                  ELSE [own EXCEPT ![q].reg = Restored(Filled(Boot, 0), Callee(@))]
        /\ UNCHANGED <<user_stack_save, call>>

\* context_switch: the callee-saved registers and the return address "back" go
\* on the stack of the process that is left, its RSP into its PCB.
context_switch(q, back) ==
    /\ saved' = [saved EXCEPT ![current] = Up(cpu.rsp)]
    /\ Load(q, Pushed(cpu.rsp, [kind |-> "switch", rip |-> back, kept |-> Callee(cpu.reg)]))

\* Whom schedule may pick: anybody alive but the process that is left.
Others == Process \ (dead \cup {current})

\* sched_start: the first process is loaded and nothing is saved.
context_switch_first ==
    /\ Running("boot")
    /\ \E q \in Others : Load(q, stack)
    /\ UNCHANGED <<saved, dead>>

\* The timer tick ends the slice of the interrupted process.
Preempt ==
    /\ Running("irq_handler") /\ current # Boot
    /\ \E q \in Others : context_switch(q, cpu.rip)
    /\ UNCHANGED dead

\* process_yield and process_block, called by a handler or by a kernel thread:
\* interrupts are switched off, then schedule is called.
Yield ==
    \E n \in 0..MaxSteps :
        LET back == IF cpu.rip[2] = "thread" THEN "thread_yielded" ELSE "yielded"
        IN  /\ cpu.rip \in {At("sys_yield"), <<"kernel", "thread", n>>} /\ current # Idle
            /\ cpu' = [cpu EXCEPT !.rip = <<"schedule", back, cpu.rip[3]>>, !.if = 0]
            /\ own' = [own EXCEPT ![current] =
                          [cpu' EXCEPT !.rip = <<"kernel", back, cpu.rip[3]>>]]
            /\ UNCHANGED <<current, kernel, dead, call>>

\* schedule switches, or returns at once when nobody else is ready.
Schedule ==
    LET back == <<"kernel", cpu.rip[2], cpu.rip[3]>>
    IN  /\ cpu.rip[1] = "schedule"
        /\ \/ \E q \in Others : context_switch(q, back)
           \/ /\ cpu' = [cpu EXCEPT !.rip = back]
              /\ UNCHANGED <<current, kernel, own, call>>
        /\ UNCHANGED dead

\* A kernel thread goes on after its yield; process_yield ends with sti.
ThreadResumes ==
    /\ cpu.rip[2] = "thread_yielded" /\ cpu.rip[1] = "kernel"
    /\ cpu' = [cpu EXCEPT !.rip[2] = "thread", !.if = 1]
    /\ Own
    /\ UNCHANGED <<current, kernel, dead, call>>

\* process_exit, from sys_exit or at the end of a kernel thread; the idle
\* process does not exit.
Exit ==
    /\ \/ Running("sys_exit")
       \/ cpu.rip = <<"kernel", "thread", MaxSteps>> /\ current # Idle
    /\ dead' = dead \cup {current}
    /\ \E q \in Others : context_switch(q, At("exited"))

\* process_entry_wrapper: sti, then the entry function of the process.
Wrapper ==
    /\ Running("wrapper")
    /\ cpu' = [cpu EXCEPT !.if = 1,
                 !.rip = IF current \in UserProc THEN At("user_process_entry")
                         ELSE <<"kernel", "thread", 0>>]
    /\ Own
    /\ UNCHANGED <<current, kernel, dead, call>>

\* user_mode_enter: interrupts are off while the frame is built, IRETQ enters
\* ring 3 with cleared registers.
user_mode_enter(p) == [rip |-> Program(0), rsp |-> UserSP(p, 0), if |-> 1, reg |-> Cleared]

\* user_process_entry: the address space is loaded, then user mode is entered.
EnterUser ==
    /\ Running("user_process_entry")
    /\ cr3' = current
    /\ cpu' = user_mode_enter(current)
    /\ Own
    /\ UNCHANGED <<current, stack, saved, rsp0, syscall_kstack_top, user_stack_save, dead, call>>
-----------------------------------------------------------------------------
Next ==
    \/ context_switch_first \/ Wrapper \/ EnterUser \/ Compute
    \/ Syscall \/ PushFrame \/ Shuffle \/ Dispatch \/ HandlerReturn \/ SysRet
    \/ Interrupt \/ InterruptReturn \/ Preempt
    \/ Yield \/ Schedule \/ ThreadResumes \/ Exit

Spec == Init /\ [][Next]_vars
-----------------------------------------------------------------------------
(* Properties                                                              *)

\* The code that belongs to no process: the interrupt handler and schedule.
Between == cpu.rip[1] = "schedule" \/ Running("irq_handler")

\* Interrupts and switches are transparent: whenever a process's own code runs,
\* in user mode, in a system call or in a kernel thread, the instruction, the
\* stack pointer, the interrupt flag and every register are the ones its own
\* last instruction left, however many interrupts and other processes came
\* between (irq_common_stub, context_switch).
Transparent == ~Between => cpu = own[current]

\* A system call returns to the instruction after it, on the caller's stack and
\* with its flags, with the callee-saved registers of the caller and the result
\* of its own handler in RAX, though the saved RSP passes through one global
\* word and other processes make calls meanwhile (syscall_entry).
SyscallReturns ==
    [][Running("syscall_return") /\ cpu'.rip[1] = "user" =>
         LET from == call[current].from
         IN  /\ cpu'.rip = from.rip /\ cpu'.rsp = from.rsp /\ cpu'.if = from.if
             /\ Callee(cpu'.reg) = Callee(from.reg)
             /\ cpu'.reg["rax"] = call[current].result]_vars

\* The number and the five arguments that a program passes to syscall_raw are
\* the ones syscall_dispatch gets.  The fifth arrives only because syscall_raw
\* leaves it in R9 as well: syscall_entry never moves R8.
ArgumentsArrive ==
    \A p \in Process : call[p].got # <<>> => call[p].got = call[p].asked

\* No process has more than one interrupt frame on its kernel stack, and never
\* more than four frames in all, so interrupts that arrive while others are
\* being handled cannot exhaust the fixed kernel stack (it has no guard page).
StackBounded ==
    \A p \in Process \ dead :
        /\ \A d \in 5..Room : stack[p][d] = None
        /\ \A d, e \in 1..Room :
              stack[p][d].kind = "irq" /\ stack[p][e].kind = "irq" => d = e

\* A user process always runs, in user mode and in its system calls, in its own
\* address space, though kernel threads run in whatever space was loaded last.
OwnAddressSpace == current \in UserProc => cr3 = current

(* The inductive invariant behind these properties.                        *)

\* Places of own code, by the frames of that code below the stack pointer: none,
\* the system call frame, that and the frame of the dispatcher.
Bare      == {"boot", "wrapper", "user_process_entry", "thread", "thread_yielded",
              "syscall_entry"}
InCall    == {"arguments", "syscall_dispatch", "syscall_return"}
InHandler == {"ENOSYS", "sys_exit", "sys_yield", "handler", "yielded"}

Depth(p) == IF own[p].rip[2] \in InCall THEN 1
            ELSE IF own[p].rip[2] \in InHandler THEN 2 ELSE 0

\* Everything above d frames is dead.
Clear(p, d) == \A e \in 1..Room : e > d => stack[p][e] = None

\* The system call frame p needs to get back to its program.
CallFrame(p) == [kind |-> "syscall", rsp |-> call[p].from.rsp,
                 r11 |-> Rflags(p, call[p].from.if), rcx |-> call[p].from.rip,
                 kept |-> Callee(call[p].from.reg)]

\* The places where p has interrupts off.
Masked == {"wrapper", "syscall_entry", "yielded", "thread_yielded"}

\* Where p's own code is, and with which stack pointer and interrupt flag.
PlaceOK(p) ==
    LET o == own[p]
        place == o.rip[2]
    IN  /\ o.rip[3] \in Nat
        /\ \/ o.rip = Program(o.rip[3])
           \/ /\ o.rip = <<"kernel", place, o.rip[3]>>
              /\ place \in Bare \cup InCall \cup InHandler
              /\ place \notin {"thread", "thread_yielded"} => o.rip[3] = 0
              /\ o.rsp = KernelSP(p, Depth(p))
        /\ o.if = (IF place \in Masked THEN 0 ELSE 1)
        /\ place \in InCall \cup InHandler \cup {"program", "syscall_entry", "user_process_entry"}
               => p \in UserProc
        /\ place = "boot" => p = Boot

\* The frames and registers of p's own code in a system call.
CallOK(p) ==
    LET o == own[p]
        place == o.rip[2]
    IN  /\ place \in InCall \cup InHandler => stack[p][1] = CallFrame(p)
        /\ place \in InHandler => stack[p][2].kind = "C"
        /\ place \in InCall \cup InHandler \cup {"syscall_entry"} =>
               /\ call[p].from.rip = Program(call[p].from.rip[3])
               /\ call[p].from.rip[3] \in Nat
               /\ call[p].from.if = 1
        /\ place \in {"syscall_entry", "arguments"} =>
               Arguments(Shuffled(o.reg)) = call[p].asked
        /\ place = "syscall_dispatch" => Arguments(o.reg) = call[p].asked
        /\ place = "syscall_return" => o.reg["rax"] = call[p].result

\* Between SYSCALL and the frame, part of it is in the registers and in the
\* global scratch word.
EntryOK(p) ==
    own[p].rip[2] = "syscall_entry" =>
        /\ p = current /\ cpu = own[p]
        /\ user_stack_save = call[p].from.rsp
        /\ own[p].reg["rcx"] = call[p].from.rip
        /\ own[p].reg["r11"] = Rflags(p, call[p].from.if)
        /\ Callee(own[p].reg) = Callee(call[p].from.reg)

OwnOK(p) == PlaceOK(p) /\ CallOK(p) /\ EntryOK(p)

IrqFrame(p) == [kind |-> "irq", cpu |-> own[p]]

\* The CPU is in the own code of the current process, in schedule called from
\* it, or in the interrupt handler that interrupted it.
RunsOwn == ~Between /\ cpu = own[current] /\ Clear(current, Depth(current))

InSchedule ==
    /\ own[current].rip[2] \in {"yielded", "thread_yielded"}
    /\ cpu.rip = <<"schedule", own[current].rip[2], own[current].rip[3]>>
    /\ cpu.rsp = own[current].rsp /\ cpu.if = 0 /\ cpu.reg = own[current].reg
    /\ Clear(current, Depth(current))

InIrq ==
    /\ Running("irq_handler") /\ cpu.rsp = KernelSP(current, Depth(current) + 1)
    /\ cpu.if = 0 /\ own[current].rip[2] \notin Masked
    /\ stack[current][Depth(current) + 1] = IrqFrame(current)
    /\ Clear(current, Depth(current) + 1)

\* A process that waits for the CPU: its switch frame is where its PCB says, and
\* leads back to its own code or to the handler that interrupted it.
Suspended(p) ==
    LET d == Depth(p)
    IN  \/ /\ own[p].rip[2] \in {"wrapper", "yielded", "thread_yielded"}
           /\ saved[p] = KernelSP(p, d + 1)
           /\ stack[p][d + 1] = [kind |-> "switch", rip |-> own[p].rip, kept |-> Callee(own[p].reg)]
           /\ Clear(p, d + 1)
        \/ /\ own[p].rip[2] \notin Masked /\ stack[p][d + 1] = IrqFrame(p)
           /\ saved[p] = KernelSP(p, d + 2)
           /\ stack[p][d + 2].kind = "switch" /\ stack[p][d + 2].rip = At("irq_handler")
           /\ Clear(p, d + 2)

IsCpu(c) == /\ c = [rip |-> c.rip, rsp |-> c.rsp, if |-> c.if, reg |-> c.reg]
            /\ c.reg = [r \in GPR |-> c.reg[r]]

IsCall(c) == c = [from |-> c.from, asked |-> c.asked, got |-> c.got, result |-> c.result]

IsStack(st) == /\ st = [p \in Process \cup {Boot} |-> st[p]]
               /\ \A p \in Process \cup {Boot} : st[p] = [d \in 1..Room |-> st[p][d]]

Shape ==
    /\ current \in Process \cup {Boot} /\ current \notin dead
    /\ IsStack(stack)
    /\ saved = [p \in Process |-> saved[p]]
    /\ own = [p \in Process \cup {Boot} |-> own[p]]
    /\ call = [p \in Process |-> call[p]]
    /\ \A p \in Process : IsCall(call[p])
    /\ \A p \in Process \cup {Boot} : IsCpu(own[p])
    /\ IsCpu(cpu)

IInv ==
    /\ Shape
    /\ current \in Process => rsp0 = current /\ syscall_kstack_top = current
    /\ OwnAddressSpace
    /\ RunsOwn \/ InSchedule \/ InIrq
    /\ OwnOK(current)
    /\ \A p \in Process \ (dead \cup {current}) : OwnOK(p) /\ Suspended(p)
    /\ ArgumentsArrive

\* user/lib/syscall.asm:20 says "All other registers are preserved by the
\* kernel" (other than RAX, RCX and R11).
OthersPreserved ==
    [][Running("syscall_return") /\ cpu'.rip[1] = "user" =>
         \A r \in GPR \ {"rax", "rcx", "r11"} :
            cpu'.reg[r] = RawRegisters(call[current].from.reg, <<>>)[r]]_vars
===============================================================================
