---------------------------- MODULE ContextSteps ----------------------------
(***************************************************************************)
(* Lemmas about Context, for any number of processes and kernel threads,   *)
(* any set of system call numbers and programs of any length: the start,   *)
(* and the steps of a process in its own code and in a system call.        *)
(***************************************************************************)
EXTENDS Context, TLAPS

(* A process that neither runs nor is touched by a step stays ready to run. *)
LEMMA OthersKept ==
    ASSUME IInv, NEW p \in Process \ (dead \cup {current}),
           own'[p] = own[p], saved'[p] = saved[p],
           stack'[p] = stack[p], call'[p] = call[p]
    PROVE  OwnOK(p)' /\ Suspended(p)'
<1>1. OwnOK(p) /\ Suspended(p)
    BY DEF IInv
<1>2. Depth(p)' = Depth(p)
    BY DEF Depth
<1>3. own[p].rip[2] # "syscall_entry"
    BY <1>1 DEF OwnOK, EntryOK
<1>4. PlaceOK(p)' /\ CallOK(p)'
    BY <1>1, <1>2 DEF OwnOK, PlaceOK, CallOK, CallFrame
<1>5. OwnOK(p)'
    BY <1>3, <1>4 DEF OwnOK, EntryOK
<1>6. Suspended(p)'
    BY <1>1, <1>2 DEF Suspended, Clear, IrqFrame
<1>. QED BY <1>5, <1>6

LEMMA InitOK == Init => IInv
<1>. SUFFICES ASSUME Init PROVE IInv
    OBVIOUS
<1>1. Shape
    BY ContextAssumption, Zenon DEF Init, Shape, IsStack, Process, IsCpu, IsCall, NoCall, Filled, Cleared
<1>2. RunsOwn /\ OwnOK(current)
    <2>1. own[Boot] = cpu /\ current = Boot /\ cpu.rip = At("boot") /\ cpu.if = 1
          /\ cpu.rsp = KernelSP(Boot, 0)
        BY DEF Init
    <2>2. Depth(Boot) = 0
        BY <2>1 DEF Depth, At, InCall, InHandler
    <2>3. Clear(Boot, 0)
        BY DEF Clear, Init
    <2>4. RunsOwn
        BY <2>1, <2>2, <2>3 DEF RunsOwn, Between, Running, At
    <2>a. /\ own[Boot].rip = <<"kernel", "boot", 0>> /\ own[Boot].rsp = KernelSP(Boot, 0)
          /\ own[Boot].if = 1
        BY <2>1 DEF At
    <2>5. PlaceOK(Boot)
        BY <2>a, <2>2 DEF PlaceOK, Bare, InCall, InHandler, Masked
    <2>6. CallOK(Boot) /\ EntryOK(Boot)
        BY <2>a DEF CallOK, EntryOK, InCall, InHandler
    <2>. QED BY <2>1, <2>4, <2>5, <2>6 DEF OwnOK
<1>3. ASSUME NEW p \in Process PROVE OwnOK(p) /\ Suspended(p)
    <2>1. /\ own[p] = [rip |-> At("wrapper"), rsp |-> KernelSP(p, 0), if |-> 0, reg |-> Cleared]
          /\ saved[p] = KernelSP(p, 1)
          /\ stack[p] = [d \in 1..Room |-> IF d = 1 THEN InitialFrame ELSE None]
        BY ContextAssumption, Zenon DEF Init, Process
    <2>2. Depth(p) = 0
        BY <2>1 DEF Depth, At, InCall, InHandler
    <2>3. OwnOK(p)
        BY <2>1, <2>2 DEF OwnOK, PlaceOK, CallOK, EntryOK, At, Bare, InCall, InHandler, Masked
    <2>4. stack[p][1] = InitialFrame
        BY <2>1, ContextAssumption
    <2>5. InitialFrame = [kind |-> "switch", rip |-> own[p].rip, kept |-> Callee(own[p].reg)]
        BY <2>1 DEF InitialFrame, Callee, Cleared, GPR
    <2>6. Clear(p, 1)
        BY <2>1 DEF Clear
    <2>. QED BY <2>1, <2>2, <2>3, <2>4, <2>5, <2>6 DEF Suspended, At
<1>4. ArgumentsArrive /\ OwnAddressSpace
    BY ContextAssumption DEF Init, ArgumentsArrive, NoCall, OwnAddressSpace, Process
<1>5. current \notin Process
    BY ContextAssumption DEF Init, Process
<1>. QED BY <1>1, <1>2, <1>3, <1>4, <1>5 DEF IInv

(* Own code runs with what it left, on a stack that is clear above it. *)
LEMMA OwnCode ==
    ASSUME IInv, cpu.rip[1] # "schedule", cpu.rip # At("irq_handler")
    PROVE  /\ cpu = own[current] /\ Clear(current, Depth(current))
           /\ OwnOK(current) /\ IsCpu(cpu)
           /\ current \in Process \cup {Boot} /\ current \notin dead
<1>1. /\ current \in Process \cup {Boot} /\ current \notin dead
      /\ IsCpu(cpu) /\ IsCpu(own[current]) /\ OwnOK(current)
    BY DEF IInv, Shape
<1>2. ~InSchedule /\ ~InIrq
    BY DEF InSchedule, InIrq, Running
<1>. QED BY <1>1, <1>2 DEF IInv, RunsOwn

(* What a step of own code leaves alone, and the form of what it may change. *)
Untouched ==
    /\ current' = current /\ dead' = dead /\ saved' = saved
    /\ rsp0' = rsp0 /\ syscall_kstack_top' = syscall_kstack_top
    /\ \A p \in Process : p # current => stack'[p] = stack[p] /\ call'[p] = call[p]

Tables ==
    /\ IsStack(stack)
    /\ call = [p \in Process |-> call[p]]
    /\ \A p \in Process : IsCall(call[p])

(* A step of own code keeps the invariant if what it leaves is in order. *)
LEMMA OwnStepOK ==
    ASSUME IInv, Own, Untouched, Tables',
           IsCpu(cpu'), cpu'.rip[1] # "schedule", cpu'.rip # At("irq_handler"),
           PlaceOK(current)', CallOK(current)', EntryOK(current)',
           Clear(current, Depth(current))', OwnAddressSpace', ArgumentsArrive'
    PROVE  IInv'
<1>1. own = [p \in Process \cup {Boot} |-> own[p]] /\ current \in Process \cup {Boot}
      /\ \A p \in Process \cup {Boot} : IsCpu(own[p])
    BY SMTT(30) DEF IInv, Shape
<1>2. own'[current] = cpu' /\ \A p \in Process : p # current => own'[p] = own[p]
    BY <1>1 DEF Own
<1>3. ASSUME NEW p \in Process \ (dead \cup {current}) PROVE OwnOK(p)' /\ Suspended(p)'
    BY <1>2, <1>3, OthersKept DEF Untouched
<1>4. own' = [p \in Process \cup {Boot} |-> own'[p]]
    BY <1>1, Zenon DEF Own
<1>5. \A p \in Process \cup {Boot} : IsCpu(own'[p])
    BY <1>1 DEF Own
<1>6. Shape'
    BY <1>4, <1>5 DEF IInv, Shape, Untouched, Tables
<1>7. RunsOwn'
    BY <1>2 DEF RunsOwn, Between, Running, At, Untouched
<1>8. OwnOK(current)'
    BY DEF OwnOK
<1>9. \A p \in Process \ (dead' \cup {current'}) : OwnOK(p)' /\ Suspended(p)'
    BY <1>3 DEF Untouched
<1>. QED BY <1>6, <1>7, <1>8, <1>9 DEF IInv, Untouched

(* process_entry_wrapper *)
LEMMA WrapperOK == ASSUME IInv, Wrapper PROVE IInv'
<1>. DEFINE c == current
<1>1. cpu.rip = <<"kernel", "wrapper", 0>>
    BY DEF Wrapper, Running, At
<1>2. /\ cpu = own[c] /\ Clear(c, 0) /\ OwnOK(c) /\ IsCpu(cpu)
      /\ c \in Process \cup {Boot} /\ Depth(c) = 0
    BY <1>1, OwnCode DEF At, Depth, InCall, InHandler
<1>3. cpu.rsp = KernelSP(c, 0)
    BY <1>1, <1>2 DEF OwnOK, PlaceOK, Program
<1>4. /\ cpu'.rip \in {<<"kernel", "user_process_entry", 0>>, <<"kernel", "thread", 0>>}
      /\ cpu'.rip = <<"kernel", "user_process_entry", 0>> => c \in UserProc
      /\ cpu'.rsp = KernelSP(c, 0) /\ cpu'.if = 1 /\ IsCpu(cpu')
    BY <1>3, <1>2, Zenon DEF Wrapper, IsCpu, At
<1>5. own'[c] = cpu' /\ c' = c /\ stack' = stack /\ call' = call
    BY <1>2 DEF Wrapper, kernel, Own, IInv, Shape
<1>6. Depth(c)' = 0
    BY <1>4, <1>5 DEF Depth, InCall, InHandler
<1>7. PlaceOK(c)'
    BY <1>4, <1>5, <1>6 DEF PlaceOK, Bare, InCall, InHandler, Masked
<1>8. CallOK(c)' /\ EntryOK(c)'
    BY <1>4, <1>5 DEF CallOK, EntryOK, InCall, InHandler
<1>9. Clear(c, Depth(c))'
    BY <1>2, <1>5, <1>6 DEF Clear
<1>10. OwnAddressSpace' /\ ArgumentsArrive' /\ Untouched /\ Tables' /\ Own
    BY <1>5 DEF IInv, Shape, OwnAddressSpace, ArgumentsArrive, Wrapper, kernel, Untouched, Tables
<1>11. cpu'.rip[1] # "schedule" /\ cpu'.rip # At("irq_handler")
    BY <1>4 DEF At
<1>. QED
    BY <1>4, <1>5, <1>7, <1>8, <1>9, <1>10, <1>11, OwnStepOK

(* user_process_entry and user_mode_enter *)
LEMMA EnterUserOK == ASSUME IInv, EnterUser PROVE IInv'
<1>. DEFINE c == current
<1>1. cpu.rip = <<"kernel", "user_process_entry", 0>>
    BY DEF EnterUser, Running, At
<1>2. /\ cpu = own[c] /\ Clear(c, 0) /\ OwnOK(c)
      /\ c \in Process \cup {Boot} /\ Depth(c) = 0
    BY <1>1, OwnCode DEF At, Depth, InCall, InHandler
<1>3. c \in UserProc
    BY <1>1, <1>2 DEF OwnOK, PlaceOK
<1>4. cpu'.rip = Program(0) /\ cpu'.if = 1 /\ IsCpu(cpu')
    BY DEF EnterUser, user_mode_enter, IsCpu, Cleared
<1>5. own'[c] = cpu' /\ c' = c /\ stack' = stack /\ call' = call
    BY <1>2 DEF EnterUser, Own, IInv, Shape
<1>6. Depth(c)' = 0
    BY <1>4, <1>5 DEF Depth, InCall, InHandler, Program
<1>7. PlaceOK(c)'
    BY <1>3, <1>4, <1>5, <1>6 DEF PlaceOK, Bare, InCall, InHandler, Masked, Program
<1>8. CallOK(c)' /\ EntryOK(c)'
    BY <1>4, <1>5 DEF CallOK, EntryOK, InCall, InHandler, Program
<1>9. Clear(c, Depth(c))'
    BY <1>2, <1>5, <1>6 DEF Clear
<1>10. OwnAddressSpace' /\ ArgumentsArrive' /\ Untouched /\ Tables' /\ Own
    BY <1>5 DEF IInv, Shape, OwnAddressSpace, ArgumentsArrive, EnterUser, Untouched, Tables
<1>11. cpu'.rip[1] # "schedule" /\ cpu'.rip # At("irq_handler")
    BY <1>4 DEF At, Program
<1>. QED
    BY <1>4, <1>5, <1>7, <1>8, <1>9, <1>10, <1>11, OwnStepOK

(* Blocks of instructions of programs and of kernel threads *)
LEMMA ComputeOK == ASSUME IInv, Compute PROVE IInv'
<1>. DEFINE c == current
<1>1. PICK n \in 1..MaxSteps :
        \/ /\ cpu.rip = Program(n - 1)
           /\ cpu' = [cpu EXCEPT !.rip = Program(n), !.rsp = UserSP(current, n),
                                 !.reg = Filled(current, n)]
        \/ /\ cpu.rip = <<"kernel", "thread", n - 1>>
           /\ cpu' = [cpu EXCEPT !.rip = <<"kernel", "thread", n>>, !.reg = Filled(current, n)]
    BY Zenon DEF Compute
<1>2. /\ cpu = own[c] /\ Clear(c, 0) /\ OwnOK(c) /\ IsCpu(cpu)
      /\ c \in Process \cup {Boot} /\ Depth(c) = 0
    BY <1>1, OwnCode DEF At, Depth, InCall, InHandler, Program
<1>3. /\ cpu'.if = cpu.if /\ IsCpu(cpu')
      /\ \/ cpu.rip = Program(n - 1) /\ cpu'.rip = Program(n)
         \/ cpu.rip = <<"kernel", "thread", n - 1>> /\ cpu'.rip = <<"kernel", "thread", n>>
            /\ cpu'.rsp = cpu.rsp
    BY <1>1, <1>2, Zenon DEF IsCpu, Filled
<1>4. /\ cpu.if = 1 /\ n \in Nat
      /\ cpu.rip = Program(n - 1) => c \in UserProc
      /\ cpu.rip # Program(n - 1) => cpu.rsp = KernelSP(c, 0)
    BY <1>2, <1>3, ContextAssumption DEF OwnOK, PlaceOK, Masked, Program
<1>5. own'[c] = cpu' /\ c' = c /\ stack' = stack /\ call' = call
    BY <1>2 DEF Compute, kernel, Own, IInv, Shape
<1>6. Depth(c)' = 0
    BY <1>3, <1>5 DEF Depth, InCall, InHandler, Program
<1>7. PlaceOK(c)'
    BY <1>3, <1>4, <1>5, <1>6 DEF PlaceOK, Bare, InCall, InHandler, Masked, Program
<1>8. CallOK(c)' /\ EntryOK(c)'
    BY <1>3, <1>5 DEF CallOK, EntryOK, InCall, InHandler, Program
<1>9. Clear(c, Depth(c))'
    BY <1>2, <1>5, <1>6 DEF Clear
<1>10. OwnAddressSpace' /\ ArgumentsArrive' /\ Untouched /\ Tables' /\ Own
    BY <1>5 DEF IInv, Shape, OwnAddressSpace, ArgumentsArrive, Compute, kernel, Untouched, Tables
<1>11. cpu'.rip[1] # "schedule" /\ cpu'.rip # At("irq_handler")
    BY <1>3 DEF At, Program
<1>. QED
    BY <1>3, <1>5, <1>7, <1>8, <1>9, <1>10, <1>11, OwnStepOK

(* A kernel thread after its yield *)
LEMMA ThreadResumesOK == ASSUME IInv, ThreadResumes PROVE IInv'
<1>. DEFINE c == current
<1>1. cpu.rip[1] = "kernel" /\ cpu.rip[2] = "thread_yielded"
    BY DEF ThreadResumes
<1>2. /\ cpu = own[c] /\ Clear(c, 0) /\ OwnOK(c) /\ IsCpu(cpu)
      /\ c \in Process \cup {Boot} /\ Depth(c) = 0
    BY <1>1, OwnCode DEF At, Depth, InCall, InHandler
<1>3. /\ cpu.rsp = KernelSP(c, 0) /\ cpu.rip[3] \in Nat
      /\ cpu.rip = <<"kernel", "thread_yielded", cpu.rip[3]>>
    BY <1>1, <1>2 DEF OwnOK, PlaceOK, Program
<1>a. [cpu.rip EXCEPT ![2] = "thread"] = <<"kernel", "thread", cpu.rip[3]>>
    BY <1>3
<1>4. /\ cpu'.rip = <<"kernel", "thread", cpu.rip[3]>>
      /\ cpu'.rsp = KernelSP(c, 0) /\ cpu'.if = 1 /\ IsCpu(cpu')
    BY <1>a, <1>3, <1>2, Zenon DEF ThreadResumes, IsCpu
<1>5. own'[c] = cpu' /\ c' = c /\ stack' = stack /\ call' = call
    BY <1>2 DEF ThreadResumes, kernel, Own, IInv, Shape
<1>6. Depth(c)' = 0
    BY <1>4, <1>5 DEF Depth, InCall, InHandler
<1>7. PlaceOK(c)'
    BY <1>3, <1>4, <1>5, <1>6 DEF PlaceOK, Bare, InCall, InHandler, Masked
<1>8. CallOK(c)' /\ EntryOK(c)'
    BY <1>4, <1>5 DEF CallOK, EntryOK, InCall, InHandler
<1>9. Clear(c, Depth(c))'
    BY <1>2, <1>5, <1>6 DEF Clear
<1>10. OwnAddressSpace' /\ ArgumentsArrive' /\ Untouched /\ Tables' /\ Own
    BY <1>5 DEF IInv, Shape, OwnAddressSpace, ArgumentsArrive, ThreadResumes, kernel, Untouched, Tables
<1>11. cpu'.rip[1] # "schedule" /\ cpu'.rip # At("irq_handler")
    BY <1>4 DEF At
<1>. QED
    BY <1>4, <1>5, <1>7, <1>8, <1>9, <1>10, <1>11, OwnStepOK

(* The registers that syscall_raw and SYSCALL leave hold the arguments where
   syscall_entry looks for them. *)
LEMMA RawArguments ==
    ASSUME NEW reg, reg = [r \in GPR |-> reg[r]], NEW num, NEW rip, NEW flags
    PROVE  LET new == SyscallRegisters(RawRegisters(reg, num), rip, flags)
           IN  /\ new = [r \in GPR |-> new[r]]
               /\ new["rcx"] = rip /\ new["r11"] = flags
               /\ Callee(new) = Callee(reg)
               /\ Arguments(Shuffled(new)) = Asked(num, reg)
<1>. DEFINE raw == RawRegisters(reg, num)
            new == SyscallRegisters(raw, rip, flags)
<1>1. raw = [r \in GPR |-> raw[r]]
    BY Zenon DEF RawRegisters
<1>2. /\ raw["rax"] = num /\ raw["rdi"] = reg["rsi"] /\ raw["rsi"] = reg["rdx"]
      /\ raw["rdx"] = reg["rcx"] /\ raw["r10"] = reg["r8"] /\ raw["r9"] = reg["r9"]
      /\ \A r \in CalleeSaved : raw[r] = reg[r]
    BY DEF RawRegisters, GPR, CalleeSaved, CallerSaved
<1>. HIDE DEF raw
<1>a. new = [r \in GPR |-> new[r]]
    BY <1>1, Zenon DEF SyscallRegisters
<1>b. /\ new["rcx"] = rip /\ new["r11"] = flags
      /\ \A r \in GPR : r \notin {"rcx", "r11"} => new[r] = raw[r]
    BY <1>1 DEF SyscallRegisters, GPR, CallerSaved
<1>3. /\ new["rax"] = num /\ new["rdi"] = reg["rsi"] /\ new["rsi"] = reg["rdx"]
      /\ new["rdx"] = reg["rcx"] /\ new["r10"] = reg["r8"] /\ new["r9"] = reg["r9"]
      /\ \A r \in CalleeSaved : new[r] = reg[r]
    BY <1>b, <1>2 DEF GPR, CalleeSaved, CallerSaved
<1>. HIDE DEF new
<1>4. LET s == Shuffled(new)
      IN  /\ s["rdi"] = new["rax"] /\ s["rsi"] = new["rdi"] /\ s["rdx"] = new["rsi"]
          /\ s["rcx"] = new["rdx"] /\ s["r8"] = new["r10"] /\ s["r9"] = new["r9"]
    BY <1>a, Zenon DEF Shuffled, GPR, CalleeSaved, CallerSaved
<1>5. Arguments(Shuffled(new)) = Asked(num, reg)
    BY <1>3, <1>4 DEF Arguments, Asked
<1>7. Callee(new) = Callee(reg)
    BY <1>3 DEF Callee
<1>. QED BY <1>a, <1>b, <1>5, <1>7 DEF new, raw

(* syscall_raw, SYSCALL and the switch to the kernel stack *)
LEMMA SyscallOK == ASSUME IInv, Syscall PROVE IInv'
<1>. DEFINE c == current
            num(k) == <<c, k, "rdi">>
            from(n) == [rip |-> Program(n), rsp |-> UserSP(c, n), if |-> cpu.if,
                        reg |-> Filled(c, n)]
            new(k, n) == SyscallRegisters(RawRegisters(from(n).reg, num(k)), from(n).rip,
                                          Rflags(c, from(n).if))
<1>1. PICK k \in Calls, n \in 1..MaxSteps :
        /\ InUser /\ cpu.rip = Program(n - 1)
        /\ cpu' = [rip |-> At("syscall_entry"), rsp |-> KernelSP(syscall_kstack_top, 0),
                   if  |-> 0, reg |-> new(k, n)]
        /\ user_stack_save' = from(n).rsp
        /\ call' = [call EXCEPT ![c] = [from |-> from(n), asked |-> Asked(num(k), from(n).reg),
                                        got |-> <<>>, result |-> num(k)]]
    BY Zenon DEF Syscall, Sfmask
<1>2. /\ cpu = own[c] /\ Clear(c, 0) /\ OwnOK(c) /\ IsCpu(cpu)
      /\ c \in Process \cup {Boot} /\ Depth(c) = 0
    BY <1>1, OwnCode DEF At, Depth, InCall, InHandler, Program
<1>3. c \in UserProc /\ c \in Process /\ cpu.if = 1 /\ n \in Nat
    BY <1>1, <1>2, ContextAssumption DEF OwnOK, PlaceOK, Program, Process, Masked
<1>b. syscall_kstack_top = c
    BY <1>3 DEF IInv
<1>c. from(n).reg = [r \in GPR |-> from(n).reg[r]] /\ from(n).rip = Program(n) /\ from(n).if = 1
    BY <1>3 DEF Filled
<1>. HIDE DEF from, num
<1>d. /\ new(k, n) = [r \in GPR |-> new(k, n)[r]]
      /\ new(k, n)["rcx"] = Program(n) /\ new(k, n)["r11"] = Rflags(c, 1)
      /\ Callee(new(k, n)) = Callee(from(n).reg)
      /\ Arguments(Shuffled(new(k, n))) = Asked(num(k), from(n).reg)
    BY <1>c, RawArguments
<1>. HIDE DEF new
<1>e. call'[c] = [from |-> from(n), asked |-> Asked(num(k), from(n).reg),
                  got |-> <<>>, result |-> num(k)]
    BY <1>1, <1>3 DEF IInv, Shape
<1>f. /\ call'[c].from = from(n) /\ call'[c].got = <<>>
      /\ call'[c].asked = Asked(num(k), from(n).reg)
      /\ IsCall(call'[c])
    BY <1>e DEF IsCall
<1>g. /\ cpu'.rip = <<"kernel", "syscall_entry", 0>> /\ cpu'.rsp = KernelSP(c, 0)
      /\ cpu'.if = 0 /\ cpu'.reg = new(k, n) /\ IsCpu(cpu')
    BY <1>1, <1>b, <1>d DEF At, IsCpu
<1>5. own'[c] = cpu' /\ c' = c /\ stack' = stack
    BY <1>2 DEF Syscall, Own, IInv, Shape
<1>6. Depth(c)' = 0
    BY <1>g, <1>5 DEF Depth, InCall, InHandler
<1>7. PlaceOK(c)'
    BY <1>3, <1>g, <1>5, <1>6 DEF PlaceOK, Bare, InCall, InHandler, Masked
<1>8. CallOK(c)'
    <2>1. Arguments(Shuffled(own'[c].reg)) = call'[c].asked
        BY <1>g, <1>5, <1>d, <1>f
    <2>2. own'[c].rip[2] = "syscall_entry" /\ Program(n)[3] = n
        BY <1>g, <1>5 DEF Program
    <2>. QED BY <2>1, <2>2, <1>f, <1>c, <1>3, <1>5 DEF CallOK, InCall, InHandler
<1>h. EntryOK(c)'
    BY <1>1, <1>c, <1>g, <1>5, <1>d, <1>f DEF EntryOK
<1>9. Clear(c, Depth(c))'
    BY <1>2, <1>5, <1>6 DEF Clear
<1>i. call' = [p \in Process |-> call'[p]] /\ \A p \in Process : p # c => call'[p] = call[p]
    BY <1>1 DEF IInv, Shape
<1>j. \A p \in Process : IsCall(call'[p])
    BY <1>i, <1>f DEF IInv, Shape
<1>k. ArgumentsArrive'
    BY <1>i, <1>f DEF IInv, ArgumentsArrive
<1>l. Own /\ UNCHANGED <<current, stack, saved, rsp0, syscall_kstack_top, cr3, dead>>
    BY DEF Syscall
<1>10. OwnAddressSpace' /\ Untouched /\ Tables'
    BY <1>l, <1>i, <1>j DEF IInv, Shape, OwnAddressSpace, Untouched, Tables
<1>11. cpu'.rip[1] # "schedule" /\ cpu'.rip # At("irq_handler")
    BY <1>g DEF At
<1>. QED
    BY <1>g, <1>5, <1>7, <1>8, <1>h, <1>9, <1>k, <1>l, <1>10, <1>11, OwnStepOK

(* Writing one frame of one stack leaves every other frame alone. *)
LEMMA PutFrame ==
    ASSUME NEW st, IsStack(st), NEW p \in Process \cup {Boot}, NEW d \in 1..Room, NEW f,
           NEW new, new = Put(st, p, d, f)
    PROVE  /\ IsStack(new)
           /\ new[p][d] = f
           /\ \A e \in 1..Room : e # d => new[p][e] = st[p][e]
           /\ \A q \in Process \cup {Boot} : q # p => new[q] = st[q]
<1>1. st[p] = [e \in 1..Room |-> st[p][e]]
    BY Zenon DEF IsStack
<1>2. new[p] = [st[p] EXCEPT ![d] = f]
    BY DEF IsStack, Put
<1>3. new = [q \in Process \cup {Boot} |-> new[q]]
    BY Zenon DEF IsStack, Put
<1>4. \A q \in Process \cup {Boot} : q # p => new[q] = st[q]
    BY DEF IsStack, Put
<1>5. new[p] = [e \in 1..Room |-> new[p][e]]
    BY <1>1, <1>2, Zenon
<1>6. IsStack(new)
    BY <1>3, <1>4, <1>5, Zenon DEF IsStack
<1>7. new[p][d] = f /\ \A e \in 1..Room : e # d => new[p][e] = st[p][e]
    BY <1>1, <1>2
<1>. QED BY <1>4, <1>6, <1>7

(* Pushing a frame and popping one, on the stack of the process that runs. *)
(* Stacks new that differ from the present ones in frame e of process p *)
HasFrame(new, p, e, f) ==
    /\ IsStack(new)
    /\ new[p][e] = f
    /\ \A x \in 1..Room : x # e => new[p][x] = stack[p][x]
    /\ \A q \in Process \cup {Boot} : q # p => new[q] = stack[q]

LEMMA PushOne ==
    ASSUME Shape, NEW p \in Process \cup {Boot}, NEW d \in 0..(Room - 1), NEW f,
           NEW new, new = Pushed(KernelSP(p, d), f)
    PROVE  HasFrame(new, p, d + 1, f)
<1>1. new = Put(stack, p, d + 1, f)
    BY DEF Pushed, KernelSP
<1>2. IsStack(stack) /\ d + 1 \in 1..Room
    BY ContextAssumption DEF Shape
<1>. QED BY <1>1, <1>2, PutFrame DEF HasFrame

LEMMA PopOne ==
    ASSUME Shape, NEW p \in Process \cup {Boot}, NEW d \in 1..Room, cpu.rsp = KernelSP(p, d),
           NEW new, new = Popped
    PROVE  /\ IsStack(new) /\ Top = stack[p][d]
           /\ new[p][d] = None
           /\ \A e \in 1..Room : e # d => new[p][e] = stack[p][e]
           /\ \A q \in Process \cup {Boot} : q # p => new[q] = stack[q]
<1>1. new = Put(stack, p, d, None) /\ Top = stack[p][d]
    BY DEF Popped, Top, KernelSP
<1>2. IsStack(stack)
    BY DEF Shape
<1>. QED BY <1>1, <1>2, PutFrame

(* The frame of the system call *)
LEMMA PushFrameOK == ASSUME IInv, PushFrame PROVE IInv'
<1>. DEFINE c == current
            f == [kind |-> "syscall", rsp |-> user_stack_save,
                  r11 |-> cpu.reg["r11"], rcx |-> cpu.reg["rcx"],
                  kept |-> Callee(cpu.reg)]
<1>1. cpu.rip = <<"kernel", "syscall_entry", 0>>
    BY DEF PushFrame, Running, At
<1>2. /\ cpu = own[c] /\ Clear(c, 0) /\ OwnOK(c) /\ IsCpu(cpu)
      /\ c \in Process \cup {Boot} /\ Depth(c) = 0
    BY <1>1, OwnCode DEF At, Depth, InCall, InHandler
<1>3. c \in UserProc /\ c \in Process /\ cpu.rsp = KernelSP(c, 0)
    BY <1>1, <1>2 DEF OwnOK, PlaceOK, Program, Process
<1>4. /\ cpu'.rip = <<"kernel", "arguments", 0>> /\ cpu'.rsp = KernelSP(c, 1) /\ cpu'.if = 1
      /\ cpu'.reg = cpu.reg /\ IsCpu(cpu')
    <2>1. Up(cpu.rsp) = KernelSP(c, 1)
        BY <1>3 DEF Up, KernelSP
    <2>2. cpu' = [cpu EXCEPT !.rip = At("arguments"), !.rsp = KernelSP(c, 1), !.if = 1]
        BY <2>1 DEF PushFrame
    <2>. QED BY <2>2, <1>2, Zenon DEF IsCpu, At
<1>u. Own /\ stack' = Pushed(KernelSP(c, 0), f)
      /\ UNCHANGED <<current, saved, rsp0, syscall_kstack_top, user_stack_save, cr3, dead, call>>
    BY <1>3 DEF PushFrame
<1>5. own'[c] = cpu' /\ c' = c /\ call' = call
    BY <1>2, <1>u DEF Own, IInv, Shape
<1>a. /\ IsStack(stack') /\ stack'[c][1] = f
      /\ \A e \in 1..Room : e # 1 => stack'[c][e] = stack[c][e]
      /\ \A q \in Process \cup {Boot} : q # c => stack'[q] = stack[q]
    <2>1. Shape /\ 0 \in 0..(Room - 1) /\ 0 + 1 = 1
        BY ContextAssumption DEF IInv
    <2>. HIDE DEF f
    <2>2. HasFrame(stack', c, 1, f)
        BY <2>1, <1>u, <1>2, PushOne
    <2>. QED BY <2>2 DEF HasFrame
<1>6. Depth(c)' = 1
    BY <1>4, <1>5 DEF Depth, InCall, InHandler
<1>7. PlaceOK(c)'
    BY <1>3, <1>4, <1>5, <1>6 DEF PlaceOK, Bare, InCall, InHandler, Masked
<1>b. f = CallFrame(c)
    BY <1>1, <1>2 DEF OwnOK, EntryOK, CallFrame
<1>8. CallOK(c)'
    <2>1. /\ call[c].from.rip = Program(call[c].from.rip[3])
          /\ call[c].from.rip[3] \in Nat
          /\ call[c].from.if = 1
          /\ Arguments(Shuffled(cpu.reg)) = call[c].asked
        BY <1>1, <1>2 DEF OwnOK, CallOK
    <2>2. own'[c].rip[2] = "arguments" /\ own'[c].reg = cpu.reg
        BY <1>4, <1>5
    <2>3. stack'[c][1] = CallFrame(c)'
        BY <1>a, <1>b, <1>5 DEF CallFrame
    <2>. QED BY <2>1, <2>2, <2>3, <1>5 DEF CallOK, InCall, InHandler
<1>h. EntryOK(c)'
    BY <1>4, <1>5 DEF EntryOK
<1>9. Clear(c, Depth(c))'
    BY <1>2, <1>5, <1>6, <1>a DEF Clear
<1>10. OwnAddressSpace' /\ ArgumentsArrive' /\ Untouched /\ Tables'
    BY <1>u, <1>a DEF IInv, Shape, OwnAddressSpace, ArgumentsArrive, Untouched, Tables
<1>11. cpu'.rip[1] # "schedule" /\ cpu'.rip # At("irq_handler")
    BY <1>4 DEF At
<1>. QED
    BY <1>4, <1>5, <1>7, <1>8, <1>h, <1>9, <1>u, <1>10, <1>11, OwnStepOK

(* The moves before the C call *)
LEMMA ShuffleOK == ASSUME IInv, Shuffle PROVE IInv'
<1>. DEFINE c == current
<1>1. cpu.rip = <<"kernel", "arguments", 0>>
    BY DEF Shuffle, Running, At
<1>2. /\ cpu = own[c] /\ Clear(c, 1) /\ OwnOK(c) /\ IsCpu(cpu)
      /\ c \in Process \cup {Boot} /\ Depth(c) = 1
    BY <1>1, OwnCode DEF At, Depth, InCall, InHandler
<1>3. c \in UserProc /\ cpu.rsp = KernelSP(c, 1) /\ cpu.if = 1
    BY <1>1, <1>2 DEF OwnOK, PlaceOK, Program, Masked, InCall
<1>a. Shuffled(cpu.reg) = [r \in GPR |-> Shuffled(cpu.reg)[r]]
    BY <1>2, Zenon DEF Shuffled, IsCpu
<1>4. /\ cpu'.rip = <<"kernel", "syscall_dispatch", 0>> /\ cpu'.rsp = KernelSP(c, 1)
      /\ cpu'.if = 1 /\ cpu'.reg = Shuffled(cpu.reg) /\ IsCpu(cpu')
    BY <1>2, <1>3, <1>a, Zenon DEF Shuffle, IsCpu, At
<1>5. own'[c] = cpu' /\ c' = c /\ stack' = stack /\ call' = call
    BY <1>2 DEF Shuffle, kernel, Own, IInv, Shape
<1>6. Depth(c)' = 1
    BY <1>4, <1>5 DEF Depth, InCall, InHandler
<1>7. PlaceOK(c)'
    BY <1>3, <1>4, <1>5, <1>6 DEF PlaceOK, Bare, InCall, InHandler, Masked
<1>8. CallOK(c)'
    BY <1>1, <1>2, <1>4, <1>5 DEF OwnOK, CallOK, CallFrame, InCall, InHandler
<1>h. EntryOK(c)'
    BY <1>4, <1>5 DEF EntryOK
<1>9. Clear(c, Depth(c))'
    BY <1>2, <1>5, <1>6 DEF Clear
<1>10. OwnAddressSpace' /\ ArgumentsArrive' /\ Untouched /\ Tables' /\ Own
    BY <1>5 DEF IInv, Shape, OwnAddressSpace, ArgumentsArrive, Shuffle, kernel, Untouched, Tables
<1>11. cpu'.rip[1] # "schedule" /\ cpu'.rip # At("irq_handler")
    BY <1>4 DEF At
<1>. QED
    BY <1>4, <1>5, <1>7, <1>8, <1>h, <1>9, <1>10, <1>11, OwnStepOK

(* syscall_dispatch calls the handler *)
LEMMA DispatchOK == ASSUME IInv, Dispatch PROVE IInv'
<1>. DEFINE c == current
            f == [kind |-> "C", kept |-> Callee(cpu.reg)]
<1>1. cpu.rip = <<"kernel", "syscall_dispatch", 0>>
    BY DEF Dispatch, Running, At
<1>2. /\ cpu = own[c] /\ Clear(c, 1) /\ OwnOK(c) /\ IsCpu(cpu)
      /\ c \in Process \cup {Boot} /\ Depth(c) = 1
    BY <1>1, OwnCode DEF At, Depth, InCall, InHandler
<1>3. c \in UserProc /\ c \in Process /\ cpu.rsp = KernelSP(c, 1) /\ cpu.if = 1
    BY <1>1, <1>2 DEF OwnOK, PlaceOK, Program, Masked, InCall, Process
<1>4. PICK place \in {"ENOSYS", "sys_exit", "sys_yield", "handler"} :
        /\ cpu'.rip = <<"kernel", place, 0>> /\ cpu'.rsp = KernelSP(c, 2) /\ cpu'.if = 1
        /\ IsCpu(cpu')
    <2>1. Up(cpu.rsp) = KernelSP(c, 2)
        BY <1>3 DEF Up, KernelSP
    <2>2. \E place \in {"ENOSYS", "sys_exit", "sys_yield", "handler"} :
            cpu' = [cpu EXCEPT !.rip = At(place), !.rsp = Up(cpu.rsp), !.reg = Filled(Boot, 0)]
        <3>1. Handler(cpu.reg["rdi"][2]) \in {"ENOSYS", "sys_exit", "sys_yield", "handler"}
            BY DEF Handler
        <3>. QED BY <3>1, Zenon DEF Dispatch
    <2>. QED BY <2>1, <2>2, <1>2, <1>3, Zenon DEF IsCpu, At, Filled
<1>u. Own /\ stack' = Pushed(KernelSP(c, 1), f)
      /\ call' = [call EXCEPT ![c].got = Arguments(cpu.reg)]
      /\ UNCHANGED <<current, saved, rsp0, syscall_kstack_top, user_stack_save, cr3, dead>>
    BY <1>3 DEF Dispatch
<1>5. own'[c] = cpu' /\ c' = c
    BY <1>2, <1>u DEF Own, IInv, Shape
<1>a. /\ IsStack(stack') /\ stack'[c][2] = f
      /\ \A e \in 1..Room : e # 2 => stack'[c][e] = stack[c][e]
      /\ \A q \in Process \cup {Boot} : q # c => stack'[q] = stack[q]
    <2>1. Shape /\ 1 \in 0..(Room - 1) /\ 1 + 1 = 2
        BY ContextAssumption DEF IInv
    <2>. HIDE DEF f
    <2>2. HasFrame(stack', c, 2, f)
        BY <2>1, <1>u, <1>2, PushOne, Zenon
    <2>. QED BY <2>2 DEF HasFrame
<1>b. /\ call'[c].from = call[c].from /\ call'[c].asked = call[c].asked
      /\ call'[c].got = Arguments(cpu.reg) /\ IsCall(call'[c])
      /\ \A p \in Process : p # c => call'[p] = call[p]
      /\ call' = [p \in Process |-> call'[p]]
    BY <1>u, <1>3 DEF IInv, Shape, IsCall
<1>6. Depth(c)' = 2
    BY <1>4, <1>5 DEF Depth, InCall, InHandler
<1>7. PlaceOK(c)'
    BY <1>3, <1>4, <1>5, <1>6 DEF PlaceOK, Bare, InCall, InHandler, Masked
<1>c. /\ stack[c][1] = CallFrame(c) /\ Arguments(cpu.reg) = call[c].asked
      /\ call[c].from.rip = Program(call[c].from.rip[3])
      /\ call[c].from.rip[3] \in Nat
      /\ call[c].from.if = 1
    BY <1>1, <1>2 DEF OwnOK, CallOK, InCall
<1>8. CallOK(c)'
    <2>1. stack'[c][1] = CallFrame(c)'
        BY <1>a, <1>b, <1>c, <1>5, ContextAssumption DEF CallFrame
    <2>2. stack'[c][2].kind = "C"
        BY <1>a
    <2>3. own'[c].rip[2] \in InHandler
        BY <1>4, <1>5 DEF InHandler
    <2>. QED BY <2>1, <2>2, <2>3, <1>b, <1>c, <1>5 DEF CallOK, InHandler
<1>h. EntryOK(c)'
    BY <1>4, <1>5 DEF EntryOK
<1>9. Clear(c, Depth(c))'
    BY <1>2, <1>5, <1>6, <1>a DEF Clear
<1>k. ArgumentsArrive'
    BY <1>b, <1>c DEF IInv, ArgumentsArrive
<1>j. \A p \in Process : IsCall(call'[p])
    BY <1>b DEF IInv, Shape
<1>10. OwnAddressSpace' /\ Untouched /\ Tables'
    BY <1>u, <1>a, <1>b, <1>j DEF IInv, OwnAddressSpace, Untouched, Tables
<1>11. cpu'.rip[1] # "schedule" /\ cpu'.rip # At("irq_handler")
    BY <1>4 DEF At
<1>. QED
    BY <1>4, <1>5, <1>7, <1>8, <1>h, <1>9, <1>k, <1>u, <1>10, <1>11, OwnStepOK

(* The handler returns to syscall_entry *)
LEMMA HandlerReturnOK == ASSUME IInv, HandlerReturn PROVE IInv'
<1>. DEFINE c == current
            rax == <<c, call[c].asked[1][2], "result">>
<1>1. PICK place \in {"handler", "ENOSYS", "yielded"} : cpu.rip = <<"kernel", place, 0>>
    BY DEF HandlerReturn, Running, At
<1>2. /\ cpu = own[c] /\ Clear(c, 2) /\ OwnOK(c) /\ IsCpu(cpu)
      /\ c \in Process \cup {Boot} /\ Depth(c) = 2
    BY <1>1, OwnCode DEF At, Depth, InCall, InHandler
<1>3. c \in UserProc /\ c \in Process /\ cpu.rsp = KernelSP(c, 2)
    BY <1>1, <1>2 DEF OwnOK, PlaceOK, Program, InHandler, Process
<1>4. /\ cpu'.rip = <<"kernel", "syscall_return", 0>> /\ cpu'.rsp = KernelSP(c, 1)
      /\ cpu'.if = 1 /\ cpu'.reg["rax"] = rax /\ IsCpu(cpu')
    <2>1. Down(cpu.rsp) = KernelSP(c, 1)
        BY <1>3 DEF Down, KernelSP
    <2>2. PICK kept : cpu' = [rip |-> At("syscall_return"), rsp |-> KernelSP(c, 1), if |-> 1,
                      reg |-> [Restored(cpu.reg, kept) EXCEPT !["rax"] = rax]]
        BY <2>1 DEF HandlerReturn
    <2>. HIDE DEF rax
    <2>3. cpu'.reg = [Restored(cpu.reg, kept) EXCEPT !["rax"] = rax]
        BY <2>2
    <2>4. cpu'.reg["rax"] = rax /\ cpu'.reg = [r \in GPR |-> cpu'.reg[r]]
        BY <2>3, Zenon DEF Restored, GPR, CallerSaved
    <2>. QED BY <2>2, <2>4 DEF IsCpu, At
<1>u. Own /\ stack' = Popped
      /\ call' = [call EXCEPT ![c].result = rax]
      /\ UNCHANGED <<current, saved, rsp0, syscall_kstack_top, user_stack_save, cr3, dead>>
    BY DEF HandlerReturn
<1>. HIDE DEF rax
<1>5. own'[c] = cpu' /\ c' = c
    BY <1>2, <1>u DEF Own, IInv, Shape
<1>a. /\ IsStack(stack') /\ stack'[c][2] = None
      /\ \A e \in 1..Room : e # 2 => stack'[c][e] = stack[c][e]
      /\ \A q \in Process \cup {Boot} : q # c => stack'[q] = stack[q]
    <2>1. Shape /\ 2 \in 1..Room
        BY ContextAssumption DEF IInv
    <2>. QED BY <2>1, <1>u, <1>2, <1>3, PopOne
<1>b. /\ call'[c].from = call[c].from /\ call'[c].asked = call[c].asked
      /\ call'[c].got = call[c].got /\ call'[c].result = rax /\ IsCall(call'[c])
      /\ \A p \in Process : p # c => call'[p] = call[p]
      /\ call' = [p \in Process |-> call'[p]]
    BY <1>u, <1>3 DEF IInv, Shape, IsCall
<1>6. Depth(c)' = 1
    BY <1>4, <1>5 DEF Depth, InCall, InHandler
<1>7. PlaceOK(c)'
    BY <1>3, <1>4, <1>5, <1>6 DEF PlaceOK, Bare, InCall, InHandler, Masked
<1>c. /\ stack[c][1] = CallFrame(c)
      /\ call[c].from.rip = Program(call[c].from.rip[3])
      /\ call[c].from.rip[3] \in Nat
      /\ call[c].from.if = 1
    BY <1>1, <1>2 DEF OwnOK, CallOK, InHandler
<1>8. CallOK(c)'
    <2>1. stack'[c][1] = CallFrame(c)'
        BY <1>a, <1>b, <1>c, <1>5, ContextAssumption DEF CallFrame
    <2>2. own'[c].rip[2] = "syscall_return" /\ own'[c].reg["rax"] = call'[c].result
        BY <1>4, <1>5, <1>b
    <2>. QED BY <2>1, <2>2, <1>b, <1>c, <1>5 DEF CallOK, InHandler
<1>h. EntryOK(c)'
    BY <1>4, <1>5 DEF EntryOK
<1>9. Clear(c, Depth(c))'
    BY <1>2, <1>5, <1>6, <1>a DEF Clear
<1>k. ArgumentsArrive'
    BY <1>b DEF IInv, ArgumentsArrive
<1>j. \A p \in Process : IsCall(call'[p])
    BY <1>b DEF IInv, Shape
<1>10. OwnAddressSpace' /\ Untouched /\ Tables'
    BY <1>u, <1>a, <1>b, <1>j DEF IInv, OwnAddressSpace, Untouched, Tables
<1>11. cpu'.rip[1] # "schedule" /\ cpu'.rip # At("irq_handler")
    BY <1>4 DEF At
<1>. QED
    BY <1>4, <1>5, <1>7, <1>8, <1>h, <1>9, <1>k, <1>u, <1>10, <1>11, OwnStepOK

(* The registers SYSRET leaves: the callee-saved ones of the frame, RAX as the
   handler left it. *)
LEMMA ReturnRegisters ==
    ASSUME NEW reg, NEW kept, NEW rcx, NEW r11, NEW new,
           new = SyscallRegisters(Restored(reg, kept), rcx, r11)
    PROVE  /\ new = [r \in GPR |-> new[r]]
           /\ new["rax"] = reg["rax"]
           /\ \A r \in CalleeSaved : new[r] = kept[r]
BY Zenon DEF SyscallRegisters, Restored, GPR, CalleeSaved, CallerSaved

(* At syscall_return the frame on top of the stack leads back to the program *)
LEMMA AtReturn ==
    ASSUME IInv, Running("syscall_return")
    PROVE  /\ current \in UserProc /\ current \in Process
           /\ cpu = own[current] /\ cpu.rsp = KernelSP(current, 1)
           /\ Top = CallFrame(current) /\ Clear(current, 1)
           /\ call[current].from.rip = Program(call[current].from.rip[3])
           /\ call[current].from.rip[3] \in Nat
           /\ call[current].from.if = 1
           /\ cpu.reg["rax"] = call[current].result
<1>. DEFINE c == current
<1>1. cpu.rip = <<"kernel", "syscall_return", 0>>
    BY DEF Running, At
<1>2. /\ cpu = own[c] /\ Clear(c, 1) /\ OwnOK(c) /\ c \in Process \cup {Boot} /\ Depth(c) = 1
    BY <1>1, OwnCode DEF At, Depth, InCall, InHandler
<1>3. c \in UserProc /\ c \in Process /\ cpu.rsp = KernelSP(c, 1)
    BY <1>1, <1>2 DEF OwnOK, PlaceOK, Program, InCall, Process
<1>4. Top = stack[c][1]
    BY <1>3 DEF Top, KernelSP
<1>5. /\ stack[c][1] = CallFrame(c)
      /\ call[c].from.rip = Program(call[c].from.rip[3])
      /\ call[c].from.rip[3] \in Nat
      /\ call[c].from.if = 1
      /\ cpu.reg["rax"] = call[c].result
    BY <1>1, <1>2 DEF OwnOK, CallOK, InCall
<1>. QED BY <1>2, <1>3, <1>4, <1>5

(* SYSRET *)
LEMMA SysRetOK == ASSUME IInv, SysRet PROVE IInv'
<1>. DEFINE c == current
            from == call[c].from
<1>1. /\ c \in UserProc /\ c \in Process /\ cpu.rsp = KernelSP(c, 1) /\ Clear(c, 1)
      /\ Top = CallFrame(c)
      /\ from.rip = Program(from.rip[3]) /\ from.rip[3] \in Nat /\ from.if = 1
    BY AtReturn DEF SysRet
<1>2. Top.rcx = from.rip /\ Top.rsp = from.rsp /\ Top.r11[2] = 1
    BY <1>1 DEF CallFrame, Rflags
<1>3. cpu' = [rip |-> from.rip, rsp |-> from.rsp, if |-> 1,
              reg |-> SyscallRegisters(Restored(cpu.reg, Top.kept), Top.rcx, Top.r11)]
    BY <1>2, Zenon DEF SysRet
<1>4. cpu'.rip = Program(from.rip[3]) /\ cpu'.if = 1 /\ IsCpu(cpu')
    BY <1>1, <1>3, ReturnRegisters DEF IsCpu
<1>u. Own /\ stack' = Popped
      /\ call' = [call EXCEPT ![c] = NoCall]
      /\ UNCHANGED <<current, saved, rsp0, syscall_kstack_top, user_stack_save, cr3, dead>>
    BY DEF SysRet
<1>5. own'[c] = cpu' /\ c' = c
    BY <1>1, <1>u DEF Own, IInv, Shape
<1>a. /\ IsStack(stack') /\ stack'[c][1] = None
      /\ \A e \in 1..Room : e # 1 => stack'[c][e] = stack[c][e]
      /\ \A q \in Process \cup {Boot} : q # c => stack'[q] = stack[q]
    <2>1. Shape /\ 1 \in 1..Room
        BY ContextAssumption DEF IInv
    <2>. QED BY <2>1, <1>u, <1>1, PopOne
<1>b. /\ call'[c] = NoCall
      /\ \A p \in Process : p # c => call'[p] = call[p]
      /\ call' = [p \in Process |-> call'[p]]
    BY <1>u, <1>1 DEF IInv, Shape
<1>6. Depth(c)' = 0
    BY <1>4, <1>5 DEF Depth, InCall, InHandler, Program
<1>7. PlaceOK(c)'
    BY <1>1, <1>4, <1>5, <1>6 DEF PlaceOK, Bare, InCall, InHandler, Masked, Program
<1>8. CallOK(c)' /\ EntryOK(c)'
    BY <1>4, <1>5 DEF CallOK, EntryOK, InCall, InHandler, Program
<1>9. Clear(c, Depth(c))'
    BY <1>1, <1>5, <1>6, <1>a DEF Clear
<1>c. NoCall.got = <<>> /\ IsCall(NoCall)
    BY DEF NoCall, IsCall
<1>k. ArgumentsArrive'
    BY <1>b, <1>c DEF IInv, ArgumentsArrive
<1>j. \A p \in Process : IsCall(call'[p])
    BY <1>b, <1>c DEF IInv, Shape
<1>10. OwnAddressSpace' /\ Untouched /\ Tables'
    BY <1>u, <1>a, <1>b, <1>j DEF IInv, OwnAddressSpace, Untouched, Tables
<1>11. cpu'.rip[1] # "schedule" /\ cpu'.rip # At("irq_handler")
    BY <1>4 DEF At, Program
<1>. QED
    BY <1>4, <1>5, <1>7, <1>8, <1>9, <1>k, <1>u, <1>10, <1>11, OwnStepOK, Zenon
=============================================================================
