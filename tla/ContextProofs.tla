--------------------------- MODULE ContextProofs ----------------------------
(***************************************************************************)
(* Proofs about Context, for any number of processes and kernel threads,   *)
(* any set of system call numbers and programs of any length: interrupts   *)
(* and switches, and what follows for every behaviour.                     *)
(***************************************************************************)
EXTENDS ContextSteps

(* The own code of a process is in order as long as its frames stay. *)
LEMMA OwnOKKept ==
    ASSUME NEW p \in Process \cup {Boot}, OwnOK(p), own[p].rip[2] # "syscall_entry",
           own'[p].rip = own[p].rip, own'[p].rsp = own[p].rsp, own'[p].if = own[p].if,
           \/ own'[p].reg = own[p].reg
           \/ own[p].rip[2] \in {"wrapper", "yielded", "thread_yielded"},
           call' = call,
           \A e \in 1..Room : e <= Depth(p) => stack'[p][e] = stack[p][e]
    PROVE  OwnOK(p)' /\ Depth(p)' = Depth(p)
<1>1. Depth(p)' = Depth(p)
    BY DEF Depth
<1>2. /\ own[p].rip[2] \in InCall \cup InHandler => Depth(p) \in {1, 2}
      /\ own[p].rip[2] \in InHandler => Depth(p) = 2
    BY DEF Depth, InCall, InHandler
<1>3. /\ own[p].rip[2] \in InCall \cup InHandler => stack'[p][1] = stack[p][1]
      /\ own[p].rip[2] \in InHandler => stack'[p][2] = stack[p][2]
    BY <1>2, ContextAssumption
<1>4. PlaceOK(p)'
    BY <1>1 DEF OwnOK, PlaceOK
<1>5. CallOK(p)'
    BY <1>3 DEF OwnOK, CallOK, CallFrame, InCall
<1>6. EntryOK(p)'
    BY DEF EntryOK
<1>. QED BY <1>1, <1>4, <1>5, <1>6 DEF OwnOK

(* A step of the kernel on behalf of nobody keeps the invariant if the CPU and
   the stack of the current process are in order. *)
LEMMA KernelStepOK ==
    ASSUME IInv, IsCpu(cpu'), own' = own, call' = call, IsStack(stack'),
           UNCHANGED <<current, saved, rsp0, syscall_kstack_top, cr3, dead>>,
           \A q \in Process \cup {Boot} : q # current => stack'[q] = stack[q],
           OwnOK(current)', (RunsOwn \/ InSchedule \/ InIrq)'
    PROVE  IInv'
<1>1. ASSUME NEW p \in Process \ (dead \cup {current}) PROVE OwnOK(p)' /\ Suspended(p)'
    BY <1>1, OthersKept
<1>2. Shape'
    BY DEF IInv, Shape
<1>3. OwnAddressSpace' /\ ArgumentsArrive'
    BY DEF IInv, OwnAddressSpace, ArgumentsArrive
<1>4. \A p \in Process \ (dead' \cup {current'}) : OwnOK(p)' /\ Suspended(p)'
    BY <1>1
<1>5. (current \in Process => rsp0 = current /\ syscall_kstack_top = current)'
    BY DEF IInv
<1>. QED BY <1>2, <1>3, <1>4, <1>5 DEF IInv

(* An interrupt is accepted *)
LEMMA InterruptOK == ASSUME IInv, Interrupt PROVE IInv'
<1>. DEFINE c == current
            d == Depth(c)
            f == [kind |-> "irq", cpu |-> cpu]
<1>1. cpu.if = 1
    BY DEF Interrupt
<1>2. ~InSchedule /\ ~InIrq
    BY <1>1 DEF InSchedule, InIrq
<1>3. /\ RunsOwn /\ OwnOK(c) /\ c \in Process \cup {Boot}
    BY <1>2 DEF IInv, Shape
<1>4. cpu = own[c] /\ Clear(c, d)
    BY <1>3 DEF RunsOwn
<1>5. /\ own[c].rip[2] \notin Masked
      /\ InUser => c \in UserProc /\ d = 0
      /\ ~InUser => cpu.rsp = KernelSP(c, d)
    <2>1. PlaceOK(c)
        BY <1>3 DEF OwnOK
    <2>. QED BY <2>1, <1>1, <1>4 DEF PlaceOK, Program, InUser, Depth, InCall, InHandler
<1>6. (IF InUser THEN KernelSP(rsp0, 0) ELSE cpu.rsp) = KernelSP(c, d)
    BY <1>5 DEF IInv, Process
<1>7. d \in 0..2 /\ d \in 0..(Room - 1) /\ d + 1 \in 1..Room
    BY ContextAssumption DEF Depth
<1>. HIDE DEF d
<1>u. /\ stack' = Pushed(KernelSP(c, d), f)
      /\ cpu' = [rip |-> At("irq_handler"), rsp |-> Up(KernelSP(c, d)), if |-> 0,
                 reg |-> Filled(Boot, 0)]
      /\ own' = own /\ call' = call
      /\ UNCHANGED <<current, saved, rsp0, syscall_kstack_top, cr3, dead>>
    BY <1>6 DEF Interrupt, InterruptGate
<1>8. /\ cpu'.rip = At("irq_handler") /\ cpu'.rsp = KernelSP(c, d + 1) /\ cpu'.if = 0
      /\ IsCpu(cpu')
    BY <1>u DEF Up, KernelSP, IsCpu, Filled
<1>a. /\ IsStack(stack') /\ stack'[c][d + 1] = f
      /\ \A e \in 1..Room : e # d + 1 => stack'[c][e] = stack[c][e]
      /\ \A q \in Process \cup {Boot} : q # c => stack'[q] = stack[q]
    <2>1. Shape
        BY DEF IInv
    <2>. HIDE DEF f
    <2>2. HasFrame(stack', c, d + 1, f)
        BY <2>1, <1>u, <1>3, <1>7, PushOne
    <2>. QED BY <2>2 DEF HasFrame
<1>9. OwnOK(c)' /\ Depth(c)' = d
    <2>1. own[c].rip[2] # "syscall_entry"
        BY <1>5 DEF Masked
    <2>2. \A e \in 1..Room : e <= Depth(c) => stack'[c][e] = stack[c][e]
        BY <1>a, <1>7 DEF d
    <2>. QED BY <2>1, <2>2, <1>3, <1>u, OwnOKKept DEF d
<1>10. InIrq'
    <2>1. stack'[c][d + 1] = IrqFrame(c)'
        BY <1>a, <1>4, <1>u DEF IrqFrame
    <2>2. \A e \in 1..Room : e > d + 1 => stack'[c][e] = None
        BY <1>a, <1>4, <1>7 DEF Clear
    <2>. QED BY <2>1, <2>2, <1>5, <1>8, <1>9, <1>u, <1>a DEF InIrq, Running, Clear
<1>. QED BY <1>8, <1>9, <1>10, <1>a, <1>u, KernelStepOK

(* The facts in the interrupt handler *)
LEMMA AtHandler ==
    ASSUME IInv, Running("irq_handler")
    PROVE  InIrq /\ OwnOK(current) /\ current \in Process \cup {Boot}
<1>1. ~RunsOwn /\ ~InSchedule
    BY DEF Running, RunsOwn, Between, InSchedule, At
<1>. QED BY <1>1 DEF IInv, Shape

(* The interrupted code goes on *)
LEMMA InterruptReturnOK == ASSUME IInv, InterruptReturn PROVE IInv'
<1>. DEFINE c == current
            d == Depth(c)
<1>1. InIrq /\ OwnOK(c) /\ c \in Process \cup {Boot}
    BY AtHandler DEF InterruptReturn
<1>2. /\ cpu.rsp = KernelSP(c, d + 1) /\ own[c].rip[2] \notin Masked
      /\ stack[c][d + 1] = IrqFrame(c) /\ Clear(c, d + 1)
    BY <1>1 DEF InIrq
<1>3. d \in 0..2 /\ d + 1 \in 1..Room
    BY ContextAssumption DEF Depth
<1>. HIDE DEF d
<1>u. /\ stack' = Popped /\ cpu' = Top.cpu /\ own' = own /\ call' = call
      /\ UNCHANGED <<current, saved, rsp0, syscall_kstack_top, cr3, dead>>
    BY DEF InterruptReturn
<1>a. /\ IsStack(stack') /\ Top = stack[c][d + 1] /\ stack'[c][d + 1] = None
      /\ \A e \in 1..Room : e # d + 1 => stack'[c][e] = stack[c][e]
      /\ \A q \in Process \cup {Boot} : q # c => stack'[q] = stack[q]
    <2>1. Shape
        BY DEF IInv
    <2>. QED BY <2>1, <1>u, <1>1, <1>2, <1>3, PopOne
<1>4. cpu' = own[c] /\ IsCpu(cpu')
    <2>1. IsCpu(own[c])
        BY <1>1 DEF IInv, Shape
    <2>2. cpu' = own[c]
        BY <1>a, <1>2, <1>u DEF IrqFrame
    <2>. QED BY <2>1, <2>2
<1>9. OwnOK(c)' /\ Depth(c)' = d
    <2>1. own[c].rip[2] # "syscall_entry"
        BY <1>2 DEF Masked
    <2>2. \A e \in 1..Room : e <= Depth(c) => stack'[c][e] = stack[c][e]
        BY <1>a, <1>3 DEF d
    <2>. QED BY <2>1, <2>2, <1>1, <1>u, OwnOKKept DEF d
<1>10. RunsOwn'
    <2>1. \A e \in 1..Room : e > d => stack'[c][e] = None
        BY <1>a, <1>2, <1>3 DEF Clear
    <2>2. own[c].rip[1] \in {"user", "kernel"} /\ own[c].rip[2] # "irq_handler"
        BY <1>1 DEF OwnOK, PlaceOK, Program, Bare, InCall, InHandler
    <2>3. ~Between'
        BY <2>2, <1>4 DEF Between, Running, At
    <2>. QED BY <2>1, <2>3, <1>4, <1>9, <1>u, Zenon DEF RunsOwn, Clear
<1>. QED BY <1>4, <1>9, <1>10, <1>a, <1>u, KernelStepOK

(* process_yield and process_block switch interrupts off *)
LEMMA YieldOK == ASSUME IInv, Yield PROVE IInv'
<1>. DEFINE c == current
            back == IF cpu.rip[2] = "thread" THEN "thread_yielded" ELSE "yielded"
            n == cpu.rip[3]
<1>1. cpu.rip = <<"kernel", "sys_yield", 0>> \/ cpu.rip = <<"kernel", "thread", n>>
    BY DEF Yield, At
<1>2. /\ cpu = own[c] /\ Clear(c, Depth(c)) /\ OwnOK(c) /\ IsCpu(cpu)
      /\ c \in Process \cup {Boot}
    BY <1>1, OwnCode DEF At
<1>3. /\ cpu.rsp = KernelSP(c, Depth(c)) /\ n \in Nat
      /\ cpu.rip[2] = "sys_yield" => c \in UserProc
    BY <1>1, <1>2 DEF OwnOK, PlaceOK, Program, InHandler
<1>4. /\ cpu' = [cpu EXCEPT !.rip = <<"schedule", back, n>>, !.if = 0]
      /\ own' = [own EXCEPT ![c] = [cpu' EXCEPT !.rip = <<"kernel", back, n>>]]
      /\ UNCHANGED <<current, stack, saved, rsp0, syscall_kstack_top, cr3, dead, call>>
    BY DEF Yield, kernel
<1>5. /\ cpu'.rip = <<"schedule", back, n>> /\ cpu'.rsp = cpu.rsp /\ cpu'.if = 0
      /\ cpu'.reg = cpu.reg /\ IsCpu(cpu')
    BY <1>2, <1>4, Zenon DEF IsCpu
<1>6. /\ own'[c].rip = <<"kernel", back, n>> /\ own'[c].rsp = cpu.rsp /\ own'[c].if = 0
      /\ own'[c].reg = cpu.reg /\ IsCpu(own'[c])
    <2>1. own'[c] = [cpu' EXCEPT !.rip = <<"kernel", back, n>>]
        BY <1>4, <1>2 DEF IInv, Shape
    <2>. QED BY <2>1, <1>5 DEF IsCpu
<1>7. /\ own' = [p \in Process \cup {Boot} |-> own'[p]]
      /\ \A p \in Process \cup {Boot} : p # c => own'[p] = own[p]
    BY <1>4 DEF IInv, Shape
<1>8. /\ back \in {"yielded", "thread_yielded"}
      /\ back = "yielded" => cpu.rip = <<"kernel", "sys_yield", 0>>
    BY <1>1
<1>9. Depth(c)' = Depth(c)
    BY <1>1, <1>2, <1>6, <1>4 DEF Depth, InCall, InHandler
<1>10. PlaceOK(c)'
    BY <1>3, <1>4, <1>6, <1>8, <1>9 DEF PlaceOK, Bare, InCall, InHandler, Masked
<1>11. CallOK(c)' /\ EntryOK(c)'
    <2>1. own'[c].rip[2] = back
        BY <1>6
    <2>2. CASE back = "yielded"
        <3>1. /\ stack[c][1] = CallFrame(c) /\ stack[c][2].kind = "C"
              /\ call[c].from.rip = Program(call[c].from.rip[3])
              /\ call[c].from.rip[3] \in Nat
              /\ call[c].from.if = 1
            BY <2>2, <1>8, <1>2 DEF OwnOK, CallOK, InHandler
        <3>. QED BY <3>1, <2>1, <2>2, <1>4 DEF CallOK, EntryOK, CallFrame
    <2>3. CASE back = "thread_yielded"
        BY <2>1, <2>3, <1>4 DEF CallOK, EntryOK, InCall, InHandler
    <2>. QED BY <2>2, <2>3, <1>8
<1>12. InSchedule'
    <2>1. own'[c].rip[2] = back /\ own'[c].rip[3] = n
        BY <1>6
    <2>2. \A e \in 1..Room : e > Depth(c) => stack[c][e] = None
        BY <1>2 DEF Clear
    <2>. HIDE DEF back, n
    <2>. QED BY <2>1, <2>2, <1>4, <1>5, <1>6, <1>8, <1>9 DEF InSchedule, Clear
<1>13. ASSUME NEW p \in Process \ (dead \cup {current}) PROVE OwnOK(p)' /\ Suspended(p)'
    BY <1>7, <1>4, <1>13, OthersKept
<1>14. Shape'
    BY <1>4, <1>5, <1>6, <1>7, Zenon DEF IInv, Shape
<1>15. OwnAddressSpace' /\ ArgumentsArrive'
    BY <1>4 DEF IInv, OwnAddressSpace, ArgumentsArrive
<1>16. \A p \in Process \ (dead' \cup {current'}) : OwnOK(p)' /\ Suspended(p)'
    BY <1>13, <1>4
<1>17. (current \in Process => rsp0 = current /\ syscall_kstack_top = current)'
    BY <1>4 DEF IInv
<1>. QED BY <1>10, <1>11, <1>12, <1>14, <1>15, <1>16, <1>17, <1>4 DEF IInv, OwnOK

(* The facts in schedule, and its return when it does not switch *)
LEMMA AtSchedule ==
    ASSUME IInv, cpu.rip[1] = "schedule"
    PROVE  InSchedule /\ OwnOK(current) /\ current \in Process \cup {Boot}
           /\ <<"kernel", cpu.rip[2], cpu.rip[3]>> = own[current].rip
<1>1. ~RunsOwn /\ ~InIrq
    BY DEF Running, RunsOwn, Between, InIrq, At
<1>2. InSchedule /\ OwnOK(current) /\ current \in Process \cup {Boot}
    BY <1>1 DEF IInv, Shape
<1>3. own[current].rip = <<"kernel", own[current].rip[2], own[current].rip[3]>>
    BY <1>2 DEF InSchedule, OwnOK, PlaceOK, Program
<1>. QED BY <1>2, <1>3 DEF InSchedule

LEMMA ScheduleReturnsOK ==
    ASSUME IInv, cpu.rip[1] = "schedule",
           cpu' = [cpu EXCEPT !.rip = <<"kernel", cpu.rip[2], cpu.rip[3]>>],
           UNCHANGED <<current, kernel, own, call, dead>>
    PROVE  IInv'
<1>. DEFINE c == current
<1>1. InSchedule /\ OwnOK(c) /\ c \in Process \cup {Boot}
      /\ <<"kernel", cpu.rip[2], cpu.rip[3]>> = own[c].rip
    BY AtSchedule
<1>2. own[c].if = 0 /\ IsCpu(cpu) /\ IsCpu(own[c])
    <2>1. own[c].rip[2] \in Masked
        BY <1>1 DEF InSchedule, Masked
    <2>2. IsCpu(cpu) /\ IsCpu(own[c])
        BY <1>1 DEF IInv, Shape
    <2>. QED BY <2>1, <2>2, <1>1 DEF OwnOK, PlaceOK
<1>3. cpu.rsp = own[c].rsp /\ cpu.if = own[c].if /\ cpu.reg = own[c].reg
    BY <1>1, <1>2 DEF InSchedule
<1>4. cpu' = own[c]
    BY <1>1, <1>2, <1>3 DEF IsCpu
<1>5. own[c].rip[2] # "syscall_entry" /\ own[c].rip[2] # "irq_handler" /\ own[c].rip[1] = "kernel"
    BY <1>1 DEF InSchedule
<1>6. OwnOK(c)' /\ Depth(c)' = Depth(c)
    BY <1>1, <1>5, OwnOKKept DEF kernel
<1>7. RunsOwn'
    <2>1. ~Between'
        <3>1. cpu'.rip[1] = "kernel" /\ cpu'.rip[2] # "irq_handler"
            BY <1>4, <1>5, Zenon
        <3>. QED BY <3>1 DEF Between, Running, At
    <2>. QED BY <2>1, <1>1, <1>4, <1>6 DEF RunsOwn, InSchedule, Clear, kernel
<1>8. IsStack(stack')
    BY DEF IInv, Shape, kernel
<1>. QED BY <1>2, <1>4, <1>6, <1>7, <1>8, KernelStepOK DEF kernel

(* A process that left the CPU from kernel code running with interrupts off  *)
(* stands at its depth on its own kernel stack.                              *)
LEMMA MaskedPlace ==
    ASSUME NEW p, PlaceOK(p), own[p].rip[2] \in {"wrapper", "yielded", "thread_yielded"}
    PROVE  own[p].rsp = KernelSP(p, Depth(p)) /\ own[p].if = 0 /\ own[p].rip[1] = "kernel"
BY DEF PlaceOK, Masked, Program

(* The process that a switch picks runs where it was left *)
LEMMA PickedOK ==
    ASSUME IInv, NEW q \in Process \ (dead \cup {current}), NEW st, IsStack(st),
           st[q] = stack[q], Load(q, st)
    PROVE  /\ IsStack(stack') /\ IsCpu(cpu') /\ IsCpu(own'[q])
           /\ own' = [p \in Process \cup {Boot} |-> own'[p]]
           /\ \A p \in Process \cup {Boot} : p # q => own'[p] = own[p] /\ stack'[p] = st[p]
           /\ OwnOK(q)'
           /\ (RunsOwn \/ InIrq)'
<1>. DEFINE d == Depth(q)
            f == stack[q][saved[q][3]]
            kept == Restored(Filled(Boot, 0), f.kept)
<1>1. OwnOK(q) /\ Suspended(q) /\ IsCpu(own[q]) /\ q \in Process
    BY DEF IInv, Shape
<1>2. d \in 0..2 /\ d + 1 \in 1..Room /\ d + 2 \in 1..Room
    BY ContextAssumption DEF Depth
<1>3. PICK k \in {d + 1, d + 2} : saved[q] = KernelSP(q, k)
    BY <1>1 DEF Suspended
<1>. HIDE DEF d
<1>4. k \in 1..Room /\ saved[q][2] = q /\ saved[q][3] = k /\ Down(saved[q]) = KernelSP(q, k - 1)
    BY <1>2, <1>3 DEF KernelSP, Down
<1>5. /\ stack' = Put(st, q, k, None) /\ current' = q /\ call' = call
      /\ cpu' = [rip |-> f.rip, rsp |-> KernelSP(q, k - 1), if |-> 0, reg |-> kept]
      /\ own' = IF f.rip = At("irq_handler") THEN own
                ELSE [own EXCEPT ![q].reg = Restored(Filled(Boot, 0), Callee(@))]
    BY <1>4 DEF Load
<1>6. /\ IsStack(stack') /\ stack'[q][k] = None
      /\ \A e \in 1..Room : e # k => stack'[q][e] = stack[q][e]
      /\ \A p \in Process \cup {Boot} : p # q => stack'[p] = st[p]
    BY <1>1, <1>4, <1>5, PutFrame
<1>7. kept = [r \in GPR |-> kept[r]]
    BY DEF Restored
<1>. HIDE DEF kept
<1>8. /\ cpu'.rip = f.rip /\ cpu'.rsp = KernelSP(q, k - 1) /\ cpu'.if = 0 /\ cpu'.reg = kept
      /\ IsCpu(cpu')
    BY <1>5, <1>7 DEF IsCpu
<1>9. CASE /\ own[q].rip[2] \in {"wrapper", "yielded", "thread_yielded"}
           /\ saved[q] = KernelSP(q, d + 1)
           /\ stack[q][d + 1] = [kind |-> "switch", rip |-> own[q].rip, kept |-> Callee(own[q].reg)]
           /\ Clear(q, d + 1)
    <2>1. k = d + 1
        BY <1>9, <1>4 DEF KernelSP
    <2>2. f.rip = own[q].rip /\ f.kept = Callee(own[q].reg) /\ f.rip # At("irq_handler")
        BY <1>9, <2>1, <1>4 DEF At
    <2>3. own' = [own EXCEPT ![q].reg = Restored(Filled(Boot, 0), Callee(own[q].reg))]
        BY <2>2, <1>5
    <2>4. kept = Restored(Filled(Boot, 0), Callee(own[q].reg))
        BY <2>2 DEF kept
    <2>5. /\ own'[q] = [own[q] EXCEPT !.reg = kept]
          /\ own' = [p \in Process \cup {Boot} |-> own'[p]]
          /\ \A p \in Process \cup {Boot} : p # q => own'[p] = own[p]
        BY <2>3, <2>4, <1>1, Zenon DEF IInv, Shape
    <2>6. /\ own'[q].rip = own[q].rip /\ own'[q].rsp = own[q].rsp /\ own'[q].if = own[q].if
          /\ own'[q].reg = kept /\ IsCpu(own'[q])
        BY <2>5, <1>1, <1>7 DEF IsCpu
    <2>7. own[q].rsp = KernelSP(q, d) /\ own[q].if = 0 /\ own[q].rip[1] = "kernel"
        <3>1. PlaceOK(q)
            BY <1>1 DEF OwnOK
        <3>. QED BY <3>1, <1>9, MaskedPlace DEF d
    <2>8. cpu' = own'[q]
        <3>1. k - 1 = d
            BY <1>2, <2>1
        <3>2. /\ cpu'.rip = own'[q].rip /\ cpu'.rsp = own'[q].rsp /\ cpu'.if = own'[q].if
              /\ cpu'.reg = own'[q].reg
            BY <3>1, <2>2, <2>6, <2>7, <1>8
        <3>. QED BY <3>2, <2>6, <1>8 DEF IsCpu
    <2>9. OwnOK(q)' /\ Depth(q)' = d
        <3>1. \A e \in 1..Room : e <= Depth(q) => stack'[q][e] = stack[q][e]
            BY <1>6, <2>1, <1>2 DEF d
        <3>2. own[q].rip[2] \in {"wrapper", "yielded", "thread_yielded"}
            BY <1>9
        <3>. QED BY <3>1, <3>2, <2>6, <1>1, <1>5, OwnOKKept DEF d
    <2>10. RunsOwn'
        <3>1. \A e \in 1..Room : e > d => stack'[q][e] = None
            BY <1>6, <1>9, <2>1, <1>2 DEF Clear
        <3>2. cpu'.rip[1] = "kernel" /\ cpu'.rip[2] # "irq_handler"
            BY <1>9, <2>8, <2>6, <2>7
        <3>3. ~Between'
            BY <3>2 DEF Between, Running, At
        <3>. QED BY <3>1, <3>3, <2>8, <2>9, <1>5 DEF RunsOwn, Clear
    <2>. QED BY <2>5, <2>6, <2>9, <2>10, <1>6, <1>8, SMTT(30)
<1>10. CASE /\ own[q].rip[2] \notin Masked /\ stack[q][d + 1] = IrqFrame(q)
            /\ saved[q] = KernelSP(q, d + 2)
            /\ stack[q][d + 2].kind = "switch" /\ stack[q][d + 2].rip = At("irq_handler")
            /\ Clear(q, d + 2)
    <2>1. k = d + 2
        BY <1>10, <1>4 DEF KernelSP
    <2>2. f.rip = At("irq_handler")
        BY <1>10, <2>1, <1>4
    <2>3. own' = own
        BY <2>2, <1>5
    <2>4. OwnOK(q)' /\ Depth(q)' = d
        <3>1. \A e \in 1..Room : e <= Depth(q) => stack'[q][e] = stack[q][e]
            BY <1>6, <2>1, <1>2 DEF d
        <3>2. own[q].rip[2] # "syscall_entry"
            BY <1>10 DEF Masked
        <3>. QED BY <3>1, <3>2, <2>3, <1>1, <1>5, OwnOKKept DEF d
    <2>5. InIrq'
        <3>1. \A e \in 1..Room : e > d + 1 => stack'[q][e] = None
            BY <1>6, <1>10, <2>1, <1>2 DEF Clear
        <3>2. stack'[q][d + 1] = IrqFrame(q)'
            BY <1>6, <1>10, <2>1, <1>2, <2>3 DEF IrqFrame
        <3>3. k - 1 = d + 1
            BY <1>2, <2>1
        <3>4. /\ cpu'.rip = At("irq_handler") /\ cpu'.rsp = KernelSP(q, d + 1) /\ cpu'.if = 0
              /\ own'[q].rip[2] \notin Masked /\ current' = q
            BY <3>3, <2>2, <2>3, <1>5, <1>8, <1>10
        <3>. QED BY <3>1, <3>2, <3>4, <2>4 DEF InIrq, Clear, Running
    <2>6. own' = [p \in Process \cup {Boot} |-> own'[p]]
        BY <2>3 DEF IInv, Shape
    <2>. QED BY <2>3, <2>4, <2>5, <2>6, <1>1, <1>6, <1>8
<1>. QED BY <1>1, <1>9, <1>10 DEF Suspended, d

(* A switch to q keeps the invariant if the process that is left is suspended
   in order, or gone. *)
LEMMA LoadOK ==
    ASSUME IInv, NEW q \in Process \ (dead \cup {current}), NEW st, IsStack(st),
           Load(q, st), saved' = [p \in Process |-> saved'[p]], q \notin dead',
           \A p \in Process : p # current => st[p] = stack[p] /\ saved'[p] = saved[p],
           dead \subseteq dead',
           NEW c, c = current, c \in Process \ dead' => OwnOK(c)' /\ Suspended(c)'
    PROVE  IInv'
<1>1. /\ IsStack(stack') /\ IsCpu(cpu') /\ IsCpu(own'[q])
      /\ own' = [p \in Process \cup {Boot} |-> own'[p]]
      /\ \A p \in Process \cup {Boot} : p # q => own'[p] = own[p] /\ stack'[p] = st[p]
      /\ OwnOK(q)'
      /\ (RunsOwn \/ InIrq)'
    <2>1. st[q] = stack[q]
        OBVIOUS
    <2>. QED BY <2>1, PickedOK, SMTT(30)
<1>2. /\ current' = q /\ rsp0' = q /\ syscall_kstack_top' = q /\ call' = call
      /\ q \in UserProc => cr3' = q
    BY DEF Load, NextCR3
<1>3. Shape'
    <2>1. \A p \in Process \cup {Boot} : IsCpu(own'[p])
        <3>1. \A p \in Process \cup {Boot} : IsCpu(own[p])
            BY DEF IInv, Shape
        <3>. QED BY <3>1, <1>1
    <2>. QED BY <2>1, <1>1, <1>2 DEF IInv, Shape
<1>4. ASSUME NEW p \in Process \ (dead' \cup {q}) PROVE OwnOK(p)' /\ Suspended(p)'
    <2>1. CASE p = current
        BY <2>1, <1>4
    <2>2. CASE p # current
        <3>1. own'[p] = own[p] /\ saved'[p] = saved[p] /\ stack'[p] = stack[p] /\ call'[p] = call[p]
            BY <2>2, <1>1, <1>2
        <3>2. p \in Process \ (dead \cup {current})
            BY <2>2, <1>4
        <3>. QED BY <3>1, <3>2, OthersKept
    <2>. QED BY <2>1, <2>2
<1>5. OwnAddressSpace' /\ ArgumentsArrive'
    BY <1>2 DEF IInv, OwnAddressSpace, ArgumentsArrive
<1>6. \A p \in Process \ (dead' \cup {current'}) : OwnOK(p)' /\ Suspended(p)'
    BY <1>4, <1>2
<1>. QED BY <1>1, <1>2, <1>3, <1>5, <1>6 DEF IInv

(* sched_start *)
LEMMA FirstSwitchOK == ASSUME IInv, context_switch_first PROVE IInv'
<1>1. PICK q \in Others : Load(q, stack)
    BY DEF context_switch_first
<1>2. current \notin Process
    <2>1. cpu.rip = <<"kernel", "boot", 0>>
        BY DEF context_switch_first, Running, At
    <2>2. cpu = own[current] /\ OwnOK(current)
        BY <2>1, OwnCode DEF At
    <2>3. current = Boot
        BY <2>1, <2>2 DEF OwnOK, PlaceOK
    <2>. QED BY <2>3, ContextAssumption DEF Process
<1>3. UNCHANGED <<saved, dead>>
    BY DEF context_switch_first
<1>4. q \in Process \ (dead \cup {current}) /\ q \notin dead'
    BY <1>1, <1>3 DEF Others
<1>5. IsStack(stack) /\ saved' = [p \in Process |-> saved'[p]]
    BY <1>3 DEF IInv, Shape
<1>6. PICK c : c = current
    OBVIOUS
<1>7. c \in Process \ dead' => OwnOK(c)' /\ Suspended(c)'
    BY <1>2, <1>6
<1>. QED BY <1>1, <1>3, <1>4, <1>5, <1>6, <1>7, LoadOK

(* What context_switch leaves of the process that is left *)
LEMMA LeftBehind ==
    ASSUME IInv, NEW q \in Process \ (dead \cup {current}), NEW back, NEW k \in 0..3,
           cpu.rsp = KernelSP(current, k), context_switch(q, back)
    PROVE  LET f  == [kind |-> "switch", rip |-> back, kept |-> Callee(cpu.reg)]
               st == Pushed(cpu.rsp, f)
           IN  /\ Load(q, st) /\ IsStack(st)
               /\ saved' = [p \in Process |-> saved'[p]]
               /\ \A p \in Process : p # current => st[p] = stack[p] /\ saved'[p] = saved[p]
               /\ current \in Process => saved'[current] = KernelSP(current, k + 1)
               /\ stack'[current][k + 1] = f
               /\ \A e \in 1..Room : e # k + 1 => stack'[current][e] = stack[current][e]
               /\ own'[current] = own[current] /\ call' = call
<1>. DEFINE c == current
            f  == [kind |-> "switch", rip |-> back, kept |-> Callee(cpu.reg)]
            st == Pushed(cpu.rsp, f)
<1>1. Load(q, st) /\ saved' = [saved EXCEPT ![c] = Up(cpu.rsp)]
    BY DEF context_switch
<1>. HIDE DEF f
<1>a. c \in Process \cup {Boot}
    BY DEF IInv, Shape
<1>2. /\ IsStack(st) /\ st[c][k + 1] = f
      /\ \A e \in 1..Room : e # k + 1 => st[c][e] = stack[c][e]
      /\ \A p \in Process \cup {Boot} : p # c => st[p] = stack[p]
    <2>1. Shape /\ k \in 0..(Room - 1)
        BY ContextAssumption DEF IInv
    <2>2. HasFrame(st, c, k + 1, f)
        BY <2>1, <1>a, PushOne
    <2>. HIDE DEF st
    <2>. QED BY <2>2 DEF HasFrame
<1>. HIDE DEF st
<1>3. Up(cpu.rsp) = KernelSP(c, k + 1)
    BY DEF Up, KernelSP
<1>4. saved = [p \in Process |-> saved[p]] /\ Boot \notin Process
    BY ContextAssumption, Zenon DEF IInv, Shape, Process
<1>5. /\ saved' = [p \in Process |-> saved'[p]]
      /\ c \in Process => saved'[c] = KernelSP(c, k + 1)
      /\ \A p \in Process : p # c => saved'[p] = saved[p]
    BY <1>1, <1>3, <1>4
<1>6. st[q] = stack[q] /\ c # q
    BY <1>2
<1>7. stack'[c] = st[c] /\ own'[c] = own[c]
    BY <1>1, <1>2, <1>6, <1>a, PickedOK
<1>8. call' = call
    BY <1>1 DEF Load
<1>. QED BY <1>1, <1>2, <1>5, <1>7, <1>8 DEF f, st

(* A process that is preempted in its time slice *)
LEMMA PreemptOK == ASSUME IInv, Preempt PROVE IInv'
<1>1. PICK q \in Others : context_switch(q, cpu.rip)
    BY DEF Preempt
<1>2. PICK c : c = current
    OBVIOUS
<1>3. PICK d : d = Depth(c)
    OBVIOUS
<1>4. InIrq /\ OwnOK(c) /\ c \in Process /\ dead' = dead
    BY <1>2, AtHandler DEF Preempt
<1>5. /\ cpu.rsp = KernelSP(c, d + 1) /\ own[c].rip[2] \notin Masked /\ cpu.rip = At("irq_handler")
      /\ stack[c][d + 1] = IrqFrame(c) /\ Clear(c, d + 1)
    BY <1>2, <1>3, <1>4 DEF InIrq, Running
<1>6. d \in 0..2 /\ d + 1 \in 0..3 /\ d + 1 \in 1..Room /\ d + 1 + 1 = d + 2
    BY <1>3, ContextAssumption DEF Depth
<1>7. q \in Process \ (dead \cup {current}) /\ q \notin dead'
    BY <1>1, <1>4 DEF Others
<1>. DEFINE f  == [kind |-> "switch", rip |-> cpu.rip, kept |-> Callee(cpu.reg)]
            st == Pushed(cpu.rsp, f)
<1>8. /\ Load(q, st) /\ IsStack(st)
      /\ saved' = [p \in Process |-> saved'[p]]
      /\ \A p \in Process : p # c => st[p] = stack[p] /\ saved'[p] = saved[p]
      /\ saved'[c] = KernelSP(c, d + 2)
      /\ stack'[c][d + 2] = f
      /\ \A e \in 1..Room : e # d + 2 => stack'[c][e] = stack[c][e]
      /\ own'[c] = own[c] /\ call' = call
    <2>1. c \in Process /\ cpu.rsp = KernelSP(c, d + 1)
        BY <1>4, <1>5
    <2>. QED BY <2>1, <1>1, <1>2, <1>6, <1>7, LeftBehind
<1>9. OwnOK(c)' /\ Depth(c)' = d
    <2>1. own[c].rip[2] # "syscall_entry"
        BY <1>5 DEF Masked
    <2>2. \A e \in 1..Room : e <= Depth(c) => stack'[c][e] = stack[c][e]
        BY <1>8, <1>6, <1>3
    <2>. QED BY <2>1, <2>2, <1>3, <1>4, <1>8, OwnOKKept
<1>10. Suspended(c)'
    <2>1. \A e \in 1..Room : e > d + 2 => stack'[c][e] = None
        BY <1>5, <1>6, <1>8 DEF Clear
    <2>2. stack'[c][d + 1] = IrqFrame(c)'
        BY <1>5, <1>6, <1>8 DEF IrqFrame
    <2>3. stack'[c][d + 2].kind = "switch" /\ stack'[c][d + 2].rip = At("irq_handler")
        BY <1>5, <1>8
    <2>. QED BY <2>1, <2>2, <2>3, <1>5, <1>8, <1>9 DEF Suspended, Clear
<1>. HIDE DEF st
<1>. QED BY <1>2, <1>4, <1>7, <1>8, <1>9, <1>10, LoadOK

(* A process that yields or blocks *)
LEMMA ScheduleOK == ASSUME IInv, Schedule PROVE IInv'
<1>. DEFINE back == <<"kernel", cpu.rip[2], cpu.rip[3]>>
<1>1. cpu.rip[1] = "schedule" /\ dead' = dead
    BY DEF Schedule
<1>2. CASE cpu' = [cpu EXCEPT !.rip = back] /\ UNCHANGED <<current, kernel, own, call>>
    BY <1>1, <1>2, ScheduleReturnsOK
<1>3. ASSUME NEW q \in Others, context_switch(q, back) PROVE IInv'
    <2>2. PICK c : c = current
        OBVIOUS
    <2>3. PICK d : d = Depth(c)
        OBVIOUS
    <2>4. InSchedule /\ OwnOK(c) /\ c \in Process \cup {Boot} /\ back = own[c].rip
        BY <1>1, <2>2, AtSchedule
    <2>5. /\ own[c].rip[2] \in {"yielded", "thread_yielded"}
          /\ cpu.reg = own[c].reg /\ cpu.rsp = KernelSP(c, d) /\ Clear(c, d)
        BY <2>2, <2>3, <2>4 DEF InSchedule, OwnOK, PlaceOK, Program
    <2>6. d \in 0..2 /\ d \in 0..3 /\ d + 1 \in 1..Room
        BY <2>3, ContextAssumption DEF Depth
    <2>7. q \in Process \ (dead \cup {current}) /\ q \notin dead'
        BY <1>1, <1>3 DEF Others
    <2>. DEFINE f  == [kind |-> "switch", rip |-> back, kept |-> Callee(cpu.reg)]
                st == Pushed(cpu.rsp, f)
    <2>8. /\ Load(q, st) /\ IsStack(st)
          /\ saved' = [p \in Process |-> saved'[p]]
          /\ \A p \in Process : p # c => st[p] = stack[p] /\ saved'[p] = saved[p]
          /\ c \in Process => saved'[c] = KernelSP(c, d + 1)
          /\ stack'[c][d + 1] = f
          /\ \A e \in 1..Room : e # d + 1 => stack'[c][e] = stack[c][e]
          /\ own'[c] = own[c] /\ call' = call
        <3>. HIDE DEF back
        <3>. QED BY <1>3, <2>2, <2>5, <2>6, <2>7, LeftBehind
    <2>9. OwnOK(c)' /\ Depth(c)' = d
        <3>1. own[c].rip[2] # "syscall_entry"
            BY <2>5
        <3>2. \A e \in 1..Room : e <= Depth(c) => stack'[c][e] = stack[c][e]
            BY <2>8, <2>6, <2>3
        <3>. QED BY <3>1, <3>2, <2>3, <2>4, <2>8, OwnOKKept
    <2>10. c \in Process => Suspended(c)'
        <3>1. \A e \in 1..Room : e > d + 1 => stack'[c][e] = None
            BY <2>5, <2>6, <2>8 DEF Clear
        <3>2. stack'[c][d + 1] = [kind |-> "switch", rip |-> own'[c].rip, kept |-> Callee(own'[c].reg)]
            BY <2>4, <2>5, <2>8
        <3>. QED BY <3>1, <3>2, <2>5, <2>8, <2>9 DEF Suspended, Clear
    <2>. HIDE DEF st
    <2>. QED BY <1>1, <2>2, <2>7, <2>8, <2>9, <2>10, LoadOK
<1>. QED BY <1>2, <1>3 DEF Schedule

(* process_exit *)
LEMMA ExitOK == ASSUME IInv, Exit PROVE IInv'
<1>1. PICK q \in Others : context_switch(q, At("exited"))
    BY DEF Exit
<1>2. PICK c : c = current
    OBVIOUS
<1>3. cpu.rip = <<"kernel", "sys_exit", 0>> \/ cpu.rip = <<"kernel", "thread", MaxSteps>>
    BY DEF Exit, Running, At
<1>4. cpu = own[c] /\ OwnOK(c)
    BY <1>2, <1>3, OwnCode DEF At
<1>5. PICK d \in 0..3 : cpu.rsp = KernelSP(c, d)
    BY <1>3, <1>4 DEF OwnOK, PlaceOK, Program, Depth
<1>6. dead' = dead \cup {c}
    BY <1>2 DEF Exit
<1>7. q \in Process \ (dead \cup {current}) /\ q \notin dead'
    BY <1>1, <1>2, <1>6 DEF Others
<1>. DEFINE st == Pushed(cpu.rsp, [kind |-> "switch", rip |-> At("exited"), kept |-> Callee(cpu.reg)])
<1>8. /\ Load(q, st) /\ IsStack(st)
      /\ saved' = [p \in Process |-> saved'[p]]
      /\ \A p \in Process : p # c => st[p] = stack[p] /\ saved'[p] = saved[p]
    BY <1>1, <1>2, <1>5, <1>7, LeftBehind
<1>9. c \in Process \ dead' => OwnOK(c)' /\ Suspended(c)'
    BY <1>6
<1>. HIDE DEF st
<1>. QED BY <1>2, <1>6, <1>7, <1>8, <1>9, LoadOK

(* Every step keeps the invariant. *)
LEMMA StepOK == IInv /\ [Next]_vars => IInv'
<1>. SUFFICES ASSUME IInv, [Next]_vars PROVE IInv'
    OBVIOUS
<1>1. CASE UNCHANGED vars
    <2>1. UNCHANGED <<cpu, current, stack, saved, rsp0, syscall_kstack_top, cr3, dead, own, call,
                      user_stack_save>>
        BY <1>1 DEF vars, kernel
    <2>2. (OwnOK(current) /\ (RunsOwn \/ InSchedule \/ InIrq))'
        <3>1. OwnOK(current) => OwnOK(current)'
            BY <2>1, Zenon DEF OwnOK, PlaceOK, CallOK, EntryOK, CallFrame, Depth
        <3>2. RunsOwn => RunsOwn'
            BY <2>1 DEF RunsOwn, Between, Running, Clear, Depth
        <3>3. InSchedule => InSchedule'
            BY <2>1 DEF InSchedule, Clear, Depth
        <3>4. InIrq => InIrq'
            BY <2>1 DEF InIrq, Running, Clear, Depth, IrqFrame
        <3>. QED BY <3>1, <3>2, <3>3, <3>4, SMTT(30) DEF IInv
    <2>3. IsStack(stack') /\ IsCpu(cpu')
        BY <2>1 DEF IInv, Shape
    <2>. QED BY <2>1, <2>2, <2>3, KernelStepOK
<1>. QED
    BY <1>1, WrapperOK, EnterUserOK, ComputeOK, ThreadResumesOK, SyscallOK, PushFrameOK, ShuffleOK,
       DispatchOK, HandlerReturnOK, SysRetOK, InterruptOK, InterruptReturnOK, YieldOK, ScheduleOK,
       FirstSwitchOK, PreemptOK, ExitOK
    DEF Next
-----------------------------------------------------------------------------
(* The inductive invariant: own code runs as it was left and every waiting
   process has the frames that lead back to its own code. *)
THEOREM ContextInvariant == Spec => []IInv
BY InitOK, StepOK, PTL DEF Spec

(* Interrupts and context switches are transparent to every process. *)
THEOREM TransparentAlways == Spec => []Transparent
<1>1. IInv => Transparent
    BY DEF IInv, Transparent, RunsOwn, InSchedule, InIrq, Between
<1>. QED BY <1>1, ContextInvariant, PTL

(* syscall_dispatch gets the arguments the program passed. *)
THEOREM ArgumentsArriveAlways == Spec => []ArgumentsArrive
<1>1. IInv => ArgumentsArrive
    BY DEF IInv
<1>. QED BY <1>1, ContextInvariant, PTL

(* A user process runs in its own address space. *)
THEOREM OwnAddressSpaceAlways == Spec => []OwnAddressSpace
<1>1. IInv => OwnAddressSpace
    BY DEF IInv
<1>. QED BY <1>1, ContextInvariant, PTL

(* A kernel stack never holds more than four frames, nor two interrupt frames. *)
THEOREM StackBoundedAlways == Spec => []StackBounded
<1>1. IInv => StackBounded
    <2>. SUFFICES ASSUME IInv, NEW p \in Process \ dead
                  PROVE  /\ \A d \in 5..Room : stack[p][d] = None
                         /\ \A d, e \in 1..Room :
                              stack[p][d].kind = "irq" /\ stack[p][e].kind = "irq" => d = e
        BY DEF StackBounded
    <2>. DEFINE d == Depth(p)
    <2>1. d \in 0..2 /\ OwnOK(p)
        BY DEF Depth, IInv
    <2>2. None.kind = "none"
        BY DEF None
    <2>3. /\ d >= 1 => stack[p][1].kind = "syscall"
          /\ d = 2 => stack[p][2].kind = "C"
        BY <2>1 DEF OwnOK, CallOK, CallFrame, Depth
    <2>4. PICK k \in 0..4 : /\ Clear(p, k)
                            /\ \A e \in 1..Room : e <= k /\ stack[p][e].kind = "irq" => e = d + 1
        <3>1. CASE p = current
            <4>1. \/ Clear(p, d)
                  \/ Clear(p, d + 1)
                BY <3>1 DEF IInv, RunsOwn, InSchedule, InIrq
            <4>. HIDE DEF d
            <4>. QED BY <4>1, <2>1, <2>3
        <3>2. CASE p # current
            <4>1. \/ Clear(p, d + 1)
                  \/ Clear(p, d + 2) /\ stack[p][d + 2].kind = "switch"
                BY <3>2, Zenon DEF IInv, Suspended
            <4>. HIDE DEF d
            <4>. QED BY <4>1, <2>1, <2>3
        <3>. QED BY <3>1, <3>2
    <2>. HIDE DEF d
    <2>5. \A e \in 1..Room : e > k => stack[p][e] = None
        BY <2>4 DEF Clear
    <2>6. \A e \in 1..Room : stack[p][e].kind = "irq" => e = d + 1
        BY <2>2, <2>4, <2>5
    <2>7. \A e \in 5..Room : e \in 1..Room /\ e > k
        BY ContextAssumption
    <2>. QED BY <2>5, <2>6, <2>7
<1>. QED BY <1>1, ContextInvariant, PTL

(* A system call returns to its caller with the result of its own handler. *)
THEOREM SyscallReturnsAlways == Spec => SyscallReturns
<1>. DEFINE A == Running("syscall_return") /\ cpu'.rip[1] = "user" =>
                   LET from == call[current].from
                   IN  /\ cpu'.rip = from.rip /\ cpu'.rsp = from.rsp /\ cpu'.if = from.if
                       /\ Callee(cpu'.reg) = Callee(from.reg)
                       /\ cpu'.reg["rax"] = call[current].result
<1>1. IInv /\ [Next]_vars => [A]_vars
    <2>. SUFFICES ASSUME IInv, Next, Running("syscall_return"), cpu'.rip[1] = "user"
                  PROVE  A
        BY DEF vars
    <2>. DEFINE c == current
                from == call[c].from
    <2>1. /\ cpu = own[c] /\ Top = CallFrame(c) /\ from.if = 1 /\ cpu.reg["rax"] = call[c].result
          /\ cpu.rip = <<"kernel", "syscall_return", 0>>
        BY AtReturn DEF Running, At
    <2>2. CASE SysRet
        <3>1. /\ Top.rcx = from.rip /\ Top.rsp = from.rsp /\ Top.r11[2] = from.if
              /\ Top.kept = Callee(from.reg)
            BY <2>1 DEF CallFrame, Rflags
        <3>2. /\ cpu'.rip = from.rip /\ cpu'.rsp = from.rsp /\ cpu'.if = from.if
              /\ cpu'.reg = SyscallRegisters(Restored(cpu.reg, Top.kept), Top.rcx, Top.r11)
            BY <2>2, <3>1 DEF SysRet
        <3>3. /\ cpu'.reg["rax"] = cpu.reg["rax"]
              /\ \A r \in CalleeSaved : cpu'.reg[r] = Top.kept[r]
            BY <3>2, ReturnRegisters
        <3>4. Callee(cpu'.reg) = Callee(from.reg)
            BY <3>1, <3>3 DEF Callee
        <3>. QED BY <2>1, <3>2, <3>3, <3>4
    <2>3. CASE Interrupt
        BY <2>3 DEF Interrupt, At
    <2>4. ~(\/ context_switch_first \/ Wrapper \/ EnterUser \/ Compute
            \/ Syscall \/ PushFrame \/ Shuffle \/ Dispatch \/ HandlerReturn
            \/ InterruptReturn \/ Preempt \/ Yield \/ Schedule \/ ThreadResumes \/ Exit)
        BY <2>1 DEF context_switch_first, Wrapper, EnterUser, Compute, Syscall, PushFrame, Shuffle,
                    Dispatch, HandlerReturn, InterruptReturn, Preempt, Yield, Schedule,
                    ThreadResumes, Exit, Running, At, InUser, Program
    <2>. QED BY <2>2, <2>3, <2>4 DEF Next
<1>. QED BY <1>1, ContextInvariant, PTL DEF Spec, SyscallReturns
===============================================================================
