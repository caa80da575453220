--------------------------- MODULE SchedulerProofs ---------------------------
(***************************************************************************)
(* The scheduler, for every size of the process table, every quantum and   *)
(* every set of sleep times: lemmas about the run queue, schedule(), the   *)
(* start and the calls by which a process leaves the CPU; that every step  *)
(* keeps the inductive invariant IInv; and the theorems.                   *)
(***************************************************************************)
EXTENDS Scheduler, TLAPS

\* The wake tick of a process that does not sleep is no tick to come.
LEMMA NeverAwaited == ~(NoWake >= 0)
BY DEF NoWake

NoRepeats(q) == \A i, j \in DOMAIN q : q[i] = q[j] => i = j

\* Appending a member to a queue adds it to the set of queued processes and
\* keeps them distinct (the tail insertion of sched_add).
LEMMA AppendQueued ==
    ASSUME NEW S, NEW q \in Seq(S), NEW p \in S
    PROVE  /\ Append(q, p) \in Seq(S)
           /\ Queued(Append(q, p)) = Queued(q) \cup {p}
           /\ NoRepeats(q) /\ p \notin Queued(q) => NoRepeats(Append(q, p))
<1>1. /\ Append(q, p) \in Seq(S)
      /\ Len(Append(q, p)) = Len(q) + 1
      /\ \A i \in 1 .. Len(q) : Append(q, p)[i] = q[i]
      /\ Append(q, p)[Len(q) + 1] = p
      /\ Len(q) \in Nat
      /\ DOMAIN q = 1 .. Len(q)
      /\ DOMAIN Append(q, p) = 1 .. Len(q) + 1
  OBVIOUS
<1>2. Queued(Append(q, p)) = Queued(q) \cup {p}
  BY <1>1 DEF Queued
<1>3. NoRepeats(q) /\ p \notin Queued(q) => NoRepeats(Append(q, p))
  BY <1>1 DEF Queued, NoRepeats
<1>. QED  BY <1>1, <1>2, <1>3

\* Taking the head off a queue (sched_pick_next) removes exactly that process.
LEMMA TailQueued ==
    ASSUME NEW S, NEW q \in Seq(S), q # <<>>
    PROVE  /\ Head(q) \in S
           /\ Tail(q) \in Seq(S)
           /\ Queued(q) = {Head(q)} \cup Queued(Tail(q))
           /\ NoRepeats(q) => NoRepeats(Tail(q)) /\ Head(q) \notin Queued(Tail(q))
<1>1. /\ Head(q) \in S
      /\ Tail(q) \in Seq(S)
      /\ Len(q) \in Nat \ {0}
      /\ Head(q) = q[1]
      /\ Len(Tail(q)) = Len(q) - 1
      /\ \A i \in 1 .. Len(q) - 1 : Tail(q)[i] = q[i + 1]
      /\ DOMAIN q = 1 .. Len(q)
      /\ DOMAIN Tail(q) = 1 .. Len(q) - 1
  OBVIOUS
<1>2. Queued(q) = {Head(q)} \cup Queued(Tail(q))
  <2>1. \A i \in 2 .. Len(q) : i - 1 \in 1 .. Len(q) - 1 /\ Tail(q)[i - 1] = q[i]
    BY <1>1
  <2>2. Queued(q) \subseteq {Head(q)} \cup Queued(Tail(q))
    <3>1. SUFFICES ASSUME NEW x \in Queued(q) PROVE x \in {Head(q)} \cup Queued(Tail(q))
      OBVIOUS
    <3>2. PICK i \in 1 .. Len(q) : x = q[i]  BY <3>1, <1>1 DEF Queued
    <3>3. CASE i = 1  BY <3>2, <3>3, <1>1
    <3>4. CASE i \in 2 .. Len(q)  BY <3>2, <3>4, <2>1, <1>1, Zenon DEF Queued
    <3>. QED  BY <3>2, <3>3, <3>4, <1>1
  <2>3. {Head(q)} \cup Queued(Tail(q)) \subseteq Queued(q)
    BY <1>1 DEF Queued
  <2>. QED  BY <2>2, <2>3
<1>3. ASSUME NoRepeats(q) PROVE NoRepeats(Tail(q)) /\ Head(q) \notin Queued(Tail(q))
  BY <1>1, <1>3 DEF Queued, NoRepeats
<1>. QED  BY <1>1, <1>2, <1>3

\* Appending one queue to another adds its members, and keeps them distinct
\* when the two have none in common.
LEMMA ConcatQueued ==
    ASSUME NEW S, NEW q \in Seq(S), NEW w \in Seq(S)
    PROVE  /\ q \o w \in Seq(S)
           /\ Queued(q \o w) = Queued(q) \cup Queued(w)
           /\ NoRepeats(q) /\ NoRepeats(w) /\ Queued(q) \cap Queued(w) = {}
                => NoRepeats(q \o w)
<1>1. /\ q \o w \in Seq(S)
      /\ Len(q) \in Nat /\ Len(w) \in Nat
      /\ Len(q \o w) = Len(q) + Len(w)
      /\ DOMAIN q = 1 .. Len(q) /\ DOMAIN w = 1 .. Len(w)
      /\ DOMAIN (q \o w) = 1 .. Len(q) + Len(w)
      /\ \A i \in 1 .. Len(q) : (q \o w)[i] = q[i]
      /\ \A i \in 1 .. Len(w) : (q \o w)[Len(q) + i] = w[i]
  OBVIOUS
<1>2. \A i \in Len(q) + 1 .. Len(q) + Len(w) :
         i - Len(q) \in 1 .. Len(w) /\ (q \o w)[i] = w[i - Len(q)]
  BY <1>1
<1>3. Queued(q \o w) = Queued(q) \cup Queued(w)
  <2>1. Queued(q \o w) \subseteq Queued(q) \cup Queued(w)
    <3>1. SUFFICES ASSUME NEW x \in Queued(q \o w) PROVE x \in Queued(q) \cup Queued(w)
      OBVIOUS
    <3>2. PICK i \in 1 .. Len(q) + Len(w) : x = (q \o w)[i]  BY <3>1, <1>1 DEF Queued
    <3>3. CASE i \in 1 .. Len(q)  BY <3>2, <3>3, <1>1 DEF Queued
    <3>4. CASE i \in Len(q) + 1 .. Len(q) + Len(w)  BY <3>2, <3>4, <1>1, <1>2 DEF Queued
    <3>. QED  BY <3>2, <3>3, <3>4, <1>1
  <2>2. Queued(q) \subseteq Queued(q \o w)  BY <1>1 DEF Queued
  <2>3. Queued(w) \subseteq Queued(q \o w)
    <3>1. SUFFICES ASSUME NEW x \in Queued(w) PROVE x \in Queued(q \o w)
      OBVIOUS
    <3>2. PICK i \in 1 .. Len(w) : x = w[i]  BY <3>1, <1>1 DEF Queued
    <3>3. Len(q) + i \in 1 .. Len(q) + Len(w)  BY <1>1, <3>2
    <3>. QED  BY <3>2, <3>3, <1>1, Zenon DEF Queued
  <2>. QED  BY <2>1, <2>2, <2>3
<1>4. ASSUME NoRepeats(q), NoRepeats(w), Queued(q) \cap Queued(w) = {}
      PROVE  NoRepeats(q \o w)
  <2>1. SUFFICES ASSUME NEW i \in 1 .. Len(q) + Len(w), NEW j \in 1 .. Len(q) + Len(w),
                        (q \o w)[i] = (q \o w)[j]
                 PROVE  i = j
    BY <1>1 DEF NoRepeats
  <2>2. CASE i \in 1 .. Len(q) /\ j \in 1 .. Len(q)
    BY <2>1, <2>2, <1>1, <1>4 DEF NoRepeats
  <2>3. CASE i \in Len(q) + 1 .. Len(q) + Len(w) /\ j \in Len(q) + 1 .. Len(q) + Len(w)
    <3>1. w[i - Len(q)] = w[j - Len(q)]  BY <2>1, <2>3, <1>2
    <3>2. i - Len(q) \in DOMAIN w /\ j - Len(q) \in DOMAIN w  BY <2>3, <1>1, <1>2
    <3>3. i - Len(q) = j - Len(q)  BY <3>1, <3>2, <1>4 DEF NoRepeats
    <3>. QED  BY <3>3, <2>3, <1>1
  <2>4. CASE i \in 1 .. Len(q) /\ j \in Len(q) + 1 .. Len(q) + Len(w)
    <3>1. q[i] \in Queued(q) /\ (q \o w)[i] = q[i]  BY <2>4, <1>1 DEF Queued
    <3>2. w[j - Len(q)] \in Queued(w) /\ (q \o w)[j] = w[j - Len(q)]
      BY <2>4, <1>1, <1>2, Zenon DEF Queued
    <3>. QED  BY <3>1, <3>2, <2>1, <1>4
  <2>5. CASE j \in 1 .. Len(q) /\ i \in Len(q) + 1 .. Len(q) + Len(w)
    <3>1. q[j] \in Queued(q) /\ (q \o w)[j] = q[j]  BY <2>5, <1>1 DEF Queued
    <3>2. w[i - Len(q)] \in Queued(w) /\ (q \o w)[i] = w[i - Len(q)]
      BY <2>5, <1>1, <1>2 DEF Queued
    <3>. QED  BY <3>1, <3>2, <2>1, <1>4
  <2>. QED  BY <2>2, <2>3, <2>4, <2>5, <1>1
<1>. QED  BY <1>1, <1>3, <1>4

\* A scan of the process table meets each slot of S once, and no other.
LEMMA TableOrderQueued ==
    ASSUME NEW S \in SUBSET Slot, NEW w \in InTableOrder(S)
    PROVE  w \in Seq(S) /\ Queued(w) = S /\ NoRepeats(w)
<1>2. PICK n \in 0 .. MAX_PROCESSES : w \in [1 .. n -> S]
  BY DEF InTableOrder
<1>3. /\ w \in [1 .. n -> S] /\ n \in Nat
      /\ \A i, j \in DOMAIN w : i < j => w[i] < w[j]
      /\ \A p \in S : \E i \in DOMAIN w : w[i] = p
  BY <1>2 DEF InTableOrder
<1>4. w \in Seq(S)  BY <1>3
<1>5. Queued(w) = S  BY <1>3 DEF Queued
<1>6. NoRepeats(w)
  <2>1. DOMAIN w \subseteq Int /\ \A i \in DOMAIN w : w[i] \in Int
    <3>1. DOMAIN w = 1 .. n  BY <1>3
    <3>2. Slot \subseteq Int  BY MaxProcessesAssumption DEF Slot
    <3>3. \A i \in DOMAIN w : w[i] \in Slot  BY <1>3
    <3>4. \A i \in 1 .. n : i \in Int  BY <1>3
    <3>. QED  BY <3>1, <3>2, <3>3, <3>4, Zenon
  <2>. QED  BY <2>1, <1>3 DEF NoRepeats
<1>. QED  BY <1>4, <1>5, <1>6

\* The process table has a slot for the idle process, and slots are numbers.
LEMMA SlotFacts == idle \in Slot /\ Slot \subseteq Nat
BY MaxProcessesAssumption DEF Slot, idle

\* The queue after schedule() has picked its head is that of the remaining
\* READY processes, and the process picked was one of them or is idle.
LEMMA PickStep ==
    ASSUME NEW st \in [Slot -> ProcessState], NEW q \in Seq(Slot), QueueHolds(q, st)
    PROVE  /\ sched_pick_next(q) \in Slot
           /\ PickRest(q) \in Seq(Slot)
           /\ NoRepeats(PickRest(q))
           /\ Queued(PickRest(q)) =
                {p \in Slot \ {idle} : st[p] = READY /\ p # sched_pick_next(q)}
           /\ sched_pick_next(q) = idle \/ st[sched_pick_next(q)] = READY
<1>1. CASE q = <<>>
  BY <1>1, SlotFacts DEF QueueHolds, NoRepeats, Queued, sched_pick_next, PickRest
<1>2. CASE q # <<>>
  <2>1. /\ Head(q) \in Slot
        /\ Tail(q) \in Seq(Slot)
        /\ Queued(q) = {Head(q)} \cup Queued(Tail(q))
        /\ NoRepeats(Tail(q)) /\ Head(q) \notin Queued(Tail(q))
    BY <1>2, TailQueued DEF QueueHolds, NoRepeats
  <2>. QED  BY <1>2, <2>1 DEF QueueHolds, sched_pick_next, PickRest
<1>. QED  BY <1>1, <1>2

\* What a call of schedule() leaves behind when it began with the states st.
Scheduled(st) ==
  /\ state' \in [Slot -> ProcessState]
  /\ time_slice' \in [Slot -> 0 .. DEFAULT_TIME_SLICE]
  /\ frame' \in [Slot -> Frame]
  /\ run_queue' \in Seq(Slot)
  /\ current' \in Slot /\ rsp0' \in Slot /\ cr3' \in Slot
  /\ in_service' \in BOOLEAN
  /\ \A p \in Slot : state'[p] = RUNNING <=> p = current'
  /\ \A p \in Slot : p # current' /\ st[p] # RUNNING => state'[p] = st[p]
  /\ st[current'] \in {READY, RUNNING}
  /\ state'[idle] \in {READY, RUNNING}
  /\ QueueHolds(run_queue', state')
  /\ \/ UNCHANGED cpuVars
     \/ rsp0' = current' /\ (pml4_phys[current'] => cr3' = current')
  /\ \A p \in Slot : state'[p] \in {READY, RUNNING} => time_slice'[p] > 0
  /\ in_service' => \E p \in Slot : /\ p # current'
                                    /\ state'[p] = READY
                                    /\ frame'[p] = "irq"
  /\ current' = idle /\ in_service' => frame'[idle] = "entry"
  /\ frame'[idle] # "call"

\* What schedule() guarantees to any caller that hands it a consistent
\* process table: one process RUNNING afterwards, an exact queue, full time
\* slices, and a pending EOI that somebody READY will send.
LEMMA ScheduleStep ==
    ASSUME TypeOK,
           NEW st \in [Slot -> ProcessState],
           NEW ts \in [Slot -> 0 .. DEFAULT_TIME_SLICE],
           NEW q \in Seq(Slot),
           NEW fr \in Frame,
           NEW isr \in BOOLEAN,
           QueueHolds(q, st),
           \A p \in Slot : st[p] = RUNNING => p = current,
           st[current] \in {RUNNING, BLOCKED, TERMINATED},
           st[idle] \in {READY, RUNNING},
           current = idle => fr = "irq",
           frame[idle] # "call",
           \A p \in Slot : st[p] = READY => ts[p] > 0,
           isr => \/ fr = "irq" /\ st[current] = RUNNING
                  \/ \E p \in Slot : p # current /\ st[p] = READY /\ frame[p] = "irq",
           schedule(st, ts, q, fr, isr)
    PROVE  Scheduled(st)
<1> USE DEF Scheduled
<1> DEFINE next == sched_pick_next(q)
           rest == PickRest(q)
<1>1. /\ next \in Slot /\ rest \in Seq(Slot) /\ NoRepeats(rest)
      /\ Queued(rest) = {p \in Slot \ {idle} : st[p] = READY /\ p # next}
      /\ next = idle \/ st[next] = READY
  BY PickStep
<1>2. current \in Slot /\ idle \in Slot /\ frame \in [Slot -> Frame] /\ rsp0 \in Slot /\ cr3 \in Slot
  BY SlotFacts DEF TypeOK
<1>3. DEFAULT_TIME_SLICE \in 0 .. DEFAULT_TIME_SLICE /\ DEFAULT_TIME_SLICE > 0
  BY TimeSliceAssumption
<1>4. CASE next = current
  <2>1. next = idle /\ st[idle] = RUNNING /\ fr = "irq"
    BY <1>1, <1>4 DEF READY, RUNNING, BLOCKED, TERMINATED
  <2>2. /\ state' = st
        /\ time_slice' = [ts EXCEPT ![next] = DEFAULT_TIME_SLICE]
        /\ run_queue' = rest
        /\ in_service' = FALSE
        /\ UNCHANGED <<frame, current, rsp0, cr3>>
    BY <1>4, <2>1, Zenon DEF schedule, SendsEOI, cpuVars
  <2>3. QueueHolds(rest, st)
    BY <1>1, <2>1 DEF QueueHolds, NoRepeats
  <2>. QED  BY <1>1, <1>2, <1>3, <1>4, <2>1, <2>2, <2>3, Zenon DEF cpuVars
<1>5. CASE next # current
  <2> DEFINE runnable == st[current] = RUNNING
  <2>1. /\ state' = [st EXCEPT ![current] = IF runnable THEN READY ELSE @,
                               ![next] = RUNNING]
        /\ time_slice' = [ts EXCEPT ![current] = IF runnable THEN DEFAULT_TIME_SLICE ELSE @,
                                    ![next] = DEFAULT_TIME_SLICE]
        /\ run_queue' = IF runnable THEN sched_add(rest, current) ELSE rest
        /\ current' = next
        /\ frame' = [frame EXCEPT ![current] = fr]
        /\ rsp0' = next
        /\ cr3' = IF pml4_phys[next] THEN next ELSE cr3
        /\ in_service' = (isr /\ frame[next] # "irq")
    BY <1>5 DEF schedule, SendsEOI, new_cr3
  <2>2. /\ state'[current] = IF runnable THEN READY ELSE st[current]
        /\ state'[next] = RUNNING
        /\ \A p \in Slot \ {current, next} : state'[p] = st[p]
        /\ state' \in [Slot -> ProcessState]
    BY <2>1, <1>1, <1>2, <1>5, Zenon DEF ProcessState, READY, RUNNING
  <2>3. /\ runnable => time_slice'[current] = DEFAULT_TIME_SLICE
        /\ time_slice'[next] = DEFAULT_TIME_SLICE
        /\ \A p \in Slot \ {current, next} : time_slice'[p] = ts[p]
        /\ time_slice' \in [Slot -> 0 .. DEFAULT_TIME_SLICE]
    BY <2>1, <1>1, <1>2, <1>3, <1>5, Zenon
  <2>4. /\ frame' \in [Slot -> Frame]
        /\ frame'[current] = fr
        /\ \A p \in Slot \ {current} : frame'[p] = frame[p]
    BY <2>1, <1>2
  <2>5. st[next] = READY
    BY <1>1, <1>5 DEF READY, RUNNING
  <2>6. run_queue' \in Seq(Slot) /\ QueueHolds(run_queue', state')
    <3>1. CASE runnable /\ current # idle
      <4>1. current \notin Queued(rest)
        BY <1>1, <3>1 DEF READY, RUNNING
      <4>2. run_queue' = Append(rest, current)
        BY <2>1, <3>1, <4>1 DEF sched_add
      <4>3. /\ run_queue' \in Seq(Slot)
            /\ Queued(run_queue') = Queued(rest) \cup {current}
            /\ NoRepeats(run_queue')
        BY <4>1, <4>2, <1>1, <1>2, AppendQueued
      <4>4. {p \in Slot \ {idle} : state'[p] = READY} =
              {p \in Slot \ {idle} : st[p] = READY /\ p # next} \cup {current}
        BY <2>2, <2>5, <3>1, <1>1, <1>2 DEF READY, RUNNING
      <4>. QED  BY <4>3, <4>4, <1>1 DEF QueueHolds, NoRepeats
    <3>2. CASE ~runnable \/ current = idle
      <4>1. run_queue' = rest
        BY <2>1, <3>2 DEF sched_add
      <4>2. {p \in Slot \ {idle} : state'[p] = READY} =
              {p \in Slot \ {idle} : st[p] = READY /\ p # next}
        BY <2>2, <2>5, <3>2, <1>1, <1>2 DEF READY, RUNNING, BLOCKED, TERMINATED
      <4>. QED  BY <4>1, <4>2, <1>1 DEF QueueHolds, NoRepeats
    <3>. QED  BY <3>1, <3>2
  <2>7. \A p \in Slot : state'[p] = RUNNING <=> p = current'
    BY <2>1, <2>2, <2>5, <1>1, <1>2 DEF READY, RUNNING, BLOCKED, TERMINATED
  <2>8. \A p \in Slot : p # current' /\ st[p] # RUNNING => state'[p] = st[p]
    BY <2>1, <2>2
  <2>9. state'[idle] \in {READY, RUNNING}
    BY <2>2, <1>1, <1>2
  <2>10. \A p \in Slot : state'[p] \in {READY, RUNNING} => time_slice'[p] > 0
    BY <2>1, <2>2, <2>3, <2>7, <1>1, <1>2, <1>3, Zenon DEF READY, RUNNING, BLOCKED, TERMINATED
  <2>11. ASSUME in_service'
         PROVE  \E p \in Slot : p # current' /\ state'[p] = READY /\ frame'[p] = "irq"
    <3>1. isr /\ frame[next] # "irq"
      BY <2>1, <2>11, Zenon
    <3>2. CASE fr = "irq" /\ runnable
      BY <3>2, <2>1, <2>2, <2>4, <1>2, <1>5
    <3>3. CASE \E p \in Slot : p # current /\ st[p] = READY /\ frame[p] = "irq"
      BY <3>1, <3>3, <2>1, <2>2, <2>4
    <3>. QED  BY <3>1, <3>2, <3>3
  <2>12. current' = idle /\ in_service' => frame'[idle] = "entry"
    BY <2>1, <2>4, <1>2, <1>5, Zenon DEF Frame
  <2>13. frame'[idle] # "call"
    BY <2>4, <1>2
  <2>14. rsp0' = current' /\ (pml4_phys[current'] => cr3' = current') /\ rsp0' \in Slot /\ cr3' \in Slot
    BY <2>1, <1>1, <1>2
  <2>15. in_service' \in BOOLEAN
    BY <2>1
  <2>. HIDE DEF next
  <2>16. current' \in Slot /\ st[current'] \in {READY, RUNNING}
    BY <2>1, <2>5, <1>1
  <2>. QED  BY <2>2, <2>3, <2>4, <2>6, <2>7, <2>8, <2>9, <2>10, <2>11, <2>12, <2>13, Zenon,
               <2>14, <2>15, <2>16
<1>. QED  BY <1>4, <1>5, Zenon

(***************************************************************************)
(* The inductive invariant.                                                *)
(***************************************************************************)
\* The state kernel_main leaves behind before it creates the first process.
LEMMA InitIInv == Init => IInv
<1>1. SUFFICES ASSUME Init PROVE IInv
  OBVIOUS
<1>2. /\ state = [p \in Slot |-> IF p = idle THEN READY ELSE UNUSED]
      /\ run_queue = <<>> /\ boot = "create" /\ current = idle /\ in_service = FALSE
  BY <1>1 DEF Init, process_init, sched_init
<1>3. TypeOK
  <2>1. kernel_stack = [p \in Slot |-> p = idle] /\ pml4_phys = [p \in Slot |-> FALSE]
    BY <1>1 DEF Init, process_init
  <2>2. kernel_stack \in [Slot -> BOOLEAN] /\ pml4_phys \in [Slot -> BOOLEAN]
    BY <2>1, Zenon
  <2>3. /\ time_slice \in [Slot -> 0 .. DEFAULT_TIME_SLICE]
        /\ wake_in \in [Slot -> Int] /\ \A p \in Slot : wake_in[p] >= NoWake
    BY <1>1, TimeSliceAssumption DEF Init, process_init, NoWake
  <2>4. state \in [Slot -> ProcessState] /\ frame \in [Slot -> Frame]
    BY <1>1 DEF Init, process_init, ProcessState, Frame
  <2>5. at \in [Slot -> {"run", "sleep", "slept"}] /\ rsp0 \in Slot /\ cr3 \in Slot
    BY <1>1, SlotFacts DEF Init, process_init
  <2>6. run_queue \in Seq(Slot) /\ boot \in Boot /\ current \in Slot
    BY <1>2, SlotFacts DEF Boot
  <2>7. need_reschedule \in BOOLEAN /\ in_service \in BOOLEAN
    BY <1>1, <1>2, Zenon DEF Init, sched_init
  <2>. QED  BY <2>2, <2>3, <2>4, <2>5, <2>6, <2>7 DEF TypeOK
<1>4. QueueIsReady
  BY <1>2, SlotFacts DEF QueueIsReady, QueueHolds, Queued, READY, UNUSED
<1>5. SliceLeft /\ StackOwned
  <2>1. \A p \in Slot : state[p] # UNUSED => p = idle
    BY <1>2
  <2>2. \A p \in Slot : state[p] \in {READY, RUNNING} => p = idle
    BY <1>2 DEF READY, RUNNING, UNUSED
  <2>3. time_slice[idle] > 0
    BY <1>1, SlotFacts, TimeSliceAssumption DEF Init, process_init
  <2>4. kernel_stack = [p \in Slot |-> p = idle]
    BY <1>1 DEF Init, process_init
  <2>5. kernel_stack[idle]
    BY <2>4, SlotFacts, Zenon
  <2>. QED  BY <2>1, <2>2, <2>3, <2>5 DEF SliceLeft, StackOwned
<1>6. IdleSteps /\ SleepSteps
  BY <1>1, <1>2, SlotFacts DEF IdleSteps, SleepSteps, Init, process_init
<1>7. OneRunning /\ ContextOfCurrent /\ EOIOnSomeStack /\ DeafIdleOnlyFresh /\ BeforeStart
  BY <1>2 DEF OneRunning, ContextOfCurrent, EOIOnSomeStack, DeafIdleOnlyFresh, BeforeStart,
              scheduler_running
<1>. QED  BY <1>2, <1>3, <1>4, <1>5, <1>6, <1>7 DEF IInv

\* A call of the running process that ends in schedule() keeps the invariant,
\* as far as the wake ticks and the steps of sys_sleep allow.
LEMMA CallStep ==
    ASSUME IInv, boot = "done", current # idle,
           NEW st, NEW ts,
           st = state \/ \E s \in {BLOCKED, TERMINATED} : st = [state EXCEPT ![current] = s],
           ts = time_slice \/ ts = [time_slice EXCEPT ![current] = DEFAULT_TIME_SLICE],
           schedule(st, ts, run_queue, "call", in_service),
           UNCHANGED <<kernel_stack, pml4_phys, boot>>
    PROVE  /\ \A p \in Slot : p \notin {current, current'} => state'[p] = state[p]
           /\ \A p \in Slot : state'[p] = RUNNING <=> p = current'
           /\ current' # current
           /\ state'[current] = IF st = state THEN READY ELSE st[current]
           /\ state[current'] = READY
           /\ (/\ wake_in' \in [Slot -> Int] /\ (\A p \in Slot : wake_in'[p] >= NoWake)
               /\ at' \in [Slot -> {"run", "sleep", "slept"}]
               /\ need_reschedule' \in BOOLEAN
               /\ at'[idle] = "run"
               /\ SleepSteps') => IInv'
<1>0. TypeOK /\ current \in Slot /\ idle \in Slot /\ state \in [Slot -> ProcessState]
  BY SlotFacts, Zenon DEF IInv, TypeOK
<1>1. /\ state[current] = RUNNING
      /\ \A p \in Slot : state[p] = RUNNING <=> p = current
  BY <1>0 DEF IInv, OneRunning, scheduler_running
<1>2. /\ st \in [Slot -> ProcessState]
      /\ st[current] \in {RUNNING, BLOCKED, TERMINATED}
      /\ st = state => st[current] = RUNNING
      /\ st # state => st[current] \in {BLOCKED, TERMINATED}
      /\ \A p \in Slot \ {current} : st[p] = state[p]
  BY <1>0, <1>1 DEF ProcessState
<1>3. /\ ts \in [Slot -> 0 .. DEFAULT_TIME_SLICE]
      /\ \A p \in Slot : st[p] = READY => ts[p] > 0
  <2>1. time_slice \in [Slot -> 0 .. DEFAULT_TIME_SLICE]
    BY <1>0 DEF TypeOK
  <2>2. ts \in [Slot -> 0 .. DEFAULT_TIME_SLICE]
    BY <2>1, <1>0, TimeSliceAssumption
  <2>3. \A p \in Slot \ {current} : ts[p] = time_slice[p]
    BY <2>1
  <2>4. \A p \in Slot : st[p] = READY => p # current /\ state[p] = READY
    BY <1>2 DEF READY, RUNNING, BLOCKED, TERMINATED
  <2>. QED  BY <2>2, <2>3, <2>4 DEF IInv, SliceLeft
<1>4. QueueHolds(run_queue, st)
  <2>1. {p \in Slot \ {idle} : st[p] = READY} = {p \in Slot \ {idle} : state[p] = READY}
    BY <1>1, <1>2 DEF READY, RUNNING, BLOCKED, TERMINATED
  <2>. QED  BY <2>1 DEF IInv, QueueIsReady, QueueHolds
<1>5. in_service => \E p \in Slot : p # current /\ st[p] = READY /\ frame[p] = "irq"
  BY <1>2 DEF IInv, EOIOnSomeStack
<1>6. /\ \A p \in Slot : st[p] = RUNNING => p = current
      /\ st[idle] \in {READY, RUNNING}
      /\ frame[idle] # "call"
  BY <1>0, <1>1, <1>2 DEF IInv, IdleSteps
<1>7. run_queue \in Seq(Slot) /\ in_service \in BOOLEAN /\ "call" \in Frame
  BY <1>0 DEF TypeOK, Frame
<1>s. Scheduled(st)
  BY <1>0, <1>2, <1>3, <1>4, <1>5, <1>6, <1>7, ScheduleStep, SMTT(30)
<1>8. /\ state' \in [Slot -> ProcessState]
      /\ time_slice' \in [Slot -> 0 .. DEFAULT_TIME_SLICE]
      /\ frame' \in [Slot -> Frame]
      /\ run_queue' \in Seq(Slot)
      /\ current' \in Slot /\ rsp0' \in Slot /\ cr3' \in Slot
      /\ in_service' \in BOOLEAN
      /\ \A p \in Slot : state'[p] = RUNNING <=> p = current'
      /\ \A p \in Slot : p # current' /\ st[p] # RUNNING => state'[p] = st[p]
      /\ st[current'] \in {READY, RUNNING}
      /\ state'[idle] \in {READY, RUNNING}
      /\ QueueHolds(run_queue', state')
      /\ UNCHANGED cpuVars \/ (rsp0' = current' /\ (pml4_phys[current'] => cr3' = current'))
      /\ \A p \in Slot : state'[p] \in {READY, RUNNING} => time_slice'[p] > 0
      /\ in_service' => \E p \in Slot : p # current' /\ state'[p] = READY /\ frame'[p] = "irq"
      /\ current' = idle /\ in_service' => frame'[idle] = "entry"
      /\ frame'[idle] # "call"
  BY <1>s DEF Scheduled
<1>9. /\ current' # current
      /\ state'[current] = IF st = state THEN READY ELSE st[current]
  <2>1. sched_pick_next(run_queue) # current /\ sched_pick_next(run_queue) \in Slot
    BY PickStep, <1>0, <1>2, <1>4, <1>7 DEF READY, RUNNING, BLOCKED, TERMINATED
  <2>. QED  BY <2>1, <1>0, <1>2 DEF schedule, READY, RUNNING, BLOCKED, TERMINATED
<1>10. /\ \A p \in Slot : p \notin {current, current'} => state'[p] = state[p]
       /\ state[current'] = READY
  BY <1>1, <1>2, <1>8, <1>9
<1>11. StackOwned'
  <2>1. \A p \in Slot : state'[p] # UNUSED => state[p] # UNUSED
    BY <1>1, <1>10 DEF READY, RUNNING, UNUSED
  <2>. QED  BY <2>1 DEF IInv, StackOwned
<1>12. pml4_phys' \in [Slot -> BOOLEAN] /\ kernel_stack' \in [Slot -> BOOLEAN] /\ boot' \in Boot
  BY <1>0 DEF TypeOK
<1>13. ContextOfCurrent'
  BY <1>8, <1>9 DEF ContextOfCurrent, cpuVars
<1>14. OneRunning' /\ QueueIsReady' /\ SliceLeft' /\ EOIOnSomeStack' /\ DeafIdleOnlyFresh'
  BY <1>8 DEF OneRunning, QueueIsReady, SliceLeft, EOIOnSomeStack, DeafIdleOnlyFresh
<1>15. BeforeStart' /\ (boot' = "user" => run_queue' # <<>>)
  BY DEF BeforeStart, scheduler_running
<1>16. ASSUME wake_in' \in [Slot -> Int], \A p \in Slot : wake_in'[p] >= NoWake,
              at' \in [Slot -> {"run", "sleep", "slept"}],
              need_reschedule' \in BOOLEAN
       PROVE  TypeOK'
  BY <1>8, <1>12, <1>16 DEF TypeOK
<1>17. at'[idle] = "run" => IdleSteps'
  BY <1>8 DEF IdleSteps
<1>. QED  BY <1>8, <1>9, <1>10, <1>11, <1>13, <1>14, <1>15, <1>16, <1>17 DEF IInv

\* process_exit, process_yield, process_block and the three steps of
\* sys_sleep.
LEMMA LeaveIInv == IInv /\ Leave => IInv'
<1>0. SUFFICES ASSUME IInv, Leave PROVE IInv'
  OBVIOUS
<1> USE <1>0
<1>a. TypeOK /\ SleepSteps /\ current \in Slot /\ idle \in Slot
  BY SlotFacts, Zenon DEF IInv, TypeOK
<1>b. /\ wake_in \in [Slot -> Int] /\ \A p \in Slot : wake_in[p] >= NoWake
      /\ at \in [Slot -> {"run", "sleep", "slept"}]
      /\ need_reschedule \in BOOLEAN
      /\ at[idle] = "run"
  BY <1>a DEF TypeOK, IInv, IdleSteps
<1>1. CASE process_exit
  <2>1. /\ boot = "done" /\ current # idle /\ at[current] = "run"
        /\ schedule([state EXCEPT ![current] = TERMINATED], time_slice, run_queue,
                    "call", in_service)
        /\ UNCHANGED <<wake_in, kernel_stack, pml4_phys, at, need_reschedule, boot>>
    BY <1>1 DEF process_exit, Calls
  <2>2. /\ \A p \in Slot : p \notin {current, current'} => state'[p] = state[p]
        /\ \A p \in Slot : state'[p] = RUNNING <=> p = current'
        /\ SleepSteps' => IInv'
    BY <2>1, <1>b, CallStep
  <2>3. SleepSteps'
    BY <2>1, <2>2, <1>a DEF SleepSteps, BLOCKED, RUNNING
  <2>. QED  BY <2>2, <2>3
<1>2. ASSUME Calls("run"), process_yield PROVE IInv'
  <2>1. /\ boot = "done" /\ current # idle
        /\ schedule(state, [time_slice EXCEPT ![current] = DEFAULT_TIME_SLICE],
                    run_queue, "call", in_service)
        /\ need_reschedule' = TRUE
        /\ UNCHANGED <<wake_in, kernel_stack, pml4_phys, at, boot>>
    BY <1>2 DEF process_yield, Calls
  <2>2. /\ \A p \in Slot : p \notin {current, current'} => state'[p] = state[p]
        /\ \A p \in Slot : state'[p] = RUNNING <=> p = current'
        /\ state'[current] = READY
        /\ SleepSteps' => IInv'
    BY <2>1, <1>b, CallStep
  <2>3. SleepSteps'
    BY <2>1, <2>2, <1>a DEF SleepSteps, BLOCKED, RUNNING, READY
  <2>. QED  BY <2>2, <2>3
<1>3. CASE Block
  <2>1. /\ boot = "done" /\ current # idle /\ at[current] = "run"
        /\ schedule([state EXCEPT ![current] = BLOCKED], time_slice, run_queue,
                    "call", in_service)
        /\ UNCHANGED <<wake_in, kernel_stack, pml4_phys, at, need_reschedule, boot>>
    BY <1>3 DEF Block, process_block, Calls
  <2>2. /\ \A p \in Slot : p \notin {current, current'} => state'[p] = state[p]
        /\ \A p \in Slot : state'[p] = RUNNING <=> p = current'
        /\ SleepSteps' => IInv'
    BY <2>1, <1>b, CallStep
  <2>3. SleepSteps'
    BY <2>1, <2>2, <1>a DEF SleepSteps, BLOCKED, RUNNING
  <2>. QED  BY <2>2, <2>3
<1>4. CASE SleepBlock
  <2>1. /\ boot = "done" /\ current # idle /\ at[current] = "sleep"
        /\ schedule([state EXCEPT ![current] = BLOCKED], time_slice, run_queue,
                    "call", in_service)
        /\ at' = [at EXCEPT ![current] = "slept"]
        /\ UNCHANGED <<wake_in, kernel_stack, pml4_phys, need_reschedule, boot>>
    BY <1>4 DEF SleepBlock, process_block, Calls
  <2>2. at' \in [Slot -> {"run", "sleep", "slept"}] /\ at'[idle] = "run"
    BY <2>1, <1>a, <1>b
  <2>3. /\ \A p \in Slot : p \notin {current, current'} => state'[p] = state[p]
        /\ \A p \in Slot : state'[p] = RUNNING <=> p = current'
        /\ SleepSteps' => IInv'
    BY <2>1, <2>2, <1>b, CallStep
  <2>4. SleepSteps'
    BY <2>1, <2>3, <1>a, <1>b DEF SleepSteps, BLOCKED, RUNNING
  <2>. QED  BY <2>3, <2>4
<1>5. ASSUME NEW ms \in SleepMs, sys_sleep(ms), ms # 0 PROVE IInv'
  <2>1. /\ boot = "done" /\ current # idle
        /\ wake_in' = [wake_in EXCEPT ![current] = ticks_to_sleep(ms)]
        /\ at' = [at EXCEPT ![current] = "sleep"]
        /\ UNCHANGED <<state, time_slice, kernel_stack, pml4_phys, frame,
                       run_queue, need_reschedule, boot, in_service, current, rsp0, cr3>>
    BY <1>5 DEF sys_sleep, Calls, cpuVars
  <2>2. ticks_to_sleep(ms) \in Nat
    <3>1. ms \in Nat /\ UINT64_WRAP \in Nat \ {0}  BY <1>5, SleepAssumption
    <3>2. (ms + 9) % UINT64_WRAP \in Nat  BY <3>1
    <3>. QED  BY <3>2 DEF ticks_to_sleep
  <2>3. state[current] = RUNNING
    BY <2>1, <1>a DEF IInv, OneRunning, scheduler_running
  <2>4. TypeOK'
    BY <2>1, <2>2, <1>a DEF TypeOK, NoWake
  <2>5. SleepSteps' /\ IdleSteps'
    BY <2>1, <2>2, <2>3, <1>a, <1>b DEF SleepSteps, IdleSteps, IInv
  <2>. QED
    BY <2>1, <2>4, <2>5
       DEF IInv, OneRunning, QueueIsReady, ContextOfCurrent, StackOwned, SliceLeft,
           EOIOnSomeStack, DeafIdleOnlyFresh, BeforeStart, scheduler_running
<1>6. CASE SleepReturn
  <2>1. /\ boot = "done" /\ current # idle
        /\ wake_in' = [wake_in EXCEPT ![current] = NoWake]
        /\ at' = [at EXCEPT ![current] = "run"]
        /\ UNCHANGED <<state, time_slice, kernel_stack, pml4_phys, frame,
                       run_queue, need_reschedule, boot, in_service, current, rsp0, cr3>>
    BY <1>6 DEF SleepReturn, Calls, cpuVars
  <2>2. TypeOK'
    BY <2>1, <1>a DEF TypeOK, NoWake
  <2>3. SleepSteps' /\ IdleSteps'
    BY <2>1, <1>a, <1>b DEF SleepSteps, IdleSteps, IInv
  <2>. QED
    BY <2>1, <2>2, <2>3
       DEF IInv, OneRunning, QueueIsReady, ContextOfCurrent, StackOwned, SliceLeft,
           EOIOnSomeStack, DeafIdleOnlyFresh, BeforeStart, scheduler_running
<1>7. CASE Yield
  BY <1>2, <1>7 DEF Yield
<1>8. ASSUME NEW ms \in SleepMs, sys_sleep(ms), ms = 0 PROVE IInv'
  BY <1>2, <1>8 DEF sys_sleep
<1>. QED  BY <1>1, <1>3, <1>4, <1>5, <1>6, <1>7, <1>8 DEF Leave

\* Making a process READY and appending it to the queue, for one that is
\* neither queued, current nor idle (process_create and process_unblock).
LEMMA EnqueueStep ==
    ASSUME IInv, NEW p \in Slot, p # idle, p # current, state[p] \notin {READY, RUNNING},
           state' = [state EXCEPT ![p] = READY],
           run_queue' = sched_add(run_queue, p),
           UNCHANGED <<current, in_service>>,
           frame' = frame \/ (state[p] = UNUSED /\ frame' = [frame EXCEPT ![p] = "entry"])
    PROVE  /\ state' \in [Slot -> ProcessState]
           /\ run_queue' \in Seq(Slot) /\ run_queue' # <<>>
           /\ QueueIsReady'
           /\ \A r \in Slot : state'[r] = IF r = p THEN READY ELSE state[r]
           /\ frame' \in [Slot -> Frame]
           /\ frame'[idle] = frame[idle]
           /\ EOIOnSomeStack'
           /\ DeafIdleOnlyFresh'
<1>1. /\ state \in [Slot -> ProcessState] /\ run_queue \in Seq(Slot)
      /\ frame \in [Slot -> Frame] /\ idle \in Slot
      /\ Queued(run_queue) = {r \in Slot \ {idle} : state[r] = READY}
      /\ NoRepeats(run_queue)
  BY SlotFacts, Zenon DEF IInv, TypeOK, QueueIsReady, QueueHolds, NoRepeats
<1>2. run_queue' = Append(run_queue, p) /\ p \notin Queued(run_queue)
  BY <1>1 DEF sched_add
<1>3. /\ run_queue' \in Seq(Slot)
      /\ Queued(run_queue') = Queued(run_queue) \cup {p}
      /\ NoRepeats(run_queue')
  BY <1>1, <1>2, AppendQueued
<1>4. \A r \in Slot : state'[r] = IF r = p THEN READY ELSE state[r]
  BY <1>1
<1>5. state' \in [Slot -> ProcessState]
  BY <1>1 DEF ProcessState
<1>6. QueueIsReady'
  <2>1. {r \in Slot \ {idle} : state'[r] = READY} =
          {r \in Slot \ {idle} : state[r] = READY} \cup {p}
    BY <1>4
  <2>. QED  BY <2>1, <1>1, <1>3 DEF QueueIsReady, QueueHolds, NoRepeats
<1>7. frame' \in [Slot -> Frame] /\ \A r \in Slot : r # p => frame'[r] = frame[r]
  BY <1>1 DEF Frame
<1>8. EOIOnSomeStack'
  BY <1>4, <1>7 DEF IInv, EOIOnSomeStack
<1>9. DeafIdleOnlyFresh' /\ frame'[idle] = frame[idle]
  BY <1>1, <1>7 DEF IInv, DeafIdleOnlyFresh
<1>10. run_queue' # <<>>
  BY <1>1, <1>2
<1>. QED  BY <1>3, <1>4, <1>5, <1>6, <1>7, <1>8, <1>9, <1>10

\* process_create, at boot or from a running process.
LEMMA CreateIInv ==
    ASSUME IInv, NEW p \in Slot, NEW hasStack \in BOOLEAN, process_create(p, hasStack),
           boot' = boot \/ (boot = "create" /\ hasStack /\ boot' = "user")
    PROVE  IInv'
<1>0. /\ state[p] = UNUSED /\ p # idle /\ p # current
      /\ state \in [Slot -> ProcessState] /\ kernel_stack \in [Slot -> BOOLEAN]
      /\ time_slice \in [Slot -> 0 .. DEFAULT_TIME_SLICE]
      /\ current \in Slot /\ idle \in Slot
  <2>1. state[p] = UNUSED  BY DEF process_create, find_free_slot
  <2>2. p # idle  BY <2>1 DEF IInv, IdleSteps, READY, RUNNING, UNUSED
  <2>3. p # current
    BY <2>1, <2>2 DEF IInv, OneRunning, BeforeStart, RUNNING, UNUSED
  <2>. QED  BY <2>1, <2>2, <2>3, SlotFacts, Zenon DEF IInv, TypeOK
<1>1. /\ kernel_stack' = [kernel_stack EXCEPT ![p] = hasStack]
      /\ UNCHANGED <<wake_in, pml4_phys, at, need_reschedule, in_service, current, rsp0, cr3>>
  BY DEF process_create, cpuVars
<1>2. /\ kernel_stack' \in [Slot -> BOOLEAN]
      /\ kernel_stack'[p] = hasStack
      /\ \A r \in Slot \ {p} : kernel_stack'[r] = kernel_stack[r]
  BY <1>0, <1>1
<1>3. boot' \in Boot /\ (scheduler_running' <=> scheduler_running)
  BY DEF IInv, TypeOK, Boot, scheduler_running
<1>4. CASE hasStack
  <2>1. /\ state' = [state EXCEPT ![p] = READY]
        /\ time_slice' = [time_slice EXCEPT ![p] = DEFAULT_TIME_SLICE]
        /\ frame' = [frame EXCEPT ![p] = "entry"]
        /\ run_queue' = sched_add(run_queue, p)
    BY <1>4 DEF process_create
  <2>2. state[p] \notin {READY, RUNNING}
    BY <1>0 DEF READY, RUNNING, UNUSED
  <2>3. /\ state' \in [Slot -> ProcessState]
        /\ run_queue' \in Seq(Slot) /\ run_queue' # <<>>
        /\ QueueIsReady'
        /\ \A r \in Slot : state'[r] = IF r = p THEN READY ELSE state[r]
        /\ frame' \in [Slot -> Frame]
        /\ frame'[idle] = frame[idle]
        /\ EOIOnSomeStack'
        /\ DeafIdleOnlyFresh'
    BY <1>0, <1>1, <2>1, <2>2, EnqueueStep, Zenon
  <2>4. /\ time_slice' \in [Slot -> 0 .. DEFAULT_TIME_SLICE]
        /\ time_slice'[p] > 0
        /\ \A r \in Slot \ {p} : time_slice'[r] = time_slice[r]
    BY <1>0, <2>1, TimeSliceAssumption
  <2>5. TypeOK'
    BY <1>1, <1>2, <1>3, <2>3, <2>4, Zenon DEF IInv, TypeOK
  <2>6. OneRunning' /\ ContextOfCurrent'
    <3>1. OneRunning'
      BY <1>0, <1>1, <1>3, <2>3 DEF IInv, OneRunning, READY, RUNNING
    <3>2. boot' = "done" => boot = "done"
      OBVIOUS
    <3>. QED  BY <3>1, <3>2, <1>1 DEF IInv, ContextOfCurrent
  <2>7. StackOwned' /\ SliceLeft'
    <3>1. StackOwned'  BY <1>2, <1>4, <2>3, Zenon DEF IInv, StackOwned
    <3>2. SliceLeft'  BY <2>3, <2>4 DEF IInv, SliceLeft
    <3>. QED  BY <3>1, <3>2
  <2>8. BeforeStart'
    BY <1>1, <1>3, <2>3 DEF IInv, BeforeStart
  <2>9. IdleSteps' /\ SleepSteps'
    BY <1>0, <1>1, <2>3, Zenon DEF IInv, IdleSteps, SleepSteps, UNUSED, READY, BLOCKED
  <2>. QED  BY <2>3, <2>5, <2>6, <2>7, <2>8, <2>9 DEF IInv
<1>5. CASE ~hasStack
  <2>1. UNCHANGED <<state, time_slice, frame, run_queue, boot>>
    BY <1>5 DEF process_create
  <2>2. TypeOK'
    BY <1>1, <1>2, <2>1, Zenon DEF IInv, TypeOK
  <2>3. StackOwned'
    BY <1>0, <1>2, <2>1 DEF IInv, StackOwned
  <2>. QED
    BY <1>1, <2>1, <2>2, <2>3
       DEF IInv, OneRunning, QueueIsReady, ContextOfCurrent, SliceLeft, IdleSteps, SleepSteps,
           EOIOnSomeStack, DeafIdleOnlyFresh, BeforeStart, scheduler_running
<1>. QED  BY <1>4, <1>5

\* process_unblock.
LEMMA UnblockIInv ==
    ASSUME IInv, NEW p \in Slot, process_unblock(p)
    PROVE  IInv'
<1>1. /\ boot = "done" /\ state[p] = BLOCKED
      /\ state' = [state EXCEPT ![p] = READY]
      /\ time_slice' = [time_slice EXCEPT ![p] = DEFAULT_TIME_SLICE]
      /\ run_queue' = sched_add(run_queue, p)
      /\ UNCHANGED <<wake_in, kernel_stack, pml4_phys, frame, at, need_reschedule, boot,
                     in_service, current, rsp0, cr3>>
  BY DEF process_unblock, Calls, cpuVars
<1>2. p # idle /\ p # current /\ state[p] \notin {READY, RUNNING}
  BY <1>1 DEF IInv, IdleSteps, OneRunning, scheduler_running, READY, RUNNING, BLOCKED
<1>3. /\ state' \in [Slot -> ProcessState]
      /\ run_queue' \in Seq(Slot) /\ run_queue' # <<>>
      /\ QueueIsReady'
      /\ \A r \in Slot : state'[r] = IF r = p THEN READY ELSE state[r]
      /\ EOIOnSomeStack'
      /\ DeafIdleOnlyFresh'
  BY <1>1, <1>2, EnqueueStep, Zenon
<1>4. /\ time_slice' \in [Slot -> 0 .. DEFAULT_TIME_SLICE]
      /\ time_slice'[p] > 0
      /\ \A r \in Slot \ {p} : time_slice'[r] = time_slice[r]
  BY <1>1, TimeSliceAssumption DEF IInv, TypeOK
<1>5. TypeOK'
  BY <1>1, <1>3, <1>4, Zenon DEF IInv, TypeOK
<1>6. OneRunning'
  BY <1>1, <1>2, <1>3 DEF IInv, OneRunning, scheduler_running, READY, RUNNING
<1>7. StackOwned' /\ SliceLeft'
  BY <1>1, <1>3, <1>4 DEF IInv, StackOwned, SliceLeft, UNUSED, BLOCKED
<1>8. IdleSteps' /\ SleepSteps'
  BY <1>1, <1>2, <1>3, SlotFacts DEF IInv, IdleSteps, SleepSteps, READY, BLOCKED
<1>9. ContextOfCurrent' /\ BeforeStart'
  BY <1>1 DEF IInv, ContextOfCurrent, BeforeStart, scheduler_running
<1>. QED  BY <1>1, <1>3, <1>5, <1>6, <1>7, <1>8, <1>9 DEF IInv

\* kernel_main: creating processes, completing a user process, sched_start
\* and the switch to the first process.
LEMMA BootingIInv == IInv /\ Booting => IInv'
<1>0. SUFFICES ASSUME IInv, Booting PROVE IInv'
  OBVIOUS
<1> USE <1>0
<1>1. ASSUME NEW p \in Slot, NEW hasStack \in BOOLEAN, BootCreate(p, hasStack)
      PROVE  IInv'
  BY <1>1, CreateIInv DEF BootCreate
<1>2. ASSUME NEW p \in Slot, NEW hasStack \in BOOLEAN, UserProcessCreate(p, hasStack)
      PROVE  IInv'
  BY <1>2, CreateIInv, Zenon DEF UserProcessCreate
<1>3. CASE UserProcessFields
  <2>1. /\ boot = "user" /\ boot' = "create"
        /\ pml4_phys' = [pml4_phys EXCEPT ![run_queue[Len(run_queue)]] = TRUE]
        /\ UNCHANGED <<state, time_slice, wake_in, kernel_stack, frame, at, run_queue,
                       need_reschedule, in_service, current, rsp0, cr3>>
    BY <1>3 DEF UserProcessFields, cpuVars
  <2>2. TypeOK'
    BY <2>1, Zenon DEF IInv, TypeOK, Boot
  <2>. QED
    BY <2>1, <2>2
       DEF IInv, OneRunning, QueueIsReady, ContextOfCurrent, StackOwned, SliceLeft, IdleSteps,
           SleepSteps, EOIOnSomeStack, DeafIdleOnlyFresh, BeforeStart, scheduler_running
<1>4. CASE sched_start
  <2> DEFINE first == sched_pick_next(run_queue)
  <2>1. /\ boot = "create" /\ boot' = "starting"
        /\ state' = [state EXCEPT ![first] = RUNNING]
        /\ time_slice' = [time_slice EXCEPT ![first] = DEFAULT_TIME_SLICE]
        /\ current' = first
        /\ run_queue' = PickRest(run_queue)
        /\ UNCHANGED <<wake_in, kernel_stack, pml4_phys, frame, at, need_reschedule,
                       in_service, rsp0, cr3>>
    BY <1>4 DEF sched_start
  <2>2. /\ TypeOK /\ state \in [Slot -> ProcessState] /\ run_queue \in Seq(Slot)
        /\ ~in_service
        /\ \A p \in Slot : state[p] \in {UNUSED, READY}
        /\ state[idle] = READY /\ idle \in Slot
    BY <2>1, SlotFacts, Zenon DEF IInv, TypeOK, BeforeStart, scheduler_running, IdleSteps,
                           UNUSED, READY, RUNNING
  <2>3. /\ first \in Slot
        /\ run_queue' \in Seq(Slot) /\ NoRepeats(run_queue')
        /\ Queued(run_queue') = {p \in Slot \ {idle} : state[p] = READY /\ p # first}
        /\ state[first] = READY
    BY <2>1, <2>2, PickStep DEF IInv, QueueIsReady
  <2>4. /\ \A p \in Slot : state'[p] = IF p = first THEN RUNNING ELSE state[p]
        /\ state' \in [Slot -> ProcessState]
    BY <2>1, <2>2, <2>3 DEF ProcessState
  <2>5. /\ \A p \in Slot : time_slice'[p] = IF p = first THEN DEFAULT_TIME_SLICE ELSE time_slice[p]
        /\ time_slice' \in [Slot -> 0 .. DEFAULT_TIME_SLICE]
    BY <2>1, <2>2, <2>3, TimeSliceAssumption DEF TypeOK
  <2>6. TypeOK'
    BY <2>1, <2>2, <2>3, <2>4, <2>5, SMTT(30) DEF TypeOK, Boot
  <2>7. QueueIsReady'
    <3>1. {p \in Slot \ {idle} : state'[p] = READY} =
            {p \in Slot \ {idle} : state[p] = READY /\ p # first}
      BY <2>4 DEF READY, RUNNING
    <3>. QED  BY <3>1, <2>3 DEF QueueIsReady, QueueHolds, NoRepeats
  <2>8. OneRunning'
    BY <2>1, <2>2, <2>4 DEF OneRunning, UNUSED, READY, RUNNING
  <2>9. StackOwned' /\ SliceLeft'
    <3>1. StackOwned'
      BY <2>1, <2>3, <2>4 DEF IInv, StackOwned, UNUSED, READY
    <3>2. SliceLeft'
      BY <2>3, <2>4, <2>5, TimeSliceAssumption DEF IInv, SliceLeft, READY, RUNNING
    <3>. QED  BY <3>1, <3>2
  <2>10. IdleSteps' /\ SleepSteps'
    BY <2>1, <2>2, <2>4 DEF IInv, IdleSteps, SleepSteps, READY, RUNNING, BLOCKED
  <2>11. /\ ContextOfCurrent' /\ BeforeStart' /\ EOIOnSomeStack' /\ DeafIdleOnlyFresh'
         /\ (boot' = "user" => run_queue' # <<>>)
    BY <2>1, <2>2
       DEF ContextOfCurrent, BeforeStart, EOIOnSomeStack, DeafIdleOnlyFresh, scheduler_running
  <2>. QED  BY <2>6, <2>7, <2>8, <2>9, <2>10, <2>11 DEF IInv
<1>5. CASE context_switch_first
  <2>1. /\ boot = "starting" /\ boot' = "done" /\ rsp0' = current /\ cr3' = new_cr3(current)
        /\ UNCHANGED <<state, time_slice, wake_in, kernel_stack, pml4_phys, frame, at,
                       run_queue, need_reschedule, in_service, current>>
    BY <1>5 DEF context_switch_first, procVars
  <2>2. TypeOK' /\ ContextOfCurrent'
    BY <2>1 DEF IInv, TypeOK, Boot, ContextOfCurrent, new_cr3
  <2>. QED
    BY <2>1, <2>2
       DEF IInv, OneRunning, QueueIsReady, StackOwned, SliceLeft, IdleSteps,
           SleepSteps, EOIOnSomeStack, DeafIdleOnlyFresh, BeforeStart, scheduler_running
<1>. QED  BY <1>1, <1>2, <1>3, <1>4, <1>5 DEF Booting

\* No step takes a process out of the TERMINATED state.
KeepsTerminated == \A p \in Slot : state[p] = TERMINATED => state'[p] = TERMINATED

\* The wake ticks after a tick that woke the processes of woken.
LEMMA Ticks ==
    ASSUME wake_in \in [Slot -> Int], \A p \in Slot : wake_in[p] >= NoWake, NEW woken,
           wake_in' = [p \in Slot |-> IF p \in woken THEN NoWake ELSE WakeIn(p)]
    PROVE  /\ wake_in' \in [Slot -> Int]
           /\ \A p \in Slot : /\ wake_in'[p] >= NoWake
                              /\ p \notin woken => (wake_in[p] >= 0 <=> wake_in'[p] >= 0)
                              /\ wake_in[p] = NoWake => wake_in'[p] = NoWake
BY DEF WakeIn, NoWake

\* What the timer interrupt leaves, when it woke the processes of woken and
\* schedule() then began with the states st, or was not called.
LEMMA TimerAfter ==
    ASSUME IInv, scheduler_running, NEW woken \in SUBSET Slot,
           \A p \in woken : state[p] = BLOCKED /\ p # idle /\ p # current /\ at[p] = "slept",
           NEW st, \A p \in Slot : st[p] = IF p \in woken THEN READY ELSE state[p],
           \A p \in Slot : st[p] = RUNNING <=> p = current,
           wake_in' \in [Slot -> Int],
           \A p \in Slot : /\ wake_in'[p] >= NoWake
                           /\ p \notin woken => (wake_in[p] >= 0 <=> wake_in'[p] >= 0)
                           /\ wake_in[p] = NoWake => wake_in'[p] = NoWake,
           need_reschedule' = FALSE, UNCHANGED <<kernel_stack, pml4_phys, at, boot>>,
           Scheduled(st), state'[current] \in {READY, RUNNING}
    PROVE  IInv' /\ KeepsTerminated
<1>1. TypeOK /\ current \in Slot /\ idle \in Slot /\ state \in [Slot -> ProcessState]
  BY SlotFacts, Zenon DEF IInv, TypeOK
<1>2. /\ \A p \in Slot : state'[p] = RUNNING <=> p = current'
      /\ \A p \in Slot : p # current' /\ st[p] # RUNNING => state'[p] = st[p]
      /\ st[current'] \in {READY, RUNNING} /\ current' \in Slot
  BY Zenon DEF Scheduled
<1>3. TypeOK'
  BY <1>1, Zenon DEF TypeOK, Scheduled
<1>4. OneRunning' /\ QueueIsReady' /\ SliceLeft' /\ EOIOnSomeStack' /\ DeafIdleOnlyFresh'
  BY Zenon DEF Scheduled, OneRunning, QueueIsReady, SliceLeft, EOIOnSomeStack, DeafIdleOnlyFresh
<1>5. ContextOfCurrent'
  BY Zenon DEF Scheduled, IInv, ContextOfCurrent, cpuVars
<1>6. StackOwned'
  <2>1. \A p \in Slot : state'[p] # UNUSED => state[p] # UNUSED
    BY <1>1, <1>2, Zenon DEF UNUSED, READY, RUNNING, BLOCKED
  <2>. QED  BY <2>1 DEF IInv, StackOwned
<1>7. BeforeStart' /\ (boot' = "user" => run_queue' # <<>>)
  BY DEF BeforeStart, scheduler_running
<1>8. IdleSteps'
  BY Zenon DEF Scheduled, IInv, IdleSteps
<1>9. SleepSteps'
  <2>1. SUFFICES ASSUME NEW p \in Slot
                 PROVE  /\ at[p] = "run" => wake_in'[p] = NoWake
                        /\ at[p] = "sleep" => wake_in'[p] >= 0 /\ state'[p] \in {READY, RUNNING}
                        /\ at[p] = "slept" /\ state'[p] = BLOCKED => wake_in'[p] >= 0
    BY DEF SleepSteps
  <2>2. CASE p \in woken
    <3>1. at[p] = "slept" /\ st[p] = READY
      BY <2>2
    <3>2. state'[p] # BLOCKED
      BY <1>2, <3>1, Zenon DEF READY, RUNNING, BLOCKED
    <3>. QED  BY <3>1, <3>2
  <2>3. CASE p \notin woken
    <3>1. st[p] = state[p]
      BY <2>3, Zenon
    <3>2. state[p] \in {READY, RUNNING} => state'[p] \in {READY, RUNNING}
      BY <1>2, <3>1, Zenon
    <3>3. state'[p] = BLOCKED => state[p] = BLOCKED
      BY <1>2, <3>1, Zenon DEF READY, RUNNING, BLOCKED
    <3>. QED  BY <2>3, <3>2, <3>3 DEF IInv, SleepSteps
  <2>. QED  BY <2>2, <2>3
<1>10. KeepsTerminated
  BY <1>1, <1>2, Zenon DEF KeepsTerminated, READY, RUNNING, BLOCKED, TERMINATED
<1>. QED  BY <1>3, <1>4, <1>5, <1>6, <1>7, <1>8, <1>9, <1>10, Zenon DEF IInv

\* The timer interrupt: wake-ups, accounting, preemption and the EOI.
LEMMA TimerIInv == IInv /\ TimerIRQ => IInv' /\ KeepsTerminated
<1>0. SUFFICES ASSUME IInv, TimerIRQ PROVE IInv' /\ KeepsTerminated
  OBVIOUS
<1> USE <1>0
<1> DEFINE woken == process_wake_sleeping
           st == [p \in Slot |-> IF p \in woken THEN READY ELSE state[p]]
           left == [time_slice EXCEPT ![current] = IF @ > 0 THEN @ - 1 ELSE 0]
<1>1. /\ scheduler_running /\ ~in_service
      /\ TypeOK /\ current \in Slot /\ idle \in Slot
      /\ state \in [Slot -> ProcessState]
      /\ time_slice \in [Slot -> 0 .. DEFAULT_TIME_SLICE]
      /\ wake_in \in [Slot -> Int] /\ \A p \in Slot : wake_in[p] >= NoWake
      /\ run_queue \in Seq(Slot)
      /\ DEFAULT_TIME_SLICE \in 0 .. DEFAULT_TIME_SLICE /\ DEFAULT_TIME_SLICE > 0
      /\ \A p \in Slot : state[p] = RUNNING <=> p = current
  <2>1. scheduler_running /\ ~in_service
    BY DEF TimerIRQ
  <2>2. \A p \in Slot : state[p] = RUNNING <=> p = current
    BY <2>1 DEF IInv, OneRunning
  <2>3. DEFAULT_TIME_SLICE \in 0 .. DEFAULT_TIME_SLICE /\ DEFAULT_TIME_SLICE > 0
    BY TimeSliceAssumption
  <2>. QED  BY <2>1, <2>2, <2>3, SlotFacts, Zenon DEF IInv, TypeOK
<1>2. /\ woken \in SUBSET Slot
      /\ \A p \in woken : state[p] = BLOCKED /\ p # idle /\ p # current /\ at[p] = "slept"
  <2>1. \A p \in woken : p \in Slot /\ state[p] = BLOCKED /\ WakeIn(p) = 0
    BY DEF process_wake_sleeping
  <2>2. \A p \in woken : p # idle /\ p # current
    BY <2>1, <1>1 DEF IInv, IdleSteps, READY, RUNNING, BLOCKED
  <2>3. \A p \in woken : wake_in[p] # NoWake
    BY <2>1, <1>1 DEF WakeIn, NoWake
  <2>4. at \in [Slot -> {"run", "sleep", "slept"}]
    BY <1>1 DEF TypeOK
  <2>5. \A p \in woken : at[p] = "slept"
    BY <2>1, <2>3, <2>4 DEF IInv, SleepSteps, READY, RUNNING, BLOCKED
  <2>. QED  BY <2>1, <2>2, <2>5
<1>3. {p \in woken : sched_add(run_queue, p) # run_queue} = woken
  <2>1. ASSUME NEW p \in woken PROVE sched_add(run_queue, p) # run_queue
    <3>1. p \notin Queued(run_queue) /\ p # idle
      BY <1>2 DEF IInv, QueueIsReady, QueueHolds, READY, BLOCKED
    <3>2. sched_add(run_queue, p) = Append(run_queue, p)
      BY <3>1 DEF sched_add
    <3>3. Len(Append(run_queue, p)) = Len(run_queue) + 1 /\ Len(run_queue) \in Nat
      BY <1>1, <1>2
    <3>. QED  BY <3>2, <3>3
  <2>. QED  BY <2>1
<1>4. PICK w \in InTableOrder(woken) :
         LET q == run_queue \o w
             expired == SliceExpired(left)
             idleStays == expired /\ current = idle /\ q = <<>>
             ts == [p \in Slot |-> IF p \in woken \/ (p = idle /\ idleStays)
                                   THEN DEFAULT_TIME_SLICE ELSE left[p]]
             resched == need_reschedule \/ (expired /\ ~idleStays)
         IN  /\ wake_in' = [p \in Slot |-> IF p \in woken THEN NoWake ELSE WakeIn(p)]
             /\ IF resched
                THEN schedule(st, ts, q, "irq", TRUE)
                ELSE /\ state' = st
                     /\ time_slice' = ts
                     /\ run_queue' = q
                     /\ in_service' = FALSE
                     /\ UNCHANGED <<frame, cpuVars>>
  BY <1>3, Zenon DEF TimerIRQ
<1> DEFINE q == run_queue \o w
           expired == SliceExpired(left)
           idleStays == expired /\ current = idle /\ q = <<>>
           ts == [p \in Slot |-> IF p \in woken \/ (p = idle /\ idleStays)
                                 THEN DEFAULT_TIME_SLICE ELSE left[p]]
           resched == need_reschedule \/ (expired /\ ~idleStays)
<1>5. /\ need_reschedule' = FALSE
      /\ UNCHANGED <<kernel_stack, pml4_phys, at, boot>>
  BY DEF TimerIRQ
<1>6. /\ st \in [Slot -> ProcessState]
      /\ \A p \in Slot : st[p] = IF p \in woken THEN READY ELSE state[p]
      /\ \A p \in Slot : st[p] = RUNNING <=> p = current
      /\ st[idle] \in {READY, RUNNING}
  BY <1>1, <1>2, Zenon DEF ProcessState, READY, RUNNING, BLOCKED, IInv, IdleSteps
<1>7. q \in Seq(Slot) /\ QueueHolds(q, st)
  <2>1. w \in Seq(woken) /\ Queued(w) = woken /\ NoRepeats(w)
    BY <1>2, TableOrderQueued
  <2>2. w \in Seq(Slot)
    BY <2>1, <1>2
  <2>3. /\ Queued(run_queue) = {p \in Slot \ {idle} : state[p] = READY}
        /\ NoRepeats(run_queue)
    BY DEF IInv, QueueIsReady, QueueHolds, NoRepeats
  <2>4. Queued(run_queue) \cap Queued(w) = {}
    BY <2>1, <2>3, <1>2 DEF READY, BLOCKED
  <2>5. q \in Seq(Slot) /\ Queued(q) = Queued(run_queue) \cup Queued(w) /\ NoRepeats(q)
    BY <2>1, <2>2, <2>3, <2>4, <1>1, ConcatQueued
  <2>6. {p \in Slot \ {idle} : st[p] = READY} =
          {p \in Slot \ {idle} : state[p] = READY} \cup woken
    BY <1>2, <1>6
  <2>. QED  BY <2>1, <2>3, <2>5, <2>6 DEF QueueHolds, NoRepeats
<1>8. /\ left \in [Slot -> 0 .. DEFAULT_TIME_SLICE]
      /\ \A p \in Slot \ {current} : left[p] = time_slice[p]
  BY <1>1
<1>9. /\ ts \in [Slot -> 0 .. DEFAULT_TIME_SLICE]
      /\ \A p \in Slot : st[p] = READY => ts[p] > 0
      /\ ~resched => ts[current] > 0
  <2>1. ts \in [Slot -> 0 .. DEFAULT_TIME_SLICE]
    BY <1>1, <1>8
  <2>2. ASSUME NEW p \in Slot, st[p] = READY PROVE ts[p] > 0
    <3>1. p # current  BY <2>2, <1>6 DEF READY, RUNNING
    <3>2. CASE p \in woken  BY <3>2, <1>1
    <3>3. CASE p \notin woken
      <4>1. state[p] = READY  BY <2>2, <3>3, <1>6
      <4>2. left[p] > 0  BY <4>1, <3>1, <1>8 DEF IInv, SliceLeft
      <4>. QED  BY <4>2, <1>1
    <3>. QED  BY <3>2, <3>3
  <2>3. ASSUME ~resched PROVE ts[current] > 0
    <3>1. CASE idleStays  BY <3>1, <1>1
    <3>2. CASE ~idleStays
      <4>1. left[current] # 0  BY <2>3, <3>2 DEF SliceExpired
      <4>2. left[current] > 0  BY <4>1, <1>1, <1>8
      <4>. QED  BY <4>2, <1>1
    <3>. QED  BY <3>1, <3>2
  <2>. QED  BY <2>1, <2>2, <2>3, Zenon
<1>10. /\ wake_in' = [p \in Slot |-> IF p \in woken THEN NoWake ELSE WakeIn(p)]
       /\ resched => schedule(st, ts, q, "irq", TRUE)
       /\ ~resched => /\ state' = st
                      /\ time_slice' = ts
                      /\ run_queue' = q
                      /\ in_service' = FALSE
                      /\ UNCHANGED <<frame, cpuVars>>
  BY <1>4, Zenon
<1>11. /\ wake_in' \in [Slot -> Int]
       /\ \A p \in Slot : /\ wake_in'[p] >= NoWake
                          /\ p \notin woken => (wake_in[p] >= 0 <=> wake_in'[p] >= 0)
                          /\ wake_in[p] = NoWake => wake_in'[p] = NoWake
  <2>1. wake_in' = [p \in Slot |-> IF p \in woken THEN NoWake ELSE WakeIn(p)]
    BY <1>10, Zenon
  <2>. HIDE DEF woken
  <2>. QED  BY <1>1, <2>1, Ticks, Zenon
<1> HIDE DEF woken, st, left, q, expired, idleStays, ts, resched
<1>12. ASSUME resched PROVE Scheduled(st) /\ state'[current] \in {READY, RUNNING}
  <2>1. schedule(st, ts, q, "irq", TRUE)
    BY <1>10, <1>12, Zenon
  <2>2. /\ st[current] = RUNNING /\ frame[idle] # "call" /\ "irq" \in Frame
        /\ \A p \in Slot : st[p] = RUNNING => p = current
    BY <1>1, <1>6 DEF IInv, IdleSteps, Frame
  <2>3. Scheduled(st)
    BY <1>1, <1>6, <1>7, <1>9, <2>1, <2>2, ScheduleStep, Zenon
  <2>4. state'[current] \in {READY, RUNNING}
    BY <2>1, <2>2, <1>1, <1>6, Zenon DEF schedule
  <2>. QED  BY <2>3, <2>4, Zenon
<1>13. ASSUME ~resched PROVE Scheduled(st) /\ state'[current] \in {READY, RUNNING}
  <2>1. /\ state' = st /\ time_slice' = ts /\ run_queue' = q /\ in_service' = FALSE
        /\ UNCHANGED <<frame, cpuVars>>
    BY <1>10, <1>13
  <2>2. /\ current' = current /\ frame' = frame /\ rsp0' = rsp0 /\ cr3' = cr3
        /\ frame \in [Slot -> Frame] /\ rsp0 \in Slot /\ cr3 \in Slot
        /\ frame[idle] # "call"
    BY <2>1 DEF IInv, TypeOK, IdleSteps, cpuVars
  <2>3. \A p \in Slot : state'[p] \in {READY, RUNNING} => time_slice'[p] > 0
    BY <2>1, <1>6, <1>9, <1>13
  <2>4. in_service' \in BOOLEAN /\ ~in_service'
    BY <2>1, Zenon
  <2>5. Scheduled(st)
    BY <2>1, <2>2, <2>3, <2>4, <1>1, <1>6, <1>7, <1>9, Zenon DEF Scheduled
  <2>. QED  BY <1>1, <1>6, <2>1, <2>5
<1>14. Scheduled(st) /\ state'[current] \in {READY, RUNNING}
  BY <1>12, <1>13, Zenon
<1>. QED  BY <1>1, <1>2, <1>5, <1>6, <1>11, <1>14, TimerAfter, Zenon

\* Every step of the kernel, the processes and the timer keeps the invariant.
LEMMA NextIInv == IInv /\ [Next]_vars => IInv'
<1>1. SUFFICES ASSUME IInv, [Next]_vars PROVE IInv'
  OBVIOUS
<1>2. ASSUME NEW p \in Slot, NEW hasStack \in BOOLEAN, Create(p, hasStack) PROVE IInv'
  BY <1>1, <1>2, CreateIInv DEF Create
<1>3. CASE UNCHANGED vars
  BY <1>1, <1>3
     DEF vars, procVars, cpuVars, IInv, TypeOK, OneRunning, QueueIsReady, ContextOfCurrent,
         StackOwned, SliceLeft, IdleSteps, SleepSteps, EOIOnSomeStack, DeafIdleOnlyFresh,
         BeforeStart, scheduler_running
<1>. QED  BY <1>1, <1>2, <1>3, BootingIInv, TimerIInv, LeaveIInv, UnblockIInv DEF Next

\* The inductive invariant holds in every reachable state, for any size of the
\* process table, any quantum and any sleep times.
THEOREM InvariantHolds == Spec => []IInv
BY InitIInv, NextIInv, PTL DEF Spec

\* For every size of the process table and every quantum: the types hold, one
\* process runs and it is current_process, the run queue is exactly the READY
\* processes, RSP0 and CR3 are those of the running process, every stack in
\* use is owned, and nobody waits or runs on an empty slice.
THEOREM SchedulerSafe ==
    Spec => [](TypeOK /\ OneRunning /\ QueueIsReady /\ ContextOfCurrent /\ StackOwned /\ SliceLeft)
<1>1. IInv => TypeOK /\ OneRunning /\ QueueIsReady /\ ContextOfCurrent /\ StackOwned /\ SliceLeft
  BY DEF IInv
<1>. QED  BY <1>1, InvariantHolds, PTL

\* The run queue is exactly the READY processes, each once.
THEOREM QueueExact == Spec => []QueueIsReady
<1>1. IInv => QueueIsReady
  BY DEF IInv
<1>. QED  BY <1>1, InvariantHolds, PTL

\* The context the processor runs with, RSP0 and CR3 included, is that of
\* current_process.
THEOREM ContextOwned == Spec => []ContextOfCurrent
<1>1. IInv => ContextOfCurrent
  BY DEF IInv
<1>. QED  BY <1>1, InvariantHolds, PTL

\* A pending EOI is always on the stack of a READY process, and the idle
\* process can only be deaf to the timer in its first run.
THEOREM EOISafe == Spec => [](EOIOnSomeStack /\ DeafIdleOnlyFresh)
<1>1. IInv => EOIOnSomeStack /\ DeafIdleOnlyFresh
  BY Zenon DEF IInv
<1>. QED  BY <1>1, InvariantHolds, PTL

\* The wake tick of a blocked process says whether it sleeps or waits for
\* process_unblock.
THEOREM WakeTickSafe == Spec => []WakeTickMatches
<1>1. IInv => WakeTickMatches
  <2>1. SUFFICES ASSUME IInv, NEW p \in Slot, state[p] = BLOCKED
                 PROVE  wake_in[p] # NoWake <=> at[p] = "slept"
    BY DEF WakeTickMatches
  <2>2. at[p] \in {"run", "sleep", "slept"} /\ SleepSteps
    BY <2>1, Zenon DEF IInv, TypeOK
  <2>. QED  BY <2>1, <2>2, NeverAwaited, Zenon DEF SleepSteps, READY, RUNNING, BLOCKED
<1>. QED  BY <1>1, InvariantHolds, PTL

\* No step touches the state of a terminated process, queues it or makes it
\* current.
LEMMA NextKeepsTerminated == IInv /\ [Next]_vars => KeepsTerminated
<1>0. SUFFICES ASSUME IInv, [Next]_vars PROVE KeepsTerminated
  OBVIOUS
<1> USE <1>0
<1>a. /\ state \in [Slot -> ProcessState] /\ current \in Slot
      /\ boot = "done" => state[current] = RUNNING
  BY Zenon DEF IInv, TypeOK, OneRunning, scheduler_running
<1>1. ASSUME NEW st, NEW ts, boot = "done", current # idle,
             st = state \/ \E s \in {BLOCKED, TERMINATED} : st = [state EXCEPT ![current] = s],
             ts = time_slice \/ ts = [time_slice EXCEPT ![current] = DEFAULT_TIME_SLICE],
             schedule(st, ts, run_queue, "call", in_service),
             UNCHANGED <<kernel_stack, pml4_phys, boot>>
      PROVE  KeepsTerminated
  <2>1. /\ \A p \in Slot : p \notin {current, current'} => state'[p] = state[p]
        /\ state[current'] = READY
    BY <1>1, CallStep
  <2>. QED  BY <2>1, <1>a, <1>1, Zenon DEF KeepsTerminated, READY, RUNNING, TERMINATED
<1>2. ASSUME NEW p \in Slot, NEW hasStack \in BOOLEAN, process_create(p, hasStack)
      PROVE  KeepsTerminated
  <2>1. state[p] = UNUSED /\ (state' = state \/ state' = [state EXCEPT ![p] = READY])
    BY <1>2 DEF process_create, find_free_slot
  <2>. QED  BY <2>1, <1>a DEF KeepsTerminated, UNUSED, TERMINATED
<1>3. CASE Booting
  <2>1. CASE sched_start
    <3>1. \A p \in Slot : state[p] # TERMINATED
      BY <2>1 DEF sched_start, IInv, BeforeStart, scheduler_running, UNUSED, READY, TERMINATED
    <3>. QED  BY <3>1 DEF KeepsTerminated
  <2>2. CASE UserProcessFields \/ context_switch_first
    BY <2>2 DEF UserProcessFields, context_switch_first, procVars, KeepsTerminated
  <2>. QED  BY <1>2, <1>3, <2>1, <2>2 DEF Booting, BootCreate, UserProcessCreate
<1>4. CASE Leave
  <2>1. ASSUME Calls("run"), process_yield PROVE KeepsTerminated
    BY <2>1, <1>1 DEF Calls, process_yield
  <2>2. CASE Block
    BY <2>2, <1>1 DEF Block, process_block, Calls
  <2>3. CASE SleepBlock
    BY <2>3, <1>1 DEF SleepBlock, process_block, Calls
  <2>4. CASE process_exit
    BY <2>4, <1>1 DEF process_exit, Calls
  <2>5. CASE SleepReturn
    BY <2>5 DEF SleepReturn, KeepsTerminated
  <2>6. ASSUME NEW ms \in SleepMs, sys_sleep(ms) PROVE KeepsTerminated
    BY <2>1, <2>6 DEF sys_sleep, KeepsTerminated
  <2>. QED  BY <1>4, <2>1, <2>2, <2>3, <2>4, <2>5, <2>6 DEF Leave, Yield
<1>5. ASSUME NEW p \in Slot, process_unblock(p) PROVE KeepsTerminated
  BY <1>5, <1>a DEF process_unblock, KeepsTerminated, BLOCKED, TERMINATED
<1>6. CASE UNCHANGED vars
  BY <1>6 DEF vars, procVars, KeepsTerminated
<1>. QED  BY <1>2, <1>3, <1>4, <1>5, <1>6, TimerIInv DEF Next, Create

\* A process that has called process_exit is never resumed, woken, queued or
\* given to process_create again.
THEOREM TerminatedStays == Spec => TerminatedForever
<1>1. IInv /\ IInv' /\ KeepsTerminated =>
        \A p \in Slot : state[p] = TERMINATED => /\ state'[p] = TERMINATED
                                                 /\ p # current'
                                                 /\ p \notin Queued(run_queue')
  BY DEF KeepsTerminated, IInv, BeforeStart, OneRunning, QueueIsReady, QueueHolds,
         UNUSED, READY, RUNNING, TERMINATED
<1>2. IInv /\ [Next]_vars =>
        [\A p \in Slot : state[p] = TERMINATED => /\ state'[p] = TERMINATED
                                                  /\ p # current'
                                                  /\ p \notin Queued(run_queue')]_vars
  BY <1>1, NextIInv, NextKeepsTerminated
<1>. QED  BY <1>2, InvariantHolds, PTL DEF Spec, TerminatedForever
=============================================================================
