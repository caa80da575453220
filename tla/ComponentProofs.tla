--------------------------- MODULE ComponentProofs ---------------------------
(***************************************************************************)
(* The proofs about three components that share no state: the scheduler's   *)
(* linked run queue, the keyboard's ring buffer, and the shell on the text  *)
(* console.                                                                 *)
(***************************************************************************)
EXTENDS RunQueue, Keyboard, Shell, TLAPS

----------------------------------------------------------------------------
(* The run queue: its pointers represent the order of arrival, for any set  *)
(* of processes.                                                            *)

QueueInv == QueueTypeOK /\ Linked

\* sched_init leaves an empty list.
LEMMA InitQueueInv == sched_init => QueueInv
BY DEF sched_init, QueueInv, QueueTypeOK, Linked, Pointer, Members

\* The invariant, with the types the arithmetic on positions needs.
LEMMA Shape ==
    ASSUME QueueInv
    PROVE  /\ order \in Seq(Process) /\ Len(order) \in Nat
           /\ DOMAIN order = 1 .. Len(order)
           /\ next \in [Process -> Pointer] /\ prev \in [Process -> Pointer]
           /\ run_queue_head \in Pointer /\ run_queue_tail \in Pointer
           /\ \A i \in 1 .. Len(order) : order[i] \in Process /\ order[i] # NULL
           /\ \A i, j \in 1 .. Len(order) : order[i] = order[j] => i = j
           /\ \A p \in Process : p \in Members(order) <=> \E i \in 1 .. Len(order) : p = order[i]
BY NullAssumption DEF QueueInv, QueueTypeOK, Linked, Members

\* InQueue, the test at the start of sched_add, tells exactly the members of
\* the queue.
LEMMA InQueueIsMember ==
    ASSUME QueueInv, NEW p \in Process
    PROVE  InQueue(p) <=> p \in Members(order)
<1>2. ASSUME NEW i \in 1 .. Len(order), p = order[i] PROVE InQueue(p)
  <2>1. CASE i = 1
    BY <1>2, <2>1, Shape DEF QueueInv, Linked, InQueue
  <2>2. CASE i > 1
    <3>1. i - 1 \in 1 .. Len(order) - 1 /\ i = (i - 1) + 1 /\ i - 1 \in 1 .. Len(order)
      BY <2>2, Shape
    <3>2. prev[p] = order[i - 1]
      BY <1>2, <3>1 DEF QueueInv, Linked
    <3>3. order[i - 1] # NULL
      BY <3>1, Shape
    <3>. QED  BY <3>2, <3>3 DEF InQueue
  <2>. QED  BY <2>1, <2>2, Shape
<1>3. ASSUME p \notin Members(order) PROVE ~InQueue(p)
  <2>1. next[p] = NULL /\ prev[p] = NULL
    BY <1>3 DEF QueueInv, Linked
  <2>2. p # run_queue_head
    <3>1. CASE Len(order) = 0
      BY <3>1, NullAssumption DEF QueueInv, Linked
    <3>2. CASE Len(order) > 0
      <4>1. 1 \in 1 .. Len(order)  BY <3>2, Shape
      <4>. QED  BY <4>1, <3>2, <1>3, Shape DEF QueueInv, Linked
    <3>. QED  BY <3>1, <3>2, Shape
  <2>. QED  BY <2>1, <2>2 DEF InQueue
<1>. QED  BY <1>2, <1>3, Shape

\* sched_add links the new process behind the tail.
LEMMA AddIInv ==
    ASSUME QueueInv, NEW p \in Process, sched_add(p)
    PROVE  QueueInv'
<1> DEFINE n == Len(order)
<1>2. /\ prev' = [prev EXCEPT ![p] = run_queue_tail]
      /\ next' = IF run_queue_tail # NULL
                 THEN [next EXCEPT ![p] = NULL, ![run_queue_tail] = p]
                 ELSE [next EXCEPT ![p] = NULL]
      /\ run_queue_head' = IF run_queue_tail # NULL THEN run_queue_head ELSE p
      /\ run_queue_tail' = p
      /\ order' = Append(order, p)
      /\ p \notin Members(order)
  BY InQueueIsMember DEF sched_add
<1>3. /\ order' \in Seq(Process) /\ Len(order') = n + 1 /\ DOMAIN order' = 1 .. n + 1
      /\ \A i \in 1 .. n : order'[i] = order[i]
      /\ order'[n + 1] = p
  BY <1>2, Shape
<1>4. \A i \in 1 .. n : order[i] # p
  BY <1>2, Shape
<1>5. QueueTypeOK'
  BY <1>2, <1>3, Shape DEF QueueTypeOK, Pointer
<1>6. Members(order') = Members(order) \cup {p}
  BY <1>3, Shape DEF Members
<1>7. ASSUME NEW i \in 1 .. n + 1, NEW j \in 1 .. n + 1, order'[i] = order'[j] PROVE i = j
  <2>1. CASE i \in 1 .. n /\ j \in 1 .. n  BY <1>3, <1>7, <2>1, Shape
  <2>2. CASE i = n + 1 \/ j = n + 1  BY <1>3, <1>4, <1>7, <2>2, Shape
  <2>. QED  BY <2>1, <2>2, Shape
<1>8. CASE n = 0
  <2>1. /\ next' = [next EXCEPT ![p] = NULL] /\ prev' = [prev EXCEPT ![p] = NULL]
        /\ run_queue_head' = p /\ run_queue_tail' = p
    BY <1>2, <1>8 DEF QueueInv, Linked
  <2>2. order'[1] = p /\ Len(order') = 1
    BY <1>3, <1>8
  <2>3. prev'[p] = NULL /\ next'[p] = NULL
    BY <2>1, Shape
  <2>4. \A r \in Process \ Members(order') : next'[r] = NULL /\ prev'[r] = NULL
    BY <1>6, <2>1, Shape DEF QueueInv, Linked
  <2>5. Linked'
    BY <1>7, <1>3, <1>8, <2>1, <2>2, <2>3, <2>4 DEF Linked
  <2>. QED  BY <2>5, <1>5 DEF QueueInv
<1>9. CASE n > 0
  <2>1. /\ run_queue_tail = order[n] /\ run_queue_head = order[1]
        /\ prev[order[1]] = NULL
        /\ 1 \in 1 .. n /\ n \in 1 .. n /\ order[n] \in Process /\ order[n] # NULL
    BY <1>9, Shape DEF QueueInv, Linked
  <2>2. order[n] # p /\ order[1] # p /\ order[1] \in Process
    BY <1>4, <2>1, Shape
  <2>3. /\ next' = [next EXCEPT ![p] = NULL, ![order[n]] = p]
        /\ prev' = [prev EXCEPT ![p] = order[n]]
        /\ run_queue_head' = order[1] /\ run_queue_tail' = p
    BY <1>2, <2>1
  <2>4. /\ next'[p] = NULL /\ next'[order[n]] = p
        /\ \A r \in Process \ {p, order[n]} : next'[r] = next[r]
        /\ prev'[p] = order[n]
        /\ \A r \in Process \ {p} : prev'[r] = prev[r]
    BY <2>1, <2>2, <2>3, Shape
  <2>5. ASSUME NEW i \in 1 .. n
        PROVE  next'[order'[i]] = order'[i + 1] /\ prev'[order'[i + 1]] = order'[i]
    <3>1. CASE i = n
      BY <3>1, <1>3, <2>1, <2>4
    <3>2. CASE i \in 1 .. n - 1
      <4>1. /\ i + 1 \in 1 .. n /\ order[i] \in Process \ {p, order[n]}
            /\ order[i + 1] \in Process \ {p}
        BY <3>2, <1>4, <2>1, Shape
      <4>2. next[order[i]] = order[i + 1] /\ prev[order[i + 1]] = order[i]
        BY <3>2 DEF QueueInv, Linked
      <4>3. order'[i] = order[i] /\ order'[i + 1] = order[i + 1]
        BY <4>1, <1>3
      <4>4. next'[order[i]] = next[order[i]] /\ prev'[order[i + 1]] = prev[order[i + 1]]
        BY <4>1, <2>4
      <4>. QED  BY <4>2, <4>3, <4>4
    <3>3. i = n \/ i \in 1 .. n - 1
      <4>1. n \in Nat  BY Shape
      <4>. QED  BY <4>1
    <3>. QED  BY <3>1, <3>2, <3>3
  <2>6. \A r \in Process \ Members(order') : next'[r] = NULL /\ prev'[r] = NULL
    <3>1. order[n] \in Members(order)
      BY <2>1, Shape
    <3>. QED  BY <3>1, <1>6, <2>4 DEF QueueInv, Linked
  <2>7. /\ run_queue_head' = order'[1] /\ prev'[order'[1]] = NULL
        /\ run_queue_tail' = order'[Len(order')] /\ next'[order'[Len(order')]] = NULL
    BY <1>3, <2>1, <2>2, <2>3, <2>4
  <2>8. Len(order') > 0 /\ Len(order') - 1 = n
    BY <1>3, Shape
  <2>9. Linked'
    BY <1>3, <1>7, <2>5, <2>6, <2>7, <2>8 DEF Linked
  <2>. QED  BY <2>9, <1>5 DEF QueueInv
<1>. QED  BY <1>8, <1>9, Shape

\* Taking the k-th process out of the list links its neighbours together.
LEMMA UnlinkIInv ==
    ASSUME QueueInv, NEW k \in 1 .. Len(order), NEW p \in Process, p = order[k],
           next' = IF prev[p] # NULL THEN [next EXCEPT ![prev[p]] = next[p], ![p] = NULL]
                   ELSE [next EXCEPT ![p] = NULL],
           run_queue_head' = IF prev[p] # NULL THEN run_queue_head ELSE next[p],
           prev' = IF next[p] # NULL THEN [prev EXCEPT ![next[p]] = prev[p], ![p] = NULL]
                   ELSE [prev EXCEPT ![p] = NULL],
           run_queue_tail' = IF next[p] # NULL THEN run_queue_tail ELSE prev[p],
           order' = Without(order, k)
    PROVE  QueueInv'
<1> DEFINE n == Len(order)
           m == n - 1
<1>1. n \in Nat /\ n > 0 /\ k \in 1 .. n /\ m \in Nat
  BY Shape
<1>2. /\ order' \in Seq(Process) /\ Len(order') = m /\ DOMAIN order' = 1 .. m
      /\ \A i \in 1 .. m : order'[i] = IF i < k THEN order[i] ELSE order[i + 1]
  <2>1. order' = [j \in 1 .. m |-> IF j < k THEN order[j] ELSE order[j + 1]]
    BY DEF Without
  <2>2. \A i \in 1 .. m : i \in 1 .. n /\ i + 1 \in 1 .. n
    BY <1>1
  <2>3. order' \in [1 .. m -> Process]
    BY <2>1, <2>2, Shape
  <2>. QED  BY <2>1, <2>3, <1>1
<1>3. /\ prev[p] = IF k = 1 THEN NULL ELSE order[k - 1]
      /\ next[p] = IF k = n THEN NULL ELSE order[k + 1]
  <2>1. k = 1 => prev[p] = NULL
    BY <1>1 DEF QueueInv, Linked
  <2>2. k = n => next[p] = NULL
    BY <1>1 DEF QueueInv, Linked
  <2>3. ASSUME k # 1 PROVE prev[p] = order[k - 1]
    <3>1. k - 1 \in 1 .. n - 1 /\ (k - 1) + 1 = k  BY <1>1, <2>3
    <3>. QED  BY <3>1 DEF QueueInv, Linked
  <2>4. ASSUME k # n PROVE next[p] = order[k + 1]
    <3>1. k \in 1 .. n - 1  BY <1>1, <2>4
    <3>. QED  BY <3>1 DEF QueueInv, Linked
  <2>. QED  BY <2>1, <2>2, <2>3, <2>4
<1>4. /\ k # 1 => k - 1 \in 1 .. n /\ order[k - 1] \in Process /\ order[k - 1] # NULL
                  /\ order[k - 1] # p
      /\ k # n => k + 1 \in 1 .. n /\ order[k + 1] \in Process /\ order[k + 1] # NULL
                  /\ order[k + 1] # p
  <2>1. k # 1 => k - 1 \in 1 .. n /\ k - 1 # k  BY <1>1
  <2>2. k # n => k + 1 \in 1 .. n /\ k + 1 # k  BY <1>1
  <2>. QED  BY <2>1, <2>2, Shape
<1>5. /\ next'[p] = NULL
      /\ k # 1 => next'[order[k - 1]] = next[p]
      /\ \A r \in Process \ {p} : (k # 1 => r # order[k - 1]) => next'[r] = next[r]
      /\ next' \in [Process -> Pointer]
  BY <1>3, <1>4, Shape DEF Pointer
<1>6. /\ prev'[p] = NULL
      /\ k # n => prev'[order[k + 1]] = prev[p]
      /\ \A r \in Process \ {p} : (k # n => r # order[k + 1]) => prev'[r] = prev[r]
      /\ prev' \in [Process -> Pointer]
  BY <1>3, <1>4, Shape DEF Pointer
<1>7. QueueTypeOK'
  <2>1. run_queue_head \in Pointer /\ run_queue_tail \in Pointer
        /\ next[p] \in Pointer /\ prev[p] \in Pointer
    BY DEF QueueInv, QueueTypeOK
  <2>2. run_queue_head' \in Pointer /\ run_queue_tail' \in Pointer
    BY <2>1
  <2>. QED  BY <1>2, <1>5, <1>6, <2>2, Zenon DEF QueueTypeOK
<1>8. ASSUME NEW i \in 1 .. m, NEW j \in 1 .. m, order'[i] = order'[j] PROVE i = j
  <2>1. /\ i \in 1 .. n /\ i + 1 \in 1 .. n /\ j \in 1 .. n /\ j + 1 \in 1 .. n
    BY <1>1
  <2>2. CASE i < k /\ j < k  BY <2>1, <2>2, <1>2, <1>8, Shape
  <2>3. CASE i < k /\ j >= k
    <3>1. order[i] = order[j + 1]  BY <2>1, <2>3, <1>1, <1>2, <1>8
    <3>2. i = j + 1  BY <3>1, <2>1, Shape
    <3>. QED  BY <3>2, <2>3, <1>1
  <2>4. CASE i >= k /\ j < k
    <3>1. order[i + 1] = order[j]  BY <2>1, <2>4, <1>1, <1>2, <1>8
    <3>2. i + 1 = j  BY <3>1, <2>1, Shape
    <3>. QED  BY <3>2, <2>4, <1>1
  <2>5. CASE i >= k /\ j >= k
    <3>1. order[i + 1] = order[j + 1]  BY <2>1, <2>5, <1>1, <1>2, <1>8
    <3>2. i + 1 = j + 1  BY <3>1, <2>1, Shape
    <3>. QED  BY <3>2
  <2>. QED  BY <2>2, <2>3, <2>4, <2>5, <1>1
<1>9. m = 0 => run_queue_head' = NULL /\ run_queue_tail' = NULL
  <2>1. m = 0 => k = 1 /\ k = n  BY <1>1
  <2>. QED  BY <2>1, <1>3
<1>10. ASSUME m > 0
       PROVE  /\ run_queue_head' = order'[1] /\ prev'[order'[1]] = NULL
              /\ run_queue_tail' = order'[m] /\ next'[order'[m]] = NULL
  <2>1. run_queue_head = order[1] /\ run_queue_tail = order[n] /\ prev[order[1]] = NULL
        /\ next[order[n]] = NULL
    BY <1>1 DEF QueueInv, Linked
  <2>2. 1 \in 1 .. m /\ m \in 1 .. m /\ m + 1 = n /\ 1 \in 1 .. n /\ n \in 1 .. n /\ 2 \in 1 .. n
    BY <1>1, <1>10
  <2>3. CASE k = 1
    <3>1. order'[1] = order[2] /\ 1 # n  BY <1>2, <2>2, <2>3
    <3>2. run_queue_head' = order[2] /\ prev'[order[2]] = NULL
      BY <1>3, <1>4, <1>6, <2>3, <3>1
    <3>3. order'[m] = order[n]  BY <1>2, <2>2, <2>3
    <3>4. run_queue_tail' = order[n]  BY <1>3, <1>4, <2>1, <2>3, <3>1
    <3>5. order[n] # p /\ order[n] \in Process
      BY <2>2, <2>3, <3>1, Shape
    <3>6. next'[order[n]] = NULL  BY <3>5, <1>5, <2>1, <2>3
    <3>. QED  BY <3>1, <3>2, <3>3, <3>4, <3>6
  <2>4. CASE k # 1
    <3>1. order'[1] = order[1]  BY <1>1, <1>2, <2>2, <2>4
    <3>2. run_queue_head' = order[1]  BY <1>3, <1>4, <2>1, <2>4
    <3>3. order[1] # p /\ order[1] \in Process  BY <2>2, <2>4, <1>1, Shape
    <3>4. prev'[order[1]] = NULL
      <4>1. k # n => order[1] # order[k + 1]
        <5>1. k # n => 1 # k + 1  BY <1>1
        <5>. QED  BY <5>1, <1>4, <2>2, Shape
      <4>. QED  BY <4>1, <3>3, <1>6, <2>1
    <3>5. CASE k = n
      <4>1. order'[m] = order[m] /\ k - 1 = m  BY <1>1, <1>2, <2>2, <3>5
      <4>2. run_queue_tail' = order[m] /\ next'[order[m]] = NULL
        BY <4>1, <1>3, <1>5, <2>4, <3>5
      <4>. QED  BY <3>1, <3>2, <3>4, <4>1, <4>2
    <3>6. CASE k # n
      <4>1. order'[m] = order[n]  BY <1>1, <1>2, <2>2, <3>6
      <4>2. run_queue_tail' = order[n]  BY <1>3, <1>4, <2>1, <3>6
      <4>3. order[n] # p /\ order[n] \in Process /\ order[n] # order[k - 1]
        <5>1. n # k - 1  BY <1>1
        <5>. QED  BY <5>1, <1>1, <1>4, <2>2, <2>4, <3>6, Shape
      <4>4. next'[order[n]] = NULL  BY <4>3, <1>5, <2>1
      <4>. QED  BY <3>1, <3>2, <3>4, <4>1, <4>2, <4>4
    <3>. QED  BY <3>5, <3>6
  <2>. QED  BY <2>3, <2>4
<1>11. ASSUME NEW i \in 1 .. m - 1
       PROVE  next'[order'[i]] = order'[i + 1] /\ prev'[order'[i + 1]] = order'[i]
  <2>1. /\ i \in 1 .. m /\ i + 1 \in 1 .. m /\ i + 2 \in 1 .. n /\ i \in 1 .. n - 1
        /\ i + 1 \in 1 .. n - 1 /\ (i + 1) + 1 = i + 2 /\ i \in 1 .. n /\ i + 1 \in 1 .. n
    BY <1>1
  <2>2. /\ next[order[i]] = order[i + 1] /\ prev[order[i + 1]] = order[i]
        /\ next[order[i + 1]] = order[i + 2] /\ prev[order[i + 2]] = order[i + 1]
    BY <2>1 DEF QueueInv, Linked
  <2>3. CASE i + 1 < k
    <3>1. order'[i] = order[i] /\ order'[i + 1] = order[i + 1]
      BY <1>1, <1>2, <2>1, <2>3
    <3>2. /\ order[i] \in Process \ {p} /\ order[i + 1] \in Process \ {p}
          /\ order[i] # order[k - 1]
      <4>1. i # k /\ i + 1 # k /\ i # k - 1 /\ k # 1  BY <1>1, <2>3
      <4>. QED  BY <4>1, <1>4, <2>1, Shape
    <3>3. k # n => order[i + 1] # order[k + 1]
      <4>1. i + 1 # k + 1  BY <1>1, <2>3
      <4>. QED  BY <4>1, <1>4, <2>1, Shape
    <3>. QED  BY <3>1, <3>2, <3>3, <1>5, <1>6, <2>2
  <2>4. CASE i + 1 = k
    <3>1. order'[i] = order[i] /\ order'[i + 1] = order[i + 2]
      BY <1>1, <1>2, <2>1, <2>4
    <3>2. i = k - 1 /\ i + 2 = k + 1 /\ k # 1 /\ k # n
      BY <1>1, <2>1, <2>4
    <3>. QED  BY <3>1, <3>2, <1>3, <1>5, <1>6
  <2>5. CASE i >= k
    <3>1. order'[i] = order[i + 1] /\ order'[i + 1] = order[i + 2]
      BY <1>1, <1>2, <2>1, <2>5
    <3>2. /\ order[i + 1] \in Process \ {p} /\ order[i + 2] \in Process \ {p}
      <4>1. i + 1 # k /\ i + 2 # k  BY <1>1, <2>5
      <4>. QED  BY <4>1, <2>1, Shape
    <3>3. k # 1 => order[i + 1] # order[k - 1]
      <4>1. i + 1 # k - 1  BY <1>1, <2>5
      <4>. QED  BY <4>1, <1>4, <2>1, Shape
    <3>4. k # n => order[i + 2] # order[k + 1]
      <4>1. i + 2 # k + 1  BY <1>1, <2>5
      <4>. QED  BY <4>1, <1>4, <2>1, Shape
    <3>. QED  BY <3>1, <3>2, <3>3, <3>4, <1>5, <1>6, <2>2
  <2>. QED  BY <2>3, <2>4, <2>5, <1>1, <2>1
<1>12. ASSUME NEW r \in Process \ Members(order') PROVE next'[r] = NULL /\ prev'[r] = NULL
  <2>1. CASE r = p  BY <2>1, <1>5, <1>6
  <2>2. CASE r # p
    <3>1. ASSUME NEW i \in 1 .. n PROVE r # order[i]
      <4>1. CASE i = k  BY <4>1, <2>2
      <4>2. CASE i < k
        <5>1. i \in 1 .. m /\ order'[i] = order[i]  BY <4>2, <1>1, <1>2
        <5>. QED  BY <5>1, <1>2, <1>12 DEF Members
      <4>3. CASE i > k
        <5>1. i - 1 \in 1 .. m /\ ~(i - 1 < k) /\ (i - 1) + 1 = i  BY <4>3, <1>1
        <5>2. order'[i - 1] = order[i]  BY <5>1, <1>2
        <5>. QED  BY <5>1, <5>2, <1>2, <1>12 DEF Members
      <4>. QED  BY <4>1, <4>2, <4>3, <1>1
    <3>2. r \notin Members(order)  BY <3>1, Shape
    <3>3. next[r] = NULL /\ prev[r] = NULL  BY <3>2, <1>12 DEF QueueInv, Linked
    <3>. QED  BY <2>2, <3>1, <3>3, <1>4, <1>5, <1>6, <1>12
  <2>. QED  BY <2>1, <2>2
<1>13. Linked'
  BY <1>1, <1>2, <1>8, <1>9, <1>10, <1>11, <1>12, Zenon DEF Linked
<1>. QED  BY <1>7, <1>13 DEF QueueInv

\* sched_pick_next is the removal of the head.
LEMMA PickIInv == QueueInv /\ sched_pick_next => QueueInv'
<1>1. SUFFICES ASSUME QueueInv, sched_pick_next PROVE QueueInv'
  OBVIOUS
<1> DEFINE p == run_queue_head
<1>2. /\ p # NULL
      /\ run_queue_head' = next[p]
      /\ run_queue_tail' = IF next[p] = NULL THEN NULL ELSE run_queue_tail
      /\ prev' = IF next[p] = NULL THEN [prev EXCEPT ![p] = NULL]
                 ELSE [prev EXCEPT ![next[p]] = NULL, ![p] = NULL]
      /\ next' = [next EXCEPT ![p] = NULL]
      /\ order' = Tail(order)
  BY <1>1 DEF sched_pick_next
<1>3. Len(order) > 0
  BY <1>1, <1>2, Shape DEF QueueInv, Linked
<1>4. 1 \in 1 .. Len(order) /\ p = order[1] /\ p \in Process /\ prev[p] = NULL
  BY <1>1, <1>3, Shape DEF QueueInv, Linked
<1>5. order' = Without(order, 1)
  <2>1. order \in Seq(Process) /\ order # <<>>  BY <1>1, <1>3, Shape
  <2>2. /\ Tail(order) \in [1 .. Len(order) - 1 -> Process]
        /\ \A i \in 1 .. Len(order) - 1 : Tail(order)[i] = order[i + 1]
    <3>1. /\ Tail(order) \in Seq(Process)
          /\ Len(Tail(order)) = Len(order) - 1
          /\ \A i \in 1 .. Len(order) - 1 : Tail(order)[i] = order[i + 1]
      BY <2>1
    <3>2. \A q \in Seq(Process) : q \in [1 .. Len(q) -> Process]
      OBVIOUS
    <3>3. Tail(order) \in [1 .. Len(Tail(order)) -> Process]
      BY <3>1, <3>2, Zenon
    <3>. QED  BY <3>1, <3>3
  <2>3. Tail(order) = [i \in 1 .. Len(order) - 1 |-> Tail(order)[i]]
    BY <2>2, Zenon
  <2>4. \A j \in 1 .. Len(order) - 1 : ~(j < 1)  BY <1>1, Shape
  <2>5. [i \in 1 .. Len(order) - 1 |-> Tail(order)[i]] = Without(order, 1)
    BY <2>2, <2>4 DEF Without
  <2>. QED  BY <1>2, <2>3, <2>5
<1>6. /\ next' = IF prev[p] # NULL THEN [next EXCEPT ![prev[p]] = next[p], ![p] = NULL]
                 ELSE [next EXCEPT ![p] = NULL]
      /\ run_queue_head' = IF prev[p] # NULL THEN run_queue_head ELSE next[p]
      /\ prev' = IF next[p] # NULL THEN [prev EXCEPT ![next[p]] = prev[p], ![p] = NULL]
                 ELSE [prev EXCEPT ![p] = NULL]
      /\ run_queue_tail' = IF next[p] # NULL THEN run_queue_tail ELSE prev[p]
  BY <1>2, <1>4
<1> HIDE DEF p
<1>. QED  BY <1>1, <1>4, <1>5, <1>6, UnlinkIInv, Zenon

\* sched_remove of a queued process.
LEMMA RemoveIInv ==
    ASSUME QueueInv, NEW p \in Process, InQueue(p), sched_remove(p)
    PROVE  QueueInv'
<1>1. p \in Members(order) /\ DOMAIN order = 1 .. Len(order)
  BY InQueueIsMember, Shape
<1> DEFINE k == CHOOSE i \in DOMAIN order : order[i] = p
<1>2. \E i \in DOMAIN order : order[i] = p
  BY <1>1, Shape
<1>3. k \in 1 .. Len(order) /\ order[k] = p
  BY <1>1, <1>2
<1>4. /\ next' = IF prev[p] # NULL THEN [next EXCEPT ![prev[p]] = next[p], ![p] = NULL]
                 ELSE [next EXCEPT ![p] = NULL]
      /\ run_queue_head' = IF prev[p] # NULL THEN run_queue_head ELSE next[p]
      /\ prev' = IF next[p] # NULL THEN [prev EXCEPT ![next[p]] = prev[p], ![p] = NULL]
                 ELSE [prev EXCEPT ![p] = NULL]
      /\ run_queue_tail' = IF next[p] # NULL THEN run_queue_tail ELSE prev[p]
      /\ order' = Without(order, k)
  BY <1>1 DEF sched_remove
<1> HIDE DEF k
<1>. QED  BY <1>3, <1>4, UnlinkIInv, Zenon

\* The doubly linked list always represents the order of arrival, whatever
\* sequence of sched_add, sched_pick_next and sched_remove of queued
\* processes is applied to it.
THEOREM RunQueueLinked == QueueSpec => [](QueueTypeOK /\ Linked)
<1>1. QueueInv /\ [QueueNext]_queueVars => QueueInv'
  <2>1. SUFFICES ASSUME QueueInv, [QueueNext]_queueVars PROVE QueueInv'
    OBVIOUS
  <2>2. CASE UNCHANGED queueVars
    BY <2>1, <2>2 DEF QueueInv, QueueTypeOK, Linked, queueVars
  <2>. QED  BY <2>1, <2>2, AddIInv, PickIInv, RemoveIInv DEF QueueNext
<1>2. QueueInv => QueueTypeOK /\ Linked
  BY DEF QueueInv
<1>. QED  BY <1>1, <1>2, InitQueueInv, PTL DEF QueueSpec

----------------------------------------------------------------------------
(* The keyboard: for every size of the ring buffer, and whatever IRQ1 does  *)
(* between two accesses of sys_read, the buffer is a bounded queue and      *)
(* keeps the order of the characters.  The argument is about one sequence,  *)
(* the characters between tail and head: storing at the head appends to it, *)
(* moving the tail drops its first element, and nothing else changes it.    *)

N == KB_BUFFER_SIZE
Slots == Ascii \cup {None}

LEMMA NNat == N \in Nat /\ N > 1 /\ Index = 0 .. N - 1
BY BufferAssumption DEF N, Index

LEMMA Mod ==
  ASSUME NEW n \in Nat, n > 0, NEW k \in 0 .. 2 * n - 1
  PROVE  k % n = IF k < n THEN k ELSE k - n
OBVIOUS

LEMMA ModDiff ==
  ASSUME NEW n \in Nat, n > 0, NEW a \in 0 .. n - 1, NEW b \in 0 .. n - 1
  PROVE  (a - b) % n = IF b <= a THEN a - b ELSE a - b + n
OBVIOUS

\* The contents of a ring b from tail t to head h.
Ring(b, h, t) == [i \in 1 .. ((h - t) % N) |-> b[(t + i - 1) % N]]

\* The number of characters in it, the slot of the i-th, the slot behind a
\* slot, and the ring with c stored in slot h.
RingLen(h, t) == IF t <= h THEN h - t ELSE h - t + N
SlotOf(t, i) == IF t + i - 1 < N THEN t + i - 1 ELSE t + i - 1 - N
Succ(i) == (i + 1) % N
Stored(b, h, c) == [b EXCEPT ![h] = c]

\* r is the sequence of the characters in slots t .. h - 1, around the end.
IsRing(r, b, h, t) ==
    /\ r \in Seq(Slots)
    /\ Len(r) = RingLen(h, t)
    /\ \A i \in 1 .. Len(r) : r[i] = b[SlotOf(t, i)]

LEMMA WaitingRing == Waiting = Ring(key_buffer, buffer_head, buffer_tail)
BY DEF Waiting, Ring, N

LEMMA RingSeq ==
  ASSUME NEW b \in [Index -> Slots], NEW h \in Index, NEW t \in Index
  PROVE  /\ IsRing(Ring(b, h, t), b, h, t)
         /\ Ring(b, h, t) = <<>> <=> h = t
<1> DEFINE n == RingLen(h, t)
<1>1. (h - t) % N = n /\ n \in 0 .. N - 1
  BY NNat, ModDiff DEF RingLen
<1>2. \A i \in 1 .. n : /\ (t + i - 1) % N = SlotOf(t, i)
                        /\ (t + i - 1) % N \in Index
  <2>. SUFFICES ASSUME NEW i \in 1 .. n
                PROVE  /\ (t + i - 1) % N = SlotOf(t, i)
                       /\ (t + i - 1) % N \in Index
    OBVIOUS
  <2>1. t + i - 1 \in 0 .. 2 * N - 1
    BY <1>1, NNat
  <2>2. (t + i - 1) % N = SlotOf(t, i)
    BY <2>1, NNat, Mod DEF SlotOf
  <2>. QED BY <2>1, <2>2, NNat DEF SlotOf
<1>3. Ring(b, h, t) = [i \in 1 .. n |-> b[(t + i - 1) % N]]
  BY <1>1 DEF Ring
<1>4. Ring(b, h, t) \in [1 .. n -> Slots]
  BY <1>2, <1>3
<1>5. Ring(b, h, t) \in Seq(Slots) /\ Len(Ring(b, h, t)) = n
  BY <1>1, <1>4
<1>6. \A i \in 1 .. n :
        Ring(b, h, t)[i] = b[SlotOf(t, i)]
  BY <1>2, <1>3
<1>7. n = 0 <=> h = t
  BY NNat DEF RingLen
<1>8. Ring(b, h, t) = <<>> <=> n = 0
  BY <1>5
<1>. QED BY <1>5, <1>6, <1>7, <1>8 DEF IsRing

\* The slot behind slot i.
LEMMA NextSlot ==
  ASSUME NEW i \in Index
  PROVE  /\ Succ(i) = IF i + 1 < N THEN i + 1 ELSE 0
         /\ Succ(i) \in Index
<1>1. i + 1 \in 0 .. 2 * N - 1 /\ (i + 1 < N \/ i + 1 = N)
  BY NNat
<1>2. (i + 1) % N = IF i + 1 < N THEN i + 1 ELSE i + 1 - N
  BY <1>1, NNat, Mod
<1>. QED BY <1>1, <1>2, NNat DEF Succ

\* buffer_put: a ring that is not full gets one element more.
LEMMA RingPut ==
  ASSUME NEW b \in [Index -> Slots], NEW h \in Index, NEW t \in Index,
         NEW c \in Slots, NEW g, g = Succ(h), g # t,
         NEW new, new = Stored(b, h, c)
  PROVE  /\ Ring(new, g, t) = Append(Ring(b, h, t), c)
         /\ Len(Ring(b, h, t)) < N - 1
<1>0. g \in Index /\ new \in [Index -> Slots]
  BY NextSlot DEF Stored
<1>1. g = IF h + 1 < N THEN h + 1 ELSE 0
  BY NextSlot
<1>a. PICK old : old = Ring(b, h, t)
  OBVIOUS
<1>b. PICK ring : ring = Ring(new, g, t)
  OBVIOUS
<1>2. /\ ring \in Seq(Slots) /\ old \in Seq(Slots)
      /\ Len(ring) = RingLen(g, t)
      /\ Len(old) = RingLen(h, t)
      /\ \A i \in 1 .. Len(ring) :
           ring[i] = new[SlotOf(t, i)]
      /\ \A i \in 1 .. Len(old) :
           old[i] = b[SlotOf(t, i)]
  <2>1. /\ old \in Seq(Slots)
        /\ Len(old) = RingLen(h, t)
        /\ \A i \in 1 .. Len(old) :
             old[i] = b[SlotOf(t, i)]
    BY <1>a, RingSeq DEF IsRing
  <2>2. /\ ring \in Seq(Slots)
        /\ Len(ring) = RingLen(g, t)
        /\ \A i \in 1 .. Len(ring) :
             ring[i] = new[SlotOf(t, i)]
    <3>1. IsRing(Ring(new, g, t), new, g, t)
      BY <1>0, RingSeq
    <3>. QED BY <1>b, <3>1, Zenon DEF IsRing
  <2>. QED BY <2>1, <2>2
<1>3. Len(ring) = Len(old) + 1 /\ Len(old) < N - 1 /\ Len(old) \in Nat
  BY <1>0, <1>1, <1>2, NNat DEF RingLen
<1>4. \A i \in 1 .. Len(old) : ring[i] = old[i]
  <2>. SUFFICES ASSUME NEW i \in 1 .. Len(old) PROVE ring[i] = old[i]
    OBVIOUS
  <2> DEFINE k == SlotOf(t, i)
  <2>1. k # h /\ k \in Index
    BY <1>2, <1>3, NNat DEF RingLen, SlotOf
  <2>2. i \in 1 .. Len(ring)
    BY <1>3
  <2>3. ring[i] = new[k] /\ old[i] = b[k]
    BY <1>2, <2>2
  <2>. QED BY <2>1, <2>3 DEF Stored
<1>5. ring[Len(old) + 1] = c
  <2> DEFINE i == Len(old) + 1
             k == SlotOf(t, i)
  <2>1. k = h
    BY <1>2, <1>3, NNat DEF RingLen, SlotOf
  <2>2. i \in 1 .. Len(ring)
    BY <1>3
  <2>3. ring[i] = new[k]
    BY <1>2, <2>2
  <2>. QED BY <2>1, <2>3 DEF Stored
<1>6. /\ Append(old, c) \in Seq(Slots) /\ Len(Append(old, c)) = Len(old) + 1
      /\ \A i \in 1 .. Len(old) : Append(old, c)[i] = old[i]
      /\ Append(old, c)[Len(old) + 1] = c
  BY <1>2
<1>7. \A i \in 1 .. Len(ring) : ring[i] = Append(old, c)[i]
  <2>. SUFFICES ASSUME NEW i \in 1 .. Len(ring) PROVE ring[i] = Append(old, c)[i]
    BY Zenon
  <2>1. i \in 1 .. Len(old) \/ i = Len(old) + 1
    BY <1>3
  <2>. QED BY <2>1, <1>4, <1>5, <1>6
<1>8. ring = Append(old, c)
  BY <1>2, <1>3, <1>6, <1>7
<1>. QED BY <1>3, <1>8, <1>a, <1>b

\* buffer_get: moving the tail drops the first element.
LEMMA RingGet ==
  ASSUME NEW b \in [Index -> Slots], NEW h \in Index, NEW t \in Index, h # t,
         NEW u, u = Succ(t)
  PROVE  /\ Ring(b, h, t) # <<>>
         /\ Head(Ring(b, h, t)) = b[t]
         /\ Ring(b, h, u) = Tail(Ring(b, h, t))
<1>a. PICK old : old = Ring(b, h, t)
  OBVIOUS
<1>b. PICK ring : ring = Ring(b, h, u)
  OBVIOUS
<1>0. u \in Index
  BY NextSlot
<1>1. u = IF t + 1 < N THEN t + 1 ELSE 0
  BY NextSlot
<1>2. /\ ring \in Seq(Slots) /\ old \in Seq(Slots) /\ old # <<>>
      /\ Len(ring) = RingLen(h, u)
      /\ Len(old) = RingLen(h, t)
      /\ \A i \in 1 .. Len(ring) :
           ring[i] = b[SlotOf(u, i)]
      /\ \A i \in 1 .. Len(old) :
           old[i] = b[SlotOf(t, i)]
  <2>1. /\ old \in Seq(Slots) /\ old # <<>>
        /\ Len(old) = RingLen(h, t)
        /\ \A i \in 1 .. Len(old) :
             old[i] = b[SlotOf(t, i)]
    BY <1>a, RingSeq DEF IsRing
  <2>2. /\ ring \in Seq(Slots)
        /\ Len(ring) = RingLen(h, u)
        /\ \A i \in 1 .. Len(ring) :
             ring[i] = b[SlotOf(u, i)]
    <3>1. IsRing(Ring(b, h, u), b, h, u)
      BY <1>0, RingSeq
    <3>. QED BY <1>b, <3>1, Zenon DEF IsRing
  <2>. QED BY <2>1, <2>2
<1>3. Len(old) = Len(ring) + 1 /\ Len(ring) \in Nat /\ Len(old) < N
  BY <1>0, <1>1, <1>2, NNat DEF RingLen
<1>4. old[1] = b[t]
  BY <1>2, <1>3, NNat DEF SlotOf
<1>5. /\ Head(old) = old[1]
      /\ Tail(old) \in Seq(Slots) /\ Len(Tail(old)) = Len(old) - 1
      /\ \A i \in 1 .. Len(Tail(old)) : Tail(old)[i] = old[i + 1]
  BY <1>2
<1>6. \A i \in 1 .. Len(ring) : ring[i] = Tail(old)[i]
  <2>. SUFFICES ASSUME NEW i \in 1 .. Len(ring) PROVE ring[i] = Tail(old)[i]
    BY Zenon
  <2>1. i + 1 \in 1 .. Len(old) /\ i \in 1 .. Len(Tail(old))
    BY <1>3, <1>5
  <2>2. ring[i] = b[SlotOf(u, i)]
    BY <1>2
  <2>3. old[i + 1] = b[SlotOf(t, i + 1)]
    BY <1>2, <2>1
  <2>4. SlotOf(u, i) = SlotOf(t, i + 1)
    BY <1>1, <1>2, <1>3, NNat DEF RingLen, SlotOf
  <2>. QED BY <2>1, <2>2, <2>3, <2>4, <1>5
<1>7. ring = Tail(old)
  BY <1>2, <1>3, <1>5, <1>6
<1>. QED BY <1>2, <1>4, <1>5, <1>7, <1>a, <1>b

(***************************************************************************)
(* Sequences: a character appended behind a queue, and one moved from the  *)
(* front of a queue to the end of another.                                 *)
(***************************************************************************)
LEMMA TailAppend ==
  ASSUME NEW w \in Seq(Slots), w # <<>>, NEW c \in Slots
  PROVE  /\ Tail(Append(w, c)) = Append(Tail(w), c)
         /\ Tail(w) \in Seq(Slots) /\ Len(Tail(w)) = Len(w) - 1
OBVIOUS

LEMMA AppendBehind ==
  ASSUME NEW o \in Seq(Slots), NEW q \in Seq(Slots), NEW c \in Slots
  PROVE  Append(o \o q, c) = o \o Append(q, c)
<1>1. o \o q \in Seq(Slots) /\ <<c>> \in Seq(Slots)
  OBVIOUS
<1>2. Append(o \o q, c) = (o \o q) \o <<c>>
  BY <1>1
<1>3. Append(q, c) = q \o <<c>>
  OBVIOUS
<1>. QED BY <1>1, <1>2, <1>3

LEMMA MoveFront ==
  ASSUME NEW o \in Seq(Slots), NEW q \in Seq(Slots), q # <<>>
  PROVE  Append(o, Head(q)) \o Tail(q) = o \o q
<1> DEFINE x == Head(q)
           r == Tail(q)
<1>1. x \in Slots /\ r \in Seq(Slots)
  OBVIOUS
<1>2. Append(o, x) = o \o <<x>> /\ <<x>> \in Seq(Slots)
  BY <1>1
<1>3. q = <<x>> \o r
  <2>1. /\ Len(<<x>>) = 1 /\ <<x>>[1] = x
        /\ Len(r) = Len(q) - 1 /\ Len(q) \in Nat \ {0}
        /\ \A i \in 1 .. Len(r) : r[i] = q[i + 1]
        /\ x = q[1]
    OBVIOUS
  <2>2. /\ <<x>> \o r \in Seq(Slots) /\ Len(<<x>> \o r) = Len(q)
        /\ \A i \in 1 .. Len(q) : (<<x>> \o r)[i] = IF i <= 1 THEN x ELSE r[i - 1]
    BY <1>1, <1>2, <2>1
  <2>3. \A i \in 1 .. Len(q) : (<<x>> \o r)[i] = q[i]
    BY <2>1, <2>2
  <2>. QED BY <2>2, <2>3
<1>. QED BY <1>1, <1>2, <1>3

(***************************************************************************)
(* The steps, as seen at the queue of unread characters.                   *)
(***************************************************************************)
\* The buffer is well formed, and the slot a reader is about to release is in
\* use: only the reader itself moves the tail.
RingInv ==
    /\ key_buffer \in [Index -> Slots]
    /\ buffer_head \in Index /\ buffer_tail \in Index
    /\ reader = "advance" => buffer_head # buffer_tail
    /\ read_out \in Seq(Slots) /\ accepted \in Seq(Slots)

Accepts(c) ==
    /\ c \in Ascii /\ Len(Unread) < N - 1
    /\ Unread' = Append(Unread, c)
    /\ read_out' = read_out /\ accepted' = Append(accepted, c)

Delivers ==
    /\ Unread # <<>>
    /\ Unread' = Tail(Unread)
    /\ read_out' = Append(read_out, Head(Unread)) /\ accepted' = accepted

Leaves == Unread' = Unread /\ read_out' = read_out /\ accepted' = accepted

LEMMA WaitingSeq ==
  ASSUME RingInv
  PROVE  /\ Waiting \in Seq(Slots) /\ Len(Waiting) \in Nat
         /\ Waiting = <<>> <=> buffer_head = buffer_tail
         /\ Unread \in Seq(Slots)
<1>1. /\ Waiting \in Seq(Slots)
      /\ Waiting = <<>> <=> buffer_head = buffer_tail
  <2>1. /\ IsRing(Ring(key_buffer, buffer_head, buffer_tail),
                  key_buffer, buffer_head, buffer_tail)
        /\ Ring(key_buffer, buffer_head, buffer_tail) = <<>>
             <=> buffer_head = buffer_tail
    BY RingSeq DEF RingInv
  <2>. QED BY <2>1, WaitingRing, Zenon DEF IsRing
<1>2. reader = "advance" => Waiting # <<>>
  BY <1>1 DEF RingInv
<1>3. CASE reader = "advance"
  BY <1>1, <1>2, <1>3 DEF Unread
<1>4. CASE reader # "advance"
  BY <1>1, <1>4 DEF Unread
<1>. QED BY <1>3, <1>4

LEMMA PutStep ==
  ASSUME RingInv, NEW c \in Ascii, buffer_put(c), UNCHANGED readerVars
  PROVE  RingInv' /\ (Leaves \/ Accepts(c))
<1>. c \in Slots
  BY DEF Slots
<1>1. CASE buffer_full
  BY <1>1 DEF buffer_put, RingInv, bufferVars, readerVars, Leaves, Unread, Waiting
<1>2. CASE ~buffer_full
  <2>1. /\ key_buffer' = Stored(key_buffer, buffer_head, c)
        /\ buffer_head' = Succ(buffer_head) /\ buffer_head' # buffer_tail
        /\ buffer_tail' = buffer_tail
        /\ accepted' = Append(accepted, c)
    BY <1>2 DEF buffer_put, buffer_full, Stored, Succ, N
  <2>2. reader' = reader /\ read_out' = read_out
    BY DEF readerVars
  <2>3. RingInv'
    <3>1. buffer_head' \in Index
      BY <2>1, NextSlot DEF RingInv
    <3>2. key_buffer' \in [Index -> Slots]
      BY <2>1 DEF RingInv, Stored
    <3>. QED BY <2>1, <2>2, <3>1, <3>2 DEF RingInv
  <2>4. /\ Waiting' = Append(Waiting, c)
        /\ Len(Waiting) < N - 1
    <3>1. Waiting' = Ring(key_buffer', buffer_head', buffer_tail')
      BY DEF Waiting, Ring, N
    <3>2. /\ Ring(key_buffer', buffer_head', buffer_tail)
               = Append(Ring(key_buffer, buffer_head, buffer_tail), c)
          /\ Len(Ring(key_buffer, buffer_head, buffer_tail)) < N - 1
      <4>1. PICK new, g : new = key_buffer' /\ g = buffer_head'
        OBVIOUS
      <4>2. /\ new = Stored(key_buffer, buffer_head, c)
            /\ g = Succ(buffer_head) /\ g # buffer_tail
        BY <2>1, <4>1
      <4>3. /\ Ring(new, g, buffer_tail)
                 = Append(Ring(key_buffer, buffer_head, buffer_tail), c)
            /\ Len(Ring(key_buffer, buffer_head, buffer_tail)) < N - 1
        BY <4>2, RingPut DEF RingInv
      <4>. QED BY <4>1, <4>3
    <3>. QED BY <2>1, <3>1, <3>2, WaitingRing
  <2>5. CASE reader = "advance"
    <3>1. Waiting # <<>>
      BY <2>5, WaitingSeq DEF RingInv
    <3>2. Unread = Tail(Waiting) /\ Unread' = Tail(Waiting')
      BY <2>2, <2>5 DEF Unread
    <3>a. Tail(Append(Waiting, c)) = Append(Tail(Waiting), c)
      BY <3>1, TailAppend, WaitingSeq
    <3>b. Len(Tail(Waiting)) = Len(Waiting) - 1
      BY <3>1, TailAppend, WaitingSeq
    <3>c. Len(Tail(Waiting)) < N - 1
      BY <2>4, <3>b, WaitingSeq, NNat
    <3>3. Unread' = Append(Unread, c) /\ Len(Unread) < N - 1
      BY <2>4, <3>2, <3>a, <3>c
    <3>. QED BY <2>1, <2>2, <2>3, <3>3 DEF Accepts
  <2>6. CASE reader # "advance"
    <3>1. Unread = Waiting /\ Unread' = Waiting'
      BY <2>2, <2>6 DEF Unread
    <3>. QED BY <2>1, <2>2, <2>3, <2>4, <3>1 DEF Accepts
  <2>. QED BY <2>5, <2>6
<1>. QED BY <1>1, <1>2

LEMMA ReadStep ==
  ASSUME RingInv, BufferGetRead
  PROVE  RingInv' /\ (Leaves \/ Delivers)
<1>1. /\ reader = "get" /\ UNCHANGED <<key_buffer, buffer_head, buffer_tail>>
      /\ accepted' = accepted /\ Waiting' = Waiting
  BY DEF BufferGetRead, bufferVars, Waiting
<1>2. Unread = Waiting
  BY <1>1 DEF Unread
<1>3. CASE buffer_empty
  <2>1. reader' = "away" /\ read_out' = read_out
    BY <1>3 DEF BufferGetRead
  <2>2. Unread' = Waiting'
    BY <2>1 DEF Unread
  <2>. QED BY <1>1, <1>2, <2>1, <2>2 DEF RingInv, Leaves
<1>4. CASE ~buffer_empty
  <2>1. reader' = "advance" /\ read_out' = Append(read_out, key_buffer[buffer_tail])
    BY <1>4 DEF BufferGetRead
  <2>2. Unread' = Tail(Waiting')
    BY <2>1 DEF Unread
  <2>3. Waiting # <<>> /\ Head(Waiting) = key_buffer[buffer_tail]
    BY <1>4, RingGet, WaitingRing DEF RingInv, buffer_empty
  <2>4. key_buffer[buffer_tail] \in Slots
    BY DEF RingInv
  <2>5. RingInv'
    BY <1>1, <1>4, <2>1, <2>4 DEF RingInv, buffer_empty
  <2>. QED BY <1>1, <1>2, <2>1, <2>2, <2>3, <2>5 DEF Delivers
<1>. QED BY <1>3, <1>4

LEMMA AdvanceStep ==
  ASSUME RingInv, BufferGetAdvance
  PROVE  RingInv' /\ Leaves
<1>1. /\ reader = "advance" /\ reader' = "check"
      /\ buffer_tail' = Succ(buffer_tail)
      /\ key_buffer' = key_buffer /\ buffer_head' = buffer_head
      /\ read_out' = read_out /\ accepted' = accepted
  BY DEF BufferGetAdvance, Succ, N
<1>2. RingInv'
  BY <1>1, NextSlot DEF RingInv
<1>3. Unread = Tail(Waiting) /\ Unread' = Waiting'
  BY <1>1 DEF Unread
<1>4. Waiting' = Ring(key_buffer', buffer_head', buffer_tail')
  BY DEF Waiting, Ring, N
<1>5. Ring(key_buffer, buffer_head, buffer_tail')
        = Tail(Ring(key_buffer, buffer_head, buffer_tail))
  BY <1>1, RingGet DEF RingInv
<1>. QED BY <1>1, <1>2, <1>3, <1>4, <1>5, WaitingRing DEF Leaves

LEMMA OtherStep ==
  ASSUME RingInv, UNCHANGED <<key_buffer, buffer_head, buffer_tail, read_out, accepted>>,
         reader' = "advance" <=> reader = "advance"
  PROVE  RingInv' /\ Leaves
<1>1. Waiting' = Waiting
  BY DEF Waiting
<1>. QED BY <1>1 DEF RingInv, Leaves, Unread

LEMMA AsciiChar ==
  ASSUME NEW key \in Key, NEW s, NEW l, ascii(key, s, l) # None
  PROVE  ascii(key, s, l) \in Ascii
BY DEF ascii, Key, Ascii, None

\* Every step accepts a character, delivers one, or leaves the queue alone.
LEMMA QueueStep ==
  ASSUME RingInv, [KeyboardNext]_keyboardVars
  PROVE  RingInv' /\ (Leaves \/ Delivers \/ \E c \in Ascii : Accepts(c))
<1>1. CASE UNCHANGED keyboardVars
  <2>1. UNCHANGED <<key_buffer, buffer_head, buffer_tail, read_out, accepted, reader>>
    BY <1>1 DEF keyboardVars, bufferVars, readerVars
  <2>. QED BY <2>1, OtherStep
<1>2. ASSUME NEW m \in Modifier, NEW released \in BOOLEAN, ModifierKey(m, released)
      PROVE  RingInv' /\ Leaves
  <2>1. UNCHANGED <<key_buffer, buffer_head, buffer_tail, read_out, accepted, reader>>
    BY <1>2 DEF ModifierKey, bufferVars, readerVars
  <2>. QED BY <2>1, OtherStep
<1>3. CASE CapsLock
  <2>1. UNCHANGED <<key_buffer, buffer_head, buffer_tail, read_out, accepted, reader>>
    BY <1>3 DEF CapsLock, bufferVars, readerVars
  <2>. QED BY <2>1, OtherStep
<1>4. ASSUME NEW key \in Key, KeyPress(key)
      PROVE  RingInv' /\ (Leaves \/ \E c \in Ascii : Accepts(c))
  <2> DEFINE c == ascii(key, shift_pressed, caps_lock)
  <2>1. CASE c = None
    <3>1. UNCHANGED <<key_buffer, buffer_head, buffer_tail, read_out, accepted, reader>>
      BY <1>4, <2>1 DEF KeyPress, bufferVars, readerVars
    <3>. QED BY <3>1, OtherStep
  <2>2. CASE c # None
    <3>1. c \in Ascii
      BY <2>2, AsciiChar
    <3>2. buffer_put(c) /\ UNCHANGED readerVars
      BY <1>4, <2>2 DEF KeyPress
    <3>. HIDE DEF c
    <3>. QED BY <3>1, <3>2, PutStep
  <2>. QED BY <2>1, <2>2
<1>5. CASE keyboard_has_key
  <2>1. /\ UNCHANGED <<key_buffer, buffer_head, buffer_tail, read_out, accepted>>
        /\ reader = "check" /\ reader' \in {"away", "get"}
    BY <1>5 DEF keyboard_has_key, bufferVars
  <2>. QED BY <2>1, OtherStep
<1>6. ASSUME NEW n \in Lens, sys_read(n)
      PROVE  RingInv' /\ Leaves
  <2>1. /\ UNCHANGED <<key_buffer, buffer_head, buffer_tail, read_out, accepted>>
        /\ reader = "away" /\ reader' \in {"away", "check"}
    BY <1>6 DEF sys_read, bufferVars
  <2>. QED BY <2>1, OtherStep
<1>. QED BY <1>1, <1>2, <1>3, <1>4, <1>5, <1>6, ReadStep, AdvanceStep
         DEF KeyboardNext, Interrupt, Reading

LEMMA RingInit == KeyboardInit => RingInv /\ Unread = <<>> /\ read_out = <<>> /\ accepted = <<>>
<1>. SUFFICES ASSUME KeyboardInit PROVE RingInv /\ Unread = <<>> /\ read_out = <<>> /\ accepted = <<>>
  OBVIOUS
<1>1. RingInv
  BY NNat DEF KeyboardInit, RingInv, Slots
<1>2. Waiting = <<>>
  BY <1>1, WaitingSeq DEF KeyboardInit
<1>. QED BY <1>1, <1>2 DEF KeyboardInit, Unread

LEMMA OrderStep ==
  ASSUME RingInv, InOrder, Leaves \/ Delivers \/ \E c \in Ascii : Accepts(c)
  PROVE  InOrder'
<1>1. CASE Leaves
  BY <1>1 DEF Leaves, InOrder
<1>2. CASE Delivers
  <2>1. Append(read_out, Head(Unread)) \o Tail(Unread) = read_out \o Unread
    <3>1. read_out \in Seq(Slots) /\ Unread \in Seq(Slots) /\ Unread # <<>>
      BY <1>2, WaitingSeq DEF Delivers, RingInv
    <3>. QED BY <3>1, MoveFront
  <2>. QED BY <1>2, <2>1 DEF Delivers, InOrder
<1>3. ASSUME NEW c \in Ascii, Accepts(c) PROVE InOrder'
  <2>1. Append(read_out \o Unread, c) = read_out \o Append(Unread, c)
    <3>1. read_out \in Seq(Slots) /\ Unread \in Seq(Slots) /\ c \in Slots
      BY WaitingSeq, Zenon DEF RingInv, Slots
    <3>. QED BY <3>1, AppendBehind, Zenon
  <2>. QED BY <1>3, <2>1 DEF Accepts, InOrder
<1>. QED BY <1>1, <1>2, <1>3

\* For every size of the buffer and whenever IRQ1 strikes while sys_read is
\* between two of its accesses, the characters accepted are those delivered
\* followed by those still unread (keyboard.c:102-119).
THEOREM CharactersInOrder == KeyboardSpec => []InOrder
<1>1. KeyboardInit => RingInv /\ InOrder
  BY RingInit DEF InOrder
<1>2. RingInv /\ InOrder /\ [KeyboardNext]_keyboardVars => RingInv' /\ InOrder'
  BY QueueStep, OrderStep
<1>. QED BY <1>1, <1>2, PTL DEF KeyboardSpec

\* The ring with its one empty slot and its reader in two steps implements a
\* queue of KB_BUFFER_SIZE - 1 characters that drops what does not fit.
THEOREM RingIsBoundedFifo == KeyboardSpec => ImplementsBoundedFifo
<1>1. KeyboardInit => RingInv /\ Promise!Init
  BY RingInit DEF Promise!Init
<1>2. ASSUME RingInv, [KeyboardNext]_keyboardVars
      PROVE  RingInv' /\ [Promise!Next]_<<Unread, read_out>>
  BY <1>2, QueueStep
     DEF Leaves, Delivers, Accepts, N, Promise!Next, Promise!Get, Promise!Put
<1>. QED BY <1>1, <1>2, PTL DEF KeyboardSpec, ImplementsBoundedFifo, Promise!Spec

----------------------------------------------------------------------------
(* The console and the shell: for every size of the screen, every number of *)
(* writers and every input, the cursor comes back to the screen after calls *)
(* of vga_putchar overlapped in any way, readline stays inside its buffer,  *)
(* and no command leaves a descriptor open.                                 *)

Labels == {"idle", "column", "move", "cell", "wrap", "line", "scroll", "home",
           "done"}

Registers ==
  /\ pc \in [Writers -> Labels]
  /\ rx \in [Writers -> Nat] /\ ry \in [Writers -> Nat]
  /\ cursor_x \in Nat /\ cursor_y \in Nat

\* Somebody still has to wrap a cursor that is past the right edge.
Wrapping ==
  cursor_x >= Width =>
    \E w \in Writers : \/ pc[w] = "wrap"
                       \/ pc[w] = "cell" /\ rx[w] >= Width

\* Somebody still has to scroll for a cursor that is below the last row.
Scrolling ==
  cursor_y >= Height => \E w \in Writers : pc[w] \in {"scroll", "home"}

CursorInv == Registers /\ Wrapping /\ Scrolling

\* The console's state is the same after a step of the shell itself.
LEMMA ShellLeavesConsole ==
  ShellNext => UNCHANGED <<cursor_x, cursor_y, pc, rx, ry>>
<1>1. Start \/ Prompt \/ Parse \/ CatLoop \/ LsName
        => UNCHANGED <<cursor_x, cursor_y, pc, rx, ry>>
  BY Zenon DEF Start, Prompt, Parse, CatLoop, LsName, write, consoleVars, shared, private
<1>2. ASSUME NEW key \in Keys, readline(key)
      PROVE  UNCHANGED <<cursor_x, cursor_y, pc, rx, ry>>
  BY <1>2, Zenon DEF readline, Enter, Backspace, Character, Ignore, write, shared, private
<1>3. execute_command => UNCHANGED <<cursor_x, cursor_y, pc, rx, ry>>
  BY DEF execute_command, Tell, cmd_echo, cmd_clear, cmd_cd, cmd_exit, cmd_cat,
         cmd_ls, Open, say, write, shared, private
<1>. QED BY <1>1, <1>2, <1>3 DEF ShellNext

LEMMA Sizes ==
  /\ Width \in Nat /\ 0 < Width
  /\ Height \in Nat /\ 0 < Height
  /\ TabStop \in Nat /\ 0 < TabStop
BY SizeAssumption

LEMMA CursorStep ==
  ASSUME CursorInv, NEW w \in Writers, Step(w)
  PROVE  CursorInv'
<1>. USE Sizes
<1>r. /\ pc[w] \in Labels /\ rx[w] \in Nat /\ ry[w] \in Nat
      /\ cursor_x \in Nat
  BY DEF CursorInv, Registers
<1>1. CASE vga_putchar(w)
  BY <1>1 DEF CursorInv, Registers, Wrapping, Scrolling, vga_putchar, Goto, shared, Labels
<1>2. CASE LoadColumn(w)
  <2>1. Column(ch[w], cursor_x) \in Nat
    <3>1. NextTab(cursor_x) \in Nat
      <4>1. cursor_x % TabStop \in 0 .. TabStop - 1
        BY <1>r
      <4>. QED BY <4>1, <1>r DEF NextTab
    <3>. QED BY <3>1, <1>r DEF Column
  <2>2. PICK l \in Labels : pc' = [pc EXCEPT ![w] = l]
    <3>1. Turn(ch[w], cursor_x, ry[w])
            \in {"wrap", "move", Bottom(ry[w]), Edge(cursor_x, ry[w])}
      BY DEF Turn
    <3>2. Bottom(ry[w]) \in Labels /\ Edge(cursor_x, ry[w]) \in Labels
      BY DEF Bottom, Edge, Labels
    <3>3. Turn(ch[w], cursor_x, ry[w]) \in Labels
      BY <3>1, <3>2 DEF Labels
    <3>. QED BY <1>2, <3>3, Zenon DEF LoadColumn, Goto
  <2>3. PICK x \in Nat : rx' = [rx EXCEPT ![w] = x]
    BY <1>2, <2>1, Zenon DEF LoadColumn
  <2>4. pc[w] = "column" /\ UNCHANGED <<cursor_x, cursor_y, ry>>
    BY <1>2 DEF LoadColumn, shared
  <2>. QED BY <2>2, <2>3, <2>4, <1>r DEF CursorInv, Registers, Wrapping, Scrolling
<1>3. CASE MoveCursor(w)
  <2>1. /\ pc[w] = "move" /\ cursor_x' = rx[w]
        /\ UNCHANGED <<cursor_y, rx, ry>>
    BY <1>3, Zenon DEF MoveCursor
  <2>2. PICK l \in Labels : /\ pc' = [pc EXCEPT ![w] = l]
                            /\ rx[w] >= Width => l \in {"cell", "wrap"}
    BY <1>3, Zenon DEF MoveCursor, Goto, Labels, Edge, Bottom
  <2>. QED BY <2>1, <2>2, <1>r DEF CursorInv, Registers, Wrapping, Scrolling
<1>4. CASE WriteCell(w)
  <2>1. pc[w] = "cell" /\ UNCHANGED <<cursor_x, cursor_y, rx, ry>>
    BY <1>4, Zenon DEF WriteCell
  <2>2. PICK l \in Labels : /\ pc' = [pc EXCEPT ![w] = l]
                            /\ rx[w] >= Width => l = "wrap"
    BY <1>4, Zenon DEF WriteCell, Goto, Labels, Edge, Bottom
  <2>. QED BY <2>1, <2>2, <1>r DEF CursorInv, Registers, Wrapping, Scrolling
<1>5. CASE Wrap(w)
  BY <1>5, <1>r DEF CursorInv, Registers, Wrapping, Scrolling, Wrap, Goto, Labels
<1>6. CASE NextLine(w)
  <2>1. /\ pc[w] = "line" /\ cursor_y' = ry[w] + 1
        /\ UNCHANGED <<cursor_x, rx>> /\ ry' = [ry EXCEPT ![w] = ry[w] + 1]
    BY <1>6 DEF NextLine
  <2>2. PICK l \in Labels : /\ pc' = [pc EXCEPT ![w] = l]
                            /\ ry[w] + 1 >= Height => l = "scroll"
    BY <1>6, Zenon DEF NextLine, Goto, Labels, Bottom
  <2>. QED BY <2>1, <2>2, <1>r DEF CursorInv, Registers, Wrapping, Scrolling
<1>7. CASE ScrollRow(w)
  <2>1. pc[w] = "scroll" /\ UNCHANGED <<cursor_x, cursor_y, rx, ry>>
    BY <1>7, Zenon DEF ScrollRow
  <2>2. PICK l \in {"scroll", "home"} : pc' = [pc EXCEPT ![w] = l]
    BY <1>7, Zenon DEF ScrollRow, Goto
  <2>. QED BY <2>1, <2>2, <1>r DEF CursorInv, Registers, Wrapping, Scrolling, Labels
<1>8. CASE ScrollHome(w)
  BY <1>8, <1>r DEF CursorInv, Registers, Wrapping, Scrolling, ScrollHome, Goto, Labels
<1>9. CASE Return(w)
  BY <1>9, <1>r, Zenon DEF CursorInv, Registers, Wrapping, Scrolling, Return, Goto, Labels, shared
<1>. QED BY <1>1, <1>2, <1>3, <1>4, <1>5, <1>6, <1>7, <1>8, <1>9 DEF Step

\* However many threads print, and wherever the timer preempts them inside
\* vga_putchar, the cursor is on the screen once every call has returned.
THEOREM CursorReturns == Spec => []OnScreenWhenQuiet
<1>1. Init => CursorInv
  <2>. SUFFICES ASSUME Init PROVE CursorInv
    OBVIOUS
  <2>1. /\ pc = [w \in Writers |-> "idle"] /\ cursor_x = 0 /\ cursor_y = 0
        /\ rx = [w \in Writers |-> 0] /\ ry = [w \in Writers |-> 0]
    BY Zenon DEF Init, ConsoleInit
  <2>2. Registers
    BY <2>1 DEF Registers, Labels
  <2>3. Wrapping /\ Scrolling
    BY <2>1, Sizes DEF Wrapping, Scrolling
  <2>. QED BY <2>2, <2>3 DEF CursorInv
<1>2. CursorInv /\ [Next]_vars => CursorInv'
  <2>. SUFFICES ASSUME CursorInv, [Next]_vars PROVE CursorInv'
    OBVIOUS
  <2>1. CASE UNCHANGED <<cursor_x, cursor_y, pc, rx, ry>>
    BY <2>1 DEF CursorInv, Registers, Wrapping, Scrolling
  <2>2. CASE ShellNext
    BY <2>1, <2>2, ShellLeavesConsole
  <2>3. ASSUME NEW w \in Writers, Step(w) PROVE CursorInv'
    BY <2>3, CursorStep
  <2>4. ASSUME NEW w \in Writers, kprintf(w) PROVE CursorInv'
    BY <2>4, <2>1 DEF kprintf, shared, private
  <2>5. CASE UNCHANGED vars
    BY <2>1, <2>5 DEF vars, consoleVars, shared, private
  <2>. QED BY <2>2, <2>3, <2>4, <2>5 DEF Next
<1>3. CursorInv => OnScreenWhenQuiet
  <2>. SUFFICES ASSUME CursorInv, Quiet
                PROVE  cursor_x < Width /\ cursor_y < Height
    BY DEF OnScreenWhenQuiet
  <2>. QED BY Sizes
           DEF CursorInv, Registers, Wrapping, Scrolling, Quiet
<1>. QED BY <1>1, <1>2, <1>3, PTL DEF Spec

----------------------------------------------------------------------------
\* Only cat and ls, while they run, hold a descriptor.
HeldInv == at \notin {"cat", "ls"} => fd = Closed

\* Every command closes what it opened, on each of its paths, before the
\* shell prompts again.
THEOREM DescriptorsReturned == Spec => []DescriptorsClosed
<1>1. Init => HeldInv
  BY DEF Init, HeldInv
<1>2. HeldInv /\ [Next]_vars => HeldInv'
  <2>. SUFFICES ASSUME HeldInv, [Next]_vars PROVE HeldInv'
    OBVIOUS
  <2>1. CASE Start \/ Prompt \/ Parse \/ CatLoop \/ LsName
    BY <2>1, Zenon DEF HeldInv, Start, Prompt, Parse, CatLoop, LsName
  <2>2. ASSUME NEW key \in Keys, readline(key) PROVE HeldInv'
    <3>1. at = "read" /\ fd' = fd
      BY <2>2 DEF readline
    <3>. QED BY <3>1 DEF HeldInv
  <2>3. CASE execute_command
    <3>1. at = "execute" /\ fd = Closed
      BY <2>3 DEF execute_command, HeldInv
    <3>2. CASE fd' = fd
      BY <3>1, <3>2 DEF HeldInv
    <3>3. CASE cmd_cat \/ cmd_ls
      <4>1. Command(argv) \in {"cat", "ls"}
        BY <3>3 DEF cmd_cat, cmd_ls
      <4>2. at' = Command(argv) \/ fd' = fd
        BY <3>3 DEF cmd_cat, cmd_ls, Open, say
      <4>. QED BY <4>1, <4>2, <3>2 DEF HeldInv
    <3>. QED BY <2>3, <3>2, <3>3
             DEF execute_command, Tell, cmd_echo, cmd_clear, cmd_cd, cmd_exit, say
  <2>4. CASE UNCHANGED <<at, fd>>
    BY <2>4 DEF HeldInv
  <2>. QED BY <2>1, <2>2, <2>3, <2>4 DEF Next, ShellNext, vars, shellVars
<1>3. HeldInv => DescriptorsClosed
  BY DEF HeldInv, DescriptorsClosed
<1>. QED BY <1>1, <1>2, <1>3, PTL DEF Spec

----------------------------------------------------------------------------
\* readline never stores outside the MAX_LINE bytes of its buffer: there is
\* always room for the character it accepts next, and for the final NUL.
LineFits ==
  /\ line \in Seq(Printable)
  /\ Len(line) < MaxLine
  /\ at = "read" => Len(line) < MaxLine - 1

\* The buffer of readline does not overflow, whatever is typed.
THEOREM ReadlineFits == Spec => []LineFits
<1>. USE ShellAssumption
<1>1. Init => LineFits
  BY DEF Init, LineFits
<1>2. LineFits /\ [Next]_vars => LineFits'
  <2>. SUFFICES ASSUME LineFits, [Next]_vars PROVE LineFits'
    OBVIOUS
  <2>1. CASE UNCHANGED <<line, at>>
    BY <2>1 DEF LineFits
  <2>2. CASE Start \/ Parse \/ CatLoop \/ LsName
    <3>1. line' = line /\ (at' = "read" => at = "read")
      BY <2>2 DEF Start, Parse, CatLoop, LsName
    <3>. QED BY <3>1 DEF LineFits
  <2>3. CASE Prompt
    BY <2>3 DEF Prompt, LineFits
  <2>4. ASSUME NEW key \in Keys, readline(key) PROVE LineFits'
    <3>1. at = "read" /\ Len(line) < MaxLine - 1 /\ line \in Seq(Printable)
      BY <2>4 DEF readline, LineFits
    <3>2. ASSUME NEW l \in Seq(Printable), Len(l) < MaxLine, Line(l)
          PROVE  LineFits'
      BY <3>2 DEF Line, LineFits
    <3>3. CASE Enter
      BY <3>3, <3>1 DEF Enter, LineFits
    <3>4. CASE Ignore
      BY <3>4, <2>1 DEF Ignore
    <3>5. CASE line # <<>> /\ Erased
      <4>1. /\ SubSeq(line, 1, Len(line) - 1) \in Seq(Printable)
            /\ Len(SubSeq(line, 1, Len(line) - 1)) < MaxLine
        BY <3>1, <3>5
      <4>. QED BY <4>1, <3>2, <3>5, Zenon DEF Erased
    <3>6. CASE key \in Printable /\ Line(Append(line, key))
      <4>1. /\ Append(line, key) \in Seq(Printable)
            /\ Len(Append(line, key)) < MaxLine
        BY <3>1, <3>6
      <4>. QED BY <4>1, <3>2, <3>6, Zenon
    <3>. QED BY <2>4, <3>3, <3>4, <3>5, <3>6, Zenon DEF readline, Backspace, Character
  <2>5. CASE execute_command
    <3>1. line' = line /\ at' # "read"
      BY <2>5 DEF execute_command, Tell, cmd_echo, cmd_clear, cmd_cd, cmd_exit,
                  cmd_cat, cmd_ls, Open, say
    <3>. QED BY <3>1 DEF LineFits
  <2>. QED BY <2>1, <2>2, <2>3, <2>4, <2>5 DEF Next, ShellNext, vars, shellVars
<1>. QED BY <1>1, <1>2, PTL DEF Spec
=============================================================================
