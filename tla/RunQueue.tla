------------------------------ MODULE RunQueue ------------------------------
(***************************************************************************)
(* The scheduler's run queue as the code has it: a doubly linked list      *)
(* through the next and prev fields of the process table, with a head and  *)
(* a tail pointer (kernel/proc/sched.c).  Each function runs with          *)
(* interrupts off and is one action.  The idle process never gets here.    *)
(*                                                                         *)
(* order and call are history variables, which no action reads: who was    *)
(* added and not yet taken, oldest first; and the last function called,    *)
(* with the process it was given or returned.                              *)
(***************************************************************************)
EXTENDS Integers, Sequences

CONSTANTS Process, NULL

ASSUME NullAssumption == NULL \notin Process

VARIABLES
    next,             \* proc->next
    prev,             \* proc->prev
    run_queue_head,
    run_queue_tail,
    order,
    call

queueVars == <<next, prev, run_queue_head, run_queue_tail, order, call>>

Pointer == Process \cup {NULL}

Members(s) == {s[i] : i \in DOMAIN s}

\* s without its i-th element.
Without(s, i) == [j \in 1 .. Len(s) - 1 |-> IF j < i THEN s[j] ELSE s[j + 1]]

sched_init ==
    /\ next = [p \in Process |-> NULL]
    /\ prev = [p \in Process |-> NULL]
    /\ run_queue_head = NULL
    /\ run_queue_tail = NULL
    /\ order = <<>>
    /\ call = <<>>

\* A process alone in the queue has neither neighbour: the test on the head
\* is what tells it from one that is not queued.
InQueue_NoHeadTest(p) == next[p] # NULL \/ prev[p] # NULL

InQueue(p) == next[p] # NULL \/ prev[p] # NULL \/ p = run_queue_head

sched_add(p) ==
    /\ ~InQueue(p)
    /\ prev' = [prev EXCEPT ![p] = run_queue_tail]
    /\ next' = IF run_queue_tail # NULL
               THEN [next EXCEPT ![p] = NULL, ![run_queue_tail] = p]
               ELSE [next EXCEPT ![p] = NULL]
    /\ run_queue_head' = IF run_queue_tail # NULL THEN run_queue_head ELSE p
    /\ run_queue_tail' = p
    /\ order' = Append(order, p)
    /\ call' = <<"add", p>>

\* The newest process instead of the oldest.
sched_pick_next_Tail ==
    LET p == run_queue_tail
        t == prev[p]
    IN  /\ p # NULL
        /\ run_queue_tail' = t
        /\ run_queue_head' = IF t = NULL THEN NULL ELSE run_queue_head
        /\ next' = IF t = NULL THEN [next EXCEPT ![p] = NULL]
                   ELSE [next EXCEPT ![t] = NULL, ![p] = NULL]
        /\ prev' = [prev EXCEPT ![p] = NULL]
        /\ order' = Tail(order)
        /\ call' = <<"pick", p>>

sched_pick_next ==
    LET p == run_queue_head
        h == next[p]
    IN  /\ p # NULL
        /\ run_queue_head' = h
        /\ run_queue_tail' = IF h = NULL THEN NULL ELSE run_queue_tail
        /\ prev' = IF h = NULL THEN [prev EXCEPT ![p] = NULL]
                   ELSE [prev EXCEPT ![h] = NULL, ![p] = NULL]
        /\ next' = [next EXCEPT ![p] = NULL]
        /\ order' = Tail(order)
        /\ call' = <<"pick", p>>

sched_remove(p) ==
    LET before == prev[p]
        after == next[p]
    IN  /\ next' = IF before # NULL THEN [next EXCEPT ![before] = after, ![p] = NULL]
                   ELSE [next EXCEPT ![p] = NULL]
        /\ run_queue_head' = IF before # NULL THEN run_queue_head ELSE after
        /\ prev' = IF after # NULL THEN [prev EXCEPT ![after] = before, ![p] = NULL]
                   ELSE [prev EXCEPT ![p] = NULL]
        /\ run_queue_tail' = IF after # NULL THEN run_queue_tail ELSE before
        /\ order' = IF p \in Members(order)
                    THEN Without(order, CHOOSE i \in DOMAIN order : order[i] = p)
                    ELSE order
        /\ call' = <<"remove", p>>

\* sched_remove is called for queued processes only.
QueueNext ==
    \/ \E p \in Process : sched_add(p)
    \/ sched_pick_next
    \/ \E p \in Process : InQueue(p) /\ sched_remove(p)

QueueSpec == sched_init /\ [][QueueNext]_queueVars

\* The caller the header has in mind: the running process, which is not in
\* the queue when it blocks or terminates.
SpecRemoveRunning == sched_init /\ [][QueueNext \/ \E p \in Process : sched_remove(p)]_queueVars

(***************************************************************************)
(* Properties.                                                             *)
(***************************************************************************)
\* Every variable has the type of the C object it stands for.
QueueTypeOK ==
    /\ next \in [Process -> Pointer]
    /\ prev \in [Process -> Pointer]
    /\ run_queue_head \in Pointer
    /\ run_queue_tail \in Pointer
    /\ order \in Seq(Process)

\* The pointers spell out the order of arrival, forwards and backwards, no
\* process is in it twice, and a process outside the queue has no neighbours
\* (sched.c:56-137).
Linked ==
    /\ \A i, j \in 1 .. Len(order) : order[i] = order[j] => i = j
    /\ Len(order) = 0 => run_queue_head = NULL /\ run_queue_tail = NULL
    /\ Len(order) > 0 => /\ run_queue_head = order[1] /\ prev[order[1]] = NULL
                         /\ run_queue_tail = order[Len(order)]
                         /\ next[order[Len(order)]] = NULL
    /\ \A i \in 1 .. Len(order) - 1 : /\ next[order[i]] = order[i + 1]
                                      /\ prev[order[i + 1]] = order[i]
    /\ \A p \in Process \ Members(order) : next[p] = NULL /\ prev[p] = NULL
=============================================================================
