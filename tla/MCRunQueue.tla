----------------------------- MODULE MCRunQueue -----------------------------
(***************************************************************************)
(* The linked run queue checked against the abstract queue of Fifo.        *)
(***************************************************************************)
EXTENDS RunQueue, FiniteSets

\* The process met after i steps from the head, NULL past the end: the walk
\* of sched_ready_count.
Walk ==
    LET at[i \in 0 .. Cardinality(Process) + 1] ==
            IF i = 0 THEN run_queue_head
            ELSE IF at[i - 1] = NULL THEN NULL ELSE next[at[i - 1]]
    IN  at

\* Steps until the end; one more than there are processes if there is none.
sched_ready_count ==
    LET ends == {i \in DOMAIN Walk : Walk[i] = NULL}
    IN  IF ends = {} THEN Cardinality(Process) + 1
        ELSE CHOOSE n \in ends : \A i \in ends : n <= i

Contents == [i \in 1 .. sched_ready_count |-> Walk[i - 1]]

Abstract == INSTANCE Fifo WITH q <- Contents

\* What a walk from the head finds behaves as a first-in first-out queue: each
\* sched_add appends its argument, each sched_pick_next takes out the oldest and
\* returns it, each sched_remove takes out exactly its argument (sched.c:13-16).
\* call keeps the three apart, so that a step is matched by its own operation.
ImplementsFifo == Abstract!Spec

\* "Remove a process from the run queue.  Used when a process blocks or
\* terminates." (sched.h:98-100): whoever is removed, the processes that were
\* added and not taken stay reachable.
NobodyLost == \A p \in Members(order) : p \in Members(Contents)
=============================================================================
