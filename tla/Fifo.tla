-------------------------------- MODULE Fifo --------------------------------
(***************************************************************************)
(* What the scheduler's run queue promises (sched.c:13-16): add at the     *)
(* tail, take from the head, remove from anywhere, no process twice.  call *)
(* is the last operation and the process it was asked for or returned:     *)
(* without it taking any process out would pass as a removal.              *)
(***************************************************************************)
EXTENDS Sequences

CONSTANT Process

VARIABLES q, call

Members == {q[i] : i \in DOMAIN q}

Init == q = <<>> /\ call = <<>>

Add(p) == p \notin Members /\ q' = Append(q, p) /\ call' = <<"add", p>>

Pick == q # <<>> /\ q' = Tail(q) /\ call' = <<"pick", Head(q)>>

Remove(p) ==
    /\ p \in Members
    /\ q' = SelectSeq(q, LAMBDA r : r # p)
    /\ call' = <<"remove", p>>

Next == (\E p \in Process : Add(p) \/ Remove(p)) \/ Pick

Spec == Init /\ [][Next]_<<q, call>>
=============================================================================
