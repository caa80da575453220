---------------------------- MODULE BoundedFifo ----------------------------
(***************************************************************************)
(* What the keyboard buffer promises: characters come out in the order     *)
(* they went in, each once; one that finds Capacity others waiting is      *)
(* dropped.                                                                *)
(***************************************************************************)
EXTENDS Naturals, Sequences

CONSTANTS Char, Capacity

VARIABLES q, out

Init == q = <<>> /\ out = <<>>

Put(c) == Len(q) < Capacity /\ q' = Append(q, c) /\ UNCHANGED out

Get == q # <<>> /\ q' = Tail(q) /\ out' = Append(out, Head(q))

Next == Get \/ \E c \in Char : Put(c)

Spec == Init /\ [][Next]_<<q, out>>
=============================================================================
