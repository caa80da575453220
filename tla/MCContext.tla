------------------------------ MODULE MCContext ------------------------------
(***************************************************************************)
(* Context for TLC: user processes are interchangeable.                    *)
(***************************************************************************)
EXTENDS Context, TLC

Symmetry == Permutations(UserProc)
===============================================================================
