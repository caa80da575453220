------------------------------- MODULE MCVmm -------------------------------
(***************************************************************************)
(* Instances of Vmm that differ in the page frames that are free at boot.  *)
(***************************************************************************)
EXTENDS Vmm

\* Only frames below the addresses of the heap.
LowPool == 4 .. HEAP_REGION * N - 1

\* Too few for a process.
SmallPool == 4 .. 10

\* All of memory.
WholePool == 4 .. N * N - 1
=============================================================================
