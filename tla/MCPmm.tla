------------------------------- MODULE MCPmm -------------------------------
(***************************************************************************)
(* Memory maps for the physical memory manager.  Pages are 4 bytes long so *)
(* that entries start and end inside pages.                                *)
(***************************************************************************)
EXTENDS Pmm, Sequences

Entry(b, l, u) == [base |-> b, length |-> l, usable |-> u]

\* A hole at page 4 and unaligned edges; an entry with no whole page; memory
\* past the last page the bitmap covers; nothing usable but system pages.
Maps == {
    <<Entry(0, 15, TRUE), Entry(15, 5, FALSE), Entry(20, 12, TRUE)>>,
    <<Entry(0, 27, TRUE), Entry(27, 3, TRUE), Entry(30, 40, TRUE)>>,
    <<Entry(0, 6, TRUE), Entry(6, 60, FALSE)>>}
=============================================================================
