------------------------------ MODULE MCRamFs ------------------------------
(***************************************************************************)
(* A small instance of RamFs: three inodes, three data blocks, files of at *)
(* most two blocks.  Names are interchangeable.                            *)
(***************************************************************************)
EXTENDS RamFs, TLC

NameSymmetry == Permutations(Name)

\* One byte, and more than a block of them.
MCData == {<<1>>, <<2, 1, 2>>}
=============================================================================
