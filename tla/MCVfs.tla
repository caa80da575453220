------------------------------- MODULE MCVfs -------------------------------
(***************************************************************************)
(* A small instance of Vfs: the root with one file, a directory with       *)
(* another, two processes with two descriptors each beyond the console,    *)
(* two open files in all.                                                  *)
(***************************************************************************)
EXTENDS Vfs, TLC

ProcessSymmetry == Permutations(Process)

MCParent == [path \in File |-> IF path = "f" THEN "/" ELSE "/tmp"]

\* Reading; writing with creation; appending to an emptied file.
MCFlags ==
    {{"O_RDONLY"}, {"O_WRONLY", "O_CREAT"}, {"O_RDONLY", "O_WRONLY", "O_CREAT", "O_TRUNC", "O_APPEND"}}

\* Back by one, and past the end.
MCOffsets == {-1, 2}
=============================================================================
