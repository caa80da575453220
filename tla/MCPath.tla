------------------------------- MODULE MCPath -------------------------------
(***************************************************************************)
(* All paths of up to six slashes and components, from three directories.  *)
(***************************************************************************)
EXTENDS Path

MCChars == [n \in Name |-> IF n = "a" THEN 1 ELSE 2]

\* Two components need a slash between them.
MCPaths ==
    {s \in BoundedSeq(Name \cup {Slash, ".", ".."}, 6) :
        \A k \in 1 .. Len(s) - 1 : IsSlash(s[k]) \/ IsSlash(s[k + 1])}

MCDirectories == {Root, <<Slash, "a">>, <<Slash, "a", Slash, "bb">>}
=============================================================================
