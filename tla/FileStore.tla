----------------------------- MODULE FileStore -----------------------------
(***************************************************************************)
(* What a file system of named files and directories promises.  tree says  *)
(* which object a name in a directory stands for, bytes what each file     *)
(* holds.  A new file is empty; a write stores some prefix of its data at  *)
(* the offset and fills a gap before it with zeros; nothing else changes.  *)
(***************************************************************************)
EXTENDS Naturals, Sequences

CONSTANTS
    Object, Root, Name,
    Data,             \* what callers write
    Extent            \* the offsets they write at

VARIABLES tree, bytes

Taken == {Root} \cup {tree[dn] : dn \in DOMAIN tree}

Init == tree = [dn \in {} |-> Root] /\ bytes = [f \in {} |-> <<>>]

Create(d, n, o) ==
    /\ <<d, n>> \notin DOMAIN tree
    /\ o \notin Taken
    /\ tree' = [dn \in DOMAIN tree \cup {<<d, n>>} |->
                  IF dn = <<d, n>> THEN o ELSE tree[dn]]
    /\ \/ bytes' = bytes
       \/ bytes' = [f \in DOMAIN bytes \cup {o} |-> IF f = o THEN <<>> ELSE bytes[f]]

Remove(d, n) ==
    /\ <<d, n>> \in DOMAIN tree
    /\ tree' = [dn \in DOMAIN tree \ {<<d, n>>} |-> tree[dn]]
    /\ bytes' = [f \in DOMAIN bytes \ {tree[d, n]} |-> bytes[f]]

\* s with the data written at offset at.
Overlay(s, at, data) ==
    [k \in 1 .. (IF Len(s) > at + Len(data) THEN Len(s) ELSE at + Len(data)) |->
        IF at < k /\ k <= at + Len(data) THEN data[k - at]
        ELSE IF k <= Len(s) THEN s[k]
        ELSE 0]

\* What f may hold after data was written at offset at: some prefix arrived.
Written(f, at, data) == {Overlay(bytes[f], at, SubSeq(data, 1, k)) : k \in 0 .. Len(data)}

Write(f) ==
    /\ UNCHANGED tree
    /\ bytes' \in {[bytes EXCEPT ![f] = s] : s \in UNION {Written(f, at, data) :
                                                          at \in Extent, data \in Data}}

Truncate(f) ==
    /\ UNCHANGED tree
    /\ bytes' = [bytes EXCEPT ![f] = <<>>]

Next ==
    \/ \E d, o \in Object, n \in Name : Create(d, n, o)
    \/ \E d \in Object, n \in Name : Remove(d, n)
    \/ \E f \in DOMAIN bytes : Write(f) \/ Truncate(f)

Spec == Init /\ [][Next]_<<tree, bytes>>
=============================================================================
