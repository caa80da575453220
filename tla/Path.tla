-------------------------------- MODULE Path --------------------------------
(***************************************************************************)
(* Path handling (kernel/fs/path.c): path_normalize, one iteration of its  *)
(* loop per step, and the dirname and basename that vfs_lookup_parent      *)
(* takes of the result.                                                    *)
(*                                                                         *)
(* A path is a sequence of slashes and components, a component is an atom  *)
(* with a length.  A system call normalises a path against the current     *)
(* directory of the process, and the VFS normalises the result again       *)
(* against "/": the second pass.                                           *)
(***************************************************************************)
EXTENDS Integers, Sequences, SequencesExt

CONSTANTS
    Name,              \* components other than "." and ".."
    Chars,             \* the length of each
    Paths,             \* paths that callers pass
    Directories,       \* current directories, in normal form
    VFS_MAX_PATH

Slash == "/"
Root == <<Slash>>
Fail == <<"fail">>
NoResult == <<"none">>

ASSUME PathAssumption ==
    /\ Chars \in [Name -> Nat \ {0}]
    /\ VFS_MAX_PATH \in Nat /\ VFS_MAX_PATH > 1
    /\ Name \cap {Slash, ".", ".."} = {}

VARIABLES
    path, cwd,         \* the arguments
    rest,              \* what of the path is still to be read
    work,
    buf,               \* the result, once there
    first              \* in the second pass, the result of the first

vars == <<path, cwd, rest, work, buf, first>>

Width(t) == IF t \in Name THEN Chars[t] ELSE IF t = ".." THEN 2 ELSE 1

strlen(s) == FoldLeft(LAMBDA n, t : n + Width(t), 0, s)

IsSlash(t) == t = Slash
IsComponent(t) == t # Slash

\* s without the slashes it starts with, and without those it ends with.
SkipSlashes(s) ==
    IF \E k \in 1 .. Len(s) : IsComponent(s[k])
    THEN SubSeq(s, CHOOSE k \in 1 .. Len(s) : IsComponent(s[k]) /\ \A m \in 1 .. k - 1 : IsSlash(s[m]),
                Len(s))
    ELSE <<>>

EndsInSlash(s) == s # <<>> /\ IsSlash(Last(s))

WithSlash(s) == IF EndsInSlash(s) THEN s ELSE Append(s, Slash)

DropTrailing_Never(s) == s

DropTrailing(s) ==
    SubSeq(s, 1, CHOOSE n \in 1 .. Len(s) :
                    /\ n = 1 \/ ~IsSlash(s[n])
                    /\ \A m \in n + 1 .. Len(s) : IsSlash(s[m]))

\* Where the work starts, and whether it fits.
Absolute(p) == p # <<>> /\ IsSlash(Head(p))

Base(p, dir) == IF Absolute(p) THEN Root ELSE WithSlash(dir)

Fits_OneLess(s) == strlen(s) < VFS_MAX_PATH - 1

Fits(s) == strlen(s) < VFS_MAX_PATH

Start(p, dir) ==
    /\ path' = p
    /\ cwd' = dir
    /\ rest' = p
    /\ work' = Base(p, dir)
    /\ buf' = IF Fits(Base(p, dir)) THEN NoResult ELSE Fail

Init ==
    /\ path \in Paths
    /\ cwd \in Directories
    /\ rest = path
    /\ work = Base(path, cwd)
    /\ buf = IF Fits(Base(path, cwd)) THEN NoResult ELSE Fail
    /\ first = NoResult

\* ".." takes the last component away, and the slash after it.
Up_LeavesSlash(w) == IF Len(w) > 1 /\ ~IsSlash(Last(w)) THEN Front(w) ELSE w

Up(w) ==
    LET bare == IF Len(w) > 1 /\ EndsInSlash(w) THEN Front(w) ELSE w
    IN  IF Len(bare) > 1 /\ ~IsSlash(Last(bare)) THEN Front(bare) ELSE bare

Component ==
    LET r == SkipSlashes(rest)
        more == Append(WithSlash(work), Head(r))
    IN  /\ buf = NoResult
        /\ r # <<>>
        /\ rest' = Tail(r)
        /\ \/ /\ Head(r) = "."
              /\ UNCHANGED <<work, buf>>
           \/ /\ Head(r) = ".."
              /\ work' = Up(work)
              /\ UNCHANGED buf
           \/ /\ Head(r) \in Name
              /\ \/ Fits(more) /\ work' = more /\ UNCHANGED buf
                 \/ ~Fits(more) /\ buf' = Fail /\ UNCHANGED work
        /\ UNCHANGED <<path, cwd, first>>

Finish ==
    /\ buf = NoResult
    /\ SkipSlashes(rest) = <<>>
    /\ rest' = <<>>
    /\ work' = DropTrailing(work)
    /\ buf' = DropTrailing(work)
    /\ UNCHANGED <<path, cwd, first>>

\* vfs_lookup normalises what the system call hands it.
Again ==
    /\ buf \notin {NoResult, Fail}
    /\ first = NoResult
    /\ first' = buf
    /\ Start(buf, Root)

Next == Component \/ Finish \/ Again

Spec == Init /\ [][Next]_vars

(***************************************************************************)
(* Splitting a path in normal form, the only kind vfs_lookup_parent        *)
(* splits, and joining it.                                                 *)
(***************************************************************************)
LastSlash(s) == CHOOSE k \in 1 .. Len(s) : IsSlash(s[k]) /\ \A m \in k + 1 .. Len(s) : ~IsSlash(s[m])

path_basename(s) == IF s = Root THEN Root ELSE SubSeq(s, LastSlash(s) + 1, Len(s))

path_dirname_KeepsSlash(s) == SubSeq(s, 1, LastSlash(s))

path_dirname(s) == IF LastSlash(s) = 1 THEN Root ELSE SubSeq(s, 1, LastSlash(s) - 1)

path_join(dir, name) ==
    IF dir # <<>> /\ ~EndsInSlash(dir) /\ ~IsSlash(Head(name))
    THEN dir \o <<Slash>> \o name
    ELSE dir \o name

(***************************************************************************)
(* Properties.                                                             *)
(***************************************************************************)
Components(s) == SelectSeq(s, IsComponent)

\* What the components c stand for, seen from the directory base.
Resolve(base, c) ==
    FoldLeft(LAMBDA at, t : IF t = "." THEN at
                            ELSE IF t # ".." THEN Append(at, t)
                            ELSE IF at = <<>> THEN at ELSE Front(at),
             base, c)

Origin == IF Absolute(path) THEN <<>> ELSE Components(cwd)

Done == buf \notin {NoResult, Fail}

\* The result in normal form: a slash before each name and nowhere else.
Normal(s) ==
    \/ s = Root
    \/ /\ Len(s) % 2 = 0
       /\ \A k \in 1 .. Len(s) : IF k % 2 = 1 THEN s[k] = Slash ELSE s[k] \in Name

\* The variables hold what path_normalize's may.
TypeOK ==
    /\ path \in Seq(Name \cup {Slash, ".", ".."}) /\ cwd \in Directories
    /\ rest \in Seq(Name \cup {Slash, ".", ".."})
    /\ Head(work) = Slash /\ (buf # Fail => Fits(work))
    /\ Done => Normal(buf)

\* Each iteration of path_normalize's loop keeps what the path stands for: the
\* components of work, followed by those still to be read, resolve to what the
\* whole path does.  In the end the result has the components of the reference.
MeaningKept ==
    buf # Fail =>
        Resolve(Components(work), Components(rest)) = Resolve(Origin, Components(path))

\* A path is refused only if the directory it starts from, or what some part of
\* it stands for, is too long: never because of slashes, dots or names that go.
RefusedOnlyIfLong ==
    buf = Fail =>
        \/ ~Fits(Base(path, cwd))
        \/ \E k \in 0 .. Len(Components(path)) :
              LET c == Resolve(Origin, SubSeq(Components(path), 1, k))
              IN  strlen(c) + Len(c) >= VFS_MAX_PATH

\* The second pass changes nothing: the file that vfs_lookup looks for is the one
\* sys_open named, and it cannot fail where the first pass did not.
SecondPassAgrees == first # NoResult => buf \in {NoResult, first}

\* The parent and the name that vfs_lookup_parent splits a path into are those of
\* the path: the name is one component and both together give the path back.
SplitAgrees ==
    Done /\ buf # Root =>
        /\ Normal(path_dirname(buf))
        /\ path_basename(buf) = <<Last(buf)>>
        /\ path_join(path_dirname(buf), path_basename(buf)) = buf
=============================================================================
