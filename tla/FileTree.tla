------------------------------- MODULE FileTree -------------------------------
(***************************************************************************)
(* The disk as the detectors read it: what os.Stat, os.Lstat, os.ReadDir,   *)
(* os.ReadFile and `git ls-files` answer. It is not part of the repository, *)
(* and stays as it is during a scan.                                        *)
(*                                                                          *)
(* A path is the sequence of its names. A link leads to a path without      *)
(* links. A call fails where nothing is, at a file that cannot be read and  *)
(* at a directory that cannot be listed; a directory that cannot be listed  *)
(* can still be entered.                                                    *)
(***************************************************************************)
EXTENDS SequencesExt

CONSTANTS
    Names,     \* the names of files and directories, in the order of a listing
    Extension, \* Extension[n]: the ending of n, "" without one
    Hidden     \* the names that begin with a dot

ASSUME FileTreeAssumption ==
    /\ Names \in Seq(STRING) /\ IsInjective(Names)
    /\ Extension \in [ToSet(Names) -> STRING]
    /\ Hidden \subseteq ToSet(Names)

VARIABLE
    disk \* dirs; files[p]: what p says, with the patterns of a workspace and the outputs
         \* and needs of a build file; links[p]: where p leads; tracked: the files in some
         \* Git index; git: whether git runs; locked: what cannot be read or listed;
         \* installed: the tools that system detectors report

Paths == Seq(ToSet(Names))

Child(p, n)  == Append(p, n)
Parent(p)    == Front(p)
Above(p)     == {SubSeq(p, 1, n) : n \in 0 .. Len(p)} \* p too
Within(p, q) == IsPrefix(q, p)

\* A path relative to dir that first leaves it through "..".
Resolve(dir, relative) ==
    SubSeq(dir, 1, IF relative.up > Len(dir) THEN 0 ELSE Len(dir) - relative.up) \o relative.down

\* The deepest directory among p and those above it that Test holds of: a set with it.
Nearest(p, Test(_)) ==
    LET all == {q \in Above(p) : Test(q)}
    IN  {q \in all : \A other \in all : Len(other) <= Len(q)}

\* The elements of s that Test holds of: SelectSeq, in a form that proofs can unfold.
Those(s, Test(_)) == FlattenSeq([i \in DOMAIN s |-> IF Test(s[i]) THEN <<s[i]>> ELSE <<>>])

------------------------------------------------------------------------------

\* What a build file declares: directories for its output, and tools.
Outputs == [name : STRING, path : [up : Nat, down : Paths], conditional : BOOLEAN]
Needs   == [type : {"windows-sdk", "dotnet-sdk"}, version : Seq(Nat), name : STRING, conditional : BOOLEAN]

\* What is on a disk is in directories of that disk, and below no link or file.
IsTree(d) ==
    LET held == d.dirs \union DOMAIN d.files \union DOMAIN d.links
    IN  /\ held \subseteq Paths
        /\ \A p \in held : \A q \in Above(p) \ {<<>>, p} : q \in d.dirs
        /\ d.dirs \intersect DOMAIN d.links = {} /\ <<>> \notin DOMAIN d.links
        /\ \A p \in DOMAIN d.links : d.links[p] \in Paths
        /\ \A p \in DOMAIN d.files :
              /\ \A pattern \in d.files[p].patterns : pattern.dir.up \in Nat /\ pattern.dir.down \in Paths
              /\ d.files[p].outputs \subseteq Outputs /\ d.files[p].needs \subseteq Needs

------------------------------------------------------------------------------

Links(p) == {q \in Above(p) : q \in DOMAIN disk.links}

Real(p) ==
    IF Links(p) = {} THEN p
    ELSE LET q == CHOOSE q \in Links(p) : TRUE
         IN  disk.links[q] \o SubSeq(p, Len(q) + 1, Len(p))

IsDir(p)   == Real(p) \in disk.dirs
IsFile(p)  == Real(p) \in DOMAIN disk.files
Exists(p)  == IsDir(p) \/ IsFile(p)
IsLink(p)  == p # <<>> /\ Child(Real(Parent(p)), Last(p)) \in DOMAIN disk.links
CanRead(p) == IsFile(p) /\ Real(p) \notin disk.locked
CanList(p) == IsDir(p) /\ Real(p) \notin disk.locked

Says(p) == disk.files[Real(p)]

\* Lstat of a path that a listing has named.
Kind(p) == IF IsLink(p) THEN "link" ELSE IF IsDir(p) THEN "dir" ELSE "file"

Entries(dir) ==
    LET held == disk.dirs \union DOMAIN disk.files \union DOMAIN disk.links
        at   == Real(dir)
    IN  {n \in ToSet(Names) : Child(at, n) \in held}

\* By name, as os.ReadDir sorts.
Listing(dir) ==
    LET entries == Entries(dir)
    IN  Those(Names, LAMBDA n : n \in entries)

------------------------------------------------------------------------------
(* Git.                                                                     *)

FindRepoRoot(p) == Nearest(p, LAMBDA q : Exists(Child(q, ".git")))

\* The index of a repository names the files below it that no repository within
\* it tracks. Git goes to the repository, through a link if it must; from there on
\* the path is taken as it is written.
HasTrackedFiles(repository, p) ==
    LET home == Real(repository)
        path == home \o SubSeq(p, Len(repository) + 1, Len(p))
    IN  \E file \in disk.tracked : Within(file, path) /\ home \in FindRepoRoot(Parent(file))

\* No repository above, or git runs and names no file.
TrackedAbsent(repositories, p) ==
    \A repository \in repositories : disk.git /\ ~HasTrackedFiles(repository, p)
==============================================================================
