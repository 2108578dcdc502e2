----------------------------- MODULE SnapshotDiff -----------------------------
(***************************************************************************)
(* diffDaemonSnapshots (cmd/daemon.go): what changed between two snapshots  *)
(* of the files below the roots. The code ranges over Go maps, so that each *)
(* of its loops takes the paths in an order of its own, and a removed file  *)
(* is paired with any of the created files that could be its new name.      *)
(***************************************************************************)
EXTENDS Naturals, FiniteSets

CONSTANTS
    Paths,
    States,     \* sizes with modification times: [size, modified]
    Gone,       \* the state of a path without a file
    NoPath,     \* Event.OldPath of anything but a rename
    RootOf      \* RootOf[p]: the configured root that p is found under

ASSUME DiffAssumption ==
    /\ IsFiniteSet(Paths)
    /\ Gone \notin States
    /\ NoPath \notin Paths

VARIABLES
    before,     \* the snapshots, as functions on Paths
    after,
    phase,      \* the loop that is running
    left,       \* paths that this loop has not taken
    deleted,    \* the maps of the function
    created,
    changes     \* the changes found; their order tells nothing

vars == <<before, after, phase, left, deleted, created, changes>>

Snapshots == [Paths -> States \union {Gone}]
Files(snapshot) == {p \in Paths : snapshot[p] # Gone}
Change(kind, path, old) == [kind |-> kind, path |-> path, old |-> old]

Init ==
    /\ before \in Snapshots
    /\ after \in Snapshots
    /\ phase = "before"
    /\ left = Files(before)
    /\ deleted = {}
    /\ created = {}
    /\ changes = {}

\* A file of the old snapshot: gone, of another size, or modified.
CompareFile(p) ==
    /\ phase = "before"
    /\ p \in left
    /\ left' = left \ {p}
    /\ deleted' = IF after[p] = Gone THEN deleted \union {p} ELSE deleted
    /\ changes' =
         IF after[p] = Gone \/ after[p] = before[p] THEN changes
         ELSE LET kind == IF after[p].size # before[p].size THEN "SIZE_CHANGE" ELSE "MODIFY"
              IN  changes \union {Change(kind, p, NoPath)}
    /\ UNCHANGED <<before, after, phase, created>>

CollectCreated ==
    /\ phase = "before"
    /\ left = {}
    /\ created' = Files(after) \ Files(before)
    /\ left' = deleted
    /\ phase' = "deleted"
    /\ UNCHANGED <<before, after, deleted, changes>>

\* Mutant: a file may be renamed into another root.
RenameAnywhere(p, q) == before[p] = after[q]

\* Mutant: the time of modification is not compared.
RenameBySize(p, q) == before[p].size = after[q].size /\ RootOf[p] = RootOf[q]

\* The states are equal and the roots are.
Renameable(p, q) == before[p] = after[q] /\ RootOf[p] = RootOf[q]

\* Mutant: the created file stays, and is reported again.
PairKeepingCreated(p) ==
    /\ phase = "deleted"
    /\ p \in left
    /\ left' = left \ {p}
    /\ \/ \E q \in created :
            /\ Renameable(p, q)
            /\ changes' = changes \union {Change("RENAME", q, p)}
       \/ /\ \A q \in created : ~Renameable(p, q)
          /\ changes' = changes \union {Change("DELETE", p, NoPath)}
    /\ UNCHANGED <<before, after, phase, deleted, created>>

PairDeleted(p) ==
    /\ phase = "deleted"
    /\ p \in left
    /\ left' = left \ {p}
    /\ \/ \E q \in created :
            /\ Renameable(p, q)
            /\ created' = created \ {q}
            /\ changes' = changes \union {Change("RENAME", q, p)}
       \/ /\ \A q \in created : ~Renameable(p, q)
          /\ changes' = changes \union {Change("DELETE", p, NoPath)}
          /\ UNCHANGED created
    /\ UNCHANGED <<before, after, phase, deleted>>

ReportCreated ==
    /\ phase = "deleted"
    /\ left = {}
    /\ changes' = changes \union {Change("CREATE", q, NoPath) : q \in created}
    /\ phase' = "done"
    /\ UNCHANGED <<before, after, left, deleted, created>>

Done == phase = "done" /\ UNCHANGED vars

Next ==
    \/ \E p \in Paths : CompareFile(p) \/ PairDeleted(p)
    \/ CollectCreated \/ ReportCreated
    \/ Done

Spec == Init /\ [][Next]_vars

------------------------------------------------------------------------------
(* Properties.                                                              *)

TypeOK ==
    /\ before \in Snapshots /\ after \in Snapshots
    /\ phase \in {"before", "deleted", "done"}
    /\ left \subseteq Paths /\ deleted \subseteq Paths /\ created \subseteq Paths
    /\ changes \subseteq [kind : {"SIZE_CHANGE", "MODIFY", "RENAME", "DELETE", "CREATE"},
                          path : Paths, old : Paths \union {NoPath}]

OfKind(kind) == {c \in changes : c.kind = kind}
Differing == {p \in Paths : before[p] # after[p]}

\* The root that the monitor scans for a change: that of the old path.
Root(c) == RootOf[IF c.kind = "RENAME" THEN c.old ELSE c.path]

\* The roots to scan are the roots in which anything differs, whatever was paired
\* with what.
RootsAreRight ==
    phase = "done" => {Root(c) : c \in changes} = {RootOf[p] : p \in Differing}

\* The events tell the whole difference, each part of it once: replayed on the
\* old snapshot's paths they give the new one's.
EventsAccount ==
    phase = "done" =>
        LET gone == {c.path : c \in OfKind("DELETE")} \union {c.old : c \in OfKind("RENAME")}
            new  == {c.path : c \in OfKind("CREATE") \union OfKind("RENAME")}
        IN  /\ gone = Files(before) \ Files(after)
            /\ new = Files(after) \ Files(before)
            /\ {c.path : c \in OfKind("SIZE_CHANGE") \union OfKind("MODIFY")} =
                 Differing \ (gone \union new)
            /\ \A c, d \in changes : c # d => {c.path, c.old} \cap {d.path, d.old} \subseteq {NoPath}

\* The order of the maps does not decide how many renames are found: as many as
\* there are removed or created files of equal state in a root, whichever are fewer.
Matches(p) ==
    LET alike(q, snapshot, other) ==
            snapshot[q] = before[p] /\ RootOf[q] = RootOf[p] /\ other[q] = Gone
        olds == Cardinality({q \in Paths : alike(q, before, after)})
        news == Cardinality({q \in Paths : alike(q, after, before)})
    IN  IF olds < news THEN olds ELSE news

RenamesDoNotDepend ==
    phase = "done" =>
        \A p \in Files(before) \ Files(after) :
            Cardinality({c \in OfKind("RENAME") :
                           RootOf[c.old] = RootOf[p] /\ before[c.old] = before[p]}) = Matches(p)
==============================================================================
