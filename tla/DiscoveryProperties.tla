-------------------------- MODULE DiscoveryProperties --------------------------
(***************************************************************************)
(* What the result of a scan promises, whatever the order in which the      *)
(* workers list the directories.                                            *)
(***************************************************************************)
EXTENDS Discovery

Ended == pc = "done"

------------------------------------------------------------------------------
(* The serial walk: every directory that a root leads to, those above       *)
(* before those below and brothers by name.                                 *)

Position(name) == CHOOSE i \in DOMAIN Names : Names[i] = name

Before(a, b) ==
    \/ Len(a) < Len(b)
    \/ /\ Len(a) = Len(b)
       /\ \E i \in DOMAIN a : /\ Position(a[i]) < Position(b[i])
                              /\ \A j \in 1 .. i - 1 : a[j] = b[j]

\* Where a walk from root comes to if it follows no link: the paths that root is
\* continued by are those of the directory that it leads to.
Reached(root) == {root \o Below(dir, Real(root)) : dir \in {d \in disk.dirs : Within(d, Real(root))}}

Walked ==
    UNION {{dir \in Reached(root) :
                /\ \A q \in Above(dir) : IsStrictPrefix(root, q) => ~Excluded(q) /\ Kind(q) = "dir"
                /\ \A q \in Above(Parent(dir)) : Within(q, root) => CanList(q)}
             : root \in {r \in options.roots : Traversable(r)}}

Listed == {dir \in Walked : CanList(dir)}

Visited == UNION {ToSet(Visits(dir)) : dir \in Listed}

\* What is observed in a directory.
Observed(dir) == FlattenSeq([i \in DOMAIN Visits(dir) |-> Observe(Visits(dir)[i])])

\* The directories, each at the place that its number of predecessors says.
SerialOrder ==
    LET place(dir) == Cardinality({other \in Listed : other = dir \/ Before(other, dir)})
    IN  [n \in 1 .. Cardinality(Listed) |-> CHOOSE dir \in Listed : place(dir) = n]

SerialWalk == FlattenSeq([n \in DOMAIN SerialOrder |-> Observed(SerialOrder[n])])

------------------------------------------------------------------------------
(* Scans whose result is one: no root below another, no workspace with      *)
(* members outside its root, no two projects with an environment of one     *)
(* name.                                                                    *)

NodeWorkspaces == {w \in All(LAMBDA c : c.workspaces, found) : w.type = "node"}

RootsAreApart == \A a, b \in options.roots : Within(a, b) => a = b

MembersAreInside == \A w \in NodeWorkspaces : \A m \in w.members : Within(Parent(m), w.root)

EnvNamesDiffer ==
    LET envs == {r \in OutputReports(found) : r.type = "conda-env"}
    IN  \A a, b \in envs : SameName(EnvName(a), EnvName(b)) => a.path = b.path

Settled == RootsAreApart /\ MembersAreInside /\ EnvNamesDiffer

\* The four workers and the queue of directories decide the order of the
\* candidates, and what the orchestrator keeps depends on it: of two reports the
\* first (dedupeProjectResources), of two observations the last. The result of a
\* settled scan is nevertheless that of the serial walk.
VisitOrderIsFree == Ended /\ Settled => result = Analysis(SerialWalk)

------------------------------------------------------------------------------
(* What the filters of the orchestrator may drop.                           *)

OfType(projects, type) == {p \in projects : p.type = type}

\* Inside a kept workspace that does not list it.
Unlisted(p) ==
    \E w \in result.workspaces : /\ w.type = "node" /\ IsStrictPrefix(w.root, p.root)
                                 /\ Manifest(p.root) \notin w.members

\* No marker that the walk comes past is lost between the detectors and the
\* result (filterFallbackGitProjects, filterNodeProjectsByWorkspace,
\* topLevelWorkspaceCandidates): a Node project is left out only where a workspace
\* around it does not list it, a repository only where a project at its root
\* stands for it or such a Node project did; and every member of a kept workspace is
\* there, even below an excluded directory, unless it is outside that workspace and
\* inside another that does not list it.
MarkersAreAnswered ==
    Ended =>
        /\ \A entry \in Visited : \A p \in All(LAMBDA c : c.projects, Observe(entry)) \ result.projects :
              \/ p.type = "node" /\ Unlisted(p)
              \/ /\ p.type = "git"
                 /\ \/ \E other \in result.projects : other.root = p.root
                    \/ NodeCanDetect(p.root) /\ Unlisted(p)
        /\ \A w \in NodeWorkspaces : \A m \in w.members :
              /\ \E kept \in result.workspaces : kept.type = "node" /\ kept.root = w.root
              /\ NodeCanDetect(Parent(m)) /\ Reads(m) /\ CanList(w.root)
              => \/ NodeProjectAt(Parent(m)) \in result.projects
                 \/ ~Within(Parent(m), w.root) /\ Unlisted(NodeProjectAt(Parent(m)))

------------------------------------------------------------------------------
(* The evidence that stands behind a verdict.                               *)

LockedIn(dir) == \E name \in NodeLockfiles : Exists(Child(dir, name))

NodeModules(root) == {row \in result.rows : row.type = "node-modules" /\ row.path = Child(root, "node_modules")}

\* A member is installed with the lockfile of its workspace, in whichever order
\* member and workspace are met (DetectMemberArtifacts, dedupeProjectResources):
\* its node_modules can be made again if and only if one of the two is locked.
MembersShareTheLockfile ==
    Ended /\ Settled =>
        \A w \in {w \in result.workspaces : w.type = "node"} : \A m \in w.members :
            /\ \A row \in NodeModules(Parent(m)) : row.regenerable <=> LockedIn(Parent(m)) \/ LockedIn(w.root)
            /\ CanList(Parent(m)) /\ IsDir(Child(Parent(m), "node_modules"))
                  => NodeModules(Parent(m)) # {}

\* What may be deleted without a question is no link and, where git answers, holds
\* no file that the repository around it tracks, whoever reported it
\* (EnrichCleanupEvidence asks again from the directory itself).
SafeIsUntracked ==
    Ended =>
        \A row \in {r \in result.rows : r.risk = "SAFE"} :
            /\ ~IsLink(row.path)
            /\ disk.git => \A repository \in FindRepoRoot(row.path) : ~HasTrackedFiles(repository, row.path)

\* A declaration on the disk from which project p, maybe a member of one of the
\* workspaces, makes the directory of row again.
CanBeMadeAgain(row, p, workspaces) ==
    LET has(name) == Exists(Child(p.root, name))
    IN  CASE row.type = "node-modules" ->
                \/ LockedIn(p.root)
                \/ \E w \in workspaces : p.manifest \in w.members /\ LockedIn(w.root)
          [] row.type = "python-venv" ->
                \/ \E name \in PythonLockfiles : has(name)
                \/ has("requirements.txt") /\ Says(Child(p.root, "requirements.txt")).pinned
          [] row.type = "cocoapods-pods" -> has("Podfile") /\ has("Podfile.lock")
          [] row.type = "build-output" ->
                CASE p.type = "cargo"   -> Last(row.path) = "target" /\ has("Cargo.lock")
                  [] p.type = "swiftpm" -> Last(row.path) = ".build" /\ has("Package.resolved")
                  [] p.type = "python"  -> Last(row.path) \in FixedLocationNames \/ Extension[Last(row.path)] = ".egg-info"
                  [] p.type \in {"dotnet", "cpp"} ->
                        \E o \in Declared(p.manifest).outputs : Resolve(p.root, o.path) = row.path /\ ~o.conditional
                  [] p.type \in {"maven", "gradle", "android"} -> Last(row.path) \in {"target", "build"}
                  [] OTHER -> FALSE
          [] OTHER -> FALSE

\* p owns a resource at the path of row: the one that was reported there first,
\* which may be of another type.
Owns(p, row) ==
    \E at \in result.rows :
        /\ at.path = row.path
        /\ [project |-> p.manifest, relation |-> "OWNS", type |-> at.type, version |-> at.version,
            path |-> at.path, kind |-> "OBSERVED"] \in result.edges

\* A safe directory belongs to a project of the result whose root it is below, or is
\* (an OutputPath of "."), and that says how it is made again; where git does not run, to one outside every repository.
\* Rows keep what the last of several owners reported (last write of Observe),
\* and the evidence of the first pass where git cannot be asked.
SafeIsVouchedFor ==
    Ended =>
        \A row \in {r \in result.rows : r.risk = "SAFE"} :
            \E p \in result.projects :
                /\ Within(row.path, p.root)
                /\ Owns(p, row)
                /\ disk.git \/ FindRepoRoot(p.root) = {}
                /\ CanBeMadeAgain(row, p, NodeWorkspaces)

------------------------------------------------------------------------------
(* Tools.                                                                   *)

\* Version a is newer than b: a number that is missing counts less than 0.
Newer(a, b) ==
    LET part(version, i) == IF i \in DOMAIN version THEN version[i] + 1 ELSE 0
    IN  \E i \in DOMAIN a : part(a, i) > part(b, i) /\ \A j \in 1 .. i - 1 : part(a, j) = part(b, j)

\* The installed tools of the declared name, or of the declared version or series.
Suited(need) ==
    LET named(tool) == IF need.type = "conda-env" THEN SameName(EnvNameFromPath(tool.path), need.name)
                       ELSE HasVersionPrefix(tool.version, need.version)
        suited == {tool \in ToSet(disk.installed) : tool.type = need.type /\ named(tool)}
        exact  == {tool \in suited : need.type = "windows-sdk" /\ tool.version = need.version}
    IN  IF exact # {} THEN exact ELSE suited

Blocked(tool) == \E row \in result.rows : Id(row) = Id(tool) /\ row.risk = "BLOCKED"

\* The tool that a project needs cannot be deleted by cleaning up: an environment of
\* the declared name, the newest installed SDK of the declared series (a Windows SDK
\* of exactly the declared version where there is one) and the active Xcode are
\* blocked by the projects of the result, whichever file declared the need
\* (MatchDotNetSDK, MatchWindowsSDK, the analyzers, Reclassify).
NeededToolsAreBlocked ==
    Ended =>
        /\ \A need \in All(LAMBDA c : c.needs, found) :
              /\ Suited(need) # {} /\ ~need.conditional
              /\ \E p \in result.projects : p.manifest = need.owner
              => \E tool \in Suited(need) :
                    /\ Blocked(tool)
                    /\ need.type = "conda-env"
                       \/ \A other \in Suited(need) : ~Newer(other.version, tool.version)
        /\ OfType(result.projects, "xcode") # {} =>
              \A tool \in ToSet(disk.installed) : tool.type = "xcode-install" => Blocked(tool)
==============================================================================
