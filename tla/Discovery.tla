------------------------------- MODULE Discovery -------------------------------
(***************************************************************************)
(* What a scan finds: AnalysisOrchestrator.Run from the walk to the rows    *)
(* that it stores (analysis_orchestrator.go, resource_service.go). Workers  *)
(* list directories in any order, one visitor calls the detectors, and the  *)
(* candidates are joined when the walk is over.                             *)
(*                                                                          *)
(* The disk does not change meanwhile. How the walk bounds its depth and    *)
(* its workers is the subject of ParallelScanner, and how the result is     *)
(* stored that of Inventory.                                                *)
(***************************************************************************)
EXTENDS ProjectDetectors, Requirements

CONSTANTS
    Worlds,        \* the disks and options to scan with
    SystemManaged  \* directories that the system keeps

\* What system detectors report: nothing that projects own.
Tools ==
    [type : STRING \ ProjectLocalTypes, version : Seq(Nat), path : Paths, regenerable : BOOLEAN]

ASSUME DiscoveryAssumption ==
    /\ \A world \in Worlds :
          IsTree(world.disk) /\ world.disk.installed \in Seq(Tools) /\ world.options.roots \subseteq Paths
    /\ \A name \in ToSet(Names) \intersect FixedNames : Extension[name] \notin {".csproj", ".vcxproj", ".egg-info"}

VARIABLES
    options, \* roots, and exclude: segments, absolute, relative
    pc,
    pending, \* directories still to list, each with the root it belongs to
    found,   \* the candidates so far, in the order of their visits
    refused, \* directories that could not be listed
    result   \* what the scan stores

vars == <<disk, options, pc, pending, found, refused, result>>

------------------------------------------------------------------------------
(* The walk.                                                                *)

Below(path, root) == SubSeq(path, Len(root) + 1, Len(path))

\* A pattern counts below every root, whichever of them the walk came from.
Excluded(path) ==
    \/ \E absolute \in options.exclude.absolute : Within(path, absolute)
    \/ \E root \in options.roots :
          /\ IsStrictPrefix(root, path)
          /\ \/ ToSet(Below(path, root)) \intersect options.exclude.segments # {}
             \/ \E relative \in options.exclude.relative : Within(Below(path, root), relative)

Traversable(root) == ~Excluded(root) /\ IsDir(root) /\ ~IsLink(root)

\* The entries of a directory that the visitor gets, in their order.
Visits(dir) ==
    LET names == Those(Listing(dir), LAMBDA name : ~Excluded(Child(dir, name)))
    IN  [i \in DOMAIN names |-> Child(dir, names[i])]

ScanDirectory ==
    /\ pc = "walk"
    /\ \E task \in pending :
          LET visits == Visits(task.dir)
              below  == {path \in ToSet(visits) : Kind(path) = "dir"}
          IN  IF CanList(task.dir)
              THEN /\ pending' = (pending \ {task}) \union {[root |-> task.root, dir |-> dir] : dir \in below}
                   /\ found' = found \o FlattenSeq([i \in DOMAIN visits |-> Observe(visits[i])])
                   /\ UNCHANGED refused
              ELSE /\ pending' = pending \ {task}
                   /\ refused' = refused \union {task.dir}
                   /\ UNCHANGED found
    /\ UNCHANGED <<disk, options, pc, result>>

------------------------------------------------------------------------------
(* From candidates to projects and workspaces.                              *)

All(field(_), candidates) == UNION {field(candidates[i]) : i \in DOMAIN candidates}

\* Mutant: a project anywhere in the repository stands for it.
FilterFallbackGitAround(projects) ==
    {p \in projects : p.type = "git" => ~\E other \in projects : other.type # "git" /\ Within(other.root, p.root)}

\* A repository counts as a project where no detector found another.
FilterFallbackGit(projects) ==
    {p \in projects : p.type = "git" => ~\E other \in projects : other.type # "git" /\ other.root = p.root}

\* A Node workspace inside another is none.
TopLevelWorkspaces(workspaces) ==
    {w \in workspaces : w.type = "node" =>
        ~\E outer \in workspaces : outer.type = "node" /\ IsStrictPrefix(outer.root, w.root)}

\* Inside a Node workspace its root and its members count.
NodeProjectAllowed(p, workspaces) ==
    LET around == {w \in workspaces : w.type = "node" /\ Within(p.root, w.root)}
    IN  around = {} \/ \E w \in around : p.root = w.root \/ p.manifest \in w.members

FilterNodeProjects(projects, workspaces) ==
    {p \in projects : p.type = "node" => NodeProjectAllowed(p, workspaces)}

Workspaces(candidates) == TopLevelWorkspaces(All(LAMBDA c : c.workspaces, candidates))

Projects(candidates) ==
    FilterNodeProjects(FilterFallbackGit(All(LAMBDA c : c.projects, candidates)), Workspaces(candidates))

ResolveWorkspaceMembers(workspace, projects) ==
    workspace.members \intersect {p.manifest : p \in projects}

------------------------------------------------------------------------------
(* From candidates to resources. Each report has the place that it is       *)
(* observed at, tools first.                                                *)

Report(rank, scoped, r, owner, evidence) ==
    [rank |-> rank, scoped |-> scoped, owner |-> owner, type |-> r.type, version |-> r.version,
     path |-> r.path, regenerable |-> r.regenerable, evidence |-> evidence]

ToolReports ==
    {Report(i, FALSE, disk.installed[i], <<>>, {}) : i \in DOMAIN disk.installed}

Reports(candidates) ==
    UNION {{Report(Len(disk.installed) + i, TRUE, r, r.owner, r.evidence) : r \in candidates[i].resources}
            : i \in DOMAIN candidates}

FilterByOwner(reports, projects) ==
    {r \in reports : \E p \in projects : p.manifest = r.owner}

\* Mutant: the last counts.
DedupeLast(reports) ==
    {r \in reports : \A other \in reports :
        other.owner = r.owner /\ other.path = r.path => other.rank <= r.rank}

\* Of what one owner reports of a directory the first counts.
Dedupe(reports) ==
    {r \in reports : \A other \in reports :
        other.owner = r.owner /\ other.path = r.path => r.rank <= other.rank}

OutputReports(candidates) == Dedupe(FilterByOwner(Reports(candidates), Projects(candidates)))

\* Mutant: Git is not asked again.
EnrichCleanupEvidenceOnce(r) ==
    IF ~({"ProjectOwned", "KnownOutputPath"} \subseteq r.evidence) THEN r.evidence
    ELSE {fact \in r.evidence : fact = "ReparsePointFree" => ~IsLink(r.path)}

\* Mutant: what Git does not answer counts as absent.
EnrichCleanupEvidenceUnasked(r) ==
    IF ~({"ProjectOwned", "KnownOutputPath"} \subseteq r.evidence) THEN r.evidence
    ELSE {fact \in CleanupFacts :
            \/ fact \in {"ProjectOwned", "KnownOutputPath"}
            \/ fact = "ReparsePointFree" /\ ~IsLink(r.path)
            \/ /\ fact = "GitTrackedOriginalsAbsent"
               /\ ~disk.git \/ TrackedAbsent(FindRepoRoot(r.path), r.path)}

\* The facts about an output are checked again, from its own path. Where git
\* does not run they stay as they were.
EnrichCleanupEvidence(r) ==
    IF ~({"ProjectOwned", "KnownOutputPath"} \subseteq r.evidence) THEN r.evidence
    ELSE {fact \in CleanupFacts :
            \/ fact \in {"ProjectOwned", "KnownOutputPath"}
            \/ fact = "ReparsePointFree" /\ ~IsLink(r.path)
            \/ /\ fact = "GitTrackedOriginalsAbsent"
               /\ \/ TrackedAbsent(FindRepoRoot(r.path), r.path)
                  \/ ~disk.git /\ fact \in r.evidence}

ObservedRisk(r) ==
    Classify([type |-> r.type, regenerable |-> r.regenerable, required |-> FALSE,
              protected |-> \E dir \in SystemManaged : Within(r.path, dir),
              evidence |-> EnrichCleanupEvidence(r)])

\* What a project requires is blocked; the row holds no evidence to judge it by.
RequiredRisk(r) ==
    IF ObservedRisk(r) = "BLOCKED" THEN "BLOCKED"
    ELSE Classify([type |-> r.type, regenerable |-> r.regenerable, required |-> TRUE,
                   protected |-> FALSE, evidence |-> {}])

Id(r) == [type |-> r.type, version |-> r.version, path |-> r.path]

\* A row is what the last report of the resource says.
LastReports(reports) ==
    {r \in reports : \A other \in reports : Id(other) = Id(r) => other.rank <= r.rank}

Row(r, required) ==
    [type |-> r.type, version |-> r.version, path |-> r.path, regenerable |-> r.regenerable,
     risk |-> IF required THEN RequiredRisk(r) ELSE ObservedRisk(r)]

Rows(reports, edges) ==
    LET required == {Id(edge) : edge \in {e \in edges : e.relation = "REQUIRES"}}
    IN  {Row(r, Id(r) \in required) : r \in LastReports(reports)}

\* The owner is joined to the first resource at the path.
OwnsEdges(outputs, reports) ==
    UNION {{[project |-> r.owner, relation |-> "OWNS", type |-> at.type, version |-> at.version,
             path |-> at.path, kind |-> "OBSERVED"]
              : at \in {x \in reports : x.path = r.path /\ \A y \in reports : y.path = r.path => x.rank <= y.rank}}
            : r \in outputs}

------------------------------------------------------------------------------

Analysis(candidates) ==
    LET projects   == Projects(candidates)
        workspaces == Workspaces(candidates)
        outputs    == OutputReports(candidates)
        reports    == ToolReports \union outputs
        manifests  == {p.manifest : p \in projects}
        needs      == {need \in All(LAMBDA c : c.needs, candidates) : need.owner \in manifests}
        edges      == OwnsEdges(outputs, reports) \union RequiresEdges(projects, needs, reports)
        members(w) == ResolveWorkspaceMembers(w, projects)
    IN  [projects   |-> projects,
         workspaces |-> {[w EXCEPT !.members = members(w)] : w \in workspaces},
         rows       |-> Rows(reports, edges),
         edges      |-> edges,
         issues     |-> All(LAMBDA c : c.issues, candidates)
                            \union UNION {w.members \ members(w) : w \in workspaces},
         unverified |-> Unverified(projects, needs, reports)]

Nothing ==
    [projects |-> {}, workspaces |-> {}, rows |-> {}, edges |-> {}, issues |-> {}, unverified |-> {}]

Analyze ==
    /\ pc = "walk" /\ pending = {}
    /\ pc' = "done"
    /\ result' = Analysis(found)
    /\ UNCHANGED <<disk, options, pending, found, refused>>

Init ==
    /\ \E world \in Worlds : disk = world.disk /\ options = world.options
    /\ pc = "walk"
    /\ pending = {[root |-> root, dir |-> root] : root \in {r \in options.roots : Traversable(r)}}
    /\ found = <<>>
    /\ refused = {root \in options.roots : ~Excluded(root) /\ ~Traversable(root)}
    /\ result = Nothing

Next == ScanDirectory \/ Analyze

Spec == Init /\ [][Next]_vars
==============================================================================
