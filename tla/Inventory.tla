------------------------------- MODULE Inventory -------------------------------
(***************************************************************************)
(* The database that scans fill: AnalysisOrchestrator.Run with the          *)
(* repositories it stores through (internal/store/sqlite). Several          *)
(* processes may scan at once, the user's and those of the monitor, without *)
(* a lock: each call of a repository is one transaction, and others run     *)
(* between any two. Users edit their projects meanwhile.                    *)
(*                                                                          *)
(* A root holds at most one Git repository, one build project with one      *)
(* output directory, and one workspace file. Tools are what the system      *)
(* detectors find, whatever the roots of the scan. No code removes a        *)
(* resource, or an edge of a project that stays.                            *)
(***************************************************************************)
EXTENDS RiskPolicy, Sequences

CONSTANTS
    Roots,      \* directories that scans can be given
    Tools,      \* installed SDKs and environments, in every version
    Place,      \* Place[t]: the directory of t
    Detectors,  \* the detectors of tools, each as the set of those it can find
    ToolReport, \* ToolReport[t]: what its detector says of t
    Contents,   \* what a root can hold
    Scans,      \* the scans that are run, each with its own ID
    Selections, \* the sets of roots that a scan can be given
    None,
    MaxTime, Days, \* bound of the clock, and how far it advances at a time
    Faults      \* what may happen, see FaultKinds

\* edit: a user edits a root; upgrade: another version is installed at the same
\* place; db: a database call fails; walk: the walk fails; crash: a scan dies.
FaultKinds == {"edit", "upgrade", "db", "walk", "crash"}

Reports ==
    [type : ResourceTypes, scoped : BOOLEAN, protected : BOOLEAN, regenerable : BOOLEAN,
     confidence : 0 .. 100, size : Nat, reclaimable : Nat, evidence : SUBSET CleanupFacts]

Rows == [report : Reports, risk : RiskLevels, reclaimable : Nat, observed : 0 .. MaxTime, by : Scans]

Bare == [git |-> FALSE, build |-> FALSE, needs |-> {}, output |-> None, members |-> {}]

ASSUME InventoryAssumption ==
    /\ None \notin Roots \union Tools \union Scans
    /\ None \notin Reports /\ None \notin Rows
    /\ Roots \intersect Tools = {}
    /\ Tools \subseteq DOMAIN Place
    /\ Detectors # {} /\ UNION Detectors = Tools
    /\ ToolReport \in [Tools -> Reports]
    /\ \A t \in Tools : /\ ToolReport[t].type \in RequirableTypes /\ ~ToolReport[t].scoped
                        /\ ToolReport[t].reclaimable <= ToolReport[t].size
    /\ Contents \subseteq [git : BOOLEAN, build : BOOLEAN, needs : SUBSET Tools,
                           output : Reports \union {None}, members : SUBSET Roots]
    /\ \A c \in Contents : ~c.build => c.needs = {} /\ c.output = None
    /\ \A c \in Contents : c.output # None => c.output.reclaimable = 0
    /\ Selections \subseteq SUBSET Roots
    /\ MaxTime \in Nat /\ Days \in Nat \ {0}
    /\ Faults \subseteq FaultKinds

VARIABLES
    content,    \* content[r]: what r holds
    installed,  \* the tools that are there
    now,        \* in days; Spec stays within one, TimedSpec does not
    rows,       \* rows[x]: the resource x as stored; an output has the name of its root
    projects,   \* stored projects
    workspaces, \* stored workspaces, by root
    members,    \* members[w]: the stored projects of workspace w
    edges,      \* stored edges <<project, relation, resource>>
    status,     \* status[s]: the stored status of scan s, "NONE" without a row
    issues,     \* the scans that issues are stored of
    pc,         \* where each scan is
    span,       \* its roots
    saw,        \* what its walk saw there
    unasked,    \* the detectors that it has yet to ask
    found,      \* the tools it detected
    todo,       \* what is left of its phase
    held,       \* the row it has read in order to change it
    warned      \* whether it has issues to store

world    == <<content, installed, now>>
database == <<rows, projects, workspaces, members, edges, status, issues>>
local    == <<pc, span, saw, unasked, found, todo, held, warned>>
vars     == <<world, database, local>>

Resources == Roots \union Tools
Projects  == Roots \X {"git", "build"}
Edges     == (Projects \X {"OWNS"} \X Roots) \union (Projects \X {"REQUIRES"} \X Tools)

Git(r)   == <<r, "git">>
Build(r) == <<r, "build">>

------------------------------------------------------------------------------
(* What the scan s has found, from what it saw.                             *)

\* filterFallbackGitProjects: a repository is a project of its own only where
\* there is no other.
FoundProjects(s) ==
    {Build(r) : r \in {q \in span[s] : saw[s][q].build}}
        \union {Git(r) : r \in {q \in span[s] : saw[s][q].git /\ ~saw[s][q].build}}

FoundOutputs(s)    == {r \in span[s] : saw[s][r].output # None}
FoundWorkspaces(s) == {r \in span[s] : saw[s][r].members # {}}
RequiredTools(s)   == {t \in found[s] : \E r \in span[s] : t \in saw[s][r].needs}

FoundEdges(s) ==
    {<<Build(r), "OWNS", r>> : r \in FoundOutputs(s)}
        \union {<<Build(p[1]), "REQUIRES", p[2]>> :
                    p \in {q \in span[s] \X found[s] : q[2] \in saw[s][q[1]].needs}}

\* resolveWorkspaceMembers: of the projects that a workspace names, those found.
FoundMembers(s, w) == {Build(r) : r \in saw[s][w].members} \intersect FoundProjects(s)

------------------------------------------------------------------------------
(* The order of the phases that store. Those of Queued take one step per    *)
(* element of todo.                                                         *)

Queued == {"tools", "outputs", "reclassify", "workspaces", "edges"}
Phases == Queued \union {"projects", "issues"}

\* Mutant: edges are stored before the projects.
EdgesFirst(phase) ==
    CASE phase = "tools"      -> "outputs"
      [] phase = "outputs"    -> "reclassify"
      [] phase = "reclassify" -> "edges"
      [] phase = "edges"      -> "projects"
      [] phase = "workspaces" -> "issues"

\* Mutant: workspaces are stored before the projects.
WorkspacesFirst(phase) ==
    CASE phase = "tools"      -> "outputs"
      [] phase = "outputs"    -> "reclassify"
      [] phase = "reclassify" -> "workspaces"
      [] phase = "workspaces" -> "projects"
      [] phase = "edges"      -> "issues"

\* Mutant: required resources are not classified again.
Unresolved(phase) ==
    CASE phase = "tools"      -> "outputs"
      [] phase = "outputs"    -> "projects"
      [] phase = "reclassify" -> "projects"
      [] phase = "workspaces" -> "edges"
      [] phase = "edges"      -> "issues"

After(phase) ==
    CASE phase = "tools"      -> "outputs"
      [] phase = "outputs"    -> "reclassify"
      [] phase = "reclassify" -> "projects"
      [] phase = "workspaces" -> "edges"
      [] phase = "edges"      -> "issues"

Work(s, phase) ==
    CASE phase = "tools"      -> found[s]
      [] phase = "outputs"    -> FoundOutputs(s)
      [] phase = "reclassify" -> RequiredTools(s)
      [] phase = "workspaces" -> FoundWorkspaces(s)
      [] phase = "edges"      -> FoundEdges(s)
      [] phase \in {"projects", "issues"} -> {}

\* Between two transactions of a phase: one has read a row or stored a workspace.
Midway == {"reclassified", "members"}
Ending == {"finish", "failing", "failed"}

Init ==
    /\ content \in [Roots -> Contents]
    /\ installed \in SUBSET Tools
    /\ \A t \in Tools : Cardinality({u \in installed : Place[u] = Place[t]}) = 1
    /\ now = 0
    /\ rows = [x \in Resources |-> None]
    /\ projects = {} /\ workspaces = {} /\ edges = {} /\ issues = {}
    /\ members = [r \in Roots |-> {}]
    /\ status = [s \in Scans |-> "NONE"]
    /\ pc = [s \in Scans |-> "idle"]
    /\ span = [s \in Scans |-> {}]
    /\ saw = [s \in Scans |-> [r \in Roots |-> Bare]]
    /\ unasked = [s \in Scans |-> Detectors]
    /\ found = [s \in Scans |-> {}]
    /\ todo = [s \in Scans |-> {}]
    /\ held = [s \in Scans |-> None]
    /\ warned = [s \in Scans |-> FALSE]

------------------------------------------------------------------------------
(* The steps of a scan.                                                     *)

GoTo(s, label) == pc' = [pc EXCEPT ![s] = label]

Start(s) ==
    /\ pc[s] = "idle"
    /\ \E roots \in Selections : span' = [span EXCEPT ![s] = roots]
    /\ status' = [status EXCEPT ![s] = "RUNNING"]
    /\ GoTo(s, "walk")
    /\ UNCHANGED <<world, rows, projects, workspaces, members, edges, issues,
                   saw, unasked, found, todo, held, warned>>

\* What the walk cannot read becomes an issue; the rest is found.
Walk(s) ==
    /\ pc[s] = "walk"
    /\ saw' = [saw EXCEPT ![s] = [r \in Roots |-> IF r \in span[s] THEN content[r] ELSE Bare]]
    /\ warned' \in {warned} \union {[warned EXCEPT ![s] = TRUE] : f \in {"walk"} \intersect Faults}
    /\ GoTo(s, "detect")
    /\ UNCHANGED <<world, database, span, unasked, found, todo, held>>

WalkFails(s) ==
    /\ "walk" \in Faults
    /\ pc[s] = "walk"
    /\ warned' = [warned EXCEPT ![s] = TRUE]
    /\ GoTo(s, "failing")
    /\ UNCHANGED <<world, database, span, saw, unasked, found, todo, held>>

\* One detector after the other, in any order: what it finds is stored before the next
\* one is asked.
Detect(s, d) ==
    /\ pc[s] = "detect"
    /\ d \in unasked[s]
    /\ unasked' = [unasked EXCEPT ![s] = @ \ {d}]
    /\ found' = [found EXCEPT ![s] = @ \union (d \intersect installed)]
    /\ todo' = [todo EXCEPT ![s] = d \intersect installed]
    /\ GoTo(s, "tools")
    /\ UNCHANGED <<world, database, span, saw, held, warned>>

NextDetector(s) ==
    /\ pc[s] = "tools"
    /\ todo[s] = {} /\ unasked[s] # {}
    /\ GoTo(s, "detect")
    /\ UNCHANGED <<world, database, span, saw, unasked, found, todo, held, warned>>

PhaseDone(s) ==
    /\ pc[s] \in Queued
    /\ todo[s] = {}
    /\ pc[s] = "tools" => unasked[s] = {}
    /\ todo' = [todo EXCEPT ![s] = Work(s, After(pc[s]))]
    /\ GoTo(s, After(pc[s]))
    /\ UNCHANGED <<world, database, span, saw, unasked, found, held, warned>>

Done(s, x) == todo' = [todo EXCEPT ![s] = todo[s] \ {x}]

\* The row that Observe stores. A detector's own reclaimable size stands for REVIEW.
Observation(s, report, evidence, size) ==
    LET risk == Classify([type |-> report.type, protected |-> report.protected,
                          regenerable |-> report.regenerable, required |-> FALSE,
                          evidence |-> evidence])
    IN  [report      |-> [report EXCEPT !.size = size, !.evidence = evidence],
         risk        |-> risk,
         reclaimable |-> CASE risk = "SAFE" -> size [] risk = "REVIEW" -> report.reclaimable
                           [] risk = "BLOCKED" -> 0,
         observed    |-> now,
         by          |-> s]

\* Another version has taken the place: its path is UNIQUE and its ID is not that
\* of the row.
Displaced(t) == \E u \in Tools \ {t} : Place[u] = Place[t] /\ rows[u] # None

ObserveTool(s, t) ==
    /\ pc[s] = "tools"
    /\ t \in todo[s]
    /\ ~Displaced(t)
    /\ rows' = [rows EXCEPT ![t] =
            Observation(s, ToolReport[t], ToolReport[t].evidence, ToolReport[t].size)]
    /\ Done(s, t)
    /\ UNCHANGED <<world, projects, workspaces, members, edges, status, issues,
                   pc, span, saw, unasked, found, held, warned>>

ToolRefused(s, t) ==
    /\ pc[s] = "tools"
    /\ t \in todo[s]
    /\ Displaced(t)
    /\ warned' = [warned EXCEPT ![s] = TRUE]
    /\ GoTo(s, "failing")
    /\ UNCHANGED <<world, database, span, saw, unasked, found, todo, held>>

\* enrichCleanupEvidence: links and tracked files are looked up again, if the path
\* is still there, for an output whose other facts hold.
Enriched(seen, there) ==
    LET known == {"ProjectOwned", "KnownOutputPath"}
    IN  IF known \subseteq seen.evidence /\ there # None
        THEN known \union (there.evidence \intersect {"ReparsePointFree", "GitTrackedOriginalsAbsent"})
        ELSE seen.evidence

\* Sizes are measured now; what is gone is empty, and an issue.
ObserveOutput(s, r) ==
    /\ pc[s] = "outputs"
    /\ r \in todo[s]
    /\ LET seen  == saw[s][r].output
           there == content[r].output
           size  == IF there = None THEN 0 ELSE there.size
       IN  /\ rows' = [rows EXCEPT ![r] = Observation(s, seen, Enriched(seen, there), size)]
           /\ warned' = [warned EXCEPT ![s] = @ \/ there = None]
    /\ Done(s, r)
    /\ UNCHANGED <<world, projects, workspaces, members, edges, status, issues,
                   pc, span, saw, unasked, found, held>>

\* ReclassifyRequired: a row that is BLOCKED is left alone.
ReadRequired(s, t) ==
    /\ pc[s] = "reclassify"
    /\ t \in todo[s]
    /\ IF rows[t].risk = "BLOCKED"
       THEN Done(s, t) /\ UNCHANGED <<pc, held>>
       ELSE /\ held' = [held EXCEPT ![s] = [id |-> t, row |-> rows[t]]]
            /\ GoTo(s, "reclassified")
            /\ UNCHANGED todo
    /\ UNCHANGED <<world, database, span, saw, unasked, found, warned>>

\* The whole row is written as it was read, but for the verdict.
Reclassified(row) ==
    [report      |-> row.report,
     risk        |-> Classify([type |-> row.report.type, protected |-> row.report.protected,
                               regenerable |-> row.report.regenerable, required |-> TRUE,
                               evidence |-> {}]),
     reclaimable |-> 0,
     observed    |-> row.observed,
     by          |-> row.by]

\* Mutant: what was read is not dropped.
KeepRequired(s) ==
    /\ pc[s] = "reclassified"
    /\ rows' = [rows EXCEPT ![held[s].id] = Reclassified(held[s].row)]
    /\ Done(s, held[s].id)
    /\ GoTo(s, "reclassify")
    /\ UNCHANGED <<world, projects, workspaces, members, edges, status, issues,
                   span, saw, unasked, found, held, warned>>

WriteRequired(s) ==
    /\ pc[s] = "reclassified"
    /\ rows' = [rows EXCEPT ![held[s].id] = Reclassified(held[s].row)]
    /\ Done(s, held[s].id)
    /\ held' = [held EXCEPT ![s] = None]
    /\ GoTo(s, "reclassify")
    /\ UNCHANGED <<world, projects, workspaces, members, edges, status, issues,
                   span, saw, unasked, found, warned>>

\* Mutant: a build project is stored beside the repository.
KeepRepositories(s) ==
    /\ pc[s] = "projects"
    /\ projects' = projects \union {p \in FoundProjects(s) :
                        p[2] = "git" => Build(p[1]) \notin projects}
    /\ todo' = [todo EXCEPT ![s] = Work(s, "workspaces")]
    /\ GoTo(s, "workspaces")
    /\ UNCHANGED <<world, rows, edges, members, workspaces, status, issues,
                   span, saw, unasked, found, held, warned>>

\* UpsertObserved, in one transaction: a build project removes the repository stored
\* at its root with its edges and memberships; a repository is stored only where there
\* is no build project.
StoreProjects(s) ==
    /\ pc[s] = "projects"
    /\ LET strong   == {p \in FoundProjects(s) : p[2] = "build"}
           replaced == {Git(p[1]) : p \in strong}
           weak     == {p \in FoundProjects(s) : p[2] = "git" /\ Build(p[1]) \notin projects}
       IN  /\ projects' = (projects \ replaced) \union strong \union weak
           /\ edges' = {e \in edges : e[1] \notin replaced \intersect projects}
           /\ members' = [r \in Roots |-> members[r] \ (replaced \intersect projects)]
    /\ todo' = [todo EXCEPT ![s] = Work(s, "workspaces")]
    /\ GoTo(s, "workspaces")
    /\ UNCHANGED <<world, rows, workspaces, status, issues,
                   span, saw, unasked, found, held, warned>>

StoreWorkspace(s, w) ==
    /\ pc[s] = "workspaces"
    /\ w \in todo[s]
    /\ workspaces' = workspaces \union {w}
    /\ held' = [held EXCEPT ![s] = w]
    /\ GoTo(s, "members")
    /\ UNCHANGED <<world, rows, projects, members, edges, status, issues,
                   span, saw, unasked, found, todo, warned>>

\* A member that was not found is an issue. Foreign keys: one that is not stored fails
\* the transaction and with it the scan.
StoreMembers(s) ==
    LET w == held[s]
    IN  /\ pc[s] = "members"
        /\ held' = [held EXCEPT ![s] = None]
        /\ IF FoundMembers(s, w) \subseteq projects /\ w \in workspaces
           THEN /\ members' = [members EXCEPT ![w] = FoundMembers(s, w)]
                /\ warned' = [warned EXCEPT ![s] =
                        @ \/ FoundMembers(s, w) # {Build(r) : r \in saw[s][w].members}]
                /\ Done(s, w)
                /\ GoTo(s, "workspaces")
           ELSE /\ warned' = [warned EXCEPT ![s] = TRUE]
                /\ GoTo(s, "failing")
                /\ UNCHANGED <<members, todo>>
        /\ UNCHANGED <<world, rows, projects, workspaces, edges, status, issues,
                       span, saw, unasked, found>>

StoreEdge(s, e) ==
    /\ pc[s] = "edges"
    /\ e \in todo[s]
    /\ edges' = edges \union {e}
    /\ Done(s, e)
    /\ UNCHANGED <<world, rows, projects, workspaces, members, status, issues,
                   pc, span, saw, unasked, found, held, warned>>

\* Mutant: the issues are not stored.
ForgetIssues(s) ==
    /\ pc[s] = "issues"
    /\ GoTo(s, "finish")
    /\ UNCHANGED <<world, database, span, saw, unasked, found, todo, held, warned>>

StoreIssues(s) ==
    /\ pc[s] = "issues"
    /\ issues' = IF warned[s] THEN issues \union {s} ELSE issues \ {s}
    /\ GoTo(s, "finish")
    /\ UNCHANGED <<world, rows, projects, workspaces, members, edges, status,
                   span, saw, unasked, found, todo, held, warned>>

Finish(s) ==
    /\ pc[s] = "finish"
    /\ status' = [status EXCEPT ![s] = IF warned[s] THEN "COMPLETED_WITH_ERRORS" ELSE "COMPLETED"]
    /\ GoTo(s, "done")
    /\ UNCHANGED <<world, rows, projects, workspaces, members, edges, issues,
                   span, saw, unasked, found, todo, held, warned>>

\* fail: the error is an issue too; it is stored if the database lets it.
FailIssues(s) ==
    /\ pc[s] = "failing"
    /\ issues' \in {issues \union {s}} \union {issues : f \in {"db"} \intersect Faults}
    /\ GoTo(s, "failed")
    /\ UNCHANGED <<world, rows, projects, workspaces, members, edges, status,
                   span, saw, unasked, found, todo, held, warned>>

FailSave(s) ==
    /\ pc[s] = "failed"
    /\ status' = [status EXCEPT ![s] = "FAILED"]
    /\ GoTo(s, "done")
    /\ UNCHANGED <<world, rows, projects, workspaces, members, edges, issues,
                   span, saw, unasked, found, todo, held, warned>>

\* The process is gone with what it knew.
Die(s) ==
    /\ GoTo(s, "done")
    /\ span' = [span EXCEPT ![s] = {}]
    /\ saw' = [saw EXCEPT ![s] = [r \in Roots |-> Bare]]
    /\ unasked' = [unasked EXCEPT ![s] = {}]
    /\ found' = [found EXCEPT ![s] = {}]
    /\ todo' = [todo EXCEPT ![s] = {}]
    /\ held' = [held EXCEPT ![s] = None]
    /\ warned' = [warned EXCEPT ![s] = FALSE]

\* A transaction that fails leaves nothing and fails the scan. The scan's own row stays
\* as it is when it cannot be stored, or the issues before it.
DatabaseFails(s) ==
    /\ "db" \in Faults
    /\ \/ /\ pc[s] \in {"idle", "issues", "finish", "failed"}
          /\ Die(s)
       \/ /\ pc[s] \in Midway \/ (pc[s] \in Queued /\ todo[s] # {}) \/ pc[s] = "projects"
          /\ GoTo(s, "failing")
          /\ warned' = [warned EXCEPT ![s] = TRUE]
          /\ UNCHANGED <<span, saw, unasked, found, todo, held>>
    /\ UNCHANGED <<world, database>>

ScanStep(s) ==
    \/ Start(s) \/ Walk(s) \/ WalkFails(s) \/ NextDetector(s) \/ PhaseDone(s)
    \/ \E d \in Detectors : Detect(s, d)
    \/ \E t \in Tools : ObserveTool(s, t) \/ ToolRefused(s, t) \/ ReadRequired(s, t)
    \/ \E r \in Roots : ObserveOutput(s, r) \/ StoreWorkspace(s, r)
    \/ WriteRequired(s) \/ StoreProjects(s) \/ StoreMembers(s)
    \/ \E e \in Edges : StoreEdge(s, e)
    \/ StoreIssues(s) \/ Finish(s) \/ FailIssues(s) \/ FailSave(s) \/ DatabaseFails(s)

------------------------------------------------------------------------------
(* The world.                                                               *)

Edit(r) ==
    /\ "edit" \in Faults
    /\ \E c \in Contents \ {content[r]} : content' = [content EXCEPT ![r] = c]
    /\ UNCHANGED <<installed, now, database, local>>

Upgrade(t, u) ==
    /\ "upgrade" \in Faults
    /\ t \in installed /\ u \notin installed /\ Place[t] = Place[u]
    /\ installed' = (installed \ {t}) \union {u}
    /\ UNCHANGED <<content, now, database, local>>

Crash(s) ==
    /\ "crash" \in Faults
    /\ pc[s] \notin {"idle", "done"}
    /\ Die(s)
    /\ UNCHANGED <<world, database>>

Tick ==
    /\ now + Days <= MaxTime
    /\ now' = now + Days
    /\ UNCHANGED <<content, installed, database, local>>

World ==
    \/ \E r \in Roots : Edit(r)
    \/ \E t, u \in Tools : Upgrade(t, u)
    \/ \E s \in Scans : Crash(s)

Over == (\A s \in Scans : pc[s] = "done") /\ UNCHANGED vars

Next == (\E s \in Scans : ScanStep(s)) \/ World \/ Over

Spec == Init /\ [][Next]_vars

\* The same while days pass, which matters to those who read the rows.
TimedNext == Next \/ Tick
TimedSpec == Init /\ [][TimedNext]_vars
------------------------------------------------------------------------------
(* Properties.                                                              *)

\* Types, and a scan holds something exactly between two transactions of a phase.
TypeOK ==
    /\ content \in [Roots -> Contents]
    /\ installed \subseteq Tools
    /\ now \in 0 .. MaxTime
    /\ rows \in [Resources -> Rows \union {None}]
    /\ projects \subseteq Projects /\ workspaces \subseteq Roots /\ edges \subseteq Edges
    /\ members \in [Roots -> SUBSET Projects]
    /\ status \in [Scans -> {"NONE", "RUNNING", "COMPLETED", "COMPLETED_WITH_ERRORS", "FAILED"}]
    /\ issues \subseteq Scans
    /\ pc \in [Scans -> Phases \union Midway \union Ending \union {"idle", "walk", "detect", "done"}]
    /\ span \in [Scans -> SUBSET Roots]
    /\ saw \in [Scans -> [Roots -> Contents \union {Bare}]]
    /\ unasked \in [Scans -> SUBSET Detectors]
    /\ found \in [Scans -> SUBSET Tools]
    /\ todo \in [Scans -> SUBSET (Tools \union Roots \union Edges)]
    /\ held \in [Scans -> {None} \union Roots \union [id : Tools, row : Rows]]
    /\ \A s \in Scans :
        /\ pc[s] \in Queued => todo[s] \subseteq Work(s, pc[s])
        /\ pc[s] = "reclassified" => held[s] \in [id : Tools, row : Rows]
        /\ pc[s] = "members" => held[s] \in Roots
        /\ pc[s] \in Phases \union {"idle", "walk", "detect"} => held[s] = None
    /\ warned \in [Scans -> BOOLEAN]

\* No root is stored both as a repository and as a build project, in whatever order
\* scans that saw the root at different times store it (project_repository.go:42-54).
NoTwins == \A r \in Roots : Git(r) \notin projects \/ Build(r) \notin projects

\* What is stored refers to stored projects and resources only, between any two steps
\* of any scans and after failures: reading a plan or an explanation looks both up and
\* ends in an error if they are missing (cmd/plan.go:183-186). No foreign key sees to it.
Grounded ==
    /\ \A e \in edges : e[1] \in projects /\ rows[e[3]] # None
    /\ \A w \in Roots : members[w] \subseteq projects

\* A scan that completes leaves each tool that it found required BLOCKED, as long as the
\* observation is its own, although observations are stored before requirements are
\* known and other scans write the same rows all the while (resource_service.go:158-168).
VerdictStands ==
    \A s \in Scans : status[s] \in {"COMPLETED", "COMPLETED_WITH_ERRORS"} =>
        \A t \in RequiredTools(s) : rows[t].by = s => rows[t].risk = "BLOCKED"

\* The status of a scan agrees with the issues that `libra issues' shows for it: what
\* completed with errors has them stored, and what completed has none.
StatusTellsIssues ==
    \A s \in Scans : /\ status[s] = "COMPLETED_WITH_ERRORS" => s \in issues
                     /\ status[s] = "COMPLETED" => s \notin issues

\* Foreign keys never fail a scan: when it stores the members of a workspace, all of them
\* are still stored, although other scans may have removed projects since it stored its
\* own (workspace_repository.go:60-83, project_repository.go:93-127).
ForeignKeysHold ==
    \A s \in Scans : pc[s] = "members" =>
        held[s] \in workspaces /\ FoundMembers(s, held[s]) \subseteq projects

\* Between scans, a tool that an indexed project requires is BLOCKED.
RequiredIsBlocked ==
    (\A s \in Scans : pc[s] \in {"idle", "done"}) =>
        \A e \in edges : (e[2] = "REQUIRES" /\ e[3] \in installed /\ e[3] \in content[e[1][1]].needs)
                            => rows[e[3]].risk = "BLOCKED"
==============================================================================
