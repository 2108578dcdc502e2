---------------------------- MODULE ProjectDetectors ----------------------------
(***************************************************************************)
(* What the project detectors report of an entry of the walk                *)
(* (project_detector_adapters.go and the adapters it wraps): projects,      *)
(* workspaces, the build output that they own, and the tools that they      *)
(* declare. Functions of the entry and of the disk; no state of their own.  *)
(*                                                                          *)
(* Names of projects, sizes, dates and regeneration commands are left out,  *)
(* and so are the absolute, negated and malformed patterns and properties   *)
(* that the code skips.                                                     *)
(***************************************************************************)
EXTENDS FileTree, RiskPolicy

\* A candidate of one detector, with the paths it has an issue about.
Empty == [projects |-> {}, workspaces |-> {}, resources |-> {}, needs |-> {}, issues |-> {}]

Failure(path) == [Empty EXCEPT !.issues = {path}]

\* The manifest is there and can be parsed.
Reads(manifest) == CanRead(manifest) /\ Says(manifest).valid

Project(type, root, manifest) == [type |-> type, root |-> root, manifest |-> manifest]

------------------------------------------------------------------------------
(* The evidence of an output directory that detectors found.                *)

FixedLocationNames == {"__pycache__", ".pytest_cache", ".mypy_cache", ".build"}

KnownOutputPath(r) ==
    \/ r.type \in {"node-modules", "cocoapods-pods", "python-venv"}
    \/ /\ r.type = "build-output"
       /\ Last(r.path) \in FixedLocationNames \/ Extension[Last(r.path)] = ".egg-info"
    \/ DefaultConfidence(r.kind) >= DefaultConfidence("DECLARED")

ProjectArtifactCleanupEvidence(root, r) ==
    {fact \in CleanupFacts :
        \/ fact = "ProjectOwned"
        \/ fact = "KnownOutputPath" /\ KnownOutputPath(r)
        \/ fact = "ReparsePointFree" /\ ~IsLink(r.path)
        \/ fact = "GitTrackedOriginalsAbsent" /\ TrackedAbsent(FindRepoRoot(root), r.path)}

\* An output of project, with its evidence.
Output(project, path, type, regenerable, kind) ==
    LET r == [owner |-> project.manifest, type |-> type, version |-> <<>>, path |-> path,
              regenerable |-> regenerable, kind |-> kind, evidence |-> {}]
    IN  [r EXCEPT !.evidence = ProjectArtifactCleanupEvidence(project.root, r)]

\* The outputs whose evidence git could not give.
Unanswered(outputs, root) == {r.path : r \in {r \in outputs : FindRepoRoot(root) # {} /\ ~disk.git}}

ArtifactNames(root, recognized) == {n \in Entries(root) \intersect recognized : IsDir(Child(root, n))}

\* A project with one output directory at most.
WithOutputs(project, outputs) ==
    [Empty EXCEPT !.projects = {project}, !.resources = outputs,
                  !.issues = Unanswered(outputs, project.root)]

------------------------------------------------------------------------------
(* Git, and the manifests of projectmarker.go.                              *)

GitProject(entry) ==
    IF Exists(Child(entry, ".git"))
    THEN [Empty EXCEPT !.projects = {Project("git", entry, Child(entry, ".git"))}]
    ELSE Empty

GradleManifests == {"build.gradle", "build.gradle.kts"}

EcosystemManifests == {"pom.xml", "cargo.toml", "go.mod"} \union GradleManifests

EcosystemType(manifest) ==
    CASE Last(manifest) = "pom.xml"    -> "maven"
      [] Last(manifest) = "cargo.toml" -> "cargo"
      [] Last(manifest) = "go.mod"     -> "go"
      [] Last(manifest) \in GradleManifests -> IF Says(manifest).android THEN "android" ELSE "gradle"

EcosystemBuildArtifact(project) ==
    LET name   == IF project.type \in {"maven", "cargo"} THEN "target" ELSE "build"
        path   == Child(project.root, name)
        proven == project.type = "cargo" => Exists(Child(project.root, "Cargo.lock"))
    IN  IF project.type # "go" /\ (IsLink(path) \/ IsDir(path))
        THEN {Output(project, path, "build-output", proven, IF proven THEN "DECLARED" ELSE "INFERRED")}
        ELSE {}

EcosystemProject(entry) ==
    IF Kind(entry) # "file" \/ Last(entry) \notin EcosystemManifests THEN Empty
    ELSE IF Last(entry) \in GradleManifests /\ ~CanRead(entry) THEN Failure(entry)
    ELSE LET project == Project(EcosystemType(entry), Parent(entry), entry)
         IN  WithOutputs(project, EcosystemBuildArtifact(project))

------------------------------------------------------------------------------
(* Node: package.json, its workspace members, and what they build.          *)

NodeLockfiles    == {"package-lock.json", "npm-shrinkwrap.json", "pnpm-lock.yaml", "yarn.lock"}
NodeArtifactDirs == {"node_modules", "dist", ".next", "build", "out"}

Manifest(root) == Child(root, "package.json")

IsVendored(path, names) == ToSet(path) \intersect names # {}

NodeCanDetect(root) ==
    /\ ~IsVendored(root, {"node_modules"})
    /\ Exists(Manifest(root))
    /\ ~(Reads(Manifest(root)) /\ Says(Manifest(root)).unity)

NodeProjectAt(root) == Project("node", root, Manifest(root))

\* A lockfile in any of lockfileDirs stands for the install.
NodeArtifacts(root, lockfileDirs) ==
    LET locked == \E dir \in lockfileDirs, name \in NodeLockfiles : Exists(Child(dir, name))
        builds == Reads(Manifest(root)) /\ Says(Manifest(root)).build
        output(name) ==
            IF name = "node_modules"
            THEN Output(NodeProjectAt(root), Child(root, name), "node-modules", locked,
                        IF locked THEN "DECLARED" ELSE "INFERRED")
            ELSE Output(NodeProjectAt(root), Child(root, name), "build-output", builds, "INFERRED")
    IN  {output(name) : name \in ArtifactNames(root, NodeArtifactDirs)}

\* The members that a pattern names: dir, or with all what is directly in dir.
Glob(root, pattern) ==
    LET dir == Resolve(root, pattern.dir)
    IN  IF ~pattern.all THEN {dir}
        ELSE IF CanList(dir) THEN {Child(dir, name) : name \in Entries(dir)} ELSE {}

ResolveMembers(root, patterns) ==
    {dir \in UNION {Glob(root, pattern) : pattern \in patterns} :
        IsDir(dir) /\ Exists(Manifest(dir))}

PnpmFile(root) == Child(root, "pnpm-workspace.yaml")

\* The workspace that root declares, a set with it; the field of package.json
\* comes before the file of pnpm. A malformed one is none.
DetectNodeWorkspace(root) ==
    LET field == Says(Manifest(root)).workspaces
        workspace(manifest, patterns) ==
            {[type |-> "node", root |-> root, manifest |-> manifest,
              members |-> {Manifest(dir) : dir \in ResolveMembers(root, patterns)}]}
    IN  CASE field = "ok"  -> workspace(Manifest(root), Says(Manifest(root)).patterns)
          [] field = "bad" -> {}
          [] OTHER -> \* "none"
                IF Reads(PnpmFile(root))
                THEN workspace(PnpmFile(root), Says(PnpmFile(root)).patterns)
                ELSE {}

WorkspaceFails(root) ==
    \/ Says(Manifest(root)).workspaces = "bad"
    \/ /\ Says(Manifest(root)).workspaces = "none" /\ Exists(PnpmFile(root))
       /\ ~Reads(PnpmFile(root))

\* Members are reported with the root that lists them, walked or not.
NodeProject(entry) ==
    IF ~NodeCanDetect(entry) THEN Empty
    ELSE IF ~Reads(Manifest(entry)) THEN Failure(entry)
    ELSE LET workspaces == DetectNodeWorkspace(entry)
             listed == {dir \in {Parent(m) : m \in UNION {w.members : w \in workspaces}} :
                            NodeCanDetect(dir)}
             roots  == IF CanList(entry) THEN {dir \in listed : Reads(Manifest(dir))} ELSE {}
             \* the members' with the lockfile of the root
             outputs(dir) == IF CanList(dir) THEN NodeArtifacts(dir, {dir, entry}) ELSE {}
             reported     == roots \union {entry}
         IN  [projects   |-> {NodeProjectAt(dir) : dir \in reported},
              workspaces |-> workspaces,
              resources  |-> UNION {outputs(dir) : dir \in reported},
              needs      |-> {},
              issues     |-> (UNION {Unanswered(outputs(dir), dir) : dir \in reported})
                             \union (IF WorkspaceFails(entry) \/ ~CanList(entry) THEN {entry} ELSE {})
                             \union {dir \in listed : CanList(entry) /\ (~Reads(Manifest(dir)) \/ ~CanList(dir))}]

------------------------------------------------------------------------------
(* Python, with the Conda environments of a project.                        *)

PythonMarkers   == <<"pyproject.toml", "Pipfile", "setup.py", "requirements.txt">>
PythonLockfiles == {"poetry.lock", "Pipfile.lock", "uv.lock"}
VenvNames       == <<".venv", "venv", "env">>
CacheDirNames   == {"__pycache__", ".pytest_cache", ".mypy_cache", "build", "dist"}
VendoredDirs    == {"site-packages", "dist-packages"}

\* A Python file in root or directly in one of its directories. A directory that
\* cannot be listed ends the search.
ContainsPythonSource(root) ==
    LET names == Listing(root)
        python(dir) == \E n \in Entries(dir) : Kind(Child(dir, n)) # "dir" /\ Extension[n] = ".py"
        searched(n) == Kind(Child(root, n)) = "dir" /\ n \notin Hidden \union VendoredDirs
        hit(n) == \/ Kind(Child(root, n)) # "dir" /\ Extension[n] = ".py"
                  \/ searched(n) /\ CanList(Child(root, n)) /\ python(Child(root, n))
        ends(n) == searched(n) /\ ~CanList(Child(root, n))
    IN  /\ CanList(root)
        /\ \E i \in DOMAIN names : hit(names[i]) /\ \A j \in 1 .. i - 1 : ~ends(names[j])

PythonFound(root) == Those(PythonMarkers, LAMBDA name : Exists(Child(root, name)))

PythonCanDetect(root) ==
    /\ ~IsVendored(root, VendoredDirs)
    /\ PythonFound(root) # <<>>
    /\ PythonFound(root)[1] = "requirements.txt" => ContainsPythonSource(root)

\* How far the dependencies of root are fixed.
LockfileEvidence(root) ==
    LET requirements == Child(root, "requirements.txt")
    IN  IF \E name \in PythonLockfiles : Exists(Child(root, name)) THEN "DECLARED"
        ELSE IF CanRead(requirements) /\ Says(requirements).pinned THEN "PINNED"
        ELSE IF CanRead(requirements) \/ PythonFound(root) \notin {<<>>, <<"requirements.txt">>} THEN "INFERRED"
        ELSE "UNKNOWN"

\* The first of the names that is an environment, a set with it.
DetectVenv(root) ==
    LET dirs == Those(VenvNames, LAMBDA name : /\ IsDir(Child(root, name))
                                                    /\ Exists(Child(Child(root, name), "pyvenv.cfg")))
    IN  IF dirs = <<>> THEN {} ELSE {dirs[1]}

PythonArtifacts(project) ==
    LET root == project.root
        kind == LockfileEvidence(root)
        venv == DetectVenv(root)
        cache == ArtifactNames(root, {n \in ToSet(Names) : n \in CacheDirNames \/ Extension[n] = ".egg-info"})
    IN  {Output(project, Child(root, name), "python-venv", kind \in {"DECLARED", "PINNED"}, kind) : name \in venv}
        \union {Output(project, Child(root, name), "build-output", TRUE, "INFERRED") : name \in cache \ venv}

\* The environment file that counts is the first: a set with it.
EnvironmentFile(root) ==
    LET files == Those(<<"environment.yml", "environment.yaml">>, LAMBDA name : Exists(Child(root, name)))
    IN  IF files = <<>> THEN {} ELSE {Child(root, files[1])}

DeclaredEnvironments(root) ==
    {Says(file).name : file \in {f \in EnvironmentFile(root) : Reads(f) /\ Says(f).name # ""}}

\* Environments made inside the project, which carry no evidence.
LocalPrefixEnvs(project) ==
    {[owner |-> project.manifest, type |-> "conda-env", version |-> <<>>, path |-> Child(project.root, name),
      regenerable |-> DeclaredEnvironments(project.root) # {}, kind |-> "OBSERVED", evidence |-> {}]
        : name \in {n \in ArtifactNames(project.root, ToSet(Names)) :
                        Exists(Child(project.root, n) \o <<"conda-meta", "history">>)}}

PythonProject(entry) ==
    IF ~PythonCanDetect(entry) THEN Empty
    ELSE LET project == Project("python", entry, Child(entry, PythonFound(entry)[1]))
             outputs == PythonArtifacts(project)
             named   == {r.path : r \in outputs}
         IN  IF ~CanList(entry)
             THEN [Empty EXCEPT !.projects = {project}, !.issues = {entry}]
             ELSE \* a directory that one owner reports twice counts the first time
                  [WithOutputs(project, outputs) EXCEPT
                      !.resources = @ \union {r \in LocalPrefixEnvs(project) : r.path \notin named},
                      !.needs     = {[owner |-> project.manifest, type |-> "conda-env", version |-> <<>>,
                                      name |-> name, conditional |-> FALSE]
                                        : name \in DeclaredEnvironments(entry)},
                      !.issues    = @ \union {entry : file \in {f \in EnvironmentFile(entry) : ~Reads(f)}}]

------------------------------------------------------------------------------
(* MSBuild: .csproj and .vcxproj, with the nearest Directory.Build.props.   *)

\* The properties of a file: outputs name directories, needs name tools.
FindDirectoryBuildProps(dir) == Nearest(dir, LAMBDA q : IsFile(Child(q, "Directory.Build.props")))

Props(root) == {Child(dir, "Directory.Build.props") : dir \in FindDirectoryBuildProps(root)}

\* A name that the project declares hides the inherited ones.
MergeInherited(own, inherited) ==
    LET names == {p.name : p \in own.outputs \union own.needs}
        open(properties) == {p \in properties : p.name \notin names}
    IN  [outputs |-> own.outputs \union open(inherited.outputs),
         needs   |-> own.needs \union open(inherited.needs)]

Declared(entry) ==
    LET props == Props(Parent(entry))
    IN  IF props = {} THEN [outputs |-> Says(entry).outputs, needs |-> Says(entry).needs]
        ELSE MergeInherited(Says(entry), Says(CHOOSE file \in props : TRUE))

\* Mutant: directories outside root are taken too.
ResolveDeclaredOutputDirsAnywhere(root, outputs) ==
    {Resolve(root, o.path) : o \in {o \in outputs : ~o.conditional /\ IsDir(Resolve(root, o.path))}}

\* Conditions and macros are not evaluated, and paths outside root are not taken.
ResolveDeclaredOutputDirs(root, outputs) ==
    {Resolve(root, o.path) : o \in {o \in outputs : /\ ~o.conditional
                                                    /\ o.path.up = 0
                                                    /\ IsDir(Resolve(root, o.path))}}

\* Stat of a path below a file is an error, and not the one of a path that is not there.
LeadsThroughFile(root, outputs) ==
    \E o \in outputs :
        /\ ~o.conditional
        /\ o.path.up = 0
        /\ \E p \in Above(Resolve(root, o.path)) \ {Resolve(root, o.path)} : IsFile(p)

\* After that error none of the outputs is reported.
MSBuildArtifacts(project, outputs) ==
    LET declared == ResolveDeclaredOutputDirs(project.root, outputs)
        inferred == {Child(project.root, n) : n \in ArtifactNames(project.root, {"bin", "obj"})} \ declared
    IN  IF LeadsThroughFile(project.root, outputs) THEN {}
        ELSE {Output(project, path, "build-output", TRUE, "DECLARED") : path \in declared}
             \union {Output(project, path, "build-output", TRUE, "INFERRED") : path \in inferred}

MSBuildProject(entry) ==
    IF Extension[Last(entry)] \notin {".csproj", ".vcxproj"} THEN Empty
    ELSE IF ~Reads(entry) \/ \E file \in Props(Parent(entry)) : ~Reads(file) THEN Failure(entry)
    ELSE LET project == Project(IF Extension[Last(entry)] = ".csproj" THEN "dotnet" ELSE "cpp",
                                Parent(entry), entry)
             outputs == Declared(entry).outputs
         IN  [WithOutputs(project, MSBuildArtifacts(project, outputs)) EXCEPT
                 !.issues = IF LeadsThroughFile(project.root, outputs) THEN {project.root} ELSE @,
                 !.needs = {[owner |-> entry, type |-> need.type, version |-> need.version, name |-> need.name,
                              conditional |-> need.conditional] : need \in Declared(entry).needs}]

------------------------------------------------------------------------------
(* Xcode, CocoaPods and SwiftPM.                                            *)

\* The output name, with a lockfile that stands for making it again.
LockedOutput(project, name, type, lockfile) ==
    LET locked == Exists(Child(project.root, lockfile))
    IN  {Output(project, Child(project.root, n), type, locked, IF locked THEN "DECLARED" ELSE "INFERRED")
            : n \in ArtifactNames(project.root, {name})}

Pods(project) ==
    IF Exists(Child(project.root, "Podfile"))
    THEN LockedOutput(project, "Pods", "cocoapods-pods", "Podfile.lock") ELSE {}

IsBundle(entry, ending) == Kind(entry) = "dir" /\ Extension[Last(entry)] = ending

XcodeProject(entry) ==
    LET manifest == Child(entry, "project.pbxproj")
        project  == Project("xcode", Parent(entry), manifest)
    IN  IF ~IsBundle(entry, ".xcodeproj") THEN Empty
        ELSE IF ~IsFile(manifest) THEN Failure(entry)
        ELSE WithOutputs(project, Pods(project))

WorkspaceData(entry) == Child(entry, "contents.xcworkspacedata")

\* The projects that the file names, relative to the directory of the workspace.
XcodeMembers(entry) ==
    IF ~Exists(WorkspaceData(entry)) THEN {}
    ELSE {Child(Resolve(Parent(entry), ref), "project.pbxproj") : ref \in Says(WorkspaceData(entry)).refs}

XcodeWorkspace(entry) ==
    IF ~IsBundle(entry, ".xcworkspace") THEN Empty
    ELSE IF Exists(WorkspaceData(entry)) /\ ~Reads(WorkspaceData(entry)) THEN Failure(entry)
    ELSE [Empty EXCEPT !.workspaces = {[type |-> "xcode", root |-> Parent(entry),
                                        manifest |-> WorkspaceData(entry), members |-> XcodeMembers(entry)]}]

SwiftPMProject(entry) ==
    LET project == Project("swiftpm", Parent(entry), entry)
    IN  IF Kind(entry) # "file" \/ Last(entry) # "Package.swift" THEN Empty
        ELSE WithOutputs(project, LockedOutput(project, ".build", "build-output", "Package.resolved"))

------------------------------------------------------------------------------

\* The names that detectors look for as they are.
FixedNames ==
    {".git", "package.json", "Pods", "project.pbxproj", "Package.swift", "target", "bin", "obj"}
        \union EcosystemManifests \union NodeArtifactDirs \union ToSet(PythonMarkers)

\* What the detectors report of an entry, in their order, without those that
\* report nothing.
Observe(entry) ==
    Those(<<GitProject(entry), NodeProject(entry), MSBuildProject(entry), PythonProject(entry),
                EcosystemProject(entry), XcodeProject(entry), XcodeWorkspace(entry), SwiftPMProject(entry)>>,
              LAMBDA candidate : candidate # Empty)
==============================================================================
