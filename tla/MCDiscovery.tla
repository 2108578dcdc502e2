------------------------------ MODULE MCDiscovery ------------------------------
(***************************************************************************)
(* Instances of Discovery for TLC: the disks below one directory w, by      *)
(* family. A family varies one kind of project next to a second one, so     *)
(* that there are directories to list in any order.                         *)
(***************************************************************************)
EXTENDS DiscoveryProperties, TLC

AllNames ==
    <<".build", ".git", ".venv", "Cargo.lock", "Directory.Build.props", "Package.resolved", "Package.swift",
      "Podfile", "Podfile.lock", "Pods", "__pycache__", "a", "app.xcodeproj", "app.xcworkspace", "bin",
      "build", "build.gradle", "cargo.toml", "conda-meta", "contents.xcworkspacedata", "dist", "env",
      "environment.yml", "envs", "go.mod", "history", "l", "lib", "m", "main.py", "node_modules", "obj",
      "out", "p", "p.csproj", "package-lock.json", "package.json", "pk", "pnpm-workspace.yaml", "pom.xml",
      "project.pbxproj", "pyproject.toml", "pyvenv.cfg", "q", "q.csproj", "requirements.txt", "s",
      "target", "uv.lock", "w", "x", "z">>

Endings ==
    [n \in ToSet(AllNames) |->
        CASE n \in {"p.csproj", "q.csproj"} -> ".csproj" [] n = "main.py" -> ".py"
          [] n = "app.xcodeproj" -> ".xcodeproj" [] n = "app.xcworkspace" -> ".xcworkspace" [] OTHER -> ""]

Dotted == {".build", ".git", ".venv"}
Generic == {"base", "env"}
LowerCase(name) == IF name = "Base" THEN "base" ELSE name
System == {<<"s">>}

------------------------------------------------------------------------------
(* Pieces of a disk, relative to the directory they are put in.             *)

Plain == [valid |-> TRUE, patterns |-> {}, outputs |-> {}, needs |-> {}]

Dirs(paths)       == [dirs |-> paths, files |-> <<>>, tracked |-> {}]
File(path, says)  == [dirs |-> {}, files |-> path :> (says @@ Plain), tracked |-> {}]
Tracked(path)     == [dirs |-> {}, files |-> path :> Plain, tracked |-> {path}]
None              == Dirs({})
Files(paths)      == [dirs |-> {}, files |-> [path \in paths |-> Plain], tracked |-> {}]

a ++ b == [dirs |-> a.dirs \union b.dirs, files |-> a.files @@ b.files, tracked |-> a.tracked \union b.tracked]

If(condition, piece) == IF condition THEN piece ELSE None

In(dir, piece) ==
    [dirs    |-> UNION {{dir \o p : p \in piece.dirs}, {SubSeq(dir, 1, n) : n \in 1 .. Len(dir)}},
     files   |-> [p \in {dir \o q : q \in DOMAIN piece.files} |->
                    piece.files[SubSeq(p, Len(dir) + 1, Len(p))]],
     tracked |-> {dir \o p : p \in piece.tracked}]

Repository(dir) == In(dir, Dirs({<<".git">>}))

DefaultExcludes ==
    [segments |-> {"node_modules", "dist", "build", "bin", "obj", ".git", ".venv", "__pycache__", "Pods", ".build"},
     absolute |-> {}, relative |-> {}]

Options == [roots |-> {<<"w">>}, exclude |-> DefaultExcludes]

Tool(type, version, path) ==
    [type |-> type, version |-> version, path |-> path, regenerable |-> FALSE]

Disk(piece) ==
    [dirs |-> piece.dirs \union {<<"w">>}, files |-> piece.files, tracked |-> piece.tracked,
     links |-> <<>>, git |-> TRUE, locked |-> {}, installed |-> <<>>]

World(piece) == [disk |-> Disk(In(<<"w">>, piece)), options |-> Options]

------------------------------------------------------------------------------
(* Node: a repository with a member, an unlisted project and a nested       *)
(* workspace.                                                               *)

Package(workspaces, patterns) ==
    [valid |-> TRUE, unity |-> FALSE, build |-> TRUE, workspaces |-> workspaces, patterns |-> patterns]

Package0    == Package("none", {})
Unity       == [Package0 EXCEPT !.unity = TRUE]
Broken      == [valid |-> FALSE]
Direct(n)   == [dir |-> [up |-> 0, down |-> <<n>>], all |-> FALSE]
AllIn(n)    == [dir |-> [up |-> 0, down |-> <<n>>], all |-> TRUE]
Beside(n)   == [dir |-> [up |-> 1, down |-> <<n>>], all |-> FALSE]

NodeAt(dir, package) == In(dir, File(<<"package.json">>, package) ++ Dirs({<<"node_modules">>, <<"dist">>}))
Lock(dir) == In(dir, Files({<<"package-lock.json">>}))

\* up: the workspace lists a project beside it
Monorepo(o) ==
    LET patterns == {AllIn(o.members)} \union (IF o.up THEN {Beside("x")} ELSE {})
        home == <<o.members, "a">>
        root == NodeAt(<<>>, IF o.declared = "unity" THEN Unity
                             ELSE Package(IF o.declared \in {"ok", "bad"} THEN o.declared ELSE "none", patterns))
                ++ If(o.declared = "pnpm", File(<<"pnpm-workspace.yaml">>, [valid |-> TRUE, patterns |-> patterns]))
                ++ If(o.declared = "torn", File(<<"pnpm-workspace.yaml">>, Broken))
        member == NodeAt(home, CASE o.member = "plain"  -> Package0
                                 [] o.member = "nested" -> Package("ok", {Direct("z")})
                                 [] o.member = "broken" -> Broken
                                 [] o.member = "unity"  -> Unity)
                  ++ If(o.member = "nested", NodeAt(home \o <<"z">>, Package0))
    IN  In(<<"m">>, root ++ member ++ NodeAt(<<"q">>, Package0)
                    ++ If("root" \in o.locks, Lock(<<>>)) ++ If("member" \in o.locks, Lock(home))
                    ++ If(o.git = "root", Repository(<<>>)) ++ If(o.git = "member", Repository(home))
                    ++ If(o.git = "unlisted", Repository(<<"q">>))
                    ++ If(o.tracked, In(home, Tracked(<<"node_modules", "z">>))))
        ++ NodeAt(<<"x">>, Package0)

MonorepoOptions ==
    [declared : {"none", "ok", "bad", "pnpm", "torn", "unity"}, member : {"plain", "nested", "broken", "unity"},
     members : {"pk", "build"}, locks : {{}, {"root"}, {"member"}},
     git : {"none", "root", "member", "unlisted"}, tracked : BOOLEAN, up : BOOLEAN]

NodeWorlds == {World(Monorepo(o)) : o \in {x \in MonorepoOptions : /\ (x.tracked => x.git # "none")
                                             /\ (x.declared \notin {"ok", "pnpm"} => ~x.up /\ x.members = "pk")}}

\* A workspace beside another, which has a project that the first lists.
Neighbours(own, theirs) ==
    LET list == [dir |-> [up |-> 1, down |-> <<"q", "x">>], all |-> FALSE]
    IN  In(<<"m">>, NodeAt(<<>>, Package("ok", {list})))
        ++ In(<<"q">>, NodeAt(<<>>, Package(theirs, {Direct(own)})) ++ NodeAt(<<"x">>, Package0) ++ NodeAt(<<"z">>, Package0))

NeighbourWorlds == {World(Neighbours(own, theirs)) : own \in {"x", "z"}, theirs \in {"none", "ok"}}

------------------------------------------------------------------------------
(* MSBuild: two projects side by side below a Directory.Build.props, with   *)
(* several versions of the tools that they need.                            *)

Out(up, down) == [name |-> "OutputPath", path |-> [up |-> up, down |-> down], conditional |-> FALSE]
Need(type, version) == [type |-> type, version |-> version, name |-> type, conditional |-> FALSE]

Build(outputs, needs) == [valid |-> TRUE, outputs |-> outputs, needs |-> needs]

SDKs == <<Tool("dotnet-sdk", <<8, 0, 12>>, <<"x", "a">>), Tool("dotnet-sdk", <<8, 0, 2>>, <<"x", "z">>),
          Tool("dotnet-sdk", <<9, 0>>, <<"s", "m">>), Tool("windows-sdk", <<10, 1>>, <<"x", "p">>),
          Tool("windows-sdk", <<10, 2>>, <<"x", "q">>)>>

Solution(o) ==
    LET out == CASE o.out = "none"        -> {}
                 [] o.out = "own"         -> {Out(0, <<"out">>)}
                 [] o.out = "bin"         -> {Out(0, <<"bin">>)}
                 [] o.out = "root"        -> {Out(0, <<>>)}
                 [] o.out = "deep"        -> {Out(0, <<"out", "x">>), Out(0, <<"out">>)}
                 [] o.out = "through"     -> {Out(0, <<"p.csproj", "x">>), Out(0, <<"out">>)}
                 [] o.out = "beside"      -> {Out(1, <<"q", "bin">>)}
                 [] o.out = "conditional" -> {[Out(0, <<"out">>) EXCEPT !.conditional = TRUE]}
        need == CASE o.need = "none"        -> {}
                  [] o.need = "series"      -> {Need("dotnet-sdk", <<8, 0>>)}
                  [] o.need = "exact"       -> {Need("windows-sdk", <<10, 1>>)}
                  [] o.need = "latest"      -> {Need("windows-sdk", <<>>), Need("dotnet-sdk", <<7>>)}
                  [] o.need = "conditional" -> {[Need("dotnet-sdk", <<8, 0>>) EXCEPT !.conditional = TRUE]}
        shared == CASE o.props = "none"   -> None
                    [] o.props = "shared" -> File(<<"Directory.Build.props">>,
                                                  Build({Out(0, <<"out">>)}, {Need("dotnet-sdk", <<9>>)}))
                    [] o.props = "broken" -> File(<<"Directory.Build.props">>, Broken)
    IN  In(<<"p">>, File(<<"p.csproj">>, Build(out, need)) ++ Dirs({<<"bin">>, <<"out">>, <<"out", "x">>})
                    ++ If(o.tracked, Tracked(<<"out", "x", "z">>)))
        ++ In(<<"q">>, File(<<"q.csproj">>, Build({}, {})) ++ Dirs({<<"bin">>, <<"obj">>}))
        ++ shared ++ If(o.git = "root", Repository(<<>>)) ++ If(o.git = "output", Repository(<<"p", "out">>))

SolutionOptions ==
    [out : {"none", "own", "bin", "root", "deep", "through", "beside", "conditional"},
     need : {"none", "series", "exact", "latest", "conditional"}, props : {"none", "shared", "broken"},
     git : {"none", "root", "output"}, tracked : BOOLEAN, runs : BOOLEAN]

BuildWorlds ==
    {[disk |-> [Disk(In(<<"w">>, Solution(o))) EXCEPT !.installed = SDKs, !.git = o.runs], options |-> Options]
        : o \in {x \in SolutionOptions : x.tracked \/ ~x.runs => x.git # "none"}}

------------------------------------------------------------------------------
(* Python: a project beside another one with an environment of its own.     *)

Env(name) == File(<<"environment.yml">>, [valid |-> TRUE, name |-> name])

CondaEnv(dir) == In(dir, Files({<<"conda-meta", "history">>}) ++ Dirs({<<"conda-meta">>}))

Condas == <<Tool("conda-env", <<>>, <<"x">>), Tool("conda-env", <<>>, <<"x", "envs", "x">>),
            Tool("conda-env", <<>>, <<"z", "envs", "x">>)>>

Snakes(o) ==
    LET requirements == File(<<"requirements.txt">>, [valid |-> TRUE, pinned |-> o.pinned])
        marks == CASE o.marks = "project"      -> File(<<"pyproject.toml">>, Plain)
                   [] o.marks = "requirements" -> requirements
                   [] o.marks = "both"         -> File(<<"pyproject.toml">>, Plain) ++ requirements
        env == CASE o.env = "none" -> None [] o.env = "torn" -> File(<<"environment.yml">>, Broken)
                 [] OTHER -> Env(o.env)
        home == CASE o.home = "venv"  -> In(<<".venv">>, Files({<<"pyvenv.cfg">>}))
                  [] o.home = "conda" -> CondaEnv(<<"env">>)
                  [] o.home = "both"  -> In(<<"env">>, Files({<<"pyvenv.cfg">>})) ++ CondaEnv(<<"env">>)
    IN  In(<<"a">>, marks ++ env ++ home ++ Dirs({<<"__pycache__">>, <<"lib">>})
                    ++ If(o.source # "none", Files({IF o.source = "root" THEN <<"main.py">> ELSE <<"lib", "main.py">>}))
                    ++ If(o.locked = "uv", Files({<<"uv.lock">>})))
        ++ In(<<"q">>, Files({<<"pyproject.toml">>}) ++ Env("env") ++ CondaEnv(<<IF o.twins THEN "env" ELSE "x">>))

SnakesOptions ==
    [marks : {"project", "requirements", "both"}, pinned : BOOLEAN, source : {"none", "root", "lib"},
     env : {"none", "torn", "x", "Base", "z"}, home : {"venv", "conda", "both"},
     locked : {"", "uv", "lib", "requirements.txt"}, twins : BOOLEAN]

PythonWorlds ==
    {[disk |-> [Disk(In(<<"w">>, Snakes(o))) EXCEPT
                   !.installed = Condas,
                   !.locked = IF o.locked \in {"", "uv"} THEN {} ELSE {<<"w", "a", o.locked>>}],
      options |-> Options]
        : o \in {x \in SnakesOptions : (x.source = "none" => x.marks = "requirements")
                                        /\ (x.locked = "requirements.txt" => x.marks # "project")
                                        /\ (x.twins \/ x.pinned => x.env \in {"none", "x"})}}

------------------------------------------------------------------------------
(* The other build tools, with outputs that are links or hold what Git      *)
(* tracks.                                                                  *)

Ecosystem(o) ==
    LET output == CASE o.kind \in {"pom.xml", "cargo.toml"}      -> "target"
                    [] o.kind = "app.xcodeproj"                   -> "Pods"
                    [] o.kind = "Package.swift"                   -> ".build"
                    [] o.kind \in {"go.mod", "build.gradle"}      -> "build"
        says   == [valid |-> TRUE, android |-> o.locked]
        locks  == Files({<<"Cargo.lock">>, <<"Podfile.lock">>, <<"Package.resolved">>})
        own    == CASE o.kind = "app.xcodeproj" ->
                          Files({<<"app.xcodeproj", "project.pbxproj">>, <<"Podfile">>})
                          ++ Dirs({<<"app.xcodeproj">>, <<output>>})
                          ++ In(<<"app.xcworkspace">>,
                                File(<<"contents.xcworkspacedata">>,
                                     [valid |-> TRUE, refs |-> {[up |-> 0, down |-> <<"app.xcodeproj">>],
                                                                [up |-> 1, down |-> <<"q", "app.xcodeproj">>]}]))
                    [] o.kind = "Package.swift" -> Files({<<"Package.swift">>}) ++ Dirs({<<output>>})
                    [] OTHER -> File(<<o.kind>>, says) ++ Dirs({<<output>>})
    IN  In(<<"a">>, own ++ If(o.locked, locks))
        ++ In(<<"q">>, CASE o.other = "torn" -> Dirs({<<"app.xcodeproj">>})
                              ++ In(<<"app.xcworkspace">>, File(<<"contents.xcworkspacedata">>, Broken))
                         [] o.other = "empty" -> Dirs({<<"app.xcworkspace">>})
                         [] o.other = "xcode" -> In(<<"app.xcodeproj">>, Files({<<"project.pbxproj">>})))
        ++ If(o.git # "none", Repository(IF o.git = "root" THEN <<>> ELSE <<"a">>))
        ++ If(o.git = "tracked", In(<<"a", output>>, Tracked(<<"z">>)))

EcosystemOptions ==
    [kind : {"pom.xml", "cargo.toml", "go.mod", "build.gradle", "app.xcodeproj", "Package.swift"},
     other : {"torn", "empty", "xcode"}, locked : BOOLEAN, git : {"none", "root", "tracked"},
     runs : BOOLEAN, link : BOOLEAN, xcode : BOOLEAN]

\* link: the output is a link to a directory outside the root
EcosystemWorlds ==
    {LET plain  == Disk(In(<<"w">>, Ecosystem(o)))
         outputs == {<<"w", "a", n>> : n \in {"target", "build", ".build", "Pods"}} \intersect plain.dirs
         disk0  == [plain EXCEPT !.git = o.runs,
                                 !.installed = IF o.xcode THEN <<Tool("xcode-install", <<16>>, <<"x", "x">>)>> ELSE <<>>]
     IN  [disk |-> IF ~o.link THEN disk0
                   ELSE [disk0 EXCEPT !.dirs = (@ \ outputs) \union {<<"x">>}, !.links = [p \in outputs |-> <<"x">>]],
          options |-> Options]
        : o \in {x \in EcosystemOptions : /\ (x.xcode => x.kind \in {"app.xcodeproj", "Package.swift"})
                                           /\ (x.link => x.git # "tracked")
                                           /\ (~x.runs => x.git # "none")}}

------------------------------------------------------------------------------
(* Roots below one another, exclusions, links to projects and directories   *)
(* that cannot be listed, around a monorepo.                                *)

PlainMonorepo == [declared |-> "ok", member |-> "plain", members |-> "pk", locks |-> {"root"},
                  git |-> "root", tracked |-> FALSE, up |-> FALSE]

RootOptions ==
    [roots : {{<<"w">>}, {<<"w">>, <<"w", "m", "pk">>}, {<<"w", "x">>, <<"w", "m">>}, {<<"w", "l", "pk">>, <<"w", "x">>}},
     segments : {{"node_modules", "dist"}, {"node_modules", "dist", "pk"}}, absolute : {{}, {<<"w", "m", "pk">>}},
     relative : {{}, {<<"pk">>}}, locked : {{}, {<<"w", "m">>}, {<<"w", "m", "pk">>}, {<<"w", "m", "q">>}},
     link : BOOLEAN]

RootWorlds ==
    {LET disk0 == [Disk(In(<<"w">>, Monorepo([PlainMonorepo EXCEPT !.tracked = o.link]))) EXCEPT !.locked = o.locked]
     IN  [disk |-> IF ~o.link THEN disk0
                   ELSE [disk0 EXCEPT !.links = [p \in {<<"w", "l">>} |-> <<"w", "m">>]],
          options |-> [roots |-> o.roots,
                       exclude |-> [segments |-> o.segments, absolute |-> o.absolute, relative |-> o.relative]]]
        : o \in RootOptions}

AllWorlds == NodeWorlds \union NeighbourWorlds \union BuildWorlds \union PythonWorlds \union EcosystemWorlds \union RootWorlds
==============================================================================
