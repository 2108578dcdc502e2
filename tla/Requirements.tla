------------------------------ MODULE Requirements ------------------------------
(***************************************************************************)
(* Which installed tool a project requires: the dependency analyzers of     *)
(* dependency_analyzer_adapters.go and the matching of versions in          *)
(* internal/adapter/msbuild. A version is the sequence of its numbers;      *)
(* "Latest" is the empty one, which every version begins with. Declarations *)
(* that are no version are left out: they match nothing.                    *)
(***************************************************************************)
EXTENDS Integers, SequencesExt

CONSTANTS
    Lower(_),       \* a name in lower case
    GenericEnvNames \* names of environments that any project may use, in lower case

\* strings.EqualFold
SameName(a, b) == Lower(a) = Lower(b)

IsGenericEnvName(name) == Lower(name) \in GenericEnvNames

HasVersionPrefix(version, prefix) == IsPrefix(prefix, version)

\* Mutant: numbers are compared as texts, by their first digit.
LaterAsText(a, b) ==
    LET digit(n) == IF n >= 10 THEN n \div 10 ELSE n
    IN  \/ IsStrictPrefix(b, a)
        \/ \E i \in DOMAIN a \intersect DOMAIN b : digit(a[i]) > digit(b[i]) /\ \A j \in 1 .. i - 1 : a[j] = b[j]

\* compareVersions > 0
Later(a, b) ==
    \/ IsStrictPrefix(b, a)
    \/ \E i \in DOMAIN a \intersect DOMAIN b : a[i] > b[i] /\ \A j \in 1 .. i - 1 : a[j] = b[j]

HighestVersion(tools) == {t \in tools : \A other \in tools : ~Later(other.version, t.version)}

\* The matches of a declared version, each with the kind of its evidence: the
\* SDK of exactly that version, or the highest that begins with it.
MatchWindowsSDK(version, tools) ==
    LET sdks  == {t \in tools : t.type = "windows-sdk"}
        exact == {t \in sdks : t.version = version}
    IN  IF exact # {} THEN {[tool |-> t, kind |-> "DECLARED"] : t \in exact}
        ELSE {[tool |-> t, kind |-> "RESOLVED"]
                : t \in HighestVersion({t \in sdks : HasVersionPrefix(t.version, version)})}

MatchDotNetSDK(version, tools) ==
    {[tool |-> t, kind |-> "RESOLVED"]
        : t \in HighestVersion({t \in tools : t.type = "dotnet-sdk" /\ HasVersionPrefix(t.version, version)})}

\* Environments outside a directory "envs" are all called base.
EnvNameFromPath(path) ==
    IF Len(path) > 1 /\ path[Len(path) - 1] = "envs" THEN Last(path) ELSE "base"

\* An environment inside a project is called after its directory.
EnvName(t) == IF t.scoped THEN Last(t.path) ELSE EnvNameFromPath(t.path)

\* The environment of that name that was found first.
MatchEnv(name, tools) ==
    LET envs == {t \in tools : t.type = "conda-env" /\ SameName(EnvName(t), name)}
    IN  {[tool |-> t, kind |-> IF IsGenericEnvName(name) THEN "INFERRED" ELSE "DECLARED"]
            : t \in {t \in envs : \A other \in envs : t.rank <= other.rank}}

\* What meets a need of a project. A condition is not evaluated.
MeetsNeed(need, tools) ==
    CASE need.conditional -> {}
      [] ~need.conditional /\ need.type = "windows-sdk" -> MatchWindowsSDK(need.version, tools)
      [] ~need.conditional /\ need.type = "dotnet-sdk"  -> MatchDotNetSDK(need.version, tools)
      [] ~need.conditional /\ need.type = "conda-env"   -> MatchEnv(need.name, tools)

\* Building an Xcode project takes the active Xcode; a Swift package does not.
MatchXcode(project, tools) ==
    {[tool |-> t, kind |-> "INFERRED"]
        : t \in {t \in tools : project.type = "xcode" /\ t.type = "xcode-install"}}

Edge(manifest, match) ==
    [project |-> manifest, relation |-> "REQUIRES", type |-> match.tool.type,
     version |-> match.tool.version, path |-> match.tool.path, kind |-> match.kind]

RequiresEdges(projects, needs, tools) ==
    (UNION {{Edge(need.owner, match) : match \in MeetsNeed(need, tools)} : need \in needs})
    \union UNION {{Edge(p.manifest, match) : match \in MatchXcode(p, tools)} : p \in projects}

\* What is reported as not analysed. A need for an SDK that is not there is not.
Unverified(projects, needs, tools) ==
    {need.owner : need \in {n \in needs :
        \/ n.conditional
        \/ n.type = "conda-env" /\ (MatchEnv(n.name, tools) = {} \/ IsGenericEnvName(n.name))}}
    \union {p.manifest : p \in {q \in projects :
        \/ q.type = "swiftpm"
        \/ q.type = "xcode" /\ MatchXcode(q, tools) = {}}}
==============================================================================
