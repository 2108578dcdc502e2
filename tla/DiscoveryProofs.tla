---------------------------- MODULE DiscoveryProofs ----------------------------
(***************************************************************************)
(* What is proved of a scan, for every disk that is a tree and every order  *)
(* of visits: a row that is SAFE is no link and holds no tracked file       *)
(* (SafeRowsAreUntracked), no marker that the walk comes past is lost       *)
(* between the detectors and the result (MarkersAreKept), a member is       *)
(* installed with the lockfile of its workspace (LockfileIsShared), a row   *)
(* that is SAFE is owned by a project that says how it is made again        *)
(* (SafeHasAnOwner), the tools that projects need are blocked               *)
(* (NeedsAreBlocked), and the result is that of the serial walk             *)
(* (OrderIsFree).                                                           *)
(***************************************************************************)
EXTENDS DiscoveryProperties, TLAPS, WellFoundedInduction, SequenceTheorems, FiniteSetTheorems

------------------------------------------------------------------------------
(* Sequences.                                                                *)

\* A set of natural numbers has a least element.
LEMMA LeastNatural ==
    ASSUME NEW T \in SUBSET Nat, T # {}
    PROVE  \E n \in T : \A m \in T : n <= m
  <1> DEFINE R == OpToRel(<, Nat)
  <1>1. IsWellFoundedOn(R, Nat)
    BY NatLessThanWellFounded
  <1>2. \A x, y \in Nat : x < y => <<x, y>> \in R
    BY DEF OpToRel
  <1> HIDE DEF R
  <1>3. PICK n \in T : \A m \in T : ~(<<m, n>> \in R)
    BY <1>1, WFMin
  <1>4. \A m \in T : m \in Nat
    OBVIOUS
  <1>5. \A m \in T : ~(m < n)
    BY <1>2, <1>3, <1>4
  <1>6. \A m \in T : n <= m
    BY <1>4, <1>5
  <1> QED
    BY <1>6

\* What holds of 0 and of each successor holds of all.
LEMMA Induction ==
    ASSUME NEW S, 0 \in S, \A n \in Nat : n \in S => n + 1 \in S
    PROVE  Nat \subseteq S
  <1> DEFINE T == {n \in Nat : n \notin S}
  <1> SUFFICES ASSUME T # {}
               PROVE  FALSE
    OBVIOUS
  <1>1. PICK n \in T : \A m \in T : n <= m
    BY LeastNatural
  <1>2. n # 0 /\ n - 1 \in Nat /\ n - 1 \notin T
    BY <1>1
  <1> QED
    BY <1>1, <1>2

\* The elements of a sequence.
LEMMA Elements ==
    ASSUME NEW S, NEW s \in Seq(S)
    PROVE  ToSet(s) \subseteq S /\ \A x : x \in ToSet(s) <=> \E i \in 1 .. Len(s) : x = s[i]
  <1>1. DOMAIN s = 1 .. Len(s) /\ \A i \in 1 .. Len(s) : s[i] \in S
    OBVIOUS
  <1> QED
    BY <1>1 DEF ToSet

\* Joining two sequences joins their elements.
LEMMA JoinedElements ==
    ASSUME NEW S, NEW s \in Seq(S), NEW t \in Seq(S)
    PROVE  s \o t \in Seq(S) /\ ToSet(s \o t) = ToSet(s) \union ToSet(t)
  <1> DEFINE u == s \o t
             m == Len(s)
             n == Len(t)
  <1>1. u \in Seq(S) /\ Len(u) = m + n /\ m \in Nat /\ n \in Nat
    BY ConcatProperties
  <1>2. \A i \in 1 .. m + n : u[i] = IF i <= m THEN s[i] ELSE t[i - m]
    BY ConcatProperties
  <1> HIDE DEF u, m, n
  <1>3. \A i \in 1 .. m : i \in 1 .. m + n /\ u[i] = s[i]
    BY <1>1, <1>2
  <1>4. \A i \in 1 .. n : m + i \in 1 .. m + n /\ u[m + i] = t[i]
    BY <1>1, <1>2
  <1>5. \A i \in 1 .. m + n : (i \in 1 .. m /\ u[i] = s[i]) \/ (i - m \in 1 .. n /\ u[i] = t[i - m])
    BY <1>1, <1>2
  <1>6. \A x : x \in ToSet(u) <=> \E i \in 1 .. m + n : x = u[i]
    BY <1>1, Elements
  <1>7. \A x : x \in ToSet(s) <=> \E i \in 1 .. m : x = s[i]
    BY Elements DEF m
  <1>8. \A x : x \in ToSet(t) <=> \E i \in 1 .. n : x = t[i]
    BY Elements DEF n
  <1>9. \A x : x \in ToSet(u) => x \in ToSet(s) \/ x \in ToSet(t)
    BY <1>5, <1>6, <1>7, <1>8
  <1>10. \A x : x \in ToSet(s) \/ x \in ToSet(t) => x \in ToSet(u)
    BY <1>3, <1>4, <1>6, <1>7, <1>8
  <1>11. ToSet(u) = ToSet(s) \union ToSet(t)
    BY <1>9, <1>10
  <1> QED
    BY <1>1, <1>11 DEF u

\* f joins the first n sequences of s.
Joins(f, s, n) ==
    f = [i \in 1 .. n |-> IF i = 1 THEN s[i] ELSE f[i - 1] \o s[i]]

\* Sequences can be joined.
LEMMA JoinExists ==
    ASSUME NEW n \in Nat, NEW s
    PROVE  \E f : Joins(f, s, n)
  <1> DEFINE S == {k \in Nat : \E f : Joins(f, s, k)}
  <1>1. 0 \in S
    <2>1. Joins([i \in 1 .. 0 |-> <<>>], s, 0)
      BY DEF Joins
    <2> QED
      BY <2>1
  <1>2. ASSUME NEW k \in Nat, k \in S
        PROVE  k + 1 \in S
    <2>1. PICK f : Joins(f, s, k)
      BY <1>2
    <2> DEFINE new == IF k + 1 = 1 THEN s[k + 1] ELSE f[k] \o s[k + 1]
               g == [i \in 1 .. k + 1 |-> IF i = k + 1 THEN new ELSE f[i]]
    <2>2. ASSUME NEW i \in 1 .. k + 1
          PROVE  g[i] = IF i = 1 THEN s[i] ELSE g[i - 1] \o s[i]
      <3>1. CASE i = k + 1
        BY <3>1
      <3>2. CASE i # k + 1
        <4>1. i \in 1 .. k /\ i # k + 1 /\ g[i] = f[i]
          BY <3>2
        <4>2. i # 1 => i - 1 \in 1 .. k /\ g[i - 1] = f[i - 1]
          BY <4>1
        <4>3. f[i] = IF i = 1 THEN s[i] ELSE f[i - 1] \o s[i]
          BY <2>1, <4>1 DEF Joins
        <4> QED
          BY <4>1, <4>2, <4>3
      <3> QED
        BY <3>1, <3>2
    <2>3. g = [i \in 1 .. k + 1 |-> g[i]]
      OBVIOUS
    <2> HIDE DEF g
    <2>4. Joins(g, s, k + 1)
      BY <2>2, <2>3 DEF Joins
    <2> QED
      BY <2>4
  <1> HIDE DEF S
  <1>3. Nat \subseteq S
    BY <1>1, <1>2, Induction
  <1> QED
    BY <1>3 DEF S

\* What FlattenSeq holds is what the sequences hold that it joins.
LEMMA FlattenElements ==
    ASSUME NEW S, NEW s \in Seq(Seq(S))
    PROVE  /\ FlattenSeq(s) \in Seq(S)
           /\ \A x : x \in ToSet(FlattenSeq(s)) <=> \E i \in DOMAIN s : x \in ToSet(s[i])
  <1> DEFINE n == Len(s)
             join == CHOOSE f : Joins(f, s, n)
             Holds(k) == join[k] \in Seq(S) /\ \A x : x \in ToSet(join[k]) <=> \E i \in 1 .. k : x \in ToSet(s[i])
  <1>1. n \in Nat /\ DOMAIN s = 1 .. n /\ \A i \in 1 .. n : s[i] \in Seq(S)
    OBVIOUS
  <1>2. CASE n = 0
    <2>1. s = <<>> /\ FlattenSeq(s) = s /\ DOMAIN s = {}
      BY <1>1, <1>2 DEF FlattenSeq
    <2>2. <<>> \in Seq(S) /\ ToSet(<<>>) = {}
      BY DEF ToSet
    <2> QED
      BY <2>1, <2>2
  <1>3. CASE n # 0
    <2>1. FlattenSeq(s) = join[n]
      BY <1>3 DEF FlattenSeq, Joins
    <2>2. Joins(join, s, n)
      BY <1>1, JoinExists
    <2> HIDE DEF join, n
    <2>3. \A i \in 1 .. n : (i = 1 => join[i] = s[i]) /\ (i # 1 => join[i] = join[i - 1] \o s[i])
      BY <2>2 DEF Joins
    <2> DEFINE T == {k \in Nat : k \in 1 .. n => Holds(k)}
    <2>4. 0 \in T
      OBVIOUS
    <2>5. ASSUME NEW k \in Nat, k \in T
          PROVE  k + 1 \in T
      <3> SUFFICES ASSUME k + 1 \in 1 .. n
                   PROVE  Holds(k + 1)
        OBVIOUS
      <3>1. CASE k = 0
        <4>1. join[1] = s[1] /\ s[1] \in Seq(S)
          BY <1>1, <2>3, <3>1
        <4>2. \A i \in 1 .. 1 : i = 1
          OBVIOUS
        <4>3. 1 \in 1 .. 1 /\ k + 1 = 1
          BY <3>1
        <4> QED
          BY <4>1, <4>2, <4>3
      <3>2. CASE k # 0
        <4>1. k \in 1 .. n /\ Holds(k)
          <5>1. k \in 1 .. n
            BY <1>1, <3>2
          <5> QED
            BY <2>5, <5>1
        <4>2. join[k + 1] = join[k] \o s[k + 1] /\ s[k + 1] \in Seq(S)
          <5>1. k + 1 # 1 /\ k + 1 - 1 = k
            BY <3>2
          <5>2. PICK i \in 1 .. n : i = k + 1
            OBVIOUS
          <5>3. join[i] = join[i - 1] \o s[i]
            BY <2>3, <5>1, <5>2
          <5>4. s[i] \in Seq(S)
            BY <1>1
          <5> QED
            BY <5>1, <5>2, <5>3, <5>4
        <4> HIDE DEF Holds
        <4>3. join[k] \in Seq(S)
          BY <4>1 DEF Holds
        <4>4. join[k + 1] \in Seq(S) /\ ToSet(join[k + 1]) = ToSet(join[k]) \union ToSet(s[k + 1])
          BY <4>2, <4>3, JoinedElements
        <4>5. \A i : i \in 1 .. k + 1 <=> i \in 1 .. k \/ i = k + 1
          OBVIOUS
        <4>6. \A x : x \in ToSet(join[k]) <=> \E i \in 1 .. k : x \in ToSet(s[i])
          BY <4>1 DEF Holds
        <4>7. \A x : x \in ToSet(join[k + 1]) <=> \E i \in 1 .. k + 1 : x \in ToSet(s[i])
          BY <4>4, <4>5, <4>6
        <4> QED
          BY <4>4, <4>7 DEF Holds
      <3> QED
        BY <3>1, <3>2
    <2> HIDE DEF T, Holds
    <2>6. Nat \subseteq T
      BY <2>4, <2>5, Induction
    <2>7. Holds(n)
      BY <1>1, <1>3, <2>6 DEF T
    <2> QED
      BY <1>1, <2>1, <2>7 DEF Holds
  <1> QED
    BY <1>2, <1>3

\* The elements of s that are in K, in the form in which Those unfolds.
Picked(s, K) == FlattenSeq([i \in DOMAIN s |-> IF s[i] \in K THEN <<s[i]>> ELSE <<>>])

\* They are picked, and nothing else.
LEMMA PickedElements ==
    ASSUME NEW S, NEW s \in Seq(S), NEW K
    PROVE  Picked(s, K) \in Seq(S) /\ ToSet(Picked(s, K)) = ToSet(s) \intersect K
  <1> DEFINE each == [i \in DOMAIN s |-> IF s[i] \in K THEN <<s[i]>> ELSE <<>>]
  <1>1. Len(s) \in Nat /\ DOMAIN s = 1 .. Len(s) /\ \A i \in 1 .. Len(s) : s[i] \in S
    OBVIOUS
  <1>2. \A i \in DOMAIN s : each[i] \in Seq(S) /\ ToSet(each[i]) = {s[i]} \intersect K
    <2> SUFFICES ASSUME NEW i \in DOMAIN s
                 PROVE  each[i] \in Seq(S) /\ ToSet(each[i]) = {s[i]} \intersect K
      OBVIOUS
    <2>1. ToSet(<<s[i]>>) = {s[i]} /\ ToSet(<<>>) = {}
      BY DEF ToSet
    <2>2. s[i] \in S
      BY <1>1
    <2>3. <<s[i]>> \in Seq(S) /\ <<>> \in Seq(S)
      BY <2>2
    <2> QED
      BY <2>1, <2>3
  <1>3. each \in Seq(Seq(S)) /\ DOMAIN each = DOMAIN s
    <2>1. each \in [1 .. Len(s) -> Seq(S)]
      BY <1>1, <1>2
    <2> QED
      BY <1>1, <2>1
  <1> HIDE DEF each
  <1>4. FlattenSeq(each) \in Seq(S) /\ \A x : x \in ToSet(FlattenSeq(each)) <=> \E i \in DOMAIN s : x \in ToSet(each[i])
    BY <1>3, FlattenElements
  <1>5. \A x : x \in ToSet(s) <=> \E i \in DOMAIN s : x = s[i]
    BY DEF ToSet
  <1>6. ToSet(FlattenSeq(each)) = ToSet(s) \intersect K
    BY <1>2, <1>4, <1>5
  <1> QED
    BY <1>4, <1>6 DEF each, Picked

------------------------------------------------------------------------------
(* What is on the disk stays, and with it what the detectors say of it.      *)

\* What is on the disk stays.
LEMMA FileTreeStays ==
    ASSUME disk' = disk
    PROVE  /\ \A p : /\ Real(p)' = Real(p) /\ IsDir(p)' = IsDir(p) /\ IsFile(p)' = IsFile(p)
                     /\ Exists(p)' = Exists(p) /\ IsLink(p)' = IsLink(p) /\ CanRead(p)' = CanRead(p)
                     /\ CanList(p)' = CanList(p) /\ Says(p)' = Says(p) /\ Kind(p)' = Kind(p)
                     /\ Entries(p)' = Entries(p) /\ Listing(p)' = Listing(p)
           /\ \A p : FindRepoRoot(p)' = FindRepoRoot(p)
           /\ \A q, p : HasTrackedFiles(q, p)' = HasTrackedFiles(q, p)
           /\ \A Q, p : TrackedAbsent(Q, p)' = TrackedAbsent(Q, p)
  <1>1. \A p : Real(p)' = Real(p)
    BY DEF Real, Links
  <1>2. \A p : IsDir(p)' = IsDir(p) /\ IsFile(p)' = IsFile(p)
    BY <1>1 DEF IsDir, IsFile
  <1>3. \A p : Exists(p)' = Exists(p)
    BY <1>2 DEF Exists
  <1>4. \A p : IsLink(p)' = IsLink(p)
    BY <1>1 DEF IsLink
  <1>5. \A p : CanRead(p)' = CanRead(p) /\ CanList(p)' = CanList(p)
    BY <1>1, <1>2 DEF CanRead, CanList
  <1>6. \A p : Says(p)' = Says(p)
    BY <1>1 DEF Says
  <1>7. \A p : Kind(p)' = Kind(p)
    BY <1>2, <1>4 DEF Kind
  <1>8. \A p : Entries(p)' = Entries(p)
    BY <1>1 DEF Entries
  <1>9. \A p : Listing(p)' = Listing(p)
    BY <1>8 DEF Listing, Those
  <1>10. \A p : FindRepoRoot(p)' = FindRepoRoot(p)
    BY <1>3 DEF FindRepoRoot, Nearest
  <1>11. \A q, p : HasTrackedFiles(q, p)' = HasTrackedFiles(q, p)
    BY <1>1, <1>10 DEF HasTrackedFiles
  <1>12. \A Q, p : TrackedAbsent(Q, p)' = TrackedAbsent(Q, p)
    BY <1>11 DEF TrackedAbsent
  <1> QED
    BY <1>1, <1>2, <1>3, <1>4, <1>5, <1>6, <1>7, <1>8, <1>9, <1>10, <1>11, <1>12

\* So does what all detectors rest on,
LEMMA CommonStays ==
    ASSUME disk' = disk
    PROVE  /\ \A m : Reads(m)' = Reads(m)
           /\ \A project, path, type, regenerable, kind :
                Output(project, path, type, regenerable, kind)' = Output(project, path, type, regenerable, kind)
           /\ \A root, names : ArtifactNames(root, names)' = ArtifactNames(root, names)
           /\ \A outputs, root : Unanswered(outputs, root)' = Unanswered(outputs, root)
           /\ \A project, outputs : WithOutputs(project, outputs)' = WithOutputs(project, outputs)
  <1> USE FileTreeStays
  <1>1. \A m : Reads(m)' = Reads(m)
    BY DEF Reads
  <1>2. \A root, r : ProjectArtifactCleanupEvidence(root, r)' = ProjectArtifactCleanupEvidence(root, r)
    BY DEF ProjectArtifactCleanupEvidence
  <1>3. \A project, path, type, regenerable, kind :
            Output(project, path, type, regenerable, kind)' = Output(project, path, type, regenerable, kind)
    BY <1>2 DEF Output
  <1>4. \A root, names : ArtifactNames(root, names)' = ArtifactNames(root, names)
    BY DEF ArtifactNames
  <1>5. \A outputs, root : Unanswered(outputs, root)' = Unanswered(outputs, root)
    BY DEF Unanswered
  <1>6. \A project, outputs : WithOutputs(project, outputs)' = WithOutputs(project, outputs)
    BY <1>5 DEF WithOutputs
  <1> QED
    BY <1>1, <1>3, <1>4, <1>5, <1>6

\* and what each reports.
LEMMA GitStays ==
    ASSUME disk' = disk
    PROVE  \A entry : GitProject(entry)' = GitProject(entry)
  BY FileTreeStays DEF GitProject

\* of a manifest of Maven, Cargo, Go or Gradle,
LEMMA EcosystemStays ==
    ASSUME disk' = disk
    PROVE  \A entry : EcosystemProject(entry)' = EcosystemProject(entry)
  <1> USE FileTreeStays, CommonStays
  <1>1. \A project : EcosystemBuildArtifact(project)' = EcosystemBuildArtifact(project)
    BY DEF EcosystemBuildArtifact
  <1>2. \A m : EcosystemType(m)' = EcosystemType(m)
    BY DEF EcosystemType
  <1> QED
    BY <1>1, <1>2 DEF EcosystemProject

\* of a Node project with its workspace,
LEMMA NodeStays ==
    ASSUME disk' = disk
    PROVE  /\ \A entry : NodeProject(entry)' = NodeProject(entry)
           /\ \A dir : NodeCanDetect(dir)' = NodeCanDetect(dir)
  <1> USE FileTreeStays, CommonStays
  <1>1. \A dir : NodeCanDetect(dir)' = NodeCanDetect(dir)
    BY DEF NodeCanDetect
  <1>2. ASSUME NEW root, NEW dirs
        PROVE  NodeArtifacts(root, dirs)' = NodeArtifacts(root, dirs)
    <2> DEFINE locked == \E dir \in dirs, name \in NodeLockfiles : Exists(Child(dir, name))
               builds == Reads(Manifest(root)) /\ Says(Manifest(root)).build
               output(name) ==
                 IF name = "node_modules"
                 THEN Output(NodeProjectAt(root), Child(root, name), "node-modules", locked,
                             IF locked THEN "DECLARED" ELSE "INFERRED")
                 ELSE Output(NodeProjectAt(root), Child(root, name), "build-output", builds, "INFERRED")
    <2>1. locked' = locked /\ builds' = builds
      OBVIOUS
    <2> HIDE DEF locked, builds
    <2>2. \A name : output(name)' = output(name)
      BY <2>1
    <2> HIDE DEF output
    <2>3. NodeArtifacts(root, dirs) = {output(name) : name \in ArtifactNames(root, NodeArtifactDirs)}
      BY DEF NodeArtifacts, output, locked, builds
    <2>4. NodeArtifacts(root, dirs)' = {output(name) : name \in ArtifactNames(root, NodeArtifactDirs)}'
      BY DEF NodeArtifacts, output, locked, builds
    <2> QED
      BY <2>2, <2>3, <2>4
  <1>3. \A root, patterns : ResolveMembers(root, patterns)' = ResolveMembers(root, patterns)
    <2>1. \A root, pattern : Glob(root, pattern)' = Glob(root, pattern)
      BY DEF Glob
    <2> QED
      BY <2>1 DEF ResolveMembers
  <1>4. \A root : DetectNodeWorkspace(root)' = DetectNodeWorkspace(root)
    BY <1>3 DEF DetectNodeWorkspace
  <1>5. \A root : WorkspaceFails(root)' = WorkspaceFails(root)
    BY DEF WorkspaceFails
  <1>6. ASSUME NEW entry
        PROVE  NodeProject(entry)' = NodeProject(entry)
    <2> DEFINE workspaces == DetectNodeWorkspace(entry)
               listed == {dir \in {Parent(m) : m \in UNION {w.members : w \in workspaces}} : NodeCanDetect(dir)}
               roots == IF CanList(entry) THEN {dir \in listed : Reads(Manifest(dir))} ELSE {}
               outputs(dir) == IF CanList(dir) THEN NodeArtifacts(dir, {dir, entry}) ELSE {}
               reported == roots \union {entry}
               built == UNION {outputs(dir) : dir \in reported}
               unanswered == UNION {Unanswered(outputs(dir), dir) : dir \in reported}
               fails == IF WorkspaceFails(entry) \/ ~CanList(entry) THEN {entry} ELSE {}
               torn == {dir \in listed : CanList(entry) /\ (~Reads(Manifest(dir)) \/ ~CanList(dir))}
               all == [projects   |-> {NodeProjectAt(dir) : dir \in reported},
                       workspaces |-> workspaces,
                       resources  |-> built,
                       needs      |-> {},
                       issues     |-> unanswered \union fails \union torn]
    <2>1. workspaces' = workspaces
      BY <1>4
    <2>2. /\ NodeProject(entry) = IF ~NodeCanDetect(entry) THEN Empty
                                  ELSE IF ~Reads(Manifest(entry)) THEN Failure(entry) ELSE all
          /\ NodeProject(entry)' = IF ~NodeCanDetect(entry)' THEN Empty
                                   ELSE IF ~Reads(Manifest(entry))' THEN Failure(entry) ELSE all'
      BY DEF NodeProject
    <2> HIDE DEF workspaces
    <2>3. listed' = listed
      BY <1>1, <2>1
    <2> HIDE DEF listed
    <2>4. reported' = reported /\ torn' = torn
      BY <2>3
    <2> HIDE DEF reported, torn
    <2>5. \A dir : outputs(dir)' = outputs(dir)
      BY <1>2
    <2> HIDE DEF outputs
    <2>6. built' = built /\ unanswered' = unanswered
      BY <2>4, <2>5
    <2>7. fails' = fails
      BY <1>5
    <2> HIDE DEF built, unanswered, fails
    <2>8. all' = all
      BY <2>1, <2>4, <2>6, <2>7
    <2> QED
      BY <1>1, <2>2, <2>8
  <1> QED
    BY <1>1, <1>6

\* of a Python project with its environments,
LEMMA PythonStays ==
    ASSUME disk' = disk
    PROVE  \A entry : PythonProject(entry)' = PythonProject(entry)
  <1> USE FileTreeStays, CommonStays
  <1>1. \A root : ContainsPythonSource(root)' = ContainsPythonSource(root)
    BY DEF ContainsPythonSource
  <1>2. \A root : PythonFound(root)' = PythonFound(root)
    BY DEF PythonFound, Those
  <1>3. \A root : PythonCanDetect(root)' = PythonCanDetect(root)
    BY <1>1, <1>2 DEF PythonCanDetect
  <1>4. \A root : LockfileEvidence(root)' = LockfileEvidence(root)
    BY <1>2 DEF LockfileEvidence
  <1>5. \A root : DetectVenv(root)' = DetectVenv(root)
    BY DEF DetectVenv, Those
  <1>6. ASSUME NEW project
        PROVE  PythonArtifacts(project)' = PythonArtifacts(project)
    <2> DEFINE root == project.root
               kind == LockfileEvidence(root)
               venv == DetectVenv(root)
               cache == ArtifactNames(root, {n \in ToSet(Names) : n \in CacheDirNames \/ Extension[n] = ".egg-info"})
               made(name) == Output(project, Child(root, name), "python-venv", kind \in {"DECLARED", "PINNED"}, kind)
               kept(name) == Output(project, Child(root, name), "build-output", TRUE, "INFERRED")
               all == {made(name) : name \in venv} \union {kept(name) : name \in cache \ venv}
    <2>1. PythonArtifacts(project) = all /\ PythonArtifacts(project)' = all'
      BY DEF PythonArtifacts
    <2>2. kind' = kind /\ venv' = venv /\ cache' = cache
      BY <1>4, <1>5
    <2> HIDE DEF kind, venv, cache
    <2>3. \A name : made(name)' = made(name) /\ kept(name)' = kept(name)
      BY <2>2
    <2> HIDE DEF made, kept
    <2>4. all' = all
      BY <2>2, <2>3
    <2> QED
      BY <2>1, <2>4
  <1>7. \A root : EnvironmentFile(root)' = EnvironmentFile(root)
    BY DEF EnvironmentFile, Those
  <1>8. \A root : DeclaredEnvironments(root)' = DeclaredEnvironments(root)
    BY <1>7 DEF DeclaredEnvironments
  <1>9. \A project : LocalPrefixEnvs(project)' = LocalPrefixEnvs(project)
    BY <1>8 DEF LocalPrefixEnvs
  <1>10. \A m : Reads(m)' = Reads(m) /\ CanList(m)' = CanList(m)
    OBVIOUS
  <1>11. \A project, outputs : WithOutputs(project, outputs)' = WithOutputs(project, outputs)
    OBVIOUS
  <1> HIDE FileTreeStays, CommonStays
  <1>12. ASSUME NEW entry
         PROVE  PythonProject(entry)' = PythonProject(entry)
    <2> DEFINE project == Project("python", entry, Child(entry, PythonFound(entry)[1]))
               outputs == PythonArtifacts(project)
               alone == WithOutputs(project, outputs)
               local == LocalPrefixEnvs(project)
               names == DeclaredEnvironments(entry)
               torn == {f \in EnvironmentFile(entry) : ~Reads(f)}
               whole ==
                    IF ~PythonCanDetect(entry) THEN Empty
                    ELSE IF ~CanList(entry) THEN [Empty EXCEPT !.projects = {project}, !.issues = {entry}]
                    ELSE [alone EXCEPT
                            !.resources = @ \union {r \in local : r.path \notin {o.path : o \in outputs}},
                            !.needs     = {[owner |-> project.manifest, type |-> "conda-env", version |-> <<>>,
                                            name |-> name, conditional |-> FALSE] : name \in names},
                            !.issues    = @ \union {entry : file \in torn}]
    <2>1. PythonProject(entry) = whole /\ PythonProject(entry)' = whole'
      BY DEF PythonProject
    <2>2. project' = project /\ names' = names /\ torn' = torn
      BY <1>2, <1>7, <1>8, <1>10
    <2> HIDE DEF project, names, torn
    <2>3. outputs' = outputs /\ local' = local
      BY <1>6, <1>9, <2>2
    <2> HIDE DEF outputs, local
    <2>4. alone' = alone
      BY <1>11, <2>2, <2>3
    <2> HIDE DEF alone
    <2>5. whole' = whole
      BY <1>3, <1>10, <2>2, <2>3, <2>4
    <2> QED
      BY <2>1, <2>5
  <1> QED
    BY <1>12

\* of a project of MSBuild with what it inherits,
LEMMA MSBuildStays ==
    ASSUME disk' = disk
    PROVE  \A entry : MSBuildProject(entry)' = MSBuildProject(entry)
  <1> USE FileTreeStays, CommonStays
  <1>1. \A root : Props(root)' = Props(root)
    BY DEF Props, FindDirectoryBuildProps, Nearest
  <1>2. ASSUME NEW entry
        PROVE  Declared(entry)' = Declared(entry)
    <2> DEFINE props == Props(Parent(entry))
               file == CHOOSE file \in props : TRUE
    <2>1. props' = props
      BY <1>1
    <2>2. file' = file
      BY <2>1
    <2>3. /\ Declared(entry) = IF props = {} THEN [outputs |-> Says(entry).outputs, needs |-> Says(entry).needs]
                               ELSE MergeInherited(Says(entry), Says(file))
          /\ Declared(entry)' = IF props' = {} THEN [outputs |-> Says(entry)'.outputs, needs |-> Says(entry)'.needs]
                                ELSE MergeInherited(Says(entry)', Says(file)')
      BY DEF Declared
    <2> HIDE DEF file, props
    <2>4. Says(file)' = Says(file)
      BY <2>2
    <2> QED
      BY <2>1, <2>3, <2>4
  <1>3. \A root, outputs : LeadsThroughFile(root, outputs)' = LeadsThroughFile(root, outputs)
    BY DEF LeadsThroughFile
  <1>4. \A project, outputs : MSBuildArtifacts(project, outputs)' = MSBuildArtifacts(project, outputs)
    <2>1. \A root, outputs : ResolveDeclaredOutputDirs(root, outputs)' = ResolveDeclaredOutputDirs(root, outputs)
      BY DEF ResolveDeclaredOutputDirs
    <2> SUFFICES ASSUME NEW project, NEW outputs
                 PROVE  MSBuildArtifacts(project, outputs)' = MSBuildArtifacts(project, outputs)
      OBVIOUS
    <2> DEFINE declared == ResolveDeclaredOutputDirs(project.root, outputs)
               inferred == {Child(project.root, n) : n \in ArtifactNames(project.root, {"bin", "obj"})} \ declared
               output(path, kind) == Output(project, path, "build-output", TRUE, kind)
               all == {output(path, "DECLARED") : path \in declared} \union {output(path, "INFERRED") : path \in inferred}
    <2> DEFINE stopped == LeadsThroughFile(project.root, outputs)
    <2>2. /\ MSBuildArtifacts(project, outputs) = IF stopped THEN {} ELSE all
          /\ MSBuildArtifacts(project, outputs)' = IF stopped' THEN {} ELSE all'
      BY DEF MSBuildArtifacts
    <2>3. declared' = declared /\ inferred' = inferred
      BY <2>1
    <2> HIDE DEF declared, inferred
    <2>4. \A path, kind : output(path, kind)' = output(path, kind)
      OBVIOUS
    <2> HIDE DEF output
    <2>5. all' = all
      BY <2>3, <2>4
    <2> QED
      BY <1>3, <2>2, <2>5
  <1> QED
    BY <1>1, <1>2, <1>3, <1>4 DEF MSBuildProject

\* and of projects and workspaces of Xcode and Swift.
LEMMA XcodeStays ==
    ASSUME disk' = disk
    PROVE  /\ \A entry : XcodeProject(entry)' = XcodeProject(entry)
           /\ \A entry : XcodeWorkspace(entry)' = XcodeWorkspace(entry)
           /\ \A entry : SwiftPMProject(entry)' = SwiftPMProject(entry)
  <1> USE FileTreeStays, CommonStays
  <1>1. \A project, name, type, lockfile :
            LockedOutput(project, name, type, lockfile)' = LockedOutput(project, name, type, lockfile)
    BY DEF LockedOutput
  <1>2. \A project : Pods(project)' = Pods(project)
    BY <1>1 DEF Pods
  <1>3. \A entry, ending : IsBundle(entry, ending)' = IsBundle(entry, ending)
    BY DEF IsBundle
  <1>4. \A entry : XcodeMembers(entry)' = XcodeMembers(entry)
    BY DEF XcodeMembers
  <1>5. \A entry : XcodeProject(entry)' = XcodeProject(entry)
    BY <1>2, <1>3 DEF XcodeProject
  <1>6. \A entry : XcodeWorkspace(entry)' = XcodeWorkspace(entry)
    BY <1>3, <1>4 DEF XcodeWorkspace
  <1>7. \A entry : SwiftPMProject(entry)' = SwiftPMProject(entry)
    BY <1>1 DEF SwiftPMProject
  <1> QED
    BY <1>5, <1>6, <1>7

\* An entry of the walk is observed in the same way at any time.
LEMMA ObservationStays ==
    ASSUME disk' = disk
    PROVE  \A entry : Observe(entry)' = Observe(entry)
  BY GitStays, NodeStays, MSBuildStays, PythonStays, EcosystemStays, XcodeStays DEF Observe, Those

------------------------------------------------------------------------------
(* The verdict.                                                             *)

\* Four verified facts are four facts: a zero value is none.
LEMMA CompleteHasAllFacts ==
    ASSUME NEW evidence, Complete(evidence)
    PROVE  CleanupFacts \subseteq evidence
  <1>1. \A fact \in CleanupFacts : Normalize(evidence)[fact] = "VERIFIED_TRUE"
    BY DEF Complete
  <1>2. \A fact \in CleanupFacts :
            Normalize(evidence)[fact] = IF fact \in evidence THEN "VERIFIED_TRUE" ELSE "UNVERIFIED"
    BY DEF Normalize
  <1> QED
    BY <1>1, <1>2

\* Of the rules of the policy one alone says SAFE, and it asks for all facts.
LEMMA SafeIsComplete ==
    ASSUME NEW c, c.protected \in BOOLEAN, Classify(c) = "SAFE"
    PROVE  CleanupFacts \subseteq c.evidence
  <1>1. c.type \notin ManagedTypes
    BY DEF Classify, ManagedTypes
  <1>2. ~c.protected
    BY <1>1 DEF Classify, ManagedTypes
  <1>3. Complete(c.evidence)
    BY <1>1, <1>2 DEF Classify, ManagedTypes
  <1> QED
    BY <1>3, CompleteHasAllFacts

\* A required row has no evidence and is therefore never SAFE.
LEMMA RequiredIsNeverSafe ==
    ASSUME NEW r
    PROVE  RequiredRisk(r) # "SAFE"
  <1> DEFINE c == [type |-> r.type, regenerable |-> r.regenerable, required |-> TRUE,
                   protected |-> FALSE, evidence |-> {}]
  <1>1. Classify(c) # "SAFE"
    <2>1. c.protected \in BOOLEAN /\ c.evidence = {}
      OBVIOUS
    <2>2. "ProjectOwned" \in CleanupFacts
      BY DEF CleanupFacts
    <2> HIDE DEF c
    <2> QED
      BY <2>1, <2>2, SafeIsComplete
  <1> QED
    BY <1>1 DEF RequiredRisk

\* The enriched evidence of a SAFE report is complete.
LEMMA SafeIsEnriched ==
    ASSUME NEW r, ObservedRisk(r) = "SAFE"
    PROVE  CleanupFacts \subseteq EnrichCleanupEvidence(r)
  <1> DEFINE guarded == \E dir \in SystemManaged : Within(r.path, dir)
             c == [type |-> r.type, regenerable |-> r.regenerable, required |-> FALSE,
                   protected |-> guarded, evidence |-> EnrichCleanupEvidence(r)]
  <1>1. Classify(c) = "SAFE"
    BY DEF ObservedRisk
  <1>2. c.protected \in BOOLEAN /\ c.evidence = EnrichCleanupEvidence(r)
    OBVIOUS
  <1> HIDE DEF c
  <1> QED
    BY <1>1, <1>2, SafeIsComplete

------------------------------------------------------------------------------
(* The evidence.                                                            *)

Proven(path) ==
    /\ ~IsLink(path)
    /\ disk.git => \A repository \in FindRepoRoot(path) : ~HasTrackedFiles(repository, path)

\* Complete evidence was asked for at the output's own path, unless git failed.
LEMMA EnrichedIsProven ==
    ASSUME NEW r, CleanupFacts \subseteq EnrichCleanupEvidence(r)
    PROVE  Proven(r.path)
  <1>1. {"ProjectOwned", "KnownOutputPath"} \subseteq r.evidence
    BY DEF EnrichCleanupEvidence, CleanupFacts
  <1> DEFINE holds(fact) ==
        \/ fact \in {"ProjectOwned", "KnownOutputPath"}
        \/ fact = "ReparsePointFree" /\ ~IsLink(r.path)
        \/ /\ fact = "GitTrackedOriginalsAbsent"
           /\ \/ TrackedAbsent(FindRepoRoot(r.path), r.path)
              \/ ~disk.git /\ fact \in r.evidence
  <1>2. \A fact \in CleanupFacts : holds(fact)
    BY <1>1 DEF EnrichCleanupEvidence
  <1>3. holds("ReparsePointFree") /\ holds("GitTrackedOriginalsAbsent")
    BY <1>2 DEF CleanupFacts
  <1>4. ~IsLink(r.path)
    BY <1>3
  <1>5. ASSUME disk.git
        PROVE  TrackedAbsent(FindRepoRoot(r.path), r.path)
    BY <1>3, <1>5
  <1> QED
    BY <1>4, <1>5 DEF Proven, TrackedAbsent

\* Whichever of several owners reported last, and whatever requires the resource.
LEMMA SafeRowsAreProven ==
    ASSUME NEW reports, NEW edges, NEW row \in Rows(reports, edges), row.risk = "SAFE"
    PROVE  Proven(row.path)
  <1> DEFINE required == {Id(edge) : edge \in {e \in edges : e.relation = "REQUIRES"}}
  <1>1. PICK r \in LastReports(reports) : row = Row(r, Id(r) \in required)
    BY DEF Rows
  <1> HIDE DEF required
  <1>2. row.path = r.path /\ row.risk = IF Id(r) \in required THEN RequiredRisk(r) ELSE ObservedRisk(r)
    BY <1>1 DEF Row
  <1>3. ObservedRisk(r) = "SAFE"
    BY <1>2, RequiredIsNeverSafe
  <1> QED
    BY <1>2, <1>3, SafeIsEnriched, EnrichedIsProven

\* What is proven of a path is proven of the disk.
LEMMA ProvenOfTheDisk ==
    ASSUME disk' = disk, NEW path
    PROVE  Proven(path)' <=> Proven(path)
  BY FileTreeStays DEF Proven

------------------------------------------------------------------------------

SafeRowsProven == Ended => \A row \in result.rows : row.risk = "SAFE" => Proven(row.path)

\* The invariant holds at the start, of no rows.
LEMMA ProvenInitially == Init => SafeRowsProven
  BY DEF Init, SafeRowsProven, Ended

\* Every step keeps it.
LEMMA ProvenStep == SafeRowsProven /\ [Next]_vars => SafeRowsProven'
  <1> SUFFICES ASSUME SafeRowsProven, [Next]_vars
               PROVE  SafeRowsProven'
    OBVIOUS
  <1>1. CASE ScanDirectory
    BY <1>1 DEF ScanDirectory, SafeRowsProven, Ended
  <1>2. CASE Analyze
    <2>1. disk' = disk /\ result' = Analysis(found)
      BY <1>2 DEF Analyze
    <2>2. PICK reports, edges : Analysis(found).rows = Rows(reports, edges)
      BY DEF Analysis
    <2>3. \A row \in result'.rows : row.risk = "SAFE" => Proven(row.path)
      BY <2>1, <2>2, SafeRowsAreProven
    <2> QED
      BY <2>1, <2>3, ProvenOfTheDisk DEF SafeRowsProven
  <1>3. CASE UNCHANGED vars
    BY <1>3, ProvenOfTheDisk DEF vars, SafeRowsProven, Ended
  <1> QED
    BY <1>1, <1>2, <1>3 DEF Next

\* A SAFE row is no link and, where git answers, no file in it is tracked by the
\* repository around it: for every disk, every set of candidates and every order.
THEOREM SafeRowsAreUntracked == Spec => []SafeIsUntracked
  <1>1. SafeRowsProven => SafeIsUntracked
    BY DEF SafeRowsProven, SafeIsUntracked, Proven
  <1> QED
    BY <1>1, ProvenInitially, ProvenStep, PTL DEF Spec

------------------------------------------------------------------------------
(* What a directory holds, and what is observed of it.                       *)

\* What the detectors could report of an entry.
Detected(entry) ==
    {GitProject(entry), NodeProject(entry), MSBuildProject(entry), PythonProject(entry),
     EcosystemProject(entry), XcodeProject(entry), XcodeWorkspace(entry), SwiftPMProject(entry)}

\* An observation is what the detectors report.
LEMMA ObserveElements ==
    ASSUME NEW entry
    PROVE  /\ Observe(entry) \in Seq(Detected(entry))
           /\ ToSet(Observe(entry)) = Detected(entry) \ {Empty}
  <1> DEFINE S == Detected(entry)
             K == S \ {Empty}
             s == <<GitProject(entry), NodeProject(entry), MSBuildProject(entry), PythonProject(entry),
                    EcosystemProject(entry), XcodeProject(entry), XcodeWorkspace(entry), SwiftPMProject(entry)>>
             each == [i \in DOMAIN s |-> IF s[i] # Empty THEN <<s[i]>> ELSE <<>>]
             eachIn == [i \in DOMAIN s |-> IF s[i] \in K THEN <<s[i]>> ELSE <<>>]
  <1>1. Observe(entry) = FlattenSeq(each)
    BY DEF Observe, Those
  <1>2. s \in Seq(S) /\ ToSet(s) = S
    BY DEF Detected, ToSet
  <1> HIDE DEF s, S
  <1>3. \A i \in DOMAIN s : s[i] \in S
    BY <1>2
  <1>4. each = eachIn
    BY <1>3
  <1>5. FlattenSeq(eachIn) = Picked(s, K)
    BY DEF Picked
  <1> HIDE DEF each, eachIn
  <1>6. Picked(s, K) \in Seq(S) /\ ToSet(Picked(s, K)) = ToSet(s) \intersect K
    BY <1>2, PickedElements
  <1> QED
    BY <1>1, <1>2, <1>4, <1>5, <1>6 DEF S

\* A directory is listed with all what is in it.
LEMMA ListingElements ==
    ASSUME NEW dir
    PROVE  Listing(dir) \in Seq(ToSet(Names)) /\ ToSet(Listing(dir)) = Entries(dir)
  <1> DEFINE K == Entries(dir)
  <1>1. Names \in Seq(ToSet(Names)) /\ K \subseteq ToSet(Names)
    <2>1. Names \in Seq(STRING)
      BY FileTreeAssumption
    <2>2. DOMAIN Names = 1 .. Len(Names) /\ Len(Names) \in Nat /\ \A i \in 1 .. Len(Names) : Names[i] \in ToSet(Names)
      BY <2>1 DEF ToSet
    <2>3. Names \in Seq(ToSet(Names))
      BY <2>1, <2>2
    <2> QED
      BY <2>3 DEF Entries
  <1>2. Listing(dir) = Picked(Names, K)
    BY DEF Listing, Those, Picked
  <1> HIDE DEF K
  <1>3. Listing(dir) \in Seq(ToSet(Names)) /\ ToSet(Listing(dir)) = ToSet(Names) \intersect K
    BY <1>1, <1>2, PickedElements
  <1> QED
    BY <1>1, <1>3 DEF K

\* The visitor gets what is not excluded of it.
LEMMA VisitsElements ==
    ASSUME NEW dir
    PROVE  /\ Visits(dir) \in Seq(ToSet(Visits(dir)))
           /\ ToSet(Visits(dir)) = {Child(dir, n) : n \in {n \in Entries(dir) : ~Excluded(Child(dir, n))}}
  <1> DEFINE K == {n \in Entries(dir) : ~Excluded(Child(dir, n))}
             s == Listing(dir)
             names == Those(s, LAMBDA name : ~Excluded(Child(dir, name)))
             each == [i \in DOMAIN s |-> IF ~Excluded(Child(dir, s[i])) THEN <<s[i]>> ELSE <<>>]
             eachIn == [i \in DOMAIN s |-> IF s[i] \in K THEN <<s[i]>> ELSE <<>>]
  <1>1. s \in Seq(ToSet(Names)) /\ ToSet(s) = Entries(dir)
    BY ListingElements
  <1>2. Visits(dir) = [i \in DOMAIN names |-> Child(dir, names[i])]
    BY DEF Visits
  <1>3. names = FlattenSeq(each)
    BY DEF Those
  <1> HIDE DEF s, names
  <1>4. \A i \in DOMAIN s : s[i] \in Entries(dir)
    BY <1>1 DEF ToSet
  <1>5. each = eachIn
    BY <1>4
  <1>6. K \subseteq Entries(dir)
    OBVIOUS
  <1>7. FlattenSeq(eachIn) = Picked(s, K)
    BY DEF Picked
  <1> HIDE DEF each, eachIn, K
  <1>8. Picked(s, K) \in Seq(ToSet(Names)) /\ ToSet(Picked(s, K)) = ToSet(s) \intersect K
    BY <1>1, PickedElements
  <1>9. names \in Seq(ToSet(Names)) /\ ToSet(names) = K
    BY <1>1, <1>3, <1>5, <1>6, <1>7, <1>8
  <1> DEFINE v == [i \in DOMAIN names |-> Child(dir, names[i])]
  <1>10. Len(names) \in Nat /\ DOMAIN names = 1 .. Len(names) /\ DOMAIN v = 1 .. Len(names)
    BY <1>9
  <1>11. ToSet(v) = {Child(dir, n) : n \in K}
    <2>1. K = {names[i] : i \in DOMAIN names}
      BY <1>9 DEF ToSet
    <2>2. ToSet(v) = {v[i] : i \in DOMAIN names}
      BY <1>10 DEF ToSet
    <2> QED
      BY <2>1, <2>2
  <1>12. v \in Seq(ToSet(v))
    <2>1. \A i \in 1 .. Len(names) : v[i] \in ToSet(v)
      BY <1>10 DEF ToSet
    <2>2. v \in [1 .. Len(names) -> ToSet(v)]
      BY <1>10, <2>1
    <2> QED
      BY <1>10, <2>2
  <1> QED
    BY <1>2, <1>11, <1>12 DEF K

------------------------------------------------------------------------------
(* The way of the walk to a directory.                                       *)

Tree == IsTree(disk) /\ options.roots \subseteq Paths

\* The prefix of d of length j.
Top(d, j) == SubSeq(d, 1, j)

\* A walk that lists a comes to d.
Leads(a, d) ==
    \E k \in 0 .. Len(d) :
        /\ a = Top(d, k)
        /\ \A j \in k + 1 .. Len(d) : ~Excluded(Top(d, j)) /\ Kind(Top(d, j)) = "dir"
        /\ \A j \in k .. Len(d) - 1 : CanList(Top(d, j))

\* What has been listed has been observed.
Seen(dir) == \A entry \in ToSet(Visits(dir)) : ToSet(Observe(entry)) \subseteq ToSet(found)

Covered == \A dir \in Listed : Seen(dir) \/ \E task \in pending : Leads(task.dir, dir)

\* Prefixes of a path.
LEMMA Tops ==
    ASSUME NEW S, NEW d \in Seq(S), NEW k \in 0 .. Len(d)
    PROVE  /\ Top(d, k) \in Seq(S) /\ Len(Top(d, k)) = k /\ Top(d, Len(d)) = d
           /\ \A i \in 1 .. k : Top(d, k)[i] = d[i]
           /\ \A j \in 0 .. k : Top(Top(d, k), j) = Top(d, j)
           /\ k < Len(d) => Top(d, k + 1) = Append(Top(d, k), d[k + 1]) /\ d[k + 1] \in S
  <1>1. Len(d) \in Nat /\ k \in Nat /\ k <= Len(d)
    OBVIOUS
  <1>2. \A j \in 0 .. Len(d) : Top(d, j) \in Seq(S) /\ Len(Top(d, j)) = j /\ \A i \in 1 .. j : Top(d, j)[i] = d[i]
    BY <1>1 DEF Top
  <1>3. Top(d, Len(d)) = d
    BY <1>1, <1>2 DEF Top
  <1>4. \A j \in 0 .. k : Top(Top(d, k), j) = Top(d, j)
    <2> SUFFICES ASSUME NEW j \in 0 .. k
                 PROVE  Top(Top(d, k), j) = Top(d, j)
      OBVIOUS
    <2>1. Top(d, k) \in Seq(S) /\ Len(Top(d, k)) = k /\ \A i \in 1 .. k : Top(d, k)[i] = d[i]
      BY <1>1, <1>2
    <2> DEFINE t == Top(d, k)
    <2> HIDE DEF t
    <2>2. t \in Seq(S) /\ j <= Len(t) /\ j \in Nat
      BY <2>1 DEF t
    <2>3. Top(t, j) \in Seq(S) /\ Len(Top(t, j)) = j /\ \A i \in 1 .. j : Top(t, j)[i] = t[i]
      BY <2>2 DEF Top
    <2>4. ASSUME NEW i \in 1 .. j
          PROVE  Top(t, j)[i] = Top(d, j)[i]
      <3>1. i \in 1 .. k /\ j \in 0 .. Len(d)
        BY <1>1
      <3>2. t[i] = d[i]
        BY <2>1, <3>1 DEF t
      <3>3. Top(d, j)[i] = d[i]
        BY <1>2, <3>1
      <3> QED
        BY <2>3, <3>2, <3>3
    <2>5. j \in 0 .. Len(d)
      BY <1>1
    <2>6. Top(d, j) \in Seq(S) /\ Len(Top(d, j)) = j
      BY <1>2, <2>5
    <2>7. Top(t, j) = Top(d, j)
      <3> DEFINE a == Top(t, j)
                 b == Top(d, j)
      <3>1. a \in Seq(S) /\ b \in Seq(S) /\ Len(a) = Len(b) /\ \A i \in 1 .. Len(a) : a[i] = b[i]
        BY <2>3, <2>4, <2>6
      <3> HIDE DEF a, b
      <3>2. a = b
        BY <3>1
      <3> QED
        BY <3>2 DEF a, b
    <2> QED
      BY <2>7 DEF t
  <1>5. ASSUME k < Len(d)
        PROVE  Top(d, k + 1) = Append(Top(d, k), d[k + 1]) /\ d[k + 1] \in S
    <2>1. k + 1 \in 0 .. Len(d) /\ k + 1 \in 1 .. Len(d) /\ d[k + 1] \in S
      BY <1>1, <1>5
    <2>2. Top(d, k + 1) \in Seq(S) /\ Len(Top(d, k + 1)) = k + 1 /\ \A i \in 1 .. k + 1 : Top(d, k + 1)[i] = d[i]
      BY <1>2, <2>1
    <2> DEFINE t == Top(d, k)
               u == Append(t, d[k + 1])
    <2>3. t \in Seq(S) /\ Len(t) = k /\ \A i \in 1 .. k : t[i] = d[i]
      BY <1>1, <1>2
    <2> HIDE DEF t
    <2>4. u \in Seq(S) /\ Len(u) = k + 1 /\ \A i \in 1 .. k + 1 : u[i] = d[i]
      BY <1>1, <2>1, <2>3
    <2> HIDE DEF u
    <2>5. \A i \in 1 .. k + 1 : u[i] = Top(d, k + 1)[i]
      BY <2>2, <2>4
    <2>6. u = Top(d, k + 1)
      BY <1>1, <2>2, <2>4, <2>5
    <2> QED
      BY <2>1, <2>6 DEF u, t
  <1> QED
    BY <1>1, <1>2, <1>3, <1>4, <1>5

\* The last name of a path, and the path before it.
LEMMA ChildShape ==
    ASSUME NEW S, NEW p \in Seq(S), NEW a
    PROVE  Parent(Child(p, a)) = p /\ Last(Child(p, a)) = a /\ Len(Child(p, a)) = Len(p) + 1
  <1> DEFINE c == Append(p, a)
  <1>1. c \in Seq(S \union {a}) /\ Len(c) = Len(p) + 1 /\ c[Len(p) + 1] = a /\ \A i \in 1 .. Len(p) : c[i] = p[i]
    OBVIOUS
  <1>2. SubSeq(c, 1, Len(c) - 1) = p
    BY <1>1
  <1>3. c[Len(c)] = a
    BY <1>1
  <1> HIDE DEF c
  <1>4. Parent(c) = p /\ Last(c) = a
    BY <1>2, <1>3 DEF Parent, Front, Last
  <1> QED
    BY <1>1, <1>4 DEF Child, c

\* path is root or below it, and what is above root is above path.
Inside(path, root) == Within(path, root) /\ Above(root) \subseteq Above(path) /\ \E S : path \in Seq(S)

\* What follows root is inside it.
LEMMA JoinedIsInside ==
    ASSUME NEW S, NEW root \in Seq(S), NEW down \in Seq(S)
    PROVE  Inside(root \o down, root)
  <1> DEFINE path == root \o down
             k == Len(root)
  <1>1. path \in Seq(S) /\ k \in Nat /\ k \in 0 .. Len(path) /\ \A i \in 1 .. k : path[i] = root[i]
    <2>1. /\ path \in Seq(S) /\ Len(path) = k + Len(down) /\ k \in Nat /\ Len(down) \in Nat
          /\ \A i \in 1 .. Len(path) : path[i] = IF i <= k THEN root[i] ELSE down[i - k]
      BY ConcatProperties
    <2> HIDE DEF path, k
    <2>2. k \in 0 .. Len(path) /\ \A i \in 1 .. k : i \in 1 .. Len(path) /\ i <= k
      BY <2>1
    <2> QED
      BY <2>1, <2>2
  <1>2. Top(path, k) = root
    <2> HIDE DEF path
    <2>1. Top(path, k) \in Seq(S) /\ Len(Top(path, k)) = k /\ \A i \in 1 .. k : Top(path, k)[i] = path[i]
      BY <1>1, Tops
    <2>2. \A i \in 1 .. Len(Top(path, k)) : Top(path, k)[i] = root[i]
      BY <1>1, <2>1
    <2> QED
      BY <2>1, <2>2, SeqEqual
  <1>7. \E T : path \in Seq(T)
    BY <1>1
  <1> HIDE DEF path
  <1>3. \A j \in 0 .. k : Top(root, j) = Top(path, j) /\ j \in 0 .. Len(path)
    <2>1. \A j \in 0 .. k : Top(Top(path, k), j) = Top(path, j)
      BY <1>1, Tops
    <2>2. \A j \in 0 .. k : j \in 0 .. Len(path)
      BY <1>1
    <2> QED
      BY <1>2, <2>1, <2>2
  <1>4. Top(root, k) = root /\ k <= Len(path)
    BY <1>1, Tops
  <1>5. Within(path, root)
    BY <1>2, <1>4 DEF Within, IsPrefix, Top
  <1>6. Above(root) \subseteq Above(path)
    BY <1>3 DEF Above, Top
  <1> QED
    BY <1>5, <1>6, <1>7 DEF Inside, path

\* What is in root is inside it.
LEMMA ChildIsInside ==
    ASSUME NEW root \in Paths, NEW name
    PROVE  Inside(Child(root, name), root)
  <1> DEFINE S == ToSet(Names) \union {name}
  <1>1. root \in Seq(S) /\ <<name>> \in Seq(S)
    <2>1. Len(root) \in Nat /\ root \in [1 .. Len(root) -> S]
      BY DEF Paths
    <2> QED
      BY <2>1
  <1>2. Child(root, name) = root \o <<name>>
    <2> HIDE DEF S
    <2> QED
      BY <1>1, AppendIsConcat DEF Child
  <1> HIDE DEF S
  <1> QED
    BY <1>1, <1>2, JoinedIsInside

\* A directory in dir is where dir leads to, and a path without links leads to paths.
LEMMA RealChild ==
    ASSUME IsTree(disk), NEW dir \in Paths, NEW name
    PROVE  /\ Real(dir) \in Paths
           /\ ~(Child(Real(dir), name) \in DOMAIN disk.links) => Real(Child(dir, name)) = Child(Real(dir), name)
  <1> DEFINE held == disk.dirs \union DOMAIN disk.files \union DOMAIN disk.links
             c == Child(dir, name)
  <1>1. held \subseteq Paths /\ DOMAIN disk.links \subseteq held
    BY DEF IsTree
  <1>3. dir \in Seq(ToSet(Names)) /\ Len(dir) \in Nat
    BY DEF Paths
  <1>4. /\ c = Append(dir, name) /\ c \in Seq(ToSet(Names) \union {name}) /\ Len(c) = Len(dir) + 1
        /\ Parent(c) = dir
    BY <1>3, ChildShape DEF Child
  <1> DEFINE S == ToSet(Names) \union {name}
  <1>5. c \in Seq(S) /\ Top(c, Len(dir)) = dir
    BY <1>4 DEF Parent, Front, Top
  <1> HIDE DEF S, c
  <1>6. \A n \in 0 .. Len(dir) : n \in 0 .. Len(c) /\ n # Len(c) /\ Top(c, n) = Top(dir, n) /\ Len(Top(c, n)) = n
    <2> SUFFICES ASSUME NEW n \in 0 .. Len(dir)
                 PROVE  n \in 0 .. Len(c) /\ n # Len(c) /\ Top(c, n) = Top(dir, n) /\ Len(Top(c, n)) = n
      OBVIOUS
    <2>1. Len(dir) \in 0 .. Len(c) /\ n \in 0 .. Len(c) /\ n # Len(c)
      BY <1>3, <1>4
    <2>2. Top(Top(c, Len(dir)), n) = Top(c, n) /\ Len(Top(c, n)) = n
      BY <1>5, <2>1, Tops
    <2> QED
      BY <1>5, <2>1, <2>2
  <1>7. Top(c, Len(c)) = c
    <2>1. Len(c) \in 0 .. Len(c)
      BY <1>3, <1>4
    <2> QED
      BY <1>5, <2>1, Tops
  <1>8. \A q \in Above(dir) : q \in Above(c) /\ q # c
    <2> SUFFICES ASSUME NEW q \in Above(dir)
                 PROVE  q \in Above(c) /\ q # c
      OBVIOUS
    <2>1. PICK n \in 0 .. Len(dir) : q = Top(dir, n)
      BY DEF Above, Top
    <2> QED
      BY <1>6, <2>1 DEF Above, Top
  <1>9. \A q \in Above(c) : q = c \/ q \in Above(dir)
    <2> SUFFICES ASSUME NEW q \in Above(c)
                 PROVE  q = c \/ q \in Above(dir)
      OBVIOUS
    <2>1. PICK n \in 0 .. Len(c) : q = Top(c, n)
      BY DEF Above, Top
    <2>2. n = Len(c) \/ n \in 0 .. Len(dir)
      BY <1>3, <1>4
    <2> QED
      BY <1>6, <1>7, <2>1, <2>2 DEF Above, Top
  <1> HIDE DEF held
  <1>10. CASE Links(dir) = {}
    <2>1. Real(dir) = dir
      BY <1>10 DEF Real
    <2>2. ASSUME Child(dir, name) \notin DOMAIN disk.links
          PROVE  Real(c) = c
      <3>1. Links(c) = {}
        BY <1>9, <1>10, <2>2 DEF Links, c
      <3> QED
        BY <3>1 DEF Real
    <2> QED
      BY <2>1, <2>2 DEF c
  <1>11. CASE Links(dir) # {}
    <2> DEFINE q == CHOOSE q \in Links(dir) : TRUE
               a == disk.links[q]
               k == Len(q) + 1
               s == SubSeq(dir, k, Len(dir))
    <2>1. q \in Links(dir)
      BY <1>11
    <2>2. c \notin DOMAIN disk.links
      <3> SUFFICES ASSUME c \in DOMAIN disk.links
                   PROVE  FALSE
        OBVIOUS
      <3>1. \A u \in Above(dir) : u = <<>> \/ u \in disk.dirs
        BY <1>1, <1>8 DEF IsTree, held
      <3> QED
        BY <2>1, <3>1 DEF IsTree, Links
    <2>3. Links(c) = Links(dir)
      BY <1>8, <1>9, <2>2 DEF Links
    <2>4. Real(dir) = a \o s /\ Real(c) = a \o SubSeq(c, k, Len(c))
      BY <1>11, <2>3 DEF Real
    <2> HIDE DEF q
    <2>5. a \in Paths /\ q \in Above(dir)
      BY <2>1 DEF Links, IsTree
    <2>6. Len(q) \in 0 .. Len(dir)
      <3>1. PICK n \in 0 .. Len(dir) : q = Top(dir, n)
        BY <2>5 DEF Above, Top
      <3> QED
        BY <1>3, <3>1, Tops
    <2>7. k \in 1 .. Len(dir) + 1
      BY <1>3, <2>6
    <2> HIDE DEF k, a
    <2>8. SubSeq(c, k, Len(c)) = Append(s, name) /\ s \in Seq(ToSet(Names))
      BY <1>3, <1>4, <2>7
    <2> HIDE DEF s
    <2>9. Real(c) = Append(a \o s, name) /\ a \o s \in Seq(ToSet(Names))
      BY <2>4, <2>5, <2>8 DEF Paths
    <2> QED
      BY <2>4, <2>9 DEF Child, Paths, c
  <1> QED
    BY <1>10, <1>11

\* What is a directory is an entry of the directory it is in.
LEMMA DirsAreEntries ==
    ASSUME IsTree(disk), NEW dir \in Paths, NEW name, IsDir(Child(dir, name))
    PROVE  name \in Entries(dir)
  <1> DEFINE held == disk.dirs \union DOMAIN disk.files \union DOMAIN disk.links
  <1>1. held \subseteq Paths /\ disk.dirs \subseteq held /\ DOMAIN disk.links \subseteq held
    BY DEF IsTree
  <1>2. Real(dir) \in Paths
    BY RealChild
  <1>3. Child(Real(dir), name) \in held
    <2>1. CASE Child(Real(dir), name) \in DOMAIN disk.links
      BY <1>1, <2>1
    <2>2. CASE Child(Real(dir), name) \notin DOMAIN disk.links
      BY <1>1, <2>2, RealChild DEF IsDir
    <2> QED
      BY <2>1, <2>2
  <1>4. /\ Child(Real(dir), name) \in Paths /\ Last(Child(Real(dir), name)) = name
        /\ Len(Child(Real(dir), name)) = Len(Real(dir)) + 1 /\ Len(Real(dir)) \in Nat
    BY <1>1, <1>2, <1>3, ChildShape DEF Paths
  <1>5. name \in ToSet(Names)
    BY <1>4 DEF Last, Paths
  <1> QED
    BY <1>3, <1>5 DEF Entries

\* Where a walk comes to is below its root.
LEMMA ReachedFrom ==
    ASSUME IsTree(disk), NEW root \in Paths, NEW dir \in Reached(root)
    PROVE  dir \in Paths /\ Within(dir, root)
  <1>1. PICK d \in disk.dirs : Within(d, Real(root)) /\ dir = root \o Below(d, Real(root))
    BY DEF Reached
  <1>2. d \in Paths /\ Real(root) \in Paths
    BY RealChild DEF IsTree
  <1> DEFINE rest == Below(d, Real(root))
  <1>3. rest \in Paths
    BY <1>2 DEF Below, Paths
  <1> HIDE DEF rest
  <1>4. root \o rest \in Paths
    BY <1>3 DEF Paths
  <1>5. Within(root \o rest, root)
    BY <1>3, JoinedIsInside DEF Paths, Inside
  <1> QED
    BY <1>1, <1>4, <1>5 DEF rest

\* Listing a directory that leads to d, the walk finds d, or what leads to it.
LEMMA NextOnTheWay ==
    ASSUME IsTree(disk), NEW d \in Paths, NEW a, Leads(a, d), a # d
    PROVE  CanList(a) /\ \E c \in ToSet(Visits(a)) : Kind(c) = "dir" /\ Leads(c, d)
  <1>1. PICK k \in 0 .. Len(d) : /\ a = Top(d, k)
                                 /\ \A j \in k + 1 .. Len(d) : ~Excluded(Top(d, j)) /\ Kind(Top(d, j)) = "dir"
                                 /\ \A j \in k .. Len(d) - 1 : CanList(Top(d, j))
    BY DEF Leads
  <1>2. d \in Seq(ToSet(Names)) /\ Len(d) \in Nat
    BY DEF Paths
  <1>3. k < Len(d)
    BY <1>1, <1>2, Tops
  <1> DEFINE c == Top(d, k + 1)
  <1>4. k \in k .. Len(d) - 1 /\ k + 1 \in k + 1 .. Len(d) /\ k + 1 \in 0 .. Len(d) /\ k + 1 # 0
    BY <1>2, <1>3
  <1>5. c = Child(a, d[k + 1]) /\ d[k + 1] \in ToSet(Names) /\ a \in Paths
    BY <1>1, <1>2, <1>3, Tops DEF Child, Paths
  <1>7. ~Excluded(c) /\ Kind(c) = "dir"
    BY <1>1, <1>4
  <1>8. c \in ToSet(Visits(a))
    <2>1. IsDir(c)
      BY <1>7 DEF Kind
    <2>2. d[k + 1] \in Entries(a)
      BY <1>5, <2>1, DirsAreEntries
    <2> QED
      BY <1>5, <1>7, <2>2, VisitsElements
  <1>9. Leads(c, d)
    <2>1. \A j \in k + 1 + 1 .. Len(d) : j \in k + 1 .. Len(d)
      BY <1>2
    <2>2. \A j \in k + 1 .. Len(d) - 1 : j \in k .. Len(d) - 1
      BY <1>2
    <2> QED
      BY <1>1, <1>4, <2>1, <2>2 DEF Leads
  <1> QED
    BY <1>1, <1>4, <1>7, <1>8, <1>9

------------------------------------------------------------------------------
(* What the detectors report of Node.                                        *)

\* w is a record with the fields of a workspace.
IsWorkspace(w) == w = [type |-> w.type, root |-> w.root, manifest |-> w.manifest, members |-> w.members]

\* A candidate that has nothing to do with Node.
Foreign(c) ==
    /\ \A p \in c.projects : p.type # "node"
    /\ \A w \in c.workspaces : w.type # "node" /\ IsWorkspace(w)

\* A candidate with one project and its outputs is of the type of that project.
LEMMA OutputsAreForeign ==
    ASSUME NEW type, NEW root, NEW manifest, NEW outputs, type # "node"
    PROVE  Foreign(WithOutputs(Project(type, root, manifest), outputs))
  BY DEF Foreign, WithOutputs, Project, Empty

\* One detector alone reports Node projects and workspaces.
LEMMA OthersAreForeign ==
    ASSUME NEW entry
    PROVE  \A c \in Detected(entry) : c = NodeProject(entry) \/ Foreign(c)
  <1>1. Foreign(Empty) /\ \A path : Foreign(Failure(path))
    BY DEF Foreign, Failure, Empty
  <1>2. Foreign(GitProject(entry))
    BY <1>1 DEF GitProject, Foreign, Project, Empty
  <1>3. Foreign(MSBuildProject(entry))
    <2> DEFINE type == IF Extension[Last(entry)] = ".csproj" THEN "dotnet" ELSE "cpp"
               project == Project(type, Parent(entry), entry)
               outputs == MSBuildArtifacts(project, Declared(entry).outputs)
               needs == {[owner |-> entry, type |-> need.type, version |-> need.version, name |-> need.name,
                            conditional |-> need.conditional] : need \in Declared(entry).needs}
               stopped == LeadsThroughFile(project.root, Declared(entry).outputs)
               issues == IF stopped THEN {project.root} ELSE WithOutputs(project, outputs).issues
               c == [WithOutputs(project, outputs) EXCEPT !.issues = issues, !.needs = needs]
    <2>1. MSBuildProject(entry) = Empty \/ (\E path : MSBuildProject(entry) = Failure(path)) \/ MSBuildProject(entry) = c
      BY DEF MSBuildProject
    <2>2. project.type # "node"
      BY DEF Project
    <2> HIDE DEF needs, issues, outputs, project
    <2>3. Foreign(c)
      BY <2>2 DEF Foreign, WithOutputs, Empty
    <2> QED
      BY <1>1, <2>1, <2>3
  <1>4. Foreign(PythonProject(entry))
    <2> DEFINE project == Project("python", entry, Child(entry, PythonFound(entry)[1]))
    <2>1. project.type # "node"
      BY DEF Project
    <2>2. CASE PythonProject(entry) = Empty
      BY <1>1, <2>2
    <2>3. CASE PythonProject(entry) # Empty
      <3> DEFINE outputs == PythonArtifacts(project)
      <3>1. \E R, N, I : \/ PythonProject(entry) = [Empty EXCEPT !.projects = {project}, !.issues = {entry}]
                         \/ PythonProject(entry) = [WithOutputs(project, outputs) EXCEPT !.resources = R, !.needs = N, !.issues = I]
        BY <2>3 DEF PythonProject
      <3>2. PICK R, N, I : \/ PythonProject(entry) = [Empty EXCEPT !.projects = {project}, !.issues = {entry}]
                           \/ PythonProject(entry) = [WithOutputs(project, outputs) EXCEPT !.resources = R, !.needs = N, !.issues = I]
        BY <3>1
      <3> HIDE DEF outputs, project
      <3>3. Foreign([Empty EXCEPT !.projects = {project}, !.issues = {entry}])
        BY <2>1 DEF Foreign, Empty
      <3>4. Foreign([WithOutputs(project, outputs) EXCEPT !.resources = R, !.needs = N, !.issues = I])
        BY <2>1 DEF Foreign, WithOutputs, Empty
      <3> QED
        BY <3>2, <3>3, <3>4
    <2> QED
      BY <2>2, <2>3
  <1>5. Foreign(EcosystemProject(entry))
    <2> DEFINE project == Project(EcosystemType(entry), Parent(entry), entry)
    <2>1. CASE Kind(entry) # "file" \/ Last(entry) \notin EcosystemManifests
      BY <1>1, <2>1 DEF EcosystemProject
    <2>2. CASE Last(entry) \in EcosystemManifests
      <3>1. EcosystemType(entry) # "node"
        BY <2>2 DEF EcosystemType, EcosystemManifests, GradleManifests
      <3>2. Foreign(WithOutputs(project, EcosystemBuildArtifact(project)))
        BY <3>1, OutputsAreForeign
      <3> QED
        BY <1>1, <3>2 DEF EcosystemProject
    <2> QED
      BY <2>1, <2>2
  <1>6. Foreign(XcodeProject(entry))
    BY <1>1, OutputsAreForeign DEF XcodeProject
  <1>7. Foreign(XcodeWorkspace(entry))
    BY <1>1 DEF XcodeWorkspace, Foreign, IsWorkspace, Empty
  <1>8. Foreign(SwiftPMProject(entry))
    BY <1>1, OutputsAreForeign DEF SwiftPMProject
  <1> QED
    BY <1>2, <1>3, <1>4, <1>5, <1>6, <1>7, <1>8 DEF Detected

------------------------------------------------------------------------------

\* The directory of a manifest.
LEMMA ManifestsParent ==
    ASSUME NEW S, NEW dir \in Seq(S)
    PROVE  Parent(Manifest(dir)) = dir
  <1> DEFINE x == "package.json"
             m == Append(dir, x)
  <1>1. m \in Seq(S \union {x}) /\ Len(m) = Len(dir) + 1 /\ \A i \in 1 .. Len(dir) : m[i] = dir[i]
    OBVIOUS
  <1> HIDE DEF x
  <1>2. SubSeq(m, 1, Len(m) - 1) = dir
    BY <1>1
  <1> QED
    BY <1>2 DEF Parent, Manifest, Child, Front, x

\* What the patterns of a manifest on the disk name are paths.
LEMMA MembersArePaths ==
    ASSUME IsTree(disk), NEW root \in Paths, NEW file, Reads(file)
    PROVE  ResolveMembers(root, Says(file).patterns) \subseteq Paths
  <1>1. \A pattern \in Says(file).patterns : pattern.dir.up \in Nat /\ pattern.dir.down \in Paths
    BY DEF IsTree, Reads, CanRead, IsFile, Says
  <1>2. \A pattern \in Says(file).patterns : Resolve(root, pattern.dir) \in Paths
    <2> SUFFICES ASSUME NEW pattern \in Says(file).patterns
                 PROVE  Resolve(root, pattern.dir) \in Paths
      OBVIOUS
    <2> DEFINE up == pattern.dir.up
               down == pattern.dir.down
               n == IF up > Len(root) THEN 0 ELSE Len(root) - up
    <2>1. up \in Nat /\ down \in Paths /\ Len(root) \in Nat /\ root \in Seq(ToSet(Names))
      BY <1>1 DEF Paths
    <2> HIDE DEF up, down
    <2>2. n \in 0 .. Len(root)
      BY <2>1
    <2> HIDE DEF n
    <2>3. SubSeq(root, 1, n) \in Seq(ToSet(Names))
      BY <2>1, <2>2
    <2>4. SubSeq(root, 1, n) \o down \in Paths
      BY <2>1, <2>3 DEF Paths
    <2> QED
      BY <2>4 DEF Resolve, n, up, down
  <1>3. \A dir \in Paths : \A name \in Entries(dir) : Child(dir, name) \in Paths
    BY DEF Child, Entries, Paths
  <1>4. \A pattern \in Says(file).patterns : Glob(root, pattern) \subseteq Paths
    BY <1>2, <1>3 DEF Glob
  <1> QED
    BY <1>4 DEF ResolveMembers

NodeWorkspace(w, root) == IsWorkspace(w) /\ w.type = "node" /\ w.root = root

\* The workspace that a directory declares is one, of its own root, and its members
\* are manifests in directories.
LEMMA WorkspaceShape ==
    ASSUME IsTree(disk), NEW root \in Paths, Reads(Manifest(root)), NEW w \in DetectNodeWorkspace(root)
    PROVE  /\ NodeWorkspace(w, root)
           /\ \A other \in DetectNodeWorkspace(root) : other = w
           /\ \A m \in w.members : m = Manifest(Parent(m)) /\ Parent(m) \in Paths
  <1> DEFINE workspace(manifest, patterns) ==
                [type |-> "node", root |-> root, manifest |-> manifest,
                 members |-> {Manifest(dir) : dir \in ResolveMembers(root, patterns)}]
             own == workspace(Manifest(root), Says(Manifest(root)).patterns)
             pnpm == workspace(PnpmFile(root), Says(PnpmFile(root)).patterns)
  <1>1. \/ DetectNodeWorkspace(root) = {own}
        \/ DetectNodeWorkspace(root) = {pnpm} /\ Reads(PnpmFile(root))
        \/ DetectNodeWorkspace(root) = {}
    BY DEF DetectNodeWorkspace
  <1>2. PICK manifest, file : Reads(file) /\ DetectNodeWorkspace(root) = {workspace(manifest, Says(file).patterns)}
    BY <1>1
  <1>3. w = workspace(manifest, Says(file).patterns)
    BY <1>2
  <1>4. w.members = {Manifest(dir) : dir \in ResolveMembers(root, Says(file).patterns)}
    BY <1>3
  <1>5. NodeWorkspace(w, root)
    BY <1>3 DEF NodeWorkspace, IsWorkspace
  <1>6. ResolveMembers(root, Says(file).patterns) \subseteq Paths
    BY <1>2, MembersArePaths
  <1>7. \A dir \in Paths : Parent(Manifest(dir)) = dir
    BY ManifestsParent DEF Paths
  <1>8. \A m \in w.members : m = Manifest(Parent(m)) /\ Parent(m) \in Paths
    BY <1>4, <1>6, <1>7
  <1> QED
    BY <1>2, <1>3, <1>5, <1>8

\* What is reported at a directory with a package.json.
LEMMA NodeShape ==
    ASSUME NEW entry, NodeProject(entry) # Empty
    PROVE  \/ NodeProject(entry).projects = {} /\ NodeProject(entry).workspaces = {}
           \/ /\ Reads(Manifest(entry))
              /\ NodeProject(entry).workspaces = DetectNodeWorkspace(entry)
              /\ \A p \in NodeProject(entry).projects :
                    p = NodeProjectAt(p.root) /\ NodeCanDetect(p.root)
              /\ \A w \in DetectNodeWorkspace(entry) : \A m \in w.members :
                    m = Manifest(Parent(m)) /\ NodeCanDetect(Parent(m)) /\ Reads(m) /\ CanList(entry)
                    => NodeProjectAt(Parent(m)) \in NodeProject(entry).projects
  <1> DEFINE workspaces == DetectNodeWorkspace(entry)
             listed == {dir \in {Parent(m) : m \in UNION {w.members : w \in workspaces}} : NodeCanDetect(dir)}
             roots == IF CanList(entry) THEN {dir \in listed : Reads(Manifest(dir))} ELSE {}
             reported == roots \union {entry}
             projects == {NodeProjectAt(dir) : dir \in reported}
  <1>1. NodeCanDetect(entry)
    BY DEF NodeProject
  <1>2. CASE ~Reads(Manifest(entry))
    BY <1>1, <1>2 DEF NodeProject, Failure, Empty
  <1>3. CASE Reads(Manifest(entry))
    <2>1. NodeProject(entry).projects = projects /\ NodeProject(entry).workspaces = workspaces
      BY <1>1, <1>3 DEF NodeProject
    <2>2. \A dir \in reported : NodeCanDetect(dir)
      BY <1>1
    <2>3. \A p \in projects : p = NodeProjectAt(p.root) /\ NodeCanDetect(p.root)
      <3> HIDE DEF reported
      <3> QED
        BY <2>2 DEF NodeProjectAt, Project
    <2>4. ASSUME NEW w \in workspaces, NEW m \in w.members,
                 m = Manifest(Parent(m)), NodeCanDetect(Parent(m)), Reads(m), CanList(entry)
          PROVE  NodeProjectAt(Parent(m)) \in projects
      <3>1. Parent(m) \in listed
        BY <2>4
      <3>2. Parent(m) \in reported
        BY <2>4, <3>1
      <3> HIDE DEF reported
      <3> QED
        BY <3>2
    <2> HIDE DEF projects
    <2> QED
      BY <1>3, <2>1, <2>3, <2>4
  <1> QED
    BY <1>2, <1>3

------------------------------------------------------------------------------
(* The invariant of the walk: what is to be listed has been, or some task    *)
(* leads to it.                                                              *)

\* The candidates are sequences of what was observed at some paths.
Known ==
    /\ found \in Seq(ToSet(found))
    /\ \A c \in ToSet(found) : \E entry \in Paths : c \in ToSet(Observe(entry))

\* What the result holds is what the filters leave of the candidates.
Filtered ==
    /\ pending = {}
    /\ result.projects = Projects(found)
    /\ result.workspaces = {[w EXCEPT !.members = ResolveWorkspaceMembers(w, Projects(found))] : w \in Workspaces(found)}

WalkInv ==
    /\ Tree
    /\ \A task \in pending : task.dir \in Paths
    /\ Known
    /\ Covered
    /\ Ended => Filtered

\* The walk does not change what it walks.
LEMMA WalkStays ==
    ASSUME disk' = disk, options' = options
    PROVE  /\ Tree' = Tree /\ Listed' = Listed /\ \A dir : Visits(dir)' = Visits(dir)
           /\ \A a, d : Leads(a, d)' <=> Leads(a, d)
  <1>1. /\ \A p : /\ IsDir(p)' = IsDir(p) /\ IsLink(p)' = IsLink(p) /\ CanList(p)' = CanList(p)
                  /\ Listing(p)' = Listing(p) /\ Kind(p)' = Kind(p) /\ Real(p)' = Real(p)
    BY FileTreeStays
  <1>2. \A p : Excluded(p)' = Excluded(p)
    BY DEF Excluded, Below
  <1>3. Tree' = Tree
    BY DEF Tree, IsTree
  <1>4. \A p : Traversable(p)' = Traversable(p)
    BY <1>1, <1>2 DEF Traversable
  <1>5. Walked' = Walked
    <2>1. \A root : Reached(root)' = Reached(root)
      BY <1>1 DEF Reached, Below
    <2> QED
      BY <1>1, <1>2, <1>4, <2>1 DEF Walked
  <1>6. Listed' = Listed
    BY <1>1, <1>5 DEF Listed
  <1>7. \A dir : Visits(dir)' = Visits(dir)
    BY <1>1, <1>2 DEF Visits, Those
  <1>8. \A a, d : Leads(a, d)' <=> Leads(a, d)
    BY <1>1, <1>2 DEF Leads, Top
  <1> QED
    BY <1>3, <1>6, <1>7, <1>8

\* To a directory that counts as walked some root leads.
LEMMA RootsLead ==
    ASSUME Tree, NEW dir \in Listed
    PROVE  /\ dir \in Paths /\ CanList(dir)
           /\ \E root \in options.roots : Traversable(root) /\ Leads(root, dir)
  <1>1. CanList(dir)
    BY DEF Listed
  <1>2. PICK root \in options.roots :
            /\ Traversable(root) /\ dir \in Reached(root)
            /\ \A q \in Above(dir) : IsStrictPrefix(root, q) => ~Excluded(q) /\ Kind(q) = "dir"
            /\ \A q \in Above(Parent(dir)) : Within(q, root) => CanList(q)
    BY DEF Listed, Walked
  <1>10. dir \in Paths /\ Within(dir, root)
    BY <1>2, ReachedFrom DEF Tree
  <1> DEFINE k == Len(root)
             n == Len(dir)
  <1>3. dir \in Seq(ToSet(Names)) /\ root \in Seq(ToSet(Names)) /\ k \in Nat /\ n \in Nat
    BY <1>2, <1>10 DEF Tree, Paths
  <1>4. k \in 0 .. n /\ root = Top(dir, k)
    <2>1. IsPrefix(root, dir)
      BY <1>10 DEF Within
    <2>2. k <= n /\ SubSeq(root, 1, k) = SubSeq(dir, 1, k)
      BY <2>1 DEF IsPrefix
    <2>3. SubSeq(root, 1, k) = root
      BY <1>3, Tops DEF Top
    <2> QED
      BY <1>3, <2>2, <2>3 DEF Top
  <1>5. \A j \in 0 .. n : /\ Top(dir, j) \in Above(dir) /\ Len(Top(dir, j)) = j
                          /\ \A i \in 0 .. j : Top(Top(dir, j), i) = Top(dir, i)
    BY <1>3, Tops DEF Above, Top
  <1>6. \A j \in k .. n : IsPrefix(root, Top(dir, j))
    <2> SUFFICES ASSUME NEW j \in k .. n
                 PROVE  IsPrefix(root, Top(dir, j))
      OBVIOUS
    <2>1. j \in 0 .. n /\ k \in 0 .. j /\ k \in 0 .. k
      BY <1>3
    <2>2. Top(Top(dir, j), k) = root /\ Top(root, k) = root /\ Len(Top(dir, j)) = j
      BY <1>3, <1>4, <1>5, <2>1
    <2> QED
      BY <2>1, <2>2 DEF IsPrefix, Top
  <1>7. \A j \in k + 1 .. n : ~Excluded(Top(dir, j)) /\ Kind(Top(dir, j)) = "dir"
    <2> SUFFICES ASSUME NEW j \in k + 1 .. n
                 PROVE  ~Excluded(Top(dir, j)) /\ Kind(Top(dir, j)) = "dir"
      OBVIOUS
    <2>1. j \in 0 .. n /\ j \in k .. n /\ j # k
      BY <1>3
    <2>2. Top(dir, j) # root
      BY <1>5, <2>1
    <2> QED
      BY <1>2, <1>5, <1>6, <2>1, <2>2 DEF IsStrictPrefix
  <1>8. \A j \in k .. n - 1 : CanList(Top(dir, j))
    <2> SUFFICES ASSUME NEW j \in k .. n - 1
                 PROVE  CanList(Top(dir, j))
      OBVIOUS
    <2>1. j \in 0 .. n - 1 /\ n - 1 \in 0 .. n /\ j \in k .. n
      BY <1>3
    <2>2. Parent(dir) = Top(dir, n - 1)
      BY DEF Parent, Front, Top
    <2>3. Len(Parent(dir)) = n - 1 /\ Top(Parent(dir), j) = Top(dir, j)
      BY <1>5, <2>1, <2>2
    <2>4. Top(dir, j) \in Above(Parent(dir))
      BY <2>1, <2>3 DEF Above, Top
    <2> QED
      BY <1>2, <1>6, <2>1, <2>4 DEF Within
  <1>9. Leads(root, dir)
    BY <1>4, <1>7, <1>8 DEF Leads
  <1> QED
    BY <1>1, <1>2, <1>9, <1>10

\* The walk starts with all roots and no candidates.
LEMMA WalkInitially == Init => WalkInv
  <1> SUFFICES ASSUME Init
               PROVE  WalkInv
    OBVIOUS
  <1>1. Tree
    BY DiscoveryAssumption DEF Init, Tree
  <1>2. found = <<>> /\ pc = "walk"
    BY DEF Init
  <1>3. pending = {[root |-> root, dir |-> root] : root \in {r \in options.roots : Traversable(r)}}
    BY DEF Init
  <1>4. \A task \in pending : task.dir \in Paths
    BY <1>1, <1>3 DEF Tree
  <1>5. Known
    BY <1>2 DEF Known, ToSet
  <1>6. Covered
    <2> SUFFICES ASSUME NEW dir \in Listed
                 PROVE  \E task \in pending : Leads(task.dir, dir)
      BY DEF Covered
    <2>1. PICK root \in options.roots : Traversable(root) /\ Leads(root, dir)
      BY <1>1, RootsLead
    <2>2. [root |-> root, dir |-> root] \in pending
      BY <1>3, <2>1
    <2> QED
      BY <2>1, <2>2
  <1> QED
    BY <1>1, <1>2, <1>4, <1>5, <1>6 DEF WalkInv, Ended

\* A sequence is one of its elements.
LEMMA OwnElements ==
    ASSUME NEW S, NEW s \in Seq(S)
    PROVE  s \in Seq(ToSet(s))
  <1>1. Len(s) \in Nat /\ DOMAIN s = 1 .. Len(s) /\ \A i \in 1 .. Len(s) : s[i] \in ToSet(s)
    BY DEF ToSet
  <1> QED
    BY <1>1

\* What is observed in a directory that is listed.
LEMMA ObservedElements ==
    ASSUME NEW dir \in Paths, Known,
           NEW new, new = FlattenSeq([i \in DOMAIN Visits(dir) |-> Observe(Visits(dir)[i])])
    PROVE  /\ found \o new \in Seq(ToSet(found \o new))
           /\ \A c : c \in ToSet(found \o new) <=>
                        c \in ToSet(found) \/ \E entry \in ToSet(Visits(dir)) : c \in ToSet(Observe(entry))
           /\ ToSet(Visits(dir)) \subseteq Paths
  <1> DEFINE v == Visits(dir)
             obs == [i \in DOMAIN v |-> Observe(v[i])]
             S == UNION {Detected(e) : e \in ToSet(v)}
  <1>1. v \in Seq(ToSet(v)) /\ ToSet(v) = {Child(dir, n) : n \in {n \in Entries(dir) : ~Excluded(Child(dir, n))}}
    BY VisitsElements
  <1>2. ToSet(v) \subseteq Paths
    <2>1. \A n \in Entries(dir) : Child(dir, n) \in Paths
      BY DEF Child, Entries, Paths
    <2> HIDE DEF v
    <2> QED
      BY <1>1, <2>1
  <1>3. \A e \in ToSet(v) : Observe(e) \in Seq(S)
    <2> SUFFICES ASSUME NEW e \in ToSet(v)
                 PROVE  Observe(e) \in Seq(S)
      OBVIOUS
    <2>1. Observe(e) \in Seq(Detected(e)) /\ Detected(e) \subseteq S
      BY ObserveElements
    <2> HIDE DEF S
    <2> QED
      BY <2>1
  <1> HIDE DEF v, S
  <1>4. DOMAIN v = 1 .. Len(v) /\ Len(v) \in Nat /\ \A i \in DOMAIN v : v[i] \in ToSet(v)
    BY <1>1 DEF ToSet
  <1>5. obs \in Seq(Seq(S))
    <2>1. obs \in [1 .. Len(v) -> Seq(S)]
      BY <1>3, <1>4
    <2> QED
      BY <1>4, <2>1
  <1>6. new = FlattenSeq(obs)
    BY DEF v
  <1>7. \A c : c \in ToSet(new) <=> \E e \in ToSet(v) : c \in ToSet(Observe(e))
    <2>1. DOMAIN obs = DOMAIN v /\ \A i \in DOMAIN v : obs[i] = Observe(v[i])
      OBVIOUS
    <2>2. ToSet(v) = {v[i] : i \in DOMAIN v}
      BY DEF ToSet
    <2>3. \A c : c \in ToSet(new) <=> \E i \in DOMAIN obs : c \in ToSet(obs[i])
      BY <1>5, <1>6, FlattenElements
    <2> HIDE DEF obs
    <2> QED
      BY <2>1, <2>2, <2>3
  <1>8. new \in Seq(S)
    BY <1>5, <1>6, FlattenElements
  <1> DEFINE T == ToSet(found) \union S
  <1>9. found \in Seq(T) /\ new \in Seq(T)
    BY <1>8 DEF Known
  <1> HIDE DEF T
  <1>10. found \o new \in Seq(T) /\ ToSet(found \o new) = ToSet(found) \union ToSet(new)
    BY <1>9, JoinedElements
  <1>11. found \o new \in Seq(ToSet(found \o new))
    BY <1>10, OwnElements
  <1> QED
    BY <1>2, <1>7, <1>10, <1>11 DEF v

\* Every step keeps it.
LEMMA WalkStep == WalkInv /\ [Next]_vars => WalkInv'
  <1> SUFFICES ASSUME WalkInv, [Next]_vars
               PROVE  WalkInv'
    OBVIOUS
  <1>1. disk' = disk /\ options' = options
    BY DEF Next, ScanDirectory, Analyze, vars
  <1>2. /\ Tree /\ Tree' = Tree /\ Listed' = Listed /\ \A dir : Visits(dir)' = Visits(dir)
        /\ \A a, d : Leads(a, d)' <=> Leads(a, d)
        /\ \A entry : Observe(entry)' = Observe(entry)
    BY <1>1, WalkStays, ObservationStays DEF WalkInv
  <1>3. ASSUME found' = found
        PROVE  Known' /\ \A dir : Seen(dir)' <=> Seen(dir)
    BY <1>2, <1>3 DEF WalkInv, Known, Seen
  <1>4. ASSUME found' = found, result' = result, pending' = pending
        PROVE  Filtered' <=> Filtered
    BY <1>4 DEF Filtered
  <1>5. CASE ScanDirectory
    <2>1. PICK task \in pending :
            LET visits == Visits(task.dir)
                below  == {path \in ToSet(visits) : Kind(path) = "dir"}
            IN  IF CanList(task.dir)
                THEN /\ pending' = (pending \ {task}) \union {[root |-> task.root, dir |-> dir] : dir \in below}
                     /\ found' = found \o FlattenSeq([i \in DOMAIN visits |-> Observe(visits[i])])
                     /\ UNCHANGED refused
                ELSE /\ pending' = pending \ {task}
                     /\ refused' = refused \union {task.dir}
                     /\ UNCHANGED found
      BY <1>5 DEF ScanDirectory
    <2>2. ~Ended'
      BY <1>5 DEF ScanDirectory, Ended
    <2>3. task.dir \in Paths /\ Known /\ Covered
      BY DEF WalkInv
    <2>4. \A dir \in Listed : dir \in Paths /\ CanList(dir)
      BY <1>2, RootsLead
    <2>5. CASE CanList(task.dir)
      <3> DEFINE visits == Visits(task.dir)
                 new == FlattenSeq([i \in DOMAIN visits |-> Observe(visits[i])])
                 below == {path \in ToSet(visits) : Kind(path) = "dir"}
                 more == {[root |-> task.root, dir |-> dir] : dir \in below}
      <3>1. pending' = (pending \ {task}) \union more /\ found' = found \o new
        BY <2>1, <2>5
      <3>2. /\ found' \in Seq(ToSet(found'))
            /\ \A c : c \in ToSet(found') <=> c \in ToSet(found) \/ \E entry \in ToSet(visits) : c \in ToSet(Observe(entry))
            /\ ToSet(visits) \subseteq Paths
        BY <2>3, <3>1, ObservedElements
      <3> HIDE DEF new, visits
      <3>3. Known'
        <4>1. \A c \in ToSet(found') : \E entry \in Paths : c \in ToSet(Observe(entry))
          BY <2>3, <3>2 DEF Known
        <4> QED
          BY <1>2, <3>2, <4>1 DEF Known
      <3>4. \A t \in pending' : t.dir \in Paths
        BY <3>1, <3>2 DEF WalkInv
      <3>5. ToSet(found) \subseteq ToSet(found') /\ \A dir : Seen(dir) => Seen(dir)'
        BY <1>2, <3>2 DEF Seen
      <3>6. Seen(task.dir)'
        BY <1>2, <3>2 DEF Seen, visits
      <3>7. Covered'
        <4> SUFFICES ASSUME NEW dir \in Listed, ~Seen(dir)'
                     PROVE  \E t \in pending' : Leads(t.dir, dir)
          BY <1>2 DEF Covered
        <4>1. PICK t \in pending : Leads(t.dir, dir)
          BY <2>3, <3>5 DEF Covered
        <4>2. CASE t # task
          BY <3>1, <4>1, <4>2
        <4>3. CASE t = task
          <5>1. task.dir # dir
            BY <3>6
          <5>2. PICK c \in ToSet(visits) : Kind(c) = "dir" /\ Leads(c, dir)
            BY <1>2, <2>4, <4>1, <4>3, <5>1, NextOnTheWay DEF Tree, visits
          <5>3. [root |-> task.root, dir |-> c] \in pending'
            BY <3>1, <5>2
          <5> QED
            BY <5>2, <5>3
        <4> QED
          BY <4>2, <4>3
      <3> QED
        BY <1>2, <2>2, <3>3, <3>4, <3>7 DEF WalkInv
    <2>6. CASE ~CanList(task.dir)
      <3>1. pending' = pending \ {task} /\ found' = found
        BY <2>1, <2>6
      <3>2. Covered'
        <4> SUFFICES ASSUME NEW dir \in Listed, ~Seen(dir)'
                     PROVE  \E t \in pending' : Leads(t.dir, dir)
          BY <1>2 DEF Covered
        <4>1. PICK t \in pending : Leads(t.dir, dir)
          BY <1>3, <2>3, <3>1 DEF Covered
        <4>2. t # task
          BY <1>2, <2>4, <2>6, <4>1, NextOnTheWay DEF Tree
        <4> QED
          BY <3>1, <4>1, <4>2
      <3>3. \A t \in pending' : t.dir \in Paths
        BY <3>1 DEF WalkInv
      <3> QED
        BY <1>2, <1>3, <2>2, <3>1, <3>2, <3>3 DEF WalkInv
    <2> QED
      BY <2>5, <2>6
  <1>6. ASSUME found' = found, pending' = pending
        PROVE  Known' /\ Covered' /\ \A task \in pending' : task.dir \in Paths
    BY <1>2, <1>3, <1>6 DEF WalkInv, Covered
  <1>7. CASE Analyze
    <2>1. found' = found /\ pending' = pending /\ pending = {} /\ result' = Analysis(found)
      BY <1>7 DEF Analyze
    <2>2. /\ Analysis(found).projects = Projects(found)
          /\ Analysis(found).workspaces =
                {[w EXCEPT !.members = ResolveWorkspaceMembers(w, Projects(found))] : w \in Workspaces(found)}
      BY DEF Analysis
    <2>3. Filtered'
      BY <2>1, <2>2 DEF Filtered
    <2> QED
      BY <1>2, <1>6, <2>1, <2>3 DEF WalkInv
  <1>8. CASE UNCHANGED vars
    <2>1. found' = found /\ pending' = pending /\ result' = result /\ Ended' = Ended
      BY <1>8 DEF vars, Ended
    <2> QED
      BY <1>2, <1>4, <1>6, <2>1 DEF WalkInv
  <1> QED
    BY <1>5, <1>7, <1>8 DEF Next

------------------------------------------------------------------------------
(* What the filters leave.                                                   *)

\* Where a candidate of a scan comes from, as far as Node is concerned.
LEMMA CandidateShape ==
    ASSUME Tree, Known, NEW c \in ToSet(found)
    PROVE  \/ Foreign(c)
           \/ \E entry \in Paths :
                /\ c = NodeProject(entry) /\ Reads(Manifest(entry))
                /\ c.workspaces = DetectNodeWorkspace(entry)
                /\ \A p \in c.projects : p = NodeProjectAt(p.root) /\ NodeCanDetect(p.root)
                /\ \A w \in c.workspaces :
                      /\ NodeWorkspace(w, entry)
                      /\ \A m \in w.members :
                            /\ m = Manifest(Parent(m))
                            /\ NodeCanDetect(Parent(m)) /\ Reads(m) /\ CanList(entry)
                               => NodeProjectAt(Parent(m)) \in c.projects
  <1>1. PICK entry \in Paths : c \in Detected(entry) /\ c # Empty
    BY ObserveElements DEF Known
  <1>2. CASE c # NodeProject(entry)
    BY <1>1, <1>2, OthersAreForeign
  <1>3. CASE c = NodeProject(entry)
    <2>1. NodeProject(entry) # Empty
      BY <1>1, <1>3
    <2>2. CASE c.projects = {} /\ c.workspaces = {}
      BY <2>2 DEF Foreign
    <2>3. CASE ~(c.projects = {} /\ c.workspaces = {})
      <3>1. /\ Reads(Manifest(entry))
            /\ c.workspaces = DetectNodeWorkspace(entry)
            /\ \A p \in c.projects : p = NodeProjectAt(p.root) /\ NodeCanDetect(p.root)
            /\ \A w \in DetectNodeWorkspace(entry) : \A m \in w.members :
                  m = Manifest(Parent(m)) /\ NodeCanDetect(Parent(m)) /\ Reads(m) /\ CanList(entry)
                  => NodeProjectAt(Parent(m)) \in c.projects
        BY <1>3, <2>1, <2>3, NodeShape
      <3>2. \A w \in c.workspaces : /\ NodeWorkspace(w, entry)
                                    /\ \A m \in w.members : m = Manifest(Parent(m))
        BY <3>1, WorkspaceShape DEF Tree
      <3> QED
        BY <1>3, <3>1, <3>2
    <2> QED
      BY <2>2, <2>3
  <1> QED
    BY <1>2, <1>3

\* What the candidates hold together.
LEMMA Gathered ==
    /\ \A x : x \in All(LAMBDA c : c.projects, found) <=> \E c \in ToSet(found) : x \in c.projects
    /\ \A x : x \in All(LAMBDA c : c.workspaces, found) <=> \E c \in ToSet(found) : x \in c.workspaces
  BY DEF All, ToSet

\* Every workspace is a record.
LEMMA WorkspaceRecords ==
    ASSUME Tree, Known, NEW w \in All(LAMBDA c : c.workspaces, found)
    PROVE  IsWorkspace(w)
  <1>1. PICK c \in ToSet(found) : w \in c.workspaces
    BY Gathered
  <1> QED
    BY <1>1, CandidateShape DEF Foreign, NodeWorkspace

\* A Node project is named by its directory and detected there.
LEMMA ProjectShape ==
    ASSUME Tree, Known, NEW p \in All(LAMBDA c : c.projects, found), p.type = "node"
    PROVE  p = NodeProjectAt(p.root) /\ NodeCanDetect(p.root)
  <1>1. PICK c \in ToSet(found) : p \in c.projects
    BY Gathered
  <1>2. ~Foreign(c)
    BY <1>1 DEF Foreign
  <1> QED
    BY <1>1, <1>2, CandidateShape

\* Of a directory one Node workspace is found, and with it its members.
LEMMA NodeWorkspaceShape ==
    ASSUME Tree, Known, NEW w \in NodeWorkspaces
    PROVE  /\ NodeWorkspace(w, w.root)
           /\ \A other \in NodeWorkspaces : other.root = w.root => other = w
           /\ \A m \in w.members :
                 /\ m = Manifest(Parent(m))
                 /\ NodeCanDetect(Parent(m)) /\ Reads(m) /\ CanList(w.root)
                    => NodeProjectAt(Parent(m)) \in All(LAMBDA c : c.projects, found)
  <1>1. ASSUME NEW x \in NodeWorkspaces
        PROVE  /\ NodeWorkspace(x, x.root)
               /\ x.root \in Paths /\ Reads(Manifest(x.root)) /\ x \in DetectNodeWorkspace(x.root)
               /\ \A m \in x.members :
                     /\ m = Manifest(Parent(m))
                     /\ NodeCanDetect(Parent(m)) /\ Reads(m) /\ CanList(x.root)
                        => NodeProjectAt(Parent(m)) \in All(LAMBDA c : c.projects, found)
    <2>1. x.type = "node" /\ \E c \in ToSet(found) : x \in c.workspaces
      BY Gathered DEF NodeWorkspaces
    <2>2. PICK c \in ToSet(found) : x \in c.workspaces
      BY <2>1
    <2>3. ~Foreign(c)
      BY <2>1, <2>2 DEF Foreign
    <2>4. PICK entry \in Paths :
                /\ c = NodeProject(entry) /\ Reads(Manifest(entry))
                /\ c.workspaces = DetectNodeWorkspace(entry)
                /\ \A y \in c.workspaces :
                      /\ NodeWorkspace(y, entry)
                      /\ \A m \in y.members :
                            /\ m = Manifest(Parent(m))
                            /\ NodeCanDetect(Parent(m)) /\ Reads(m) /\ CanList(entry)
                               => NodeProjectAt(Parent(m)) \in c.projects
      BY <2>3, CandidateShape
    <2>5. x.root = entry /\ NodeWorkspace(x, entry)
      BY <2>2, <2>4 DEF NodeWorkspace
    <2>6. \A p \in c.projects : p \in All(LAMBDA k : k.projects, found)
      BY Gathered
    <2> QED
      BY <2>2, <2>4, <2>5, <2>6
  <1>2. ASSUME NEW other \in NodeWorkspaces, other.root = w.root
        PROVE  other = w
    <2>1. /\ w.root \in Paths /\ Reads(Manifest(w.root))
          /\ w \in DetectNodeWorkspace(w.root) /\ other \in DetectNodeWorkspace(w.root)
      BY <1>1, <1>2
    <2> QED
      BY <2>1, WorkspaceShape DEF Tree
  <1> QED
    BY <1>1, <1>2

\* A Node project that the filters drop is inside a workspace that does not list it.
LEMMA DroppedIsUnlisted ==
    ASSUME Tree, Known, Filtered,
           NEW p, p.manifest = Manifest(p.root), ~NodeProjectAllowed(p, Workspaces(found))
    PROVE  Unlisted(p)
  <1>1. PICK w \in Workspaces(found) : /\ w.type = "node" /\ Within(p.root, w.root)
                                       /\ p.root # w.root /\ p.manifest \notin w.members
    BY DEF NodeProjectAllowed
  <1> DEFINE members == ResolveWorkspaceMembers(w, Projects(found))
             kept == [w EXCEPT !.members = members]
  <1>2. w \in NodeWorkspaces
    BY <1>1 DEF Workspaces, TopLevelWorkspaces, NodeWorkspaces
  <1>3. kept \in result.workspaces
    BY <1>1 DEF Filtered
  <1>4. members \subseteq w.members
    BY DEF ResolveWorkspaceMembers
  <1>5. NodeWorkspace(w, w.root)
    BY <1>2, NodeWorkspaceShape
  <1>6. kept = [type |-> "node", root |-> w.root, manifest |-> w.manifest, members |-> members]
    BY <1>5 DEF NodeWorkspace, IsWorkspace
  <1> HIDE DEF kept, members
  <1>7. kept.type = "node" /\ kept.root = w.root /\ kept.members \subseteq w.members
    BY <1>4, <1>6
  <1>8. IsStrictPrefix(w.root, p.root)
    BY <1>1 DEF Within, IsStrictPrefix
  <1> QED
    BY <1>1, <1>3, <1>7, <1>8 DEF Unlisted

\* What is found of a kind that no filter drops, or of Node where it is allowed, is kept.
LEMMA KeptOrDropped ==
    ASSUME Tree, Known, Filtered, NEW p \in All(LAMBDA c : c.projects, found), p \notin result.projects
    PROVE  \/ p.type = "node" /\ NodeCanDetect(p.root) /\ p = NodeProjectAt(p.root) /\ Unlisted(p)
           \/ /\ p.type = "git"
              /\ \E other \in All(LAMBDA c : c.projects, found) : other.type # "git" /\ other.root = p.root
  <1> DEFINE projects == All(LAMBDA c : c.projects, found)
  <1>1. result.projects = FilterNodeProjects(FilterFallbackGit(projects), Workspaces(found))
    BY DEF Filtered, Projects
  <1>2. p \in projects
    OBVIOUS
  <1> HIDE DEF projects
  <1>3. CASE p \in FilterFallbackGit(projects)
    <2>1. p.type = "node" /\ ~NodeProjectAllowed(p, Workspaces(found))
      BY <1>1, <1>3 DEF FilterNodeProjects
    <2>2. p = NodeProjectAt(p.root) /\ NodeCanDetect(p.root)
      BY <1>2, <2>1, ProjectShape DEF projects
    <2>3. p.manifest = Manifest(p.root)
      BY <2>2 DEF NodeProjectAt, Project
    <2> QED
      BY <2>1, <2>2, <2>3, DroppedIsUnlisted
  <1>4. CASE p \notin FilterFallbackGit(projects)
    BY <1>2, <1>4 DEF FilterFallbackGit, projects
  <1> QED
    BY <1>3, <1>4

\* What the walk comes past is answered.
LEMMA VisitedIsAnswered ==
    ASSUME WalkInv, Ended, NEW entry \in Visited,
           NEW p \in All(LAMBDA c : c.projects, Observe(entry)) \ result.projects
    PROVE  \/ p.type = "node" /\ Unlisted(p)
           \/ /\ p.type = "git"
              /\ \/ \E other \in result.projects : other.root = p.root
                 \/ NodeCanDetect(p.root) /\ Unlisted(p)
  <1>1. Tree /\ Known /\ Filtered /\ Covered
    BY DEF WalkInv
  <1>2. PICK dir \in Listed : entry \in ToSet(Visits(dir))
    BY DEF Visited
  <1>3. ToSet(Observe(entry)) \subseteq ToSet(found)
    BY <1>1, <1>2 DEF Covered, Filtered, Seen
  <1>4. \E c \in ToSet(Observe(entry)) : p \in c.projects
    BY DEF All, ToSet
  <1>5. p \in All(LAMBDA c : c.projects, found) /\ p \notin result.projects
    BY <1>3, <1>4, Gathered
  <1>6. CASE p.type = "node" /\ NodeCanDetect(p.root) /\ p = NodeProjectAt(p.root) /\ Unlisted(p)
    BY <1>6
  <1>7. ASSUME p.type = "git",
               NEW other \in All(LAMBDA c : c.projects, found), other.type # "git", other.root = p.root
        PROVE  \/ \E x \in result.projects : x.root = p.root
               \/ NodeCanDetect(p.root) /\ Unlisted(p)
    <2>1. CASE other \in result.projects
      BY <1>7, <2>1
    <2>2. CASE other \notin result.projects
      <3>1. NodeCanDetect(other.root) /\ Unlisted(other)
        BY <1>1, <1>7, <2>2, KeptOrDropped
      <3> QED
        BY <1>7, <3>1 DEF Unlisted
    <2> QED
      BY <2>1, <2>2
  <1> QED
    BY <1>1, <1>5, <1>6, <1>7, KeptOrDropped

\* The members of a workspace that is kept are kept.
LEMMA MembersAreAnswered ==
    ASSUME WalkInv, Ended, NEW w \in NodeWorkspaces, NEW m \in w.members,
           \E kept \in result.workspaces : kept.type = "node" /\ kept.root = w.root,
           NodeCanDetect(Parent(m)), Reads(m), CanList(w.root)
    PROVE  \/ NodeProjectAt(Parent(m)) \in result.projects
           \/ ~Within(Parent(m), w.root) /\ Unlisted(NodeProjectAt(Parent(m)))
  <1> DEFINE p == NodeProjectAt(Parent(m))
             projects == All(LAMBDA c : c.projects, found)
  <1>1. Tree /\ Known /\ Filtered
    BY DEF WalkInv
  <1>2. m = Manifest(Parent(m)) /\ p \in projects
    BY <1>1, NodeWorkspaceShape
  <1>3. p.type = "node" /\ p.root = Parent(m) /\ p.manifest = m
    BY <1>2 DEF NodeProjectAt, Project
  <1>4. w \in Workspaces(found)
    <2> DEFINE kept(x) == [x EXCEPT !.members = ResolveWorkspaceMembers(x, Projects(found))]
    <2>1. PICK x \in Workspaces(found) : kept(x).type = "node" /\ kept(x).root = w.root
      BY <1>1 DEF Filtered
    <2>2. x.type = "node" /\ x.root = w.root
      <3>1. IsWorkspace(x)
        BY <1>1, WorkspaceRecords DEF Workspaces, TopLevelWorkspaces
      <3> QED
        BY <2>1, <3>1 DEF IsWorkspace
    <2>3. x \in NodeWorkspaces
      BY <2>2 DEF Workspaces, TopLevelWorkspaces, NodeWorkspaces
    <2>4. x = w
      BY <1>1, <2>2, <2>3, NodeWorkspaceShape
    <2> QED
      BY <2>4
  <1> HIDE DEF p, projects
  <1>5. CASE NodeProjectAllowed(p, Workspaces(found))
    <2>1. p \in FilterFallbackGit(projects)
      BY <1>2, <1>3 DEF FilterFallbackGit
    <2>2. p \in result.projects
      BY <1>1, <1>5, <2>1 DEF Filtered, Projects, FilterNodeProjects, projects
    <2> QED
      BY <2>2 DEF p
  <1>6. CASE ~NodeProjectAllowed(p, Workspaces(found))
    <2>1. Unlisted(p)
      BY <1>1, <1>2, <1>3, <1>6, DroppedIsUnlisted
    <2>2. w.type = "node"
      BY DEF NodeWorkspaces
    <2>3. ~Within(Parent(m), w.root)
      BY <1>3, <1>4, <1>6, <2>2 DEF NodeProjectAllowed
    <2> QED
      BY <2>1, <2>3 DEF p
  <1> QED
    BY <1>5, <1>6

\* A marker that the walk comes past is a project of the result, or something that is
\* stands for it; for every disk that is a tree, and every order of visits.
THEOREM MarkersAreKept == Spec => []MarkersAreAnswered
  <1>1. WalkInv => MarkersAreAnswered
    <2> SUFFICES ASSUME WalkInv, Ended
                 PROVE  MarkersAreAnswered
      BY DEF MarkersAreAnswered
    <2>1. \A entry \in Visited : \A p \in All(LAMBDA c : c.projects, Observe(entry)) \ result.projects :
              \/ p.type = "node" /\ Unlisted(p)
              \/ /\ p.type = "git"
                 /\ \/ \E other \in result.projects : other.root = p.root
                    \/ NodeCanDetect(p.root) /\ Unlisted(p)
      BY VisitedIsAnswered
    <2>2. \A w \in NodeWorkspaces : \A m \in w.members :
              /\ \E kept \in result.workspaces : kept.type = "node" /\ kept.root = w.root
              /\ NodeCanDetect(Parent(m)) /\ Reads(m) /\ CanList(w.root)
              => \/ NodeProjectAt(Parent(m)) \in result.projects
                 \/ ~Within(Parent(m), w.root) /\ Unlisted(NodeProjectAt(Parent(m)))
      BY MembersAreAnswered
    <2> QED
      BY <2>1, <2>2 DEF MarkersAreAnswered
  <1> QED
    BY <1>1, WalkInitially, WalkStep, PTL DEF Spec

------------------------------------------------------------------------------
(* What the detectors report as installed.                                   *)

\* The fields of an output.
LEMMA OutputFields ==
    ASSUME NEW project, NEW path, NEW type, NEW regenerable, NEW kind,
           NEW o, o = Output(project, path, type, regenerable, kind)
    PROVE  /\ o.owner = project.manifest /\ o.type = type /\ o.version = <<>> /\ o.path = path
           /\ o.regenerable = regenerable
  <1> DEFINE r == [owner |-> project.manifest, type |-> type, version |-> <<>>, path |-> path,
                   regenerable |-> regenerable, kind |-> kind, evidence |-> {}]
             evidence == ProjectArtifactCleanupEvidence(project.root, r)
  <1>1. o = [r EXCEPT !.evidence = evidence]
    BY DEF Output
  <1> HIDE DEF evidence
  <1> QED
    BY <1>1

\* Outputs of a project that are no installs.
Own(project, outputs) == \A r \in outputs : r.type # "node-modules" /\ r.owner = project.manifest

\* A candidate without installs, and without a project of a package.json.
Quiet(c) ==
    /\ \A r \in c.resources : r.type # "node-modules" /\ \A dir \in Paths : r.owner # Manifest(dir)
    /\ \A p \in c.projects : \A dir \in Paths : p.manifest # Manifest(dir)

\* Outputs of another type are no installs.
LEMMA OutputsAreQuiet ==
    ASSUME NEW project, NEW outputs, Own(project, outputs),
           \A dir \in Paths : project.manifest # Manifest(dir)
    PROVE  Quiet(WithOutputs(project, outputs))
  BY DEF Quiet, WithOutputs, Empty, Own

\* The name of a manifest tells whose it is.
LEMMA OtherManifest ==
    ASSUME NEW p, Last(p) # "package.json", NEW dir \in Paths
    PROVE  p # Manifest(dir)
  BY ChildShape DEF Manifest, Paths

\* The first marker that a directory has is a marker.
LEMMA FirstMarker ==
    ASSUME NEW root, PythonFound(root) # <<>>
    PROVE  PythonFound(root)[1] \in ToSet(PythonMarkers)
  <1> DEFINE S == ToSet(PythonMarkers)
             K == {n \in S : Exists(Child(root, n))}
             each == [i \in DOMAIN PythonMarkers |-> IF Exists(Child(root, PythonMarkers[i])) THEN <<PythonMarkers[i]>> ELSE <<>>]
             eachIn == [i \in DOMAIN PythonMarkers |-> IF PythonMarkers[i] \in K THEN <<PythonMarkers[i]>> ELSE <<>>]
  <1>1. PythonFound(root) = FlattenSeq(each)
    BY DEF PythonFound, Those
  <1>2. each = eachIn
    BY DEF ToSet
  <1>3. FlattenSeq(eachIn) = Picked(PythonMarkers, K)
    BY DEF Picked
  <1>4. PythonMarkers \in Seq(S)
    BY DEF PythonMarkers, ToSet
  <1> HIDE DEF each, eachIn, K, S
  <1>5. PythonFound(root) \in Seq(S)
    BY <1>1, <1>2, <1>3, <1>4, PickedElements
  <1>6. PythonFound(root)[1] \in S
    BY <1>5
  <1> QED
    BY <1>6 DEF S

\* One detector alone reports installs.
LEMMA OthersAreQuiet ==
    ASSUME NEW entry \in Paths
    PROVE  \A c \in Detected(entry) : c = NodeProject(entry) \/ Quiet(c)
  <1>1. Quiet(Empty) /\ \A path : Quiet(Failure(path))
    BY DEF Quiet, Failure, Empty
  <1>2. Quiet(GitProject(entry))
    <2>1. \A dir \in Paths : Child(entry, ".git") # Manifest(dir)
      BY ChildShape, OtherManifest DEF Paths
    <2> QED
      BY <1>1, <2>1 DEF GitProject, Quiet, Project, Empty
  <1>3. Quiet(MSBuildProject(entry))
    <2> DEFINE type == IF Extension[Last(entry)] = ".csproj" THEN "dotnet" ELSE "cpp"
               project == Project(type, Parent(entry), entry)
               outputs == MSBuildArtifacts(project, Declared(entry).outputs)
               needs == {[owner |-> entry, type |-> need.type, version |-> need.version, name |-> need.name,
                            conditional |-> need.conditional] : need \in Declared(entry).needs}
               stopped == LeadsThroughFile(project.root, Declared(entry).outputs)
               issues == IF stopped THEN {project.root} ELSE WithOutputs(project, outputs).issues
               c == [WithOutputs(project, outputs) EXCEPT !.issues = issues, !.needs = needs]
    <2>1. CASE Extension[Last(entry)] \notin {".csproj", ".vcxproj"}
      BY <1>1, <2>1 DEF MSBuildProject
    <2>2. CASE Extension[Last(entry)] \in {".csproj", ".vcxproj"}
      <3>1. ASSUME NEW dir \in Paths
            PROVE  entry # Manifest(dir)
        <4> SUFFICES ASSUME entry = Manifest(dir)
                     PROVE  FALSE
          OBVIOUS
        <4>1. Last(entry) = "package.json" /\ Len(entry) = Len(dir) + 1 /\ Len(dir) \in Nat
          BY ChildShape DEF Manifest, Paths
        <4>2. Last(entry) \in ToSet(Names)
          BY <4>1 DEF Last, Paths
        <4>3. "package.json" \in FixedNames
          BY DEF FixedNames
        <4> QED
          BY <2>2, <4>1, <4>2, <4>3, DiscoveryAssumption
      <3>2. Own(project, outputs)
        <4>1. \A r \in outputs : \E path, proven, kind : r = Output(project, path, "build-output", proven, kind)
          BY DEF MSBuildArtifacts
        <4> HIDE DEF outputs, project
        <4> QED
          BY <4>1, OutputFields DEF Own
      <3>3. project.manifest = entry
        BY DEF Project
      <3>4. MSBuildProject(entry) = Empty \/ (\E path : MSBuildProject(entry) = Failure(path)) \/ MSBuildProject(entry) = c
        BY DEF MSBuildProject
      <3> HIDE DEF needs, issues, outputs, project
      <3>5. Quiet(c)
        BY <3>1, <3>2, <3>3 DEF Quiet, WithOutputs, Empty, Own
      <3> QED
        BY <1>1, <3>4, <3>5
    <2> QED
      BY <2>1, <2>2
  <1>4. \A project, name, type, lockfile : type # "node-modules" =>
            Own(project, LockedOutput(project, name, type, lockfile))
    <2> SUFFICES ASSUME NEW project, NEW name, NEW type, NEW lockfile, type # "node-modules",
                        NEW r \in LockedOutput(project, name, type, lockfile)
                 PROVE  r.type # "node-modules" /\ r.owner = project.manifest
      BY DEF Own
    <2>1. PICK path, locked, kind : r = Output(project, path, type, locked, kind)
      BY DEF LockedOutput
    <2> QED
      BY <2>1, OutputFields
  <1>5. Quiet(XcodeProject(entry))
    <2> DEFINE manifest == Child(entry, "project.pbxproj")
               project == Project("xcode", Parent(entry), manifest)
    <2>1. \A dir \in Paths : manifest # Manifest(dir)
      BY ChildShape, OtherManifest DEF Paths
    <2>2. project.manifest = manifest
      BY DEF Project
    <2>3. XcodeProject(entry) = Empty \/ (\E path : XcodeProject(entry) = Failure(path))
              \/ XcodeProject(entry) = WithOutputs(project, Pods(project))
      BY DEF XcodeProject
    <2> HIDE DEF project, manifest
    <2>4. Own(project, Pods(project))
      BY <1>4 DEF Pods, Own
    <2> QED
      BY <1>1, <2>1, <2>2, <2>3, <2>4, OutputsAreQuiet
  <1>6. Quiet(XcodeWorkspace(entry))
    BY <1>1 DEF XcodeWorkspace, Quiet, Empty
  <1>7. Quiet(SwiftPMProject(entry))
    <2> DEFINE project == Project("swiftpm", Parent(entry), entry)
               outputs == LockedOutput(project, ".build", "build-output", "Package.resolved")
    <2>1. CASE Last(entry) # "Package.swift"
      BY <1>1, <2>1 DEF SwiftPMProject
    <2>2. CASE Last(entry) = "Package.swift"
      <3>1. \A dir \in Paths : entry # Manifest(dir)
        BY <2>2, OtherManifest
      <3>2. project.manifest = entry
        BY DEF Project
      <3>3. SwiftPMProject(entry) = Empty \/ SwiftPMProject(entry) = WithOutputs(project, outputs)
        BY DEF SwiftPMProject
      <3>4. Own(project, outputs)
        BY <1>4
      <3> HIDE DEF project, outputs
      <3> QED
        BY <1>1, <3>1, <3>2, <3>3, <3>4, OutputsAreQuiet
    <2> QED
      BY <2>1, <2>2
  <1>8. Quiet(EcosystemProject(entry))
    <2> DEFINE project == Project(EcosystemType(entry), Parent(entry), entry)
               outputs == EcosystemBuildArtifact(project)
    <2>1. CASE Last(entry) \notin EcosystemManifests
      BY <1>1, <2>1 DEF EcosystemProject
    <2>2. CASE Last(entry) \in EcosystemManifests
      <3>1. \A dir \in Paths : entry # Manifest(dir)
        BY <2>2, OtherManifest DEF EcosystemManifests, GradleManifests
      <3>2. project.manifest = entry
        BY DEF Project
      <3>3. EcosystemProject(entry) = Empty \/ (\E path : EcosystemProject(entry) = Failure(path))
                \/ EcosystemProject(entry) = WithOutputs(project, outputs)
        BY DEF EcosystemProject
      <3>4. \A r \in outputs : \E path, proven, kind : r = Output(project, path, "build-output", proven, kind)
        BY DEF EcosystemBuildArtifact
      <3> HIDE DEF project, outputs
      <3>5. Own(project, outputs)
        BY <3>4, OutputFields DEF Own
      <3> QED
        BY <1>1, <3>1, <3>2, <3>3, <3>5, OutputsAreQuiet
    <2> QED
      BY <2>1, <2>2
  <1>9. Quiet(PythonProject(entry))
    <2> DEFINE name == PythonFound(entry)[1]
               project == Project("python", entry, Child(entry, name))
               outputs == PythonArtifacts(project)
               local(named) == {r \in LocalPrefixEnvs(project) : r.path \notin named}
    <2>1. CASE PythonProject(entry) = Empty
      BY <1>1, <2>1
    <2>2. CASE PythonProject(entry) # Empty
      <3>1. name # "package.json"
        <4>1. name \in ToSet(PythonMarkers)
          BY <2>2, FirstMarker DEF PythonProject, PythonCanDetect
        <4> HIDE DEF name
        <4> QED
          BY <4>1 DEF PythonMarkers, ToSet
      <3>2. \A dir \in Paths : project.manifest # Manifest(dir)
        <4> HIDE DEF name
        <4>1. project.manifest = Child(entry, name)
          BY DEF Project
        <4>2. Last(Child(entry, name)) = name
          BY ChildShape DEF Paths
        <4> QED
          BY <3>1, <4>1, <4>2, OtherManifest
      <3>3. Own(project, outputs)
        <4> DEFINE root == project.root
                   kind == LockfileEvidence(root)
                   locked == kind \in {"DECLARED", "PINNED"}
                   yes == TRUE
                   venv == DetectVenv(root)
                   caches == ArtifactNames(root, {n \in ToSet(Names) : n \in CacheDirNames \/ Extension[n] = ".egg-info"}) \ venv
        <4>1. outputs = {Output(project, Child(root, n), "python-venv", locked, kind) : n \in venv}
                            \union {Output(project, Child(root, n), "build-output", yes, "INFERRED") : n \in caches}
          BY DEF PythonArtifacts
        <4> HIDE DEF outputs, project, root, kind, locked, yes, venv, caches
        <4>2. ASSUME NEW n
              PROVE  /\ Output(project, Child(root, n), "python-venv", locked, kind).type # "node-modules"
                     /\ Output(project, Child(root, n), "python-venv", locked, kind).owner = project.manifest
                     /\ Output(project, Child(root, n), "build-output", yes, "INFERRED").type # "node-modules"
                     /\ Output(project, Child(root, n), "build-output", yes, "INFERRED").owner = project.manifest
          BY OutputFields
        <4> QED
          BY <4>1, <4>2 DEF Own
      <3>4. Own(project, LocalPrefixEnvs(project))
        BY DEF LocalPrefixEnvs, Own
      <3>5. PICK named, N, I :
                \/ PythonProject(entry) = [Empty EXCEPT !.projects = {project}, !.issues = {entry}]
                \/ PythonProject(entry) = [WithOutputs(project, outputs) EXCEPT
                                              !.resources = outputs \union local(named), !.needs = N, !.issues = I]
        <4>1. WithOutputs(project, outputs).resources = outputs
          BY DEF WithOutputs, Empty
        <4> HIDE DEF outputs
        <4> QED
          BY <2>2, <4>1 DEF PythonProject, outputs
      <3>6. Own(project, local(named))
        BY <3>4 DEF Own
      <3> HIDE DEF outputs, project, local
      <3>7. Quiet([Empty EXCEPT !.projects = {project}, !.issues = {entry}])
        BY <3>2 DEF Quiet, Empty
      <3>8. Quiet([WithOutputs(project, outputs) EXCEPT
                      !.resources = outputs \union local(named), !.needs = N, !.issues = I])
        BY <3>2, <3>3, <3>6 DEF Quiet, WithOutputs, Empty, Own
      <3> QED
        BY <3>5, <3>7, <3>8
    <2> QED
      BY <2>1, <2>2
  <1> QED
    BY <1>2, <1>3, <1>5, <1>6, <1>7, <1>8, <1>9 DEF Detected

\* The directories whose projects are reported with entry.
Reported(entry) ==
    {entry} \union
    {dir \in {Parent(m) : m \in UNION {w.members : w \in DetectNodeWorkspace(entry)}} :
        CanList(entry) /\ NodeCanDetect(dir) /\ Reads(Manifest(dir))}

\* dir holds what is installed there.
Installs(dir) == CanList(dir) /\ "node_modules" \in ArtifactNames(dir, NodeArtifactDirs)

\* r is what is reported of it with entry.
Install(r, dir, entry) ==
    /\ r.type = "node-modules" /\ r.version = <<>>
    /\ r.owner = Manifest(dir) /\ r.path = Child(dir, "node_modules")
    /\ r.regenerable <=> LockedIn(dir) \/ LockedIn(entry)

\* The outputs of a directory, with the lockfiles of two.
LEMMA NodeOutputs ==
    ASSUME NEW dir \in Paths, NEW entry
    PROVE  /\ Installs(dir) => \E r \in NodeArtifacts(dir, {dir, entry}) : Install(r, dir, entry)
           /\ \A r \in NodeArtifacts(dir, {dir, entry}) :
                 r.type = "node-modules" => "node_modules" \in ArtifactNames(dir, NodeArtifactDirs) /\ Install(r, dir, entry)
           /\ \A r \in NodeArtifacts(dir, {dir, entry}) : r.type = "node-modules" \/ Last(r.path) # "node_modules"
  <1> DEFINE locked == \E d \in {dir, entry}, name \in NodeLockfiles : Exists(Child(d, name))
             builds == Reads(Manifest(dir)) /\ Says(Manifest(dir)).build
             project == NodeProjectAt(dir)
             kind == IF locked THEN "DECLARED" ELSE "INFERRED"
             installed == Output(project, Child(dir, "node_modules"), "node-modules", locked, kind)
             output(name) ==
                IF name = "node_modules" THEN installed
                ELSE Output(project, Child(dir, name), "build-output", builds, "INFERRED")
             names == ArtifactNames(dir, NodeArtifactDirs)
  <1>1. NodeArtifacts(dir, {dir, entry}) = {output(name) : name \in names}
    BY DEF NodeArtifacts
  <1>2. locked <=> LockedIn(dir) \/ LockedIn(entry)
    BY DEF LockedIn
  <1>3. project.manifest = Manifest(dir)
    BY DEF NodeProjectAt, Project
  <1> HIDE DEF locked, builds, project, kind
  <1>4. Install(installed, dir, entry)
    <2> HIDE DEF installed
    <2>1. /\ installed.owner = project.manifest /\ installed.type = "node-modules" /\ installed.version = <<>>
          /\ installed.path = Child(dir, "node_modules") /\ installed.regenerable = locked
      BY OutputFields DEF installed
    <2> QED
      BY <1>2, <1>3, <2>1 DEF Install
  <1>5. \A name : name # "node_modules" => output(name).type = "build-output" /\ Last(output(name).path) = name
    <2> SUFFICES ASSUME NEW name, name # "node_modules"
                 PROVE  /\ Output(project, Child(dir, name), "build-output", builds, "INFERRED").type = "build-output"
                        /\ Last(Output(project, Child(dir, name), "build-output", builds, "INFERRED").path) = name
      OBVIOUS
    <2>1. Last(Child(dir, name)) = name
      BY ChildShape DEF Paths
    <2> QED
      BY <2>1, OutputFields
  <1> HIDE DEF installed
  <1>6. output("node_modules") = installed
    OBVIOUS
  <1> HIDE DEF output, names
  <1>7. Installs(dir) => installed \in NodeArtifacts(dir, {dir, entry})
    BY <1>1, <1>6 DEF Installs, names
  <1>8. ASSUME NEW r \in NodeArtifacts(dir, {dir, entry}), r.type = "node-modules"
        PROVE  "node_modules" \in names /\ r = installed
    <2>1. PICK name \in names : r = output(name)
      BY <1>1, <1>8
    <2>2. name = "node_modules"
      BY <1>5, <1>8, <2>1
    <2> QED
      BY <1>6, <2>1, <2>2
  <1>9. \A r \in NodeArtifacts(dir, {dir, entry}) : r.type = "node-modules" \/ Last(r.path) # "node_modules"
    <2> SUFFICES ASSUME NEW r \in NodeArtifacts(dir, {dir, entry})
                 PROVE  r.type = "node-modules" \/ Last(r.path) # "node_modules"
      OBVIOUS
    <2>1. PICK name \in names : r = output(name)
      BY <1>1
    <2>2. CASE name = "node_modules"
      BY <1>4, <1>6, <2>1, <2>2 DEF Install
    <2>3. CASE name # "node_modules"
      BY <1>5, <2>1, <2>3
    <2> QED
      BY <2>2, <2>3
  <1> QED
    BY <1>4, <1>7, <1>8, <1>9 DEF names

\* The installs that are reported at a directory with a package.json.
LEMMA NodeInstalls ==
    ASSUME IsTree(disk), NEW entry \in Paths, NodeProject(entry) # Empty
    PROVE  \/ NodeProject(entry).resources = {} /\ NodeProject(entry).projects = {} /\ NodeProject(entry).workspaces = {}
           \/ /\ Reads(Manifest(entry)) /\ NodeCanDetect(entry)
              /\ NodeProject(entry).workspaces = DetectNodeWorkspace(entry)
              /\ NodeProject(entry).projects = {NodeProjectAt(dir) : dir \in Reported(entry)}
              /\ \A dir \in Reported(entry) :
                    Installs(dir) => \E r \in NodeProject(entry).resources : Install(r, dir, entry)
              /\ \A r \in NodeProject(entry).resources :
                    r.type = "node-modules" => \E dir \in Reported(entry) : Installs(dir) /\ Install(r, dir, entry)
              /\ \A r \in NodeProject(entry).resources : r.type = "node-modules" \/ Last(r.path) # "node_modules"
              /\ Reported(entry) \subseteq Paths
  <1> DEFINE workspaces == DetectNodeWorkspace(entry)
             listed == {dir \in {Parent(m) : m \in UNION {w.members : w \in workspaces}} : NodeCanDetect(dir)}
             roots == IF CanList(entry) THEN {dir \in listed : Reads(Manifest(dir))} ELSE {}
             reported == roots \union {entry}
             outputs(dir) == IF CanList(dir) THEN NodeArtifacts(dir, {dir, entry}) ELSE {}
  <1>1. NodeCanDetect(entry)
    BY DEF NodeProject
  <1>2. CASE ~Reads(Manifest(entry))
    BY <1>1, <1>2 DEF NodeProject, Failure, Empty
  <1>3. CASE Reads(Manifest(entry))
    <2>1. /\ NodeProject(entry).projects = {NodeProjectAt(dir) : dir \in reported}
          /\ NodeProject(entry).workspaces = workspaces
          /\ NodeProject(entry).resources = UNION {outputs(dir) : dir \in reported}
      BY <1>1, <1>3 DEF NodeProject
    <2>2. reported = Reported(entry)
      BY DEF Reported
    <2> HIDE DEF reported
    <2>3. Reported(entry) \subseteq Paths
      BY <1>3, WorkspaceShape DEF Reported
    <2>4. ASSUME NEW dir \in Reported(entry), Installs(dir)
          PROVE  \E r \in NodeProject(entry).resources : Install(r, dir, entry)
      <3>1. PICK r \in NodeArtifacts(dir, {dir, entry}) : Install(r, dir, entry)
        BY <2>3, <2>4, NodeOutputs
      <3>2. r \in outputs(dir)
        BY <2>4, <3>1 DEF Installs
      <3> HIDE DEF outputs
      <3> QED
        BY <2>1, <2>2, <3>1, <3>2
    <2>5. ASSUME NEW r \in NodeProject(entry).resources, r.type = "node-modules"
          PROVE  \E dir \in Reported(entry) : Installs(dir) /\ Install(r, dir, entry)
      <3>1. PICK dir \in reported : r \in outputs(dir)
        BY <2>1, <2>5
      <3>2. CanList(dir) /\ r \in NodeArtifacts(dir, {dir, entry})
        BY <3>1
      <3>3. "node_modules" \in ArtifactNames(dir, NodeArtifactDirs) /\ Install(r, dir, entry)
        BY <2>2, <2>3, <2>5, <3>2, NodeOutputs
      <3> QED
        BY <2>2, <3>1, <3>2, <3>3 DEF Installs
    <2>6. ASSUME NEW r \in NodeProject(entry).resources
          PROVE  r.type = "node-modules" \/ Last(r.path) # "node_modules"
      <3>1. PICK dir \in reported : r \in outputs(dir)
        BY <2>1, <2>6
      <3>2. r \in NodeArtifacts(dir, {dir, entry})
        BY <3>1
      <3> QED
        BY <2>3, <2>2, <3>2, NodeOutputs
    <2> HIDE DEF outputs, workspaces
    <2> QED
      BY <1>1, <1>3, <2>3, <2>1, <2>2, <2>4, <2>5, <2>6 DEF workspaces
  <1> QED
    BY <1>2, <1>3

------------------------------------------------------------------------------
(* The order of the candidates: those of the directories above a directory    *)
(* come before its own.                                                      *)

\* The directories between a root and a path below it.
Passed(root, path) == {u \in Above(path) \ {path} : IsStrictPrefix(root, u)}

\* The candidate at place j comes from entry, and those of the directories that the
\* walk has passed before are at places before.
Came(root, entry, j) ==
    /\ IsStrictPrefix(root, entry)
    /\ found[j] \in ToSet(Observe(entry))
    /\ \A u \in Passed(root, entry) :
          CanList(u) /\ \A c \in ToSet(Observe(u)) : \E i \in 1 .. j - 1 : found[i] = c

Ordered == \A j \in 1 .. Len(found) : \E root \in options.roots, entry \in Paths : Came(root, entry, j)

\* What is above a task has been observed.
OnTheWay ==
    \A task \in pending :
        /\ task.root \in options.roots /\ IsPrefix(task.root, task.dir)
        /\ \A u \in Passed(task.root, task.dir) : CanList(u)
        /\ \A u \in Above(task.dir) : IsStrictPrefix(task.root, u) => ToSet(Observe(u)) \subseteq ToSet(found)

Tells(row, r) == row.type = r.type /\ row.path = r.path /\ row.regenerable = r.regenerable

Standing == LastReports(ToolReports \union OutputReports(found))

\* A row for each last report.
Stored ==
    /\ \A row \in result.rows : \E r \in Standing : Tells(row, r)
    /\ \A r \in Standing : \E row \in result.rows : Tells(row, r)

OrderInv ==
    /\ disk.installed \in Seq(Tools)
    /\ Ordered
    /\ OnTheWay
    /\ Ended => Stored

\* What is above a path in a directory is that path or above the directory.
LEMMA AboveChild ==
    ASSUME NEW dir \in Paths, NEW n \in ToSet(Names), NEW root, IsPrefix(root, dir), root \in Paths
    PROVE  /\ Child(dir, n) \in Paths
           /\ IsStrictPrefix(root, Child(dir, n))
           /\ \A u \in Above(Child(dir, n)) : u = Child(dir, n) \/ u \in Above(dir)
           /\ \A u \in Passed(root, Child(dir, n)) : u \in Above(dir) /\ IsStrictPrefix(root, u) /\ (u = dir \/ u \in Passed(root, dir))
  <1> DEFINE c == Child(dir, n)
             k == Len(dir)
  <1>1. c \in Paths /\ Len(c) = k + 1 /\ k \in Nat /\ dir \in Seq(ToSet(Names)) /\ c \in Seq(ToSet(Names))
    BY DEF Child, Paths
  <1>2. Top(c, k) = dir
    <2>1. c = Append(dir, n)
      BY DEF Child
    <2> HIDE DEF c
    <2>2. SubSeq(c, 1, k) = dir
      BY <1>1, <2>1
    <2> QED
      BY <2>2 DEF Top
  <1> HIDE DEF c
  <1>3. k \in 0 .. Len(c)
    BY <1>1
  <1>4. \A j \in 0 .. k : Top(dir, j) = Top(c, j)
    BY <1>1, <1>2, <1>3, Tops
  <1>5. Top(c, Len(c)) = c
    BY <1>1, <1>3, Tops
  <1>6. ASSUME NEW u \in Above(c)
        PROVE  u = c \/ u \in Above(dir)
    <2>1. PICK j \in 0 .. Len(c) : u = Top(c, j)
      BY DEF Above, Top
    <2>2. CASE j = Len(c)
      BY <1>5, <2>1, <2>2
    <2>3. CASE j # Len(c)
      <3>1. j \in 0 .. k
        BY <1>1, <2>3
      <3> QED
        BY <1>4, <2>1, <3>1 DEF Above, Top
    <2> QED
      BY <2>2, <2>3
  <1>7. IsStrictPrefix(root, c)
    <2>1. Len(root) <= k /\ SubSeq(root, 1, Len(root)) = SubSeq(dir, 1, Len(root)) /\ Len(root) \in Nat
      BY DEF IsPrefix, Paths
    <2>2. Top(dir, Len(root)) = Top(c, Len(root)) /\ Len(root) # Len(c) /\ Len(root) <= Len(c)
      BY <1>1, <1>4, <2>1
    <2> QED
      BY <2>1, <2>2 DEF IsStrictPrefix, IsPrefix, Top
  <1>8. \A u \in Passed(root, c) : u \in Above(dir) /\ IsStrictPrefix(root, u) /\ (u = dir \/ u \in Passed(root, dir))
    BY <1>6 DEF Passed
  <1> QED
    BY <1>1, <1>6, <1>7, <1>8 DEF c

\* A path is above itself, and nothing is passed on the way from a root to it.
LEMMA AboveSelf ==
    ASSUME NEW root \in Paths
    PROVE  /\ IsPrefix(root, root) /\ \A u \in Above(root) : ~IsStrictPrefix(root, u)
  <1>1. root \in Seq(ToSet(Names)) /\ Len(root) \in Nat
    BY DEF Paths
  <1>2. IsPrefix(root, root)
    BY <1>1 DEF IsPrefix
  <1>3. ASSUME NEW u \in Above(root), IsStrictPrefix(root, u)
        PROVE  FALSE
    <2>1. PICK j \in 0 .. Len(root) : u = Top(root, j)
      BY DEF Above, Top
    <2>2. Len(u) = j /\ j <= Len(root) /\ Top(root, Len(root)) = root
      BY <1>1, <2>1, Tops
    <2>3. Len(root) <= Len(u) /\ u # root
      BY <1>3 DEF IsStrictPrefix, IsPrefix
    <2>4. j = Len(root)
      BY <1>1, <2>2, <2>3
    <2> QED
      BY <2>1, <2>2, <2>3, <2>4
  <1> QED
    BY <1>2, <1>3

\* Nothing is found at the start.
LEMMA OrderInitially == Init => OrderInv
  <1> SUFFICES ASSUME Init
               PROVE  OrderInv
    OBVIOUS
  <1>1. disk.installed \in Seq(Tools) /\ options.roots \subseteq Paths
    BY DiscoveryAssumption DEF Init
  <1>2. found = <<>> /\ pc = "walk"
    BY DEF Init
  <1>3. Ordered
    BY <1>2 DEF Ordered
  <1>4. pending = {[root |-> root, dir |-> root] : root \in {r \in options.roots : Traversable(r)}}
    BY DEF Init
  <1>5. OnTheWay
    BY <1>1, <1>4, AboveSelf DEF OnTheWay, Passed
  <1> QED
    BY <1>1, <1>2, <1>3, <1>5 DEF OrderInv, Ended

\* The order of the candidates stays while they do, and with it what is stored of them.
LEMMA OrderStays ==
    ASSUME disk' = disk, options' = options
    PROVE  /\ \A root, path : Passed(root, path)' = Passed(root, path)
           /\ \A p : CanList(p)' = CanList(p)
           /\ \A entry : Observe(entry)' = Observe(entry)
           /\ found' = found => (Ordered' <=> Ordered) /\ Standing' = Standing
  <1>1. \A p : CanList(p)' = CanList(p)
    BY FileTreeStays
  <1>2. \A entry : Observe(entry)' = Observe(entry)
    BY ObservationStays
  <1>3. ASSUME found' = found
        PROVE  Ordered' <=> Ordered
    BY <1>1, <1>2, <1>3 DEF Ordered, Came
  <1>4. ASSUME found' = found
        PROVE  Standing' = Standing
    <2>1. ToolReports' = ToolReports
      BY DEF ToolReports
    <2>2. Reports(found)' = Reports(found)
      BY <1>4 DEF Reports
    <2>3. Projects(found)' = Projects(found)
      BY <1>4
    <2>4. OutputReports(found)' = OutputReports(found)
      BY <2>2, <2>3 DEF OutputReports
    <2> QED
      BY <2>1, <2>4 DEF Standing
  <1> QED
    BY <1>1, <1>2, <1>3, <1>4

\* Listing a directory on the way appends what is below what was passed.
LEMMA AppendsInOrder ==
    ASSUME Tree, Known, Ordered, OnTheWay,
           NEW task \in pending, task.dir \in Paths, CanList(task.dir), disk' = disk, options' = options,
           found' = found \o FlattenSeq([i \in DOMAIN Visits(task.dir) |-> Observe(Visits(task.dir)[i])])
    PROVE  Ordered'
  <1> DEFINE visits == Visits(task.dir)
             new == FlattenSeq([i \in DOMAIN visits |-> Observe(visits[i])])
             S == ToSet(found')
             root == task.root
             dir == task.dir
  <1>1. found' \in Seq(S) /\ found \in Seq(ToSet(found))
    BY ObservedElements DEF Known
  <1>2. new \in Seq(ToSet(new)) /\ \A c \in ToSet(new) : \E entry \in ToSet(visits) : c \in ToSet(Observe(entry))
    <2> DEFINE obs == [i \in DOMAIN visits |-> Observe(visits[i])]
               T == UNION {Detected(e) : e \in ToSet(visits)}
    <2>1. visits \in Seq(ToSet(visits))
      BY VisitsElements
    <2> HIDE DEF visits
    <2>2. DOMAIN visits = 1 .. Len(visits) /\ Len(visits) \in Nat /\ \A i \in DOMAIN visits : visits[i] \in ToSet(visits)
      BY <2>1 DEF ToSet
    <2>3. \A e \in ToSet(visits) : Observe(e) \in Seq(T)
      <3> SUFFICES ASSUME NEW e \in ToSet(visits)
                   PROVE  Observe(e) \in Seq(T)
        OBVIOUS
      <3>1. Observe(e) \in Seq(Detected(e)) /\ Detected(e) \subseteq T
        BY ObserveElements
      <3> HIDE DEF T
      <3> QED
        BY <3>1
    <2> HIDE DEF T
    <2>4. obs \in [1 .. Len(visits) -> Seq(T)]
      BY <2>2, <2>3
    <2>5. obs \in Seq(Seq(T)) /\ DOMAIN obs = DOMAIN visits /\ \A i \in DOMAIN visits : obs[i] = Observe(visits[i])
      BY <2>2, <2>4
    <2> HIDE DEF obs
    <2>6. new \in Seq(T) /\ \A c \in ToSet(new) : \E i \in DOMAIN obs : c \in ToSet(obs[i])
      BY <2>5, FlattenElements DEF obs
    <2> QED
      BY <2>2, <2>5, <2>6, OwnElements
  <1>3. /\ \A c : c \in ToSet(found') <=> c \in ToSet(found) \/ \E entry \in ToSet(visits) : c \in ToSet(Observe(entry))
        /\ ToSet(visits) = {Child(dir, n) : n \in {n \in Entries(dir) : ~Excluded(Child(dir, n))}}
    BY ObservedElements, VisitsElements
  <1>4. found' = found \o new
    OBVIOUS
  <1> HIDE DEF new, visits
  <1> DEFINE n == Len(found)
             k == Len(new)
  <1>5. /\ n \in Nat /\ k \in Nat /\ Len(found') = n + k
        /\ \A i \in 1 .. n : found'[i] = found[i]
        /\ \A i \in 1 .. k : found'[n + i] = new[i] /\ new[i] \in ToSet(new)
    <2> DEFINE both == ToSet(found) \union ToSet(new)
    <2>1. found \in Seq(both) /\ new \in Seq(both)
      BY <1>1, <1>2
    <2> HIDE DEF both
    <2>2. n \in Nat /\ k \in Nat /\ Len(found \o new) = n + k /\ DOMAIN new = 1 .. k
      BY <2>1
    <2>3. \A i \in 1 .. n : (found \o new)[i] = found[i]
      BY <2>1
    <2>4. ASSUME NEW i \in 1 .. k
          PROVE  (found \o new)[n + i] = new[i]
      <3>1. n + i \in 1 .. n + k /\ ~(n + i <= n) /\ n + i - n = i
        BY <2>2
      <3> QED
        BY <2>1, <2>2, <3>1
    <2> QED
      BY <1>4, <2>2, <2>3, <2>4 DEF ToSet
  <1>6. /\ \A r, path : Passed(r, path)' = Passed(r, path)
        /\ \A p : CanList(p)' = CanList(p)
        /\ \A entry : Observe(entry)' = Observe(entry)
    BY OrderStays
  <1>7. \A c \in ToSet(found) : \E i \in 1 .. n : found[i] = c
    BY <1>1, Elements
  <1> HIDE DEF n, k
  <1>8. ASSUME NEW j \in 1 .. n
        PROVE  \E r \in options.roots, entry \in Paths : Came(r, entry, j)'
    <2>1. PICK r \in options.roots, entry \in Paths : Came(r, entry, j)
      BY <1>8 DEF Ordered, n
    <2>2. \A i \in 1 .. j - 1 : found'[i] = found[i]
      BY <1>5, <1>8
    <2>3. found'[j] = found[j]
      BY <1>5
    <2>4. Came(r, entry, j)'
      BY <1>6, <2>1, <2>2, <2>3 DEF Came
    <2> QED
      BY <2>4
  <1>9. ASSUME NEW j \in 1 .. k, NEW at \in Nat, at = n + j
         PROVE  \E r \in options.roots, entry \in Paths : Came(r, entry, at)'
    <2>1. PICK entry \in ToSet(visits) : new[j] \in ToSet(Observe(entry))
      BY <1>2, <1>5
    <2>2. PICK name \in ToSet(Names) : entry = Child(dir, name)
      BY <1>3, <2>1 DEF Entries
    <2>3. /\ root \in options.roots /\ root \in Paths /\ IsPrefix(root, dir)
          /\ \A u \in Passed(root, dir) : CanList(u)
          /\ \A u \in Above(dir) : IsStrictPrefix(root, u) => ToSet(Observe(u)) \subseteq ToSet(found)
      BY DEF OnTheWay, Tree
    <2>4. /\ entry \in Paths /\ IsStrictPrefix(root, entry)
          /\ \A u \in Passed(root, entry) :
                u \in Above(dir) /\ IsStrictPrefix(root, u) /\ (u = dir \/ u \in Passed(root, dir))
      BY <2>2, <2>3, AboveChild
    <2>5. ASSUME NEW u \in Passed(root, entry)
          PROVE  CanList(u) /\ \A c \in ToSet(Observe(u)) : \E i \in 1 .. at - 1 : found'[i] = c
      <3>1. CanList(u)
        BY <2>3, <2>4
      <3>2. ToSet(Observe(u)) \subseteq ToSet(found)
        BY <2>3, <2>4
      <3>3. \A i \in 1 .. n : i \in 1 .. at - 1 /\ found'[i] = found[i]
        <4>1. n \in Nat /\ j \in Nat /\ 1 <= j /\ at = n + j
          BY <1>5, <1>9
        <4>2. \A i \in 1 .. n : i \in 1 .. at - 1
          BY <4>1
        <4> QED
          BY <1>5, <4>2
      <3>4. \A c \in ToSet(Observe(u)) : \E i \in 1 .. n : found[i] = c
        BY <1>7, <3>2
      <3>5. ASSUME NEW c \in ToSet(Observe(u))
            PROVE  \E i \in 1 .. at - 1 : found'[i] = c
        <4>1. PICK i \in 1 .. n : found[i] = c
          BY <3>4
        <4> QED
          BY <3>3, <4>1
      <3> QED
        BY <3>1, <3>5
    <2>6. found'[at] = new[j]
      BY <1>5, <1>9
    <2>7. Came(root, entry, at)'
      BY <1>6, <2>1, <2>4, <2>5, <2>6 DEF Came
    <2> QED
      BY <1>6, <2>3, <2>4, <2>7
  <1>10. ASSUME NEW j \in 1 .. Len(found')
         PROVE  \E r \in options.roots, entry \in Paths : Came(r, entry, j)'
    <2>1. CASE j \in 1 .. n
      BY <1>8, <2>1
    <2>2. CASE j \notin 1 .. n
      <3>1. j - n \in 1 .. k /\ n + (j - n) = j /\ j \in Nat
        BY <1>5, <2>2
      <3>2. PICK i \in 1 .. k : j = n + i
        BY <3>1
      <3> QED
        BY <1>9, <3>1, <3>2
    <2> QED
      BY <2>1, <2>2
  <1>11. Paths' = Paths
    BY DEF Paths
  <1> QED
    BY <1>10, <1>11 DEF Ordered

\* Rows say what the last reports say.
LEMMA RowsTell ==
    ASSUME NEW reports, NEW edges
    PROVE  /\ \A row \in Rows(reports, edges) : \E r \in LastReports(reports) : Tells(row, r)
           /\ \A r \in LastReports(reports) : \E row \in Rows(reports, edges) : Tells(row, r)
  <1> DEFINE required == {Id(edge) : edge \in {e \in edges : e.relation = "REQUIRES"}}
             needed(r) == Id(r) \in required
  <1>1. Rows(reports, edges) = {Row(r, needed(r)) : r \in LastReports(reports)}
    BY DEF Rows
  <1> HIDE DEF needed
  <1>2. \A r : Tells(Row(r, needed(r)), r)
    BY DEF Row, Tells
  <1> QED
    BY <1>1, <1>2

\* Every step keeps the order.
LEMMA OrderStep == WalkInv /\ OrderInv /\ [Next]_vars => OrderInv'
  <1> SUFFICES ASSUME WalkInv, OrderInv, [Next]_vars
               PROVE  OrderInv'
    OBVIOUS
  <1>1. disk' = disk /\ options' = options
    BY DEF Next, ScanDirectory, Analyze, vars
  <1>2. (disk.installed \in Seq(Tools))'
    BY <1>1 DEF OrderInv, Tools, Paths
  <1>3. /\ \A root, path : Passed(root, path)' = Passed(root, path)
        /\ \A p : CanList(p)' = CanList(p)
        /\ \A entry : Observe(entry)' = Observe(entry)
        /\ found' = found => (Ordered' <=> Ordered) /\ Standing' = Standing
    BY <1>1, OrderStays
  <1>4. ASSUME ToSet(found) \subseteq ToSet(found'), NEW task \in pending
        PROVE  /\ task.root \in options'.roots /\ IsPrefix(task.root, task.dir)
               /\ \A u \in Passed(task.root, task.dir)' : CanList(u)'
               /\ \A u \in Above(task.dir) : IsStrictPrefix(task.root, u) => ToSet(Observe(u)') \subseteq ToSet(found')
    BY <1>1, <1>3, <1>4 DEF OrderInv, OnTheWay
  <1>5. CASE ScanDirectory
    <2>1. PICK task \in pending :
            LET visits == Visits(task.dir)
                below  == {path \in ToSet(visits) : Kind(path) = "dir"}
            IN  IF CanList(task.dir)
                THEN /\ pending' = (pending \ {task}) \union {[root |-> task.root, dir |-> dir] : dir \in below}
                     /\ found' = found \o FlattenSeq([i \in DOMAIN visits |-> Observe(visits[i])])
                     /\ UNCHANGED refused
                ELSE /\ pending' = pending \ {task}
                     /\ refused' = refused \union {task.dir}
                     /\ UNCHANGED found
      BY <1>5 DEF ScanDirectory
    <2>2. ~Ended'
      BY <1>5 DEF ScanDirectory, Ended
    <2>3. task.dir \in Paths /\ Known /\ Tree
      BY DEF WalkInv
    <2>4. CASE CanList(task.dir)
      <3> DEFINE visits == Visits(task.dir)
                 new == FlattenSeq([i \in DOMAIN visits |-> Observe(visits[i])])
                 below == {path \in ToSet(visits) : Kind(path) = "dir"}
                 more == {[root |-> task.root, dir |-> dir] : dir \in below}
      <3>1. pending' = (pending \ {task}) \union more /\ found' = found \o new
        BY <2>1, <2>4
      <3>2. Ordered'
        BY <1>1, <2>3, <2>4, <3>1, AppendsInOrder DEF OrderInv
      <3>3. /\ \A c : c \in ToSet(found') <=> c \in ToSet(found) \/ \E entry \in ToSet(visits) : c \in ToSet(Observe(entry))
            /\ ToSet(visits) = {Child(task.dir, n) : n \in {n \in Entries(task.dir) : ~Excluded(Child(task.dir, n))}}
        BY <2>3, <3>1, ObservedElements, VisitsElements
      <3> HIDE DEF new, visits
      <3>4. ToSet(found) \subseteq ToSet(found')
        BY <3>3
      <3>5. ASSUME NEW dir \in below
            PROVE  /\ IsPrefix(task.root, dir)
                   /\ \A u \in Passed(task.root, dir)' : CanList(u)'
                   /\ \A u \in Above(dir) : IsStrictPrefix(task.root, u) => ToSet(Observe(u)') \subseteq ToSet(found')
        <4>1. PICK name \in ToSet(Names) : dir = Child(task.dir, name)
          BY <3>3 DEF Entries
        <4>2. task.root \in options.roots /\ task.root \in Paths /\ IsPrefix(task.root, task.dir)
          BY <2>3 DEF OrderInv, OnTheWay, Tree
        <4>3. /\ IsStrictPrefix(task.root, dir)
              /\ \A u \in Above(dir) : u = dir \/ u \in Above(task.dir)
              /\ \A u \in Passed(task.root, dir) : u = task.dir \/ u \in Passed(task.root, task.dir)
          BY <2>3, <4>1, <4>2, AboveChild
        <4>4. \A u \in Passed(task.root, dir) : CanList(u)
          BY <2>4, <4>3 DEF OrderInv, OnTheWay
        <4>5. ToSet(Observe(dir)) \subseteq ToSet(found')
          BY <3>3
        <4>6. \A u \in Above(task.dir) : IsStrictPrefix(task.root, u) => ToSet(Observe(u)) \subseteq ToSet(found')
          BY <3>4 DEF OrderInv, OnTheWay
        <4> QED
          BY <1>3, <4>3, <4>4, <4>5, <4>6 DEF IsStrictPrefix
      <3>6. OnTheWay'
        <4> SUFFICES ASSUME NEW t \in pending'
                     PROVE  /\ t.root \in options'.roots /\ IsPrefix(t.root, t.dir)
                            /\ \A u \in Passed(t.root, t.dir)' : CanList(u)'
                            /\ \A u \in Above(t.dir) :
                                  IsStrictPrefix(t.root, u) => ToSet(Observe(u)') \subseteq ToSet(found')
          BY DEF OnTheWay
        <4>1. CASE t \in pending
          BY <1>4, <3>4, <4>1
        <4>2. CASE t \notin pending
          <5>1. PICK dir \in below : t = [root |-> task.root, dir |-> dir]
            BY <3>1, <4>2
          <5>2. task.root \in options'.roots
            BY <1>4, <3>4
          <5> QED
            BY <3>5, <5>1, <5>2
        <4> QED
          BY <4>1, <4>2
      <3> QED
        BY <1>2, <2>2, <3>2, <3>6 DEF OrderInv
    <2>5. CASE ~CanList(task.dir)
      <3>1. pending' \subseteq pending /\ found' = found
        BY <2>1, <2>5
      <3>2. OnTheWay'
        BY <1>4, <3>1 DEF OnTheWay
      <3> QED
        BY <1>2, <1>3, <2>2, <3>1, <3>2 DEF OrderInv
    <2> QED
      BY <2>4, <2>5
  <1>6. ASSUME found' = found, pending' = pending
        PROVE  Ordered' /\ OnTheWay'
    <2>1. OnTheWay'
      BY <1>4, <1>6 DEF OnTheWay
    <2> QED
      BY <1>3, <1>6, <2>1 DEF OrderInv
  <1>7. CASE Analyze
    <2>1. found' = found /\ pending' = pending /\ result' = Analysis(found)
      BY <1>7 DEF Analyze
    <2>2. PICK edges : Analysis(found).rows = Rows(ToolReports \union OutputReports(found), edges)
      BY DEF Analysis
    <2>3. Stored'
      <3>1. result'.rows = Rows(ToolReports \union OutputReports(found), edges) /\ Standing' = Standing
        BY <1>3, <2>1, <2>2
      <3>2. /\ \A row \in result'.rows : \E r \in Standing : Tells(row, r)
            /\ \A r \in Standing : \E row \in result'.rows : Tells(row, r)
        BY <3>1, RowsTell DEF Standing
      <3> QED
        BY <3>1, <3>2 DEF Stored, Tells
    <2> QED
      BY <1>2, <1>6, <2>1, <2>3 DEF OrderInv
  <1>8. CASE UNCHANGED vars
    <2>1. found' = found /\ pending' = pending /\ result' = result /\ Ended' = Ended
      BY <1>8 DEF vars, Ended
    <2>2. Stored' <=> Stored
      BY <1>3, <2>1 DEF Stored, Tells
    <2> QED
      BY <1>2, <1>6, <2>1, <2>2 DEF OrderInv
  <1> QED
    BY <1>5, <1>7, <1>8 DEF Next

------------------------------------------------------------------------------
(* Where what is reported as installed comes from.                           *)

\* Two prefixes of a path are one, or one is a prefix of the other.
LEMMA Comparable ==
    ASSUME NEW p \in Paths, NEW a \in Paths, NEW b \in Paths, IsPrefix(a, p), IsPrefix(b, p)
    PROVE  a \in Above(p) /\ (a = b \/ IsStrictPrefix(a, b) \/ IsStrictPrefix(b, a))
  <1>1. ASSUME NEW x \in Paths, IsPrefix(x, p)
        PROVE  Len(x) \in 0 .. Len(p) /\ x = Top(p, Len(x))
    <2>1. Len(x) <= Len(p) /\ SubSeq(x, 1, Len(x)) = SubSeq(p, 1, Len(x)) /\ Len(x) \in Nat /\ x \in Seq(ToSet(Names))
      BY <1>1 DEF IsPrefix, Paths
    <2>2. Top(x, Len(x)) = x
      BY <2>1, Tops
    <2> QED
      BY <2>1, <2>2 DEF Top, Paths
  <1>2. ASSUME NEW x \in Paths, NEW y \in Paths, IsPrefix(x, p), IsPrefix(y, p), Len(x) <= Len(y)
        PROVE  IsPrefix(x, y)
    <2>1. x = Top(p, Len(x)) /\ y = Top(p, Len(y)) /\ Len(y) \in 0 .. Len(p) /\ Len(x) \in 0 .. Len(y)
      BY <1>1, <1>2 DEF Paths
    <2>2. Top(y, Len(x)) = Top(p, Len(x)) /\ Top(x, Len(x)) = x
      BY <2>1, Tops DEF Paths
    <2> QED
      BY <1>2, <2>1, <2>2 DEF IsPrefix, Top
  <1>3. Len(a) <= Len(b) \/ Len(b) <= Len(a)
    BY DEF Paths
  <1>4. IsPrefix(a, b) \/ IsPrefix(b, a)
    BY <1>2, <1>3
  <1>5. a \in Above(p)
    BY <1>1 DEF Above, Top
  <1> QED
    BY <1>4, <1>5 DEF IsStrictPrefix

\* One path tells its directory and its name.
LEMMA ChildIsOne ==
    ASSUME NEW a \in Paths, NEW b \in Paths, NEW m, NEW n, Child(a, m) = Child(b, n)
    PROVE  a = b /\ m = n
  <1>1. Parent(Child(a, m)) = a /\ Last(Child(a, m)) = m /\ Parent(Child(b, n)) = b /\ Last(Child(b, n)) = n
    BY ChildShape DEF Paths
  <1> QED
    BY <1>1

\* A candidate is of one detector that has something to say.
LEMMA CameFrom ==
    ASSUME Known, OrderInv, NEW j \in 1 .. Len(found)
    PROVE  \E root \in options.roots, entry \in Paths :
              Came(root, entry, j) /\ found[j] # Empty /\ (found[j] = NodeProject(entry) \/ Quiet(found[j]))
  <1>1. PICK root \in options.roots, entry \in Paths : Came(root, entry, j)
    BY DEF OrderInv, Ordered
  <1>2. found[j] \in Detected(entry) /\ found[j] # Empty
    BY <1>1, ObserveElements DEF Came
  <1> QED
    BY <1>1, <1>2, OthersAreQuiet

\* Where a Node workspace comes from.
LEMMA WorkspaceSource ==
    ASSUME Tree, Known, OrderInv, NEW w \in NodeWorkspaces
    PROVE  /\ w.root \in Paths /\ w \in DetectNodeWorkspace(w.root)
           /\ NodeProject(w.root) # Empty
           /\ NodeProject(w.root).workspaces = DetectNodeWorkspace(w.root)
           /\ \A m \in w.members : m = Manifest(Parent(m)) /\ Parent(m) \in Paths
           /\ \E root \in options.roots, j \in 1 .. Len(found) : Came(root, w.root, j)
  <1>1. w.type = "node" /\ \E c \in ToSet(found) : w \in c.workspaces
    BY Gathered DEF NodeWorkspaces
  <1>2. PICK j \in 1 .. Len(found) : w \in found[j].workspaces
    BY <1>1, Elements DEF Known
  <1>3. PICK root \in options.roots, entry \in Paths : Came(root, entry, j)
    BY DEF OrderInv, Ordered
  <1>4. found[j] \in Detected(entry) /\ found[j] # Empty
    BY <1>3, ObserveElements DEF Came
  <1>5. found[j] = NodeProject(entry)
    BY <1>1, <1>2, <1>4, OthersAreForeign DEF Foreign
  <1>6. Reads(Manifest(entry)) /\ NodeProject(entry).workspaces = DetectNodeWorkspace(entry)
    BY <1>2, <1>4, <1>5, NodeShape
  <1>7. NodeWorkspace(w, entry) /\ \A m \in w.members : m = Manifest(Parent(m)) /\ Parent(m) \in Paths
    BY <1>2, <1>5, <1>6, WorkspaceShape DEF Tree
  <1>8. w.root = entry
    BY <1>7 DEF NodeWorkspace
  <1> QED
    BY <1>2, <1>3, <1>4, <1>5, <1>6, <1>7, <1>8

\* What the scan reports as installed in dir, and where it was reported.
Source(r, dir, root, entry, j) ==
    /\ Came(root, entry, j) /\ r.rank = Len(disk.installed) + j
    /\ found[j] = NodeProject(entry) /\ NodeProject(entry) # Empty /\ NodeProject(entry).resources # {}
    /\ dir \in Reported(entry) /\ Installs(dir)
    /\ r.regenerable <=> LockedIn(dir) \/ LockedIn(entry)

\* A report of an install names its project, and one that a Node project owns
\* at that path is of an install.
LEMMA InstallReports ==
    ASSUME Tree, Known, OrderInv, NEW dir \in Paths, NEW r \in Reports(found),
           r.path = Child(dir, "node_modules"), r.type = "node-modules" \/ r.owner = Manifest(dir)
    PROVE  /\ r.type = "node-modules" /\ r.version = <<>> /\ r.owner = Manifest(dir)
           /\ \E j \in 1 .. Len(found), root \in options.roots, entry \in Paths : Source(r, dir, root, entry, j)
  <1>1. PICK j \in DOMAIN found : \E x \in found[j].resources :
              r = Report(Len(disk.installed) + j, TRUE, x, x.owner, x.evidence)
    BY DEF Reports
  <1>2. PICK x \in found[j].resources : r = Report(Len(disk.installed) + j, TRUE, x, x.owner, x.evidence)
    BY <1>1
  <1> DEFINE at == Len(disk.installed) + j
             scoped == TRUE
  <1>3. r = Report(at, scoped, x, x.owner, x.evidence)
    BY <1>2
  <1> HIDE DEF at, scoped
  <1>4. /\ r.rank = at /\ r.type = x.type /\ r.version = x.version /\ r.path = x.path
        /\ r.owner = x.owner /\ r.regenerable = x.regenerable
    BY <1>3 DEF Report
  <1>5. j \in 1 .. Len(found)
    BY DEF Known
  <1>6. PICK root \in options.roots, entry \in Paths :
              Came(root, entry, j) /\ found[j] # Empty /\ (found[j] = NodeProject(entry) \/ Quiet(found[j]))
    BY <1>5, CameFrom
  <1>7. found[j] = NodeProject(entry)
    BY <1>2, <1>4, <1>6 DEF Quiet
  <1>8. Last(x.path) = "node_modules"
    BY <1>4, ChildShape DEF Paths
  <1>9. /\ x.type = "node-modules"
        /\ Reported(entry) \subseteq Paths
        /\ \E d \in Reported(entry) : Installs(d) /\ Install(x, d, entry)
    BY <1>2, <1>6, <1>7, <1>8, NodeInstalls DEF Tree
  <1>10. PICK d \in Reported(entry) : Installs(d) /\ Install(x, d, entry)
    BY <1>9
  <1>11. d = dir
    BY <1>4, <1>9, <1>10, ChildIsOne DEF Install
  <1>12. Source(r, dir, root, entry, j)
    BY <1>2, <1>4, <1>6, <1>7, <1>10, <1>11 DEF Source, Install, at
  <1> QED
    BY <1>4, <1>5, <1>10, <1>11, <1>12 DEF Install

\* What is installed in a directory is reported with each package.json that comes
\* with its project.
LEMMA InstallIsReported ==
    ASSUME Tree, NEW j \in DOMAIN found, NEW entry \in Paths,
           found[j] = NodeProject(entry), NodeProject(entry) # Empty, NodeProject(entry).projects # {},
           NEW dir \in Reported(entry), Installs(dir)
    PROVE  \E r \in Reports(found) :
              /\ r.rank = Len(disk.installed) + j /\ r.type = "node-modules" /\ r.version = <<>>
              /\ r.owner = Manifest(dir) /\ r.path = Child(dir, "node_modules")
  <1>1. PICK x \in found[j].resources : Install(x, dir, entry)
    BY NodeInstalls DEF Tree
  <1> DEFINE at == Len(disk.installed) + j
             scoped == TRUE
             r == Report(at, scoped, x, x.owner, x.evidence)
  <1>2. r \in Reports(found)
    <2>1. Reports(found) =
            UNION {{Report(Len(disk.installed) + i, scoped, y, y.owner, y.evidence) : y \in found[i].resources}
                    : i \in DOMAIN found}
      BY DEF Reports
    <2> HIDE DEF scoped
    <2> QED
      BY <1>1, <2>1
  <1> HIDE DEF at, scoped
  <1>3. r.rank = at /\ r.type = x.type /\ r.version = x.version /\ r.path = x.path /\ r.owner = x.owner
    BY DEF Report
  <1> HIDE DEF r
  <1> QED
    BY <1>1, <1>2, <1>3 DEF Install, at

\* One of the reports that one owner makes of a path is the first.
LEMMA FirstIsKept ==
    ASSUME NEW reports, \A r \in reports : r.rank \in Nat, NEW r \in reports
    PROVE  \E first \in Dedupe(reports) : first.owner = r.owner /\ first.path = r.path
  <1> DEFINE alike == {o \in reports : o.owner = r.owner /\ o.path = r.path}
             ranks == {o.rank : o \in alike}
  <1>1. ranks \in SUBSET Nat /\ ranks # {}
    OBVIOUS
  <1>2. PICK n \in ranks : \A k \in ranks : n <= k
    BY <1>1, LeastNatural
  <1>3. PICK first \in alike : first.rank = n
    OBVIOUS
  <1>4. \A other \in reports : other.owner = first.owner /\ other.path = first.path => first.rank <= other.rank
    BY <1>2, <1>3
  <1>5. first \in Dedupe(reports)
    BY <1>3, <1>4 DEF Dedupe
  <1> QED
    BY <1>3, <1>5

\* The ranks of what projects report.
LEMMA Ranks ==
    ASSUME Known, disk.installed \in Seq(Tools), NEW r \in Reports(found)
    PROVE  r.rank \in Nat
  <1>1. PICK j \in DOMAIN found : \E x \in found[j].resources :
              r = Report(Len(disk.installed) + j, TRUE, x, x.owner, x.evidence)
    BY DEF Reports
  <1>2. r.rank = Len(disk.installed) + j
    BY <1>1 DEF Report
  <1>3. DOMAIN found = 1 .. Len(found) /\ Len(found) \in Nat /\ Len(disk.installed) \in Nat
    BY DEF Known
  <1> QED
    BY <1>2, <1>3

\* A tool is no install of a project.
LEMMA ToolsAreOthers ==
    ASSUME disk.installed \in Seq(Tools), NEW r \in ToolReports
    PROVE  r.type # "node-modules"
  <1>1. PICK i \in DOMAIN disk.installed : r = Report(i, FALSE, disk.installed[i], <<>>, {})
    BY DEF ToolReports
  <1>2. r.type = disk.installed[i].type
    BY <1>1 DEF Report
  <1>3. disk.installed[i].type \notin ProjectLocalTypes
    <2>1. disk.installed[i] \in Tools
      OBVIOUS
    <2> QED
      BY <2>1 DEF Tools
  <1> QED
    BY <1>2, <1>3 DEF ProjectLocalTypes

\* A prefix of a prefix is one, and one of the same length is all.
LEMMA PrefixOfPrefix ==
    ASSUME NEW a \in Paths, NEW b \in Paths, NEW c \in Paths, IsPrefix(a, b), IsPrefix(b, c)
    PROVE  IsPrefix(a, c) /\ (IsPrefix(b, a) => a = b)
  <1>1. /\ Len(a) \in Nat /\ Len(b) \in Nat /\ Len(c) \in Nat /\ Len(a) <= Len(b) /\ Len(b) <= Len(c)
        /\ a = SubSeq(a, 1, Len(a)) /\ b = SubSeq(b, 1, Len(b))
    BY Tops DEF IsPrefix, Paths, Top
  <1>2. a = Top(b, Len(a)) /\ b = Top(c, Len(b))
    BY <1>1 DEF IsPrefix, Top
  <1>3. Top(Top(c, Len(b)), Len(a)) = Top(c, Len(a))
    BY <1>1, Tops DEF Paths
  <1>4. IsPrefix(a, c)
    BY <1>1, <1>2, <1>3 DEF IsPrefix, Top
  <1>5. IsPrefix(b, a) => a = b
    <2>1. ASSUME IsPrefix(b, a)
          PROVE  Len(a) = Len(b)
      <3>1. Len(b) <= Len(a)
        BY <2>1 DEF IsPrefix
      <3>2. Len(a) \in Nat /\ Len(b) \in Nat /\ Len(a) <= Len(b)
        BY <1>1
      <3> QED
        BY <3>1, <3>2
    <2> QED
      BY <1>1, <1>2, <2>1 DEF Top
  <1> QED
    BY <1>4, <1>5

\* What is reported as installed in a member of a kept workspace stands on the
\* lockfiles of the two: no workspace around this one reports it, and a package.json
\* below its root comes after it and is not the first.
LEMMA MemberInstall ==
    ASSUME Tree, Known, OrderInv, RootsAreApart, MembersAreInside,
           NEW w \in Workspaces(found), w.type = "node", NEW m \in w.members,
           NEW r \in OutputReports(found), r.type = "node-modules", r.path = Child(Parent(m), "node_modules")
    PROVE  r.owner = m /\ r.version = <<>> /\ (r.regenerable <=> LockedIn(Parent(m)) \/ LockedIn(w.root))
  <1> DEFINE dir == Parent(m)
             L == Len(disk.installed)
  <1>1. w \in NodeWorkspaces
    BY DEF Workspaces, TopLevelWorkspaces, NodeWorkspaces
  <1>2. /\ w.root \in Paths /\ m = Manifest(dir) /\ dir \in Paths
        /\ w \in DetectNodeWorkspace(w.root)
        /\ NodeProject(w.root) # Empty
        /\ NodeProject(w.root).workspaces = DetectNodeWorkspace(w.root)
        /\ IsPrefix(w.root, dir)
    BY <1>1, WorkspaceSource DEF MembersAreInside, Within
  <1>3. PICK top \in options.roots, at \in 1 .. Len(found) : Came(top, w.root, at)
    BY <1>1, WorkspaceSource
  <1> HIDE DEF dir
  <1>4. r \in FilterByOwner(Reports(found), Projects(found)) /\ r \in Reports(found)
    BY DEF OutputReports, Dedupe, FilterByOwner
  <1>5. r.path = Child(dir, "node_modules")
    BY DEF dir
  <1>6. r.version = <<>> /\ r.owner = m
    BY <1>2, <1>4, <1>5, InstallReports
  <1>7. PICK j \in 1 .. Len(found), root \in options.roots, entry \in Paths : Source(r, dir, root, entry, j)
    BY <1>2, <1>4, <1>5, InstallReports
  <1>8. /\ Came(root, entry, j) /\ r.rank = L + j /\ dir \in Reported(entry) /\ Installs(dir)
        /\ found[j] = NodeProject(entry) /\ NodeProject(entry) # Empty /\ NodeProject(entry).resources # {}
        /\ r.regenerable <=> LockedIn(dir) \/ LockedIn(entry)
    BY <1>7 DEF Source
  <1>9. /\ NodeCanDetect(entry) /\ Reads(Manifest(entry))
        /\ NodeProject(entry).workspaces = DetectNodeWorkspace(entry)
    BY <1>8, NodeInstalls DEF Tree
  <1>10. ASSUME dir # entry
         PROVE  \E v \in DetectNodeWorkspace(entry) : m \in v.members
    BY <1>2, <1>8, <1>9, <1>10, WorkspaceShape DEF Reported, Tree
  <1>11. ASSUME dir # entry
         PROVE  \E v \in NodeWorkspaces : v.root = entry /\ m \in v.members
    <2>1. PICK v \in DetectNodeWorkspace(entry) : m \in v.members
      BY <1>10, <1>11
    <2>2. v.type = "node" /\ v.root = entry
      BY <1>9, WorkspaceShape DEF Tree, NodeWorkspace
    <2>3. found[j] \in ToSet(found) /\ v \in NodeProject(entry).workspaces
      BY <1>9 DEF Known, ToSet
    <2> QED
      BY <1>8, <2>1, <2>2, <2>3, Gathered DEF NodeWorkspaces
  <1>12. IsPrefix(entry, dir) /\ (entry = w.root \/ IsStrictPrefix(entry, w.root) \/ IsStrictPrefix(w.root, entry))
    <2>1. IsPrefix(entry, dir)
      <3>1. CASE dir = entry
        BY <3>1, AboveSelf
      <3>2. CASE dir # entry
        BY <1>11, <3>2 DEF MembersAreInside, Within, dir
      <3> QED
        BY <3>1, <3>2
    <2> QED
      BY <1>2, <2>1, Comparable
  <1>13. CASE entry = w.root
    BY <1>6, <1>8, <1>13 DEF dir
  <1>14. CASE IsStrictPrefix(entry, w.root)
    <2>1. dir # entry
      <3>1. ASSUME dir = entry
            PROVE  FALSE
        <4>1. IsPrefix(w.root, entry) /\ IsPrefix(entry, w.root) /\ entry # w.root
          BY <1>2, <1>14, <3>1 DEF IsStrictPrefix
        <4> QED
          BY <1>2, <4>1, PrefixOfPrefix
      <3> QED
        BY <3>1
    <2>2. PICK v \in NodeWorkspaces : v.root = entry
      BY <1>11, <2>1
    <2> QED
      BY <1>14, <2>2 DEF Workspaces, TopLevelWorkspaces, NodeWorkspaces
  <1>15. CASE IsStrictPrefix(w.root, entry)
    <2>1. top \in Paths /\ root \in Paths /\ IsStrictPrefix(top, w.root) /\ IsStrictPrefix(root, entry)
      BY <1>3, <1>8 DEF Tree, Came
    <2>2. IsPrefix(top, entry)
      BY <1>2, <1>15, <2>1, PrefixOfPrefix DEF IsStrictPrefix
    <2>3. top = root
      BY <2>1, <2>2, Comparable DEF RootsAreApart, Within, IsStrictPrefix
    <2>4. w.root \in Passed(root, entry)
      BY <1>2, <1>15, <2>1, <2>3, Comparable DEF Passed, IsStrictPrefix
    <2>5. NodeProject(w.root) \in ToSet(Observe(w.root))
      BY <1>2, ObserveElements DEF Detected
    <2>6. PICK i \in 1 .. j - 1 : found[i] = NodeProject(w.root)
      BY <1>8, <2>4, <2>5 DEF Came
    <2>7. i \in DOMAIN found /\ i < j /\ L \in Nat /\ i \in Nat /\ j \in Nat
      BY DEF Known, OrderInv
    <2>8. CanList(w.root)
      BY <1>8, <2>4 DEF Came
    <2>9. dir \in Reported(w.root)
      <3>1. NodeCanDetect(dir) /\ Reads(Manifest(dir))
        BY <1>8, <1>9 DEF Reported
      <3> QED
        BY <1>2, <2>8, <3>1 DEF Reported, dir
    <2>10. NodeProject(w.root).projects # {}
      <3>1. NodeProject(w.root).workspaces # {}
        BY <1>2
      <3>2. NodeProject(w.root).projects = {NodeProjectAt(d) : d \in Reported(w.root)}
        BY <1>2, <3>1, NodeInstalls DEF Tree
      <3> QED
        BY <2>9, <3>2
    <2>11. PICK other \in Reports(found) :
              /\ other.rank = L + i /\ other.owner = Manifest(dir) /\ other.path = Child(dir, "node_modules")
      BY <1>2, <1>8, <2>6, <2>7, <2>9, <2>10, InstallIsReported
    <2>12. other \in FilterByOwner(Reports(found), Projects(found))
      BY <1>2, <1>4, <1>6, <2>11 DEF FilterByOwner
    <2>13. r.rank <= other.rank
      BY <1>2, <1>5, <1>6, <2>11, <2>12 DEF OutputReports, Dedupe
    <2> HIDE DEF L
    <2> QED
      BY <1>8, <2>7, <2>11, <2>13
  <1> QED
    BY <1>12, <1>13, <1>14, <1>15

\* What is installed in a member that the result keeps has a row.
LEMMA MemberHasRow ==
    ASSUME Tree, Known, OrderInv, Stored, RootsAreApart, MembersAreInside,
           NEW w \in Workspaces(found), w.type = "node", NEW m \in w.members,
           NEW p \in Projects(found), p.manifest = m,
           CanList(Parent(m)), IsDir(Child(Parent(m), "node_modules"))
    PROVE  NodeModules(Parent(m)) # {}
  <1> DEFINE dir == Parent(m)
  <1>1. w \in NodeWorkspaces
    BY DEF Workspaces, TopLevelWorkspaces, NodeWorkspaces
  <1>2. m = Manifest(dir) /\ dir \in Paths
    BY <1>1, WorkspaceSource
  <1>3. Installs(dir)
    BY <1>2, DirsAreEntries DEF Installs, ArtifactNames, NodeArtifactDirs, Tree
  <1>4. \E c \in ToSet(found) : p \in c.projects
    <2>1. p \in All(LAMBDA c : c.projects, found)
      BY DEF Projects, FilterNodeProjects, FilterFallbackGit
    <2> QED
      BY <2>1, Gathered
  <1>5. PICK j \in 1 .. Len(found) : p \in found[j].projects
    BY <1>4, Elements DEF Known
  <1>6. PICK root \in options.roots, entry \in Paths :
              Came(root, entry, j) /\ found[j] # Empty /\ (found[j] = NodeProject(entry) \/ Quiet(found[j]))
    BY CameFrom
  <1>7. found[j] = NodeProject(entry) /\ NodeProject(entry).projects # {}
    BY <1>2, <1>5, <1>6 DEF Quiet
  <1>8. /\ NodeProject(entry).projects = {NodeProjectAt(d) : d \in Reported(entry)}
        /\ Reported(entry) \subseteq Paths
    BY <1>6, <1>7, NodeInstalls DEF Tree
  <1>9. PICK d \in Reported(entry) : p = NodeProjectAt(d)
    BY <1>5, <1>7, <1>8
  <1>10. d = dir
    <2>1. p.manifest = Manifest(d)
      BY <1>9 DEF NodeProjectAt, Project
    <2> QED
      BY <1>2, <1>8, <2>1, ChildIsOne DEF Manifest
  <1>11. j \in DOMAIN found
    BY DEF Known
  <1>12. PICK r \in Reports(found) : r.owner = Manifest(dir) /\ r.path = Child(dir, "node_modules")
    BY <1>3, <1>6, <1>7, <1>9, <1>10, <1>11, InstallIsReported
  <1> DEFINE filtered == FilterByOwner(Reports(found), Projects(found))
  <1>13. r \in filtered
    BY <1>2, <1>12 DEF FilterByOwner
  <1>14. \A x \in filtered : x \in Reports(found) /\ x.rank \in Nat
    BY Ranks DEF FilterByOwner, OrderInv
  <1> HIDE DEF dir, filtered
  <1>15. PICK first \in Dedupe(filtered) : first.owner = r.owner /\ first.path = r.path
    BY <1>13, <1>14, FirstIsKept
  <1>16. first \in filtered /\ first \in OutputReports(found)
    BY <1>15 DEF Dedupe, OutputReports, filtered
  <1>17. first.type = "node-modules" /\ first.version = <<>> /\ first.owner = m /\ first.path = Child(dir, "node_modules")
    BY <1>2, <1>12, <1>14, <1>15, <1>16, InstallReports
  <1>18. ASSUME NEW other \in ToolReports \union OutputReports(found), Id(other) = Id(first)
         PROVE  other.rank <= first.rank
    <2>1. other.type = "node-modules" /\ other.path = Child(dir, "node_modules")
      BY <1>17, <1>18 DEF Id
    <2>2. other \in OutputReports(found)
      BY <2>1, ToolsAreOthers DEF OrderInv
    <2>3. other.owner = m
      BY <2>1, <2>2, MemberInstall DEF dir
    <2> QED
      BY <1>16, <1>17, <2>1, <2>2, <2>3 DEF OutputReports, Dedupe, filtered
  <1>19. first \in Standing
    BY <1>16, <1>18 DEF Standing, LastReports
  <1>20. PICK row \in result.rows : Tells(row, first)
    BY <1>19 DEF Stored
  <1> QED
    BY <1>17, <1>20 DEF Tells, NodeModules, dir

\* The rows of what is installed in a member say whether one of the two is locked.
LEMMA MemberRow ==
    ASSUME Tree, Known, OrderInv, Stored, RootsAreApart, MembersAreInside,
           NEW w \in Workspaces(found), w.type = "node", NEW m \in w.members, NEW row \in NodeModules(Parent(m))
    PROVE  row.regenerable <=> LockedIn(Parent(m)) \/ LockedIn(w.root)
  <1>1. PICK r \in Standing : Tells(row, r)
    BY DEF Stored, NodeModules
  <1>2. r.type = "node-modules" /\ r.path = Child(Parent(m), "node_modules") /\ row.regenerable = r.regenerable
    BY <1>1 DEF Tells, NodeModules
  <1>3. r \in OutputReports(found)
    BY <1>2, ToolsAreOthers DEF Standing, LastReports, OrderInv
  <1> QED
    BY <1>2, <1>3, MemberInstall

\* The install of a member stands on the lockfiles of the member and of the root of its
\* workspace, for every disk that is a tree and every order of visits.
THEOREM LockfileIsShared == Spec => []MembersShareTheLockfile
  <1>1. WalkInv /\ OrderInv => MembersShareTheLockfile
    <2> SUFFICES ASSUME WalkInv, OrderInv, Ended, Settled,
                        NEW kept \in result.workspaces, kept.type = "node", NEW m \in kept.members
                 PROVE  /\ \A row \in NodeModules(Parent(m)) :
                              row.regenerable <=> LockedIn(Parent(m)) \/ LockedIn(kept.root)
                        /\ CanList(Parent(m)) /\ IsDir(Child(Parent(m), "node_modules"))
                              => NodeModules(Parent(m)) # {}
      BY DEF MembersShareTheLockfile
    <2>1. Tree /\ Known /\ Filtered /\ Stored /\ RootsAreApart /\ MembersAreInside
      BY DEF WalkInv, OrderInv, Settled
    <2>2. PICK w \in Workspaces(found) : kept = [w EXCEPT !.members = ResolveWorkspaceMembers(w, Projects(found))]
      BY <2>1 DEF Filtered
    <2>3. IsWorkspace(w)
      BY <2>1, WorkspaceRecords DEF Workspaces, TopLevelWorkspaces
    <2>4. kept.type = w.type /\ kept.root = w.root /\ kept.members = ResolveWorkspaceMembers(w, Projects(found))
      BY <2>2, <2>3 DEF IsWorkspace
    <2>5. w.type = "node" /\ m \in w.members /\ \E p \in Projects(found) : p.manifest = m
      BY <2>4 DEF ResolveWorkspaceMembers
    <2> QED
      BY <2>1, <2>4, <2>5, MemberRow, MemberHasRow
  <1> QED
    BY <1>1, WalkInitially, WalkStep, OrderInitially, OrderStep, PTL DEF Spec

------------------------------------------------------------------------------
(* The result is the analysis of the candidates.                             *)

\* The edges of projects, outputs, reports and needs.
JoinedEdges(projects, outputs, reports, needs) ==
    OwnsEdges(outputs, reports) \union RequiresEdges(projects, needs, reports)

\* The needs of these projects.
DeclaredNeeds(projects, needs) == {need \in needs : need.owner \in {p.manifest : p \in projects}}

\* The result with these rows.
Joined(projects, workspaces, outputs, reports, needs, issues, rows) ==
    LET members(w) == ResolveWorkspaceMembers(w, projects)
    IN  [projects   |-> projects,
         workspaces |-> {[w EXCEPT !.members = members(w)] : w \in workspaces},
         rows       |-> rows,
         edges      |-> JoinedEdges(projects, outputs, reports, needs),
         issues     |-> issues \union UNION {w.members \ members(w) : w \in workspaces},
         unverified |-> Unverified(projects, needs, reports)]

\* The candidates' needs of projects that are kept.
FoundNeeds == DeclaredNeeds(Projects(found), All(LAMBDA c : c.needs, found))

\* All reports, of tools and of outputs.
FoundReports == ToolReports \union OutputReports(found)

\* The edges between the kept projects and the reports.
FoundEdges == JoinedEdges(Projects(found), OutputReports(found), FoundReports, FoundNeeds)

\* The analysis, in its parts.
LEMMA AnalysisIsJoined ==
    Analysis(found) = Joined(Projects(found), Workspaces(found), OutputReports(found), FoundReports, FoundNeeds,
                             All(LAMBDA c : c.issues, found), Rows(FoundReports, FoundEdges))
  BY DEF Analysis, Joined, JoinedEdges, DeclaredNeeds, FoundNeeds, FoundReports, FoundEdges

\* The result stays while the candidates do.
LEMMA AnalysisStays ==
    ASSUME disk' = disk, found' = found
    PROVE  Analysis(found)' = Analysis(found)
  <1>1. \A r : EnrichCleanupEvidence(r)' = EnrichCleanupEvidence(r)
    BY FileTreeStays DEF EnrichCleanupEvidence
  <1>2. \A r : ObservedRisk(r)' = ObservedRisk(r)
    BY <1>1 DEF ObservedRisk, Within
  <1>3. \A r : RequiredRisk(r)' = RequiredRisk(r)
    BY <1>2 DEF RequiredRisk
  <1>4. \A r, required : Row(r, required)' = Row(r, required)
    BY <1>2, <1>3 DEF Row
  <1>5. \A reports, edges : Rows(reports, edges)' = Rows(reports, edges)
    BY <1>4 DEF Rows, LastReports, Id
  <1>6. Projects(found)' = Projects(found) /\ Workspaces(found)' = Workspaces(found)
    OBVIOUS
  <1>7. ToolReports' = ToolReports /\ Reports(found)' = Reports(found)
    BY DEF ToolReports, Reports
  <1>8. OutputReports(found)' = OutputReports(found)
    BY <1>6, <1>7 DEF OutputReports
  <1>9. All(LAMBDA c : c.needs, found)' = All(LAMBDA c : c.needs, found)
        /\ All(LAMBDA c : c.issues, found)' = All(LAMBDA c : c.issues, found)
    BY DEF All
  <1>10. FoundReports' = FoundReports /\ FoundNeeds' = FoundNeeds
    BY <1>6, <1>7, <1>8, <1>9 DEF FoundReports, FoundNeeds, DeclaredNeeds
  <1>11. FoundEdges' = FoundEdges
    BY <1>6, <1>8, <1>10 DEF FoundEdges
  <1>12. Rows(FoundReports, FoundEdges)' = Rows(FoundReports, FoundEdges)
    BY <1>5, <1>10, <1>11
  <1>13. Analysis(found)' = Joined(Projects(found)', Workspaces(found)', OutputReports(found)', FoundReports', FoundNeeds',
                                   All(LAMBDA c : c.issues, found)', Rows(FoundReports, FoundEdges)')
    BY DEF Analysis, Joined, JoinedEdges, DeclaredNeeds, FoundNeeds, FoundReports, FoundEdges
  <1> QED
    BY <1>6, <1>8, <1>9, <1>10, <1>12, <1>13, AnalysisIsJoined

\* What a scan has stored when it is done.
Concluded == Ended => result = Analysis(found)

\* A scan that begins has not ended.
LEMMA ConcludedInitially == Init => Concluded
  BY DEF Init, Concluded, Ended

\* The candidates stay when the scan has ended.
LEMMA ConcludedStep == Concluded /\ [Next]_vars => Concluded'
  <1> SUFFICES ASSUME Concluded, [Next]_vars
               PROVE  Concluded'
    OBVIOUS
  <1>1. CASE ScanDirectory
    BY <1>1 DEF ScanDirectory, Concluded, Ended
  <1>2. CASE Analyze
    <2>1. disk' = disk /\ found' = found /\ result' = Analysis(found)
      BY <1>2 DEF Analyze
    <2> QED
      BY <2>1, AnalysisStays DEF Concluded
  <1>3. CASE UNCHANGED vars
    <2>1. disk' = disk /\ found' = found /\ result' = result /\ Ended' = Ended
      BY <1>3 DEF vars, Ended
    <2> QED
      BY <2>1, AnalysisStays DEF Concluded
  <1> QED
    BY <1>1, <1>2, <1>3 DEF Next

------------------------------------------------------------------------------
(* What a detector says of a build output.                                   *)

\* Project p stands for x: what it has declared in the evidence of x is so.
Vouched(x, p, workspaces) ==
    /\ x.owner = p.manifest /\ x.type \in ProjectLocalTypes
    /\ Inside(x.path, p.root)
    /\ "GitTrackedOriginalsAbsent" \in x.evidence => TrackedAbsent(FindRepoRoot(p.root), x.path)
    /\ x.regenerable /\ "KnownOutputPath" \in x.evidence => CanBeMadeAgain(x, p, workspaces)

\* The evidence of an output is what ProjectArtifactCleanupEvidence finds.
LEMMA OutputIsVouched ==
    ASSUME NEW project, NEW path, NEW type \in ProjectLocalTypes, NEW regenerable, NEW kind,
           NEW x, x = Output(project, path, type, regenerable, kind),
           Inside(path, project.root), NEW workspaces,
           \A r, row : /\ regenerable /\ KnownOutputPath(r) /\ r.type = type /\ r.path = path /\ r.kind = kind
                       /\ row.type = type /\ row.path = path
                       => CanBeMadeAgain(row, project, workspaces)
    PROVE  Vouched(x, project, workspaces)
  <1> DEFINE r == [owner |-> project.manifest, type |-> type, version |-> <<>>, path |-> path,
                   regenerable |-> regenerable, kind |-> kind, evidence |-> {}]
             evidence == ProjectArtifactCleanupEvidence(project.root, r)
  <1>1. x = [r EXCEPT !.evidence = evidence]
    BY DEF Output
  <1>2. /\ "KnownOutputPath" \in evidence => KnownOutputPath(r)
        /\ "GitTrackedOriginalsAbsent" \in evidence => TrackedAbsent(FindRepoRoot(project.root), path)
    BY DEF ProjectArtifactCleanupEvidence
  <1> HIDE DEF evidence
  <1>3. /\ x.owner = project.manifest /\ x.type = type /\ x.path = path /\ x.regenerable = regenerable
        /\ x.evidence = evidence /\ r.type = type /\ r.path = path /\ r.kind = kind
    BY <1>1
  <1> HIDE DEF r
  <1> QED
    BY <1>2, <1>3 DEF Vouched

\* An output that is not declared counts where its name says what it is.
LEMMA InferredIsKnown ==
    ASSUME NEW r, KnownOutputPath(r), r.kind = "INFERRED", r.type = "build-output"
    PROVE  Last(r.path) \in FixedLocationNames \/ Extension[Last(r.path)] = ".egg-info"
  <1>1. DefaultConfidence("INFERRED") = 40 /\ DefaultConfidence("DECLARED") = 75
    BY DEF DefaultConfidence
  <1> QED
    BY <1>1 DEF KnownOutputPath

\* Names that detectors look for do not end like the directories of Python, and none
\* but the build directory of Swift is known by its name.
LEMMA FixedIsUnknown ==
    ASSUME NEW name \in ToSet(Names), name \in NodeArtifactDirs \union {"bin", "obj"}
    PROVE  name \notin FixedLocationNames /\ Extension[name] # ".egg-info"
  <1>1. name \in FixedNames
    BY DEF FixedNames, NodeArtifactDirs
  <1>2. name \notin FixedLocationNames
    BY DEF FixedLocationNames, NodeArtifactDirs
  <1> QED
    BY <1>1, <1>2, DiscoveryAssumption

\* All outputs of a project are vouched for, except for environments: they are where
\* it is, and nothing is said of them.
AllVouched(c) ==
    \A x \in c.resources : \E p \in c.projects :
        \/ x.type = "conda-env" /\ x.evidence = {} /\ Inside(x.path, p.root)
        \/ Vouched(x, p, c.workspaces)

\* A project with its outputs.
LEMMA OutputsAreVouched ==
    ASSUME NEW project, NEW outputs, \A x \in outputs : Vouched(x, project, {})
    PROVE  AllVouched(WithOutputs(project, outputs))
  BY DEF AllVouched, WithOutputs, Empty

\* The directory of an entry is a path.
LEMMA ParentIsPath ==
    ASSUME NEW entry \in Paths, entry # <<>>
    PROVE  Parent(entry) \in Paths /\ Len(Parent(entry)) = Len(entry) - 1 /\ entry = Child(Parent(entry), Last(entry))
           /\ Last(entry) \in ToSet(Names)
  <1>1. entry \in Seq(ToSet(Names)) /\ Len(entry) \in Nat /\ Len(entry) # 0
    BY DEF Paths
  <1>2. Parent(entry) = Top(entry, Len(entry) - 1) /\ Last(entry) = entry[Len(entry)]
    BY DEF Parent, Front, Last, Top
  <1>3. PICK k \in 0 .. Len(entry) : k = Len(entry) - 1 /\ k < Len(entry) /\ k + 1 = Len(entry)
    <2>1. Len(entry) \in Nat \ {0}
      BY <1>1
    <2>2. Len(entry) - 1 \in 0 .. Len(entry) /\ Len(entry) - 1 < Len(entry) /\ Len(entry) - 1 + 1 = Len(entry)
      BY <2>1
    <2> QED
      BY <2>2
  <1>4. /\ Top(entry, k) \in Seq(ToSet(Names)) /\ Len(Top(entry, k)) = k /\ Top(entry, Len(entry)) = entry
        /\ k < Len(entry) => Top(entry, k + 1) = Append(Top(entry, k), entry[k + 1]) /\ entry[k + 1] \in ToSet(Names)
    BY <1>1, Tops
  <1>5. entry = Append(Top(entry, k), Last(entry)) /\ Last(entry) \in ToSet(Names)
    BY <1>2, <1>3, <1>4
  <1> QED
    BY <1>2, <1>3, <1>4, <1>5 DEF Child, Paths

\* Cargo with a lockfile, Maven and Gradle.
LEMMA EcosystemIsVouched ==
    ASSUME NEW entry \in Paths, entry # <<>>
    PROVE  AllVouched(EcosystemProject(entry))
  <1> DEFINE project == Project(EcosystemType(entry), Parent(entry), entry)
             outputs == EcosystemBuildArtifact(project)
             name == IF project.type \in {"maven", "cargo"} THEN "target" ELSE "build"
             path == Child(project.root, name)
             proven == project.type = "cargo" => Exists(Child(project.root, "Cargo.lock"))
             kind == IF proven THEN "DECLARED" ELSE "INFERRED"
  <1>1. EcosystemProject(entry) = Empty \/ (\E file : EcosystemProject(entry) = Failure(file))
            \/ (EcosystemProject(entry) = WithOutputs(project, outputs) /\ Last(entry) \in EcosystemManifests)
    BY DEF EcosystemProject
  <1>2. ASSUME Last(entry) \in EcosystemManifests, NEW x \in outputs
        PROVE  Vouched(x, project, {})
    <2>1. project.type \in {"maven", "cargo", "go", "android", "gradle"} /\ project.root = Parent(entry)
      BY <1>2 DEF Project, EcosystemType, EcosystemManifests, GradleManifests
    <2>2. project.type # "go" /\ x = Output(project, path, "build-output", proven, kind)
      BY <1>2 DEF EcosystemBuildArtifact
    <2> HIDE DEF project
    <2>3. project.root \in Paths
      BY <2>1, ParentIsPath
    <2>4. Inside(path, project.root) /\ Last(path) = name
      BY <2>3, ChildIsInside, ChildShape DEF Paths
    <2>5. ASSUME NEW r, NEW row, proven, row.type = "build-output", row.path = path
          PROVE  CanBeMadeAgain(row, project, {})
      <3>1. Last(row.path) = name
        BY <2>4, <2>5
      <3>2. CASE project.type = "cargo"
        <4>1. name = "target" /\ Exists(Child(project.root, "Cargo.lock"))
          BY <2>5, <3>2
        <4> QED
          BY <2>5, <3>1, <3>2, <4>1 DEF CanBeMadeAgain
      <3>3. CASE project.type \in {"maven", "android", "gradle"}
        <4>1. name \in {"target", "build"}
          OBVIOUS
        <4> QED
          BY <2>5, <3>1, <3>3, <4>1 DEF CanBeMadeAgain
      <3> QED
        BY <2>1, <2>2, <3>2, <3>3
    <2> HIDE DEF path, proven, kind
    <2>6. "build-output" \in ProjectLocalTypes
      BY DEF ProjectLocalTypes
    <2> QED
      BY <2>2, <2>4, <2>5, <2>6, OutputIsVouched
  <1> HIDE DEF project, outputs
  <1>3. AllVouched(Empty) /\ \A file : AllVouched(Failure(file))
    BY DEF AllVouched, Empty, Failure
  <1> QED
    BY <1>1, <1>2, <1>3, OutputsAreVouched

\* What a lockfile stands for.
LEMMA LockedIsVouched ==
    ASSUME NEW project, project.root \in Paths, NEW name, NEW type \in ProjectLocalTypes, NEW lockfile,
           NEW x \in LockedOutput(project, name, type, lockfile),
           \A row : Exists(Child(project.root, lockfile)) /\ row.type = type /\ Last(row.path) = name
                    => CanBeMadeAgain(row, project, {})
    PROVE  Vouched(x, project, {})
  <1> DEFINE locked == Exists(Child(project.root, lockfile))
             kind == IF locked THEN "DECLARED" ELSE "INFERRED"
  <1>1. PICK n \in ArtifactNames(project.root, {name}) : x = Output(project, Child(project.root, n), type, locked, kind)
    BY DEF LockedOutput
  <1>2. n = name
    BY DEF ArtifactNames
  <1>3. Inside(Child(project.root, name), project.root) /\ Last(Child(project.root, name)) = name
    BY ChildIsInside, ChildShape DEF Paths
  <1>4. \A row : locked /\ row.type = type /\ row.path = Child(project.root, name) => CanBeMadeAgain(row, project, {})
    BY <1>3
  <1> HIDE DEF locked, kind
  <1> QED
    BY <1>1, <1>2, <1>3, <1>4, OutputIsVouched

\* CocoaPods and SwiftPM.
LEMMA AppleIsVouched ==
    ASSUME NEW entry \in Paths, entry # <<>>
    PROVE  AllVouched(XcodeProject(entry)) /\ AllVouched(SwiftPMProject(entry)) /\ AllVouched(XcodeWorkspace(entry))
  <1> DEFINE manifest == Child(entry, "project.pbxproj")
             xcode == Project("xcode", Parent(entry), manifest)
             swift == Project("swiftpm", Parent(entry), entry)
             builds == LockedOutput(swift, ".build", "build-output", "Package.resolved")
  <1>1. AllVouched(Empty) /\ \A file : AllVouched(Failure(file))
    BY DEF AllVouched, Empty, Failure
  <1>2. xcode.root \in Paths /\ swift.root \in Paths /\ xcode.type = "xcode" /\ swift.type = "swiftpm"
    BY ParentIsPath DEF Project
  <1>3. "cocoapods-pods" \in ProjectLocalTypes /\ "build-output" \in ProjectLocalTypes
    BY DEF ProjectLocalTypes
  <1>4. AllVouched(XcodeWorkspace(entry))
    BY <1>1 DEF XcodeWorkspace, AllVouched, Empty
  <1>5. XcodeProject(entry) = Empty \/ (\E file : XcodeProject(entry) = Failure(file))
            \/ XcodeProject(entry) = WithOutputs(xcode, Pods(xcode))
    BY DEF XcodeProject
  <1>6. SwiftPMProject(entry) = Empty \/ SwiftPMProject(entry) = WithOutputs(swift, builds)
    BY DEF SwiftPMProject
  <1> HIDE DEF xcode, swift
  <1>7. ASSUME NEW x \in Pods(xcode)
        PROVE  Vouched(x, xcode, {})
    <2>1. Exists(Child(xcode.root, "Podfile")) /\ x \in LockedOutput(xcode, "Pods", "cocoapods-pods", "Podfile.lock")
      BY <1>7 DEF Pods
    <2>2. \A row : Exists(Child(xcode.root, "Podfile.lock")) /\ row.type = "cocoapods-pods"
                   => CanBeMadeAgain(row, xcode, {})
      BY <2>1 DEF CanBeMadeAgain
    <2> QED
      BY <1>2, <1>3, <2>1, <2>2, LockedIsVouched
  <1>8. ASSUME NEW x \in builds
        PROVE  Vouched(x, swift, {})
    <2>1. \A row : /\ Exists(Child(swift.root, "Package.resolved")) /\ row.type = "build-output"
                   /\ Last(row.path) = ".build"
                   => CanBeMadeAgain(row, swift, {})
      BY <1>2 DEF CanBeMadeAgain
    <2> QED
      BY <1>2, <1>3, <1>8, <2>1, LockedIsVouched
  <1> HIDE DEF builds
  <1> QED
    BY <1>1, <1>4, <1>5, <1>6, <1>7, <1>8, OutputsAreVouched

\* The outputs that a build file declares, and those that it leaves to the tool.
LEMMA MSBuildIsVouched ==
    ASSUME IsTree(disk), NEW entry \in Paths, entry # <<>>
    PROVE  AllVouched(MSBuildProject(entry))
  <1> DEFINE type == IF Extension[Last(entry)] = ".csproj" THEN "dotnet" ELSE "cpp"
             project == Project(type, Parent(entry), entry)
             declared == ResolveDeclaredOutputDirs(project.root, Declared(entry).outputs)
             inferred == {Child(project.root, n) : n \in ArtifactNames(project.root, {"bin", "obj"})} \ declared
             yes == TRUE
             stopped == LeadsThroughFile(project.root, Declared(entry).outputs)
             all == {Output(project, path, "build-output", yes, "DECLARED") : path \in declared}
                        \union {Output(project, path, "build-output", yes, "INFERRED") : path \in inferred}
             outputs == IF stopped THEN {} ELSE all
             needs == {[owner |-> entry, type |-> need.type, version |-> need.version, name |-> need.name,
                        conditional |-> need.conditional] : need \in Declared(entry).needs}
             issues == IF stopped THEN {project.root} ELSE WithOutputs(project, outputs).issues
             c == [WithOutputs(project, outputs) EXCEPT !.issues = issues, !.needs = needs]
  <1>1. AllVouched(Empty) /\ \A file : AllVouched(Failure(file))
    BY DEF AllVouched, Empty, Failure
  <1>2. CASE MSBuildProject(entry) = Empty \/ \E file : MSBuildProject(entry) = Failure(file)
    BY <1>1, <1>2
  <1>3. CASE ~(MSBuildProject(entry) = Empty \/ \E file : MSBuildProject(entry) = Failure(file))
    <2>1. MSBuildProject(entry) = c /\ Reads(entry) /\ \A file \in Props(Parent(entry)) : Reads(file)
      BY <1>3 DEF MSBuildProject, MSBuildArtifacts
    <2>2. project.root = Parent(entry) /\ project.manifest = entry /\ project.type \in {"dotnet", "cpp"}
          /\ project.root \in Paths
      BY ParentIsPath DEF Project
    <2>3. \A file : Reads(file) => Says(file).outputs \subseteq Outputs
      BY DEF Reads, CanRead, IsFile, Says, IsTree
    <2>4. Declared(entry).outputs \subseteq Outputs
      <3>1. CASE Props(Parent(entry)) = {}
        BY <2>1, <2>3, <3>1 DEF Declared
      <3>2. CASE Props(Parent(entry)) # {}
        <4> DEFINE file == CHOOSE file \in Props(Parent(entry)) : TRUE
        <4>1. file \in Props(Parent(entry))
          BY <3>2
        <4>2. Declared(entry) = MergeInherited(Says(entry), Says(file))
          BY <3>2 DEF Declared
        <4> HIDE DEF file
        <4> QED
          BY <2>1, <2>3, <4>1, <4>2 DEF MergeInherited
      <3> QED
        BY <3>1, <3>2
    <2>5. c.resources = outputs /\ c.projects = {project} /\ c.workspaces = {}
      <3> HIDE DEF outputs, project, needs, issues
      <3> QED
        BY DEF WithOutputs, Empty
    <2> HIDE DEF needs, issues, stopped, c, project
    <2>6. "build-output" \in ProjectLocalTypes
      BY DEF ProjectLocalTypes
    <2>7. ASSUME NEW path \in declared, NEW x, x = Output(project, path, "build-output", yes, "DECLARED")
          PROVE  Vouched(x, project, {})
      <3>1. PICK o \in Declared(entry).outputs :
                path = Resolve(project.root, o.path) /\ ~o.conditional /\ o.path.up = 0
        BY DEF ResolveDeclaredOutputDirs
      <3>2. o.path.down \in Seq(ToSet(Names)) /\ project.root \in Seq(ToSet(Names))
        BY <2>2, <2>4 DEF Outputs, Paths
      <3>3. path = project.root \o o.path.down
        <4>1. Len(project.root) \in Nat /\ SubSeq(project.root, 1, Len(project.root)) = project.root
          BY <3>2
        <4>2. ~(0 > Len(project.root)) /\ Len(project.root) - 0 = Len(project.root)
          BY <4>1
        <4> QED
          BY <3>1, <4>1, <4>2 DEF Resolve
      <3>4. Inside(path, project.root)
        BY <3>2, <3>3, JoinedIsInside
      <3>5. \A row : row.type = "build-output" /\ row.path = path => CanBeMadeAgain(row, project, {})
        BY <2>2, <3>1 DEF CanBeMadeAgain
      <3> HIDE DEF yes
      <3> QED
        BY <2>6, <2>7, <3>4, <3>5, OutputIsVouched
    <2>8. ASSUME NEW path \in inferred, NEW x, x = Output(project, path, "build-output", yes, "INFERRED")
          PROVE  Vouched(x, project, {})
      <3>1. PICK name \in ArtifactNames(project.root, {"bin", "obj"}) : path = Child(project.root, name)
        OBVIOUS
      <3>2. name \in ToSet(Names) /\ name \in {"bin", "obj"}
        BY DEF ArtifactNames, Entries
      <3>3. Inside(path, project.root) /\ Last(path) = name
        BY <2>2, <3>1, ChildIsInside, ChildShape DEF Paths
      <3>4. \A r : r.type = "build-output" /\ r.path = path /\ r.kind = "INFERRED" => ~KnownOutputPath(r)
        BY <3>2, <3>3, InferredIsKnown, FixedIsUnknown
      <3> HIDE DEF yes
      <3> QED
        BY <2>6, <2>8, <3>3, <3>4, OutputIsVouched
    <2> HIDE DEF declared, inferred
    <2>9. \A x \in outputs : Vouched(x, project, {})
      <3> HIDE DEF yes
      <3> QED
        BY <2>7, <2>8
    <2> HIDE DEF outputs
    <2> QED
      BY <2>1, <2>5, <2>9 DEF AllVouched
  <1> QED
    BY <1>2, <1>3

\* Environments with a lockfile or pinned requirements, and caches.
LEMMA PythonIsVouched ==
    ASSUME NEW entry \in Paths
    PROVE  AllVouched(PythonProject(entry))
  <1> DEFINE project == Project("python", entry, Child(entry, PythonFound(entry)[1]))
             outputs == PythonArtifacts(project)
             local(named) == {r \in LocalPrefixEnvs(project) : r.path \notin named}
  <1>1. CASE PythonProject(entry) = Empty
    BY <1>1 DEF AllVouched, Empty
  <1>2. CASE PythonProject(entry) # Empty
    <2>1. project.root = entry /\ project.type = "python"
      BY DEF Project
    <2>2. PICK named, N, I :
              \/ PythonProject(entry) = [Empty EXCEPT !.projects = {project}, !.issues = {entry}]
              \/ PythonProject(entry) = [WithOutputs(project, outputs) EXCEPT
                                            !.resources = outputs \union local(named), !.needs = N, !.issues = I]
      <3>1. WithOutputs(project, outputs).resources = outputs
        BY DEF WithOutputs, Empty
      <3> HIDE DEF outputs
      <3> QED
        BY <1>2, <3>1 DEF PythonProject, outputs
    <2>3. \A r \in local(named) : r.type = "conda-env" /\ r.evidence = {} /\ Inside(r.path, project.root)
      BY <2>1, ChildIsInside DEF LocalPrefixEnvs
    <2> DEFINE kind == LockfileEvidence(entry)
               locked == kind \in {"DECLARED", "PINNED"}
               yes == TRUE
               venv == DetectVenv(entry)
               caches == ArtifactNames(entry, {n \in ToSet(Names) : n \in CacheDirNames \/ Extension[n] = ".egg-info"})
    <2>4. outputs = {Output(project, Child(entry, n), "python-venv", locked, kind) : n \in venv}
                        \union {Output(project, Child(entry, n), "build-output", yes, "INFERRED") : n \in caches \ venv}
      BY <2>1 DEF PythonArtifacts
    <2> HIDE DEF project, outputs, local
    <2>5. \A n : Inside(Child(entry, n), entry) /\ Last(Child(entry, n)) = n
      BY ChildIsInside, ChildShape DEF Paths
    <2>6. "python-venv" \in ProjectLocalTypes /\ "build-output" \in ProjectLocalTypes
      BY DEF ProjectLocalTypes
    <2>7. ASSUME NEW n, NEW x, x = Output(project, Child(entry, n), "python-venv", locked, kind)
          PROVE  Vouched(x, project, {})
      <3>1. ASSUME locked
            PROVE  \/ \E name \in PythonLockfiles : Exists(Child(entry, name))
                   \/ Exists(Child(entry, "requirements.txt")) /\ Says(Child(entry, "requirements.txt")).pinned
        BY <3>1 DEF LockfileEvidence, CanRead, Exists
      <3>2. \A row : locked /\ row.type = "python-venv" => CanBeMadeAgain(row, project, {})
        BY <2>1, <3>1 DEF CanBeMadeAgain
      <3> HIDE DEF locked, kind
      <3> QED
        BY <2>1, <2>5, <2>6, <2>7, <3>2, OutputIsVouched
    <2>8. ASSUME NEW n, NEW x, x = Output(project, Child(entry, n), "build-output", yes, "INFERRED")
          PROVE  Vouched(x, project, {})
      <3>1. \A r, row : /\ KnownOutputPath(r) /\ r.type = "build-output" /\ r.path = Child(entry, n)
                        /\ r.kind = "INFERRED" /\ row.type = "build-output" /\ row.path = Child(entry, n)
                        => CanBeMadeAgain(row, project, {})
        BY <2>1, InferredIsKnown DEF CanBeMadeAgain
      <3> HIDE DEF yes
      <3> QED
        BY <2>1, <2>5, <2>6, <2>8, <3>1, OutputIsVouched
    <2>9. \A x \in outputs : Vouched(x, project, {})
      <3> HIDE DEF locked, kind, yes, venv, caches
      <3> QED
        BY <2>4, <2>7, <2>8
    <2>10. AllVouched([Empty EXCEPT !.projects = {project}, !.issues = {entry}])
      BY DEF AllVouched, Empty
    <2>11. AllVouched([WithOutputs(project, outputs) EXCEPT
                          !.resources = outputs \union local(named), !.needs = N, !.issues = I])
      BY <2>3, <2>9 DEF AllVouched, WithOutputs, Empty
    <2> QED
      BY <2>2, <2>10, <2>11
  <1> QED
    BY <1>1, <1>2

\* A project with a lockfile, or a member of a workspace with one.
LEMMA NodeIsVouched ==
    ASSUME IsTree(disk), NEW entry \in Paths
    PROVE  AllVouched(NodeProject(entry))
  <1>1. CASE NodeProject(entry) = Empty
    BY <1>1 DEF AllVouched, Empty
  <1>2. CASE NodeProject(entry) # Empty
    <2>1. NodeCanDetect(entry)
      BY <1>2 DEF NodeProject
    <2>2. CASE ~Reads(Manifest(entry))
      BY <2>1, <2>2 DEF NodeProject, Failure, Empty, AllVouched
    <2>3. CASE Reads(Manifest(entry))
      <3> DEFINE workspaces == DetectNodeWorkspace(entry)
                 outputs(dir) == IF CanList(dir) THEN NodeArtifacts(dir, {dir, entry}) ELSE {}
                 listed == {dir \in {Parent(m) : m \in UNION {w.members : w \in workspaces}} : NodeCanDetect(dir)}
                 roots == IF CanList(entry) THEN {dir \in listed : Reads(Manifest(dir))} ELSE {}
                 reported == roots \union {entry}
      <3>1. /\ NodeProject(entry).projects = {NodeProjectAt(dir) : dir \in reported}
            /\ NodeProject(entry).workspaces = workspaces
            /\ NodeProject(entry).resources = UNION {outputs(dir) : dir \in reported}
        BY <2>1, <2>3 DEF NodeProject
      <3>2. \A dir \in reported : dir \in Paths
                /\ (dir = entry \/ \E w \in workspaces : Manifest(dir) \in w.members /\ w.root = entry)
        BY <2>3, WorkspaceShape DEF NodeWorkspace
      <3> HIDE DEF reported, workspaces
      <3>3. ASSUME NEW dir \in reported, NEW x \in NodeArtifacts(dir, {dir, entry})
            PROVE  Vouched(x, NodeProjectAt(dir), workspaces)
        <4> DEFINE locked == \E d \in {dir, entry}, name \in NodeLockfiles : Exists(Child(d, name))
                   builds == Reads(Manifest(dir)) /\ Says(Manifest(dir)).build
                   project == NodeProjectAt(dir)
                   kind == IF locked THEN "DECLARED" ELSE "INFERRED"
        <4>1. PICK name \in ArtifactNames(dir, NodeArtifactDirs) :
                \/ name = "node_modules" /\ x = Output(project, Child(dir, name), "node-modules", locked, kind)
                \/ name # "node_modules" /\ x = Output(project, Child(dir, name), "build-output", builds, "INFERRED")
          BY DEF NodeArtifacts
        <4>2. project.root = dir /\ project.manifest = Manifest(dir)
          BY DEF NodeProjectAt, Project
        <4>3. Inside(Child(dir, name), dir) /\ Last(Child(dir, name)) = name
          BY <3>2, ChildIsInside, ChildShape DEF Paths
        <4>4. "node-modules" \in ProjectLocalTypes /\ "build-output" \in ProjectLocalTypes
          BY DEF ProjectLocalTypes
        <4>5. name \in ToSet(Names) /\ name \in NodeArtifactDirs
          BY DEF ArtifactNames, Entries
        <4>6. \A row : locked /\ row.type = "node-modules" => CanBeMadeAgain(row, project, workspaces)
          <5>1. locked => LockedIn(dir) \/ LockedIn(entry)
            BY DEF LockedIn
          <5> HIDE DEF locked, project
          <5> QED
            BY <3>2, <4>2, <5>1 DEF CanBeMadeAgain
        <4>7. \A r : r.type = "build-output" /\ r.path = Child(dir, name) /\ r.kind = "INFERRED" => ~KnownOutputPath(r)
          BY <4>3, <4>5, InferredIsKnown, FixedIsUnknown
        <4> HIDE DEF locked, builds, project, kind
        <4>8. Vouched(x, project, workspaces)
          BY <4>1, <4>2, <4>3, <4>4, <4>6, <4>7, OutputIsVouched
        <4> QED
          BY <4>8 DEF project
      <3>4. ASSUME NEW x \in NodeProject(entry).resources
            PROVE  \E p \in NodeProject(entry).projects : Vouched(x, p, NodeProject(entry).workspaces)
        <4>1. PICK dir \in reported : x \in outputs(dir)
          BY <3>1
        <4>2. Vouched(x, NodeProjectAt(dir), workspaces)
          BY <3>3, <4>1
        <4> QED
          BY <3>1, <4>1, <4>2
      <3> QED
        BY <3>4 DEF AllVouched
    <2> QED
      BY <2>2, <2>3
  <1> QED
    BY <1>1, <1>2

\* Whatever a detector reports is vouched for.
LEMMA DetectedIsVouched ==
    ASSUME IsTree(disk), NEW entry \in Paths, entry # <<>>, NEW c \in Detected(entry)
    PROVE  AllVouched(c)
  <1>1. AllVouched(GitProject(entry))
    BY DEF GitProject, AllVouched, Empty
  <1> QED
    BY <1>1, EcosystemIsVouched, AppleIsVouched, MSBuildIsVouched, PythonIsVouched, NodeIsVouched DEF Detected

\* The name of a manifest says the type of the project and where its root is.
Identified(p) ==
    LET name == Last(p.manifest)
    IN  /\ p = Project(p.type, p.root, p.manifest)
        /\ p.root = IF name = "project.pbxproj" THEN Parent(Parent(p.manifest)) ELSE Parent(p.manifest)
        /\ p.type = CASE name = ".git"                  -> "git"
                      [] name = "package.json"          -> "node"
                      [] name \in ToSet(PythonMarkers)  -> "python"
                      [] name \in EcosystemManifests    -> EcosystemType(p.manifest)
                      [] name = "Package.swift"         -> "swiftpm"
                      [] name = "project.pbxproj"       -> "xcode"
                      [] OTHER -> IF Extension[name] = ".csproj" THEN "dotnet" ELSE "cpp"

\* A manifest in a directory.
LEMMA ManifestIn ==
    ASSUME NEW dir \in Paths, NEW name
    PROVE  Last(Child(dir, name)) = name /\ Parent(Child(dir, name)) = dir
  BY ChildShape DEF Paths

\* Two projects of one manifest are one.
LEMMA OneProject ==
    ASSUME NEW p, NEW q, Identified(p), Identified(q), p.manifest = q.manifest
    PROVE  p = q
  <1>1. p.type = q.type /\ p.root = q.root
    BY DEF Identified
  <1>2. p = Project(p.type, p.root, p.manifest) /\ q = Project(q.type, q.root, q.manifest)
    BY DEF Identified
  <1> QED
    BY <1>1, <1>2

\* Every project is identified by its manifest.
LEMMA DetectedIsIdentified ==
    ASSUME IsTree(disk), NEW entry \in Paths, entry # <<>>, NEW c \in Detected(entry), NEW p \in c.projects
    PROVE  Identified(p)
  <1> DEFINE markers == ToSet(PythonMarkers)
  <1>1. \A file : Empty.projects = {} /\ Failure(file).projects = {}
    BY DEF Empty, Failure
  <1>2. \A project, outputs : WithOutputs(project, outputs).projects = {project}
    BY DEF WithOutputs, Empty
  <1>3. markers = {"pyproject.toml", "Pipfile", "setup.py", "requirements.txt"}
    BY DEF PythonMarkers, ToSet
  <1> HIDE DEF markers
  <1>4. EcosystemManifests = {"pom.xml", "cargo.toml", "go.mod", "build.gradle", "build.gradle.kts"}
    BY DEF EcosystemManifests, GradleManifests
  <1>5. Parent(entry) \in Paths /\ Last(entry) \in ToSet(Names)
    BY ParentIsPath
  <1>6. \A type, root, manifest : LET q == Project(type, root, manifest)
                                  IN  q.type = type /\ q.root = root /\ q.manifest = manifest
    BY DEF Project
  <1>7. CASE c = GitProject(entry)
    <2>1. p = Project("git", entry, Child(entry, ".git"))
      BY <1>1, <1>7 DEF GitProject, Empty
    <2>2. p.type = "git" /\ p.root = entry /\ Last(p.manifest) = ".git" /\ Parent(p.manifest) = entry
      BY <1>6, <2>1, ManifestIn
    <2>3. p = Project(p.type, p.root, p.manifest)
      BY <1>6, <2>1
    <2> QED
      BY <1>3, <1>4, <2>2, <2>3 DEF Identified, markers
  <1>8. CASE c = NodeProject(entry)
    <2>1. PICK dir \in Paths : p = NodeProjectAt(dir)
      <3>1. NodeProject(entry) # Empty
        BY <1>1, <1>8
      <3> QED
        BY <1>8, <3>1, NodeInstalls
    <2>2. p = Project("node", dir, Child(dir, "package.json"))
      BY <2>1 DEF NodeProjectAt, Manifest
    <2>3. p.type = "node" /\ p.root = dir /\ Last(p.manifest) = "package.json" /\ Parent(p.manifest) = dir
      BY <1>6, <2>2, ManifestIn
    <2>4. p = Project(p.type, p.root, p.manifest)
      BY <1>6, <2>2
    <2> QED
      BY <1>3, <1>4, <2>3, <2>4 DEF Identified, markers
  <1>9. CASE c = MSBuildProject(entry)
    <2> DEFINE type == IF Extension[Last(entry)] = ".csproj" THEN "dotnet" ELSE "cpp"
               project == Project(type, Parent(entry), entry)
               outputs == MSBuildArtifacts(project, Declared(entry).outputs)
               needs == {[owner |-> entry, type |-> need.type, version |-> need.version, name |-> need.name,
                          conditional |-> need.conditional] : need \in Declared(entry).needs}
               stopped == LeadsThroughFile(project.root, Declared(entry).outputs)
               issues == IF stopped THEN {project.root} ELSE WithOutputs(project, outputs).issues
    <2>1. Extension[Last(entry)] \in {".csproj", ".vcxproj"}
      BY <1>1, <1>9 DEF MSBuildProject
    <2>2. MSBuildProject(entry) = Empty \/ (\E path : MSBuildProject(entry) = Failure(path))
              \/ MSBuildProject(entry) = [WithOutputs(project, outputs) EXCEPT !.issues = issues, !.needs = needs]
      BY DEF MSBuildProject
    <2>3. project.type = type /\ project.root = Parent(entry) /\ project.manifest = entry
          /\ project = Project(type, Parent(entry), entry)
      BY <1>6
    <2> HIDE DEF project, outputs, issues, needs
    <2>4. p = project
      BY <1>1, <1>9, <2>2 DEF WithOutputs, Empty
    <2>5. Last(entry) \notin FixedNames
      BY <1>5, <2>1, DiscoveryAssumption
    <2>6. Last(entry) \notin {".git", "package.json", "Package.swift", "project.pbxproj"}
          /\ Last(entry) \notin ToSet(PythonMarkers) /\ Last(entry) \notin EcosystemManifests
      BY <2>5 DEF FixedNames
    <2> QED
      BY <2>3, <2>4, <2>6 DEF Identified
  <1>10. CASE c = PythonProject(entry)
    <2> DEFINE name == PythonFound(entry)[1]
               project == Project("python", entry, Child(entry, name))
               outputs == PythonArtifacts(project)
    <2>1. PythonProject(entry) # Empty
      BY <1>1, <1>10
    <2>2. name \in ToSet(PythonMarkers)
      BY <2>1, FirstMarker DEF PythonProject, PythonCanDetect
    <2>3. \E R, N, I :
              \/ PythonProject(entry) = [Empty EXCEPT !.projects = {project}, !.issues = {entry}]
              \/ PythonProject(entry) = [WithOutputs(project, outputs) EXCEPT !.resources = R, !.needs = N, !.issues = I]
      BY <2>1 DEF PythonProject
    <2> HIDE DEF name
    <2>4. project.type = "python" /\ project.root = entry /\ project.manifest = Child(entry, name)
          /\ project = Project("python", entry, Child(entry, name))
      BY <1>6
    <2>5. Last(project.manifest) = name /\ Parent(project.manifest) = entry
      BY <2>4, ManifestIn
    <2> HIDE DEF project, outputs
    <2>6. p = project
      BY <1>10, <2>3 DEF WithOutputs, Empty
    <2>7. p = Project(p.type, p.root, p.manifest)
      BY <2>4, <2>6
    <2>8. p.type = "python" /\ p.root = Parent(p.manifest) /\ Last(p.manifest) \in markers
      BY <2>2, <2>4, <2>5, <2>6 DEF markers
    <2>9. /\ Last(p.manifest) \notin {".git", "package.json", "project.pbxproj", "Package.swift"}
          /\ Last(p.manifest) \notin EcosystemManifests
      BY <1>3, <1>4, <2>8
    <2> QED
      BY <2>7, <2>8, <2>9 DEF Identified, markers
  <1>11. CASE c = EcosystemProject(entry)
    <2> DEFINE project == Project(EcosystemType(entry), Parent(entry), entry)
               outputs == EcosystemBuildArtifact(project)
    <2>1. EcosystemProject(entry) = Empty \/ (\E file : EcosystemProject(entry) = Failure(file))
              \/ (EcosystemProject(entry) = WithOutputs(project, outputs) /\ Last(entry) \in EcosystemManifests)
      BY DEF EcosystemProject
    <2>2. project.type = EcosystemType(entry) /\ project.root = Parent(entry) /\ project.manifest = entry
          /\ project = Project(EcosystemType(entry), Parent(entry), entry)
      BY <1>6
    <2> HIDE DEF project, outputs
    <2>3. p = project /\ Last(entry) \in EcosystemManifests
      BY <1>1, <1>2, <1>11, <2>1
    <2> QED
      BY <1>3, <1>4, <2>2, <2>3 DEF Identified, markers
  <1>12. CASE c = XcodeProject(entry)
    <2> DEFINE manifest == Child(entry, "project.pbxproj")
               project == Project("xcode", Parent(entry), manifest)
    <2>1. XcodeProject(entry) = Empty \/ (\E file : XcodeProject(entry) = Failure(file))
              \/ XcodeProject(entry) = WithOutputs(project, Pods(project))
      BY DEF XcodeProject
    <2>2. project.type = "xcode" /\ project.root = Parent(entry) /\ project.manifest = manifest
          /\ project = Project("xcode", Parent(entry), manifest)
      BY <1>6
    <2>3. Last(manifest) = "project.pbxproj" /\ Parent(manifest) = entry
      BY ManifestIn
    <2> HIDE DEF project, manifest
    <2>4. p = project
      BY <1>1, <1>2, <1>12, <2>1
    <2> QED
      BY <1>3, <1>4, <2>2, <2>3, <2>4 DEF Identified, markers
  <1>13. CASE c = XcodeWorkspace(entry)
    BY <1>1, <1>13 DEF XcodeWorkspace, Empty
  <1>14. CASE c = SwiftPMProject(entry)
    <2> DEFINE project == Project("swiftpm", Parent(entry), entry)
               outputs == LockedOutput(project, ".build", "build-output", "Package.resolved")
    <2>1. SwiftPMProject(entry) = Empty \/ (SwiftPMProject(entry) = WithOutputs(project, outputs) /\ Last(entry) = "Package.swift")
      BY DEF SwiftPMProject
    <2>2. project.type = "swiftpm" /\ project.root = Parent(entry) /\ project.manifest = entry
          /\ project = Project("swiftpm", Parent(entry), entry)
      BY <1>6
    <2> HIDE DEF project, outputs
    <2>3. p = project /\ Last(entry) = "Package.swift"
      BY <1>1, <1>2, <1>14, <2>1
    <2> QED
      BY <1>3, <1>4, <2>2, <2>3 DEF Identified, markers
  <1> QED
    BY <1>7, <1>8, <1>9, <1>10, <1>11, <1>12, <1>13, <1>14 DEF Detected

------------------------------------------------------------------------------
(* Versions.                                                                 *)

\* A version is a sequence of numbers.
Versions == Seq(Nat)

\* What a version has at place i: more than nothing where it has a number.
Part(version, i) == IF i \in DOMAIN version THEN version[i] + 1 ELSE 0

\* i is the first place where a and b differ, and a has the more there.
Exceeds(a, b, i) == i \in DOMAIN a /\ Part(a, i) > Part(b, i) /\ \A j \in 1 .. i - 1 : Part(a, j) = Part(b, j)

\* Newer is: ahead at the first place where they differ.
LEMMA NewerParts ==
    ASSUME NEW a, NEW b
    PROVE  Newer(a, b) <=> \E i : Exceeds(a, b, i)
  BY DEF Newer, Exceeds, Part

\* The parts of a version are numbers, above zero exactly where it has one.
LEMMA PartsOf ==
    ASSUME NEW a \in Versions
    PROVE  /\ Len(a) \in Nat /\ DOMAIN a = 1 .. Len(a)
           /\ \A i : Part(a, i) \in Nat /\ (i \in DOMAIN a <=> Part(a, i) > 0)
           /\ \A i \in DOMAIN a : Part(a, i) = a[i] + 1 /\ a[i] \in Nat
  BY DEF Part, Versions

\* No version is newer than itself.
LEMMA NewerIsStrict ==
    ASSUME NEW a \in Versions
    PROVE  ~Newer(a, a)
  <1>1. \A i : ~Exceeds(a, a, i)
    BY PartsOf DEF Exceeds
  <1> QED
    BY <1>1, NewerParts

\* What is newer than a newer version is newer.
LEMMA NewerIsTransitive ==
    ASSUME NEW a \in Versions, NEW b \in Versions, NEW c \in Versions, Newer(a, b), Newer(b, c)
    PROVE  Newer(a, c)
  <1>1. PICK i : Exceeds(a, b, i)
    BY NewerParts
  <1>2. PICK j : Exceeds(b, c, j)
    BY NewerParts
  <1>3. i \in Nat \ {0} /\ j \in Nat \ {0}
    BY <1>1, <1>2, PartsOf DEF Exceeds
  <1>4. \A k : Part(a, k) \in Nat /\ Part(b, k) \in Nat /\ Part(c, k) \in Nat
    BY PartsOf
  <1>5. CASE i <= j
    <2>1. Part(a, i) > Part(c, i)
      <3>1. Part(b, i) >= Part(c, i)
        <4>1. i = j \/ i \in 1 .. j - 1
          BY <1>3, <1>5
        <4> QED
          BY <1>2, <1>4, <4>1 DEF Exceeds
      <3> QED
        BY <1>1, <1>4, <3>1 DEF Exceeds
    <2>2. \A k \in 1 .. i - 1 : Part(a, k) = Part(c, k)
      <3>1. \A k \in 1 .. i - 1 : k \in 1 .. j - 1
        BY <1>3, <1>5
      <3> QED
        BY <1>1, <1>2, <3>1 DEF Exceeds
    <2>3. Exceeds(a, c, i)
      BY <1>1, <2>1, <2>2 DEF Exceeds
    <2> QED
      BY <2>3, NewerParts
  <1>6. CASE j < i
    <2>1. Part(a, j) > Part(c, j)
      <3>1. j \in 1 .. i - 1
        BY <1>3, <1>6
      <3>2. Part(a, j) = Part(b, j)
        BY <1>1, <3>1 DEF Exceeds
      <3> QED
        BY <1>2, <1>4, <3>2 DEF Exceeds
    <2>2. \A k \in 1 .. j - 1 : Part(a, k) = Part(c, k)
      <3>1. \A k \in 1 .. j - 1 : k \in 1 .. i - 1
        BY <1>3, <1>6
      <3> QED
        BY <1>1, <1>2, <3>1 DEF Exceeds
    <2>3. j \in DOMAIN a
      BY <1>4, <2>1, PartsOf
    <2>4. Exceeds(a, c, j)
      BY <2>1, <2>2, <2>3 DEF Exceeds
    <2> QED
      BY <2>4, NewerParts
  <1> QED
    BY <1>3, <1>5, <1>6

\* compareVersions finds the version that is newer.
LEMMA LaterIsNewer ==
    ASSUME NEW a \in Versions, NEW b \in Versions
    PROVE  Later(a, b) <=> Newer(a, b)
  <1>1. /\ Len(a) \in Nat /\ DOMAIN a = 1 .. Len(a) /\ a = SubSeq(a, 1, Len(a))
        /\ Len(b) \in Nat /\ DOMAIN b = 1 .. Len(b) /\ b = SubSeq(b, 1, Len(b))
    BY DEF Versions
  <1>2. ASSUME IsStrictPrefix(b, a)
        PROVE  Newer(a, b)
    <2>1. Len(b) <= Len(a) /\ b = SubSeq(a, 1, Len(b)) /\ a # b
      BY <1>1, <1>2 DEF IsStrictPrefix, IsPrefix
    <2>2. Len(b) < Len(a)
      BY <1>1, <2>1
    <2>3. PICK i \in 1 .. Len(a) : i = Len(b) + 1
      BY <1>1, <2>2
    <2>4. \A j \in 1 .. i - 1 : j \in DOMAIN a /\ j \in DOMAIN b /\ a[j] = b[j]
      <3> SUFFICES ASSUME NEW j \in 1 .. Len(b)
                   PROVE  j \in 1 .. Len(a) /\ a[j] = b[j]
        BY <1>1, <2>3
      <3>1. SubSeq(a, 1, Len(b))[j] = a[j]
        BY <1>1, <2>2 DEF Versions
      <3> QED
        BY <1>1, <2>1, <2>2, <3>1
    <2>5. Part(a, i) > 0 /\ Part(b, i) = 0
      BY <1>1, <2>3, PartsOf DEF Part
    <2>6. \A j \in 1 .. i - 1 : Part(a, j) = Part(b, j)
      BY <2>4 DEF Part
    <2>7. Exceeds(a, b, i)
      BY <1>1, <2>3, <2>5, <2>6 DEF Exceeds
    <2> QED
      BY <2>7, NewerParts
  <1>3. ASSUME NEW i \in DOMAIN a \intersect DOMAIN b, a[i] > b[i], \A j \in 1 .. i - 1 : a[j] = b[j]
        PROVE  Newer(a, b)
    <2>1. Part(a, i) = a[i] + 1 /\ Part(b, i) = b[i] + 1 /\ a[i] \in Nat /\ b[i] \in Nat
      BY PartsOf
    <2>2. \A j \in 1 .. i - 1 : j \in DOMAIN a /\ j \in DOMAIN b
      BY <1>1
    <2>3. \A j \in 1 .. i - 1 : Part(a, j) = Part(b, j)
      BY <1>3, <2>2 DEF Part
    <2>4. Exceeds(a, b, i)
      BY <1>3, <2>1, <2>3 DEF Exceeds
    <2> QED
      BY <2>4, NewerParts
  <1>4. ASSUME Newer(a, b)
        PROVE  Later(a, b)
    <2>1. PICK i : Exceeds(a, b, i)
      BY <1>4, NewerParts
    <2>2. i \in 1 .. Len(a)
      BY <1>1, <2>1 DEF Exceeds
    <2>3. ASSUME NEW j \in 1 .. i - 1
          PROVE  j \in DOMAIN a /\ j \in DOMAIN b /\ a[j] = b[j]
      <3>1. j \in DOMAIN a
        BY <1>1, <2>2
      <3>2. Part(a, j) = Part(b, j) /\ Part(a, j) = a[j] + 1 /\ a[j] \in Nat
        BY <2>1, <3>1, PartsOf DEF Exceeds
      <3>3. j \in DOMAIN b
        <4>1. Part(b, j) > 0
          BY <3>2
        <4> QED
          BY <4>1, PartsOf
      <3>4. Part(b, j) = b[j] + 1 /\ b[j] \in Nat
        BY <3>3, PartsOf
      <3>5. a[j] + 1 = b[j] + 1
        BY <3>2, <3>4
      <3>6. a[j] = b[j]
        BY <3>2, <3>4, <3>5
      <3> QED
        BY <3>1, <3>3, <3>6
    <2>4. CASE i \in DOMAIN b
      <3>1. Part(a, i) = a[i] + 1 /\ Part(b, i) = b[i] + 1 /\ a[i] \in Nat /\ b[i] \in Nat
        BY <1>1, <2>2, <2>4, PartsOf
      <3>2. a[i] > b[i]
        BY <2>1, <3>1 DEF Exceeds
      <3> QED
        BY <1>1, <2>2, <2>3, <2>4, <3>2 DEF Later
    <2>5. CASE i \notin DOMAIN b
      <3>1. Len(b) < i
        BY <1>1, <2>2, <2>5
      <3>2. Len(b) <= Len(a) /\ Len(b) # Len(a)
        <4>1. Len(a) \in Nat /\ Len(b) \in Nat /\ i \in Nat /\ i <= Len(a)
          BY <1>1, <2>2
        <4> QED
          BY <3>1, <4>1
      <3>3. \A j \in 1 .. Len(b) : a[j] = b[j]
        <4>1. \A j \in 1 .. Len(b) : j \in 1 .. i - 1
          BY <1>1, <2>2, <3>1
        <4> QED
          BY <2>3, <4>1
      <3>4. SubSeq(a, 1, Len(b)) = b
        <4> DEFINE top == SubSeq(a, 1, Len(b))
        <4>1. top \in Seq(Nat) /\ Len(top) = Len(b) /\ \A j \in 1 .. Len(b) : top[j] = a[j]
          BY <3>2, Tops DEF Versions, Top
        <4> HIDE DEF top
        <4>2. \A j \in 1 .. Len(b) : top[j] = b[j]
          BY <3>3, <4>1
        <4>3. b \in Seq(Nat)
          BY DEF Versions
        <4>4. top = b
          <5>1. Len(top) = Len(b) /\ \A j \in 1 .. Len(top) : top[j] = b[j]
            BY <4>1, <4>2
          <5> QED
            BY <4>1, <4>3, <5>1, SeqEqual
        <4> QED
          BY <4>4 DEF top
      <3>5. IsStrictPrefix(b, a)
        BY <1>1, <3>2, <3>4 DEF IsStrictPrefix, IsPrefix
      <3> QED
        BY <3>5 DEF Later
    <2> QED
      BY <2>4, <2>5
  <1> QED
    BY <1>2, <1>3, <1>4 DEF Later

\* Of the versions at some places of a sequence one is not older than another.
LEMMA NewestExists ==
    ASSUME NEW n \in Nat, NEW version, NEW K \in SUBSET (1 .. n), \A i \in K : version[i] \in Versions, K # {}
    PROVE  \E i \in K : \A other \in K : ~Newer(version[other], version[i])
  <1> DEFINE newest(i, k) == \A other \in K \intersect 1 .. k : ~Newer(version[other], version[i])
             T == {k \in Nat : (\E i \in K : i <= k) => \E i \in K : i <= k /\ newest(i, k)}
  <1>1. 0 \in T
    BY DEF T
  <1>2. ASSUME NEW k \in Nat, k \in T
        PROVE  k + 1 \in T
    <2> SUFFICES ASSUME NEW first \in K, first <= k + 1
                 PROVE  \E i \in K : i <= k + 1 /\ newest(i, k + 1)
      OBVIOUS
    <2>1. \A i \in K : i \in Nat \ {0}
      OBVIOUS
    <2>2. \A i \in K : i <= k + 1 <=> i <= k \/ i = k + 1
      BY <2>1
    <2>3. \A i \in K : i \in 1 .. k + 1 <=> i \in 1 .. k \/ i = k + 1
      BY <2>1
    <2>4. CASE k + 1 \notin K
      <3>1. first <= k
        BY <2>2, <2>4
      <3>2. PICK i \in K : i <= k /\ newest(i, k)
        BY <1>2, <3>1
      <3> QED
        BY <2>2, <2>3, <2>4, <3>2
    <2>5. CASE k + 1 \in K /\ ~\E i \in K : i <= k
      <3>1. \A i \in K \intersect 1 .. k + 1 : i = k + 1
        BY <2>1, <2>3, <2>5
      <3>2. newest(k + 1, k + 1)
        BY <2>5, <3>1, NewerIsStrict
      <3> QED
        BY <2>5, <3>2
    <2>6. CASE k + 1 \in K /\ \E i \in K : i <= k
      <3>1. PICK i \in K : i <= k /\ newest(i, k)
        BY <1>2, <2>6
      <3>2. CASE ~Newer(version[k + 1], version[i])
        BY <2>2, <2>3, <3>1, <3>2
      <3>3. CASE Newer(version[k + 1], version[i])
        <4>1. \A other \in K \intersect 1 .. k : ~Newer(version[other], version[k + 1])
          BY <2>6, <3>1, <3>3, NewerIsTransitive
        <4>2. newest(k + 1, k + 1)
          BY <2>3, <2>6, <4>1, NewerIsStrict
        <4> QED
          BY <2>6, <4>2
      <3> QED
        BY <3>2, <3>3
    <2> QED
      BY <2>4, <2>5, <2>6
  <1> HIDE DEF T
  <1>3. Nat \subseteq T
    BY <1>1, <1>2, Induction
  <1>4. n \in T
    BY <1>3
  <1>5. PICK i \in K : newest(i, n)
    <2>1. \E i \in K : i <= n
      <3>1. PICK i \in K : i \in 1 .. n
        OBVIOUS
      <3> QED
        BY <3>1
    <2>2. (\E i \in K : i <= n) => \E i \in K : i <= n /\ newest(i, n)
      BY <1>4 DEF T
    <2> HIDE DEF newest
    <2> QED
      BY <2>1, <2>2
  <1>6. K \intersect 1 .. n = K
    OBVIOUS
  <1> QED
    BY <1>5, <1>6

------------------------------------------------------------------------------
(* What stands behind a safe row.                                            *)

\* Every candidate is what a detector reports of an entry.
LEMMA CandidateSource ==
    ASSUME Tree, Known, Ordered, NEW c \in ToSet(found)
    PROVE  \E entry \in Paths : entry # <<>> /\ c \in Detected(entry)
  <1>1. PICK j \in 1 .. Len(found) : c = found[j]
    BY Elements DEF Known
  <1>2. PICK root \in options.roots, entry \in Paths : Came(root, entry, j)
    BY DEF Ordered
  <1>3. c \in Detected(entry)
    BY <1>1, <1>2, ObserveElements DEF Came
  <1>4. entry # <<>>
    <2>1. Len(root) <= Len(entry) /\ root # entry /\ SubSeq(root, 1, Len(root)) = SubSeq(entry, 1, Len(root))
      BY <1>2 DEF Came, IsStrictPrefix, IsPrefix
    <2>2. root \in Seq(ToSet(Names))
      BY DEF Tree, Paths
    <2>3. entry = <<>> => root = <<>>
      <3> SUFFICES ASSUME Len(entry) = 0
                   PROVE  root = <<>>
        OBVIOUS
      <3>1. Len(root) = 0
        BY <2>1, <2>2
      <3> QED
        BY <2>2, <3>1
    <2> QED
      BY <2>1, <2>3
  <1> QED
    BY <1>3, <1>4

\* A report of an output is what its owner, which is kept, was found to have.
LEMMA OutputSource ==
    ASSUME NEW r \in OutputReports(found)
    PROVE  /\ \E j \in DOMAIN found : \E x \in found[j].resources :
                  r = Report(Len(disk.installed) + j, TRUE, x, x.owner, x.evidence)
           /\ \E p \in Projects(found) : p.manifest = r.owner
  BY DEF OutputReports, Dedupe, FilterByOwner, Reports

\* A tool is reported without evidence.
LEMMA ToolSource ==
    ASSUME NEW r \in ToolReports
    PROVE  \E i \in DOMAIN disk.installed : r = Report(i, FALSE, disk.installed[i], <<>>, {})
  BY DEF ToolReports

\* The places of the reports.
LEMMA FoundRanks ==
    ASSUME Known, disk.installed \in Seq(Tools)
    PROVE  \E n \in Nat : \A r \in FoundReports : r.rank \in Nat /\ r.rank <= n
  <1> DEFINE k == Len(disk.installed)
             l == Len(found)
  <1>1. k \in Nat /\ l \in Nat /\ DOMAIN disk.installed = 1 .. k /\ DOMAIN found = 1 .. l
    BY DEF Known
  <1> HIDE DEF k, l
  <1>2. ASSUME NEW r \in FoundReports
        PROVE  r.rank \in Nat /\ r.rank <= k + l
    <2>1. CASE r \in ToolReports
      <3>1. PICK i \in DOMAIN disk.installed : r = Report(i, FALSE, disk.installed[i], <<>>, {})
        BY <2>1, ToolSource
      <3>2. r.rank = i
        BY <3>1 DEF Report
      <3>3. i \in 1 .. k
        BY <1>1, <3>1
      <3> QED
        BY <1>1, <3>2, <3>3
    <2>2. CASE r \in OutputReports(found)
      <3>1. PICK j \in DOMAIN found : \E x \in found[j].resources : r = Report(k + j, TRUE, x, x.owner, x.evidence)
        BY <2>2, OutputSource DEF k
      <3>2. r.rank = k + j
        BY <3>1 DEF Report
      <3>3. j \in 1 .. l
        BY <1>1, <3>1
      <3> QED
        BY <1>1, <3>2, <3>3
    <2> QED
      BY <2>1, <2>2 DEF FoundReports
  <1>3. k + l \in Nat
    BY <1>1
  <1> QED
    BY <1>2, <1>3

\* A resource that is reported is reported last once.
LEMMA LastExists ==
    ASSUME NEW reports, NEW n \in Nat, \A r \in reports : r.rank \in Nat /\ r.rank <= n, NEW r \in reports
    PROVE  \E last \in LastReports(reports) : Id(last) = Id(r)
  <1> DEFINE alike == {o \in reports : Id(o) = Id(r)}
             rests == {n - o.rank : o \in alike}
  <1>1. rests \in SUBSET Nat /\ rests # {}
    OBVIOUS
  <1>2. PICK rest \in rests : \A other \in rests : rest <= other
    BY <1>1, LeastNatural
  <1>3. PICK last \in alike : rest = n - last.rank
    OBVIOUS
  <1>4. \A o \in alike : o.rank <= last.rank
    <2> SUFFICES ASSUME NEW o \in alike
                 PROVE  o.rank <= last.rank
      OBVIOUS
    <2>1. n - last.rank <= n - o.rank
      BY <1>2, <1>3
    <2>2. o.rank \in Nat /\ last.rank \in Nat
      OBVIOUS
    <2> QED
      BY <2>1, <2>2
  <1>5. last \in LastReports(reports)
    BY <1>3, <1>4 DEF LastReports
  <1> QED
    BY <1>3, <1>5

\* Each resource that is reported has a row.
LEMMA RowExists ==
    ASSUME Known, disk.installed \in Seq(Tools), NEW r \in FoundReports, NEW edges
    PROVE  \E row \in Rows(FoundReports, edges) : Id(row) = Id(r)
  <1>1. PICK n \in Nat : \A o \in FoundReports : o.rank \in Nat /\ o.rank <= n
    BY FoundRanks
  <1>2. PICK last \in LastReports(FoundReports) : Id(last) = Id(r)
    BY <1>1, LastExists
  <1> DEFINE required == {Id(edge) : edge \in {e \in edges : e.relation = "REQUIRES"}}
             needed == Id(last) \in required
  <1>3. Row(last, needed) \in Rows(FoundReports, edges)
    BY DEF Rows
  <1> HIDE DEF needed
  <1>4. Id(Row(last, needed)) = Id(last)
    BY DEF Row, Id
  <1> QED
    BY <1>2, <1>3, <1>4

\* Where no repository is the nearest, none is above.
LEMMA NoRepository ==
    ASSUME NEW S, NEW path \in Seq(S), FindRepoRoot(path) = {}, NEW q \in Above(path)
    PROVE  ~Exists(Child(q, ".git"))
  <1> SUFFICES ASSUME Exists(Child(q, ".git"))
               PROVE  FALSE
    OBVIOUS
  <1> DEFINE all == {a \in Above(path) : Exists(Child(a, ".git"))}
             k == Len(path)
             rests == {k - Len(a) : a \in all}
  <1>1. \A a \in all : Len(a) \in Nat /\ Len(a) <= k
    <2> SUFFICES ASSUME NEW a \in all
                 PROVE  Len(a) \in Nat /\ Len(a) <= k
      OBVIOUS
    <2>1. PICK n \in 0 .. k : a = Top(path, n)
      BY DEF Above, Top
    <2>2. Len(a) = n /\ k \in Nat
      BY <2>1, Tops
    <2> QED
      BY <2>2
  <1>2. k \in Nat /\ q \in all
    OBVIOUS
  <1> HIDE DEF all, k
  <1>3. rests \in SUBSET Nat /\ rests # {}
    BY <1>1, <1>2
  <1>4. PICK rest \in rests : \A other \in rests : rest <= other
    BY <1>3, LeastNatural
  <1>5. PICK a \in all : rest = k - Len(a)
    OBVIOUS
  <1>6. \A other \in all : Len(other) <= Len(a)
    <2> SUFFICES ASSUME NEW other \in all
                 PROVE  Len(other) <= Len(a)
      OBVIOUS
    <2>1. k - Len(a) <= k - Len(other)
      BY <1>4, <1>5
    <2>2. Len(a) \in Nat /\ Len(other) \in Nat /\ k \in Nat
      BY <1>1, <1>2
    <2> QED
      BY <2>1, <2>2
  <1>7. a \in FindRepoRoot(path)
    BY <1>5, <1>6 DEF FindRepoRoot, Nearest, all
  <1> QED
    BY <1>7

\* A repository above the root of a project is above what is inside it.
LEMMA RepositoryInside ==
    ASSUME NEW path, NEW root, Inside(path, root), FindRepoRoot(path) = {}
    PROVE  FindRepoRoot(root) = {}
  <1>1. PICK S : path \in Seq(S)
    BY DEF Inside
  <1>2. \A q \in Above(root) : ~Exists(Child(q, ".git"))
    BY <1>1, NoRepository DEF Inside
  <1> QED
    BY <1>2 DEF FindRepoRoot, Nearest

\* One rule of the policy says SAFE, and it asks whether the output can be made again.
LEMMA SafeIsRegenerable ==
    ASSUME NEW r, ObservedRisk(r) = "SAFE"
    PROVE  r.regenerable
  <1> DEFINE guarded == \E dir \in SystemManaged : Within(r.path, dir)
             c == [type |-> r.type, regenerable |-> r.regenerable, required |-> FALSE,
                   protected |-> guarded, evidence |-> EnrichCleanupEvidence(r)]
  <1>1. Classify(c) = "SAFE" /\ c.protected \in BOOLEAN /\ c.regenerable = r.regenerable
    BY DEF ObservedRisk
  <1> HIDE DEF c
  <1>2. c.type \notin ManagedTypes
    BY <1>1 DEF Classify, ManagedTypes
  <1>3. ~c.protected
    BY <1>1, <1>2 DEF Classify, ManagedTypes
  <1>4. c.regenerable
    BY <1>1, <1>2, <1>3 DEF Classify, ManagedTypes
  <1> QED
    BY <1>1, <1>4

\* What the evidence of the first pass says of a report that is SAFE.
LEMMA SafeReport ==
    ASSUME NEW r, ObservedRisk(r) = "SAFE"
    PROVE  /\ "ProjectOwned" \in r.evidence /\ "KnownOutputPath" \in r.evidence
           /\ disk.git \/ FindRepoRoot(r.path) = {} \/ "GitTrackedOriginalsAbsent" \in r.evidence
  <1>1. CleanupFacts \subseteq EnrichCleanupEvidence(r)
    BY SafeIsEnriched
  <1>2. {"ProjectOwned", "KnownOutputPath"} \subseteq r.evidence
    BY <1>1 DEF EnrichCleanupEvidence, CleanupFacts
  <1> DEFINE holds(fact) ==
        \/ fact \in {"ProjectOwned", "KnownOutputPath"}
        \/ fact = "ReparsePointFree" /\ ~IsLink(r.path)
        \/ /\ fact = "GitTrackedOriginalsAbsent"
           /\ \/ TrackedAbsent(FindRepoRoot(r.path), r.path)
              \/ ~disk.git /\ fact \in r.evidence
  <1>3. \A fact \in CleanupFacts : holds(fact)
    BY <1>1, <1>2 DEF EnrichCleanupEvidence
  <1>4. holds("GitTrackedOriginalsAbsent")
    BY <1>3 DEF CleanupFacts
  <1>5. TrackedAbsent(FindRepoRoot(r.path), r.path) \/ "GitTrackedOriginalsAbsent" \in r.evidence
    BY <1>4
  <1> QED
    BY <1>2, <1>5 DEF TrackedAbsent

\* The project that a safe report belongs to.
LEMMA SafeHasProject ==
    ASSUME Tree, Known, Ordered, NEW r \in OutputReports(found), ObservedRisk(r) = "SAFE"
    PROVE  \E p \in Projects(found) :
                /\ p.manifest = r.owner /\ Within(r.path, p.root)
                /\ disk.git \/ FindRepoRoot(p.root) = {}
                /\ CanBeMadeAgain(r, p, NodeWorkspaces)
  <1>1. PICK p \in Projects(found) : p.manifest = r.owner
    BY OutputSource
  <1>2. PICK j \in DOMAIN found : \E x \in found[j].resources :
                  r = Report(Len(disk.installed) + j, TRUE, x, x.owner, x.evidence)
    BY OutputSource
  <1>3. PICK x \in found[j].resources : r = Report(Len(disk.installed) + j, TRUE, x, x.owner, x.evidence)
    BY <1>2
  <1>4. /\ r.owner = x.owner /\ r.evidence = x.evidence /\ r.type = x.type /\ r.path = x.path
        /\ r.regenerable = x.regenerable
    BY <1>3 DEF Report
  <1>5. found[j] \in ToSet(found)
    BY DEF ToSet
  <1>6. PICK entry \in Paths : entry # <<>> /\ found[j] \in Detected(entry)
    BY <1>5, CandidateSource
  <1>7. AllVouched(found[j])
    BY <1>6, DetectedIsVouched DEF Tree
  <1>8. "ProjectOwned" \in x.evidence /\ "KnownOutputPath" \in x.evidence
        /\ (disk.git \/ FindRepoRoot(x.path) = {} \/ "GitTrackedOriginalsAbsent" \in x.evidence)
    BY <1>4, SafeReport
  <1>9. PICK q \in found[j].projects : Vouched(x, q, found[j].workspaces)
    BY <1>7, <1>8 DEF AllVouched
  <1>10. Identified(q)
    BY <1>6, DetectedIsIdentified DEF Tree
  <1>11. Identified(p)
    <2>1. p \in All(LAMBDA c : c.projects, found)
      BY DEF Projects, FilterNodeProjects, FilterFallbackGit
    <2>2. PICK c \in ToSet(found) : p \in c.projects
      BY <2>1, Gathered
    <2>3. PICK e \in Paths : e # <<>> /\ c \in Detected(e)
      BY CandidateSource
    <2> QED
      BY <2>2, <2>3, DetectedIsIdentified DEF Tree
  <1>12. p = q
    BY <1>1, <1>4, <1>9, <1>10, <1>11, OneProject DEF Vouched
  <1>13. Inside(x.path, p.root)
    BY <1>9, <1>12 DEF Vouched
  <1>14. disk.git \/ FindRepoRoot(p.root) = {}
    <2>1. FindRepoRoot(x.path) = {} => FindRepoRoot(p.root) = {}
      BY <1>13, RepositoryInside
    <2>2. "GitTrackedOriginalsAbsent" \in x.evidence => TrackedAbsent(FindRepoRoot(p.root), x.path)
      BY <1>9, <1>12 DEF Vouched
    <2> QED
      BY <1>8, <2>1, <2>2 DEF TrackedAbsent
  <1>15. CanBeMadeAgain(x, p, found[j].workspaces)
    BY <1>4, <1>8, <1>9, <1>12, SafeIsRegenerable DEF Vouched
  <1>16. CanBeMadeAgain(r, p, NodeWorkspaces)
    <2>1. x.type = "node-modules" => \A w \in found[j].workspaces : p.manifest \in w.members => w \in NodeWorkspaces
      <3> SUFFICES ASSUME NEW w \in found[j].workspaces, p.manifest \in w.members, x.type = "node-modules"
                   PROVE  w.type = "node"
        BY <1>5, Gathered DEF NodeWorkspaces
      <3>1. found[j] = NodeProject(entry)
        <4>1. found[j] = NodeProject(entry) \/ Quiet(found[j])
          BY <1>6, OthersAreQuiet
        <4> QED
          BY <4>1 DEF Quiet
      <3>2. found[j] # Empty
        BY DEF Empty
      <3>3. Reads(Manifest(entry)) /\ found[j].workspaces = DetectNodeWorkspace(entry)
        BY <3>1, <3>2, NodeInstalls DEF Tree
      <3> QED
        BY <3>3, WorkspaceShape DEF Tree, NodeWorkspace
    <2> QED
      BY <1>4, <1>15, <2>1 DEF CanBeMadeAgain
  <1> QED
    BY <1>1, <1>4, <1>13, <1>14, <1>16 DEF Inside

\* The first report of a path.
LEMMA FirstExists ==
    ASSUME NEW reports, \A r \in reports : r.rank \in Nat, NEW r \in reports
    PROVE  \E at \in reports : at.path = r.path /\ \A y \in reports : y.path = r.path => at.rank <= y.rank
  <1> DEFINE alike == {o \in reports : o.path = r.path}
             ranks == {o.rank : o \in alike}
  <1>1. ranks \in SUBSET Nat /\ ranks # {}
    OBVIOUS
  <1>2. PICK n \in ranks : \A k \in ranks : n <= k
    BY <1>1, LeastNatural
  <1>3. PICK at \in alike : at.rank = n
    OBVIOUS
  <1> QED
    BY <1>2, <1>3

\* What is safe is an output, belongs to a project that is kept and can be made again
\* from what that project declares, for every disk that is a tree, every order of
\* visits and whichever of several owners reported last.
THEOREM SafeHasAnOwner == Spec => []SafeIsVouchedFor
  <1>1. WalkInv /\ OrderInv /\ Concluded => SafeIsVouchedFor
    <2> SUFFICES ASSUME WalkInv, OrderInv, Concluded, Ended, NEW row \in result.rows, row.risk = "SAFE"
                 PROVE  \E p \in result.projects :
                            /\ Within(row.path, p.root)
                            /\ Owns(p, row)
                            /\ disk.git \/ FindRepoRoot(p.root) = {}
                            /\ CanBeMadeAgain(row, p, NodeWorkspaces)
      BY DEF SafeIsVouchedFor
    <2>1. Tree /\ Known /\ Ordered /\ disk.installed \in Seq(Tools)
      BY DEF WalkInv, OrderInv
    <2>2. /\ result.rows = Rows(FoundReports, FoundEdges) /\ result.edges = FoundEdges
          /\ result.projects = Projects(found)
      BY AnalysisIsJoined DEF Concluded, Joined, FoundEdges
    <2> DEFINE required == {Id(edge) : edge \in {e \in FoundEdges : e.relation = "REQUIRES"}}
    <2>3. PICK r \in LastReports(FoundReports) : row = Row(r, Id(r) \in required)
      BY <2>2 DEF Rows
    <2> HIDE DEF required
    <2>4. /\ row.path = r.path /\ row.type = r.type
          /\ row.risk = IF Id(r) \in required THEN RequiredRisk(r) ELSE ObservedRisk(r)
      BY <2>3 DEF Row
    <2>5. ObservedRisk(r) = "SAFE"
      BY <2>4, RequiredIsNeverSafe
    <2>6. r \in FoundReports
      BY DEF LastReports
    <2>7. r \in OutputReports(found)
      <3>1. r \notin ToolReports
        BY <2>5, SafeReport, ToolSource DEF Report
      <3> QED
        BY <2>6, <3>1 DEF FoundReports
    <2>8. PICK p \in Projects(found) :
                /\ p.manifest = r.owner /\ Within(r.path, p.root)
                /\ disk.git \/ FindRepoRoot(p.root) = {}
                /\ CanBeMadeAgain(r, p, NodeWorkspaces)
      BY <2>1, <2>5, <2>7, SafeHasProject
    <2>9. PICK at \in FoundReports : at.path = r.path /\ \A y \in FoundReports : y.path = r.path => at.rank <= y.rank
      <3>1. \A o \in FoundReports : o.rank \in Nat
        BY <2>1, FoundRanks
      <3> QED
        BY <2>6, <3>1, FirstExists
    <2> DEFINE edge == [project |-> r.owner, relation |-> "OWNS", type |-> at.type, version |-> at.version,
                        path |-> at.path, kind |-> "OBSERVED"]
    <2>10. edge \in FoundEdges
      <3>1. edge \in OwnsEdges(OutputReports(found), FoundReports)
        BY <2>7, <2>9 DEF OwnsEdges
      <3> QED
        BY <3>1 DEF FoundEdges, JoinedEdges
    <2>11. PICK other \in result.rows : Id(other) = Id(at)
      BY <2>1, <2>2, RowExists
    <2>12. other.type = at.type /\ other.version = at.version /\ other.path = at.path
      BY <2>11 DEF Id
    <2>13. Owns(p, row)
      BY <2>2, <2>4, <2>8, <2>9, <2>10, <2>12 DEF Owns
    <2>14. CanBeMadeAgain(row, p, NodeWorkspaces)
      BY <2>4, <2>8 DEF CanBeMadeAgain
    <2> QED
      BY <2>2, <2>4, <2>8, <2>13, <2>14
  <1> QED
    BY <1>1, WalkInitially, WalkStep, OrderInitially, OrderStep, ConcludedInitially, ConcludedStep, PTL DEF Spec

------------------------------------------------------------------------------
(* What stands for the tools that projects need.                             *)

\* The types of tool that build files name.
NeedTypes == {"windows-sdk", "dotnet-sdk", "conda-env"}

\* Needs are of three types.
LEMMA DetectedNeeds ==
    ASSUME IsTree(disk), NEW entry \in Paths, NEW c \in Detected(entry), NEW need \in c.needs
    PROVE  need.type \in NeedTypes
  <1>1. \A file : Empty.needs = {} /\ Failure(file).needs = {}
    BY DEF Empty, Failure
  <1>2. \A project, outputs : WithOutputs(project, outputs).needs = {}
    BY DEF WithOutputs, Empty
  <1>3. CASE c = MSBuildProject(entry)
    <2> DEFINE project == Project(IF Extension[Last(entry)] = ".csproj" THEN "dotnet" ELSE "cpp", Parent(entry), entry)
               outputs == MSBuildArtifacts(project, Declared(entry).outputs)
               needs == {[owner |-> entry, type |-> n.type, version |-> n.version, name |-> n.name,
                          conditional |-> n.conditional] : n \in Declared(entry).needs}
               stopped == LeadsThroughFile(project.root, Declared(entry).outputs)
               issues == IF stopped THEN {project.root} ELSE WithOutputs(project, outputs).issues
    <2>1. MSBuildProject(entry) = [WithOutputs(project, outputs) EXCEPT !.issues = issues, !.needs = needs]
          /\ Reads(entry) /\ \A file \in Props(Parent(entry)) : Reads(file)
      BY <1>1, <1>3 DEF MSBuildProject
    <2> HIDE DEF project, outputs, issues
    <2>2. need \in needs
      <3> HIDE DEF needs
      <3> QED
        BY <1>3, <2>1 DEF WithOutputs, Empty
    <2>3. \A file : Reads(file) => Says(file).needs \subseteq Needs
      BY DEF Reads, CanRead, IsFile, Says, IsTree
    <2>4. Declared(entry).needs \subseteq Needs
      <3>1. CASE Props(Parent(entry)) = {}
        BY <2>1, <2>3, <3>1 DEF Declared
      <3>2. CASE Props(Parent(entry)) # {}
        <4> DEFINE file == CHOOSE file \in Props(Parent(entry)) : TRUE
        <4>1. file \in Props(Parent(entry))
          BY <3>2
        <4>2. Declared(entry) = MergeInherited(Says(entry), Says(file))
          BY <3>2 DEF Declared
        <4> HIDE DEF file
        <4> QED
          BY <2>1, <2>3, <4>1, <4>2 DEF MergeInherited
      <3> QED
        BY <3>1, <3>2
    <2>5. PICK n \in Declared(entry).needs : need.type = n.type
      BY <2>2
    <2> QED
      BY <2>4, <2>5 DEF Needs, NeedTypes
  <1>4. CASE c = PythonProject(entry)
    <2> DEFINE project == Project("python", entry, Child(entry, PythonFound(entry)[1]))
               outputs == PythonArtifacts(project)
               needs == {[owner |-> project.manifest, type |-> "conda-env", version |-> <<>>,
                          name |-> name, conditional |-> FALSE] : name \in DeclaredEnvironments(entry)}
    <2>1. \E R, I :
              \/ PythonProject(entry) = Empty
              \/ PythonProject(entry) = [Empty EXCEPT !.projects = {project}, !.issues = {entry}]
              \/ PythonProject(entry) = [WithOutputs(project, outputs) EXCEPT !.resources = R, !.needs = needs, !.issues = I]
      BY DEF PythonProject
    <2>2. \A n \in needs : n.type = "conda-env"
      OBVIOUS
    <2> HIDE DEF project, outputs, needs
    <2>3. need \in needs
      BY <1>1, <1>4, <2>1 DEF WithOutputs, Empty
    <2> QED
      BY <2>2, <2>3 DEF NeedTypes
  <1>5. GitProject(entry).needs = {} /\ NodeProject(entry).needs = {} /\ XcodeWorkspace(entry).needs = {}
    BY <1>1 DEF GitProject, NodeProject, XcodeWorkspace, Empty
  <1>6. EcosystemProject(entry).needs = {} /\ XcodeProject(entry).needs = {} /\ SwiftPMProject(entry).needs = {}
    BY <1>1, <1>2 DEF EcosystemProject, XcodeProject, SwiftPMProject
  <1> QED
    BY <1>3, <1>4, <1>5, <1>6 DEF Detected

\* Projects report no SDK and no Xcode.
LEMMA OutputTypes ==
    ASSUME Tree, Known, Ordered, NEW r \in OutputReports(found)
    PROVE  r.type \in ProjectLocalTypes \union {"conda-env"}
  <1>1. PICK j \in DOMAIN found : \E x \in found[j].resources :
                  r = Report(Len(disk.installed) + j, TRUE, x, x.owner, x.evidence)
    BY OutputSource
  <1>2. PICK x \in found[j].resources : r.type = x.type
    BY <1>1 DEF Report
  <1>3. found[j] \in ToSet(found)
    BY DEF ToSet
  <1>4. PICK entry \in Paths : entry # <<>> /\ found[j] \in Detected(entry)
    BY <1>3, CandidateSource
  <1>5. AllVouched(found[j])
    BY <1>4, DetectedIsVouched DEF Tree
  <1> QED
    BY <1>2, <1>5 DEF AllVouched, Vouched

\* The report of the tool at place i.
ToolReport(i) == Report(i, FALSE, disk.installed[i], <<>>, {})

\* It says what is installed there.
LEMMA ToolReportFields ==
    ASSUME NEW i
    PROVE  /\ ToolReport(i).rank = i /\ ToolReport(i).scoped = FALSE /\ ToolReport(i).type = disk.installed[i].type
           /\ ToolReport(i).version = disk.installed[i].version /\ ToolReport(i).path = disk.installed[i].path
  BY DEF ToolReport, Report

\* The tools that are reported are the installed ones.
LEMMA ToolReportElements ==
    /\ \A r : r \in ToolReports <=> \E i \in DOMAIN disk.installed : r = ToolReport(i)
    /\ \A tool : tool \in ToSet(disk.installed) <=> \E i \in DOMAIN disk.installed : tool = disk.installed[i]
  BY DEF ToolReports, ToolReport, ToSet

\* What a project requires is blocked, whatever was reported of it last.
LEMMA RequiredIsBlocked ==
    ASSUME NEW r, r.type \notin ManagedTypes, r.type \notin ProjectLocalTypes
    PROVE  RequiredRisk(r) = "BLOCKED"
  <1> DEFINE c == [type |-> r.type, regenerable |-> r.regenerable, required |-> TRUE,
                   protected |-> FALSE, evidence |-> {}]
  <1>1. c.type = r.type /\ c.required /\ ~c.protected
    OBVIOUS
  <1>2. RequiredRisk(r) = IF ObservedRisk(r) = "BLOCKED" THEN "BLOCKED" ELSE Classify(c)
    BY DEF RequiredRisk
  <1> HIDE DEF c
  <1>3. Classify(c) = "BLOCKED"
    BY <1>1 DEF Classify, RecoverableLocally, ManagedTypes
  <1> QED
    BY <1>2, <1>3

\* The tool that an edge leads to has a row that is blocked.
LEMMA EdgeBlocks ==
    ASSUME Known, disk.installed \in Seq(Tools), NEW r \in FoundReports, NEW edges,
           r.type \notin ManagedTypes, r.type \notin ProjectLocalTypes,
           NEW edge \in edges, edge.relation = "REQUIRES", Id(edge) = Id(r)
    PROVE  \E row \in Rows(FoundReports, edges) : Id(row) = Id(r) /\ row.risk = "BLOCKED"
  <1> DEFINE required == {Id(e) : e \in {e \in edges : e.relation = "REQUIRES"}}
  <1>1. PICK n \in Nat : \A o \in FoundReports : o.rank \in Nat /\ o.rank <= n
    BY FoundRanks
  <1>2. PICK last \in LastReports(FoundReports) : Id(last) = Id(r)
    BY <1>1, LastExists
  <1>3. Id(last) \in required
    BY <1>2
  <1>4. Row(last, Id(last) \in required) \in Rows(FoundReports, edges)
    BY DEF Rows
  <1> HIDE DEF required
  <1> DEFINE row == [type |-> last.type, version |-> last.version, path |-> last.path,
                     regenerable |-> last.regenerable, risk |-> RequiredRisk(last)]
  <1>5. Row(last, Id(last) \in required) = row
    BY <1>3 DEF Row
  <1>6. Id(row) = Id(last) /\ row.risk = RequiredRisk(last)
    BY DEF Id
  <1>7. last.type = r.type
    BY <1>2 DEF Id
  <1>8. RequiredRisk(last) = "BLOCKED"
    BY <1>7, RequiredIsBlocked
  <1> HIDE DEF row
  <1> QED
    BY <1>2, <1>4, <1>5, <1>6, <1>8

\* The reports of a type that projects do not report are those of installed tools.
LEMMA ReportsOfTools ==
    ASSUME Tree, Known, Ordered, NEW r \in FoundReports, r.type \notin ProjectLocalTypes \union {"conda-env"}
    PROVE  \E i \in DOMAIN disk.installed : r = ToolReport(i)
  BY OutputTypes, ToolReportElements DEF FoundReports

\* Of the installed tools at some places one is not older than another.
LEMMA NewestTool ==
    ASSUME disk.installed \in Seq(Tools), NEW K \in SUBSET DOMAIN disk.installed, K # {}
    PROVE  \E i \in K : \A other \in K : /\ ~Newer(disk.installed[other].version, disk.installed[i].version)
                                         /\ ~Later(disk.installed[other].version, disk.installed[i].version)
  <1> DEFINE version == [i \in DOMAIN disk.installed |-> disk.installed[i].version]
             n == Len(disk.installed)
  <1>1. n \in Nat /\ DOMAIN disk.installed = 1 .. n
    OBVIOUS
  <1>2. \A i \in DOMAIN disk.installed : version[i] = disk.installed[i].version /\ version[i] \in Versions
    <2> SUFFICES ASSUME NEW i \in DOMAIN disk.installed
                 PROVE  disk.installed[i].version \in Seq(Nat)
      BY DEF Versions
    <2>1. disk.installed[i] \in Tools
      OBVIOUS
    <2> QED
      BY <2>1 DEF Tools
  <1> HIDE DEF version, n
  <1>3. PICK i \in K : \A other \in K : ~Newer(version[other], version[i])
    BY <1>1, <1>2, NewestExists
  <1>4. \A other \in K : ~Later(version[other], version[i])
    BY <1>2, <1>3, LaterIsNewer
  <1> QED
    BY <1>2, <1>3, <1>4

\* A match of a tool that suits a need.
Matched(need, tool) ==
    \E match \in MeetsNeed(need, FoundReports) : match.tool \in FoundReports /\ Id(match.tool) = Id(tool)

\* The newest SDK that suits a need is matched.
LEMMA SDKIsMatched ==
    ASSUME Tree, Known, Ordered, disk.installed \in Seq(Tools),
           NEW need, need.type \in {"windows-sdk", "dotnet-sdk"}, ~need.conditional, Suited(need) # {}
    PROVE  \E tool \in Suited(need) :
              Matched(need, tool) /\ \A other \in Suited(need) : ~Newer(other.version, tool.version)
  <1> DEFINE I == DOMAIN disk.installed
             tool(i) == disk.installed[i]
             K == {i \in I : tool(i).type = need.type /\ HasVersionPrefix(tool(i).version, need.version)}
             X == {i \in K : need.type = "windows-sdk" /\ tool(i).version = need.version}
             J == IF X # {} THEN X ELSE K
             fitting == {t \in FoundReports : t.type = need.type /\ HasVersionPrefix(t.version, need.version)}
             exact == {t \in FoundReports : t.type = "windows-sdk" /\ t.version = need.version}
  <1>1. Suited(need) = {tool(i) : i \in J}
    <2>1. need.type # "conda-env"
      OBVIOUS
    <2>2. {t \in ToSet(disk.installed) : t.type = need.type /\ HasVersionPrefix(t.version, need.version)} = {tool(i) : i \in K}
      BY ToolReportElements
    <2>3. {t \in {tool(i) : i \in K} : need.type = "windows-sdk" /\ t.version = need.version} = {tool(i) : i \in X}
      OBVIOUS
    <2>4. X # {} <=> {tool(i) : i \in X} # {}
      OBVIOUS
    <2> HIDE DEF K, X
    <2> QED
      BY <2>1, <2>2, <2>3, <2>4 DEF Suited
  <1>2. J # {} /\ J \subseteq K /\ K \subseteq I
    BY <1>1
  <1>3. PICK i \in J : \A other \in J : ~Newer(tool(other).version, tool(i).version) /\ ~Later(tool(other).version, tool(i).version)
    <2> HIDE DEF J, K
    <2> QED
      BY <1>2, NewestTool
  <1>4. /\ ToolReport(i) \in FoundReports /\ ToolReport(i).type = need.type
        /\ ToolReport(i).version = tool(i).version /\ Id(ToolReport(i)) = Id(tool(i))
    BY <1>2, ToolReportElements, ToolReportFields DEF FoundReports, Id
  <1>5. \A t \in FoundReports : t.type = need.type => \E k \in I : t = ToolReport(k) /\ t.type = tool(k).type /\ t.version = tool(k).version
    <2>1. need.type \notin ProjectLocalTypes \union {"conda-env"}
      BY DEF ProjectLocalTypes
    <2>2. ASSUME NEW t \in FoundReports, t.type = need.type
          PROVE  \E k \in I : t = ToolReport(k) /\ t.type = tool(k).type /\ t.version = tool(k).version
      <3>1. PICK k \in I : t = ToolReport(k)
        BY <2>1, <2>2, ReportsOfTools
      <3> QED
        BY <3>1, ToolReportFields
    <2> QED
      BY <2>2
  <1>6. CASE X # {}
    <2>1. i \in X /\ need.type = "windows-sdk" /\ tool(i).version = need.version
      BY <1>6
    <2>2. ToolReport(i) \in exact
      BY <1>4, <2>1
    <2>3. MatchWindowsSDK(need.version, FoundReports) = {[tool |-> t, kind |-> "DECLARED"] : t \in exact}
      <3>1. {t \in {t \in FoundReports : t.type = "windows-sdk"} : t.version = need.version} = exact
        OBVIOUS
      <3> HIDE DEF exact
      <3> QED
        BY <2>2, <3>1 DEF MatchWindowsSDK
    <2>4. [tool |-> ToolReport(i), kind |-> "DECLARED"] \in MeetsNeed(need, FoundReports)
      BY <2>1, <2>2, <2>3 DEF MeetsNeed
    <2>5. Matched(need, tool(i))
      BY <1>4, <2>4 DEF Matched
    <2> QED
      BY <1>1, <1>3, <2>5
  <1>7. CASE X = {}
    <2>1. i \in K
      BY <1>7
    <2>2. ToolReport(i) \in HighestVersion(fitting)
      <3>1. ToolReport(i) \in fitting
        BY <1>4, <2>1
      <3>2. ASSUME NEW other \in fitting
            PROVE  ~Later(other.version, ToolReport(i).version)
        <4>1. PICK k \in I : other.type = tool(k).type /\ other.version = tool(k).version
          BY <1>5
        <4>2. k \in J
          BY <1>7, <4>1
        <4> QED
          BY <1>3, <1>4, <4>1, <4>2
      <3> QED
        BY <3>1, <3>2 DEF HighestVersion
    <2>3. [tool |-> ToolReport(i), kind |-> "RESOLVED"] \in MeetsNeed(need, FoundReports)
      <3>1. CASE need.type = "windows-sdk"
        <4>1. exact = {}
          <5> SUFFICES ASSUME NEW t \in exact
                       PROVE  FALSE
            OBVIOUS
          <5>1. PICK k \in I : t.type = tool(k).type /\ t.version = tool(k).version
            BY <1>5, <3>1
          <5>2. HasVersionPrefix(need.version, need.version)
            BY <5>1 DEF HasVersionPrefix, IsPrefix, Tools
          <5>3. k \in X
            BY <3>1, <5>1, <5>2
          <5> QED
            BY <1>7, <5>3
        <4>2. MatchWindowsSDK(need.version, FoundReports) = {[tool |-> t, kind |-> "RESOLVED"] : t \in HighestVersion(fitting)}
          <5>1. {t \in {t \in FoundReports : t.type = "windows-sdk"} : t.version = need.version} = exact
            OBVIOUS
          <5>2. {t \in {t \in FoundReports : t.type = "windows-sdk"} : HasVersionPrefix(t.version, need.version)} = fitting
            BY <3>1
          <5> HIDE DEF exact, fitting
          <5> QED
            BY <4>1, <5>1, <5>2 DEF MatchWindowsSDK
        <4> HIDE DEF fitting
        <4> QED
          BY <2>2, <3>1, <4>2 DEF MeetsNeed
      <3>2. CASE need.type = "dotnet-sdk"
        <4>1. MatchDotNetSDK(need.version, FoundReports) = {[tool |-> t, kind |-> "RESOLVED"] : t \in HighestVersion(fitting)}
          <5>1. {t \in FoundReports : t.type = "dotnet-sdk" /\ HasVersionPrefix(t.version, need.version)} = fitting
            BY <3>2
          <5> HIDE DEF fitting
          <5> QED
            BY <5>1 DEF MatchDotNetSDK
        <4> HIDE DEF fitting
        <4> QED
          BY <2>2, <3>2, <4>1 DEF MeetsNeed
      <3> QED
        BY <3>1, <3>2
    <2>4. Matched(need, tool(i))
      BY <1>4, <2>3 DEF Matched
    <2> QED
      BY <1>1, <1>3, <2>4
  <1> QED
    BY <1>6, <1>7

\* An installed environment of the declared name is matched before one of a project.
LEMMA EnvIsMatched ==
    ASSUME Known, disk.installed \in Seq(Tools),
           NEW need, need.type = "conda-env", ~need.conditional, Suited(need) # {}
    PROVE  \E tool \in Suited(need) : Matched(need, tool)
  <1> DEFINE I == DOMAIN disk.installed
             tool(i) == disk.installed[i]
             suits(i) == tool(i).type = "conda-env" /\ SameName(EnvNameFromPath(tool(i).path), need.name)
             envs == {t \in FoundReports : t.type = "conda-env" /\ SameName(EnvName(t), need.name)}
             ranks == {t.rank : t \in envs}
             kind == IF IsGenericEnvName(need.name) THEN "INFERRED" ELSE "DECLARED"
  <1>1. \A t : t \in Suited(need) <=> \E i \in I : t = tool(i) /\ suits(i)
    BY ToolReportElements DEF Suited
  <1>2. PICK i \in I : suits(i)
    BY <1>1
  <1>3. \A k \in I : ToolReport(k) \in FoundReports /\ Id(ToolReport(k)) = Id(tool(k))
                     /\ (suits(k) <=> ToolReport(k) \in envs)
    <2>1. \A k \in I : ToolReport(k) \in FoundReports
      BY ToolReportElements DEF FoundReports
    <2>2. \A k \in I : EnvName(ToolReport(k)) = EnvNameFromPath(tool(k).path)
      BY ToolReportFields DEF EnvName
    <2> QED
      BY <2>1, <2>2, ToolReportFields DEF Id
  <1>4. ranks \in SUBSET Nat /\ ranks # {}
    <2>1. \A t \in FoundReports : t.rank \in Nat
      BY FoundRanks
    <2> QED
      BY <1>2, <1>3, <2>1
  <1>5. PICK n \in ranks : \A k \in ranks : n <= k
    BY <1>4, LeastNatural
  <1>6. PICK t \in envs : t.rank = n
    OBVIOUS
  <1>7. \A other \in envs : t.rank <= other.rank
    BY <1>5, <1>6
  <1>8. t \in ToolReports
    <2> SUFFICES ASSUME t \in OutputReports(found)
                 PROVE  FALSE
      BY <1>6 DEF FoundReports
    <2>1. PICK j \in DOMAIN found : \E x \in found[j].resources :
                  t = Report(Len(disk.installed) + j, TRUE, x, x.owner, x.evidence)
      BY OutputSource
    <2>2. t.rank = Len(disk.installed) + j
      BY <2>1 DEF Report
    <2>3. t.rank <= i
      BY <1>2, <1>3, <1>7, ToolReportFields
    <2>4. i \in 1 .. Len(disk.installed) /\ Len(disk.installed) \in Nat /\ j \in 1 .. Len(found) /\ Len(found) \in Nat
      BY <2>1 DEF Known
    <2> QED
      BY <2>2, <2>3, <2>4
  <1>9. PICK k \in I : t = ToolReport(k)
    BY <1>8, ToolReportElements
  <1>10. suits(k) /\ Id(t) = Id(tool(k))
    BY <1>3, <1>6, <1>9
  <1>11. MatchEnv(need.name, FoundReports) = {[tool |-> e, kind |-> kind] : e \in {e \in envs : \A other \in envs : e.rank <= other.rank}}
    BY DEF MatchEnv
  <1> HIDE DEF envs, kind
  <1>12. [tool |-> t, kind |-> kind] \in MatchEnv(need.name, FoundReports)
    BY <1>6, <1>7, <1>11
  <1>13. [tool |-> t, kind |-> kind] \in MeetsNeed(need, FoundReports)
    BY <1>12 DEF MeetsNeed
  <1>14. Matched(need, tool(k))
    BY <1>10, <1>13, <1>6 DEF Matched, envs
  <1> QED
    BY <1>1, <1>10, <1>14

\* The row of a tool that a kept project needs is blocked.
LEMMA MatchedIsBlocked ==
    ASSUME Known, disk.installed \in Seq(Tools), Concluded, Ended,
           NEW need \in FoundNeeds, NEW tool, Matched(need, tool),
           tool.type \notin ManagedTypes, tool.type \notin ProjectLocalTypes
    PROVE  Blocked(tool)
  <1>1. PICK match \in MeetsNeed(need, FoundReports) : match.tool \in FoundReports /\ Id(match.tool) = Id(tool)
    BY DEF Matched
  <1> DEFINE edge == Edge(need.owner, match)
  <1>2. edge \in FoundEdges
    <2>1. edge \in RequiresEdges(Projects(found), FoundNeeds, FoundReports)
      BY <1>1 DEF RequiresEdges
    <2> QED
      BY <2>1 DEF FoundEdges, JoinedEdges
  <1>3. edge.relation = "REQUIRES" /\ Id(edge) = Id(match.tool)
    BY DEF Edge, Id
  <1>4. match.tool.type = tool.type
    BY <1>1 DEF Id
  <1> HIDE DEF edge
  <1>5. PICK row \in Rows(FoundReports, FoundEdges) : Id(row) = Id(match.tool) /\ row.risk = "BLOCKED"
    BY <1>1, <1>2, <1>3, <1>4, EdgeBlocks
  <1>6. result.rows = Rows(FoundReports, FoundEdges)
    BY AnalysisIsJoined DEF Concluded, Joined
  <1> QED
    BY <1>1, <1>5, <1>6 DEF Blocked

\* The tools that the projects of the result need are blocked, for every disk that is a
\* tree, every order of visits and all versions.
THEOREM NeedsAreBlocked == Spec => []NeededToolsAreBlocked
  <1>1. WalkInv /\ OrderInv /\ Concluded => NeededToolsAreBlocked
    <2> SUFFICES ASSUME WalkInv, OrderInv, Concluded, Ended
                 PROVE  /\ \A need \in All(LAMBDA c : c.needs, found) :
                              /\ Suited(need) # {} /\ ~need.conditional
                              /\ \E p \in result.projects : p.manifest = need.owner
                              => \E tool \in Suited(need) :
                                    /\ Blocked(tool)
                                    /\ need.type = "conda-env"
                                       \/ \A other \in Suited(need) : ~Newer(other.version, tool.version)
                        /\ OfType(result.projects, "xcode") # {} =>
                              \A tool \in ToSet(disk.installed) : tool.type = "xcode-install" => Blocked(tool)
      BY DEF NeededToolsAreBlocked
    <2>1. Tree /\ Known /\ Ordered /\ disk.installed \in Seq(Tools)
      BY DEF WalkInv, OrderInv
    <2>2. result.projects = Projects(found) /\ result.rows = Rows(FoundReports, FoundEdges)
      BY AnalysisIsJoined DEF Concluded, Joined
    <2>3. ASSUME NEW need \in All(LAMBDA c : c.needs, found), Suited(need) # {}, ~need.conditional,
                 \E p \in result.projects : p.manifest = need.owner
          PROVE  \E tool \in Suited(need) :
                    /\ Blocked(tool)
                    /\ need.type = "conda-env" \/ \A other \in Suited(need) : ~Newer(other.version, tool.version)
      <3>1. need \in FoundNeeds
        BY <2>2, <2>3 DEF FoundNeeds, DeclaredNeeds
      <3>2. PICK c \in ToSet(found) : need \in c.needs
        BY DEF All, ToSet
      <3>3. PICK entry \in Paths : c \in Detected(entry)
        BY <2>1, CandidateSource
      <3>4. need.type \in NeedTypes
        BY <2>1, <3>2, <3>3, DetectedNeeds DEF Tree
      <3>5. \A tool \in Suited(need) : tool.type \notin ManagedTypes /\ tool.type \notin ProjectLocalTypes
        <4>1. \A tool \in Suited(need) : tool.type = need.type
          BY DEF Suited
        <4> QED
          BY <3>4, <4>1 DEF NeedTypes, ManagedTypes, ProjectLocalTypes
      <3>6. CASE need.type = "conda-env"
        BY <2>1, <2>3, <3>1, <3>5, <3>6, EnvIsMatched, MatchedIsBlocked
      <3>7. CASE need.type \in {"windows-sdk", "dotnet-sdk"}
        BY <2>1, <2>3, <3>1, <3>5, <3>7, SDKIsMatched, MatchedIsBlocked
      <3> QED
        BY <3>4, <3>6, <3>7 DEF NeedTypes
    <2>4. ASSUME NEW p \in OfType(result.projects, "xcode"), NEW tool \in ToSet(disk.installed), tool.type = "xcode-install"
          PROVE  Blocked(tool)
      <3>1. PICK i \in DOMAIN disk.installed : tool = disk.installed[i]
        BY ToolReportElements
      <3> DEFINE t == ToolReport(i)
                 match == [tool |-> t, kind |-> "INFERRED"]
                 edge == Edge(p.manifest, match)
      <3>2. t \in FoundReports /\ t.type = "xcode-install" /\ Id(t) = Id(tool)
        BY <2>4, <3>1, ToolReportElements, ToolReportFields DEF FoundReports, Id
      <3> HIDE DEF t
      <3>3. p \in Projects(found) /\ p.type = "xcode"
        BY <2>2 DEF OfType
      <3>4. match \in MatchXcode(p, FoundReports)
        BY <3>2, <3>3 DEF MatchXcode
      <3>5. edge \in FoundEdges
        <4>1. edge \in RequiresEdges(Projects(found), FoundNeeds, FoundReports)
          BY <3>3, <3>4 DEF RequiresEdges
        <4> QED
          BY <4>1 DEF FoundEdges, JoinedEdges
      <3>6. edge.relation = "REQUIRES" /\ Id(edge) = Id(t)
        BY DEF Edge, Id
      <3>7. t.type \notin ManagedTypes /\ t.type \notin ProjectLocalTypes
        BY <3>2 DEF ManagedTypes, ProjectLocalTypes
      <3> HIDE DEF edge
      <3>8. PICK row \in Rows(FoundReports, FoundEdges) : Id(row) = Id(t) /\ row.risk = "BLOCKED"
        BY <2>1, <3>2, <3>5, <3>6, <3>7, EdgeBlocks
      <3> QED
        BY <2>2, <3>2, <3>8 DEF Blocked
    <2> QED
      BY <2>3, <2>4
  <1> QED
    BY <1>1, WalkInitially, WalkStep, OrderInitially, OrderStep, ConcludedInitially, ConcludedStep, PTL DEF Spec

------------------------------------------------------------------------------
(* Scans that report the same, in another order.                             *)

\* r and x are one report, made at different places.
Twins(r, x) ==
    /\ r.scoped = x.scoped /\ r.owner = x.owner /\ r.type = x.type /\ r.version = x.version
    /\ r.path = x.path /\ r.regenerable = x.regenerable /\ r.evidence = x.evidence

\* A pairing of reports that keeps the order of those that are compared: of one
\* path, or with a tool.
Pairing(R) ==
    \A r, x, q, y : <<r, x>> \in R /\ <<q, y>> \in R =>
        /\ Twins(r, x) /\ r.rank \in Nat /\ x.rank \in Nat
        /\ r.path = q.path \/ ~r.scoped \/ ~q.scoped => (r.rank < q.rank <=> x.rank < y.rank)

\* Each report of S is paired with one of T.
Into(S, T, R) == \A r \in S : \E x \in T : <<r, x>> \in R

\* The pairing from the other side.
Flip(R) == {<<z[2], z[1]>> : z \in {z \in R : z = <<z[1], z[2]>>}}

\* All of S and T are paired.
Matches(S, T, R) == Into(S, T, R) /\ Into(T, S, Flip(R))

\* A pairing is one from both sides.
LEMMA FlipPairs ==
    ASSUME NEW R
    PROVE  /\ \A r, x : <<x, r>> \in Flip(R) <=> <<r, x>> \in R
           /\ \A S, T : Matches(S, T, R) => Matches(T, S, Flip(R))
           /\ Pairing(R) => Pairing(Flip(R))
  <1>1. ASSUME NEW r, NEW x
        PROVE  <<x, r>> \in Flip(R) <=> <<r, x>> \in R
    <2>1. ASSUME <<x, r>> \in Flip(R)
          PROVE  <<r, x>> \in R
      <3>1. PICK z \in R : z = <<z[1], z[2]>> /\ <<x, r>> = <<z[2], z[1]>>
        BY <2>1 DEF Flip
      <3>2. x = z[2] /\ r = z[1]
        BY <3>1
      <3> QED
        BY <3>1, <3>2
    <2>2. ASSUME <<r, x>> \in R
          PROVE  <<x, r>> \in Flip(R)
      <3> DEFINE z == <<r, x>>
      <3>1. z \in R /\ z[1] = r /\ z[2] = x /\ z = <<z[1], z[2]>>
        BY <2>2
      <3> HIDE DEF z
      <3>2. <<z[2], z[1]>> \in Flip(R)
        BY <3>1 DEF Flip
      <3> QED
        BY <3>1, <3>2
    <2> QED
      BY <2>1, <2>2
  <1>2. ASSUME NEW r, NEW x
        PROVE  <<x, r>> \in Flip(Flip(R)) <=> <<x, r>> \in R
    <2>1. ASSUME <<x, r>> \in Flip(Flip(R))
          PROVE  <<x, r>> \in R
      <3>1. PICK z \in Flip(R) : z = <<z[1], z[2]>> /\ <<x, r>> = <<z[2], z[1]>>
        BY <2>1 DEF Flip
      <3>2. x = z[2] /\ r = z[1] /\ <<r, x>> \in Flip(R)
        BY <3>1
      <3> QED
        BY <1>1, <3>2
    <2>2. ASSUME <<x, r>> \in R
          PROVE  <<x, r>> \in Flip(Flip(R))
      <3> DEFINE z == <<r, x>>
      <3>1. z \in Flip(R) /\ z[1] = r /\ z[2] = x /\ z = <<z[1], z[2]>>
        BY <1>1, <2>2
      <3> HIDE DEF z
      <3>2. <<z[2], z[1]>> \in Flip(Flip(R))
        BY <3>1 DEF Flip
      <3> QED
        BY <3>1, <3>2
    <2> QED
      BY <2>1, <2>2
  <1>3. ASSUME NEW S, NEW T, Matches(S, T, R)
        PROVE  Matches(T, S, Flip(R))
    BY <1>2, <1>3 DEF Matches, Into
  <1>4. ASSUME Pairing(R)
        PROVE  Pairing(Flip(R))
    <2> SUFFICES ASSUME NEW r, NEW x, NEW q, NEW y, <<r, x>> \in Flip(R), <<q, y>> \in Flip(R)
                 PROVE  /\ Twins(r, x) /\ r.rank \in Nat /\ x.rank \in Nat
                        /\ r.path = q.path \/ ~r.scoped \/ ~q.scoped => (r.rank < q.rank <=> x.rank < y.rank)
      BY DEF Pairing
    <2>1. <<x, r>> \in R /\ <<y, q>> \in R
      BY <1>1
    <2>2. /\ Twins(x, r) /\ r.rank \in Nat /\ x.rank \in Nat /\ Twins(y, q)
          /\ x.path = y.path \/ ~x.scoped \/ ~y.scoped => (x.rank < y.rank <=> r.rank < q.rank)
      BY <1>4, <2>1 DEF Pairing
    <2> QED
      BY <2>2 DEF Twins
  <1> QED
    BY <1>1, <1>3, <1>4

\* What is compared is before in both, or in neither.
LEMMA PairingOrder ==
    ASSUME NEW R, Pairing(R), NEW r, NEW x, NEW q, NEW y, <<r, x>> \in R, <<q, y>> \in R,
           r.path = q.path \/ ~r.scoped \/ ~q.scoped
    PROVE  r.rank <= q.rank <=> x.rank <= y.rank
  <1>1. r.rank \in Nat /\ x.rank \in Nat /\ q.rank \in Nat /\ y.rank \in Nat
    BY DEF Pairing
  <1>2. q.path = r.path \/ ~q.scoped \/ ~r.scoped
    OBVIOUS
  <1>3. q.rank < r.rank <=> y.rank < x.rank
    BY <1>2 DEF Pairing
  <1> QED
    BY <1>1, <1>3

\* Twins are the same resource of the same owner.
LEMMA PairTwins ==
    ASSUME NEW R, Pairing(R), NEW r, NEW x, <<r, x>> \in R
    PROVE  Twins(r, x) /\ Id(x) = Id(r)
  <1>1. Twins(r, x)
    BY DEF Pairing
  <1> QED
    BY <1>1 DEF Twins, Id

\* The reports of owners that are kept are paired.
LEMMA FilterMatches ==
    ASSUME NEW S, NEW T, NEW R, Pairing(R), Matches(S, T, R), NEW projects
    PROVE  Matches(FilterByOwner(S, projects), FilterByOwner(T, projects), R)
  <1>1. ASSUME NEW S1, NEW T1, NEW R1, Pairing(R1), Matches(S1, T1, R1)
        PROVE  Into(FilterByOwner(S1, projects), FilterByOwner(T1, projects), R1)
    <2> SUFFICES ASSUME NEW r \in FilterByOwner(S1, projects)
                 PROVE  \E x \in FilterByOwner(T1, projects) : <<r, x>> \in R1
      BY DEF Into
    <2>1. PICK x \in T1 : <<r, x>> \in R1
      BY <1>1 DEF Matches, Into, FilterByOwner
    <2>2. Twins(r, x)
      BY <1>1, <2>1, PairTwins
    <2> QED
      BY <2>1, <2>2 DEF Twins, FilterByOwner
  <1> QED
    BY <1>1, FlipPairs DEF Matches

\* So are the first reports of each owner.
LEMMA DedupeMatches ==
    ASSUME NEW S, NEW T, NEW R, Pairing(R), Matches(S, T, R)
    PROVE  Matches(Dedupe(S), Dedupe(T), R)
  <1>1. ASSUME NEW S1, NEW T1, NEW R1, Pairing(R1), Matches(S1, T1, R1)
        PROVE  Into(Dedupe(S1), Dedupe(T1), R1)
    <2> SUFFICES ASSUME NEW r \in Dedupe(S1)
                 PROVE  \E x \in Dedupe(T1) : <<r, x>> \in R1
      BY DEF Into
    <2>1. PICK x \in T1 : <<r, x>> \in R1
      BY <1>1 DEF Matches, Into, Dedupe
    <2>2. Twins(r, x)
      BY <1>1, <2>1, PairTwins
    <2>3. ASSUME NEW y \in T1, y.owner = x.owner, y.path = x.path
          PROVE  x.rank <= y.rank
      <3>1. PICK q \in S1 : <<y, q>> \in Flip(R1)
        BY <1>1 DEF Matches, Into
      <3>2. <<q, y>> \in R1
        BY <3>1, FlipPairs
      <3>3. Twins(q, y)
        BY <1>1, <3>2, PairTwins
      <3>4. q.owner = r.owner /\ q.path = r.path
        BY <2>2, <2>3, <3>3 DEF Twins
      <3>5. r.rank <= q.rank
        BY <3>4 DEF Dedupe
      <3> QED
        BY <1>1, <2>1, <3>2, <3>4, <3>5, PairingOrder
    <2> QED
      BY <2>1, <2>3 DEF Dedupe
  <1> QED
    BY <1>1, FlipPairs DEF Matches

\* And the last reports of each resource.
LEMMA LastMatches ==
    ASSUME NEW S, NEW T, NEW R, Pairing(R), Matches(S, T, R)
    PROVE  Into(LastReports(S), LastReports(T), R)
  <1> SUFFICES ASSUME NEW r \in LastReports(S)
               PROVE  \E x \in LastReports(T) : <<r, x>> \in R
    BY DEF Into
  <1>1. PICK x \in T : <<r, x>> \in R
    BY DEF Matches, Into, LastReports
  <1>2. Id(x) = Id(r)
    BY <1>1, PairTwins
  <1>3. ASSUME NEW y \in T, Id(y) = Id(x)
        PROVE  y.rank <= x.rank
    <2>1. PICK q \in S : <<y, q>> \in Flip(R)
      BY DEF Matches, Into
    <2>2. <<q, y>> \in R
      BY <2>1, FlipPairs
    <2>3. Id(q) = Id(r)
      BY <1>2, <1>3, <2>2, PairTwins
    <2>4. q.rank <= r.rank
      BY <2>3 DEF LastReports
    <2>5. q.path = r.path
      BY <2>3 DEF Id
    <2> QED
      BY <1>1, <2>2, <2>4, <2>5, PairingOrder
  <1> QED
    BY <1>1, <1>3 DEF LastReports

\* The same rows are stored.
LEMMA RowsMatch ==
    ASSUME NEW S, NEW T, NEW R, Pairing(R), Matches(S, T, R), NEW edges
    PROVE  Rows(S, edges) = Rows(T, edges)
  <1> DEFINE required == {Id(edge) : edge \in {e \in edges : e.relation = "REQUIRES"}}
  <1>1. \A reports : Rows(reports, edges) = {Row(r, Id(r) \in required) : r \in LastReports(reports)}
    BY DEF Rows
  <1> HIDE DEF required
  <1>2. ASSUME NEW r, NEW x, Twins(r, x), Id(x) = Id(r)
        PROVE  Row(r, Id(r) \in required) = Row(x, Id(x) \in required)
    <2>1. EnrichCleanupEvidence(r) = EnrichCleanupEvidence(x)
      BY <1>2 DEF Twins, EnrichCleanupEvidence
    <2>2. ObservedRisk(r) = ObservedRisk(x)
      BY <1>2, <2>1 DEF Twins, ObservedRisk
    <2>3. RequiredRisk(r) = RequiredRisk(x)
      BY <1>2, <2>2 DEF Twins, RequiredRisk
    <2> DEFINE needed == Id(r) \in required
    <2>4. (Id(x) \in required) = needed
      BY <1>2
    <2> HIDE DEF needed
    <2>5. Row(r, needed) = Row(x, needed)
      BY <1>2, <2>2, <2>3 DEF Twins, Row
    <2> QED
      BY <2>4, <2>5 DEF needed
  <1>3. ASSUME NEW S1, NEW T1, NEW R1, Pairing(R1), Matches(S1, T1, R1)
        PROVE  Rows(S1, edges) \subseteq Rows(T1, edges)
    <2> SUFFICES ASSUME NEW r \in LastReports(S1)
                 PROVE  Row(r, Id(r) \in required) \in Rows(T1, edges)
      BY <1>1
    <2>1. PICK x \in LastReports(T1) : <<r, x>> \in R1
      BY <1>3, LastMatches DEF Into
    <2>2. Row(r, Id(r) \in required) = Row(x, Id(x) \in required)
      BY <1>2, <1>3, <2>1, PairTwins
    <2> QED
      BY <1>1, <2>1, <2>2
  <1>4. Rows(S, edges) \subseteq Rows(T, edges)
    BY <1>3
  <1>5. Rows(T, edges) \subseteq Rows(S, edges)
    BY <1>3, FlipPairs
  <1> QED
    BY <1>4, <1>5

\* The first report of a path is paired with the first.
LEMMA FirstMatches ==
    ASSUME NEW S, NEW T, NEW R, Pairing(R), Matches(S, T, R),
           NEW at \in S, \A y \in S : y.path = at.path => at.rank <= y.rank, NEW x \in T, <<at, x>> \in R
    PROVE  x.path = at.path /\ \A y \in T : y.path = at.path => x.rank <= y.rank
  <1>1. Twins(at, x)
    BY PairTwins
  <1>2. ASSUME NEW y \in T, y.path = at.path
        PROVE  x.rank <= y.rank
    <2>1. PICK q \in S : <<y, q>> \in Flip(R)
      BY DEF Matches, Into
    <2>2. <<q, y>> \in R
      BY <2>1, FlipPairs
    <2>3. Twins(q, y)
      BY <2>2, PairTwins
    <2>4. q.path = at.path
      BY <1>2, <2>3 DEF Twins
    <2>5. at.rank <= q.rank
      BY <2>4
    <2> QED
      BY <2>2, <2>4, <2>5, PairingOrder
  <1> QED
    BY <1>1, <1>2 DEF Twins

\* Owners are joined to the same resources.
LEMMA OwnsMatch ==
    ASSUME NEW R, Pairing(R), NEW O, NEW P, Matches(O, P, R), NEW S, NEW T, Matches(S, T, R)
    PROVE  OwnsEdges(O, S) = OwnsEdges(P, T)
  <1>1. ASSUME NEW R1, Pairing(R1), NEW O1, NEW P1, Matches(O1, P1, R1), NEW S1, NEW T1, Matches(S1, T1, R1)
        PROVE  OwnsEdges(O1, S1) \subseteq OwnsEdges(P1, T1)
    <2> SUFFICES ASSUME NEW edge \in OwnsEdges(O1, S1)
                 PROVE  edge \in OwnsEdges(P1, T1)
      OBVIOUS
    <2> DEFINE e(r, at) == [project |-> r.owner, relation |-> "OWNS", type |-> at.type, version |-> at.version,
                            path |-> at.path, kind |-> "OBSERVED"]
    <2>1. PICK r \in O1, at \in S1 : /\ edge = e(r, at) /\ at.path = r.path
                                     /\ \A y \in S1 : y.path = r.path => at.rank <= y.rank
      BY DEF OwnsEdges
    <2>2. PICK p \in P1 : <<r, p>> \in R1
      BY <1>1 DEF Matches, Into
    <2>3. PICK x \in T1 : <<at, x>> \in R1
      BY <1>1 DEF Matches, Into
    <2>4. Twins(r, p) /\ Twins(at, x)
      BY <1>1, <2>2, <2>3, PairTwins
    <2>5. x.path = at.path /\ \A y \in T1 : y.path = at.path => x.rank <= y.rank
      BY <1>1, <2>1, <2>3, FirstMatches
    <2>6. x.path = p.path /\ \A y \in T1 : y.path = p.path => x.rank <= y.rank
      BY <2>1, <2>4, <2>5 DEF Twins
    <2>7. e(p, x) = e(r, at)
      BY <2>4 DEF Twins
    <2>8. e(p, x) \in OwnsEdges(P1, T1)
      BY <2>6 DEF OwnsEdges
    <2> QED
      BY <2>1, <2>7, <2>8
  <1>2. OwnsEdges(O, S) \subseteq OwnsEdges(P, T)
    BY <1>1
  <1>3. OwnsEdges(P, T) \subseteq OwnsEdges(O, S)
    BY <1>1, FlipPairs
  <1> QED
    BY <1>2, <1>3

\* Two environments of one name that projects hold are one directory.
EnvsDiffer(S) ==
    \A a, b \in S : /\ a.type = "conda-env" /\ b.type = "conda-env" /\ a.scoped /\ b.scoped
                    /\ SameName(EnvName(a), EnvName(b))
                    => a.path = b.path

\* Matches say the same of a tool.
Same(a, b) == Id(a.tool) = Id(b.tool) /\ a.kind = b.kind

\* The environment of a name is paired.
LEMMA EnvMatches ==
    ASSUME NEW S, NEW T, NEW R, Pairing(R), Matches(S, T, R), EnvsDiffer(S), NEW name
    PROVE  \A a \in MatchEnv(name, S) : \E b \in MatchEnv(name, T) : Same(a, b)
  <1> DEFINE kind == IF IsGenericEnvName(name) THEN "INFERRED" ELSE "DECLARED"
             envs(U) == {t \in U : t.type = "conda-env" /\ SameName(EnvName(t), name)}
  <1>1. \A U : MatchEnv(name, U) = {[tool |-> t, kind |-> kind]
                                      : t \in {t \in envs(U) : \A other \in envs(U) : t.rank <= other.rank}}
    BY DEF MatchEnv
  <1> HIDE DEF kind
  <1> SUFFICES ASSUME NEW t \in envs(S), \A other \in envs(S) : t.rank <= other.rank
               PROVE  \E b \in MatchEnv(name, T) : Same([tool |-> t, kind |-> kind], b)
    BY <1>1
  <1>2. PICK x \in T : <<t, x>> \in R
    BY DEF Matches, Into
  <1>3. Twins(t, x) /\ Id(x) = Id(t)
    BY <1>2, PairTwins
  <1>4. x \in envs(T)
    BY <1>3 DEF Twins, EnvName
  <1>5. ASSUME NEW y \in envs(T)
        PROVE  x.rank <= y.rank
    <2>1. PICK q \in S : <<y, q>> \in Flip(R)
      BY DEF Matches, Into
    <2>2. <<q, y>> \in R
      BY <2>1, FlipPairs
    <2>3. Twins(q, y)
      BY <2>2, PairTwins
    <2>4. q \in envs(S)
      BY <1>5, <2>3 DEF Twins, EnvName
    <2>5. t.path = q.path \/ ~t.scoped \/ ~q.scoped
      BY <2>4 DEF EnvsDiffer, SameName
    <2>6. t.rank <= q.rank
      BY <2>4
    <2> QED
      BY <1>2, <2>2, <2>5, <2>6, PairingOrder
  <1> DEFINE b == [tool |-> x, kind |-> kind]
  <1>6. b \in MatchEnv(name, T)
    BY <1>1, <1>4, <1>5
  <1>7. Same([tool |-> t, kind |-> kind], b)
    BY <1>3 DEF Same
  <1> QED
    BY <1>6, <1>7

\* The highest of the versions that a test leaves is paired.
LEMMA HighestMatches ==
    ASSUME NEW S, NEW T, NEW R, Pairing(R), Matches(S, T, R), NEW t \in HighestVersion(S), NEW x \in T, <<t, x>> \in R
    PROVE  x \in HighestVersion(T)
  <1>1. Twins(t, x)
    BY PairTwins
  <1>2. ASSUME NEW y \in T
        PROVE  ~Later(y.version, x.version)
    <2>1. PICK q \in S : <<y, q>> \in Flip(R)
      BY DEF Matches, Into
    <2>2. <<q, y>> \in R
      BY <2>1, FlipPairs
    <2>3. Twins(q, y)
      BY <2>2, PairTwins
    <2>4. ~Later(q.version, t.version)
      BY DEF HighestVersion
    <2>5. y.version = q.version /\ x.version = t.version
      BY <1>1, <2>3 DEF Twins
    <2> QED
      BY <2>4, <2>5
  <1> QED
    BY <1>2 DEF HighestVersion

\* A choice among resources, the same for twins.
Chosen(A, B, S, T) ==
    /\ A \subseteq S /\ B \subseteq T
    /\ \A r \in S, x \in T : Twins(r, x) => (r \in A <=> x \in B)

\* What is chosen alike is paired.
LEMMA ChosenMatch ==
    ASSUME NEW S, NEW T, NEW R, Pairing(R), Matches(S, T, R), NEW A, NEW B, Chosen(A, B, S, T)
    PROVE  Matches(A, B, R)
  <1>1. ASSUME NEW r \in A
        PROVE  \E x \in B : <<r, x>> \in R
    <2>1. r \in S
      BY DEF Chosen
    <2>2. PICK x \in T : <<r, x>> \in R
      BY <2>1 DEF Matches, Into
    <2>3. Twins(r, x)
      BY <2>2, PairTwins
    <2> QED
      BY <2>1, <2>2, <2>3 DEF Chosen
  <1>2. ASSUME NEW x \in B
        PROVE  \E r \in A : <<x, r>> \in Flip(R)
    <2>1. x \in T
      BY DEF Chosen
    <2>2. PICK r \in S : <<x, r>> \in Flip(R)
      BY <2>1 DEF Matches, Into
    <2>3. <<r, x>> \in R
      BY <2>2, FlipPairs
    <2>4. Twins(r, x)
      BY <2>3, PairTwins
    <2> QED
      BY <2>1, <2>2, <2>4 DEF Chosen
  <1> QED
    BY <1>1, <1>2 DEF Matches, Into

\* What meets a need in one meets it in the other.
LEMMA NeedMatches ==
    ASSUME NEW S, NEW T, NEW R, Pairing(R), Matches(S, T, R), EnvsDiffer(S), NEW need, need.type \in NeedTypes
    PROVE  \A a \in MeetsNeed(need, S) : \E b \in MeetsNeed(need, T) : Same(a, b)
  <1>1. CASE need.conditional
    <2>1. MeetsNeed(need, S) = {}
      BY <1>1 DEF MeetsNeed
    <2> QED
      BY <2>1
  <1>2. CASE ~need.conditional /\ need.type = "conda-env"
    <2>1. MeetsNeed(need, S) = MatchEnv(need.name, S) /\ MeetsNeed(need, T) = MatchEnv(need.name, T)
      BY <1>2 DEF MeetsNeed
    <2> QED
      BY <2>1, EnvMatches
  <1>3. CASE ~need.conditional /\ need.type = "dotnet-sdk"
    <2> DEFINE V == {v \in {t.version : t \in S \union T} : HasVersionPrefix(v, need.version)}
               picked(U) == {t \in U : t.type = "dotnet-sdk" /\ t.version \in V}
    <2>1. MeetsNeed(need, S) = MatchDotNetSDK(need.version, S) /\ MeetsNeed(need, T) = MatchDotNetSDK(need.version, T)
      BY <1>3 DEF MeetsNeed
    <2>2. /\ {t \in S : t.type = "dotnet-sdk" /\ HasVersionPrefix(t.version, need.version)} = picked(S)
          /\ {t \in T : t.type = "dotnet-sdk" /\ HasVersionPrefix(t.version, need.version)} = picked(T)
      OBVIOUS
    <2>3. /\ MatchDotNetSDK(need.version, S) = {[tool |-> t, kind |-> "RESOLVED"] : t \in HighestVersion(picked(S))}
          /\ MatchDotNetSDK(need.version, T) = {[tool |-> t, kind |-> "RESOLVED"] : t \in HighestVersion(picked(T))}
      BY <2>2 DEF MatchDotNetSDK
    <2> HIDE DEF V
    <2>9. Chosen(picked(S), picked(T), S, T)
      BY DEF Chosen, Twins
    <2> HIDE DEF picked
    <2>4. Matches(picked(S), picked(T), R)
      BY <2>9, ChosenMatch
    <2> SUFFICES ASSUME NEW t \in HighestVersion(picked(S))
                 PROVE  \E b \in MeetsNeed(need, T) : Same([tool |-> t, kind |-> "RESOLVED"], b)
      BY <2>1, <2>3
    <2>5. PICK x \in picked(T) : <<t, x>> \in R
      BY <2>4 DEF Matches, Into, HighestVersion
    <2>6. x \in HighestVersion(picked(T))
      BY <2>4, <2>5, HighestMatches
    <2>7. Same([tool |-> t, kind |-> "RESOLVED"], [tool |-> x, kind |-> "RESOLVED"])
      BY <2>5, PairTwins DEF Same
    <2> QED
      BY <2>1, <2>3, <2>6, <2>7
  <1>4. CASE ~need.conditional /\ need.type = "windows-sdk"
    <2> DEFINE V == {v \in {t.version : t \in S \union T} : HasVersionPrefix(v, need.version)}
               picked(U) == {t \in U : t.type = "windows-sdk" /\ t.version \in V}
               W == {need.version}
               exact(U) == {t \in U : t.type = "windows-sdk" /\ t.version \in W}
               one(t) == [tool |-> t, kind |-> "DECLARED"]
               best(t) == [tool |-> t, kind |-> "RESOLVED"]
    <2>1. MeetsNeed(need, S) = MatchWindowsSDK(need.version, S) /\ MeetsNeed(need, T) = MatchWindowsSDK(need.version, T)
      BY <1>4 DEF MeetsNeed
    <2>2. ASSUME NEW U, U \subseteq S \union T
          PROVE  MatchWindowsSDK(need.version, U) = IF exact(U) # {} THEN {one(t) : t \in exact(U)}
                                                    ELSE {best(t) : t \in HighestVersion(picked(U))}
      <3> DEFINE sdks == {t \in U : t.type = "windows-sdk"}
      <3>1. {t \in sdks : HasVersionPrefix(t.version, need.version)} = picked(U)
        BY <2>2
      <3>2. {t \in sdks : t.version = need.version} = exact(U)
        OBVIOUS
      <3> QED
        BY <3>1, <3>2 DEF MatchWindowsSDK
    <2> HIDE DEF V, W
    <2>9. Chosen(picked(S), picked(T), S, T)
      BY DEF Chosen, Twins
    <2>10. Chosen(exact(S), exact(T), S, T)
      BY DEF Chosen, Twins
    <2> HIDE DEF picked, exact
    <2>3. Matches(picked(S), picked(T), R) /\ Matches(exact(S), exact(T), R)
      BY <2>9, <2>10, ChosenMatch
    <2>4. S \subseteq S \union T /\ T \subseteq S \union T
      OBVIOUS
    <2>5. \A t, x : <<t, x>> \in R => Same(one(t), one(x)) /\ Same(best(t), best(x))
      BY PairTwins DEF Same
    <2>6. (exact(S) = {}) <=> (exact(T) = {})
      BY <2>3 DEF Matches, Into
    <2> HIDE DEF one, best
    <2>7. CASE exact(S) # {}
      <3>3. /\ MeetsNeed(need, S) = {one(t) : t \in exact(S)}
            /\ MeetsNeed(need, T) = {one(t) : t \in exact(T)}
        BY <2>1, <2>2, <2>4, <2>6, <2>7
      <3> SUFFICES ASSUME NEW t \in exact(S)
                   PROVE  \E b \in MeetsNeed(need, T) : Same(one(t), b)
        BY <3>3
      <3>1. PICK x \in exact(T) : <<t, x>> \in R
        BY <2>3 DEF Matches, Into
      <3> QED
        BY <2>5, <3>1, <3>3
    <2>8. CASE exact(S) = {}
      <3>3. /\ MeetsNeed(need, S) = {best(t) : t \in HighestVersion(picked(S))}
            /\ MeetsNeed(need, T) = {best(t) : t \in HighestVersion(picked(T))}
        BY <2>1, <2>2, <2>4, <2>6, <2>8
      <3> SUFFICES ASSUME NEW t \in HighestVersion(picked(S))
                   PROVE  \E b \in MeetsNeed(need, T) : Same(best(t), b)
        BY <3>3
      <3>1. PICK x \in picked(T) : <<t, x>> \in R
        BY <2>3 DEF Matches, Into, HighestVersion
      <3>2. x \in HighestVersion(picked(T))
        BY <2>3, <3>1, HighestMatches
      <3> QED
        BY <2>5, <3>1, <3>2, <3>3
    <2> QED
      BY <2>7, <2>8
  <1> QED
    BY <1>1, <1>2, <1>3, <1>4 DEF NeedTypes

\* What differs in one differs in the other.
LEMMA EnvsDifferToo ==
    ASSUME NEW S, NEW T, NEW R, Pairing(R), Matches(S, T, R), EnvsDiffer(S)
    PROVE  EnvsDiffer(T)
  <1> SUFFICES ASSUME NEW x \in T, NEW y \in T, x.type = "conda-env", y.type = "conda-env", x.scoped, y.scoped,
                      SameName(EnvName(x), EnvName(y))
               PROVE  x.path = y.path
    BY DEF EnvsDiffer
  <1>1. \A z \in T : \E r \in S : Twins(r, z)
    <2> SUFFICES ASSUME NEW z \in T
                 PROVE  \E r \in S : Twins(r, z)
      OBVIOUS
    <2>1. PICK r \in S : <<z, r>> \in Flip(R)
      BY DEF Matches, Into
    <2> QED
      BY <2>1, FlipPairs, PairTwins
  <1>2. PICK r \in S, q \in S : Twins(r, x) /\ Twins(q, y)
    BY <1>1
  <1>3. EnvName(r) = EnvName(x) /\ EnvName(q) = EnvName(y)
    BY <1>2 DEF Twins, EnvName
  <1>4. r.path = q.path
    BY <1>2, <1>3 DEF Twins, EnvsDiffer
  <1> QED
    BY <1>2, <1>4 DEF Twins

\* Projects require the same.
LEMMA RequiresMatch ==
    ASSUME NEW S, NEW T, NEW R, Pairing(R), Matches(S, T, R), EnvsDiffer(S),
           NEW projects, NEW needs, \A need \in needs : need.type \in NeedTypes
    PROVE  /\ RequiresEdges(projects, needs, S) = RequiresEdges(projects, needs, T)
           /\ Unverified(projects, needs, S) = Unverified(projects, needs, T)
  <1>1. ASSUME NEW a, NEW b, Same(a, b), NEW owner
        PROVE  Edge(owner, a) = Edge(owner, b)
    BY <1>1 DEF Same, Id, Edge
  <1>2. ASSUME NEW S1, NEW T1, NEW R1, Pairing(R1), Matches(S1, T1, R1), NEW p
        PROVE  \A a \in MatchXcode(p, S1) : \E b \in MatchXcode(p, T1) : Same(a, b)
    <2> SUFFICES ASSUME NEW t \in S1, p.type = "xcode", t.type = "xcode-install"
                 PROVE  \E b \in MatchXcode(p, T1) : Same([tool |-> t, kind |-> "INFERRED"], b)
      BY DEF MatchXcode
    <2>1. PICK x \in T1 : <<t, x>> \in R1
      BY <1>2 DEF Matches, Into
    <2>2. Twins(t, x) /\ Id(x) = Id(t)
      BY <1>2, <2>1, PairTwins
    <2> DEFINE b == [tool |-> x, kind |-> "INFERRED"]
    <2>3. b \in MatchXcode(p, T1)
      BY <2>2 DEF Twins, MatchXcode
    <2>4. Same([tool |-> t, kind |-> "INFERRED"], b)
      BY <2>2 DEF Same
    <2> QED
      BY <2>3, <2>4
  <1>3. ASSUME NEW S1, NEW T1, NEW R1, Pairing(R1), Matches(S1, T1, R1), EnvsDiffer(S1)
        PROVE  /\ RequiresEdges(projects, needs, S1) \subseteq RequiresEdges(projects, needs, T1)
               /\ \A name : MatchEnv(name, S1) # {} => MatchEnv(name, T1) # {}
               /\ \A p : MatchXcode(p, S1) # {} => MatchXcode(p, T1) # {}
    <2>1. ASSUME NEW need \in needs, NEW a \in MeetsNeed(need, S1)
          PROVE  Edge(need.owner, a) \in RequiresEdges(projects, needs, T1)
      <3>1. PICK b \in MeetsNeed(need, T1) : Same(a, b)
        BY <1>3, <2>1, NeedMatches
      <3>2. Edge(need.owner, b) \in RequiresEdges(projects, needs, T1)
        BY <2>1, <3>1 DEF RequiresEdges
      <3> QED
        BY <1>1, <3>1, <3>2
    <2>2. ASSUME NEW p \in projects, NEW a \in MatchXcode(p, S1)
          PROVE  Edge(p.manifest, a) \in RequiresEdges(projects, needs, T1)
      <3>1. PICK b \in MatchXcode(p, T1) : Same(a, b)
        BY <1>2, <1>3, <2>2
      <3>2. Edge(p.manifest, b) \in RequiresEdges(projects, needs, T1)
        BY <2>2, <3>1 DEF RequiresEdges
      <3> QED
        BY <1>1, <3>1, <3>2
    <2>3. RequiresEdges(projects, needs, S1) \subseteq RequiresEdges(projects, needs, T1)
      <3> DEFINE E == RequiresEdges(projects, needs, T1)
      <3>1. /\ \A need \in needs : \A a \in MeetsNeed(need, S1) : Edge(need.owner, a) \in E
            /\ \A p \in projects : \A a \in MatchXcode(p, S1) : Edge(p.manifest, a) \in E
        BY <2>1, <2>2
      <3> HIDE DEF E
      <3>2. RequiresEdges(projects, needs, S1) \subseteq E
        BY <3>1 DEF RequiresEdges
      <3> QED
        BY <3>2 DEF E
    <2>4. \A name : MatchEnv(name, S1) # {} => MatchEnv(name, T1) # {}
      BY <1>3, EnvMatches
    <2>5. \A p : MatchXcode(p, S1) # {} => MatchXcode(p, T1) # {}
      BY <1>2, <1>3
    <2> QED
      BY <2>3, <2>4, <2>5
  <1>4. Pairing(Flip(R)) /\ Matches(T, S, Flip(R)) /\ EnvsDiffer(T)
    BY FlipPairs, EnvsDifferToo
  <1>5. RequiresEdges(projects, needs, S) = RequiresEdges(projects, needs, T)
    <2>1. RequiresEdges(projects, needs, S) \subseteq RequiresEdges(projects, needs, T)
      BY <1>3
    <2>2. RequiresEdges(projects, needs, T) \subseteq RequiresEdges(projects, needs, S)
      BY <1>3, <1>4
    <2> QED
      BY <2>1, <2>2
  <1>6. \A name : MatchEnv(name, S) = {} <=> MatchEnv(name, T) = {}
    BY <1>3, <1>4
  <1>7. \A p : MatchXcode(p, S) = {} <=> MatchXcode(p, T) = {}
    BY <1>3, <1>4
  <1>8. Unverified(projects, needs, S) = Unverified(projects, needs, T)
    BY <1>6, <1>7 DEF Unverified
  <1> QED
    BY <1>5, <1>8

\* The analysis of any candidates, in its parts.
LEMMA AnalysisParts ==
    ASSUME NEW s,
           NEW projects, projects = Projects(s), NEW outputs, outputs = OutputReports(s),
           NEW reports, reports = ToolReports \union outputs,
           NEW needs, needs = DeclaredNeeds(projects, All(LAMBDA c : c.needs, s))
    PROVE  Analysis(s) = Joined(projects, Workspaces(s), outputs, reports, needs, All(LAMBDA c : c.issues, s),
                                Rows(reports, JoinedEdges(projects, outputs, reports, needs)))
  BY DEF Analysis, Joined, JoinedEdges, DeclaredNeeds

\* Two scans of the same candidates have one result where the reports are paired.
LEMMA AnalysisMatches ==
    ASSUME NEW s, NEW t, ToSet(s) = ToSet(t),
           NEW R, Pairing(R), Matches(Reports(s), Reports(t), R), Matches(ToolReports, ToolReports, R),
           EnvsDiffer(ToolReports \union OutputReports(s)),
           \A c \in ToSet(s) : \A need \in c.needs : need.type \in NeedTypes
    PROVE  Analysis(s) = Analysis(t)
  <1>1. /\ All(LAMBDA c : c.projects, s) = All(LAMBDA c : c.projects, t)
        /\ All(LAMBDA c : c.workspaces, s) = All(LAMBDA c : c.workspaces, t)
        /\ All(LAMBDA c : c.needs, s) = All(LAMBDA c : c.needs, t)
        /\ All(LAMBDA c : c.issues, s) = All(LAMBDA c : c.issues, t)
    <2>1. \A x : (\E i \in DOMAIN s : x = s[i]) <=> (\E i \in DOMAIN t : x = t[i])
      BY DEF ToSet
    <2>2. All(LAMBDA c : c.projects, s) = All(LAMBDA c : c.projects, t)
      BY <2>1 DEF All
    <2>3. All(LAMBDA c : c.workspaces, s) = All(LAMBDA c : c.workspaces, t)
      BY <2>1 DEF All
    <2>4. All(LAMBDA c : c.needs, s) = All(LAMBDA c : c.needs, t)
      BY <2>1 DEF All
    <2>5. All(LAMBDA c : c.issues, s) = All(LAMBDA c : c.issues, t)
      BY <2>1 DEF All
    <2> QED
      BY <2>2, <2>3, <2>4, <2>5
  <1>2. Workspaces(s) = Workspaces(t) /\ Projects(s) = Projects(t)
    BY <1>1 DEF Workspaces, Projects
  <1> DEFINE projects == Projects(s)
             O == OutputReports(s)
             P == OutputReports(t)
             S == ToolReports \union O
             T == ToolReports \union P
             needs == DeclaredNeeds(projects, All(LAMBDA c : c.needs, s))
  <1>3. Matches(O, P, R)
    BY <1>2, FilterMatches, DedupeMatches DEF OutputReports
  <1>4. Matches(S, T, R)
    BY <1>3 DEF Matches, Into
  <1>5. \A need \in needs : need.type \in NeedTypes
    BY DEF DeclaredNeeds, All, ToSet
  <1>6. /\ Analysis(s) = Joined(projects, Workspaces(s), O, S, needs, All(LAMBDA c : c.issues, s),
                                Rows(S, JoinedEdges(projects, O, S, needs)))
        /\ Analysis(t) = Joined(projects, Workspaces(s), P, T, needs, All(LAMBDA c : c.issues, s),
                                Rows(T, JoinedEdges(projects, P, T, needs)))
    BY <1>1, <1>2, AnalysisParts
  <1>7. EnvsDiffer(S)
    OBVIOUS
  <1> HIDE DEF projects, O, P, S, T, needs
  <1>8. JoinedEdges(projects, O, S, needs) = JoinedEdges(projects, P, T, needs)
    BY <1>3, <1>4, <1>5, <1>7, OwnsMatch, RequiresMatch DEF JoinedEdges
  <1>9. Rows(S, JoinedEdges(projects, O, S, needs)) = Rows(T, JoinedEdges(projects, P, T, needs))
    BY <1>4, <1>8, RowsMatch
  <1>10. Unverified(projects, needs, S) = Unverified(projects, needs, T)
    BY <1>4, <1>5, <1>7, RequiresMatch
  <1> QED
    BY <1>6, <1>8, <1>9, <1>10 DEF Joined

------------------------------------------------------------------------------
(* Where the directories are in the sequence of the candidates.              *)

\* s holds what is observed in the directories D, for each in one piece that begins
\* after at, and for those above before those below.
Laid(s, D, at) ==
    /\ at \in [D -> Nat]
    /\ \A d \in D : /\ at[d] + Len(Observed(d)) <= Len(s)
                    /\ \A k \in 1 .. Len(Observed(d)) : s[at[d] + k] = Observed(d)[k]
    /\ \A i \in 1 .. Len(s) : \E d \in D : \E k \in 1 .. Len(Observed(d)) : i = at[d] + k
    /\ \A d, e \in D : IsStrictPrefix(d, e) => at[d] + Len(Observed(d)) <= at[e]

\* What is observed in a directory is what its entries are observed to be.
LEMMA ObservedSequence ==
    ASSUME NEW dir
    PROVE  /\ Observed(dir) \in Seq(ToSet(Observed(dir))) /\ Len(Observed(dir)) \in Nat
           /\ \A c \in ToSet(Observed(dir)) : \E e \in ToSet(Visits(dir)) : c \in ToSet(Observe(e))
  <1> DEFINE v == Visits(dir)
             obs == [i \in DOMAIN v |-> Observe(v[i])]
             S == UNION {Detected(e) : e \in ToSet(v)}
  <1>1. v \in Seq(ToSet(v))
    BY VisitsElements
  <1>2. \A e \in ToSet(v) : Observe(e) \in Seq(S)
    <2> SUFFICES ASSUME NEW e \in ToSet(v)
                 PROVE  Observe(e) \in Seq(S)
      OBVIOUS
    <2>1. Observe(e) \in Seq(Detected(e)) /\ Detected(e) \subseteq S
      BY ObserveElements
    <2> HIDE DEF S
    <2> QED
      BY <2>1
  <1>3. Observed(dir) = FlattenSeq(obs)
    BY DEF Observed
  <1> HIDE DEF v, S
  <1>4. DOMAIN v = 1 .. Len(v) /\ Len(v) \in Nat /\ \A i \in DOMAIN v : v[i] \in ToSet(v)
    BY <1>1 DEF ToSet
  <1>5. obs \in Seq(Seq(S)) /\ DOMAIN obs = DOMAIN v /\ \A i \in DOMAIN v : obs[i] = Observe(v[i])
    <2>1. obs \in [1 .. Len(v) -> Seq(S)]
      BY <1>2, <1>4
    <2> QED
      BY <1>4, <2>1
  <1> HIDE DEF obs
  <1>6. Observed(dir) \in Seq(S)
    BY <1>3, <1>5, FlattenElements
  <1>7. \A c : c \in ToSet(Observed(dir)) <=> \E i \in DOMAIN obs : c \in ToSet(obs[i])
    BY <1>3, <1>5, FlattenElements
  <1>8. Observed(dir) \in Seq(ToSet(Observed(dir))) /\ Len(Observed(dir)) \in Nat
    BY <1>6, OwnElements
  <1> QED
    BY <1>4, <1>5, <1>7, <1>8 DEF v

\* A directory that is not above the others can be listed next.
LEMMA LaidNext ==
    ASSUME NEW S, NEW s \in Seq(S), NEW D, NEW at, Laid(s, D, at),
           NEW d, d \notin D, \A e \in D : ~IsStrictPrefix(d, e)
    PROVE  \E bt : Laid(s \o Observed(d), D \union {d}, bt)
  <1> DEFINE o == Observed(d)
             n == Len(s)
             m == Len(o)
             u == s \o o
             bt == [e \in D \union {d} |-> IF e = d THEN n ELSE at[e]]
             size(e) == Len(Observed(e))
  <1>1. o \in Seq(ToSet(o)) /\ m \in Nat /\ n \in Nat
    BY ObservedSequence
  <1>2. Len(u) = n + m /\ \A i \in 1 .. n + m : u[i] = IF i <= n THEN s[i] ELSE o[i - n]
    <2> DEFINE T == S \union ToSet(o)
    <2>1. s \in Seq(T) /\ o \in Seq(T)
      <3>1. ToSet(o) \subseteq T /\ S \subseteq T
        OBVIOUS
      <3> HIDE DEF T, o
      <3> QED
        BY <1>1, <3>1
    <2> HIDE DEF T, o
    <2> QED
      BY <2>1, ConcatProperties
  <1>3. \A e : size(e) \in Nat
    BY ObservedSequence
  <1>4. m = size(d) /\ o = Observed(d)
    OBVIOUS
  <1>5. bt \in [D \union {d} -> Nat] /\ bt[d] = n /\ \A e \in D : bt[e] = at[e] /\ at[e] \in Nat
    BY <1>1 DEF Laid
  <1>6. /\ \A e \in D : at[e] + size(e) <= n /\ \A k \in 1 .. size(e) : s[at[e] + k] = Observed(e)[k]
        /\ \A i \in 1 .. n : \E e \in D : \E k \in 1 .. size(e) : i = at[e] + k
        /\ \A e, f \in D : IsStrictPrefix(e, f) => at[e] + size(e) <= at[f]
    BY DEF Laid
  <1> HIDE DEF o, n, m, u, bt
  <1>7. ASSUME NEW e \in D \union {d}
        PROVE  /\ bt[e] + size(e) <= Len(u)
               /\ \A k \in 1 .. size(e) : u[bt[e] + k] = Observed(e)[k]
    <2>1. CASE e = d
      <3>1. ASSUME NEW k \in 1 .. m
            PROVE  u[n + k] = o[k]
        <4>1. PICK i \in 1 .. n + m : i = n + k /\ ~(i <= n) /\ i - n = k
          BY <1>1
        <4> QED
          BY <1>2, <4>1
      <3>2. n + m <= Len(u)
        BY <1>1, <1>2
      <3> QED
        BY <1>4, <1>5, <2>1, <3>1, <3>2
    <2>2. CASE e # d
      <3>1. e \in D
        BY <2>2
      <3>2. ASSUME NEW k \in 1 .. size(e)
            PROVE  u[at[e] + k] = Observed(e)[k]
        <4>1. at[e] \in Nat /\ size(e) \in Nat /\ at[e] + size(e) <= n
          BY <1>3, <1>5, <1>6, <3>1
        <4> HIDE DEF size
        <4>2. PICK i \in 1 .. n + m : i = at[e] + k /\ i <= n
          BY <1>1, <4>1
        <4>3. s[at[e] + k] = Observed(e)[k]
          BY <1>6, <3>1
        <4> QED
          BY <1>2, <4>2, <4>3
      <3>3. at[e] + size(e) <= Len(u)
        <4>1. at[e] \in Nat /\ size(e) \in Nat /\ at[e] + size(e) <= n
          BY <1>3, <1>5, <1>6, <3>1
        <4> HIDE DEF size
        <4> QED
          BY <1>1, <1>2, <4>1
      <3> QED
        BY <1>5, <3>1, <3>2, <3>3
    <2> QED
      BY <2>1, <2>2
  <1>8. ASSUME NEW i \in 1 .. Len(u)
        PROVE  \E e \in D \union {d} : \E k \in 1 .. size(e) : i = bt[e] + k
    <2>1. CASE i <= n
      <3>1. i \in 1 .. n
        BY <1>1, <1>2, <2>1
      <3> QED
        BY <1>5, <1>6, <3>1
    <2>2. CASE ~(i <= n)
      <3>1. PICK k \in 1 .. m : i = n + k
        <4>1. i - n \in 1 .. m /\ i = n + (i - n)
          BY <1>1, <1>2, <2>2
        <4> QED
          BY <4>1
      <3>2. k \in 1 .. size(d) /\ i = bt[d] + k
        BY <1>4, <1>5, <3>1
      <3> QED
        BY <3>2
    <2> QED
      BY <2>1, <2>2
  <1>9. ASSUME NEW e \in D \union {d}, NEW f \in D \union {d}, IsStrictPrefix(e, f)
        PROVE  bt[e] + size(e) <= bt[f]
    <2>1. e # f
      BY <1>9 DEF IsStrictPrefix
    <2>2. e \in D
      BY <1>9, <2>1
    <2>3. CASE f = d
      BY <1>5, <1>6, <2>2, <2>3
    <2>4. CASE f # d
      BY <1>5, <1>6, <1>9, <2>2, <2>4
    <2> QED
      BY <2>3, <2>4
  <1>10. Laid(u, D \union {d}, bt)
    BY <1>5, <1>7, <1>8, <1>9 DEF Laid
  <1> QED
    BY <1>10 DEF u, o

\* From root the walk comes to dir, and follows no link on its way.
Follows(root, dir) ==
    /\ Real(dir) \in disk.dirs /\ Within(Real(dir), Real(root))
    /\ dir = root \o Below(Real(dir), Real(root))

\* The walk that a task belongs to comes to its directory.
Led(task) ==
    /\ task.root \in options.roots /\ Traversable(task.root)
    /\ task.dir \in Paths /\ Leads(task.root, task.dir) /\ Follows(task.root, task.dir)

\* To a root the walk comes at once.
LEMMA RootIsLed ==
    ASSUME Tree, NEW root \in options.roots, Traversable(root)
    PROVE  Led([root |-> root, dir |-> root])
  <1>1. root \in Paths /\ root \in Seq(ToSet(Names)) /\ Len(root) \in Nat
    BY DEF Tree, Paths
  <1>2. Leads(root, root)
    <2> DEFINE k == Len(root)
    <2>1. k \in 0 .. k /\ Top(root, k) = root
      BY <1>1, Tops
    <2>2. (\A j \in k + 1 .. k : FALSE) /\ \A j \in k .. k - 1 : FALSE
      BY <1>1
    <2> QED
      BY <2>1, <2>2 DEF Leads
  <1>3. Follows(root, root)
    <2> DEFINE r == Real(root)
    <2>1. r \in Paths /\ r \in disk.dirs
      BY <1>1, RealChild DEF Tree, Traversable, IsDir
    <2> HIDE DEF r
    <2>2. r \in Seq(ToSet(Names)) /\ Len(r) \in Nat
      BY <2>1 DEF Paths
    <2>3. Within(r, r)
      BY <2>1, AboveSelf DEF Within
    <2>4. Below(r, r) = <<>>
      <3> DEFINE b == Below(r, r)
      <3>1. b \in Seq(ToSet(Names)) /\ Len(b) = 0
        BY <2>2 DEF Below
      <3> HIDE DEF b
      <3> QED
        BY <3>1 DEF b
    <2>5. root \o <<>> = root
      BY <1>1
    <2> QED
      BY <2>1, <2>3, <2>4, <2>5 DEF Follows, r
  <1> QED
    BY <1>1, <1>2, <1>3 DEF Led

\* A walk that comes to a directory comes to the directories in it.
LEMMA ChildIsLed ==
    ASSUME Tree, NEW task, Led(task), CanList(task.dir), NEW c \in ToSet(Visits(task.dir)), Kind(c) = "dir"
    PROVE  Led([root |-> task.root, dir |-> c])
  <1> DEFINE root == task.root
             dir == task.dir
  <1>1. PICK name \in Entries(dir) : c = Child(dir, name) /\ ~Excluded(c)
    BY VisitsElements
  <1>2. name \in ToSet(Names)
    BY DEF Entries
  <1>3. root \in Paths /\ dir \in Paths /\ root \in Seq(ToSet(Names)) /\ dir \in Seq(ToSet(Names))
    BY DEF Led, Tree, Paths
  <1>4. c \in Paths /\ c \in Seq(ToSet(Names)) /\ Len(dir) \in Nat /\ Len(c) = Len(dir) + 1 /\ c = Append(dir, name)
        /\ Parent(c) = dir /\ Last(c) = name
    BY <1>1, <1>2, <1>3, ChildShape DEF Child, Paths
  <1>5. Leads(root, c)
    <2>1. PICK k \in 0 .. Len(dir) :
              /\ root = Top(dir, k)
              /\ \A j \in k + 1 .. Len(dir) : ~Excluded(Top(dir, j)) /\ Kind(Top(dir, j)) = "dir"
              /\ \A j \in k .. Len(dir) - 1 : CanList(Top(dir, j))
      BY DEF Led, Leads
    <2> DEFINE m == Len(dir)
    <2>2. Top(c, m) = dir
      BY <1>4 DEF Parent, Front, Top
    <2>3. \A j \in 0 .. m : Top(dir, j) = Top(c, j)
      <3>1. m \in 0 .. Len(c)
        BY <1>4
      <3> HIDE DEF m
      <3>3. c \in Seq(ToSet(Names))
        BY <1>4
      <3>2. \A j \in 0 .. m : Top(Top(c, m), j) = Top(c, j)
        BY <3>1, <3>3, Tops
      <3> QED
        BY <2>2, <3>2
    <2>4. Top(c, m + 1) = c
      <3>1. m + 1 \in 0 .. Len(c) /\ m + 1 = Len(c)
        BY <1>4
      <3> QED
        BY <1>4, <3>1, Tops
    <2> HIDE DEF m
    <2>5. m = Len(dir) /\ m \in Nat /\ k \in 0 .. m /\ Len(c) = m + 1
      BY <1>4 DEF m
    <2>6. \A j \in k + 1 .. m + 1 : ~Excluded(Top(c, j)) /\ Kind(Top(c, j)) = "dir"
      <3> SUFFICES ASSUME NEW j \in k + 1 .. m + 1
                   PROVE  ~Excluded(Top(c, j)) /\ Kind(Top(c, j)) = "dir"
        OBVIOUS
      <3>1. CASE j = m + 1
        BY <1>1, <2>4, <3>1
      <3>2. CASE j # m + 1
        <4>1. j \in k + 1 .. m /\ j \in 0 .. m
          BY <2>5, <3>2
        <4> QED
          BY <2>1, <2>3, <2>5, <4>1
      <3> QED
        BY <3>1, <3>2
    <2>7. \A j \in k .. m : CanList(Top(c, j))
      <3> SUFFICES ASSUME NEW j \in k .. m
                   PROVE  CanList(Top(c, j))
        OBVIOUS
      <3>1. CASE j = m
        <4>1. Top(c, j) = task.dir
          BY <2>2, <3>1 DEF m
        <4> QED
          BY <4>1
      <3>2. CASE j # m
        <4>1. j \in k .. m - 1 /\ j \in 0 .. m
          BY <2>5, <3>2
        <4> QED
          BY <2>1, <2>3, <2>5, <4>1
      <3> QED
        BY <3>1, <3>2
    <2>8. root = Top(c, k) /\ k \in 0 .. Len(c) /\ Len(c) - 1 = m
      BY <2>1, <2>3, <2>5
    <2> QED
      BY <2>5, <2>6, <2>7, <2>8 DEF Leads
  <1>6. Follows(root, c)
    <2> DEFINE r == Real(root)
               d == Real(dir)
    <2>1. IsDir(c) /\ ~IsLink(c)
      BY DEF Kind
    <2>2. c # <<>>
      BY <1>4
    <2>3. Child(d, name) \notin DOMAIN disk.links
      BY <1>4, <2>1, <2>2 DEF IsLink
    <2>4. Real(c) = Child(d, name) /\ d \in Paths /\ r \in Paths
      BY <1>1, <1>3, <2>3, RealChild DEF Tree
    <2>5. Child(d, name) \in disk.dirs
      BY <2>1, <2>4 DEF IsDir
    <2>6. Within(d, r) /\ dir = root \o Below(d, r)
      BY DEF Led, Follows
    <2> HIDE DEF r, d
    <2>7. Within(Child(d, name), r)
      BY <1>2, <2>4, <2>6, AboveChild DEF Within, IsStrictPrefix
    <2>8. Below(Child(d, name), r) = Append(Below(d, r), name)
      <3>1. Len(r) \in Nat /\ Len(d) \in Nat /\ Len(r) <= Len(d) /\ d \in Seq(ToSet(Names))
        BY <2>4, <2>6 DEF Within, IsPrefix, Paths
      <3> DEFINE k == Len(r) + 1
                 u == Append(d, name)
      <3>4. k \in 1 .. Len(d) + 1
        BY <3>1
      <3>5. u \in Seq(ToSet(Names)) /\ Len(u) = Len(d) + 1
        BY <1>2, <3>1
      <3> HIDE DEF k
      <3>6. SubSeq(u, k, Len(u)) = Append(SubSeq(d, k, Len(d)), name)
        BY <1>2, <3>1, <3>4, <3>5
      <3>2. SubSeq(Append(d, name), Len(r) + 1, Len(d) + 1) = Append(SubSeq(d, Len(r) + 1, Len(d)), name)
        BY <3>5, <3>6 DEF k
      <3>3. Len(Append(d, name)) = Len(d) + 1
        BY <1>2, <3>1
      <3> QED
        BY <3>2, <3>3 DEF Below, Child
    <2>9. Below(d, r) \in Seq(ToSet(Names))
      BY <2>4 DEF Below, Paths
    <2>10. root \o Append(Below(d, r), name) = Append(root \o Below(d, r), name)
      <3> DEFINE b == Below(d, r)
      <3> HIDE DEF b
      <3>1. b \in Seq(ToSet(Names))
        BY <2>9 DEF b
      <3>3. root \o b \in Seq(ToSet(Names)) /\ <<name>> \in Seq(ToSet(Names))
        BY <1>2, <1>3, <3>1
      <3>4. Append(b, name) = b \o <<name>> /\ Append(root \o b, name) = (root \o b) \o <<name>>
        BY <1>2, <3>1, <3>3, AppendIsConcat
      <3> DEFINE e == <<name>>
      <3>5. e \in Seq(ToSet(Names)) /\ root \in Seq(ToSet(Names))
        BY <1>3, <3>3
      <3>6. Append(b, name) = b \o e /\ Append(root \o b, name) = (root \o b) \o e
        BY <3>4
      <3> HIDE DEF e, root
      <3>7. (root \o b) \o e = root \o (b \o e)
        BY <3>1, <3>5, ConcatAssociative
      <3>2. root \o Append(b, name) = Append(root \o b, name)
        BY <3>6, <3>7
      <3> QED
        BY <3>2 DEF b
    <2>11. c = root \o Below(Child(d, name), r)
      BY <1>4, <2>6, <2>8, <2>10
    <2> QED
      BY <2>4, <2>5, <2>7, <2>11 DEF Follows, r
  <1> QED
    BY <1>4, <1>5, <1>6 DEF Led

\* What a walk comes to and can list counts as listed.
LEMMA LedIsListed ==
    ASSUME Tree, NEW task, Led(task), CanList(task.dir)
    PROVE  task.dir \in Listed
  <1> DEFINE root == task.root
             dir == task.dir
             n == Len(dir)
  <1>1. PICK k \in 0 .. n : /\ root = Top(dir, k)
                            /\ \A j \in k + 1 .. n : ~Excluded(Top(dir, j)) /\ Kind(Top(dir, j)) = "dir"
                            /\ \A j \in k .. n - 1 : CanList(Top(dir, j))
    BY DEF Led, Leads
  <1>2. dir \in Seq(ToSet(Names)) /\ n \in Nat /\ dir \in Paths
    BY DEF Led, Paths
  <1>3. Len(root) = k /\ \A j \in 0 .. n : Len(Top(dir, j)) = j
    BY <1>1, <1>2, Tops
  <1>4. dir \in Reached(root)
    BY DEF Led, Follows, Reached
  <1>5. ASSUME NEW q \in Above(dir), IsStrictPrefix(root, q)
        PROVE  ~Excluded(q) /\ Kind(q) = "dir"
    <2>1. PICK j \in 0 .. n : q = Top(dir, j)
      BY DEF Above, Top
    <2>2. k <= j /\ j # k
      BY <1>1, <1>3, <1>5, <2>1 DEF IsStrictPrefix, IsPrefix
    <2>3. j \in k + 1 .. n
      BY <1>2, <2>2
    <2> QED
      BY <1>1, <2>1, <2>3
  <1>6. ASSUME NEW q \in Above(Parent(dir)), Within(q, root)
        PROVE  CanList(q)
    <2>1. CASE dir = <<>>
      <3> DEFINE p == Parent(<<>>)
      <3>1. p = <<>>
        BY DEF Parent, Front
      <3>2. PICK j \in 0 .. Len(p) : q = SubSeq(p, 1, j)
        BY <1>6, <2>1 DEF Above
      <3>3. q = <<>>
        BY <3>1, <3>2
      <3> QED
        BY <2>1, <3>3
    <2>2. CASE dir # <<>>
      <3>1. Parent(dir) = Top(dir, n - 1) /\ Len(Parent(dir)) = n - 1 /\ n # 0
        BY <1>2, <2>2, ParentIsPath DEF Parent, Front, Top
      <3>2. PICK j \in 0 .. n - 1 : q = Top(Top(dir, n - 1), j)
        BY <1>6, <3>1 DEF Above, Top
      <3>3. n - 1 \in 0 .. n /\ j \in 0 .. n
        BY <1>2, <3>1
      <3>4. q = Top(dir, j)
        BY <1>2, <3>2, <3>3, Tops
      <3>5. k <= j
        BY <1>3, <1>6, <3>3, <3>4 DEF Within, IsPrefix
      <3>6. j \in k .. n - 1
        BY <1>2, <3>3, <3>5
      <3> QED
        BY <1>1, <3>4, <3>6
    <2> QED
      BY <2>1, <2>2
  <1>7. root \in options.roots /\ Traversable(root)
    BY DEF Led
  <1> HIDE DEF root, dir
  <1>8. dir \in Walked
    BY <1>4, <1>5, <1>6, <1>7 DEF Walked
  <1> QED
    BY <1>8 DEF Listed, dir

\* The directories D have been listed, and to the others there is a task.
Progress(D, at) ==
    /\ D \subseteq Listed /\ IsFiniteSet(D) /\ Laid(found, D, at)
    /\ \A dir \in Listed : dir \in D \/ \E task \in pending : Leads(task.dir, dir)
    /\ \A task \in pending, d \in D : ~Within(d, task.dir)

\* One task for what is below a directory.
Separate == \A t, u \in pending : Within(t.dir, u.dir) => t = u

\* Every task is on its way, and what is listed has a place among the candidates.
LayInv ==
    /\ \A task \in pending : Led(task)
    /\ RootsAreApart => Separate /\ \E D, at : Progress(D, at)

\* The walk starts at roots that are apart.
LEMMA LayInitially == Init => LayInv
  <1> SUFFICES ASSUME Init
               PROVE  LayInv
    OBVIOUS
  <1>1. Tree
    BY WalkInitially DEF WalkInv
  <1>2. found = <<>>
    BY DEF Init
  <1>3. pending = {[root |-> root, dir |-> root] : root \in {r \in options.roots : Traversable(r)}}
    BY DEF Init
  <1>4. \A task \in pending : Led(task)
    BY <1>1, <1>3, RootIsLed
  <1>5. ASSUME RootsAreApart
        PROVE  Separate
    BY <1>3, <1>5 DEF RootsAreApart, Separate
  <1> DEFINE at == [d \in {} |-> 0]
  <1>6. Laid(found, {}, at)
    BY <1>2 DEF Laid
  <1>7. \A dir \in Listed : \E task \in pending : Leads(task.dir, dir)
    <2> SUFFICES ASSUME NEW dir \in Listed
                 PROVE  \E task \in pending : Leads(task.dir, dir)
      OBVIOUS
    <2>1. PICK root \in options.roots : Traversable(root) /\ Leads(root, dir)
      BY <1>1, RootsLead
    <2>2. [root |-> root, dir |-> root] \in pending
      BY <1>3, <2>1
    <2> QED
      BY <2>1, <2>2
  <1>8. Progress({}, at)
    BY <1>6, <1>7, FS_EmptySet DEF Progress
  <1> QED
    BY <1>4, <1>5, <1>8 DEF LayInv

\* What the walk says of the directories stays.
LEMMA LayStays ==
    ASSUME disk' = disk, options' = options
    PROVE  /\ Listed' = Listed /\ \A d : Observed(d)' = Observed(d)
           /\ \A task : Led(task)' <=> Led(task)
           /\ \A a, d : Leads(a, d)' <=> Leads(a, d)
           /\ RootsAreApart' <=> RootsAreApart
  <1>1. Listed' = Listed /\ (\A dir : Visits(dir)' = Visits(dir)) /\ (\A a, d : Leads(a, d)' <=> Leads(a, d))
    BY WalkStays
  <1>2. \A entry : Observe(entry)' = Observe(entry)
    BY ObservationStays
  <1>3. \A d : Observed(d)' = Observed(d)
    BY <1>1, <1>2 DEF Observed
  <1>4. \A p : Real(p)' = Real(p) /\ IsDir(p)' = IsDir(p) /\ IsLink(p)' = IsLink(p)
    BY FileTreeStays
  <1>5. \A p : Excluded(p)' = Excluded(p)
    BY DEF Excluded, Below
  <1>6. \A p : Traversable(p)' = Traversable(p)
    BY <1>4, <1>5 DEF Traversable
  <1>7. \A root, dir : Follows(root, dir)' <=> Follows(root, dir)
    BY <1>4 DEF Follows, Below
  <1>8. \A task : Led(task)' <=> Led(task)
    BY <1>1, <1>6, <1>7 DEF Led
  <1>9. RootsAreApart' <=> RootsAreApart
    BY DEF RootsAreApart
  <1> QED
    BY <1>1, <1>3, <1>8, <1>9

\* Directories in a directory that is within none of the others.
LEMMA ChildrenApart ==
    ASSUME NEW dir \in Paths, NEW m \in ToSet(Names), NEW n \in ToSet(Names), NEW p \in Paths
    PROVE  /\ Within(p, Child(dir, m)) => Within(p, dir)
           /\ ~Within(dir, Child(dir, m))
           /\ Within(Child(dir, m), p) => p = Child(dir, m) \/ Within(dir, p)
           /\ Within(Child(dir, m), Child(dir, n)) => Child(dir, m) = Child(dir, n)
  <1> DEFINE c == Child(dir, m)
             d == Child(dir, n)
  <1>1. /\ c \in Paths /\ d \in Paths /\ IsPrefix(dir, c) /\ IsPrefix(dir, d)
        /\ Len(c) = Len(dir) + 1 /\ Len(d) = Len(dir) + 1 /\ Len(dir) \in Nat
    BY AboveSelf, AboveChild, ChildShape DEF IsStrictPrefix, Paths
  <1> HIDE DEF c, d
  <1>2. Within(p, c) => Within(p, dir)
    BY <1>1, PrefixOfPrefix DEF Within
  <1>3. ~Within(dir, c)
    BY <1>1 DEF Within, IsPrefix
  <1>4. ASSUME Within(c, p)
        PROVE  p = c \/ Within(dir, p)
    <2>1. p = dir \/ IsStrictPrefix(p, dir) \/ IsStrictPrefix(dir, p)
      BY <1>1, <1>4, Comparable DEF Within
    <2>2. CASE p = dir
      BY <2>2, AboveSelf DEF Within
    <2>3. CASE IsStrictPrefix(p, dir)
      BY <2>3 DEF Within, IsStrictPrefix
    <2>4. CASE IsStrictPrefix(dir, p)
      <3>1. Len(dir) <= Len(p) /\ Len(p) <= Len(c) /\ Len(p) \in Nat /\ p # dir /\ SubSeq(dir, 1, Len(dir)) = SubSeq(p, 1, Len(dir))
        BY <1>4, <2>4 DEF IsStrictPrefix, Within, IsPrefix, Paths
      <3>2. CASE Len(p) = Len(c)
        <4>1. IsPrefix(c, p)
          BY <1>4, <3>2 DEF Within, IsPrefix
        <4> QED
          BY <1>1, <1>4, <4>1, PrefixOfPrefix DEF Within
      <3>3. CASE Len(p) = Len(dir)
        <4>1. IsPrefix(p, dir)
          BY <3>1, <3>3 DEF IsPrefix
        <4> QED
          BY <4>1 DEF Within
      <3> QED
        BY <1>1, <3>1, <3>2, <3>3
    <2> QED
      BY <2>1, <2>2, <2>3, <2>4
  <1>5. ASSUME Within(c, d)
        PROVE  c = d
    <2>1. IsPrefix(c, d)
      BY <1>1, <1>5 DEF Within, IsPrefix
    <2> QED
      BY <1>1, <1>5, <2>1, PrefixOfPrefix DEF Within
  <1> QED
    BY <1>2, <1>3, <1>4, <1>5 DEF c, d

\* Every step keeps what has been listed in its place, and lists one directory more.
LEMMA LayStep == WalkInv /\ LayInv /\ [Next]_vars => LayInv'
  <1> SUFFICES ASSUME WalkInv, LayInv, [Next]_vars
               PROVE  LayInv'
    OBVIOUS
  <1>1. disk' = disk /\ options' = options
    BY DEF Next, ScanDirectory, Analyze, vars
  <1>2. /\ Listed' = Listed /\ \A d : Observed(d)' = Observed(d)
        /\ \A task : Led(task)' <=> Led(task)
        /\ \A a, d : Leads(a, d)' <=> Leads(a, d)
        /\ RootsAreApart' <=> RootsAreApart
    BY <1>1, LayStays
  <1>3. Tree /\ Known /\ \A task \in pending : Led(task) /\ task.dir \in Paths
    BY DEF WalkInv, LayInv
  <1>4. \A s, D, at : Laid(s, D, at)' <=> Laid(s, D, at)
    BY <1>2 DEF Laid
  <1>5. \A D, at : Progress(D, at)' <=>
            /\ D \subseteq Listed /\ IsFiniteSet(D) /\ Laid(found', D, at)
            /\ \A dir \in Listed : dir \in D \/ \E task \in pending' : Leads(task.dir, dir)
            /\ \A task \in pending', d \in D : ~Within(d, task.dir)
    BY <1>2 DEF Progress, Laid
  <1>6. CASE ScanDirectory
    <2>1. PICK task \in pending :
            LET visits == Visits(task.dir)
                below  == {path \in ToSet(visits) : Kind(path) = "dir"}
            IN  IF CanList(task.dir)
                THEN /\ pending' = (pending \ {task}) \union {[root |-> task.root, dir |-> dir] : dir \in below}
                     /\ found' = found \o FlattenSeq([i \in DOMAIN visits |-> Observe(visits[i])])
                     /\ UNCHANGED refused
                ELSE /\ pending' = pending \ {task}
                     /\ refused' = refused \union {task.dir}
                     /\ UNCHANGED found
      BY <1>6 DEF ScanDirectory
    <2> DEFINE at == task.dir
    <2>2. at \in Paths /\ Led(task)
      BY <1>3
    <2>3. \A dir \in Listed : dir \in Paths /\ CanList(dir)
      BY <1>3, RootsLead
    <2>4. CASE CanList(task.dir)
      <3> DEFINE visits == Visits(at)
                 below == {path \in ToSet(visits) : Kind(path) = "dir"}
                 more == {[root |-> task.root, dir |-> dir] : dir \in below}
      <3>1. pending' = (pending \ {task}) \union more /\ found' = found \o Observed(at)
        BY <2>1, <2>4 DEF Observed
      <3>2. \A c \in below : c \in ToSet(visits) /\ Kind(c) = "dir" /\ \E n \in ToSet(Names) : c = Child(at, n)
        BY VisitsElements DEF Entries
      <3>3. \A c \in below : Led([root |-> task.root, dir |-> c])
        BY <1>3, <2>2, <2>4, <3>2, ChildIsLed
      <3>4. \A t \in pending' : Led(t)'
        BY <1>2, <1>3, <3>1, <3>3
      <3> HIDE DEF visits
      <3>5. ASSUME RootsAreApart
            PROVE  Separate' /\ \E D, place : Progress(D, place)'
        <4>1. Separate
          BY <3>5 DEF LayInv
        <4>2. PICK D, place : Progress(D, place)
          BY <3>5 DEF LayInv
        <4>3. at \in Listed /\ at \notin D
          <5>1. at \in Listed
            BY <1>3, <2>2, <2>4, LedIsListed
          <5>2. Within(at, at)
            BY <2>2, AboveSelf DEF Within
          <5> QED
            BY <4>2, <5>1, <5>2 DEF Progress
        <4>4. \A e \in D : e \in Paths /\ ~Within(e, at)
          BY <2>3, <4>2 DEF Progress
        <4>5. PICK next : Laid(found', D \union {at}, next)
          <5>1. \A e \in D : ~IsStrictPrefix(at, e)
            BY <4>4 DEF Within, IsStrictPrefix
          <5>2. Laid(found, D, place) /\ found \in Seq(ToSet(found))
            BY <1>3, <4>2 DEF Progress, Known
          <5> HIDE DEF at
          <5>3. \E next : Laid(found \o Observed(at), D \union {at}, next)
            BY <4>3, <5>1, <5>2, LaidNext
          <5> QED
            BY <3>1, <5>3
        <4>6. IsFiniteSet(D \union {at})
          BY <4>2, FS_AddElement DEF Progress
        <4>7. ASSUME NEW dir \in Listed, dir \notin D \union {at}
              PROVE  \E t \in pending' : Leads(t.dir, dir)
          <5>1. PICK t \in pending : Leads(t.dir, dir)
            BY <4>2, <4>7 DEF Progress
          <5>2. CASE t # task
            BY <3>1, <5>1, <5>2
          <5>3. CASE t = task
            <6>1. PICK c \in ToSet(visits) : Kind(c) = "dir" /\ Leads(c, dir)
              BY <1>3, <2>3, <4>7, <5>1, <5>3, NextOnTheWay DEF Tree, visits
            <6>2. [root |-> task.root, dir |-> c] \in pending'
              BY <3>1, <6>1
            <6> QED
              BY <6>1, <6>2
          <5> QED
            BY <5>2, <5>3
        <4>8. ASSUME NEW t \in pending'
              PROVE  \/ t \in pending /\ t # task
                     \/ \E c \in below : t = [root |-> task.root, dir |-> c] /\ t.dir = c
          BY <3>1
        <4>9. ASSUME NEW t \in pending', NEW e \in D \union {at}
              PROVE  ~Within(e, t.dir)
          <5>1. CASE t \in pending /\ t # task
            BY <4>1, <4>2, <5>1 DEF Separate, Progress
          <5>2. ASSUME NEW c \in below, t.dir = c
                PROVE  ~Within(e, t.dir)
            BY <2>2, <3>2, <4>4, <5>2, ChildrenApart
          <5> QED
            BY <4>8, <5>1, <5>2
        <4>10. ASSUME NEW t \in pending', NEW u \in pending', Within(t.dir, u.dir)
               PROVE  t = u
          <5>1. CASE t \in pending /\ t # task /\ u \in pending /\ u # task
            BY <4>1, <4>10, <5>1 DEF Separate
          <5>2. ASSUME NEW c \in below, t = [root |-> task.root, dir |-> c], t.dir = c, u \in pending, u # task
                PROVE  FALSE
            <6>1. u.dir \in Paths /\ ~Within(u.dir, at) /\ ~Within(at, u.dir)
              BY <1>3, <4>1, <5>2 DEF Separate
            <6>2. PICK n \in ToSet(Names) : c = Child(at, n)
              BY <3>2
            <6>3. u.dir = c \/ Within(at, u.dir)
              BY <2>2, <4>10, <5>2, <6>1, <6>2, ChildrenApart
            <6>4. Within(c, at)
              BY <2>2, <6>2, AboveSelf, AboveChild DEF Within, IsStrictPrefix
            <6> QED
              BY <6>1, <6>3, <6>4
          <5>3. ASSUME NEW c \in below, u = [root |-> task.root, dir |-> c], u.dir = c, t \in pending, t # task
                PROVE  FALSE
            <6>1. t.dir \in Paths /\ ~Within(t.dir, at)
              BY <1>3, <4>1, <5>3 DEF Separate
            <6> QED
              BY <2>2, <3>2, <4>10, <5>3, <6>1, ChildrenApart
          <5>4. ASSUME NEW c \in below, NEW b \in below, t = [root |-> task.root, dir |-> c], t.dir = c,
                       u = [root |-> task.root, dir |-> b], u.dir = b
                PROVE  t = u
            <6>1. PICK n \in ToSet(Names), m \in ToSet(Names) : c = Child(at, n) /\ b = Child(at, m)
              BY <3>2
            <6>2. Within(Child(at, n), Child(at, m))
              BY <4>10, <5>4, <6>1
            <6> QED
              BY <2>2, <5>4, <6>1, <6>2, ChildrenApart
          <5> QED
            BY <4>8, <5>1, <5>2, <5>3, <5>4
        <4>11. Progress(D \union {at}, next)'
          <5>1. D \union {at} \subseteq Listed
            BY <4>2, <4>3 DEF Progress
          <5> HIDE DEF at
          <5> QED
            BY <1>5, <4>5, <4>6, <4>7, <4>9, <5>1
        <4> QED
          BY <4>10, <4>11 DEF Separate
      <3> QED
        BY <1>2, <3>4, <3>5 DEF LayInv
    <2>5. CASE ~CanList(task.dir)
      <3>1. pending' = pending \ {task} /\ found' = found
        BY <2>1, <2>5
      <3>2. \A t \in pending' : Led(t)'
        BY <1>2, <1>3, <3>1
      <3>3. ASSUME RootsAreApart
            PROVE  Separate' /\ \E D, place : Progress(D, place)'
        <4>1. Separate
          BY <3>3 DEF LayInv
        <4>2. PICK D, place : Progress(D, place)
          BY <3>3 DEF LayInv
        <4>3. ASSUME NEW dir \in Listed, dir \notin D
              PROVE  \E t \in pending' : Leads(t.dir, dir)
          <5>1. PICK t \in pending : Leads(t.dir, dir)
            BY <4>2, <4>3 DEF Progress
          <5>2. t # task
            BY <1>3, <2>3, <2>5, <5>1, NextOnTheWay DEF Tree
          <5> QED
            BY <3>1, <5>1, <5>2
        <4>4. Progress(D, place)'
          BY <1>5, <3>1, <4>2, <4>3 DEF Progress
        <4> QED
          BY <3>1, <4>1, <4>4 DEF Separate
      <3> QED
        BY <1>2, <3>2, <3>3 DEF LayInv
    <2> QED
      BY <2>4, <2>5
  <1>7. ASSUME found' = found, pending' = pending
        PROVE  LayInv'
    <2>1. \A t \in pending' : Led(t)'
      BY <1>2, <1>3, <1>7
    <2>2. \A D, place : Progress(D, place) => Progress(D, place)'
      BY <1>5, <1>7 DEF Progress
    <2>3. Separate' <=> Separate
      BY <1>7 DEF Separate
    <2> QED
      BY <1>2, <2>1, <2>2, <2>3 DEF LayInv
  <1>8. CASE Analyze
    BY <1>7, <1>8 DEF Analyze
  <1>9. CASE UNCHANGED vars
    BY <1>7, <1>9 DEF vars
  <1> QED
    BY <1>6, <1>8, <1>9 DEF Next

------------------------------------------------------------------------------
(* The order of the serial walk.                                             *)

\* Each name has its place in a listing.
LEMMA Positions ==
    /\ \A n \in ToSet(Names) : Position(n) \in Nat
    /\ \A m, n \in ToSet(Names) : Position(m) = Position(n) => m = n
  <1>1. \A n \in ToSet(Names) : Position(n) \in DOMAIN Names /\ Names[Position(n)] = n
    <2> SUFFICES ASSUME NEW n \in ToSet(Names)
                 PROVE  Position(n) \in DOMAIN Names /\ Names[Position(n)] = n
      OBVIOUS
    <2>1. \E i \in DOMAIN Names : Names[i] = n
      BY DEF ToSet
    <2> QED
      BY <2>1 DEF Position
  <1>2. DOMAIN Names \subseteq Nat
    BY FileTreeAssumption
  <1> QED
    BY <1>1, <1>2

\* a and b are the same before place i, where a has the first name.
Less(a, b, i) == Position(a[i]) < Position(b[i]) /\ \A j \in 1 .. i - 1 : a[j] = b[j]

\* What comes before what, by the parts of Before.
LEMMA BeforeParts ==
    ASSUME NEW a \in Paths, NEW b \in Paths
    PROVE  /\ Len(a) \in Nat /\ Len(b) \in Nat
           /\ \A i \in 1 .. Len(a) : a[i] \in ToSet(Names) /\ Position(a[i]) \in Nat
           /\ Before(a, b) <=> \/ Len(a) < Len(b)
                               \/ Len(a) = Len(b) /\ \E i \in 1 .. Len(a) : Less(a, b, i)
  <1>1. a \in Seq(ToSet(Names)) /\ b \in Seq(ToSet(Names))
    BY DEF Paths
  <1>2. DOMAIN a = 1 .. Len(a) /\ Len(a) \in Nat /\ Len(b) \in Nat
    BY <1>1
  <1>3. \A i \in 1 .. Len(a) : a[i] \in ToSet(Names)
    BY <1>1
  <1>4. \A i \in 1 .. Len(a) : Position(a[i]) \in Nat
    BY <1>3, Positions
  <1>5. Before(a, b) <=> \/ Len(a) < Len(b)
                         \/ Len(a) = Len(b) /\ \E i \in 1 .. Len(a) : Less(a, b, i)
    BY <1>2, Zenon DEF Before, Less
  <1> QED
    BY <1>2, <1>3, <1>4, <1>5

\* No directory comes before itself.
LEMMA BeforeIsStrict ==
    ASSUME NEW a \in Paths
    PROVE  ~Before(a, a)
  BY BeforeParts DEF Less

\* What comes before a directory comes before those after it.
LEMMA BeforeIsTransitive ==
    ASSUME NEW a \in Paths, NEW b \in Paths, NEW c \in Paths, Before(a, b), Before(b, c)
    PROVE  Before(a, c)
  <1>1. Len(a) \in Nat /\ Len(b) \in Nat /\ Len(c) \in Nat
    BY BeforeParts
  <1>2. CASE Len(a) < Len(b) \/ Len(b) < Len(c)
    <2>1. Len(a) <= Len(b) /\ Len(b) <= Len(c)
      BY <1>1, BeforeParts
    <2>2. Len(a) < Len(c)
      BY <1>1, <1>2, <2>1
    <2> QED
      BY <2>2, BeforeParts
  <1>3. CASE ~(Len(a) < Len(b) \/ Len(b) < Len(c))
    <2>1. Len(a) = Len(b) /\ Len(b) = Len(c)
      BY <1>3, BeforeParts
    <2>2. PICK i \in 1 .. Len(a) : Less(a, b, i)
      BY <1>3, BeforeParts
    <2>3. PICK k \in 1 .. Len(a) : Less(b, c, k)
      BY <1>3, <2>1, BeforeParts
    <2>4. \A j \in 1 .. Len(a) : Position(a[j]) \in Nat /\ Position(b[j]) \in Nat /\ Position(c[j]) \in Nat
      BY <2>1, BeforeParts
    <2>5. ASSUME i < k
          PROVE  Less(a, c, i)
      <3>1. b[i] = c[i] /\ \A j \in 1 .. i - 1 : b[j] = c[j]
        BY <2>3, <2>5 DEF Less
      <3> QED
        BY <2>2, <3>1 DEF Less
    <2>6. ASSUME k < i
          PROVE  Less(a, c, k)
      <3>1. a[k] = b[k] /\ \A j \in 1 .. k - 1 : a[j] = b[j]
        BY <2>2, <2>6 DEF Less
      <3> QED
        BY <2>3, <3>1 DEF Less
    <2>7. ASSUME i = k
          PROVE  Less(a, c, i)
      <3>1. Position(a[i]) < Position(b[i]) /\ Position(b[i]) < Position(c[i])
        BY <2>2, <2>3, <2>7 DEF Less
      <3>2. Position(a[i]) < Position(c[i])
        BY <2>4, <3>1
      <3>3. \A j \in 1 .. i - 1 : a[j] = c[j]
        BY <2>2, <2>3, <2>7 DEF Less
      <3> QED
        BY <3>2, <3>3 DEF Less
    <2>8. \E m \in 1 .. Len(a) : Less(a, c, m)
      BY <2>5, <2>6, <2>7
    <2> QED
      BY <2>1, <2>8, BeforeParts
  <1> QED
    BY <1>2, <1>3

\* Of two directories one comes before the other.
LEMMA BeforeIsTotal ==
    ASSUME NEW a \in Paths, NEW b \in Paths, a # b
    PROVE  Before(a, b) \/ Before(b, a)
  <1>1. Len(a) \in Nat /\ Len(b) \in Nat
    BY BeforeParts
  <1>2. CASE Len(a) # Len(b)
    <2>1. Len(a) < Len(b) \/ Len(b) < Len(a)
      BY <1>1, <1>2
    <2> QED
      BY <2>1, BeforeParts
  <1>3. CASE Len(a) = Len(b)
    <2> DEFINE T == {i \in 1 .. Len(a) : a[i] # b[i]}
    <2>1. T # {}
      BY <1>3, SeqEqual DEF Paths
    <2>2. T \in SUBSET Nat
      BY <1>1
    <2>3. PICK i \in T : \A j \in T : i <= j
      BY <2>1, <2>2, LeastNatural
    <2>4. \A j \in 1 .. i - 1 : a[j] = b[j]
      <3> SUFFICES ASSUME NEW j \in 1 .. i - 1, a[j] # b[j]
                   PROVE  FALSE
        OBVIOUS
      <3>1. j \in T /\ j < i
        BY <1>1
      <3> QED
        BY <2>3, <3>1
    <2>5. i \in 1 .. Len(a) /\ i \in 1 .. Len(b) /\ a[i] # b[i]
      BY <1>3
    <2>6. Position(a[i]) < Position(b[i]) \/ Position(b[i]) < Position(a[i])
      <3>1. a[i] \in ToSet(Names) /\ b[i] \in ToSet(Names)
        BY <2>5, BeforeParts
      <3>2. Position(a[i]) # Position(b[i]) /\ Position(a[i]) \in Nat /\ Position(b[i]) \in Nat
        BY <2>5, <3>1, Positions
      <3> QED
        BY <3>2
    <2>7. Less(a, b, i) \/ Less(b, a, i)
      BY <2>4, <2>6 DEF Less
    <2> QED
      BY <1>3, <2>5, <2>7, BeforeParts
  <1> QED
    BY <1>2, <1>3

\* What is above comes before.
LEMMA AboveIsBefore ==
    ASSUME NEW a \in Paths, NEW b \in Paths, IsStrictPrefix(a, b)
    PROVE  Before(a, b)
  <1>1. Len(a) <= Len(b) /\ Len(a) \in Nat /\ Len(b) \in Nat
    BY BeforeParts DEF IsStrictPrefix, IsPrefix
  <1>2. Len(a) # Len(b)
    <2> SUFFICES ASSUME Len(a) = Len(b)
                 PROVE  FALSE
      OBVIOUS
    <2>1. IsPrefix(b, a)
      BY DEF IsStrictPrefix, IsPrefix
    <2> QED
      BY <2>1, PrefixOfPrefix DEF IsStrictPrefix
  <1> QED
    BY <1>1, <1>2, BeforeParts

\* The number of directories that do not come after dir.
Place(dir) == Cardinality({other \in Listed : other = dir \/ Before(other, dir)})

\* Each directory has a place of its own, and each place a directory.
LEMMA Places ==
    ASSUME Listed \subseteq Paths, IsFiniteSet(Listed)
    PROVE  /\ Cardinality(Listed) \in Nat
           /\ \A d \in Listed : Place(d) \in 1 .. Cardinality(Listed)
           /\ \A d, e \in Listed : Before(d, e) => Place(d) < Place(e)
           /\ \A i \in 1 .. Cardinality(Listed) : \E d \in Listed : Place(d) = i
  <1> DEFINE L == Listed
             n == Cardinality(L)
             pre(d) == {other \in L : other = d \/ Before(other, d)}
             f == [d \in L |-> Place(d)]
  <1>1. n \in Nat
    BY FS_CardinalityType
  <1>2. \A d : Place(d) = Cardinality(pre(d))
    BY DEF Place
  <1>3. \A d : pre(d) \in SUBSET L
    OBVIOUS
  <1>4. \A d : IsFiniteSet(pre(d)) /\ Cardinality(pre(d)) \in Nat /\ Cardinality(pre(d)) <= n
    BY <1>3, FS_Subset, FS_CardinalityType
  <1>5. ASSUME NEW d \in L
        PROVE  Place(d) \in 1 .. n
    <2>1. d \in pre(d)
      OBVIOUS
    <2>2. Cardinality(pre(d)) # 0
      <3> DEFINE S == pre(d)
      <3>1. IsFiniteSet(S) /\ S # {}
        BY <1>4, <2>1
      <3> HIDE DEF S
      <3>2. Cardinality(S) # 0
        BY <3>1, FS_EmptySet
      <3> QED
        BY <3>2 DEF S
    <2> HIDE DEF pre, n
    <2> QED
      BY <1>1, <1>2, <1>4, <2>2
  <1>6. ASSUME NEW d \in L, NEW e \in L, Before(d, e)
        PROVE  Place(d) < Place(e)
    <2>1. pre(d) \in SUBSET pre(e)
      BY <1>6, BeforeIsTransitive
    <2>2. e \in pre(e) /\ e \notin pre(d)
      BY <1>6, BeforeIsTransitive, BeforeIsStrict
    <2> HIDE DEF pre
    <2>3. Cardinality(pre(d)) <= Cardinality(pre(e)) /\ Cardinality(pre(d)) # Cardinality(pre(e))
      BY <1>4, <2>1, <2>2, FS_Subset
    <2> QED
      BY <1>2, <1>4, <2>3
  <1>7. f \in Injection(L, 1 .. n)
    <2>1. f \in [L -> 1 .. n]
      BY <1>5
    <2>2. ASSUME NEW d \in L, NEW e \in L, d # e
          PROVE  f[d] # f[e]
      <3>1. Before(d, e) \/ Before(e, d)
        BY <2>2, BeforeIsTotal
      <3>2. Place(d) \in Nat /\ Place(e) \in Nat /\ (Place(d) < Place(e) \/ Place(e) < Place(d))
        BY <1>1, <1>5, <1>6, <3>1
      <3> QED
        BY <3>2
    <2> HIDE DEF f
    <2>3. IsInjective(f)
      BY <2>1, <2>2 DEF IsInjective
    <2> QED
      BY <2>1, <2>3 DEF Injection
  <1>8. IsFiniteSet(1 .. n) /\ Cardinality(1 .. n) = n
    <2>1. 1 \in Int /\ n \in Int /\ (IF 1 > n THEN 0 ELSE n - 1 + 1) = n
      BY <1>1
    <2> HIDE DEF n
    <2> QED
      BY <2>1, FS_Interval
  <1>9. f \in Surjection(L, 1 .. n)
    <2> HIDE DEF f
    <2> QED
      BY <1>7, <1>8, FS_Injection
  <1>10. \A i \in 1 .. n : \E d \in L : f[d] = i
    <2> HIDE DEF f
    <2> QED
      BY <1>9 DEF Surjection
  <1> QED
    BY <1>1, <1>5, <1>6, <1>10

\* The serial order lists each directory once, and none after one below it.
LEMMA SerialPlaces ==
    ASSUME Listed \subseteq Paths, IsFiniteSet(Listed)
    PROVE  LET n == Cardinality(Listed)
           IN  /\ n \in Nat /\ DOMAIN SerialOrder = 1 .. n /\ Len(SerialOrder) = n
               /\ \A i \in 1 .. n : SerialOrder[i] \in Listed
               /\ \A d \in Listed : \E i \in 1 .. n : SerialOrder[i] = d
               /\ \A i, j \in 1 .. n : i < j => SerialOrder[i] # SerialOrder[j]
                                                /\ ~IsStrictPrefix(SerialOrder[j], SerialOrder[i])
  <1> DEFINE n == Cardinality(Listed)
  <1>1. n \in Nat
    BY Places
  <1>2. SerialOrder = [i \in 1 .. n |-> CHOOSE dir \in Listed : Place(dir) = i]
    BY DEF SerialOrder, Place
  <1>3. ASSUME NEW i \in 1 .. n
        PROVE  SerialOrder[i] \in Listed /\ Place(SerialOrder[i]) = i
    <2>1. \E d \in Listed : Place(d) = i
      BY Places
    <2> QED
      BY <1>2, <2>1
  <1>4. ASSUME NEW d \in Listed
        PROVE  \E i \in 1 .. n : SerialOrder[i] = d
    <2>1. Place(d) \in 1 .. n
      BY Places
    <2> DEFINE e == SerialOrder[Place(d)]
    <2>2. e \in Listed /\ Place(e) = Place(d)
      BY <1>3, <2>1
    <2> HIDE DEF e
    <2>3. e = d
      <3> SUFFICES ASSUME e # d
                   PROVE  FALSE
        OBVIOUS
      <3>1. Before(d, e) \/ Before(e, d)
        BY <2>2, BeforeIsTotal
      <3>2. Place(d) < Place(e) \/ Place(e) < Place(d)
        BY <2>2, <3>1, Places
      <3>3. Place(d) \in Nat
        BY <1>1, <2>1
      <3> QED
        BY <2>2, <3>2, <3>3
    <2> QED
      BY <2>1, <2>3 DEF e
  <1>5. ASSUME NEW i \in 1 .. n, NEW j \in 1 .. n, i < j
        PROVE  SerialOrder[i] # SerialOrder[j] /\ ~IsStrictPrefix(SerialOrder[j], SerialOrder[i])
    <2> DEFINE a == SerialOrder[i]
               b == SerialOrder[j]
    <2>1. a \in Listed /\ b \in Listed /\ Place(a) = i /\ Place(b) = j
      BY <1>3
    <2> HIDE DEF a, b
    <2>2. a # b
      BY <1>1, <1>5, <2>1
    <2>3. IsStrictPrefix(b, a) => Place(b) < Place(a)
      BY <2>1, AboveIsBefore, Places
    <2>4. ~IsStrictPrefix(b, a)
      BY <1>1, <1>5, <2>1, <2>3
    <2> QED
      BY <2>2, <2>4 DEF a, b
  <1>6. DOMAIN SerialOrder = 1 .. n /\ Len(SerialOrder) = n
    <2>1. DOMAIN SerialOrder = 1 .. n
      BY <1>2
    <2>2. SerialOrder \in Seq(Listed)
      BY <1>1, <1>2, <1>3, <2>1
    <2> QED
      BY <1>1, <2>1, <2>2
  <1> QED
    BY <1>1, <1>3, <1>4, <1>5, <1>6

\* The serial walk lays out the directories.
LEMMA SerialIsLaid ==
    ASSUME Listed \subseteq Paths, IsFiniteSet(Listed)
    PROVE  SerialWalk \in Seq(ToSet(SerialWalk)) /\ \E at : Laid(SerialWalk, Listed, at)
  <1> DEFINE n == Cardinality(Listed)
             o == SerialOrder
             s == [i \in DOMAIN o |-> Observed(o[i])]
             U == UNION {ToSet(Observed(d)) : d \in Listed}
             First(k) == {o[i] : i \in 1 .. k}
             join == CHOOSE f : Joins(f, s, n)
             Holds(k) == join[k] \in Seq(U) /\ \E at : Laid(join[k], First(k), at)
  <1>1. /\ n \in Nat /\ DOMAIN o = 1 .. n
        /\ \A i \in 1 .. n : o[i] \in Listed
        /\ \A d \in Listed : \E i \in 1 .. n : o[i] = d
        /\ \A i, j \in 1 .. n : i < j => o[i] # o[j] /\ ~IsStrictPrefix(o[j], o[i])
    BY SerialPlaces
  <1>2. SerialWalk = FlattenSeq(s)
    BY DEF SerialWalk
  <1>3. \A d \in Listed : Observed(d) \in Seq(U)
    <2> SUFFICES ASSUME NEW d \in Listed
                 PROVE  Observed(d) \in Seq(U)
      OBVIOUS
    <2>1. Observed(d) \in Seq(ToSet(Observed(d))) /\ ToSet(Observed(d)) \subseteq U
      BY ObservedSequence
    <2> HIDE DEF U
    <2> QED
      BY <2>1
  <1>4. First(n) = Listed
    BY <1>1
  <1>5. s \in Seq(Seq(U)) /\ DOMAIN s = 1 .. n /\ \A i \in 1 .. n : s[i] = Observed(o[i]) /\ s[i] \in Seq(U)
    <2> HIDE DEF U
    <2>1. s \in [1 .. n -> Seq(U)]
      BY <1>1, <1>3
    <2> QED
      BY <1>1, <2>1
  <1>6. Len(s) = n
    BY <1>1, <1>5
  <1>7. SerialWalk \in Seq(U)
    <2> HIDE DEF s, U
    <2> QED
      BY <1>2, <1>5, FlattenElements
  <1>8. SerialWalk \in Seq(ToSet(SerialWalk))
    <2> HIDE DEF U
    <2> QED
      BY <1>7, OwnElements
  <1>9. CASE n = 0
    <2>1. s = <<>> /\ SerialWalk = s
      <3> HIDE DEF U
      <3> DEFINE t == s
      <3>1. t \in Seq(Seq(U)) /\ Len(t) = 0 /\ SerialWalk = FlattenSeq(t)
        BY <1>2, <1>5, <1>6, <1>9
      <3> HIDE DEF t
      <3>2. t = <<>> /\ FlattenSeq(t) = t
        BY <3>1 DEF FlattenSeq
      <3> QED
        BY <3>1, <3>2 DEF t
    <2>2. Listed = {}
      BY <1>1, <1>9
    <2> DEFINE at == [d \in {} |-> 0]
    <2>3. Laid(SerialWalk, Listed, at)
      BY <2>1, <2>2 DEF Laid
    <2> QED
      BY <1>8, <2>3
  <1>10. CASE n # 0
    <2>1. SerialWalk = join[n]
      <3> HIDE DEF s, o
      <3> DEFINE k == n
      <3>1. k # 0 /\ Len(s) = k
        BY <1>6, <1>10
      <3> HIDE DEF k, U
      <3>2. s # <<>>
        BY <1>5, <3>1
      <3>3. FlattenSeq(s) = (CHOOSE f : Joins(f, s, k))[k]
        BY <3>1, <3>2 DEF FlattenSeq, Joins
      <3> QED
        BY <1>2, <3>3 DEF k
    <2>2. Joins(join, s, n)
      BY <1>1, JoinExists
    <2> HIDE DEF join, n, s
    <2>3. \A i \in 1 .. n : (i = 1 => join[i] = s[i]) /\ (i # 1 => join[i] = join[i - 1] \o s[i])
      BY <2>2 DEF Joins
    <2> DEFINE T == {k \in Nat : k \in 1 .. n => Holds(k)}
    <2>4. 0 \in T
      BY <1>1
    <2>5. ASSUME NEW k \in Nat, k \in T
          PROVE  k + 1 \in T
      <3> SUFFICES ASSUME k + 1 \in 1 .. n
                   PROVE  Holds(k + 1)
        <4> HIDE DEF Holds
        <4> QED
          OBVIOUS
      <3> DEFINE d == o[k + 1]
      <3>1. d \in Listed /\ s[k + 1] = Observed(d) /\ s[k + 1] \in Seq(U)
        BY <1>1, <1>5
      <3>2. d \notin First(k) /\ \A e \in First(k) : ~IsStrictPrefix(d, e)
        <4>1. \A i \in 1 .. k : i \in 1 .. n /\ i < k + 1
          BY <1>1
        <4> QED
          BY <1>1, <4>1
      <3>3. First(k + 1) = First(k) \union {d}
        <4>1. \A i : i \in 1 .. k + 1 <=> i \in 1 .. k \/ i = k + 1
          OBVIOUS
        <4> HIDE DEF o
        <4> QED
          BY <4>1
      <3>4. PICK prev \in Seq(U) : /\ \E at : Laid(prev, First(k), at)
                                   /\ join[k + 1] = prev \o Observed(d)
        <4>1. CASE k = 0
          <5> DEFINE at == [e \in {} |-> 0]
          <5>1. First(k) = {}
            BY <4>1
          <5>2. Laid(<<>>, {}, at)
            BY DEF Laid
          <5>3. join[k + 1] = Observed(d)
            <6>1. PICK i \in 1 .. n : i = k + 1 /\ i = 1
              BY <4>1
            <6>2. join[i] = s[i]
              BY <2>3, <6>1
            <6> QED
              BY <3>1, <6>1, <6>2
          <5>4. Observed(d) = <<>> \o Observed(d)
            <6> HIDE DEF U, d
            <6> QED
              BY <3>1
          <5>5. <<>> \in Seq(U)
            OBVIOUS
          <5> HIDE DEF First, d
          <5> QED
            BY <5>1, <5>2, <5>3, <5>4, <5>5
        <4>2. CASE k # 0
          <5>1. k \in 1 .. n
            BY <1>1, <4>2
          <5>2. Holds(k)
            BY <2>5, <5>1
          <5>3. join[k + 1] = join[k] \o s[k + 1]
            <6>1. k + 1 # 1 /\ k + 1 - 1 = k
              BY <4>2
            <6>2. PICK i \in 1 .. n : i = k + 1
              OBVIOUS
            <6> HIDE DEF d, U, T
            <6>3. join[i] = join[i - 1] \o s[i]
              BY <2>3, <6>1, <6>2
            <6>4. i - 1 = k
              BY <6>1, <6>2
            <6> QED
              BY <6>2, <6>3, <6>4
          <5> HIDE DEF First, d
          <5> QED
            BY <3>1, <5>2, <5>3
        <4> QED
          BY <4>1, <4>2
      <3>5. join[k + 1] \in Seq(U)
        <4> HIDE DEF U, d
        <4> QED
          BY <3>1, <3>4
      <3> HIDE DEF First, d, U
      <3>6. PICK at : Laid(prev, First(k), at)
        BY <3>4
      <3>7. \E bt : Laid(prev \o Observed(d), First(k) \union {d}, bt)
        BY <3>2, <3>4, <3>6, LaidNext
      <3> QED
        BY <3>3, <3>4, <3>5, <3>7
    <2> HIDE DEF T
    <2>6. Nat \subseteq T
      BY <2>4, <2>5, Induction
    <2>7. n \in T /\ n \in 1 .. n
      BY <1>1, <1>10, <2>6
    <2>8. Holds(n)
      BY <2>7 DEF T
    <2> QED
      BY <1>4, <1>8, <2>1, <2>8
  <1> QED
    BY <1>9, <1>10

------------------------------------------------------------------------------
(* Where the reports of a directory are.                                     *)

\* A project is where it is found, except for the members of a workspace.
LEMMA ProjectsAreNear ==
    ASSUME IsTree(disk), NEW entry \in Paths, entry # <<>>, NEW c \in Detected(entry), NEW p \in c.projects
    PROVE  /\ p.root \in Paths
           /\ \/ p.root \in {entry, Parent(entry)}
              \/ \E w \in c.workspaces : w.type = "node" /\ w.root = entry /\ \E m \in w.members : p.root = Parent(m)
  <1>1. \A file : Empty.projects = {} /\ Failure(file).projects = {}
    BY DEF Empty, Failure
  <1>2. \A project, outputs : WithOutputs(project, outputs).projects = {project}
    BY DEF WithOutputs, Empty
  <1>3. Parent(entry) \in Paths
    BY ParentIsPath
  <1>4. \A type, root, manifest : Project(type, root, manifest).root = root
    BY DEF Project
  <1>5. CASE c = GitProject(entry)
    <2>1. p.root = entry
      BY <1>1, <1>4, <1>5 DEF GitProject, Empty
    <2> QED
      BY <2>1
  <1>6. CASE c = NodeProject(entry)
    <2>1. NodeProject(entry) # Empty
      BY <1>1, <1>6
    <2>2. /\ Reads(Manifest(entry)) /\ c.workspaces = DetectNodeWorkspace(entry)
          /\ c.projects = {NodeProjectAt(dir) : dir \in Reported(entry)} /\ Reported(entry) \subseteq Paths
      BY <1>6, <2>1, NodeInstalls
    <2>3. PICK dir \in Reported(entry) : p = NodeProjectAt(dir)
      BY <2>2
    <2>4. p.root = dir /\ dir \in Paths
      BY <1>4, <2>2, <2>3 DEF NodeProjectAt
    <2>5. dir = entry \/ \E w \in c.workspaces : \E m \in w.members : dir = Parent(m)
      BY <2>2, <2>3 DEF Reported
    <2>6. \A w \in c.workspaces : w.type = "node" /\ w.root = entry
      BY <2>2, WorkspaceShape DEF NodeWorkspace
    <2> QED
      BY <2>4, <2>5, <2>6
  <1>7. CASE c = MSBuildProject(entry)
    <2> DEFINE type == IF Extension[Last(entry)] = ".csproj" THEN "dotnet" ELSE "cpp"
               project == Project(type, Parent(entry), entry)
               outputs == MSBuildArtifacts(project, Declared(entry).outputs)
               needs == {[owner |-> entry, type |-> need.type, version |-> need.version, name |-> need.name,
                          conditional |-> need.conditional] : need \in Declared(entry).needs}
               stopped == LeadsThroughFile(project.root, Declared(entry).outputs)
               issues == IF stopped THEN {project.root} ELSE WithOutputs(project, outputs).issues
    <2>1. MSBuildProject(entry) = Empty \/ (\E path : MSBuildProject(entry) = Failure(path))
              \/ MSBuildProject(entry) = [WithOutputs(project, outputs) EXCEPT !.issues = issues, !.needs = needs]
      BY DEF MSBuildProject
    <2>2. project.root = Parent(entry)
      BY <1>4
    <2> HIDE DEF project, outputs, issues, needs
    <2>3. p = project
      BY <1>1, <1>7, <2>1 DEF WithOutputs, Empty
    <2> QED
      BY <1>3, <2>2, <2>3
  <1>8. CASE c = PythonProject(entry)
    <2> DEFINE name == PythonFound(entry)[1]
               project == Project("python", entry, Child(entry, name))
               outputs == PythonArtifacts(project)
    <2>1. PythonProject(entry) # Empty
      BY <1>1, <1>8
    <2>2. \E R, N, I :
              \/ PythonProject(entry) = [Empty EXCEPT !.projects = {project}, !.issues = {entry}]
              \/ PythonProject(entry) = [WithOutputs(project, outputs) EXCEPT !.resources = R, !.needs = N, !.issues = I]
      BY <2>1 DEF PythonProject
    <2>3. project.root = entry
      BY <1>4
    <2> HIDE DEF project, outputs
    <2>4. p = project
      BY <1>8, <2>2 DEF WithOutputs, Empty
    <2> QED
      BY <2>3, <2>4
  <1>9. CASE c = EcosystemProject(entry)
    <2> DEFINE project == Project(EcosystemType(entry), Parent(entry), entry)
               outputs == EcosystemBuildArtifact(project)
    <2>1. EcosystemProject(entry) = Empty \/ (\E file : EcosystemProject(entry) = Failure(file))
              \/ EcosystemProject(entry) = WithOutputs(project, outputs)
      BY DEF EcosystemProject
    <2>2. project.root = Parent(entry)
      BY <1>4
    <2> HIDE DEF project, outputs
    <2> QED
      BY <1>1, <1>2, <1>3, <1>9, <2>1, <2>2
  <1>10. CASE c = XcodeProject(entry)
    <2> DEFINE project == Project("xcode", Parent(entry), Child(entry, "project.pbxproj"))
    <2>1. XcodeProject(entry) = Empty \/ (\E file : XcodeProject(entry) = Failure(file))
              \/ XcodeProject(entry) = WithOutputs(project, Pods(project))
      BY DEF XcodeProject
    <2>2. project.root = Parent(entry)
      BY <1>4
    <2> HIDE DEF project
    <2> QED
      BY <1>1, <1>2, <1>3, <1>10, <2>1, <2>2
  <1>11. CASE c = XcodeWorkspace(entry)
    BY <1>1, <1>11 DEF XcodeWorkspace, Empty
  <1>12. CASE c = SwiftPMProject(entry)
    <2> DEFINE project == Project("swiftpm", Parent(entry), entry)
               outputs == LockedOutput(project, ".build", "build-output", "Package.resolved")
    <2>1. SwiftPMProject(entry) = Empty \/ SwiftPMProject(entry) = WithOutputs(project, outputs)
      BY DEF SwiftPMProject
    <2>2. project.root = Parent(entry)
      BY <1>4
    <2> HIDE DEF project, outputs
    <2> QED
      BY <1>1, <1>2, <1>3, <1>12, <2>1, <2>2
  <1> QED
    BY <1>5, <1>6, <1>7, <1>8, <1>9, <1>10, <1>11, <1>12 DEF Detected

\* path has been made by adding names to dir.
Beneath(path, dir) == dir \in Above(path) /\ \E S : path \in Seq(S)

\* What is observed in a directory is inside that directory, where no member of a workspace is
\* outside its root.
LEMMA ObservedIsInside ==
    ASSUME Tree, NEW dir \in Paths, NEW c \in ToSet(Observed(dir)), NEW x \in c.resources,
           \A w \in c.workspaces : w.type = "node" => \A m \in w.members : Within(Parent(m), w.root)
    PROVE  Beneath(x.path, dir)
  <1>1. PICK entry \in ToSet(Visits(dir)) : c \in ToSet(Observe(entry))
    BY ObservedSequence
  <1>2. PICK name \in ToSet(Names) : entry = Child(dir, name)
    BY <1>1, VisitsElements DEF Entries
  <1>3. entry \in Paths /\ entry # <<>> /\ Parent(entry) = dir /\ IsPrefix(dir, entry)
    BY <1>2, AboveSelf, AboveChild, ChildShape DEF IsStrictPrefix, Paths
  <1>4. c \in Detected(entry) /\ IsTree(disk)
    BY <1>1, ObserveElements DEF Tree
  <1>5. PICK p \in c.projects : Inside(x.path, p.root)
    BY <1>3, <1>4, DetectedIsVouched DEF AllVouched, Vouched
  <1>6. p.root \in Paths /\ (p.root \in {entry, dir} \/ Within(p.root, entry))
    <2>1. /\ p.root \in Paths
          /\ \/ p.root \in {entry, Parent(entry)}
             \/ \E w \in c.workspaces : w.type = "node" /\ w.root = entry /\ \E m \in w.members : p.root = Parent(m)
      BY <1>3, <1>4, ProjectsAreNear
    <2> QED
      BY <1>3, <2>1
  <1>7. IsPrefix(dir, p.root)
    BY <1>3, <1>6, AboveSelf, PrefixOfPrefix DEF Within
  <1>8. dir \in Above(p.root)
    BY <1>6, <1>7, Comparable
  <1> QED
    BY <1>5, <1>8 DEF Inside, Beneath

\* Of two directories above a path one is above the other.
LEMMA AboveOne ==
    ASSUME NEW a, NEW b, NEW path, Beneath(path, a), Beneath(path, b)
    PROVE  a = b \/ IsStrictPrefix(a, b) \/ IsStrictPrefix(b, a)
  <1>1. PICK S : path \in Seq(S)
    BY DEF Beneath
  <1>2. Len(path) \in Nat
    BY <1>1
  <1>3. PICK i \in 0 .. Len(path), j \in 0 .. Len(path) : a = Top(path, i) /\ b = Top(path, j)
    BY DEF Beneath, Above, Top
  <1>4. \A k \in 0 .. Len(path) : Top(path, k) \in Seq(S) /\ Len(Top(path, k)) = k
                                  /\ \A l \in 0 .. k : Top(Top(path, k), l) = Top(path, l)
    BY <1>1, Tops
  <1>5. ASSUME NEW k \in 0 .. Len(path), NEW l \in 0 .. Len(path), l <= k
        PROVE  IsPrefix(Top(path, l), Top(path, k))
    <2>1. l \in 0 .. k /\ l \in 0 .. l
      BY <1>2, <1>5
    <2>2. Top(Top(path, k), l) = Top(path, l) /\ Top(Top(path, l), l) = Top(path, l)
      BY <1>4, <2>1
    <2>3. Len(Top(path, l)) = l /\ Len(Top(path, k)) = k
      BY <1>4
    <2> QED
      BY <1>5, <2>2, <2>3 DEF IsPrefix, Top
  <1>6. i <= j \/ j <= i
    BY <1>2
  <1> QED
    BY <1>3, <1>5, <1>6 DEF IsStrictPrefix

------------------------------------------------------------------------------
(* The pairing of two walks of the same directories.                         *)

\* The candidate at i of one sequence and that at j of the other are one observation.
Paired(i, j, D, at, bt) ==
    \E d \in D : \E k \in 1 .. Len(Observed(d)) : i = at[d] + k /\ j = bt[d] + k

\* Every candidate is paired, with an equal one.
LEMMA PairedOnce ==
    ASSUME NEW s, NEW t, NEW D, NEW at, NEW bt, Laid(s, D, at), Laid(t, D, bt),
           s \in Seq(ToSet(s)), t \in Seq(ToSet(t))
    PROVE  /\ \A i \in 1 .. Len(s) : \E j \in 1 .. Len(t) : Paired(i, j, D, at, bt)
           /\ \A i, j : Paired(i, j, D, at, bt) => /\ i \in 1 .. Len(s) /\ j \in 1 .. Len(t) /\ s[i] = t[j]
                                                   /\ Paired(j, i, D, bt, at)
           /\ ToSet(s) \subseteq ToSet(t)
  <1>1. \A d : Len(Observed(d)) \in Nat
    BY ObservedSequence
  <1>2. Len(s) \in Nat /\ Len(t) \in Nat /\ DOMAIN s = 1 .. Len(s) /\ DOMAIN t = 1 .. Len(t)
    OBVIOUS
  <1>3. \A d \in D : /\ at[d] \in Nat /\ at[d] + Len(Observed(d)) <= Len(s)
                     /\ bt[d] \in Nat /\ bt[d] + Len(Observed(d)) <= Len(t)
    BY DEF Laid
  <1>4. \A d \in D : \A k \in 1 .. Len(Observed(d)) :
            s[at[d] + k] = Observed(d)[k] /\ t[bt[d] + k] = Observed(d)[k]
    BY DEF Laid
  <1>5. ASSUME NEW d \in D, NEW k \in 1 .. Len(Observed(d))
        PROVE  at[d] + k \in 1 .. Len(s) /\ bt[d] + k \in 1 .. Len(t)
    BY <1>1, <1>2, <1>3
  <1>6. ASSUME NEW i, NEW j, Paired(i, j, D, at, bt)
        PROVE  i \in 1 .. Len(s) /\ j \in 1 .. Len(t) /\ s[i] = t[j]
    BY <1>4, <1>5, <1>6 DEF Paired
  <1>7. ASSUME NEW i, NEW j, Paired(i, j, D, at, bt)
        PROVE  Paired(j, i, D, bt, at)
    BY <1>7 DEF Paired
  <1>8. ASSUME NEW i \in 1 .. Len(s)
        PROVE  \E j \in 1 .. Len(t) : Paired(i, j, D, at, bt)
    <2>1. PICK d \in D : \E k \in 1 .. Len(Observed(d)) : i = at[d] + k
      BY DEF Laid
    <2>2. PICK k \in 1 .. Len(Observed(d)) : i = at[d] + k
      BY <2>1
    <2>3. Paired(i, bt[d] + k, D, at, bt)
      BY <2>2 DEF Paired
    <2> QED
      BY <1>5, <2>3
  <1>9. ToSet(s) \subseteq ToSet(t)
    <2> SUFFICES ASSUME NEW c \in ToSet(s)
                 PROVE  c \in ToSet(t)
      OBVIOUS
    <2>1. PICK i \in 1 .. Len(s) : c = s[i]
      BY Elements
    <2>2. PICK j \in 1 .. Len(t) : Paired(i, j, D, at, bt)
      BY <1>8
    <2>3. c = t[j]
      BY <1>6, <2>1, <2>2
    <2> QED
      BY <2>3, Elements
  <1> QED
    BY <1>6, <1>7, <1>8, <1>9

\* What is observed in directories of which one is the other or above it keeps its order.
LEMMA PairedInOrder ==
    ASSUME NEW s, NEW t, NEW D, NEW at, NEW bt, Laid(s, D, at), Laid(t, D, bt),
           NEW d \in D, NEW k \in 1 .. Len(Observed(d)), NEW e \in D, NEW l \in 1 .. Len(Observed(e)),
           d = e \/ IsStrictPrefix(d, e) \/ IsStrictPrefix(e, d)
    PROVE  at[d] + k < at[e] + l <=> bt[d] + k < bt[e] + l
  <1> DEFINE m == Len(Observed(d))
             n == Len(Observed(e))
  <1>1. m \in Nat /\ n \in Nat /\ k \in 1 .. m /\ l \in 1 .. n
    BY ObservedSequence
  <1>2. at[d] \in Nat /\ at[e] \in Nat /\ bt[d] \in Nat /\ bt[e] \in Nat
    BY DEF Laid
  <1>3. /\ IsStrictPrefix(d, e) => at[d] + m <= at[e] /\ bt[d] + m <= bt[e]
        /\ IsStrictPrefix(e, d) => at[e] + n <= at[d] /\ bt[e] + n <= bt[d]
    BY DEF Laid
  <1> HIDE DEF m, n
  <1> DEFINE ad == at[d]
             ae == at[e]
             bd == bt[d]
             be == bt[e]
  <1>4. CASE d = e
    BY <1>1, <1>2, <1>4
  <1>5. CASE IsStrictPrefix(d, e)
    <2>1. ad \in Nat /\ ae \in Nat /\ bd \in Nat /\ be \in Nat /\ ad + m <= ae /\ bd + m <= be
      BY <1>2, <1>3, <1>5
    <2> HIDE DEF ad, ae, bd, be
    <2>2. ad + k < ae + l /\ bd + k < be + l
      BY <1>1, <2>1
    <2> QED
      BY <2>2 DEF ad, ae, bd, be
  <1>6. CASE IsStrictPrefix(e, d)
    <2>1. ad \in Nat /\ ae \in Nat /\ bd \in Nat /\ be \in Nat /\ ae + n <= ad /\ be + n <= bd
      BY <1>2, <1>3, <1>6
    <2> HIDE DEF ad, ae, bd, be
    <2>2. ~(ad + k < ae + l) /\ ~(bd + k < be + l)
      BY <1>1, <2>1
    <2> QED
      BY <2>2 DEF ad, ae, bd, be
  <1> QED
    BY <1>4, <1>5, <1>6

\* A report of the candidate at i.
Made(r, i, x) == r = Report(Len(disk.installed) + i, TRUE, x, x.owner, x.evidence)

\* What is known of a tool.
LEMMA ToolFields ==
    ASSUME disk.installed \in Seq(Tools), NEW r \in ToolReports
    PROVE  r.rank \in Nat /\ r.rank <= Len(disk.installed) /\ ~r.scoped
  <1>1. PICK i \in DOMAIN disk.installed : r = Report(i, FALSE, disk.installed[i], <<>>, {})
    BY DEF ToolReports
  <1>2. i \in Nat /\ i <= Len(disk.installed)
    OBVIOUS
  <1>3. r.rank = i /\ ~r.scoped
    BY <1>1 DEF Report
  <1> QED
    BY <1>2, <1>3

\* Reports are of the candidates.
LEMMA ReportsAreMade ==
    ASSUME NEW s, s \in Seq(ToSet(s))
    PROVE  \A r : r \in Reports(s) <=> \E i \in 1 .. Len(s) : \E x \in s[i].resources : Made(r, i, x)
  <1> DEFINE yes == TRUE
             at(i) == Len(disk.installed) + i
             made(i) == {Report(at(i), yes, y, y.owner, y.evidence) : y \in s[i].resources}
  <1>1. DOMAIN s = 1 .. Len(s)
    OBVIOUS
  <1>2. Reports(s) = UNION {made(i) : i \in 1 .. Len(s)}
    BY <1>1, Zenon DEF Reports
  <1>3. \A i, x, r : Made(r, i, x) <=> r = Report(at(i), yes, x, x.owner, x.evidence)
    BY DEF Made
  <1> HIDE DEF yes, at
  <1>4. \A i, r : r \in made(i) <=> \E x \in s[i].resources : Made(r, i, x)
    BY <1>3
  <1> HIDE DEF made
  <1> QED
    BY <1>2, <1>4

\* A report has the place of its candidate, after the tools.
LEMMA MadeRank ==
    ASSUME NEW m \in Nat, m = Len(disk.installed), NEW i \in Nat, i >= 1, NEW x, NEW r, Made(r, i, x)
    PROVE  r.rank = m + i /\ r.rank \in Nat /\ r.rank > m
  <1>1. r.rank = m + i
    BY DEF Made, Report
  <1> QED
    BY <1>1

\* Reports of one resource differ in their places only.
LEMMA MadeTwins ==
    ASSUME NEW i, NEW j, NEW x, NEW r, NEW y, Made(r, i, x), Made(y, j, x)
    PROVE  Twins(r, y)
  <1> DEFINE a == Len(disk.installed) + i
             b == Len(disk.installed) + j
             yes == TRUE
  <1>1. r = Report(a, yes, x, x.owner, x.evidence) /\ y = Report(b, yes, x, x.owner, x.evidence)
    BY DEF Made
  <1> HIDE DEF a, b, yes
  <1> QED
    BY <1>1 DEF Report, Twins

\* Projects are asked about a report of an output.
LEMMA MadeScoped ==
    ASSUME NEW i, NEW x, NEW r, Made(r, i, x)
    PROVE  r.scoped
  BY DEF Made, Report

\* A report is of the path of its resource.
LEMMA MadeThere ==
    ASSUME NEW i, NEW x, NEW r, Made(r, i, x)
    PROVE  r.path = x.path
  BY DEF Made, Report

\* r and y are reports of one resource of one observation.
Counterparts(r, y, D, at, bt) ==
    \E d \in D : \E k \in 1 .. Len(Observed(d)) : \E x \in Observed(d)[k].resources :
        Made(r, at[d] + k, x) /\ Made(y, bt[d] + k, x)

\* The tools with themselves, and the reports of one observation.
Pairs(D, at, bt, S, T) ==
    {z \in (ToolReports \union S) \X (ToolReports \union T) :
        (z[1] = z[2] /\ z[1] \in ToolReports) \/ Counterparts(z[1], z[2], D, at, bt)}

\* A resource of a directory is beneath it.
Here(D) ==
    \A d \in D : \A c \in ToSet(Observed(d)) : \A x \in c.resources : Beneath(x.path, d)

\* Two walks of the same directories report the same in orders that the rest of the scan
\* cannot tell apart.
LEMMA WalksPair ==
    ASSUME disk.installed \in Seq(Tools), NEW s, NEW t, NEW D, NEW at, NEW bt, Laid(s, D, at), Laid(t, D, bt),
           s \in Seq(ToSet(s)), t \in Seq(ToSet(t)), Here(D)
    PROVE  Pairing(Pairs(D, at, bt, Reports(s), Reports(t)))
  <1> DEFINE R == Pairs(D, at, bt, Reports(s), Reports(t))
             tools == ToolReports
             m == Len(disk.installed)
  <1>1. ASSUME NEW r, NEW x, <<r, x>> \in R
        PROVE  (r = x /\ r \in tools) \/ Counterparts(r, x, D, at, bt)
    <2> DEFINE z == <<r, x>>
    <2>1. z \in R /\ z[1] = r /\ z[2] = x
      BY <1>1
    <2> HIDE DEF z
    <2>2. (z[1] = z[2] /\ z[1] \in tools) \/ Counterparts(z[1], z[2], D, at, bt)
      BY <2>1 DEF Pairs
    <2> QED
      BY <2>1, <2>2
  <1>6. m \in Nat /\ m = Len(disk.installed)
    OBVIOUS
  <1>2. \A d \in D : \A k \in 1 .. Len(Observed(d)) :
            /\ at[d] + k \in Nat /\ at[d] + k >= 1 /\ bt[d] + k \in Nat /\ bt[d] + k >= 1
            /\ Observed(d)[k] \in ToSet(Observed(d))
    <2> SUFFICES ASSUME NEW d \in D, NEW k \in 1 .. Len(Observed(d))
                 PROVE  /\ at[d] + k \in Nat /\ at[d] + k >= 1 /\ bt[d] + k \in Nat /\ bt[d] + k >= 1
                        /\ Observed(d)[k] \in ToSet(Observed(d))
      OBVIOUS
    <2>1. at[d] \in Nat /\ bt[d] \in Nat /\ k \in Nat /\ k >= 1
      BY ObservedSequence DEF Laid
    <2>2. Observed(d)[k] \in ToSet(Observed(d))
      BY ObservedSequence
    <2> QED
      BY <2>1, <2>2
  <1>3. ASSUME NEW r, NEW y, Counterparts(r, y, D, at, bt)
        PROVE  /\ Twins(r, y) /\ r.rank \in Nat /\ y.rank \in Nat /\ r.scoped /\ y.scoped
               /\ r.rank > m /\ y.rank > m
    <2>1. PICK d \in D : \E k \in 1 .. Len(Observed(d)) : \E x \in Observed(d)[k].resources :
              Made(r, at[d] + k, x) /\ Made(y, bt[d] + k, x)
      BY <1>3 DEF Counterparts
    <2>2. PICK k \in 1 .. Len(Observed(d)) : \E x \in Observed(d)[k].resources :
              Made(r, at[d] + k, x) /\ Made(y, bt[d] + k, x)
      BY <2>1
    <2>3. PICK x \in Observed(d)[k].resources : Made(r, at[d] + k, x) /\ Made(y, bt[d] + k, x)
      BY <2>2
    <2> DEFINE i == at[d] + k
               j == bt[d] + k
    <2>4. i \in Nat /\ i >= 1 /\ j \in Nat /\ j >= 1 /\ Made(r, i, x) /\ Made(y, j, x)
      BY <1>2, <2>3
    <2> HIDE DEF i, j
    <2> HIDE DEF m
    <2>5. r.rank \in Nat /\ r.rank > m
      BY <1>6, <2>4, MadeRank
    <2>6. y.rank \in Nat /\ y.rank > m
      BY <1>6, <2>4, MadeRank
    <2>7. Twins(r, y)
      BY <2>4, MadeTwins
    <2>8. r.scoped /\ y.scoped
      BY <2>4, MadeScoped
    <2> QED
      BY <2>5, <2>6, <2>7, <2>8
  <1>4. ASSUME NEW r, NEW x, NEW q, NEW y, Counterparts(r, x, D, at, bt), Counterparts(q, y, D, at, bt), r.path = q.path
        PROVE  r.rank < q.rank <=> x.rank < y.rank
    <2>1. PICK d \in D : \E k \in 1 .. Len(Observed(d)) : \E a \in Observed(d)[k].resources :
              Made(r, at[d] + k, a) /\ Made(x, bt[d] + k, a)
      BY <1>4 DEF Counterparts
    <2>2. PICK k \in 1 .. Len(Observed(d)) : \E a \in Observed(d)[k].resources :
              Made(r, at[d] + k, a) /\ Made(x, bt[d] + k, a)
      BY <2>1
    <2>3. PICK a \in Observed(d)[k].resources : Made(r, at[d] + k, a) /\ Made(x, bt[d] + k, a)
      BY <2>2
    <2>4. PICK e \in D : \E l \in 1 .. Len(Observed(e)) : \E b \in Observed(e)[l].resources :
              Made(q, at[e] + l, b) /\ Made(y, bt[e] + l, b)
      BY <1>4 DEF Counterparts
    <2>5. PICK l \in 1 .. Len(Observed(e)) : \E b \in Observed(e)[l].resources :
              Made(q, at[e] + l, b) /\ Made(y, bt[e] + l, b)
      BY <2>4
    <2>6. PICK b \in Observed(e)[l].resources : Made(q, at[e] + l, b) /\ Made(y, bt[e] + l, b)
      BY <2>5
    <2> DEFINE i1 == at[d] + k
               j1 == bt[d] + k
               i2 == at[e] + l
               j2 == bt[e] + l
    <2>7. /\ i1 \in Nat /\ i1 >= 1 /\ j1 \in Nat /\ j1 >= 1 /\ Made(r, i1, a) /\ Made(x, j1, a)
          /\ i2 \in Nat /\ i2 >= 1 /\ j2 \in Nat /\ j2 >= 1 /\ Made(q, i2, b) /\ Made(y, j2, b)
      BY <1>2, <2>3, <2>6
    <2>8. Beneath(a.path, d) /\ Beneath(b.path, e)
      BY <1>2 DEF Here
    <2> HIDE DEF i1, j1, i2, j2
    <2> HIDE DEF m
    <2>9. r.rank = m + i1 /\ x.rank = m + j1
      BY <1>6, <2>7, MadeRank
    <2>10. q.rank = m + i2 /\ y.rank = m + j2
      BY <1>6, <2>7, MadeRank
    <2>11. r.path = a.path
      BY <2>7, MadeThere
    <2>12. q.path = b.path
      BY <2>7, MadeThere
    <2>13. d = e \/ IsStrictPrefix(d, e) \/ IsStrictPrefix(e, d)
      BY <1>4, <2>8, <2>11, <2>12, AboveOne
    <2>14. at[d] + k < at[e] + l <=> bt[d] + k < bt[e] + l
      BY <2>13, PairedInOrder
    <2>15. i1 < i2 <=> j1 < j2
      BY <2>14 DEF i1, i2, j1, j2
    <2>16. m \in Nat /\ i1 \in Nat /\ i2 \in Nat /\ j1 \in Nat /\ j2 \in Nat
      BY <1>6, <2>7
    <2>17. m + i1 < m + i2 <=> m + j1 < m + j2
      BY <2>15, <2>16
    <2> QED
      BY <2>9, <2>10, <2>17
  <1>5. \A r \in tools : r.rank \in Nat /\ r.rank <= m /\ ~r.scoped
    BY ToolFields
  <1> HIDE DEF R, tools, m
  <1>7. ASSUME NEW r, NEW x, NEW q, NEW y, <<r, x>> \in R, <<q, y>> \in R
        PROVE  /\ Twins(r, x) /\ r.rank \in Nat /\ x.rank \in Nat
               /\ r.path = q.path \/ ~r.scoped \/ ~q.scoped => (r.rank < q.rank <=> x.rank < y.rank)
    <2>1. CASE r = x /\ r \in tools /\ q = y /\ q \in tools
      BY <1>5, <2>1 DEF Twins
    <2>2. CASE r = x /\ r \in tools /\ Counterparts(q, y, D, at, bt)
      <3>1. r.rank \in Nat /\ r.rank <= m /\ q.rank \in Nat /\ q.rank > m /\ y.rank \in Nat /\ y.rank > m
        BY <1>3, <1>5, <2>2
      <3>2. r.rank < q.rank /\ x.rank < y.rank
        BY <1>6, <2>2, <3>1
      <3> QED
        BY <2>2, <3>1, <3>2 DEF Twins
    <2>3. CASE Counterparts(r, x, D, at, bt) /\ q = y /\ q \in tools
      <3>1. /\ r.rank \in Nat /\ r.rank > m /\ x.rank \in Nat /\ x.rank > m /\ Twins(r, x)
            /\ q.rank \in Nat /\ q.rank <= m
        BY <1>3, <1>5, <2>3
      <3>2. ~(r.rank < q.rank) /\ ~(x.rank < y.rank)
        BY <1>6, <2>3, <3>1
      <3> QED
        BY <3>1, <3>2
    <2>4. CASE Counterparts(r, x, D, at, bt) /\ Counterparts(q, y, D, at, bt)
      <3>1. Twins(r, x) /\ r.rank \in Nat /\ x.rank \in Nat /\ r.scoped /\ q.scoped
        BY <1>3, <2>4
      <3>2. r.path = q.path => (r.rank < q.rank <=> x.rank < y.rank)
        BY <1>4, <2>4
      <3> QED
        BY <3>1, <3>2
    <2> QED
      BY <1>1, <1>7, <2>1, <2>2, <2>3, <2>4
  <1>8. Pairing(R)
    BY <1>7 DEF Pairing
  <1> QED
    BY <1>8 DEF R

\* Every report has its counterpart.
LEMMA WalksMatch ==
    ASSUME NEW s, NEW t, NEW D, NEW at, NEW bt, Laid(s, D, at), Laid(t, D, bt),
           s \in Seq(ToSet(s)), t \in Seq(ToSet(t)),
           NEW R, R = Pairs(D, at, bt, Reports(s), Reports(t))
    PROVE  Matches(Reports(s), Reports(t), R) /\ Matches(ToolReports, ToolReports, R)
  <1> DEFINE S == ToolReports \union Reports(s)
             T == ToolReports \union Reports(t)
  <1>1. ASSUME NEW r \in S, NEW y \in T, (r = y /\ r \in ToolReports) \/ Counterparts(r, y, D, at, bt)
        PROVE  <<r, y>> \in R
    <2> DEFINE z == <<r, y>>
    <2>1. z \in S \X T /\ z[1] = r /\ z[2] = y
      OBVIOUS
    <2> HIDE DEF z, S, T
    <2>2. (z[1] = z[2] /\ z[1] \in ToolReports) \/ Counterparts(z[1], z[2], D, at, bt)
      BY <1>1, <2>1
    <2>3. z \in R
      BY <2>1, <2>2 DEF Pairs, S, T
    <2> QED
      BY <2>3 DEF z
  <1>2. \A r \in ToolReports : <<r, r>> \in R
    BY <1>1
  <1>3. \A i \in 1 .. Len(s) : \E d \in D : \E k \in 1 .. Len(Observed(d)) : i = at[d] + k
    BY DEF Laid
  <1>4. \A i \in 1 .. Len(t) : \E d \in D : \E k \in 1 .. Len(Observed(d)) : i = bt[d] + k
    BY DEF Laid
  <1>5. ASSUME NEW d \in D, NEW k \in 1 .. Len(Observed(d))
        PROVE  /\ at[d] + k \in 1 .. Len(s) /\ bt[d] + k \in 1 .. Len(t)
               /\ s[at[d] + k] = Observed(d)[k] /\ t[bt[d] + k] = Observed(d)[k]
    <2>1. Paired(at[d] + k, bt[d] + k, D, at, bt)
      BY DEF Paired
    <2> DEFINE i == at[d] + k
               j == bt[d] + k
    <2>2. i \in 1 .. Len(s) /\ j \in 1 .. Len(t)
      <3>1. Paired(i, j, D, at, bt)
        BY <2>1
      <3> HIDE DEF i, j
      <3> QED
        BY <3>1, PairedOnce
    <2> QED
      BY <2>2 DEF Laid
  <1>6. ASSUME NEW d \in D, NEW k \in 1 .. Len(Observed(d)), NEW x \in Observed(d)[k].resources, NEW r, NEW y,
               Made(r, at[d] + k, x), Made(y, bt[d] + k, x)
        PROVE  r \in Reports(s) /\ y \in Reports(t) /\ <<r, y>> \in R
    <2> DEFINE i == at[d] + k
               j == bt[d] + k
    <2>1. i \in 1 .. Len(s) /\ j \in 1 .. Len(t) /\ x \in s[i].resources /\ x \in t[j].resources
      BY <1>5
    <2>2. Made(r, i, x) /\ Made(y, j, x)
      BY <1>6
    <2> HIDE DEF i, j
    <2>3. r \in Reports(s) /\ y \in Reports(t)
      BY <2>1, <2>2, ReportsAreMade
    <2>4. Counterparts(r, y, D, at, bt)
      BY <1>6 DEF Counterparts
    <2> QED
      BY <1>1, <2>3, <2>4
  <1>7. \A i, x : \E r : Made(r, i, x)
    BY DEF Made
  <1>8. ASSUME NEW r \in Reports(s)
        PROVE  \E y \in Reports(t) : <<r, y>> \in R
    <2>1. PICK i \in 1 .. Len(s) : \E x \in s[i].resources : Made(r, i, x)
      BY ReportsAreMade
    <2>2. PICK x \in s[i].resources : Made(r, i, x)
      BY <2>1
    <2>3. PICK d \in D : \E k \in 1 .. Len(Observed(d)) : i = at[d] + k
      BY <1>3
    <2>4. PICK k \in 1 .. Len(Observed(d)) : i = at[d] + k
      BY <2>3
    <2>5. PICK y : Made(y, bt[d] + k, x)
      BY <1>7
    <2>6. x \in Observed(d)[k].resources
      BY <1>5, <2>4
    <2> QED
      BY <1>6, <2>2, <2>4, <2>5, <2>6
  <1>9. ASSUME NEW y \in Reports(t)
        PROVE  \E r \in Reports(s) : <<r, y>> \in R
    <2>1. PICK j \in 1 .. Len(t) : \E x \in t[j].resources : Made(y, j, x)
      BY ReportsAreMade
    <2>2. PICK x \in t[j].resources : Made(y, j, x)
      BY <2>1
    <2>3. PICK d \in D : \E k \in 1 .. Len(Observed(d)) : j = bt[d] + k
      BY <1>4
    <2>4. PICK k \in 1 .. Len(Observed(d)) : j = bt[d] + k
      BY <2>3
    <2>5. PICK r : Made(r, at[d] + k, x)
      BY <1>7
    <2>6. x \in Observed(d)[k].resources
      BY <1>5, <2>4
    <2> QED
      BY <1>6, <2>2, <2>4, <2>5, <2>6
  <1>10. \A r, y : <<y, r>> \in Flip(R) <=> <<r, y>> \in R
    BY FlipPairs
  <1> QED
    BY <1>2, <1>8, <1>9, <1>10 DEF Matches, Into

\* A scan that has ended has listed what the serial walk lists.
LEMMA AllIsLaid ==
    ASSUME Tree, pending = {}, NEW D, NEW at, Progress(D, at)
    PROVE  Listed \subseteq Paths /\ IsFiniteSet(Listed) /\ Laid(found, Listed, at)
  <1>1. D = Listed
    BY DEF Progress
  <1>2. \A dir \in Listed : dir \in Paths
    BY RootsLead
  <1> QED
    BY <1>1, <1>2 DEF Progress

\* What is laid is there.
LEMMA LaidIsThere ==
    ASSUME NEW s, s \in Seq(ToSet(s)), NEW D, NEW at, Laid(s, D, at), NEW d \in D
    PROVE  ToSet(Observed(d)) \subseteq ToSet(s)
  <1> SUFFICES ASSUME NEW c \in ToSet(Observed(d))
               PROVE  c \in ToSet(s)
    OBVIOUS
  <1> DEFINE o == Observed(d)
             n == Len(o)
  <1>1. o \in Seq(ToSet(o)) /\ n \in Nat
    BY ObservedSequence
  <1>2. at[d] \in Nat /\ at[d] + n <= Len(s) /\ \A k \in 1 .. n : s[at[d] + k] = o[k]
    BY DEF Laid
  <1>3. c \in ToSet(o)
    OBVIOUS
  <1> HIDE DEF o
  <1>4. PICK k \in 1 .. n : c = o[k]
    BY <1>1, <1>3, Elements
  <1> DEFINE i == at[d] + k
  <1>5. c = s[i]
    BY <1>2, <1>4
  <1>6. Len(s) \in Nat
    OBVIOUS
  <1>7. i \in 1 .. Len(s)
    BY <1>1, <1>2, <1>6
  <1> HIDE DEF i
  <1> QED
    BY <1>5, <1>7, Elements

\* The needs of the candidates are of the known types.
LEMMA FoundNeedTypes ==
    ASSUME Tree, Known
    PROVE  \A c \in ToSet(found) : \A need \in c.needs : need.type \in NeedTypes
  <1> SUFFICES ASSUME NEW c \in ToSet(found), NEW need \in c.needs
               PROVE  need.type \in NeedTypes
    OBVIOUS
  <1>1. PICK entry \in Paths : c \in ToSet(Observe(entry))
    BY DEF Known
  <1>2. c \in Detected(entry) /\ IsTree(disk)
    BY <1>1, ObserveElements DEF Tree
  <1> QED
    BY <1>2, DetectedNeeds

\* The result is the same whatever the order of the visits, for every disk that is a tree.
THEOREM OrderIsFree == Spec => []VisitOrderIsFree
  <1>1. WalkInv /\ OrderInv /\ Concluded /\ LayInv => VisitOrderIsFree
    <2> SUFFICES ASSUME WalkInv, OrderInv, Concluded, LayInv, Ended, Settled
                 PROVE  result = Analysis(SerialWalk)
      BY DEF VisitOrderIsFree
    <2>1. /\ Tree /\ Known /\ pending = {} /\ disk.installed \in Seq(Tools) /\ result = Analysis(found)
          /\ RootsAreApart /\ MembersAreInside /\ EnvNamesDiffer
      BY DEF WalkInv, Filtered, OrderInv, Concluded, Settled
    <2>2. PICK D, at : Progress(D, at)
      BY <2>1 DEF LayInv
    <2>3. Listed \subseteq Paths /\ IsFiniteSet(Listed) /\ Laid(found, Listed, at)
      BY <2>1, <2>2, AllIsLaid
    <2>4. found \in Seq(ToSet(found)) /\ SerialWalk \in Seq(ToSet(SerialWalk))
      BY <2>1, <2>3, SerialIsLaid DEF Known
    <2>5. PICK bt : Laid(SerialWalk, Listed, bt)
      BY <2>3, SerialIsLaid
    <2>6. \A c \in ToSet(found) : \A w \in c.workspaces : w.type = "node" => \A m \in w.members : Within(Parent(m), w.root)
      <3> SUFFICES ASSUME NEW c \in ToSet(found), NEW w \in c.workspaces, w.type = "node", NEW m \in w.members
                   PROVE  Within(Parent(m), w.root)
        OBVIOUS
      <3>1. \E i \in DOMAIN found : c = found[i]
        BY <2>4 DEF ToSet
      <3>2. w \in NodeWorkspaces
        BY <3>1 DEF NodeWorkspaces, All
      <3> QED
        BY <2>1, <3>2 DEF MembersAreInside
    <2>7. Here(Listed)
      <3> SUFFICES ASSUME NEW d \in Listed, NEW c \in ToSet(Observed(d)), NEW x \in c.resources
                   PROVE  Beneath(x.path, d)
        BY DEF Here
      <3>1. c \in ToSet(found)
        BY <2>3, <2>4, LaidIsThere
      <3>2. d \in Paths
        BY <2>3
      <3> QED
        BY <2>1, <2>6, <3>1, <3>2, ObservedIsInside
    <2>8. ToSet(found) = ToSet(SerialWalk)
      <3> DEFINE t == SerialWalk
      <3>1. t \in Seq(ToSet(t)) /\ Laid(t, Listed, bt) /\ found \in Seq(ToSet(found)) /\ Laid(found, Listed, at)
        BY <2>3, <2>4, <2>5
      <3> HIDE DEF t
      <3>2. ToSet(found) \subseteq ToSet(t)
        BY <3>1, PairedOnce
      <3>3. ToSet(t) \subseteq ToSet(found)
        BY <3>1, PairedOnce
      <3> QED
        BY <3>2, <3>3 DEF t
    <2> DEFINE R == Pairs(Listed, at, bt, Reports(found), Reports(SerialWalk))
    <2>9. Pairing(R)
      BY <2>1, <2>3, <2>4, <2>5, <2>7, WalksPair
    <2>10. Matches(Reports(found), Reports(SerialWalk), R) /\ Matches(ToolReports, ToolReports, R)
      BY <2>3, <2>4, <2>5, WalksMatch
    <2>11. EnvsDiffer(ToolReports \union OutputReports(found))
      <3>1. \A r \in ToolReports : ~r.scoped
        BY <2>1, ToolFields
      <3>2. \A a, b \in OutputReports(found) :
                a.type = "conda-env" /\ b.type = "conda-env" /\ SameName(EnvName(a), EnvName(b)) => a.path = b.path
        BY <2>1 DEF EnvNamesDiffer
      <3> QED
        BY <3>1, <3>2 DEF EnvsDiffer
    <2>12. \A c \in ToSet(found) : \A need \in c.needs : need.type \in NeedTypes
      BY <2>1, FoundNeedTypes
    <2> HIDE DEF R
    <2>13. Analysis(found) = Analysis(SerialWalk)
      BY <2>8, <2>9, <2>10, <2>11, <2>12, AnalysisMatches
    <2> QED
      BY <2>1, <2>13
  <1> QED
    BY <1>1, WalkInitially, WalkStep, OrderInitially, OrderStep, ConcludedInitially, ConcludedStep,
       LayInitially, LayStep, PTL DEF Spec

==============================================================================
