------------------------------ MODULE PlanProofs ------------------------------
(***************************************************************************)
(* Proofs about PlanService: what a plan takes is proven, it meets its      *)
(* target and misses nothing, for any roots, contents and targets and       *)
(* beside any number of scans.                                              *)
(***************************************************************************)
EXTENDS PlanService, InventoryProofs, WellFoundedInduction, FiniteSetTheorems, SequenceTheorems

------------------------------------------------------------------------------
(* Induction over the natural numbers, for sets in place of predicates.     *)

\* A set of natural numbers has a least element.
LEMMA LeastNatural ==
    ASSUME NEW T \in SUBSET Nat, T # {}
    PROVE  \E n \in T : \A m \in T : n <= m
<1> DEFINE R == OpToRel(<, Nat)
<1>1. IsWellFoundedOn(R, Nat)
  BY NatLessThanWellFounded
<1>2. \A x, y \in Nat : x < y => <<x, y>> \in R
  BY DEF OpToRel
<1> HIDE DEF R
<1>3. PICK n \in T : \A m \in T : ~(<<m, n>> \in R)
  BY <1>1, WFMin
<1>4. \A m \in T : m \in Nat
  OBVIOUS
<1>5. \A m \in T : ~(m < n)
  BY <1>2, <1>3, <1>4
<1>6. \A m \in T : n <= m
  BY <1>4, <1>5
<1> QED BY <1>6

\* What holds of 0 and of each successor holds of all.
LEMMA Induction ==
    ASSUME NEW S, 0 \in S, \A n \in Nat : n \in S => n + 1 \in S
    PROVE  Nat \subseteq S
<1> DEFINE T == {n \in Nat : n \notin S}
<1> SUFFICES ASSUME T # {} PROVE FALSE
  OBVIOUS
<1>1. PICK n \in T : \A m \in T : n <= m
  BY LeastNatural
<1>2. n # 0 /\ n - 1 \in Nat /\ n - 1 \notin T
  BY <1>1
<1> QED BY <1>1, <1>2

------------------------------------------------------------------------------
(* Totals.                                                                  *)

\* f adds up the first n values of v.
AddsUp(f, v, n) ==
    /\ f \in [0 .. n -> Nat]
    /\ f[0] = 0
    /\ \A i \in 1 .. n : f[i] = f[i - 1] + v[i]

\* Values can be added up,
LEMMA SumExists ==
    ASSUME NEW n \in Nat, NEW v, \A i \in 1 .. n : v[i] \in Nat
    PROVE  \E f : AddsUp(f, v, n)
<1> DEFINE S == {k \in Nat : k <= n => \E f : AddsUp(f, v, k)}
<1>1. 0 \in S
  <2>1. AddsUp([i \in 0 .. 0 |-> 0], v, 0)
    BY DEF AddsUp
  <2> QED BY <2>1
<1>2. ASSUME NEW k \in Nat, k \in S PROVE k + 1 \in S
  <2> SUFFICES ASSUME k + 1 <= n PROVE \E f : AddsUp(f, v, k + 1)
    OBVIOUS
  <2>1. PICK f : AddsUp(f, v, k)
    BY <1>2
  <2> DEFINE g == [i \in 0 .. k + 1 |-> IF i = k + 1 THEN f[k] + v[k + 1] ELSE f[i]]
  <2>2. f[k] \in Nat /\ v[k + 1] \in Nat
    BY <2>1 DEF AddsUp
  <2>3. g \in [0 .. k + 1 -> Nat] /\ g[0] = 0
    BY <2>1, <2>2 DEF AddsUp
  <2>4. ASSUME NEW i \in 1 .. k + 1 PROVE g[i] = g[i - 1] + v[i]
    <3>1. CASE i = k + 1
      BY <3>1
    <3>2. CASE i # k + 1
      <4>1. i \in 1 .. k /\ i - 1 \in 0 .. k
        BY <3>2
      <4>2. f[i] = f[i - 1] + v[i]
        BY <2>1, <4>1 DEF AddsUp
      <4> QED BY <4>1, <4>2
    <3> QED BY <3>1, <3>2
  <2> QED BY <2>3, <2>4 DEF AddsUp
<1> HIDE DEF S
<1>3. Nat \subseteq S
  BY <1>1, <1>2, Induction
<1> QED BY <1>3 DEF S

\* in one way only.
LEMMA SumUnique ==
    ASSUME NEW n \in Nat, NEW m \in Nat, n <= m, NEW v, NEW w, NEW f, NEW g,
           \A i \in 1 .. n : v[i] = w[i],
           AddsUp(f, v, n), AddsUp(g, w, m)
    PROVE  \A k \in 0 .. n : f[k] = g[k]
<1> DEFINE S == {k \in Nat : k <= n => f[k] = g[k]}
<1>1. 0 \in S
  BY DEF AddsUp
<1>2. ASSUME NEW k \in Nat, k \in S PROVE k + 1 \in S
  <2> SUFFICES ASSUME k + 1 <= n PROVE f[k + 1] = g[k + 1]
    OBVIOUS
  <2>1. f[k] = g[k] /\ k + 1 \in 1 .. n /\ k + 1 \in 1 .. m /\ v[k + 1] = w[k + 1]
    BY <1>2
  <2>2. f[k + 1] = f[k + 1 - 1] + v[k + 1] /\ g[k + 1] = g[k + 1 - 1] + w[k + 1]
    BY <2>1 DEF AddsUp
  <2> QED BY <2>1, <2>2
<1> HIDE DEF S
<1>3. Nat \subseteq S
  BY <1>1, <1>2, Induction
<1> QED BY <1>3 DEF S

\* The last sum adds the last value to the one before.
LEMMA LastSum ==
    ASSUME NEW n \in Nat, NEW v, NEW f, AddsUp(f, v, n + 1)
    PROVE  f[n + 1] = f[n] + v[n + 1]
<1>1. n + 1 \in 1 .. n + 1 /\ n + 1 - 1 = n
  OBVIOUS
<1>2. f[n + 1] = f[n + 1 - 1] + v[n + 1]
  BY <1>1 DEF AddsUp
<1> QED BY <1>1, <1>2

Sizes(chosen) == [i \in 1 .. Len(chosen) |-> chosen[i].size]

Sized == [id : Resources, size : Nat, owner : Projects]

\* The total is the last of the sums.
LEMMA TotalIs ==
    ASSUME NEW chosen \in Seq(Sized)
    PROVE  \E f : AddsUp(f, Sizes(chosen), Len(chosen)) /\ Total(chosen) = f[Len(chosen)]
<1> DEFINE n == Len(chosen)
           Def(f) == [k \in 0 .. n |-> IF k = 0 THEN 0 ELSE f[k - 1] + chosen[k].size]
           sum == CHOOSE f : f = Def(f)
<1>1. n \in Nat /\ \A i \in 1 .. n : Sizes(chosen)[i] = chosen[i].size /\ chosen[i].size \in Nat
  <2>1. n \in Nat /\ \A i \in 1 .. n : chosen[i] \in Sized
    OBVIOUS
  <2>2. \A e \in Sized : e.size \in Nat
    BY DEF Sized
  <2> QED BY <2>1, <2>2 DEF Sizes
<1>2. PICK f : AddsUp(f, Sizes(chosen), n)
  BY <1>1, SumExists
<1>3. f = Def(f)
  BY <1>1, <1>2 DEF AddsUp
<1>4. sum = Def(sum)
  BY <1>3
<1>5. Total(chosen) = sum[n]
  BY DEF Total
<1> HIDE DEF sum, n
<1>6. AddsUp(sum, Sizes(chosen), n)
  <2>1. DOMAIN sum = 0 .. n /\ sum[0] = 0 /\ \A i \in 1 .. n : sum[i] = sum[i - 1] + Sizes(chosen)[i]
    <3>1. DOMAIN sum = 0 .. n /\ \A k \in 0 .. n : sum[k] = IF k = 0 THEN 0 ELSE sum[k - 1] + chosen[k].size
      BY <1>4
    <3>2. sum[0] = 0
      BY <1>1, <3>1
    <3>3. ASSUME NEW i \in 1 .. n PROVE sum[i] = sum[i - 1] + Sizes(chosen)[i]
      <4>1. i \in 0 .. n /\ i # 0
        BY <1>1
      <4> QED BY <1>1, <3>1, <4>1
    <3> QED BY <3>1, <3>2, <3>3
  <2> DEFINE S == {k \in Nat : k <= n => sum[k] \in Nat}
  <2>2. 0 \in S
    BY <2>1
  <2>3. ASSUME NEW k \in Nat, k \in S PROVE k + 1 \in S
    <3> SUFFICES ASSUME k + 1 <= n PROVE sum[k + 1] \in Nat
      OBVIOUS
    <3>1. k + 1 \in 1 .. n /\ sum[k] \in Nat
      BY <1>1, <2>3
    <3>2. sum[k + 1] = sum[k + 1 - 1] + Sizes(chosen)[k + 1]
      BY <2>1, <3>1
    <3> QED BY <1>1, <3>1, <3>2
  <2> HIDE DEF S
  <2>4. Nat \subseteq S
    BY <2>2, <2>3, Induction
  <2>5. \A k \in 0 .. n : sum[k] \in Nat
    BY <1>1, <2>4 DEF S
  <2>6. sum = [k \in 0 .. n |-> sum[k]]
    BY <1>4, <2>1
  <2>7. sum \in [0 .. n -> Nat]
    BY <2>5, <2>6
  <2> QED BY <2>1, <2>7 DEF AddsUp
<1> QED BY <1>5, <1>6 DEF n

\* Nothing chosen adds up to nothing.
LEMMA TotalEmpty == Total(<<>>) = 0
<1>1. <<>> \in Seq(Sized) /\ Len(<<>>) = 0
  OBVIOUS
<1> QED BY <1>1, TotalIs DEF AddsUp

\* A total is a natural number.
LEMMA TotalTyped == \A chosen \in Seq(Sized) : Total(chosen) \in Nat
<1> SUFFICES ASSUME NEW chosen \in Seq(Sized) PROVE Total(chosen) \in Nat
  OBVIOUS
<1>1. Len(chosen) \in 0 .. Len(chosen)
  OBVIOUS
<1> QED BY <1>1, TotalIs DEF AddsUp

\* Each item that is chosen adds its size.
LEMMA TotalAppend ==
    ASSUME NEW chosen \in Seq(Sized), NEW item \in Sized
    PROVE  /\ Total(chosen) \in Nat
           /\ Total(Append(chosen, item)) = Total(chosen) + item.size
<1> DEFINE n == Len(chosen)
           more == Append(chosen, item)
<1>1. /\ n \in Nat /\ more \in Seq(Sized) /\ Len(more) = n + 1
      /\ more[n + 1] = item /\ \A i \in 1 .. n : more[i] = chosen[i]
  OBVIOUS
<1>2. PICK f : AddsUp(f, Sizes(chosen), n) /\ Total(chosen) = f[n]
  BY TotalIs
<1>3. PICK g : AddsUp(g, Sizes(more), n + 1) /\ Total(more) = g[n + 1]
  BY <1>1, TotalIs
<1>4. Sizes(more)[n + 1] = item.size /\ \A i \in 1 .. n : Sizes(chosen)[i] = Sizes(more)[i]
  BY <1>1 DEF Sizes
<1> HIDE DEF n, more
<1>5. f[n] = g[n]
  BY <1>1, <1>2, <1>3, <1>4, SumUnique
<1>6. g[n + 1] = g[n] + item.size
  BY <1>1, <1>3, <1>4, LastSum
<1>7. f[n] \in Nat
  BY <1>1, <1>2 DEF AddsUp
<1> QED BY <1>2, <1>3, <1>5, <1>6, <1>7 DEF more

------------------------------------------------------------------------------
(* What the proofs rest on.                                                 *)

Proven(row) ==
    /\ row.report.regenerable /\ ~row.report.protected
    /\ row.report.evidence = CleanupFacts

\* A row is SAFE only with what proves it, and an output that is proven is SAFE.
Fair(table) ==
    \A x \in Resources : table[x] # None =>
        /\ table[x].risk = "SAFE" => Proven(table[x])
        /\ x \in Roots /\ Proven(table[x]) => table[x].risk = "SAFE"

\* A scan that has stored its edges, or has completed, has its edges stored.
Owned(s) ==
    /\ pc[s] = "edges" => FoundEdges(s) \ todo[s] \subseteq edges
    /\ pc[s] \in {"issues", "finish"} => FoundEdges(s) \subseteq edges
    /\ status[s] \in Ended => pc[s] = "done" /\ FoundEdges(s) \subseteq edges

Ready == Fair(rows) /\ \A s \in Scans : Owned(s)

Result ==
    [target |-> target, items |-> items, selected |-> selected,
     status |-> IF target > 0 /\ selected < target THEN "INSUFFICIENT_CANDIDATES" ELSE "READY"]

PlanTyped ==
    /\ step \in {"idle", "list", "owners", "done"}
    /\ target \in Int /\ scope \subseteq Resources /\ complete \subseteq Scans
    /\ listed \in [Resources -> Rows \union {None}]
    /\ at \in 0 .. MaxTime
    /\ looked \subseteq Safe
    /\ items \in Seq(Sized)

\* Items are candidates that have been looked at, as listed, and stay owned.
ItemsHold ==
    /\ \A i \in DOMAIN items :
        /\ items[i].id \in looked \intersect Roots
        /\ items[i].size = listed[items[i].id].reclaimable
        /\ <<items[i].owner, "OWNS", items[i].id>> \in edges
    /\ \A i, j \in DOMAIN items : i # j => items[i].id # items[j].id

\* The sum is kept, and was short of the target before the last item.
SumHolds ==
    /\ selected = Total(items)
    /\ target > 0 /\ items # <<>> => Total(Front(items)) < target

\* The outputs of completed scans are listed and owned, and taken when looked at.
NothingMissed ==
    \A s \in complete :
        /\ pc[s] = "done"
        /\ \A x \in FoundOutputs(s) :
            /\ listed[x] # None
            /\ <<Build(x), "OWNS", x>> \in edges
            /\ x \in looked => \E i \in DOMAIN items : items[i].id = x

InOrderTaken == \A x \in looked, y \in Safe \ looked : Precedes(x, y)

StoredLast ==
    /\ step \in {"idle", "list"} => looked = {} /\ items = <<>>
    /\ step # "done" => stored = None
    /\ step = "done" => /\ stored = IF target < 0 THEN None ELSE Result
                        /\ looked = Safe \/ Enough

PlanInv ==
    /\ PlanTyped /\ Fair(listed) /\ ItemsHold /\ SumHolds /\ NothingMissed /\ InOrderTaken
    /\ StoredLast

------------------------------------------------------------------------------
(* The verdict.                                                             *)

\* Evidence is complete if no fact is missing.
LEMMA CompleteMeans ==
    ASSUME NEW e \in SUBSET CleanupFacts
    PROVE  Complete(e) <=> e = CleanupFacts
<1>1. \A f \in CleanupFacts : Normalize(e)[f] = "VERIFIED_TRUE" <=> f \in e
  BY DEF Normalize
<1> QED BY <1>1 DEF Complete

\* What is observed is SAFE only with what proves it, and an output that is proven is SAFE.
LEMMA ObservationFair ==
    ASSUME Typed, NEW s \in Scans, NEW report \in Reports,
           NEW evidence \in SUBSET CleanupFacts, NEW size \in Nat
    PROVE  LET row == Observation(s, report, evidence, size)
           IN  /\ row.risk = "SAFE" => Proven(row)
               /\ report.type \notin ManagedTypes /\ Proven(row) => row.risk = "SAFE"
<1> DEFINE c == [type |-> report.type, protected |-> report.protected,
                 regenerable |-> report.regenerable, required |-> FALSE, evidence |-> evidence]
           new == [report EXCEPT !.size = size, !.evidence = evidence]
           row == Observation(s, report, evidence, size)
<1>1. /\ report.protected \in BOOLEAN /\ report.regenerable \in BOOLEAN
      /\ new.protected = report.protected /\ new.regenerable = report.regenerable
      /\ new.evidence = evidence
  BY DEF Reports
<1>2. row.risk = Classify(c) /\ row.report = new
  BY DEF Observation
<1>3. Classify(c) = "SAFE" =>
          report.regenerable /\ ~report.protected /\ Complete(evidence)
  <2>1. CASE report.type \in ManagedTypes
    BY <2>1 DEF Classify, ManagedTypes
  <2>2. CASE report.type \notin ManagedTypes
    BY <2>2 DEF Classify, ManagedTypes
  <2> QED BY <2>1, <2>2
<1>4. (/\ report.type \notin ManagedTypes
       /\ report.regenerable /\ ~report.protected /\ Complete(evidence)) => Classify(c) = "SAFE"
  BY DEF Classify, ManagedTypes
<1> HIDE DEF c, new, row
<1> QED BY <1>1, <1>2, <1>3, <1>4, CompleteMeans DEF Proven, row

\* The score of an age is high for at most 30 days.
LEMMA FreshFor == \A days \in Int : FreshnessScore(days) >= 80 <=> days <= 30
BY DEF FreshnessScore


------------------------------------------------------------------------------
(* What scans do beside the plan.                                           *)

\* One row is replaced by a fair one.
LEMMA FairRow ==
    ASSUME Inv, Fair(rows), NEW x \in Resources, NEW row, rows' = [rows EXCEPT ![x] = row],
           row.risk = "SAFE" => Proven(row), x \in Roots /\ Proven(row) => row.risk = "SAFE"
    PROVE  Fair(rows')
<1>1. \A y \in Resources : rows'[y] = IF y = x THEN row ELSE rows[y]
  BY DEF Inv, Typed, DatabaseTyped
<1> QED BY <1>1 DEF Fair

\* No step stores an unfair row.
LEMMA FairStays ==
    ASSUME Inv, Fair(rows), [TimedNext]_vars
    PROVE  Fair(rows')
<1>1. ASSUME NEW s \in Scans, NEW t \in Tools, ObserveTool(s, t) PROVE Fair(rows')
  <2>1. ToolReport[t] \in Reports
    BY InventoryAssumption
  <2>2. ToolReport[t].evidence \in SUBSET CleanupFacts /\ ToolReport[t].size \in Nat
    BY <2>1 DEF Reports
  <2> DEFINE row == Observation(s, ToolReport[t], ToolReport[t].evidence, ToolReport[t].size)
  <2>3. row.risk = "SAFE" => Proven(row)
    BY <2>1, <2>2, ObservationFair DEF Inv
  <2>4. rows' = [rows EXCEPT ![t] = row]
    BY <1>1 DEF ObserveTool
  <2>5. t \in Resources /\ t \notin Roots
    BY InventoryAssumption DEF Resources
  <2> HIDE DEF row
  <2> QED BY <2>3, <2>4, <2>5, FairRow
<1>2. ASSUME NEW s \in Scans, NEW r \in Roots, ObserveOutput(s, r) PROVE Fair(rows')
  <2> DEFINE seen  == saw[s][r].output
             there == content[r].output
             size  == IF there = None THEN 0 ELSE there.size
             row   == Observation(s, seen, Enriched(seen, there), size)
  <2>1. r \in FoundOutputs(s)
    BY <1>2 DEF Inv, Typed, Consistent, Work, Queued, ObserveOutput
  <2>2. seen \in Reports /\ seen.type \notin ManagedTypes
    <3>1. saw[s][r] \in Contents \union {Bare} /\ seen # None
      BY <2>1 DEF Inv, Typed, LocalTyped, FoundOutputs
    <3>2. saw[s][r] \in Contents
      BY <3>1 DEF Bare
    <3> QED BY <3>1, <3>2, Seen, PlanAssumption
  <2>3. there \in Reports \union {None}
    <3>1. content[r] \in Contents \union {Bare}
      BY DEF Inv, Typed, WorldTyped
    <3> QED BY <3>1, Seen
  <2>4. size \in Nat
    BY <2>3 DEF Reports
  <2>5. Enriched(seen, there) \in SUBSET CleanupFacts
    BY <2>2 DEF Enriched, CleanupFacts, Reports
  <2>6. rows' = [rows EXCEPT ![r] = row] /\ r \in Resources
    BY <1>2 DEF ObserveOutput, Resources
  <2>7. (row.risk = "SAFE" => Proven(row)) /\ (Proven(row) => row.risk = "SAFE")
    <3> HIDE DEF seen, there, size
    <3> QED BY <2>2, <2>4, <2>5, ObservationFair DEF Inv
  <2> HIDE DEF row
  <2> QED BY <2>6, <2>7, FairRow
<1>3. ASSUME NEW s \in Scans, WriteRequired(s) PROVE Fair(rows')
  <2> DEFINE row == Reclassified(held[s].row)
  <2>1. held[s] \in [id : Tools, row : Rows]
    BY <1>3 DEF Inv, Typed, Consistent, WriteRequired
  <2>2. held[s].row.report.type \in RequirableTypes
    BY <1>3, <2>1, InventoryAssumption DEF Inv, Backed, WriteRequired
  <2>3. row.risk = "BLOCKED"
    BY <2>1, <2>2, ReclassifiedTyped
  <2>4. rows' = [rows EXCEPT ![held[s].id] = row]
    BY <1>3 DEF WriteRequired
  <2>5. held[s].id \in Resources /\ held[s].id \notin Roots
    BY <2>1, InventoryAssumption DEF Resources
  <2> HIDE DEF row
  <2> QED BY <2>3, <2>4, <2>5, FairRow
<1>4. CASE rows' = rows
  BY <1>4
<1>5. ASSUME NEW s \in Scans, ScanStep(s) PROVE Fair(rows')
  BY <1>1, <1>2, <1>3, <1>4, <1>5
  DEF ScanStep, database, Start, Walk, WalkFails, NextDetector, Detect, PhaseDone, ToolRefused, ReadRequired,
      StoreWorkspace, StoreProjects, StoreMembers, StoreEdge, StoreIssues, Finish, FailIssues,
      FailSave, DatabaseFails
<1>6. CASE World \/ Tick \/ UNCHANGED vars
  BY <1>4, <1>6 DEF World, Edit, Upgrade, Crash, Tick, vars, database
<1> QED BY <1>5, <1>6 DEF TimedNext, Next, Over

\* No step removes an edge: those of a repository, which is all that is ever removed, are
\* of no build project.
LEMMA EdgesStay ==
    ASSUME Inv, [TimedNext]_vars
    PROVE  edges \subseteq edges'
<1>1. ASSUME NEW s \in Scans, StoreProjects(s) PROVE edges \subseteq edges'
  <2>1. \A e \in edges : e[1][2] = "build"
    BY DEF Inv, Sound
  <2> QED BY <1>1, <2>1 DEF StoreProjects, Git
<1>2. ASSUME NEW s \in Scans, NEW e \in Edges, StoreEdge(s, e) PROVE edges \subseteq edges'
  BY <1>2 DEF StoreEdge
<1>3. CASE edges' = edges
  BY <1>3
<1>4. ASSUME NEW s \in Scans, ScanStep(s) PROVE edges \subseteq edges'
  BY <1>1, <1>2, <1>3, <1>4
  DEF ScanStep, database, Start, Walk, WalkFails, NextDetector, Detect, PhaseDone, ObserveTool, ToolRefused,
      ReadRequired, ObserveOutput, WriteRequired, StoreWorkspace, StoreMembers, StoreIssues,
      Finish, FailIssues, FailSave, DatabaseFails
<1>5. CASE World \/ Tick \/ UNCHANGED vars
  BY <1>3, <1>5 DEF World, Edit, Upgrade, Crash, Tick, vars, database
<1> QED BY <1>4, <1>5 DEF TimedNext, Next, Over

\* A step leaves the memory and the status of q alone.
Rests(q) ==
    /\ pc'[q] = pc[q] /\ span'[q] = span[q] /\ saw'[q] = saw[q]
    /\ found'[q] = found[q] /\ todo'[q] = todo[q] /\ status'[q] = status[q]

\* Only one scan moves at a time.
LEMMA OneMoves ==
    ASSUME Inv, [TimedNext]_vars, NEW q \in Scans
    PROVE  Rests(q) \/ ScanStep(q) \/ Crash(q)
<1>1. ASSUME NEW s \in Scans, ScanStep(s) \/ Crash(s), s # q PROVE Rests(q)
  <2>1. Alone(s)
    BY <1>1, StartTyped, WalkTyped, WalkFailsTyped, DetectTyped, NextDetectorTyped, PhaseDoneTyped, ObserveToolTyped,
       ToolRefusedTyped, ObserveOutputTyped, ReadRequiredTyped, WriteRequiredTyped,
       StoreProjectsTyped, StoreWorkspaceTyped, StoreMembersTyped, StoreEdgeTyped,
       StoreIssuesTyped, FinishTyped, FailIssuesTyped, FailSaveTyped, DatabaseFailsTyped,
       CrashTyped DEF Inv, ScanStep
  <2>2. status'[q] = status[q]
    BY <1>1 DEF Inv, Typed, DatabaseTyped, ScanStep, database, Start, Walk, WalkFails,
       NextDetector, Detect, PhaseDone, ObserveTool, ToolRefused, ReadRequired, ObserveOutput, WriteRequired,
       StoreWorkspace, StoreProjects, StoreMembers, StoreEdge, StoreIssues, Finish, FailIssues,
       FailSave, DatabaseFails, Crash
  <2> QED BY <1>1, <2>1, <2>2 DEF Alone, Rests
<1>2. CASE UNCHANGED <<database, local>>
  BY <1>2 DEF Rests, database, local
<1>3. CASE World \/ Tick \/ UNCHANGED vars
  <2>1. CASE \E s \in Scans : Crash(s)
    BY <1>1, <2>1
  <2> QED BY <1>2, <1>3, <2>1 DEF World, Edit, Upgrade, Tick, vars
<1> QED BY <1>1, <1>3 DEF TimedNext, Next, Over

\* What a scan that is done has found stays.
LEMMA DoneRests ==
    ASSUME Inv, [TimedNext]_vars, NEW q \in Scans, pc[q] = "done"
    PROVE  Rests(q)
<1>1. ~ScanStep(q) /\ ~Crash(q)
  BY DEF ScanStep, Start, Walk, WalkFails, NextDetector, Detect, PhaseDone, ObserveTool, ToolRefused,
     ReadRequired, ObserveOutput, WriteRequired, StoreWorkspace, StoreProjects, StoreMembers,
     StoreEdge, StoreIssues, Finish, FailIssues, FailSave, DatabaseFails, Crash, Queued, Midway
<1> QED BY <1>1, OneMoves

\* The steps before the edges, and those that end a scan in failure.
LEMMA UnownedSteps ==
    ASSUME Inv, NEW s \in Scans, Owned(s),
           \/ Start(s) \/ Walk(s) \/ WalkFails(s) \/ NextDetector(s)
           \/ (\E d \in Detectors : Detect(s, d))
           \/ (\E t \in Tools : ObserveTool(s, t) \/ ToolRefused(s, t) \/ ReadRequired(s, t))
           \/ (\E r \in Roots : ObserveOutput(s, r) \/ StoreWorkspace(s, r))
           \/ WriteRequired(s) \/ StoreProjects(s) \/ StoreMembers(s)
           \/ FailIssues(s) \/ FailSave(s) \/ DatabaseFails(s) \/ Crash(s)
    PROVE  Owned(s)'
<1>1. pc[s] # "done"
  BY DEF Start, Walk, WalkFails, NextDetector, Detect, ObserveTool, ToolRefused, ReadRequired, ObserveOutput,
     StoreWorkspace, WriteRequired, StoreProjects, StoreMembers, FailIssues, FailSave,
     DatabaseFails, Crash, Midway, Queued
<1>2. pc'[s] \notin {"edges", "issues", "finish"}
  BY DEF Inv, Typed, LocalTyped, Start, Walk, WalkFails, NextDetector, Detect, ObserveTool, ToolRefused,
     ReadRequired, ObserveOutput, StoreWorkspace, WriteRequired, StoreProjects, StoreMembers,
     FailIssues, FailSave, DatabaseFails, Crash, Die, GoTo
<1>3. status'[s] \in {status[s], "RUNNING", "FAILED"}
  BY DEF Inv, Typed, DatabaseTyped, database, Start, Walk, WalkFails, NextDetector, Detect, ObserveTool,
     ToolRefused, ReadRequired, ObserveOutput, StoreWorkspace, WriteRequired, StoreProjects,
     StoreMembers, FailIssues, FailSave, DatabaseFails, Crash
<1> QED BY <1>1, <1>2, <1>3 DEF Owned, Ended

\* A phase that is over leaves no edge to store.
LEMMA PhaseDoneOwned ==
    ASSUME Inv, NEW s \in Scans, Owned(s), PhaseDone(s)
    PROVE  Owned(s)'
<1>1. /\ pc[s] \in Queued /\ todo[s] = {} /\ pc'[s] = After(pc[s])
      /\ todo'[s] = Work(s, After(pc[s])) /\ FoundEdges(s)' = FoundEdges(s)
      /\ edges' = edges /\ status' = status
  BY FindsAlike DEF PhaseDone, GoTo, Inv, Typed, LocalTyped, database
<1>2. status[s] \notin Ended
  BY <1>1 DEF Owned, Queued
<1>3. CASE pc[s] \in {"tools", "outputs", "reclassify"}
  BY <1>1, <1>2, <1>3, Order DEF Owned
<1>4. CASE pc[s] = "workspaces"
  BY <1>1, <1>2, <1>4, Order, WorkOf DEF Owned
<1>5. CASE pc[s] = "edges"
  BY <1>1, <1>2, <1>5, Order DEF Owned
<1> QED BY <1>1, <1>3, <1>4, <1>5 DEF Queued

\* A scan has stored its edges by the time that it completes.
LEMMA OwnedStays ==
    ASSUME Inv, [TimedNext]_vars, NEW s \in Scans, Owned(s)
    PROVE  Owned(s)'
<1>1. CASE Rests(s)
  <2>1. FoundEdges(s)' = FoundEdges(s)
    BY <1>1, FindsAlike DEF Rests
  <2> QED BY <1>1, <2>1, EdgesStay DEF Rests, Owned
<1>2. ASSUME NEW e \in Edges, StoreEdge(s, e) PROVE Owned(s)'
  <2>1. /\ pc[s] = "edges" /\ pc'[s] = "edges" /\ status' = status
        /\ todo'[s] = todo[s] \ {e} /\ edges' = edges \union {e}
        /\ FoundEdges(s)' = FoundEdges(s)
    BY <1>2, FindsAlike DEF StoreEdge, Done, Inv, Typed, LocalTyped
  <2> QED BY <2>1 DEF Owned
<1>3. CASE StoreIssues(s) \/ Finish(s)
  <2>1. /\ pc[s] \in {"issues", "finish"} /\ pc'[s] \in {"finish", "done"} /\ edges' = edges
        /\ pc'[s] = "done" \/ status' = status
        /\ FoundEdges(s)' = FoundEdges(s)
    BY <1>3, FindsAlike DEF StoreIssues, Finish, GoTo, Inv, Typed, LocalTyped
  <2> QED BY <2>1 DEF Owned
<1> QED BY <1>1, <1>2, <1>3, OneMoves, UnownedSteps, PhaseDoneOwned DEF ScanStep

\* It holds of every scan, beside a plan or without one.
LEMMA ReadyInit == Init => Ready
BY DEF Init, Ready, Fair, Owned, Ended

\* Every step keeps it.
LEMMA ReadyStep == Inv /\ Ready /\ [TimedNext]_vars => Ready'
<1> SUFFICES ASSUME Inv, Ready, [TimedNext]_vars PROVE Ready'
  OBVIOUS
<1>1. Fair(rows')
  BY FairStays DEF Ready
<1>2. \A s \in Scans : Owned(s)'
  BY OwnedStays DEF Ready
<1> QED BY <1>1, <1>2 DEF Ready, Fair, Proven

------------------------------------------------------------------------------
(* What the plan does.                                                      *)

\* One item more.
LEMMA OneMore ==
    ASSUME NEW chosen \in Seq(Sized), NEW item \in Sized
    PROVE  LET more == Append(chosen, item)
               last == Len(chosen) + 1
           IN  /\ more \in Seq(Sized) /\ more # <<>> /\ Front(more) = chosen
               /\ DOMAIN more = DOMAIN chosen \union {last} /\ last \notin DOMAIN chosen
               /\ more[last] = item /\ \A i \in DOMAIN chosen : more[i] = chosen[i]
<1> DEFINE more == Append(chosen, item)
           last == Len(chosen) + 1
<1>1. /\ more \in Seq(Sized) /\ Len(more) = last /\ Len(chosen) \in Nat
      /\ DOMAIN chosen = 1 .. Len(chosen) /\ DOMAIN more = 1 .. last
      /\ more[last] = item /\ \A i \in 1 .. Len(chosen) : more[i] = chosen[i]
  OBVIOUS
<1>2. more # <<>>
  BY <1>1
<1>3. Front(more) = chosen
  <2>1. Front(more) = SubSeq(more, 1, Len(chosen))
    BY <1>1 DEF Front
  <2>2. SubSeq(more, 1, Len(chosen)) \in Seq(Sized)
    BY <1>1
  <2>3. Len(SubSeq(more, 1, Len(chosen))) = Len(chosen)
    BY <1>1
  <2>4. \A i \in 1 .. Len(chosen) : SubSeq(more, 1, Len(chosen))[i] = chosen[i]
    BY <1>1
  <2> QED BY <2>1, <2>2, <2>3, <2>4
<1> QED BY <1>1, <1>2, <1>3

\* Candidates and their order depend on what was read only.
LEMMA ReadAlike ==
    ASSUME UNCHANGED <<scope, listed, at>>
    PROVE  /\ Safe' = Safe
           /\ \A x, y : Precedes(x, y)' <=> Precedes(x, y)
<1>1. Safe' = Safe
  BY DEF Safe, Age, AgedProfile
<1>2. \A x, y : Precedes(x, y)' <=> Precedes(x, y)
  BY DEF Precedes, Confidence, Age, AgedProfile
<1> QED BY <1>1, <1>2

\* Scans go on.
LEMMA Beside ==
    ASSUME Inv, PlanInv, [TimedNext]_vars, UNCHANGED plan
    PROVE  PlanInv'
<1> USE DEF PlanInv, plan
<1>1. Safe' = Safe /\ \A x, y : Precedes(x, y)' <=> Precedes(x, y)
  BY ReadAlike
<1>2. PlanTyped'
  BY <1>1 DEF PlanTyped
<1>3. Fair(listed)'
  BY DEF Fair, Proven
<1>4. ItemsHold'
  BY EdgesStay DEF ItemsHold
<1>5. SumHolds'
  BY DEF SumHolds
<1>6. NothingMissed'
  <2> SUFFICES ASSUME NEW s \in complete
               PROVE  /\ pc'[s] = "done"
                      /\ \A x \in FoundOutputs(s)' :
                          /\ listed[x] # None
                          /\ <<Build(x), "OWNS", x>> \in edges'
                          /\ x \in looked => \E i \in DOMAIN items : items[i].id = x
    BY DEF NothingMissed
  <2>1. s \in Scans /\ pc[s] = "done"
    BY DEF PlanTyped, NothingMissed
  <2>2. Rests(s)
    BY <2>1, DoneRests
  <2>3. FoundOutputs(s)' = FoundOutputs(s)
    BY <2>2, FindsAlike DEF Rests
  <2> QED BY <2>1, <2>2, <2>3, EdgesStay DEF NothingMissed, Rests
<1>7. InOrderTaken'
  BY <1>1 DEF InOrderTaken
<1>8. StoredLast'
  <2>1. Result' = Result /\ (Enough' <=> Enough)
    BY DEF Result, Enough
  <2> QED BY <1>1, <2>1 DEF StoredLast
<1> QED BY <1>2, <1>3, <1>4, <1>5, <1>6, <1>7, <1>8

\* A plan begins with nothing.
LEMMA BeginHolds ==
    ASSUME Inv, PlanInv, PlanBegin
    PROVE  PlanInv'
<1> USE DEF PlanInv
<1>1. /\ UNCHANGED vars /\ step' = "list"
      /\ UNCHANGED <<complete, listed, at, looked, items, selected, stored>>
      /\ looked' = {} /\ items' = <<>> /\ stored' = None
      /\ target' \in Int /\ scope' \subseteq Resources
  BY PlanAssumption DEF PlanBegin, StoredLast
<1>2. PlanTyped'
  BY <1>1 DEF PlanTyped
<1>3. Fair(listed)'
  BY <1>1 DEF Fair, Proven
<1>4. ItemsHold'
  BY <1>1 DEF ItemsHold
<1>5. SumHolds'
  BY <1>1 DEF SumHolds, Total
<1>6. NothingMissed'
  <2>1. pc' = pc /\ edges' = edges /\ \A s \in Scans : FoundOutputs(s)' = FoundOutputs(s)
    BY <1>1, FindsAlike DEF vars, world, database, local
  <2> QED BY <1>1, <2>1 DEF NothingMissed, PlanTyped
<1>7. InOrderTaken'
  BY <1>1 DEF InOrderTaken
<1>8. StoredLast'
  BY <1>1 DEF StoredLast
<1> QED BY <1>2, <1>3, <1>4, <1>5, <1>6, <1>7, <1>8

\* It lists what is stored.
LEMMA ListHolds ==
    ASSUME Inv, Ready, PlanInv, PlanList
    PROVE  PlanInv'
<1> USE DEF PlanInv
<1>1. /\ UNCHANGED vars /\ listed' = rows /\ at' = now /\ step' = "owners"
      /\ looked' = {} /\ items' = <<>> /\ selected' = selected /\ stored' = None
      /\ target' = target /\ scope' = scope
      /\ complete' = {s \in Scans : status[s] \in Ended}
  BY DEF PlanList, StoredLast, Ended
<1>2. PlanTyped'
  BY <1>1 DEF PlanTyped, Inv, Typed, DatabaseTyped, WorldTyped
<1>3. Fair(listed)'
  BY <1>1 DEF Ready, Fair, Proven
<1>4. ItemsHold'
  BY <1>1 DEF ItemsHold
<1>5. SumHolds'
  BY <1>1 DEF SumHolds, StoredLast, PlanList
<1>6. NothingMissed'
  <2> SUFFICES ASSUME NEW s \in complete'
               PROVE  /\ pc'[s] = "done"
                      /\ \A x \in FoundOutputs(s)' :
                          /\ listed'[x] # None
                          /\ <<Build(x), "OWNS", x>> \in edges'
    BY <1>1 DEF NothingMissed
  <2>1. s \in Scans /\ pc[s] = "done" /\ FoundEdges(s) \subseteq edges
    BY <1>1 DEF Ready, Owned
  <2>2. \A x \in FoundOutputs(s) : <<Build(x), "OWNS", x>> \in edges
    BY <2>1 DEF FoundEdges
  <2>3. \A x \in FoundOutputs(s) : rows[x] # None
    <3> SUFFICES ASSUME NEW x \in FoundOutputs(s) PROVE rows[x] # None
      OBVIOUS
    <3> DEFINE e == <<Build(x), "OWNS", x>>
    <3>1. e \in edges /\ e[3] = x
      BY <2>2
    <3> QED BY <3>1 DEF Inv, Sound
  <2>4. pc'[s] = pc[s] /\ edges' = edges /\ FoundOutputs(s)' = FoundOutputs(s)
    BY <1>1, FindsAlike DEF vars, world, database, local
  <2> QED BY <1>1, <2>1, <2>2, <2>3, <2>4
<1>7. InOrderTaken'
  BY <1>1 DEF InOrderTaken
<1>8. StoredLast'
  BY <1>1 DEF StoredLast
<1> QED BY <1>2, <1>3, <1>4, <1>5, <1>6, <1>7, <1>8

\* What a candidate is listed as.
LEMMA Candidate ==
    ASSUME PlanTyped, NEW x \in Safe
    PROVE  /\ x \in scope /\ x \in Resources
           /\ listed[x] \in Rows /\ listed[x].risk = "SAFE" /\ at - listed[x].observed <= 30
<1>1. x \in scope /\ listed[x] # None /\ AgedRisk(listed[x].risk, Age(x)) = "SAFE"
  BY DEF Safe
<1>2. x \in Resources /\ listed[x] \in Rows
  BY <1>1 DEF PlanTyped
<1>3. at \in Int /\ listed[x].observed \in Int
  BY <1>2, InventoryAssumption DEF PlanTyped, Rows
<1>4. listed[x].risk = "SAFE" /\ ~(FreshnessScore(Age(x)) < 80)
  BY <1>1 DEF AgedRisk
<1>5. Age(x) \in Int /\ FreshnessScore(Age(x)) \in Int
  BY <1>3 DEF Age, FreshnessScore
<1>6. Age(x) <= 30
  BY <1>4, <1>5, FreshFor
<1> QED BY <1>1, <1>2, <1>4, <1>6 DEF Age

\* One candidate is looked at.
LEMMA CandidateHolds ==
    ASSUME Inv, PlanInv, PlanCandidate
    PROVE  PlanInv'
<1> USE DEF PlanInv
<1>1. /\ UNCHANGED <<step, target, scope, complete, listed, at, stored>> /\ UNCHANGED vars
      /\ step = "owners" /\ ~Enough
  BY DEF PlanCandidate
<1>2. PICK x \in Safe \ looked :
          /\ First(x)
          /\ looked' = looked \union {x}
          /\ IF Owner(x) = {} THEN UNCHANGED <<items, selected>> ELSE \E p \in Owner(x) : Take(x, p)
  BY DEF PlanCandidate
<1>3. edges' = edges /\ \A s : FoundOutputs(s)' = FoundOutputs(s) /\ pc'[s] = pc[s]
  BY <1>1, FindsAlike DEF vars, database, local
<1>4. Safe' = Safe /\ \A y, z : Precedes(y, z)' <=> Precedes(y, z)
  BY <1>1, ReadAlike
<1>5. Fair(listed)'
  BY <1>1 DEF Fair, Proven
<1>6. InOrderTaken'
  BY <1>2, <1>4 DEF InOrderTaken, First
<1>7. StoredLast'
  BY <1>1 DEF StoredLast
<1>8. \A s \in complete : x \in FoundOutputs(s) => <<Build(x), "OWNS", x>> \in edges
  BY DEF NothingMissed
<1>9. CASE Owner(x) = {}
  <2>1. items' = items /\ selected' = selected
    BY <1>2, <1>9
  <2>2. PlanTyped'
    BY <1>1, <1>2, <1>4, <2>1 DEF PlanTyped
  <2>3. ItemsHold'
    BY <1>1, <1>2, <1>3, <2>1 DEF ItemsHold
  <2>4. SumHolds'
    BY <1>1, <2>1 DEF SumHolds
  <2>5. \A s \in complete : x \notin FoundOutputs(s)
    BY <1>8, <1>9 DEF Owner
  <2>6. NothingMissed'
    BY <1>1, <1>2, <1>3, <2>1, <2>5 DEF NothingMissed
  <2> QED BY <1>5, <1>6, <1>7, <2>2, <2>3, <2>4, <2>6
<1>10. CASE Owner(x) # {}
  <2>1. PICK p \in Owner(x) : Take(x, p)
    BY <1>2, <1>10
  <2> DEFINE item == [id |-> x, size |-> listed[x].reclaimable, owner |-> p]
             last == Len(items) + 1
  <2>2. items' = Append(items, item) /\ selected' = selected + item.size
    BY <2>1 DEF Take
  <2>3. <<p, "OWNS", x>> \in edges /\ p \in Projects /\ x \in Roots
    <3>1. PICK e \in edges : e[2] = "OWNS" /\ e[3] = x /\ p = e[1]
      BY <2>1 DEF Owner
    <3>2. e \in Edges
      BY DEF Inv, Typed, DatabaseTyped
    <3>3. e = <<e[1], e[2], e[3]>> /\ e[1] \in Projects /\ e[3] \in Roots
      BY <3>1, <3>2 DEF Edges
    <3> QED BY <3>1, <3>3
  <2>4. item \in Sized /\ item.id = x /\ item.size = listed[x].reclaimable /\ item.owner = p
    <3>1. listed[x] \in Rows /\ x \in Resources
      BY Candidate
    <3>2. listed[x].reclaimable \in Nat
      BY <3>1 DEF Rows
    <3> QED BY <2>3, <3>1, <3>2 DEF Sized
  <2> HIDE DEF item
  <2>5. items \in Seq(Sized) /\ selected = Total(items)
    BY DEF PlanTyped, SumHolds
  <2>6. /\ items' \in Seq(Sized) /\ items' # <<>> /\ Front(items') = items
        /\ DOMAIN items' = DOMAIN items \union {last} /\ last \notin DOMAIN items
        /\ items'[last] = item /\ \A i \in DOMAIN items : items'[i] = items[i]
    BY <2>2, <2>4, <2>5, OneMore
  <2> HIDE DEF last
  <2>7. PlanTyped'
    BY <1>1, <1>2, <1>4, <2>6 DEF PlanTyped
  <2>8. ItemsHold'
    <3>1. ASSUME NEW i \in DOMAIN items'
          PROVE  /\ items'[i].id \in looked' \intersect Roots
                 /\ items'[i].size = listed'[items'[i].id].reclaimable
                 /\ <<items'[i].owner, "OWNS", items'[i].id>> \in edges'
      <4>1. CASE i = last
        BY <4>1, <1>1, <1>2, <1>3, <2>3, <2>4, <2>6
      <4>2. CASE i \in DOMAIN items
        BY <4>2, <1>1, <1>2, <1>3, <2>6 DEF ItemsHold
      <4> QED BY <4>1, <4>2, <2>6
    <3>2. \A i \in DOMAIN items : items[i].id # x
      BY <1>2 DEF ItemsHold
    <3>3. \A i, j \in DOMAIN items' : i # j => items'[i].id # items'[j].id
      BY <2>4, <2>6, <3>2 DEF ItemsHold
    <3> QED BY <3>1, <3>3 DEF ItemsHold
  <2>9. SumHolds'
    <3>1. Total(items) \in Nat /\ Total(items') = Total(items) + item.size
      BY <2>2, <2>4, <2>5, TotalAppend
    <3>2. target > 0 => Total(items) < target
      BY <1>1, <2>5, <3>1 DEF Enough, PlanTyped
    <3> QED BY <1>1, <2>2, <2>5, <2>6, <3>1, <3>2 DEF SumHolds
  <2>10. NothingMissed'
    <3> SUFFICES ASSUME NEW s \in complete, NEW y \in FoundOutputs(s)
                 PROVE  y \in looked' => \E i \in DOMAIN items' : items'[i].id = y
      BY <1>1, <1>3 DEF NothingMissed
    <3>1. CASE y = x
      BY <3>1, <2>4, <2>6
    <3>2. y # x /\ y \in looked' => y \in looked
      BY <1>2
    <3>3. y \in looked => \E i \in DOMAIN items : items[i].id = y
      BY DEF NothingMissed
    <3>4. CASE y # x
      BY <3>2, <3>3, <3>4, <2>6
    <3> QED BY <3>1, <3>4
  <2> QED BY <1>5, <1>6, <1>7, <2>7, <2>8, <2>9, <2>10
<1> QED BY <1>9, <1>10

\* The plan is stored as it was made, unless its target is out of range.
LEMMA StoreHolds ==
    ASSUME Inv, PlanInv, PlanStore
    PROVE  PlanInv'
<1> USE DEF PlanInv
<1>1. /\ UNCHANGED <<target, scope, complete, listed, at, looked, items, selected>>
      /\ UNCHANGED vars /\ step' = "done" /\ (looked = Safe \/ Enough)
      /\ stored' = IF Valid(Result) THEN Result ELSE None
  BY DEF PlanStore, Result
<1>2. Valid(Result) <=> target >= 0
  BY DEF Valid, Result, ItemsHold, SumHolds
<1>3. edges' = edges /\ \A s : FoundOutputs(s)' = FoundOutputs(s) /\ pc'[s] = pc[s]
  BY <1>1, FindsAlike DEF vars, database, local
<1>4. Safe' = Safe /\ \A y, z : Precedes(y, z)' <=> Precedes(y, z)
  BY <1>1, ReadAlike
<1>5. PlanTyped'
  BY <1>1, <1>4 DEF PlanTyped
<1>6. Fair(listed)'
  BY <1>1 DEF Fair, Proven
<1>7. ItemsHold' /\ SumHolds' /\ NothingMissed'
  BY <1>1, <1>3 DEF ItemsHold, SumHolds, NothingMissed
<1>8. InOrderTaken'
  BY <1>1, <1>4 DEF InOrderTaken
<1>9. StoredLast'
  <2>1. Result' = Result /\ (Enough' <=> Enough) /\ target' = target
    BY <1>1 DEF Result, Enough
  <2>2. stored' = IF target < 0 THEN None ELSE Result
    BY <1>1, <1>2 DEF PlanTyped
  <2> QED BY <1>1, <1>4, <2>1, <2>2 DEF StoredLast
<1> QED BY <1>5, <1>6, <1>7, <1>8, <1>9

\* The invariant is inductive.
LEMMA PlanHolds == PlanSpec => [](Inv /\ Ready /\ PlanInv)
<1>1. PlanInit => Inv /\ Ready /\ PlanInv
  <2> SUFFICES ASSUME PlanInit PROVE PlanInv
    BY InitInv, ReadyInit DEF PlanInit
  <2> USE DEF PlanInit
  <2>1. PlanTyped
    BY InventoryAssumption DEF PlanTyped, NotRead
  <2>2. Fair(listed)
    BY DEF Fair, NotRead
  <2>3. ItemsHold /\ NothingMissed /\ InOrderTaken /\ StoredLast
    BY DEF ItemsHold, NothingMissed, InOrderTaken, StoredLast
  <2>4. SumHolds
    BY TotalEmpty DEF SumHolds
  <2> QED BY <2>1, <2>2, <2>3, <2>4 DEF PlanInv
<1>2. (Inv /\ Ready /\ PlanInv) /\ [(TimedNext /\ UNCHANGED plan) \/ Plan]_planVars
        => (Inv /\ Ready /\ PlanInv)'
  <2> SUFFICES ASSUME Inv, Ready, PlanInv, [(TimedNext /\ UNCHANGED plan) \/ Plan]_planVars
               PROVE  (Inv /\ Ready /\ PlanInv)'
    OBVIOUS
  <2>1. CASE (TimedNext \/ UNCHANGED vars) /\ UNCHANGED plan
    <3>1. [TimedNext]_vars /\ UNCHANGED plan
      BY <2>1
    <3> QED BY <3>1, StepInv, ReadyStep, Beside
  <2>2. CASE Plan
    <3>1. [TimedNext]_vars
      BY <2>2 DEF Plan, PlanBegin, PlanList, PlanCandidate, PlanStore
    <3> QED BY <2>2, <3>1, StepInv, ReadyStep, BeginHolds, ListHolds, CandidateHolds, StoreHolds DEF Plan
  <2> QED BY <2>1, <2>2 DEF planVars
<1> QED BY <1>1, <1>2, PTL DEF PlanSpec

------------------------------------------------------------------------------
(* What makes a candidate.                                                  *)

\* The least element of a set.
LEMMA LeastIs ==
    ASSUME NEW S \in SUBSET Int, NEW n \in S, \A m \in S : n <= m
    PROVE  Least(S) = n
<1>1. \E k \in S : \A m \in S : k <= m
  OBVIOUS
<1>2. Least(S) \in S /\ \A m \in S : Least(S) <= m
  BY <1>1 DEF Least
<1>3. Least(S) \in Int /\ n \in Int
  BY <1>2
<1> QED BY <1>2, <1>3

\* A claim that one detector has resolved counts 90.
LEMMA ResolvedClaim ==
    ASSUME NEW claim, NEW evidence, {item \in evidence : item.claim = claim} = {Claim(claim, TRUE)}
    PROVE  AssessClaim(claim, evidence) = 90
<1> DEFINE one == Claim(claim, TRUE)
           known == {item \in evidence : item.claim = claim /\ item.kind # "UNKNOWN"}
           supporting == {item \in known : ~item.contradicts}
           families == {item.family : item \in supporting}
           tops == {DefaultConfidence(item.kind) : item \in supporting}
           support == IF supporting = {} THEN 0 ELSE Corroborated(Greatest(tops), Cardinality(families))
           caps == {100} \union (IF known # supporting THEN {49} ELSE {})
                         \union (IF \E item \in supporting : item.stale THEN {30} ELSE {})
<1>1. AssessClaim(claim, evidence) = Least(caps \union {support})
  BY DEF AssessClaim
<1>2. /\ one.claim = claim /\ one.kind = "RESOLVED" /\ one.family = claim
      /\ ~one.contradicts /\ ~one.stale
  BY DEF Claim
<1> HIDE DEF one
<1>3. known = {one}
  <2>1. known = {item \in {one} : item.kind # "UNKNOWN"}
    BY DEF one
  <2> QED BY <2>1, <1>2
<1> HIDE DEF known
<1>4. supporting = {one}
  BY <1>2, <1>3
<1> HIDE DEF supporting
<1>5. families = {claim}
  BY <1>2, <1>4
<1>6. tops = {90}
  BY <1>2, <1>4 DEF DefaultConfidence
<1>7. caps = {100}
  BY <1>2, <1>3, <1>4
<1>8. Greatest(tops) = 90
  BY <1>6 DEF Greatest
<1>9. Cardinality(families) = 1
  BY <1>5, FS_Singleton
<1> HIDE DEF families, tops, caps
<1>10. Corroborated(90, 1) = 90
  <2> DEFINE Def(f) == [n \in 0 .. 1 - 1 |->
                          IF n = 0 THEN 90 ELSE f[n - 1] + Least({5, (100 - f[n - 1]) \div 4})]
             score == CHOOSE f : f = Def(f)
  <2>1. \A f : Def(f) = [n \in 0 .. 0 |-> 90]
    <3>1. \A n \in 0 .. 0 : n = 0
      OBVIOUS
    <3> QED BY <3>1
  <2>2. Def([n \in 0 .. 0 |-> 90]) = [n \in 0 .. 0 |-> 90]
    BY <2>1
  <2>3. score = Def(score)
    <3> HIDE DEF Def
    <3> QED BY <2>2
  <2>4. Corroborated(90, 1) = score[1 - 1]
    BY DEF Corroborated
  <2> HIDE DEF score, Def
  <2>5. score = [n \in 0 .. 0 |-> 90]
    BY <2>1, <2>3
  <2> QED BY <2>4, <2>5
<1>11. support = 90
  BY <1>4, <1>8, <1>9, <1>10
<1> HIDE DEF support
<1>12. caps \union {support} \in SUBSET Int /\ 90 \in caps \union {support}
  BY <1>7, <1>11
<1>13. \A m \in caps \union {support} : 90 <= m
  BY <1>7, <1>11
<1> QED BY <1>1, <1>12, <1>13, LeastIs

\* So does an axis of such claims.
LEMMA ResolvedAxis ==
    ASSUME NEW required, required # {}, NEW evidence,
           \A claim \in required : {item \in evidence : item.claim = claim} = {Claim(claim, TRUE)}
    PROVE  AssessAxis(required, evidence) = 90
<1>1. \A claim \in required : AssessClaim(claim, evidence) = 90
  BY ResolvedClaim
<1>2. {AssessClaim(claim, evidence) : claim \in required} = {90}
  BY <1>1
<1>3. Least({100} \union {90}) = 90
  BY LeastIs
<1> QED BY <1>2, <1>3 DEF AssessAxis

\* What is proven, and seen lately by a detector that is not without any confidence, is a
\* candidate on every axis.
LEMMA ProvenIsEligible ==
    ASSUME NEW report \in Reports, report.regenerable, report.evidence = CleanupFacts,
           report.confidence > 0, NEW days \in Int, days <= 30
    PROVE  Eligible(Aged(ConfidenceProfile(report, report.evidence), days), report)
<1> DEFINE fact == Normalize(report.evidence)
           claims == {Claim(f, fact[f] = "VERIFIED_TRUE") : f \in CleanupFacts}
                         \union {Claim(c, report.regenerable) : c \in RegenerationClaims}
           axis(cs) == IF report.scoped THEN AssessAxis(cs, claims) ELSE 100
           profile == Aged(ConfidenceProfile(report, report.evidence), days)
<1>1. \A f \in CleanupFacts : Normalize(report.evidence)[f] = "VERIFIED_TRUE"
  BY DEF Normalize
<1>2. \A c \in CleanupFacts \union RegenerationClaims :
          {item \in claims : item.claim = c} = {Claim(c, TRUE)}
  <2>1. claims = {Claim(c, TRUE) : c \in CleanupFacts \union RegenerationClaims}
    <3> DEFINE fromFact(f) == Claim(f, fact[f] = "VERIFIED_TRUE")
               fromReport(c) == Claim(c, report.regenerable)
               sure(c) == Claim(c, TRUE)
    <3>1. \A f \in CleanupFacts : fromFact(f) = sure(f)
      BY <1>1 DEF Claim
    <3>2. \A c \in RegenerationClaims : fromReport(c) = sure(c)
      BY DEF Claim
    <3>3. claims = {fromFact(f) : f \in CleanupFacts} \union {fromReport(c) : c \in RegenerationClaims}
      OBVIOUS
    <3> HIDE DEF fromFact, fromReport, sure, claims
    <3>4. claims = {sure(c) : c \in CleanupFacts \union RegenerationClaims}
      BY <3>1, <3>2, <3>3
    <3> QED BY <3>4 DEF sure
  <2>2. \A c : Claim(c, TRUE).claim = c
    BY DEF Claim
  <2> HIDE DEF claims
  <2>3. ASSUME NEW c \in CleanupFacts \union RegenerationClaims
        PROVE  {item \in claims : item.claim = c} = {Claim(c, TRUE)}
    <3>1. Claim(c, TRUE) \in claims /\ Claim(c, TRUE).claim = c
      BY <2>1, <2>2
    <3>2. ASSUME NEW item \in claims, item.claim = c PROVE item = Claim(c, TRUE)
      <4>1. PICK b \in CleanupFacts \union RegenerationClaims : item = Claim(b, TRUE)
        BY <2>1
      <4>2. b = c
        BY <2>2, <3>2, <4>1
      <4> QED BY <4>1, <4>2
    <3> QED BY <3>1, <3>2
  <2> QED BY <2>3
<1> HIDE DEF claims
<1>3. axis({"ProjectOwned"}) >= 90
  <2>1. AssessAxis({"ProjectOwned"}, claims) = 90
    BY <1>2, ResolvedAxis DEF CleanupFacts
  <2> QED BY <2>1
<1>4. axis({"KnownOutputPath"} \union RegenerationClaims) >= 90
  <2>1. AssessAxis({"KnownOutputPath"} \union RegenerationClaims, claims) = 90
    BY <1>2, ResolvedAxis DEF CleanupFacts
  <2> QED BY <2>1
<1>5. axis({"ReparsePointFree", "GitTrackedOriginalsAbsent"}) >= 90
  <2>1. AssessAxis({"ReparsePointFree", "GitTrackedOriginalsAbsent"}, claims) = 90
    BY <1>2, ResolvedAxis DEF CleanupFacts
  <2> QED BY <2>1
<1>6. FreshnessScore(days) >= 80
  BY FreshFor
<1>7. report.confidence \in 0 .. 100
  BY DEF Reports
<1>8. profile = [CLASSIFICATION |-> report.confidence,
                 OWNERSHIP      |-> axis({"ProjectOwned"}),
                 DEPENDENCY     |-> 80,
                 REGENERABILITY |-> axis({"KnownOutputPath"} \union RegenerationClaims),
                 PATH_SAFETY    |-> axis({"ReparsePointFree", "GitTrackedOriginalsAbsent"}),
                 SCAN_COVERAGE  |-> 80,
                 FRESHNESS      |-> FreshnessScore(days)]
  <2>1. ConfidenceProfile(report, report.evidence) =
            [CLASSIFICATION |-> report.confidence,
             OWNERSHIP      |-> axis({"ProjectOwned"}),
             DEPENDENCY     |-> 80,
             REGENERABILITY |-> axis({"KnownOutputPath"} \union RegenerationClaims),
             PATH_SAFETY    |-> axis({"ReparsePointFree", "GitTrackedOriginalsAbsent"}),
             SCAN_COVERAGE  |-> 80,
             FRESHNESS      |-> 100]
    BY Zenon DEF ConfidenceProfile, claims
  <2> HIDE DEF axis
  <2> QED BY <2>1 DEF Aged
<1> HIDE DEF axis, profile
<1>9. \A a \in Axes : profile[a] >= Threshold(a)
  <2>1. profile["CLASSIFICATION"] >= 1
    BY <1>7, <1>8
  <2>2. /\ profile["OWNERSHIP"] >= 90 /\ profile["REGENERABILITY"] >= 90
        /\ profile["PATH_SAFETY"] >= 90
    BY <1>3, <1>4, <1>5, <1>8
  <2>3. profile["DEPENDENCY"] >= 80 /\ profile["SCAN_COVERAGE"] >= 80 /\ profile["FRESHNESS"] >= 80
    BY <1>6, <1>8
  <2>4. /\ \A a \in CleanupAxes : Threshold(a) = 90
        /\ \A a \in {"DEPENDENCY", "SCAN_COVERAGE", "FRESHNESS"} : Threshold(a) = 80
        /\ Threshold("CLASSIFICATION") = 1
    BY DEF Threshold, CleanupAxes
  <2> QED BY <2>1, <2>2, <2>3, <2>4 DEF Axes, CleanupAxes
<1>10. Applicable(report) \subseteq Axes
  BY DEF Applicable
<1> QED BY <1>9, <1>10 DEF Eligible, profile

------------------------------------------------------------------------------
(* Theorems.                                                                *)

\* Whatever scans store while a plan is made, and whatever the target, a READY plan reaches
\* it and would not without its last item; another does not (contracts.md section 23.1).
THEOREM TargetIsMet == PlanSpec => []PlanMeetsTarget
<1>1. PlanInv => PlanMeetsTarget
  <2> SUFFICES ASSUME PlanInv, stored # None, target > 0
               PROVE  /\ stored.status = "READY" => /\ stored.selected >= target
                                                    /\ stored.items # <<>>
                                                    /\ Total(Front(stored.items)) < target
                      /\ stored.status = "INSUFFICIENT_CANDIDATES" => stored.selected < target
    BY DEF PlanMeetsTarget
  <2>1. stored = Result
    BY DEF PlanInv, StoredLast, PlanTyped
  <2>2. items \in Seq(Sized) /\ selected = Total(items) /\ target \in Int
    BY DEF PlanInv, PlanTyped, SumHolds
  <2>3. selected \in Int
    BY <2>2, TotalTyped
  <2>4. items # <<>> => Total(Front(items)) < target
    BY DEF PlanInv, SumHolds
  <2>5. items = <<>> => selected < target
    BY <2>2, TotalEmpty
  <2> QED BY <2>1, <2>2, <2>3, <2>4, <2>5 DEF Result
<1> QED BY <1>1, PlanHolds, PTL

\* What a plan takes is proven, for any roots, contents and targets and any number of scans
\* that store, fail and crash while the plan is made (plan_service.go:92-118).
THEOREM TakenIsProven == PlanSpec => []PlanIsProven
<1>1. Inv /\ PlanInv => PlanIsProven
  <2> SUFFICES ASSUME Inv, PlanInv, stored # None, NEW i \in DOMAIN stored.items
               PROVE  LET item == stored.items[i]
                          row  == listed[item.id]
                      IN  /\ item.id \in scope \intersect Roots
                          /\ row.report.regenerable /\ ~row.report.protected
                          /\ row.report.evidence = CleanupFacts
                          /\ at - row.observed <= 30
                          /\ item.owner \in projects /\ <<item.owner, "OWNS", item.id>> \in edges
                          /\ item.size = row.reclaimable
    BY DEF PlanIsProven
  <2> USE DEF PlanInv
  <2>1. stored.items = items
    BY DEF StoredLast, Result
  <2> DEFINE item == items[i]
             row  == listed[item.id]
  <2>2. /\ item.id \in looked \intersect Roots /\ item.size = row.reclaimable
        /\ <<item.owner, "OWNS", item.id>> \in edges
    BY <2>1 DEF ItemsHold
  <2>3. item.id \in Safe
    BY <2>2 DEF PlanTyped
  <2>4. /\ item.id \in scope /\ item.id \in Resources
        /\ row \in Rows /\ row.risk = "SAFE" /\ at - row.observed <= 30
    BY <2>3, Candidate
  <2>5. row # None
    BY <2>4, InventoryAssumption
  <2>6. Proven(row)
    BY <2>4, <2>5 DEF Fair
  <2>7. item.owner \in projects
    BY <2>2 DEF Inv, Sound
  <2> QED BY <2>1, <2>2, <2>4, <2>6, <2>7 DEF Proven
<1> QED BY <1>1, PlanHolds, PTL

\* What a completed scan has found and is proven and fresh is in the plan, or the plan has
\* enough of what is as good, whatever other scans store meanwhile (plan_service.go:106-131).
THEOREM NothingIsMissed == PlanSpec => []PlanMissesNothing
<1>1. PlanInv => PlanMissesNothing
  <2> SUFFICES ASSUME PlanInv, stored # None, NEW x \in (scope \intersect Roots) \ Chosen,
                      \E s \in complete : x \in FoundOutputs(s),
                      listed[x].report.regenerable /\ ~listed[x].report.protected,
                      listed[x].report.evidence = CleanupFacts, listed[x].report.confidence > 0,
                      at - listed[x].observed <= 30
               PROVE  /\ stored.status = "READY" /\ target > 0
                      /\ \A y \in Chosen :
                           \/ Confidence(y) > Confidence(x)
                           \/ Confidence(y) = Confidence(x)
                               /\ listed[y].reclaimable >= listed[x].reclaimable
    BY DEF PlanMissesNothing
  <2> USE DEF PlanInv
  <2>1. stored = Result /\ (looked = Safe \/ Enough)
    BY DEF StoredLast
  <2>2. Chosen = {items[i].id : i \in DOMAIN items}
    BY <2>1 DEF Chosen, Result
  <2>3. listed[x] # None /\ listed[x] \in Rows /\ x \in Resources
    BY DEF NothingMissed, PlanTyped, Resources
  <2>4. x \in Safe
    <3>1. listed[x].risk = "SAFE"
      BY <2>3 DEF Fair, Proven
    <3>2. listed[x].report \in Reports /\ listed[x].observed \in Int /\ at \in Int
      BY <2>3, InventoryAssumption DEF Rows, PlanTyped
    <3>3. Age(x) \in Int /\ Age(x) <= 30
      BY <3>2 DEF Age
    <3>4. AgedRisk(listed[x].risk, Age(x)) = "SAFE"
      <4>1. FreshnessScore(Age(x)) >= 80 /\ FreshnessScore(Age(x)) \in Int
        BY <3>3, FreshFor DEF FreshnessScore
      <4> QED BY <3>1, <4>1 DEF AgedRisk
    <3>5. Eligible(AgedProfile(x), listed[x].report)
      BY <3>2, <3>3, ProvenIsEligible DEF AgedProfile
    <3> QED BY <2>3, <3>4, <3>5 DEF Safe
  <2>5. x \notin looked
    BY <2>2 DEF NothingMissed
  <2>6. Enough /\ target > 0 /\ ~(selected < target)
    <3>1. Enough
      BY <2>1, <2>4, <2>5
    <3>2. selected \in Int /\ target \in Int
      BY TotalTyped DEF PlanTyped, SumHolds
    <3> QED BY <3>1, <3>2 DEF Enough
  <2>7. stored.status = "READY"
    BY <2>1, <2>6 DEF Result
  <2>8. ASSUME NEW y \in Chosen
        PROVE  \/ Confidence(y) > Confidence(x)
               \/ Confidence(y) = Confidence(x)
                   /\ listed[y].reclaimable >= listed[x].reclaimable
    <3>1. y \in looked
      BY <2>2 DEF ItemsHold
    <3>2. Precedes(y, x)
      BY <2>4, <2>5, <3>1 DEF InOrderTaken
    <3>3. listed[y] \in Rows
      BY <3>1, Candidate DEF PlanTyped
    <3>4. listed[y].reclaimable \in Nat /\ listed[x].reclaimable \in Nat
      BY <2>3, <3>3 DEF Rows
    <3> QED BY <3>2, <3>4 DEF Precedes
  <2> QED BY <2>6, <2>7, <2>8
<1> QED BY <1>1, PlanHolds, PTL

\* The checks of validateCleanupPlan never refuse what Build selects, for they repeat what
\* the selection ensures: what was chosen is stored as it is, unless the target is out of
\* range (cleanup_plan_repository.go:117-147).
THEOREM SelectionIsValid ==
    PlanSpec => [](step = "done" => stored = IF target < 0 THEN None ELSE Result)
<1>1. PlanInv => (step = "done" => stored = IF target < 0 THEN None ELSE Result)
  BY DEF PlanInv, StoredLast
<1> QED BY <1>1, PlanHolds, PTL
==============================================================================
