----------------------------- MODULE InventoryProofs ----------------------------
(***************************************************************************)
(* Proofs about Inventory, for any roots, tools, contents and number of     *)
(* scans, with all faults.                                                  *)
(***************************************************************************)
EXTENDS Inventory, TLAPS

WorldTyped ==
    /\ content \in [Roots -> Contents]
    /\ installed \subseteq Tools
    /\ now \in 0 .. MaxTime

DatabaseTyped ==
    /\ rows \in [Resources -> Rows \union {None}]
    /\ projects \subseteq Projects
    /\ workspaces \subseteq Roots
    /\ edges \subseteq Edges
    /\ members \in [Roots -> SUBSET Projects]
    /\ status \in [Scans -> {"NONE", "RUNNING", "COMPLETED", "COMPLETED_WITH_ERRORS", "FAILED"}]
    /\ issues \subseteq Scans

Labels == Phases \union Midway \union Ending \union {"idle", "walk", "detect", "done"}

LocalTyped ==
    /\ pc \in [Scans -> Labels]
    /\ span \in [Scans -> SUBSET Roots]
    /\ saw \in [Scans -> [Roots -> Contents \union {Bare}]]
    /\ unasked \in [Scans -> SUBSET Detectors]
    /\ found \in [Scans -> SUBSET Tools]
    /\ todo \in [Scans -> SUBSET (Tools \union Roots \union Edges)]
    /\ held \in [Scans -> {None} \union Roots \union [id : Tools, row : Rows]]
    /\ warned \in [Scans -> BOOLEAN]

Consistent(s) ==
    /\ pc[s] \in Queued => todo[s] \subseteq Work(s, pc[s])
    /\ pc[s] = "reclassified" => /\ held[s] \in [id : Tools, row : Rows]
                                 /\ todo[s] \subseteq RequiredTools(s)
    /\ pc[s] = "members" => held[s] \in Roots /\ todo[s] \subseteq FoundWorkspaces(s)
    /\ pc[s] \in Phases \union {"idle", "walk", "detect"} => held[s] = None

Typed == WorldTyped /\ DatabaseTyped /\ LocalTyped /\ \A s \in Scans : Consistent(s)

BeforeTools   == {"idle", "walk", "detect"}
AfterOutputs  == {"reclassify", "reclassified", "projects", "workspaces", "members", "edges"}
AfterProjects == {"workspaces", "members", "edges"}

\* What the database holds fits together.
Sound ==
    /\ \A t \in Tools : rows[t] # None => rows[t].report.type = ToolReport[t].type
    /\ \A r \in Roots : Git(r) \notin projects \/ Build(r) \notin projects
    /\ \A e \in edges : e[1] \in projects /\ e[1][2] = "build" /\ rows[e[3]] # None
    /\ \A w \in Roots : \A p \in members[w] : p \in projects /\ p[2] = "build"

\* What a scan has found is stored by the time that later phases refer to it.
Backed(s) ==
    /\ pc[s] = "tools" => \A t \in found[s] \ todo[s] : rows[t] # None
    /\ pc[s] \in BeforeTools => \A t \in found[s] : rows[t] # None
    /\ pc[s] \in AfterOutputs \union {"outputs"} => \A t \in found[s] : rows[t] # None
    /\ pc[s] = "outputs" => \A r \in FoundOutputs(s) \ todo[s] : rows[r] # None
    /\ pc[s] \in AfterOutputs => \A r \in FoundOutputs(s) : rows[r] # None
    /\ pc[s] \in AfterProjects => \A r \in span[s] : saw[s][r].build => Build(r) \in projects
    /\ pc[s] = "reclassified" => held[s].row.report.type = ToolReport[held[s].id].type
    /\ pc[s] = "members" => held[s] \in workspaces

------------------------------------------------------------------------------
(* Data.                                                                    *)

\* The phases follow each other in the order of the code.
LEMMA Order ==
    /\ After("tools") = "outputs"
    /\ After("outputs") = "reclassify"
    /\ After("reclassify") = "projects"
    /\ After("workspaces") = "edges"
    /\ After("edges") = "issues"
BY DEF After

\* What each phase has to do.
LEMMA WorkOf ==
    ASSUME NEW s
    PROVE  /\ Work(s, "tools") = found[s]
           /\ Work(s, "outputs") = FoundOutputs(s)
           /\ Work(s, "reclassify") = RequiredTools(s)
           /\ Work(s, "workspaces") = FoundWorkspaces(s)
           /\ Work(s, "edges") = FoundEdges(s)
           /\ Work(s, "projects") = {}
           /\ Work(s, "issues") = {}
BY DEF Work

\* Every resource has a verdict.
LEMMA Verdict ==
    ASSUME NEW c \in Contexts
    PROVE  Classify(c) \in RiskLevels
<1>1. CASE c.type \in ManagedTypes
  BY <1>1 DEF Classify, ManagedTypes, RiskLevels, Contexts, ResourceTypes, ProjectLocalTypes, RequirableTypes
<1>2. CASE c.type \notin ManagedTypes
  BY <1>2 DEF Classify, ManagedTypes, RiskLevels, Contexts, ResourceTypes, ProjectLocalTypes, RequirableTypes
<1> QED BY <1>1, <1>2

\* What projects require is blocked, whatever else is known of it.
LEMMA RequiredBlocks ==
    ASSUME NEW c \in Contexts, c.required, c.type \in RequirableTypes
    PROVE  Classify(c) = "BLOCKED"
BY DEF Classify, Contexts, ManagedTypes, RequirableTypes, ProjectLocalTypes, RecoverableLocally

\* What a scan may have seen at a root.
LEMMA Seen ==
    ASSUME NEW c \in Contents \union {Bare}
    PROVE  /\ c.git \in BOOLEAN /\ c.build \in BOOLEAN
           /\ c.needs \subseteq Tools
           /\ c.output \in Reports \union {None}
           /\ c.members \subseteq Roots
           /\ ~c.build => c.needs = {} /\ c.output = None
<1>1. CASE c = Bare
  BY <1>1 DEF Bare
<1>2. CASE c \in Contents
  <2>1. c \in [git : BOOLEAN, build : BOOLEAN, needs : SUBSET Tools,
               output : Reports \union {None}, members : SUBSET Roots]
    BY <1>2, InventoryAssumption
  <2>2. ~c.build => c.needs = {} /\ c.output = None
    BY <1>2, InventoryAssumption
  <2> QED BY <2>1, <2>2
<1> QED BY <1>1, <1>2

\* A row is stored as it should be.
LEMMA RowTyped ==
    ASSUME Typed, NEW s \in Scans, NEW report \in Reports,
           NEW evidence \in SUBSET CleanupFacts, NEW size \in Nat
    PROVE  /\ Observation(s, report, evidence, size) \in Rows
           /\ Observation(s, report, evidence, size).by = s
           /\ Observation(s, report, evidence, size).report.type = report.type
<1> DEFINE c == [type |-> report.type, protected |-> report.protected,
                 regenerable |-> report.regenerable, required |-> FALSE, evidence |-> evidence]
           stored == [report EXCEPT !.size = size, !.evidence = evidence]
           row == [report      |-> stored,
                   risk        |-> Classify(c),
                   reclaimable |-> CASE Classify(c) = "SAFE" -> size
                                     [] Classify(c) = "REVIEW" -> report.reclaimable
                                     [] Classify(c) = "BLOCKED" -> 0,
                   observed    |-> now,
                   by          |-> s]
<1>1. c \in Contexts
  BY DEF Contexts, Reports
<1>2. Classify(c) \in RiskLevels
  BY <1>1, Verdict
<1>3. stored \in Reports /\ stored.type = report.type
  BY DEF Reports
<1>4. now \in 0 .. MaxTime
  BY DEF Typed, WorldTyped
<1>5. Observation(s, report, evidence, size) = row
  BY DEF Observation
<1>51. report.reclaimable \in Nat
  BY DEF Reports
<1>52. row.reclaimable \in Nat
  BY <1>2, <1>51 DEF RiskLevels
<1> HIDE DEF c, stored
<1>6. row \in Rows /\ row.by = s /\ row.report = stored
  BY <1>2, <1>3, <1>4, <1>52 DEF Rows
<1> QED BY <1>3, <1>5, <1>6

\* A verdict that is written again is BLOCKED, and nothing else of the row changes.
LEMMA ReclassifiedTyped ==
    ASSUME NEW row \in Rows, row.report.type \in RequirableTypes
    PROVE  /\ Reclassified(row) \in Rows
           /\ Reclassified(row).risk = "BLOCKED"
           /\ Reclassified(row).report = row.report
<1> DEFINE c == [type |-> row.report.type, protected |-> row.report.protected,
                 regenerable |-> row.report.regenerable, required |-> TRUE, evidence |-> {}]
<1>1. row.report \in Reports
  BY DEF Rows
<1>2. c \in Contexts /\ c.required /\ c.type \in RequirableTypes
  BY <1>1 DEF Contexts, Reports
<1>3. Classify(c) = "BLOCKED"
  BY <1>2, RequiredBlocks
<1> QED BY <1>3 DEF Reclassified, Rows, RiskLevels
------------------------------------------------------------------------------
(* Types.                                                                   *)

\* A step of s, or of the world if s is none of the scans, leaves the memory of the
\* other scans alone.
Alone(s) ==
    \A q \in Scans \ {s} :
        /\ pc'[q] = pc[q] /\ span'[q] = span[q] /\ saw'[q] = saw[q]
        /\ found'[q] = found[q] /\ todo'[q] = todo[q] /\ held'[q] = held[q]

\* What a scan has found depends on its own memory only.
LEMMA FindsAlike ==
    ASSUME NEW q, span'[q] = span[q], saw'[q] = saw[q], found'[q] = found[q]
    PROVE  /\ FoundProjects(q)' = FoundProjects(q)
           /\ FoundOutputs(q)' = FoundOutputs(q)
           /\ FoundWorkspaces(q)' = FoundWorkspaces(q)
           /\ RequiredTools(q)' = RequiredTools(q)
           /\ FoundEdges(q)' = FoundEdges(q)
<1>1. FoundOutputs(q)' = FoundOutputs(q)
  BY DEF FoundOutputs
<1> QED BY <1>1 DEF FoundProjects, FoundWorkspaces, RequiredTools, FoundEdges

\* So its memory stays consistent when another scan takes a step.
LEMMA OthersConsistent ==
    ASSUME NEW s, Alone(s), NEW q \in Scans \ {s}, Consistent(q)
    PROVE  Consistent(q)'
<1>1. /\ FoundOutputs(q)' = FoundOutputs(q)
      /\ FoundWorkspaces(q)' = FoundWorkspaces(q)
      /\ RequiredTools(q)' = RequiredTools(q)
      /\ FoundEdges(q)' = FoundEdges(q)
      /\ found'[q] = found[q] /\ pc'[q] = pc[q] /\ todo'[q] = todo[q] /\ held'[q] = held[q]
  BY FindsAlike DEF Alone
<1>2. Work(q, pc[q])' = Work(q, pc[q])
  BY <1>1 DEF Work
<1> QED BY <1>1, <1>2 DEF Consistent

\* What a scan may have to do in any phase.
LEMMA WorkTyped ==
    ASSUME LocalTyped, NEW s \in Scans
    PROVE  /\ FoundProjects(s) \subseteq Projects
           /\ FoundOutputs(s) \subseteq Roots
           /\ FoundWorkspaces(s) \subseteq Roots
           /\ RequiredTools(s) \subseteq Tools
           /\ FoundEdges(s) \subseteq Edges
<1>1. span[s] \subseteq Roots /\ found[s] \subseteq Tools
  BY DEF LocalTyped
<1>2. FoundOutputs(s) \subseteq span[s]
  BY DEF FoundOutputs
<1>3. \A r \in span[s] : Build(r) \in Projects /\ Git(r) \in Projects
  BY <1>1 DEF Build, Git, Projects
<1>4. FoundProjects(s) \subseteq Projects
  BY <1>3 DEF FoundProjects
<1>5. \A r \in FoundOutputs(s) : <<Build(r), "OWNS", r>> \in Edges
  BY <1>1, <1>2, <1>3 DEF Edges
<1>6. \A p \in span[s] \X found[s] : <<Build(p[1]), "REQUIRES", p[2]>> \in Edges
  BY <1>1, <1>3 DEF Edges
<1>7. FoundEdges(s) \subseteq Edges
  BY <1>5, <1>6 DEF FoundEdges
<1> QED BY <1>1, <1>2, <1>4, <1>7 DEF FoundWorkspaces, RequiredTools

\* The initial state is typed.
LEMMA InitTyped == Init => Typed
<1> SUFFICES ASSUME Init PROVE Typed
  OBVIOUS
<1>1. WorldTyped
  BY InventoryAssumption DEF Init, WorldTyped
<1>2. DatabaseTyped
  BY DEF Init, DatabaseTyped
<1>3. LocalTyped
  BY DEF Init, LocalTyped, Labels
<1>4. \A s \in Scans : Consistent(s)
  BY DEF Init, Consistent, Queued, Phases
<1> QED BY <1>1, <1>2, <1>3, <1>4 DEF Typed

\* Typed, if the memory of the other scans is left alone.
LEMMA Compose ==
    ASSUME Typed, NEW s, Alone(s), WorldTyped', DatabaseTyped', LocalTyped',
           s \in Scans => Consistent(s)'
    PROVE  Typed'
<1>1. \A q \in Scans \ {s} : Consistent(q)'
  BY OthersConsistent DEF Typed
<1> QED BY <1>1 DEF Typed

\* A scan starts.
LEMMA StartTyped ==
    ASSUME Typed, NEW s \in Scans, Start(s)
    PROVE  Typed' /\ Alone(s)
<1> USE DEF Typed, Start, GoTo
<1>0. span' \in [Scans -> SUBSET Roots]
  BY InventoryAssumption DEF LocalTyped
<1>1. WorldTyped'
  BY DEF WorldTyped, world
<1>2. DatabaseTyped'
  BY DEF DatabaseTyped, database
<1>3. LocalTyped'
  BY <1>0 DEF LocalTyped, Labels, Phases, Queued, Midway, Ending
<1>4. Alone(s)
  BY DEF LocalTyped, Alone
<1>5. Consistent(s)'
  BY DEF Consistent, LocalTyped, Labels, Phases, Queued, Midway, Ending
<1> QED BY <1>1, <1>2, <1>3, <1>4, <1>5, Compose

\* The walk ends.
LEMMA WalkTyped ==
    ASSUME Typed, NEW s \in Scans, Walk(s)
    PROVE  Typed' /\ Alone(s)
<1> USE DEF Typed, Walk, GoTo
<1>0. /\ [r \in Roots |-> IF r \in span[s] THEN content[r] ELSE Bare] \in [Roots -> Contents \union {Bare}]
      /\ warned' \in [Scans -> BOOLEAN]
  BY DEF WorldTyped, LocalTyped
<1>1. WorldTyped'
  BY DEF WorldTyped, world
<1>2. DatabaseTyped'
  BY DEF DatabaseTyped, database
<1>3. LocalTyped'
  BY <1>0 DEF LocalTyped, Labels, Phases, Queued, Midway, Ending
<1>4. Alone(s)
  BY DEF LocalTyped, Alone
<1>5. Consistent(s)'
  BY DEF Consistent, LocalTyped, Labels, Phases, Queued, Midway, Ending
<1> QED BY <1>1, <1>2, <1>3, <1>4, <1>5, Compose

\* The walk fails.
LEMMA WalkFailsTyped ==
    ASSUME Typed, NEW s \in Scans, WalkFails(s)
    PROVE  Typed' /\ Alone(s)
<1> USE DEF Typed, WalkFails, GoTo
<1>1. WorldTyped'
  BY DEF WorldTyped, world
<1>2. DatabaseTyped'
  BY DEF DatabaseTyped, database
<1>3. LocalTyped'
  BY DEF LocalTyped, Labels, Phases, Queued, Midway, Ending
<1>4. Alone(s)
  BY DEF LocalTyped, Alone
<1>5. Consistent(s)'
  BY DEF Consistent, LocalTyped, Labels, Phases, Queued, Midway, Ending
<1> QED BY <1>1, <1>2, <1>3, <1>4, <1>5, Compose

\* A detector is asked.
LEMMA DetectTyped ==
    ASSUME Typed, NEW s \in Scans, NEW d \in Detectors, Detect(s, d)
    PROVE  Typed' /\ Alone(s)
<1> USE DEF Typed, Detect, GoTo
<1>0. /\ pc'[s] = "tools" /\ held'[s] = held[s] /\ todo'[s] \subseteq found'[s]
      /\ Work(s, pc[s])' = found'[s]
  BY DEF LocalTyped, Work
<1>1. WorldTyped'
  BY DEF WorldTyped, world
<1>2. DatabaseTyped'
  BY DEF DatabaseTyped, database
<1>3. LocalTyped'
  BY DEF LocalTyped, Labels, Phases, Queued, Midway, Ending, WorldTyped
<1>4. Alone(s)
  BY DEF LocalTyped, Alone
<1>5. Consistent(s)'
  BY <1>0 DEF Consistent, LocalTyped, Labels, Phases, Queued, Midway, Ending
<1> QED BY <1>1, <1>2, <1>3, <1>4, <1>5, Compose

\* The next one is turned to.
LEMMA NextDetectorTyped ==
    ASSUME Typed, NEW s \in Scans, NextDetector(s)
    PROVE  Typed' /\ Alone(s)
<1> USE DEF Typed, NextDetector, GoTo
<1>1. WorldTyped'
  BY DEF WorldTyped, world
<1>2. DatabaseTyped'
  BY DEF DatabaseTyped, database
<1>3. LocalTyped'
  BY DEF LocalTyped, Labels, Phases, Queued, Midway, Ending
<1>4. Alone(s)
  BY DEF LocalTyped, Alone
<1>5. Consistent(s)'
  BY DEF Consistent, LocalTyped, Labels, Phases, Queued, Midway, Ending
<1> QED BY <1>1, <1>2, <1>3, <1>4, <1>5, Compose

\* Work that is taken off the list.
LEMMA Shrinks ==
    ASSUME NEW s, Consistent(s), pc'[s] = pc[s], held'[s] = held[s], todo'[s] \subseteq todo[s],
           span'[s] = span[s], saw'[s] = saw[s], found'[s] = found[s]
    PROVE  Consistent(s)'
<1>1. /\ FoundOutputs(s)' = FoundOutputs(s)
      /\ FoundWorkspaces(s)' = FoundWorkspaces(s)
      /\ RequiredTools(s)' = RequiredTools(s)
      /\ FoundEdges(s)' = FoundEdges(s)
  BY FindsAlike
<1>2. Work(s, pc[s])' = Work(s, pc[s])
  BY <1>1 DEF Work
<1> QED BY <1>1, <1>2 DEF Consistent

\* A phase is over.
LEMMA PhaseDoneTyped ==
    ASSUME Typed, NEW s \in Scans, PhaseDone(s)
    PROVE  Typed' /\ Alone(s)
<1> USE DEF Typed, PhaseDone, GoTo
<1>0. After(pc[s]) \in Phases \ {"tools", "workspaces"}
  BY Order DEF Queued, Phases
<1>01. Work(s, After(pc[s])) \subseteq Tools \union Roots \union Edges
  BY Order, WorkOf, WorkTyped DEF Queued
<1>02. /\ pc'[s] = After(pc[s]) /\ held'[s] = held[s]
       /\ todo'[s] = Work(s, After(pc[s]))
       /\ Work(s, pc[s])' = Work(s, After(pc[s]))
  <2>1. pc'[s] = After(pc[s]) /\ held'[s] = held[s] /\ todo'[s] = Work(s, After(pc[s]))
    BY DEF LocalTyped
  <2>2. /\ FoundOutputs(s)' = FoundOutputs(s)
        /\ FoundWorkspaces(s)' = FoundWorkspaces(s)
        /\ RequiredTools(s)' = RequiredTools(s)
        /\ FoundEdges(s)' = FoundEdges(s)
    BY FindsAlike
  <2> QED BY <2>1, <2>2 DEF Work
<1>1. WorldTyped'
  BY DEF WorldTyped, world
<1>2. DatabaseTyped'
  BY DEF DatabaseTyped, database
<1>3. LocalTyped'
  BY <1>0, <1>01 DEF LocalTyped, Labels, Phases, Queued, Midway, Ending
<1>4. Alone(s)
  BY DEF LocalTyped, Alone
<1>5. Consistent(s)'
  BY <1>0, <1>02 DEF Consistent, LocalTyped, Labels, Phases, Queued, Midway, Ending
<1> QED BY <1>1, <1>2, <1>3, <1>4, <1>5, Compose

\* A tool is observed.
LEMMA ObserveToolTyped ==
    ASSUME Typed, NEW s \in Scans, NEW t \in Tools, ObserveTool(s, t)
    PROVE  Typed' /\ Alone(s)
<1> USE DEF Typed, ObserveTool, GoTo
<1>0. Observation(s, ToolReport[t], ToolReport[t].evidence, ToolReport[t].size) \in Rows
  <2>1. ToolReport[t] \in Reports
    BY InventoryAssumption
  <2>2. ToolReport[t].evidence \in SUBSET CleanupFacts /\ ToolReport[t].size \in Nat
    BY <2>1 DEF Reports
  <2> QED BY <2>1, <2>2, RowTyped
<1>1. WorldTyped'
  BY DEF WorldTyped, world
<1>2. DatabaseTyped'
  BY <1>0 DEF DatabaseTyped, database, Resources
<1>3. LocalTyped'
  BY DEF LocalTyped, Labels, Phases, Queued, Midway, Ending, Done
<1>4. Alone(s)
  BY DEF LocalTyped, Alone, Done
<1>5. Consistent(s)'
  BY Shrinks DEF LocalTyped, Done
<1> QED BY <1>1, <1>2, <1>3, <1>4, <1>5, Compose

\* A tool is refused.
LEMMA ToolRefusedTyped ==
    ASSUME Typed, NEW s \in Scans, NEW t \in Tools, ToolRefused(s, t)
    PROVE  Typed' /\ Alone(s)
<1> USE DEF Typed, ToolRefused, GoTo
<1>1. WorldTyped'
  BY DEF WorldTyped, world
<1>2. DatabaseTyped'
  BY DEF DatabaseTyped, database
<1>3. LocalTyped'
  BY DEF LocalTyped, Labels, Phases, Queued, Midway, Ending
<1>4. Alone(s)
  BY DEF LocalTyped, Alone
<1>5. Consistent(s)'
  BY DEF Consistent, LocalTyped, Labels, Phases, Queued, Midway, Ending
<1> QED BY <1>1, <1>2, <1>3, <1>4, <1>5, Compose

\* An output has a row.
LEMMA OutputRow ==
    ASSUME Typed, NEW s \in Scans, NEW r \in Roots, ObserveOutput(s, r)
    PROVE  \E row \in Rows : rows' = [rows EXCEPT ![r] = row]
<1> USE DEF Typed
<1> DEFINE seen == saw[s][r].output
           there == content[r].output
           size == IF there = None THEN 0 ELSE there.size
<1>1. r \in FoundOutputs(s)
  BY DEF Consistent, Work, Queued, ObserveOutput
<1>2. seen \in Reports
  <2>1. saw[s][r] \in Contents \union {Bare}
    BY DEF LocalTyped
  <2>2. seen # None
    BY <1>1 DEF FoundOutputs
  <2> QED BY <2>1, <2>2, Seen
<1>3. there \in Reports \union {None}
  <2>1. content[r] \in Contents \union {Bare}
    BY DEF WorldTyped
  <2> QED BY <2>1, Seen
<1>4. size \in Nat
  BY <1>3 DEF Reports
<1>5. Enriched(seen, there) \in SUBSET CleanupFacts
  BY <1>2 DEF Enriched, CleanupFacts, Reports
<1> QED BY <1>2, <1>4, <1>5, RowTyped DEF ObserveOutput

\* An output is observed.
LEMMA ObserveOutputTyped ==
    ASSUME Typed, NEW s \in Scans, NEW r \in Roots, ObserveOutput(s, r)
    PROVE  Typed' /\ Alone(s)
<1> USE DEF Typed, ObserveOutput, GoTo
<1>0. \E row \in Rows : rows' = [rows EXCEPT ![r] = row]
  BY OutputRow
<1>1. WorldTyped'
  BY DEF WorldTyped, world
<1>2. DatabaseTyped'
  BY <1>0 DEF DatabaseTyped, database, Resources
<1>3. LocalTyped'
  BY DEF LocalTyped, Labels, Phases, Queued, Midway, Ending, Done
<1>4. Alone(s)
  BY DEF LocalTyped, Alone, Done
<1>5. Consistent(s)'
  BY Shrinks DEF LocalTyped, Done
<1> QED BY <1>1, <1>2, <1>3, <1>4, <1>5, Compose

\* A required tool is looked at.
LEMMA ReadRequiredTyped ==
    ASSUME Typed, NEW s \in Scans, NEW t \in Tools, Backed(s), ReadRequired(s, t)
    PROVE  Typed' /\ Alone(s)
<1> USE DEF Typed, ReadRequired, GoTo
<1>0. t \in RequiredTools(s) /\ todo[s] \subseteq RequiredTools(s) /\ rows[t] \in Rows
  <2>1. todo[s] \subseteq RequiredTools(s)
    BY WorkOf DEF Consistent, Queued
  <2>2. t \in found[s]
    BY <2>1 DEF RequiredTools
  <2>3. rows[t] # None
    BY <2>2 DEF Backed, AfterOutputs
  <2>4. t \in Resources /\ rows \in [Resources -> Rows \union {None}]
    BY DEF DatabaseTyped, Resources
  <2>5. rows[t] \in Rows
    BY <2>3, <2>4
  <2>6. t \in todo[s]
    OBVIOUS
  <2> QED BY <2>1, <2>5, <2>6
<1>01. RequiredTools(s)' = RequiredTools(s)
  BY FindsAlike
<1>1. WorldTyped'
  BY DEF WorldTyped, world
<1>2. DatabaseTyped'
  BY DEF DatabaseTyped, database
<1>3. LocalTyped'
  <2>1. CASE rows[t].risk = "BLOCKED"
    <3>1. todo' = [todo EXCEPT ![s] = todo[s] \ {t}] /\ UNCHANGED <<pc, span, saw, found, held, warned>>
      BY <2>1 DEF Done
    <3>2. todo' \in [Scans -> SUBSET (Tools \union Roots \union Edges)]
      BY <3>1 DEF LocalTyped
    <3> QED BY <3>1, <3>2 DEF LocalTyped
  <2>2. CASE rows[t].risk # "BLOCKED"
    <3>1. held' \in [Scans -> {None} \union Roots \union [id : Tools, row : Rows]]
      BY <2>2, <1>0 DEF LocalTyped
    <3>2. pc' \in [Scans -> Labels] /\ todo' = todo
      BY <2>2 DEF LocalTyped, Labels, Midway
    <3> QED BY <3>1, <3>2 DEF LocalTyped
  <2> QED BY <2>1, <2>2
<1>4. Alone(s)
  BY DEF LocalTyped, Alone, Done
<1>5. Consistent(s)'
  <2>1. CASE rows[t].risk = "BLOCKED"
    BY <2>1, Shrinks DEF LocalTyped, Done
  <2>2. CASE rows[t].risk # "BLOCKED"
    <3>1. pc'[s] = "reclassified" /\ held'[s] = [id |-> t, row |-> rows[t]] /\ todo'[s] = todo[s]
      BY <2>2 DEF LocalTyped
    <3>2. held'[s] \in [id : Tools, row : Rows]
      BY <3>1, <1>0
    <3> QED BY <3>1, <3>2, <1>0, <1>01 DEF Consistent, Queued, Phases
  <2> QED BY <2>1, <2>2
<1> QED BY <1>1, <1>2, <1>3, <1>4, <1>5, Compose

\* Its row is written as blocked.
LEMMA WriteRequiredTyped ==
    ASSUME Typed, NEW s \in Scans, Backed(s), WriteRequired(s)
    PROVE  Typed' /\ Alone(s)
<1> USE DEF Typed, WriteRequired, GoTo
<1> DEFINE t == held[s].id
<1>0. t \in Tools /\ Reclassified(held[s].row) \in Rows
  <2>1. held[s] \in [id : Tools, row : Rows]
    BY DEF Consistent
  <2>2. ToolReport[t].type \in RequirableTypes
    BY <2>1, InventoryAssumption
  <2>3. held[s].row.report.type \in RequirableTypes
    BY <2>2 DEF Backed
  <2> QED BY <2>1, <2>3, ReclassifiedTyped
<1>01. RequiredTools(s)' = RequiredTools(s)
  BY FindsAlike
<1>02. todo'[s] \subseteq RequiredTools(s) /\ pc'[s] = "reclassify" /\ held'[s] = None
  BY DEF LocalTyped, Consistent, Done
<1>03. Work(s, pc[s])' = RequiredTools(s)
  BY <1>01, <1>02 DEF Work
<1>1. WorldTyped'
  BY DEF WorldTyped, world
<1>2. DatabaseTyped'
  BY <1>0 DEF DatabaseTyped, database, Resources
<1>3. LocalTyped'
  BY <1>02 DEF LocalTyped, Labels, Phases, Queued, Midway, Ending, Done
<1>4. Alone(s)
  BY DEF LocalTyped, Alone, Done
<1>5. Consistent(s)'
  BY <1>01, <1>02, <1>03 DEF Consistent, LocalTyped, Labels, Phases, Queued, Midway, Ending
<1> QED BY <1>1, <1>2, <1>3, <1>4, <1>5, Compose

\* Projects are stored.
LEMMA StoreProjectsTyped ==
    ASSUME Typed, NEW s \in Scans, StoreProjects(s)
    PROVE  Typed' /\ Alone(s)
<1> USE DEF Typed, StoreProjects, GoTo
<1>0. /\ projects' \subseteq Projects /\ edges' \subseteq Edges
      /\ members' \in [Roots -> SUBSET Projects]
  <2>1. FoundProjects(s) \subseteq Projects
    BY WorkTyped
  <2> QED BY <2>1 DEF DatabaseTyped
<1>01. Work(s, "workspaces") = FoundWorkspaces(s) /\ FoundWorkspaces(s) \subseteq Roots
  BY WorkOf, WorkTyped
<1>02. FoundWorkspaces(s)' = FoundWorkspaces(s)
  BY FindsAlike
<1>03. pc'[s] = "workspaces" /\ held'[s] = None /\ todo'[s] = FoundWorkspaces(s)
  BY <1>01 DEF LocalTyped, Consistent, Phases
<1>04. Work(s, pc[s])' = FoundWorkspaces(s)
  BY <1>02, <1>03 DEF Work
<1>1. WorldTyped'
  BY DEF WorldTyped, world
<1>2. DatabaseTyped'
  BY <1>0 DEF DatabaseTyped, database
<1>3. LocalTyped'
  BY <1>01 DEF LocalTyped, Labels, Phases, Queued, Midway, Ending
<1>4. Alone(s)
  BY DEF LocalTyped, Alone
<1>5. Consistent(s)'
  BY <1>03, <1>04 DEF Consistent, Queued, Phases
<1> QED BY <1>1, <1>2, <1>3, <1>4, <1>5, Compose

\* A workspace is stored.
LEMMA StoreWorkspaceTyped ==
    ASSUME Typed, NEW s \in Scans, NEW w \in Roots, StoreWorkspace(s, w)
    PROVE  Typed' /\ Alone(s)
<1> USE DEF Typed, StoreWorkspace, GoTo
<1>0. FoundWorkspaces(s)' = FoundWorkspaces(s) /\ todo[s] \subseteq FoundWorkspaces(s)
  BY FindsAlike, WorkOf DEF Consistent, Queued
<1>1. WorldTyped'
  BY DEF WorldTyped, world
<1>2. DatabaseTyped'
  BY DEF DatabaseTyped, database
<1>3. LocalTyped'
  BY DEF LocalTyped, Labels, Phases, Queued, Midway, Ending
<1>4. Alone(s)
  BY DEF LocalTyped, Alone
<1>5. Consistent(s)'
  BY <1>0 DEF Consistent, LocalTyped, Labels, Phases, Queued, Midway, Ending
<1> QED BY <1>1, <1>2, <1>3, <1>4, <1>5, Compose

\* Its members are stored.
LEMMA StoreMembersTyped ==
    ASSUME Typed, NEW s \in Scans, StoreMembers(s)
    PROVE  Typed' /\ Alone(s)
<1> USE DEF Typed, StoreMembers, GoTo
<1>0. FoundWorkspaces(s)' = FoundWorkspaces(s) /\ todo[s] \subseteq FoundWorkspaces(s) /\ held[s] \in Roots
  BY FindsAlike DEF Consistent
<1>01. FoundMembers(s, held[s]) \subseteq Projects
  BY WorkTyped DEF FoundMembers
<1>02. pc'[s] \in {"workspaces", "failing"} /\ held'[s] = None /\ todo'[s] \subseteq todo[s]
  BY DEF LocalTyped, Done
<1>03. warned' \in [Scans -> BOOLEAN]
  <2>1. CASE FoundMembers(s, held[s]) \subseteq projects /\ held[s] \in workspaces
    <3> DEFINE w == warned[s] \/ FoundMembers(s, held[s]) # {Build(r) : r \in saw[s][held[s]].members}
    <3>1. w \in BOOLEAN
      BY DEF LocalTyped
    <3>2. warned' = [warned EXCEPT ![s] = w]
      BY <2>1
    <3> QED BY <3>1, <3>2 DEF LocalTyped
  <2>2. CASE ~(FoundMembers(s, held[s]) \subseteq projects /\ held[s] \in workspaces)
    BY <2>2 DEF LocalTyped
  <2> QED BY <2>1, <2>2
<1>04. pc' \in [Scans -> Labels] /\ todo' \in [Scans -> SUBSET (Tools \union Roots \union Edges)]
  <2>1. {"workspaces", "failing"} \subseteq Labels
    BY DEF Labels, Phases, Queued, Ending
  <2>2. pc' \in [Scans -> Labels]
    BY <1>02, <2>1 DEF LocalTyped, Done
  <2>3. todo' \in [Scans -> SUBSET (Tools \union Roots \union Edges)]
    BY <1>02 DEF LocalTyped, Done
  <2> QED BY <2>2, <2>3
<1>05. pc'[s] = "workspaces" => Work(s, pc[s])' = FoundWorkspaces(s)'
  BY DEF Work
<1>1. WorldTyped'
  BY DEF WorldTyped, world
<1>2. DatabaseTyped'
  BY <1>0, <1>01 DEF DatabaseTyped, database
<1>3. LocalTyped'
  BY <1>03, <1>04 DEF LocalTyped
<1>4. Alone(s)
  BY DEF LocalTyped, Alone, Done
<1>5. Consistent(s)'
  BY <1>0, <1>02, <1>05 DEF Consistent, Queued, Phases
<1> QED BY <1>1, <1>2, <1>3, <1>4, <1>5, Compose

\* An edge is stored.
LEMMA StoreEdgeTyped ==
    ASSUME Typed, NEW s \in Scans, NEW e \in Edges, StoreEdge(s, e)
    PROVE  Typed' /\ Alone(s)
<1> USE DEF Typed, StoreEdge, GoTo
<1>1. WorldTyped'
  BY DEF WorldTyped, world
<1>2. DatabaseTyped'
  BY DEF DatabaseTyped, database
<1>3. LocalTyped'
  BY DEF LocalTyped, Labels, Phases, Queued, Midway, Ending, Done
<1>4. Alone(s)
  BY DEF LocalTyped, Alone, Done
<1>5. Consistent(s)'
  BY Shrinks DEF LocalTyped, Done
<1> QED BY <1>1, <1>2, <1>3, <1>4, <1>5, Compose

\* Issues are stored.
LEMMA StoreIssuesTyped ==
    ASSUME Typed, NEW s \in Scans, StoreIssues(s)
    PROVE  Typed' /\ Alone(s)
<1> USE DEF Typed, StoreIssues, GoTo
<1>1. WorldTyped'
  BY DEF WorldTyped, world
<1>2. DatabaseTyped'
  BY DEF DatabaseTyped, database
<1>3. LocalTyped'
  BY DEF LocalTyped, Labels, Phases, Queued, Midway, Ending
<1>4. Alone(s)
  BY DEF LocalTyped, Alone
<1>5. Consistent(s)'
  BY DEF Consistent, LocalTyped, Labels, Phases, Queued, Midway, Ending
<1> QED BY <1>1, <1>2, <1>3, <1>4, <1>5, Compose

\* A scan is completed.
LEMMA FinishTyped ==
    ASSUME Typed, NEW s \in Scans, Finish(s)
    PROVE  Typed' /\ Alone(s)
<1> USE DEF Typed, Finish, GoTo
<1>1. WorldTyped'
  BY DEF WorldTyped, world
<1>2. DatabaseTyped'
  BY DEF DatabaseTyped, database
<1>3. LocalTyped'
  BY DEF LocalTyped, Labels, Phases, Queued, Midway, Ending
<1>4. Alone(s)
  BY DEF LocalTyped, Alone
<1>5. Consistent(s)'
  BY DEF Consistent, LocalTyped, Labels, Phases, Queued, Midway, Ending
<1> QED BY <1>1, <1>2, <1>3, <1>4, <1>5, Compose

\* The issues of a failed scan are stored.
LEMMA FailIssuesTyped ==
    ASSUME Typed, NEW s \in Scans, FailIssues(s)
    PROVE  Typed' /\ Alone(s)
<1> USE DEF Typed, FailIssues, GoTo
<1>1. WorldTyped'
  BY DEF WorldTyped, world
<1>2. DatabaseTyped'
  BY DEF DatabaseTyped, database
<1>3. LocalTyped'
  BY DEF LocalTyped, Labels, Phases, Queued, Midway, Ending
<1>4. Alone(s)
  BY DEF LocalTyped, Alone
<1>5. Consistent(s)'
  BY DEF Consistent, LocalTyped, Labels, Phases, Queued, Midway, Ending
<1> QED BY <1>1, <1>2, <1>3, <1>4, <1>5, Compose

\* A scan is stored as failed.
LEMMA FailSaveTyped ==
    ASSUME Typed, NEW s \in Scans, FailSave(s)
    PROVE  Typed' /\ Alone(s)
<1> USE DEF Typed, FailSave, GoTo
<1>1. WorldTyped'
  BY DEF WorldTyped, world
<1>2. DatabaseTyped'
  BY DEF DatabaseTyped, database
<1>3. LocalTyped'
  BY DEF LocalTyped, Labels, Phases, Queued, Midway, Ending
<1>4. Alone(s)
  BY DEF LocalTyped, Alone
<1>5. Consistent(s)'
  BY DEF Consistent, LocalTyped, Labels, Phases, Queued, Midway, Ending
<1> QED BY <1>1, <1>2, <1>3, <1>4, <1>5, Compose

\* A scan loses its memory.
LEMMA DieTyped ==
    ASSUME Typed, NEW s \in Scans, Die(s)
    PROVE  LocalTyped' /\ Alone(s) /\ Consistent(s)'
<1> USE DEF Typed, Die, GoTo
<1>1. [r \in Roots |-> Bare] \in [Roots -> Contents \union {Bare}]
  OBVIOUS
<1>2. LocalTyped'
  BY <1>1 DEF LocalTyped, Labels
<1>3. Alone(s)
  BY DEF LocalTyped, Alone
<1>4. pc'[s] = "done"
  BY DEF LocalTyped
<1> QED BY <1>2, <1>3, <1>4 DEF Consistent, Phases, Queued

\* A call to the database fails.
LEMMA DatabaseFailsTyped ==
    ASSUME Typed, NEW s \in Scans, DatabaseFails(s)
    PROVE  Typed' /\ Alone(s)
<1> USE DEF Typed, DatabaseFails, GoTo
<1>1. WorldTyped'
  BY DEF WorldTyped, world
<1>2. DatabaseTyped'
  BY DEF DatabaseTyped, database
<1>3. CASE Die(s)
  BY <1>1, <1>2, <1>3, DieTyped, Compose
<1>4. CASE ~Die(s)
  <2>1. LocalTyped'
    BY <1>4 DEF LocalTyped, Labels, Ending
  <2>2. Alone(s)
    BY <1>4 DEF LocalTyped, Alone
  <2>3. pc'[s] = "failing"
    BY <1>4 DEF LocalTyped
  <2>4. Consistent(s)'
    BY <2>3 DEF Consistent, Phases, Queued
  <2> QED BY <1>1, <1>2, <2>1, <2>2, <2>4, Compose
<1> QED BY <1>3, <1>4

\* A scan dies.
LEMMA CrashTyped ==
    ASSUME Typed, NEW s \in Scans, Crash(s)
    PROVE  Typed' /\ Alone(s)
<1> USE DEF Typed, Crash
<1>1. WorldTyped'
  BY DEF WorldTyped, world
<1>2. DatabaseTyped'
  BY DEF DatabaseTyped, database
<1> QED BY <1>1, <1>2, DieTyped, Compose

\* Nothing but the world changes.
LEMMA WorldMovesTyped ==
    ASSUME Typed, WorldTyped', UNCHANGED <<database, local>>
    PROVE  Typed'
<1> USE DEF Typed, database, local
<1>1. DatabaseTyped'
  BY DEF DatabaseTyped
<1>2. LocalTyped'
  BY DEF LocalTyped
<1>3. \A q \in Scans : Consistent(q)'
  <2> SUFFICES ASSUME NEW q \in Scans PROVE Consistent(q)'
    OBVIOUS
  <2>1. /\ FoundOutputs(q)' = FoundOutputs(q)
        /\ FoundWorkspaces(q)' = FoundWorkspaces(q)
        /\ RequiredTools(q)' = RequiredTools(q)
        /\ FoundEdges(q)' = FoundEdges(q)
    BY FindsAlike
  <2>2. Work(q, pc[q])' = Work(q, pc[q])
    BY <2>1 DEF Work
  <2> QED BY <2>1, <2>2 DEF Consistent
<1> QED BY <1>1, <1>2, <1>3

\* Users edit a root, another version takes the place of a tool, days pass.
LEMMA WorldStepTyped ==
    ASSUME Typed, (\E r \in Roots : Edit(r)) \/ (\E u, v \in Tools : Upgrade(u, v)) \/ Tick
    PROVE  Typed'
<1>1. UNCHANGED <<database, local>>
  BY DEF Edit, Upgrade, Tick
<1>2. WorldTyped'
  <2>1. CASE \E r \in Roots : Edit(r)
    BY <2>1 DEF Typed, WorldTyped, Edit
  <2>2. CASE \E u, v \in Tools : Upgrade(u, v)
    BY <2>2 DEF Typed, WorldTyped, Upgrade
  <2>3. CASE Tick
    BY <2>3, InventoryAssumption DEF Typed, WorldTyped, Tick
  <2> QED BY <2>1, <2>2, <2>3
<1> QED BY <1>1, <1>2, WorldMovesTyped
------------------------------------------------------------------------------
(* What is stored fits together.                                            *)

\* Nothing that a scan relies on is taken away.
Keeps ==
    /\ \A x \in Resources : rows[x] # None => rows'[x] # None
    /\ \A r \in Roots : Build(r) \in projects => Build(r) \in projects'
    /\ workspaces \subseteq workspaces'

Inv == Typed /\ Sound /\ \A s \in Scans : Backed(s)

\* Other scans can still rely on it.
LEMMA OthersBacked ==
    ASSUME Typed, NEW s, Alone(s), Keeps, NEW q \in Scans \ {s}, Backed(q)
    PROVE  Backed(q)'
<1>1. /\ pc'[q] = pc[q] /\ span'[q] = span[q] /\ saw'[q] = saw[q] /\ found'[q] = found[q]
      /\ todo'[q] = todo[q] /\ held'[q] = held[q] /\ FoundOutputs(q)' = FoundOutputs(q)
  BY FindsAlike DEF Alone
<1>2. /\ found[q] \subseteq Resources /\ FoundOutputs(q) \subseteq Resources
      /\ span[q] \subseteq Roots
  BY WorkTyped DEF Typed, LocalTyped, Resources
<1> QED BY <1>1, <1>2 DEF Backed, Keeps

\* A step of s preserves the invariant if it leaves the others alone, takes nothing away
\* and s has what it relies on.
LEMMA Together ==
    ASSUME Inv, NEW s, Typed', Alone(s), Keeps, Sound', s \in Scans => Backed(s)'
    PROVE  Inv'
<1>1. \A q \in Scans \ {s} : Backed(q)'
  BY OthersBacked DEF Inv
<1> QED BY <1>1 DEF Inv

\* A step that stores nothing that others refer to.
LEMMA Quiet ==
    ASSUME Sound, UNCHANGED <<rows, projects, edges, members>>, workspaces \subseteq workspaces'
    PROVE  Sound' /\ Keeps
BY DEF Sound, Keeps

\* A scan relies on nothing when it has stored all or has failed.
LEMMA Unbound ==
    ASSUME NEW s, pc'[s] \notin BeforeTools \union {"tools", "outputs"} \union AfterOutputs
    PROVE  Backed(s)'
BY DEF Backed, AfterOutputs, AfterProjects

\* The steps that store nothing that others refer to, and after which the scan relies
\* on nothing.
LEMMA UnboundSteps ==
    ASSUME Inv, NEW s \in Scans,
           \/ WalkFails(s) \/ (\E t \in Tools : ToolRefused(s, t))
           \/ StoreIssues(s) \/ Finish(s) \/ FailIssues(s) \/ FailSave(s)
           \/ DatabaseFails(s) \/ Crash(s)
    PROVE  Inv'
<1>1. Typed' /\ Alone(s)
  BY WalkFailsTyped, ToolRefusedTyped, StoreIssuesTyped, FinishTyped,
     FailIssuesTyped, FailSaveTyped, DatabaseFailsTyped, CrashTyped DEF Inv
<1>2. UNCHANGED <<rows, projects, edges, members, workspaces>>
  BY DEF WalkFails, ToolRefused, StoreIssues, Finish, FailIssues, FailSave,
         DatabaseFails, Crash, database
<1>3. pc'[s] \in {"failing", "finish", "done", "failed"}
  BY DEF Inv, Typed, LocalTyped, WalkFails, ToolRefused, StoreIssues, Finish,
         FailIssues, FailSave, DatabaseFails, Crash, Die, GoTo
<1>4. Backed(s)'
  BY <1>3, Unbound DEF BeforeTools, AfterOutputs
<1> QED BY <1>1, <1>2, <1>4, Quiet, Together DEF Inv

\* The steps on the way to a detector: what was found before is stored.
LEMMA WaitingSteps ==
    ASSUME Inv, NEW s \in Scans, Start(s) \/ Walk(s) \/ NextDetector(s)
    PROVE  Inv'
<1>1. Typed' /\ Alone(s)
  BY StartTyped, WalkTyped, NextDetectorTyped DEF Inv
<1>2. UNCHANGED <<rows, projects, edges, members, workspaces, found>>
  BY DEF Start, Walk, NextDetector, database
<1>3. pc'[s] \in {"walk", "detect"}
  BY DEF Inv, Typed, LocalTyped, Start, Walk, NextDetector, GoTo
<1>4. \A t \in found[s] : rows[t] # None
  BY DEF Inv, Backed, BeforeTools, Start, Walk, NextDetector
<1>5. Backed(s)'
  BY <1>2, <1>3, <1>4 DEF Backed, BeforeTools, AfterOutputs, AfterProjects
<1> QED BY <1>1, <1>2, <1>5, Quiet, Together DEF Inv

\* What a detector finds is to be observed, and what others found has been.
LEMMA DetectSound ==
    ASSUME Inv, NEW s \in Scans, NEW d \in Detectors, Detect(s, d)
    PROVE  Inv'
<1>1. Typed' /\ Alone(s)
  BY DetectTyped DEF Inv
<1>2. pc'[s] = "tools" /\ found'[s] \ todo'[s] \subseteq found[s] /\ rows' = rows
  BY DEF Inv, Typed, LocalTyped, Detect, GoTo, database
<1>3. \A t \in found[s] : rows[t] # None
  BY DEF Inv, Backed, BeforeTools, Detect
<1>4. Backed(s)'
  BY <1>2, <1>3 DEF Backed, BeforeTools, AfterOutputs, AfterProjects
<1> QED BY <1>1, <1>4, Quiet, Together DEF Inv, Detect, database

\* When nothing is left of a phase, all of it is stored.
LEMMA PhaseDoneSound ==
    ASSUME Inv, NEW s \in Scans, PhaseDone(s)
    PROVE  Inv'
<1> USE DEF Inv, Typed, PhaseDone, GoTo
<1>1. Typed' /\ Alone(s)
  BY PhaseDoneTyped
<1>2. /\ pc'[s] = After(pc[s]) /\ found'[s] = found[s] /\ FoundOutputs(s)' = FoundOutputs(s)
      /\ span'[s] = span[s] /\ saw'[s] = saw[s] /\ todo'[s] = Work(s, After(pc[s]))
      /\ rows' = rows /\ projects' = projects /\ Backed(s) /\ todo[s] = {} /\ pc[s] \in Queued
  BY FindsAlike DEF LocalTyped, database
<1> HIDE DEF Inv, Typed, PhaseDone
<1>3. Backed(s)'
  <2>1. CASE pc[s] = "tools"
    <3>1. todo'[s] = FoundOutputs(s) /\ pc'[s] = "outputs"
      BY <2>1, <1>2, Order, WorkOf
    <3>2. \A t \in found[s] : rows[t] # None
      BY <2>1, <1>2 DEF Backed
    <3> QED BY <3>1, <3>2, <1>2 DEF Backed, BeforeTools, AfterOutputs, AfterProjects
  <2>2. CASE pc[s] # "tools"
    BY <2>2, <1>2, Order DEF Backed, BeforeTools, AfterOutputs, AfterProjects, Queued
  <2> QED BY <2>1, <2>2
<1> QED BY <1>1, <1>3, Quiet, Together DEF Inv, PhaseDone, database

\* A row that is observed keeps the type of its resource.
LEMMA ObserveToolSound ==
    ASSUME Inv, NEW s \in Scans, NEW t \in Tools, ObserveTool(s, t)
    PROVE  Inv'
<1> DEFINE row == Observation(s, ToolReport[t], ToolReport[t].evidence, ToolReport[t].size)
<1>1. Typed' /\ Alone(s)
  BY ObserveToolTyped DEF Inv
<1>2. row \in Rows /\ row.report.type = ToolReport[t].type /\ row # None
  <2>1. ToolReport[t] \in Reports
    BY InventoryAssumption
  <2>2. ToolReport[t].evidence \in SUBSET CleanupFacts /\ ToolReport[t].size \in Nat
    BY <2>1 DEF Reports
  <2> QED BY <2>1, <2>2, RowTyped, InventoryAssumption DEF Inv
<1>3. rows' = [rows EXCEPT ![t] = row] /\ t \in Resources
  BY DEF ObserveTool, Resources
<1> HIDE DEF row
<1>4. Sound' /\ Keeps
  BY <1>2, <1>3 DEF Inv, Sound, Keeps, ObserveTool, Typed, DatabaseTyped
<1>5. Backed(s)'
  <2>1. /\ pc[s] = "tools" /\ pc'[s] = "tools" /\ found'[s] = found[s]
        /\ todo'[s] = todo[s] \ {t} /\ found[s] \subseteq Tools
    BY DEF ObserveTool, Done, Inv, Typed, LocalTyped
  <2>2. \A u \in found[s] \ todo'[s] : rows'[u] # None
    BY <2>1, <1>2, <1>3 DEF Inv, Backed, Typed, DatabaseTyped, Resources
  <2> QED BY <2>1, <2>2 DEF Backed, BeforeTools, AfterOutputs, AfterProjects
<1> QED BY <1>1, <1>4, <1>5, Together

\* An output is stored under its root.
LEMMA ObserveOutputSound ==
    ASSUME Inv, NEW s \in Scans, NEW r \in Roots, ObserveOutput(s, r)
    PROVE  Inv'
<1>1. Typed' /\ Alone(s)
  BY ObserveOutputTyped DEF Inv
<1>2. PICK row \in Rows : rows' = [rows EXCEPT ![r] = row]
  BY OutputRow DEF Inv
<1>3. row # None
  BY InventoryAssumption
<1>4. r \in Resources /\ r \notin Tools /\ rows \in [Resources -> Rows \union {None}]
  BY InventoryAssumption DEF Resources, Inv, Typed, DatabaseTyped
<1>5. Sound' /\ Keeps
  <2>1. \A x \in Resources : rows[x] # None => rows'[x] # None
    BY <1>2, <1>3, <1>4
  <2>2. \A t \in Tools : rows'[t] = rows[t]
    BY <1>2, <1>3, <1>4
  <2>3. \A e \in edges : e[3] \in Resources
    BY DEF Inv, Typed, DatabaseTyped, Edges, Resources
  <2> QED BY <2>1, <2>2, <2>3 DEF Inv, Sound, Keeps, ObserveOutput
<1>6. Backed(s)'
  <2>1. /\ pc[s] = "outputs" /\ pc'[s] = "outputs" /\ found'[s] = found[s]
        /\ todo'[s] = todo[s] \ {r} /\ found[s] \subseteq Resources
        /\ FoundOutputs(s)' = FoundOutputs(s) /\ FoundOutputs(s) \subseteq Resources
    BY FindsAlike, WorkTyped DEF ObserveOutput, Done, Inv, Typed, LocalTyped, Resources
  <2>2. \A x \in FoundOutputs(s) \ todo'[s] : rows'[x] # None
    BY <2>1, <1>2, <1>3, <1>4 DEF Inv, Backed
  <2>3. \A x \in found[s] : rows'[x] # None
    BY <2>1, <1>5 DEF Inv, Backed, Keeps
  <2> QED BY <2>1, <2>2, <2>3 DEF Backed, BeforeTools, AfterOutputs, AfterProjects
<1> QED BY <1>1, <1>5, <1>6, Together

\* What a scan relies on stays when it goes on to a phase that relies on the same.
LEMMA StaysBacked ==
    ASSUME Typed, NEW s \in Scans, Keeps, Backed(s),
           span'[s] = span[s], saw'[s] = saw[s], found'[s] = found[s],
           pc[s] \in AfterOutputs, pc'[s] \in AfterOutputs,
           pc'[s] \in AfterProjects => pc[s] \in AfterProjects,
           pc'[s] = "reclassified" => held'[s].row.report.type = ToolReport[held'[s].id].type,
           pc'[s] = "members" => held'[s] \in workspaces'
    PROVE  Backed(s)'
<1>1. FoundOutputs(s)' = FoundOutputs(s)
  BY FindsAlike
<1>2. found[s] \subseteq Resources /\ FoundOutputs(s) \subseteq Resources /\ span[s] \subseteq Roots
  BY WorkTyped DEF Typed, LocalTyped, Resources
<1> QED BY <1>1, <1>2 DEF Backed, Keeps, BeforeTools, AfterOutputs, AfterProjects

\* The row that is read has been stored by the scan, or another.
LEMMA ReadRequiredSound ==
    ASSUME Inv, NEW s \in Scans, NEW t \in Tools, ReadRequired(s, t)
    PROVE  Inv'
<1>1. Typed' /\ Alone(s)
  BY ReadRequiredTyped DEF Inv
<1>2. Sound' /\ Keeps
  BY Quiet DEF Inv, ReadRequired, database
<1>3. t \in found[s] /\ rows[t] # None
  <2>1. t \in RequiredTools(s)
    BY WorkOf DEF Inv, Typed, Consistent, Queued, ReadRequired
  <2> QED BY <2>1 DEF RequiredTools, Inv, Backed, AfterOutputs, ReadRequired
<1>4. Backed(s)'
  <2>1. CASE rows[t].risk = "BLOCKED"
    <3>1. pc[s] = "reclassify" /\ pc'[s] = pc[s]
      BY <2>1 DEF ReadRequired
    <3> QED BY <3>1, <1>2, StaysBacked DEF Inv, ReadRequired, AfterOutputs, AfterProjects
  <2>2. CASE rows[t].risk # "BLOCKED"
    <3>1. pc[s] = "reclassify" /\ pc'[s] = "reclassified" /\ held'[s] = [id |-> t, row |-> rows[t]]
      BY <2>2 DEF ReadRequired, GoTo, Inv, Typed, LocalTyped
    <3>2. held'[s].row.report.type = ToolReport[held'[s].id].type
      BY <3>1, <1>3 DEF Inv, Sound
    <3> QED BY <3>1, <3>2, <1>2, StaysBacked DEF Inv, ReadRequired, AfterOutputs, AfterProjects
  <2> QED BY <2>1, <2>2
<1> QED BY <1>1, <1>2, <1>4, Together

\* Nor does its type change when it is written as blocked.
LEMMA WriteRequiredSound ==
    ASSUME Inv, NEW s \in Scans, WriteRequired(s)
    PROVE  Inv'
<1> DEFINE t == held[s].id
           row == Reclassified(held[s].row)
<1>1. Typed' /\ Alone(s)
  BY WriteRequiredTyped DEF Inv
<1>2. t \in Tools /\ row \in Rows /\ row.report.type = ToolReport[t].type /\ row # None
  <2>1. held[s] \in [id : Tools, row : Rows]
    BY DEF Inv, Typed, Consistent, WriteRequired
  <2>2. held[s].row.report.type = ToolReport[t].type /\ ToolReport[t].type \in RequirableTypes
    BY <2>1, InventoryAssumption DEF Inv, Backed, WriteRequired
  <2>3. row \in Rows /\ row.report = held[s].row.report
    BY <2>1, <2>2, ReclassifiedTyped
  <2> QED BY <2>1, <2>2, <2>3, InventoryAssumption
<1>3. rows' = [rows EXCEPT ![t] = row] /\ t \in Resources
  BY <1>2 DEF WriteRequired, Resources
<1>4. pc[s] = "reclassified" /\ pc'[s] = "reclassify"
  BY DEF WriteRequired, GoTo, Inv, Typed, LocalTyped
<1> HIDE DEF row, t
<1>5. Sound' /\ Keeps
  BY <1>2, <1>3 DEF Inv, Sound, Keeps, WriteRequired, Typed, DatabaseTyped
<1>6. Backed(s)'
  BY <1>4, <1>5, StaysBacked DEF Inv, WriteRequired, AfterOutputs, AfterProjects
<1> QED BY <1>1, <1>5, <1>6, Together

\* A build project takes the place of a repository; it is never taken away.
LEMMA StoreProjectsSound ==
    ASSUME Inv, NEW s \in Scans, StoreProjects(s)
    PROVE  Inv'
<1> DEFINE strong   == {p \in FoundProjects(s) : p[2] = "build"}
           replaced == {Git(p[1]) : p \in strong}
           weak     == {p \in FoundProjects(s) : p[2] = "git" /\ Build(p[1]) \notin projects}
<1>1. Typed' /\ Alone(s)
  BY StoreProjectsTyped DEF Inv
<1>2. /\ projects' = (projects \ replaced) \union strong \union weak
      /\ edges' = {e \in edges : e[1] \notin replaced \intersect projects}
      /\ members' = [r \in Roots |-> members[r] \ (replaced \intersect projects)]
      /\ rows' = rows /\ workspaces' = workspaces
  BY DEF StoreProjects
<1>3. \A p \in replaced : p[2] = "git"
  BY DEF Git
<1>4. \A p \in projects : p[2] = "build" => p \in projects'
  BY <1>2, <1>3
<1>5. Keeps
  BY <1>2, <1>4 DEF Keeps, Build
<1>6. \A r \in Roots : Git(r) \notin projects' \/ Build(r) \notin projects'
  <2> SUFFICES ASSUME NEW r \in Roots, Build(r) \in projects', Git(r) \in projects'
               PROVE  FALSE
    OBVIOUS
  <2>1. Build(r) \in strong \/ (Build(r) \in projects /\ Build(r) \notin strong)
    BY <1>2 DEF Build
  <2>2. Git(r) \notin strong
    BY DEF Git
  <2>3. CASE Build(r) \in strong
    <3>1. Git(r) \in replaced
      BY <2>3 DEF Build, Git
    <3>2. Git(r) \in weak
      BY <3>1, <2>2, <1>2
    <3>3. Git(r) \in FoundProjects(s) /\ Build(r) \in FoundProjects(s)
      BY <3>2, <2>3
    <3> QED BY <3>3 DEF FoundProjects, Git, Build
  <2>4. CASE Build(r) \in projects /\ Build(r) \notin strong
    <3>1. Git(r) \notin projects
      BY <2>4 DEF Inv, Sound
    <3>2. Git(r) \notin weak
      BY <2>4 DEF Git, Build
    <3> QED BY <3>1, <3>2, <2>2, <1>2
  <2> QED BY <2>1, <2>3, <2>4
<1>7. Sound'
  <2>1. \A e \in edges' : e[1] \in projects' /\ e[1][2] = "build" /\ rows'[e[3]] # None
    BY <1>2, <1>4 DEF Inv, Sound
  <2>2. \A w \in Roots : \A p \in members'[w] : p \in projects' /\ p[2] = "build"
    BY <1>2, <1>4 DEF Inv, Sound
  <2> QED BY <1>2, <1>6, <2>1, <2>2 DEF Inv, Sound
<1>8. Backed(s)'
  <2>1. /\ pc[s] = "projects" /\ pc'[s] = "workspaces" /\ found'[s] = found[s]
        /\ span'[s] = span[s] /\ saw'[s] = saw[s] /\ FoundOutputs(s)' = FoundOutputs(s)
    BY FindsAlike DEF StoreProjects, GoTo, Inv, Typed, LocalTyped
  <2>2. \A r \in span[s] : saw[s][r].build => Build(r) \in projects'
    <3>1. \A r \in span[s] : saw[s][r].build => Build(r) \in FoundProjects(s)
      BY DEF FoundProjects
    <3>2. \A r \in span[s] : saw[s][r].build => Build(r) \in strong
      BY <3>1 DEF Build
    <3> QED BY <3>2, <1>2
  <2> QED BY <2>1, <2>2, <1>2 DEF Inv, Backed, BeforeTools, AfterOutputs, AfterProjects
<1> QED BY <1>1, <1>5, <1>7, <1>8, Together

\* A workspace is there when its members are stored.
LEMMA StoreWorkspaceSound ==
    ASSUME Inv, NEW s \in Scans, NEW w \in Roots, StoreWorkspace(s, w)
    PROVE  Inv'
<1>1. Typed' /\ Alone(s)
  BY StoreWorkspaceTyped DEF Inv
<1>2. Sound' /\ Keeps
  BY Quiet DEF Inv, StoreWorkspace
<1>3. pc[s] = "workspaces" /\ pc'[s] = "members" /\ held'[s] = w /\ w \in workspaces'
  BY DEF StoreWorkspace, GoTo, Inv, Typed, LocalTyped
<1>4. Backed(s)'
  BY <1>2, <1>3, StaysBacked DEF Inv, StoreWorkspace, AfterOutputs, AfterProjects
<1> QED BY <1>1, <1>2, <1>4, Together

\* The members that a scan stores are stored.
LEMMA MembersStored ==
    ASSUME Inv, NEW s \in Scans, pc[s] = "members"
    PROVE  /\ held[s] \in workspaces
           /\ FoundMembers(s, held[s]) \subseteq projects
           /\ \A p \in FoundMembers(s, held[s]) : p[2] = "build"
<1>1. \A p \in FoundMembers(s, held[s]) : p[2] = "build" /\ p \in FoundProjects(s)
  BY DEF FoundMembers, Build
<1>2. \A p \in FoundProjects(s) : p[2] = "build" =>
          \E r \in span[s] : saw[s][r].build /\ p = Build(r)
  BY DEF FoundProjects, Git
<1>3. \A r \in span[s] : saw[s][r].build => Build(r) \in projects
  BY DEF Inv, Backed, AfterProjects
<1>4. held[s] \in workspaces
  BY DEF Inv, Backed
<1> QED BY <1>1, <1>2, <1>3, <1>4

\* Members are stored as they were found.
LEMMA StoreMembersSound ==
    ASSUME Inv, NEW s \in Scans, StoreMembers(s)
    PROVE  Inv'
<1>1. Typed' /\ Alone(s)
  BY StoreMembersTyped DEF Inv
<1>2. /\ pc[s] = "members" /\ held[s] \in workspaces
      /\ FoundMembers(s, held[s]) \subseteq projects
      /\ \A p \in FoundMembers(s, held[s]) : p[2] = "build"
  BY MembersStored DEF StoreMembers
<1>3. /\ members' = [members EXCEPT ![held[s]] = FoundMembers(s, held[s])]
      /\ UNCHANGED <<rows, projects, edges, workspaces>>
  BY <1>2 DEF StoreMembers
<1>4. Sound' /\ Keeps
  BY <1>2, <1>3 DEF Inv, Sound, Keeps, Typed, DatabaseTyped
<1>5. pc'[s] = "workspaces"
  BY <1>2 DEF StoreMembers, GoTo, Inv, Typed, LocalTyped
<1>6. Backed(s)'
  BY <1>2, <1>4, <1>5, StaysBacked DEF Inv, StoreMembers, AfterOutputs, AfterProjects
<1> QED BY <1>1, <1>4, <1>6, Together

\* What an edge connects has been stored before it.
LEMMA StoreEdgeSound ==
    ASSUME Inv, NEW s \in Scans, NEW e \in Edges, StoreEdge(s, e)
    PROVE  Inv'
<1>1. Typed' /\ Alone(s)
  BY StoreEdgeTyped DEF Inv
<1>2. e \in FoundEdges(s)
  BY WorkOf DEF Inv, Typed, Consistent, Queued, StoreEdge
<1>3. /\ \A t \in found[s] : rows[t] # None
      /\ \A r \in FoundOutputs(s) : rows[r] # None
      /\ \A r \in span[s] : saw[s][r].build => Build(r) \in projects
  BY DEF Inv, Backed, BeforeTools, AfterOutputs, AfterProjects, StoreEdge
<1>4. \A r \in span[s] : (saw[s][r].output # None \/ saw[s][r].needs # {}) => saw[s][r].build
  <2> SUFFICES ASSUME NEW r \in span[s], saw[s][r].output # None \/ saw[s][r].needs # {}
               PROVE  saw[s][r].build
    OBVIOUS
  <2>1. saw[s][r] \in Contents \union {Bare}
    BY DEF Inv, Typed, LocalTyped
  <2> QED BY <2>1, Seen
<1>5. e[1] \in projects /\ e[1][2] = "build" /\ rows[e[3]] # None
  <2>1. CASE \E r \in FoundOutputs(s) : e = <<Build(r), "OWNS", r>>
    BY <2>1, <1>3, <1>4 DEF FoundOutputs, Build
  <2>2. CASE \E p \in span[s] \X found[s] :
               p[2] \in saw[s][p[1]].needs /\ e = <<Build(p[1]), "REQUIRES", p[2]>>
    BY <2>2, <1>3, <1>4 DEF Build
  <2> QED BY <2>1, <2>2, <1>2 DEF FoundEdges
<1>6. Sound' /\ Keeps
  BY <1>5 DEF Inv, Sound, Keeps, StoreEdge
<1>7. Backed(s)'
  BY <1>6, StaysBacked DEF Inv, StoreEdge, AfterOutputs, AfterProjects
<1> QED BY <1>1, <1>6, <1>7, Together

\* The database does not refer to the world.
LEMMA WorldSound ==
    ASSUME Inv, Typed', UNCHANGED <<database, local>>
    PROVE  Inv'
<1>1. Sound' /\ Keeps
  BY Quiet DEF Inv, database
<1>2. \A q \in Scans : FoundOutputs(q)' = FoundOutputs(q)
  BY FindsAlike DEF local
<1>3. \A q \in Scans : Backed(q)'
  BY <1>2 DEF Inv, Backed, database, local
<1> QED BY <1>1, <1>3 DEF Inv

\* The invariant is inductive.
LEMMA InitInv == Init => Inv
<1> SUFFICES ASSUME Init PROVE Inv
  OBVIOUS
<1>1. Sound
  BY DEF Init, Sound, Resources
<1>2. \A s \in Scans : Backed(s)
  BY DEF Init, Backed, BeforeTools, AfterOutputs, AfterProjects
<1> QED BY <1>1, <1>2, InitTyped DEF Inv

\* Every step preserves it.
LEMMA StepInv == Inv /\ [TimedNext]_vars => Inv'
<1> SUFFICES ASSUME Inv, [TimedNext]_vars PROVE Inv'
  OBVIOUS
<1>1. ASSUME NEW s \in Scans, ScanStep(s) PROVE Inv'
  BY <1>1, UnboundSteps, WaitingSteps, DetectSound, PhaseDoneSound, ObserveToolSound, ObserveOutputSound,
     ReadRequiredSound, WriteRequiredSound, StoreProjectsSound, StoreWorkspaceSound,
     StoreMembersSound, StoreEdgeSound DEF ScanStep
<1>2. CASE World \/ Tick
  <2>1. CASE \E s \in Scans : Crash(s)
    BY <2>1, UnboundSteps
  <2>2. CASE (\E r \in Roots : Edit(r)) \/ (\E u, v \in Tools : Upgrade(u, v)) \/ Tick
    <3>1. UNCHANGED <<database, local>>
      BY <2>2 DEF Edit, Upgrade, Tick
    <3> QED BY <2>2, <3>1, WorldStepTyped, WorldSound DEF Inv
  <2> QED BY <1>2, <2>1, <2>2 DEF World
<1>3. CASE UNCHANGED vars
  <2>1. UNCHANGED <<world, database, local>>
    BY <1>3 DEF vars
  <2>2. WorldTyped'
    BY <2>1 DEF Inv, Typed, WorldTyped, world
  <2>3. Typed'
    BY <2>1, <2>2, WorldMovesTyped DEF Inv
  <2> QED BY <2>1, <2>3, WorldSound
<1> QED BY <1>1, <1>2, <1>3 DEF TimedNext, Next, Over

\* It holds.
LEMMA InvHolds == TimedSpec => []Inv
BY InitInv, StepInv, PTL DEF TimedSpec
------------------------------------------------------------------------------
(* What a scan leaves behind.                                               *)

Ended == {"COMPLETED", "COMPLETED_WITH_ERRORS"}

\* From the end of the reclassification to that of the scan.
Settled == {"projects", "workspaces", "members", "edges", "issues", "finish"}

Blocked(s, t) == rows[t].by = s => rows[t].risk = "BLOCKED"

Standing(s) ==
    /\ pc[s] \in {"reclassify", "reclassified"} =>
            \A t \in RequiredTools(s) \ todo[s] : Blocked(s, t)
    /\ pc[s] \in Settled \/ status[s] \in Ended => \A t \in RequiredTools(s) : Blocked(s, t)
    /\ status[s] \in Ended => pc[s] = "done"
    /\ pc[s] = "finish" => (warned[s] <=> s \in issues)
    /\ status[s] = "COMPLETED_WITH_ERRORS" => s \in issues
    /\ status[s] = "COMPLETED" => s \notin issues

Stands == \A s \in Scans : Standing(s)

\* What a step of s may do to the rows of tools, and to what others have stored.
Mild(s) ==
    /\ \A t \in Tools : rows'[t] = rows[t] \/ rows'[t].risk = "BLOCKED" \/ rows'[t].by = s
    /\ \A q \in Scans \ {s} :
            status'[q] = status[q] /\ warned'[q] = warned[q] /\ (q \in issues' <=> q \in issues)

\* Other scans do not undo what a scan leaves behind: what they write is theirs or BLOCKED.
LEMMA OthersStand ==
    ASSUME Inv, Stands, NEW s, Alone(s), Mild(s), s \in Scans => Standing(s)'
    PROVE  Stands'
<1> SUFFICES ASSUME NEW q \in Scans \ {s} PROVE Standing(q)'
  BY DEF Stands
<1>1. /\ pc'[q] = pc[q] /\ todo'[q] = todo[q] /\ RequiredTools(q)' = RequiredTools(q)
      /\ status'[q] = status[q] /\ warned'[q] = warned[q] /\ (q \in issues' <=> q \in issues)
  BY FindsAlike DEF Alone, Mild
<1>2. RequiredTools(q) \subseteq Tools
  BY WorkTyped DEF Inv, Typed
<1>3. \A t \in RequiredTools(q) : Blocked(q, t) => Blocked(q, t)'
  BY <1>2 DEF Mild, Blocked
<1>4. Standing(q)
  BY DEF Stands
<1> QED BY <1>1, <1>3, <1>4 DEF Standing

\* A scan that takes a step has not completed.
LEMMA Unended ==
    ASSUME Stands, NEW s \in Scans, pc[s] # "done"
    PROVE  status[s] \notin Ended
BY DEF Stands, Standing

\* The steps before the reclassification, and those that end a scan in failure.
LEMMA OpenSteps ==
    ASSUME Inv, Stands, NEW s \in Scans,
           \/ Start(s) \/ Walk(s) \/ WalkFails(s) \/ NextDetector(s)
           \/ (\E d \in Detectors : Detect(s, d))
           \/ (\E t \in Tools : ObserveTool(s, t) \/ ToolRefused(s, t))
           \/ (\E r \in Roots : ObserveOutput(s, r))
           \/ FailIssues(s) \/ FailSave(s) \/ DatabaseFails(s) \/ Crash(s)
    PROVE  Stands'
<1>1. Alone(s)
  BY StartTyped, WalkTyped, WalkFailsTyped, DetectTyped, NextDetectorTyped, ObserveToolTyped, ToolRefusedTyped,
     ObserveOutputTyped, FailIssuesTyped, FailSaveTyped, DatabaseFailsTyped, CrashTyped DEF Inv
<1>2. pc[s] # "done"
  BY DEF Start, Walk, WalkFails, NextDetector, Detect, ObserveTool, ToolRefused, ObserveOutput, FailIssues,
         FailSave, DatabaseFails, Crash, Midway, Queued
<1>3. pc'[s] \in {"walk", "detect", "tools", "outputs", "failing", "failed", "done"}
  BY DEF Inv, Typed, LocalTyped, Start, Walk, WalkFails, NextDetector, Detect, ObserveTool, ToolRefused,
         ObserveOutput, FailIssues, FailSave, DatabaseFails, Crash, Die, GoTo
<1>4. status'[s] \notin Ended
  <2>1. status'[s] \in {status[s], "RUNNING", "FAILED"}
    BY DEF Inv, Typed, DatabaseTyped, database, Start, Walk, WalkFails, NextDetector, Detect, ObserveTool,
           ToolRefused, ObserveOutput, FailIssues, FailSave, DatabaseFails, Crash
  <2> QED BY <2>1, <1>2, Unended DEF Ended
<1>5. Standing(s)'
  BY <1>3, <1>4 DEF Standing, Settled, Ended
<1>6. \A t \in Tools : rows'[t] = rows[t] \/ rows'[t].by = s
  <2>1. CASE \E t \in Tools : ObserveTool(s, t)
    <3>1. PICK t \in Tools : ObserveTool(s, t)
      BY <2>1
    <3>2. ToolReport[t] \in Reports
      BY InventoryAssumption
    <3>3. ToolReport[t].evidence \in SUBSET CleanupFacts /\ ToolReport[t].size \in Nat
      BY <3>2 DEF Reports
    <3> DEFINE row == Observation(s, ToolReport[t], ToolReport[t].evidence, ToolReport[t].size)
    <3>4. row.by = s
      BY <3>2, <3>3, RowTyped DEF Inv
    <3>5. rows' = [rows EXCEPT ![t] = row]
      BY <3>1 DEF ObserveTool
    <3> QED BY <3>4, <3>5 DEF Inv, Typed, DatabaseTyped, Resources
  <2>2. CASE \E r \in Roots : ObserveOutput(s, r)
    <3>1. \A r \in Roots : r \notin Tools
      BY InventoryAssumption
    <3> QED BY <2>2, <3>1, OutputRow DEF Inv, Typed, DatabaseTyped, Resources
  <2>3. CASE rows' = rows
    BY <2>3
  <2> QED BY <2>1, <2>2, <2>3 DEF database, Start, Walk, WalkFails, NextDetector, Detect, ToolRefused,
             FailIssues, FailSave, DatabaseFails, Crash
<1>7. \A q \in Scans \ {s} : status'[q] = status[q]
  BY DEF Inv, Typed, DatabaseTyped, database, Start, Walk, WalkFails, NextDetector, Detect, ObserveTool,
         ToolRefused, ObserveOutput, FailIssues, FailSave, DatabaseFails, Crash
<1>8. \A q \in Scans \ {s} : warned'[q] = warned[q]
  BY DEF Inv, Typed, LocalTyped, Start, Walk, WalkFails, NextDetector, Detect, ObserveTool, ToolRefused,
         ObserveOutput, FailIssues, FailSave, DatabaseFails, Crash, Die
<1>9. \A q \in Scans \ {s} : q \in issues' <=> q \in issues
  BY DEF database, Start, Walk, WalkFails, NextDetector, Detect, ObserveTool, ToolRefused, ObserveOutput,
         FailIssues, FailSave, DatabaseFails, Crash
<1> QED BY <1>1, <1>5, <1>6, <1>7, <1>8, <1>9, OthersStand DEF Mild

\* A phase that is over leaves no required tool without its verdict.
LEMMA PhaseDoneStands ==
    ASSUME Inv, Stands, NEW s \in Scans, PhaseDone(s)
    PROVE  Stands'
<1>1. Alone(s)
  BY PhaseDoneTyped DEF Inv
<1>2. /\ pc[s] \in Queued /\ todo[s] = {} /\ pc'[s] = After(pc[s])
      /\ todo'[s] = Work(s, After(pc[s])) /\ RequiredTools(s)' = RequiredTools(s)
      /\ rows' = rows /\ status' = status /\ warned' = warned /\ issues' = issues
  BY FindsAlike DEF PhaseDone, GoTo, Inv, Typed, LocalTyped, database
<1>3. status[s] \notin Ended /\ Standing(s)
  BY <1>2, Unended DEF Queued, Stands
<1>4. Standing(s)'
  <2>1. CASE pc[s] \in {"tools", "outputs"}
    BY <2>1, <1>2, <1>3, Order, WorkOf DEF Standing, Settled, Ended
  <2>2. CASE pc[s] \notin {"tools", "outputs"}
    <3>1. pc'[s] \in Settled \ {"finish"}
      BY <2>2, <1>2, Order DEF Queued, Settled
    <3>2. \A t \in RequiredTools(s) : Blocked(s, t)
      BY <2>2, <1>2, <1>3 DEF Standing, Queued, Settled
    <3> QED BY <3>1, <3>2, <1>2, <1>3 DEF Standing, Settled, Ended, Blocked
  <2> QED BY <2>1, <2>2
<1> QED BY <1>1, <1>2, <1>4, OthersStand DEF Mild

\* The tool that is looked at is BLOCKED, or is still to be written.
LEMMA ReadRequiredStands ==
    ASSUME Inv, Stands, NEW s \in Scans, NEW t \in Tools, ReadRequired(s, t)
    PROVE  Stands'
<1>1. Alone(s)
  BY ReadRequiredTyped DEF Inv
<1>2. /\ pc[s] = "reclassify" /\ RequiredTools(s)' = RequiredTools(s)
      /\ rows' = rows /\ status' = status /\ warned' = warned /\ issues' = issues
  BY FindsAlike DEF ReadRequired, database
<1>3. status[s] \notin Ended /\ Standing(s)
  BY <1>2, Unended DEF Stands
<1>4. Standing(s)'
  <2>1. CASE rows[t].risk = "BLOCKED"
    <3>1. pc'[s] = "reclassify" /\ todo'[s] = todo[s] \ {t}
      BY <2>1, <1>2 DEF ReadRequired, Done, Inv, Typed, LocalTyped
    <3> QED BY <2>1, <3>1, <1>2, <1>3 DEF Standing, Settled, Ended, Blocked
  <2>2. CASE rows[t].risk # "BLOCKED"
    <3>1. pc'[s] = "reclassified" /\ todo'[s] = todo[s]
      BY <2>2, <1>2 DEF ReadRequired, GoTo, Inv, Typed, LocalTyped
    <3> QED BY <3>1, <1>2, <1>3 DEF Standing, Settled, Ended, Blocked
  <2> QED BY <2>1, <2>2
<1> QED BY <1>1, <1>2, <1>4, OthersStand DEF Mild

\* What is written is BLOCKED, whatever happened to the row since it was read.
LEMMA WriteRequiredStands ==
    ASSUME Inv, Stands, NEW s \in Scans, WriteRequired(s)
    PROVE  Stands'
<1> DEFINE t == held[s].id
           row == Reclassified(held[s].row)
<1>1. Alone(s)
  BY WriteRequiredTyped DEF Inv
<1>2. t \in Tools /\ row.risk = "BLOCKED"
  <2>1. held[s] \in [id : Tools, row : Rows]
    BY DEF Inv, Typed, Consistent, WriteRequired
  <2>2. held[s].row.report.type \in RequirableTypes
    BY <2>1, InventoryAssumption DEF Inv, Backed, WriteRequired
  <2> QED BY <2>1, <2>2, ReclassifiedTyped
<1>3. /\ pc[s] = "reclassified" /\ pc'[s] = "reclassify" /\ todo'[s] = todo[s] \ {t}
      /\ rows' = [rows EXCEPT ![t] = row] /\ RequiredTools(s)' = RequiredTools(s)
      /\ status' = status /\ warned' = warned /\ issues' = issues
  BY FindsAlike DEF WriteRequired, Done, GoTo, Inv, Typed, LocalTyped
<1> HIDE DEF t, row
<1>4. status[s] \notin Ended /\ Standing(s)
  BY <1>3, Unended DEF Stands
<1>5. \A u \in Tools : rows'[u] = IF u = t THEN row ELSE rows[u]
  BY <1>3 DEF Inv, Typed, DatabaseTyped, Resources
<1>6. RequiredTools(s) \subseteq Tools
  BY WorkTyped DEF Inv, Typed
<1>7. \A u \in RequiredTools(s) \ todo'[s] : Blocked(s, u)'
  BY <1>2, <1>3, <1>4, <1>5, <1>6 DEF Standing, Blocked
<1>8. Standing(s)'
  BY <1>3, <1>4, <1>7 DEF Standing, Settled, Ended
<1>9. Mild(s)
  BY <1>2, <1>3, <1>5 DEF Mild
<1> QED BY <1>1, <1>8, <1>9, OthersStand

\* The phases after it leave the verdicts alone.
LEMMA SettledSteps ==
    ASSUME Inv, Stands, NEW s \in Scans,
           \/ StoreProjects(s) \/ (\E r \in Roots : StoreWorkspace(s, r))
           \/ StoreMembers(s) \/ (\E e \in Edges : StoreEdge(s, e))
    PROVE  Stands'
<1>1. Alone(s)
  BY StoreProjectsTyped, StoreWorkspaceTyped, StoreMembersTyped, StoreEdgeTyped DEF Inv
<1>2. /\ rows' = rows /\ status' = status /\ issues' = issues
      /\ span' = span /\ saw' = saw /\ found' = found /\ pc[s] \in Settled
  BY DEF StoreProjects, StoreWorkspace, StoreMembers, StoreEdge, Settled
<1>3. RequiredTools(s)' = RequiredTools(s)
  BY <1>2, FindsAlike
<1>4. pc'[s] \in {"workspaces", "members", "edges", "failing"}
  BY DEF Inv, Typed, LocalTyped, StoreProjects, StoreWorkspace, StoreMembers, StoreEdge, GoTo
<1>5. status[s] \notin Ended /\ Standing(s)
  BY <1>2, Unended DEF Stands, Settled
<1>6. Standing(s)'
  BY <1>2, <1>3, <1>4, <1>5 DEF Standing, Settled, Ended, Blocked
<1>7. \A q \in Scans \ {s} : warned'[q] = warned[q]
  BY DEF Inv, Typed, LocalTyped, StoreProjects, StoreWorkspace, StoreMembers, StoreEdge
<1> QED BY <1>1, <1>2, <1>6, <1>7, OthersStand DEF Mild

\* Issues are stored before the scan that has them is stored as completed.
LEMMA EndSteps ==
    ASSUME Inv, Stands, NEW s \in Scans, StoreIssues(s) \/ Finish(s)
    PROVE  Stands'
<1>1. Alone(s)
  BY StoreIssuesTyped, FinishTyped DEF Inv
<1>2. /\ rows' = rows /\ warned' = warned /\ RequiredTools(s)' = RequiredTools(s)
      /\ pc[s] \in {"issues", "finish"} /\ warned[s] \in BOOLEAN
  BY FindsAlike DEF StoreIssues, Finish, Inv, Typed, LocalTyped
<1>3. status[s] \notin Ended /\ Standing(s)
  BY <1>2, Unended DEF Stands
<1>4. \A t \in RequiredTools(s) : Blocked(s, t)'
  BY <1>2, <1>3 DEF Standing, Settled, Blocked
<1>5. CASE StoreIssues(s)
  <2>1. pc'[s] = "finish" /\ status' = status /\ (s \in issues' <=> warned[s])
    BY <1>5, <1>2 DEF StoreIssues, GoTo, Inv, Typed, LocalTyped
  <2>2. Standing(s)'
    BY <2>1, <1>2, <1>3, <1>4 DEF Standing, Settled, Ended
  <2>3. Mild(s)
    BY <1>5, <1>2 DEF StoreIssues, Mild
  <2> QED BY <2>2, <2>3, <1>1, OthersStand
<1>6. CASE Finish(s)
  <2>1. /\ pc[s] = "finish" /\ pc'[s] = "done" /\ issues' = issues
        /\ status'[s] = IF warned[s] THEN "COMPLETED_WITH_ERRORS" ELSE "COMPLETED"
    BY <1>6 DEF Finish, GoTo, Inv, Typed, LocalTyped, DatabaseTyped
  <2>2. Standing(s)'
    BY <2>1, <1>2, <1>3, <1>4 DEF Standing, Settled, Ended
  <2>3. Mild(s)
    BY <1>6, <1>2 DEF Finish, Mild, Inv, Typed, DatabaseTyped
  <2> QED BY <2>2, <2>3, <1>1, OthersStand
<1> QED BY <1>5, <1>6

\* A step of the world is none of a scan.
LEMMA WorldStands ==
    ASSUME Stands, UNCHANGED <<database, local>>
    PROVE  Stands'
<1>1. \A q \in Scans : RequiredTools(q)' = RequiredTools(q)
  BY FindsAlike DEF local
<1> QED BY <1>1 DEF Stands, Standing, Blocked, database, local

\* What a scan leaves behind stands.
LEMMA StandsHolds == TimedSpec => []Stands
<1>1. Init => Stands
  BY DEF Init, Stands, Standing, Settled, Ended
<1>2. Inv /\ Stands /\ [TimedNext]_vars => Stands'
  <2> SUFFICES ASSUME Inv, Stands, [TimedNext]_vars PROVE Stands'
    OBVIOUS
  <2>1. ASSUME NEW s \in Scans, ScanStep(s) PROVE Stands'
    BY <2>1, OpenSteps, PhaseDoneStands, ReadRequiredStands, WriteRequiredStands,
       SettledSteps, EndSteps DEF ScanStep
  <2>2. CASE \E s \in Scans : Crash(s)
    BY <2>2, OpenSteps
  <2>3. CASE (World \/ Tick \/ UNCHANGED vars) /\ ~\E s \in Scans : Crash(s)
    <3>1. UNCHANGED <<database, local>>
      BY <2>3 DEF World, Edit, Upgrade, Tick, vars
    <3> QED BY <3>1, WorldStands
  <2> QED BY <2>1, <2>2, <2>3 DEF TimedNext, Next, Over, World
<1> QED BY <1>1, <1>2, InvHolds, PTL DEF TimedSpec
------------------------------------------------------------------------------
(* Theorems.                                                                *)

\* Types, for any roots, tools, contents and number of scans, whatever fails: a scan holds
\* a row or a workspace exactly between two transactions of a phase, and has no other work
\* than what it found.
THEOREM TypeCorrect == TimedSpec => []TypeOK
<1>1. Inv => TypeOK
  BY DEF Inv, Typed, WorldTyped, DatabaseTyped, LocalTyped, Consistent, Labels, TypeOK
<1> QED BY <1>1, InvHolds, PTL

\* However many scans store a root at once, each with what it saw there, the root is never
\* stored both as a repository and as a build project (project_repository.go:42-54).
THEOREM OneProjectPerRoot == TimedSpec => []NoTwins
<1>1. Inv => NoTwins
  BY DEF Inv, Sound, NoTwins
<1> QED BY <1>1, InvHolds, PTL

\* What is stored refers to stored projects and resources only, between any two transactions
\* of any scans and after failures (cmd/plan.go:183-186).
THEOREM ReferencesResolve == TimedSpec => []Grounded
<1>1. Inv => Grounded
  BY DEF Inv, Sound, Grounded
<1> QED BY <1>1, InvHolds, PTL

\* Foreign keys never fail a scan that stores the members of a workspace, although other
\* scans remove projects meanwhile (workspace_repository.go:60-83).
THEOREM MembersAreStored == TimedSpec => []ForeignKeysHold
<1>1. Inv => ForeignKeysHold
  BY MembersStored DEF Inv, ForeignKeysHold
<1> QED BY <1>1, InvHolds, PTL

\* A tool that a scan found required is BLOCKED when the scan has completed, as long as
\* the stored observation is its own: no interleaving with other scans, no failure and no
\* crash leaves the verdict of the first observation (resource_service.go:158-168).
THEOREM RequiredStaysBlocked == TimedSpec => []VerdictStands
<1>1. Stands => VerdictStands
  BY DEF Stands, Standing, Ended, Blocked, VerdictStands
<1> QED BY <1>1, StandsHolds, PTL

\* A scan that completed with errors has its issues stored, and one that completed without
\* has none, whichever of the calls fails (analysis_orchestrator.go:361-368).
THEOREM IssuesAreTold == TimedSpec => []StatusTellsIssues
<1>1. Stands => StatusTellsIssues
  BY DEF Stands, Standing, StatusTellsIssues
<1> QED BY <1>1, StandsHolds, PTL
=============================================================================
