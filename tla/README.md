# A TLA+ verification of libra

libra is a command line program, in Go, that finds what development tools leave on
a disk (`node_modules`, build output, SDKs, caches), explains it, and moves what
can be regenerated into a quarantine from which it can be restored or purged. A
background monitor keeps its database up to date.

This directory holds TLA+ models of the parts in which order, failure and
concurrency decide whether a user loses a directory or is told something false,
configurations with which TLC checks them, and proofs that TLAPS checks. Paths
below are relative to the repository; `PROJECT.json` lists, for every definition
that models code, the lines it models.

Contents: [the system](#the-system) ·
[modules](#modules-and-how-they-correspond-to-the-code) ·
[runs](#what-is-model-checked) · [fairness](#fairness) · [proofs](#what-is-proved) ·
[disagreements](#where-code-and-documentation-disagree) ·
[limits](#what-is-not-modelled-and-why) · [plan](#plan) · [usage](#usage)

## The system

Every command is a process of its own; processes share an SQLite database, the
disk, and, around the monitor, two files next to the configuration. There is no
lock between processes. Each call of a repository (`internal/store/sqlite`) is one
database transaction, so the unit of atomicity is one such call, one rename, one
removal or one file write, and anything may happen between two of them.

| Component | Where | State | Operations | What is hard | What makes it correct |
|---|---|---|---|---|---|
| Cleanup transactions | `app/cleanup_service.go`, `app/purge_service.go`, `safety/quarantine.go`, `safety/cleanup_validator.go`, `store/sqlite/cleanup_transaction_repository.go` | row of a transaction and its items; manifests (JSON) in quarantine; trees at their place or in quarantine | `clean --execute`, `restore`, `purge --execute` | renames, manifests and row change one after another: crashes, failing calls, two processes on one transaction, trees that change after they were validated, retention | clean deletes nothing, restore overwrites nothing, purge destroys nothing early; what is in quarantine has a manifest; no row calls it gone; closed transactions are empty |
| Directory scanner | `scanner/scanner.go` | queue, two channels, worker goroutines, one counter | `Scan` | termination by counting, a bounded channel, cancellation, visitors and directories that fail | each directory is read once, none is missed on success, no goroutine is left, `Scan` returns |
| Monitor: records | `cmd/daemon.go` | state file with process ID and heartbeat, one temporary | `daemon start`, `status`, `stop`, monitor process | check-then-act without a lock, one temporary for all writers, removal before renaming, a heartbeat that ages while scans run, process death | a running monitor comes to be recorded, a dead one's record expires, a stop leaves no record |
| Monitor: index | `cmd/daemon.go` | last snapshot, scans it launched | poll, snapshot, compare, scan | edits during walks and scans, failing scans and snapshots, scans that outlive their monitor, files the monitor writes itself | the index converges to what is on disk, scans cease when edits do, untouched roots are not scanned |
| Snapshot comparison | `cmd/daemon.go` (`diffDaemonSnapshots`) | two maps | compare | Go's random map order decides which files are paired as renamed | roots and events account for every difference in every order |
| Discovery | `app/project_detector_adapters.go`, `app/dependency_analyzer_adapters.go`, `internal/adapter/*`, filters of `app/analysis_orchestrator.go`, `scanner/ignore.go` | the candidates of one walk, joined in memory | visit, detect, join, filter, deduplicate, match tools, verify evidence | four workers decide the order of the visits; first-wins and last-wins rules over it; workspaces whose members are reported from elsewhere; links; nested repositories; inherited and conditional build properties | the result does not depend on the order; no marker vanishes; what is SAFE is proven; required tools are blocked |
| Scan pipeline | `app/analysis_orchestrator.go`, `app/resource_service.go` and repositories | scans, resources, projects, workspaces, members, dependencies, issues | `Run`: walk, detect, observe, classify, store | a dozen transactions per scan beside those of other scans, failure of any of them, roots that change kind, read and write of a row in two transactions | references resolve, one project per root, required tools are blocked, the status agrees with the issues |
| Risk and confidence | `app/risk_policy.go`, `app/confidence.go`, `app/confidence_claims.go`, `domain/risk_assessment.go` | none | `Classify`, `AssessClaim`, `ApplyFreshness`, `CleanupSummary` | boundaries of ages and thresholds | nothing unproven or old is SAFE |
| Cleanup planning | `app/plan_service.go`, `cleanup_plan_repository.go`, `cmd/plan.go` | the stored plan | `plan` | rows read once, owners read one by one while scans write; greedy choice up to a target | the plan meets its target, is proven, misses nothing |
| Path safety | `safety/path_classifier.go`, `pathutil`, `cmd/target.go` | none | normalise, contain, classify | case, separators, prefixes, links | system paths are never offered |
| System detectors | `internal/adapter/*` that ask installers and package managers | none | run tools, parse what they print | formats | what is found is there |
| Reports | `explain`, `impact`, `summary`, `export`, `projects`, `resources`, `issues` | none | queries | reads of several tables while a scan writes | |
| Configuration, event log, output, migrations | `config`, `eventlog`, `output`, `migrate.go` | YAML file, JSON lines, schema version | read, write, append, migrate | torn lines, migrations half applied | |

How they interact: `scan` fills the database (walk → detectors → observation →
dependencies → issues); the monitor runs `scan --root` as child processes when
snapshots differ; `plan` reads resources and owners and stores a plan; `clean`
takes a plan, validates its items again on disk, moves them and stores a
transaction; `restore` and `purge` take a transaction.

## Modules and how they correspond to the code

| Module | Models | Kind |
|---|---|---|
| `QuarantineStore` | what clean, restore and purge promise about trees | abstract specification |
| `Cleanup` | the three commands, step by step, in several processes | detailed specification |
| `CleanupProperties` | its properties, inductive invariant and refinement mapping | properties |
| `CleanupProofs` | its types, invariant, properties and refinement, proved | proofs |
| `ParallelScanner`, `ScannerProofs` | `ParallelScanner.Scan` with its goroutines | specification, proofs |
| `DaemonControl`, `DaemonProofs` | start, stop, status and the state file | specification, proofs |
| `IncrementalScan`, `IncrementalProofs` | the monitor's loop and the scans it runs | specification, proofs |
| `SnapshotDiff`, `DiffProofs` | `diffDaemonSnapshots` | specification, proofs |
| `RiskPolicy` | verdict, confidence, ageing, gates | operators |
| `Inventory`, `InventoryProofs` | scans that fill the database | specification, proofs |
| `FileTree` | the disk and Git as the detectors read them (external) | operators |
| `ProjectDetectors` | what a detector reports of one entry; extends `FileTree`, `RiskPolicy` | operators |
| `Requirements` | matching of declared needs with installed tools | operators |
| `Discovery` | one scan from the walk to what it stores; extends the three above | specification (composition) |
| `DiscoveryProperties`, `DiscoveryProofs` | its properties, with a serial reference walk; proof | properties, proofs |
| `PlanService`, `PlanProofs` | `libra plan` beside scans; extends `Inventory`, as its proofs extend `InventoryProofs` | specification (composition), proofs |
| `MC*` | instances for TLC | |

**Cleanup.** `orig[i]` and `quar[t][i]` are what lies at an item's own path and at
its path in quarantine: `"planned"` (the tree that was validated), `"changed"`
(another), `"partial"` (what an interrupted `RemoveAll` leaves), `"link"`, or
`"none"`. `manifest[t][i]` is the status that the manifest of the item's quarantine
root has for it, `row[t]` the stored transaction; `ManifestOf` says which items
share a manifest file. A process has a label `pc`, a transaction `cur`, the
item it is at, and its own copy `st` of the item statuses, which may be stale.
One action stands for each call on disk or database: `CleanValidate`
(`CleanupValidator.Validate`), `CleanPrepare` (all manifests, or the ones before the
first error), `CleanLeave` / `CleanMove` (`Lstat`, `Rename`), `CleanLog` (manifests
after each item), `CleanRecord` (`Create`), `Restore…` (`Lstat` of both places, `Rename`,
manifests, `Update`), `Purge…` (the two queries of `FindByID`, one for the row and a later one for
its items, `validatePurgeItem`, `RemoveAll`, `Update`, unlinking the manifests). Retention and
status are judged by what the first query read, items may be newer than it. A restore uses the items only. `Outside` is a build or editor at an original path, `Tamper` a change of
the quarantine by hand, `Crash` the end of a process between any two steps, `Tick`
the clock. What may fail is a constant, `Faults`.

**QuarantineStore** has the same trees and no processes, rows or manifests: a tree is
set aside, put back where nothing is in the way, or destroyed once it has been in
the vault for `Retention`.

**ParallelScanner.** The queue, `active`, the two channels, the caller's place in
`Scan` and each worker's. `Dispatch`, `Receive` and `LoopCancelled` are the cases of the
`select`; `CancelWorkers`, `CloseJobs` and `WaitForWorkers` the deferred calls in the
order in which Go runs them. The forest (`Roots`, `Subdirs`, `Depth`) is a constant
after exclusion of patterns and links.

**DaemonControl.** The state file and its temporary with a process ID and an age of
the heartbeat; monitors and commands with labels. `writeDaemonState` is three steps
(write the temporary, remove the old file, rename), taken by monitors and by
`start` alike.

**IncrementalScan.** Files of a root are a model value that edits change, with a
modification time that is new unless `"unseen"` is among the faults. A snapshot walks
one root per step. A scan process reads a root in one step and stores it in a later one.

**SnapshotDiff.** The three loops of `diffDaemonSnapshots` with the order of each `range`
over a map left open. `States` are sizes and times.

**RiskPolicy.** A report, what a detector says of a resource, has only the
fields that the verdict and the profile depend on. `Classify`, `ConfidenceProfile`, `Aged`
(`ApplyFreshness`), `Eligible` (`CleanupSummary`) are translated rule by rule.

**Inventory.** What a root holds (`content`) is a repository, a build project with
an output directory and requirements, a workspace file. A scan `Start`s, `Walk`s
(remembering what it `saw`), asks one detector of tools after another, in any order, and stores what it reports before the
next is asked (`Detect`, `NextDetector`, `unasked`), and works through the phases of `Run` in
the order of `After`, one element of `todo` per step, each step one transaction;
`held` is a row read by `ReclassifyRequired` and not yet written. `DatabaseFails` stands
for the error of any call and leads through `FailIssues` and `FailSave`, which may
fail as well. `StoreProjects` is `UpsertObserved` whole, with the removal of a
fallback repository and the cascades. `Upgrade` replaces an installed version by
another at the same place, which the unique path in the schema then refuses.

**FileTree, ProjectDetectors, Requirements.** A path is a sequence of names; a disk has
directories, files with what they say (a record of the fields a detector reads), links,
the files Git tracks, and what cannot be read. `HasTrackedFiles` asks Git as `git -C` does, through links. Each detector is a function from
an entry of the walk to a candidate: projects, workspaces with members, outputs with their
evidence, needs for tools, issues. Node (with npm and pnpm workspaces), Python (with venvs and
Conda), MSBuild (with inherited and conditional properties), Xcode and Swift packages, Maven,
Gradle, Cargo, Go and plain Git are translated, with the early returns at unreadable files; an `OutputPath` that leads through a
regular file leaves an issue and none of the project's outputs (`LeadsThroughFile`). Names of
environments are compared in lower case (`Lower`). A
version is a sequence of numbers; `MatchDotNetSDK`, `MatchWindowsSDK`, `MatchEnv`, `MatchXcode` say which
installed tool a need selects, and with which kind of evidence.

**Discovery.** `ScanDirectory` lists *any* pending directory and appends what the detectors say
of its entries to `found`: that is the freedom four workers give to the visitor. `Analyze` is the
rest of `Run` up to the rows: `Projects`, `Workspaces` (the filters), `OutputReports` (owner filter and
deduplication), `EnrichCleanupEvidence` (the second look, from the output's own path),
`Rows` (last report of a resource, blocked if required), `OwnsEdges`, `RequiresEdges`, issues.
`Excluded` is the exclusion of patterns. `Inventory` takes up where `Discovery` ends: it
abstracts what is found to a few contents and models how the rows are stored beside
other scans; `ParallelScanner` models the walk's own concurrency.

**PlanService.** `PlanBegin` reads the latest scan, `PlanList` all resources, `PlanCandidate` one owner of the first
candidate (in the order of the comparator) that was not `looked` at yet and takes it if it has one,
`PlanStore` validates and stores. Scans take steps in between and days pass.

## What is model-checked

TLC explores every state of each instance; the number of distinct states is in the
last column. Constants not named are as in the `.cfg`.

| Run | Instance | Shows | States |
|---|---|---|---|
| `cleanup_faults` | one process, one transaction, two items with a manifest each, clock 0–2, all faults, fairness | `ManifestCovers`, `RecordSound`, `FinalRecordsStick`: under crashes, failing writes, failing renames and removals and a tampered quarantine, a tree in quarantine has a manifest that does not call it restored, no row calls it gone, and what was recorded as restored or purged is not recorded otherwise later; `CommandsEnd`: a command that was begun ends | 773 000 |
| `cleanup_concurrent` | two processes, one transaction, one manifest for both items, failing file operations | `ClosedIsEmpty`; `RowMatchesDisk`: when no command runs, row and disk agree; `StoreSpec`: the refinement of `QuarantineStore`; all with stale copies of rows in two processes | 1 856 000 |
| `cleanup_stranded` | one process, failing file operations | *violated*: `NothingStranded`, see [below](#where-code-and-documentation-disagree) | |
| `scanner_walk` | two workers, a forest of five directories in two roots, depth limit 2, all faults, fairness | `ActiveCounts`, `ScannedOnce`, `Complete`, `ExactlyInDepth`, `NoLeak`, `ScanReturns` | 35 000 |
| `daemon_records` | two monitors, one command process, stale after one unit, crashes, scans of any length, fairness | `StopLeavesNoRecord`, `RunningIsRecorded`, `DeadRecordExpires` | 50 000 |
| `index_rest` | two roots, one of them with the monitor's own files, two scan processes, edits that leave no trace or come back, scans typed by users, a monitor killed and started again | `UntouchedRootsRest` | 2 035 000 |
| `index_edits` | two roots with four possible contents, snapshots that fail, edits at any moment, fairness | `IndexConverges`, `ScansCease` | 526 000 |
| `diff_order` | any two snapshots of four paths in two roots with three file states | `RootsAreRight`, `EventsAccount`, `RenamesDoNotDepend` | 811 000 |
| `inventory_scans` | two scans of one root that is a repository, an app or a solution, two versions of an environment, all faults | `NoTwins`, `Grounded`, `VerdictStands`, `StatusTellsIssues`, `ForeignKeysHold` | 890 000 |
| `inventory_unblocked` | two roots that share an environment, no faults | *violated*: `RequiredIsBlocked` | |
| `discovery` | 3 383 disks: Node monorepos and neighbours, MSBuild solutions, Python projects, the other ecosystems, nested roots and roots below links, with exclusions, links and locked directories | `VisitOrderIsFree`, `MarkersAreAnswered`, `MembersShareTheLockfile`, `SafeIsUntracked`, `SafeIsVouchedFor`, `NeededToolsAreBlocked` | 60 000 |
| `plan_choice` | a plan beside two scans, roots with small, large and unproven output, observations 0 or 31 days old, target 0 or 2 | `PlanMeetsTarget`, `PlanIsProven`, `PlanMissesNothing` | 329 000 |

Where a run lists `TypeOK`, it gives each variable its range; of `ParallelScanner` and
`SnapshotDiff` the types are proved and no longer checked by a run.

For every property of a passing run `PROJECT.json` names a mutant: a definition of
the module and a changed form of it, defined before it under the comment `Mutant`,
as a plausible mistake in that code would have it (a dropped guard, an off-by-one, a
missing reset, phases swapped). With the mutant in its place TLC reports the property
violated. So each property says something about the code.

**Bounds and why they are enough.** Two processes are the fewest that can hold stale
copies of each other's rows, two items the fewest where one fails and another does
not, two manifests the fewest where the second may fail to be written; one
transaction is enough because transactions share only the original paths, where
`Outside` already puts anything back. (Two transactions are covered by the proofs.)
The clock of `Cleanup` runs to `MaxTime`, at least the retention period and, in
`cleanup_faults`, one beyond it. Two workers and five directories make the
results channel full, the queue longer than the idle workers and one directory fall on
the depth limit. Two monitors and one command are the least for the race on the
temporary file; the age of a heartbeat is capped one above the limit. Two roots,
two scans and two contents let a scan see an old state and store it after a
newer one. Four paths hold two removed and two created files that could all be paired.
The disks of `discovery` are built in `MCDiscovery` as all combinations of the choices that
the code distinguishes: which file declares the workspace and whether it parses, what a member
is, whether it is inside another workspace, where lockfiles and repositories are, what is tracked, whether Git runs; declared output
directories (own, shared, deep, beside, the project's own root), conditions, inherited
properties, versions that differ in the second digit; which markers, lockfiles, environments a
Python project has; links in place of outputs; one root below another or below a link. Each has two to four
projects, the fewest that can interfere, and every order of listing its directories
is explored. The disk does not change during such a scan.
One plan is made; it is not read again by scans. Names of bounds: `MaxTime`, `Days`,
`StaleAfter`, `Retention`, `MaxDepth`, and the sizes of the constant sets. Processes,
scans and workers are interchangeable, and symmetry is used only in runs that check
no liveness.

## Fairness

- `Cleanup!FairSpec` (in `cleanup_faults`): a command that has begun takes its next step (`WF` of `Run(p)` per
  process). Nothing makes a user begin one, nor a crash or outside change happen. File
  calls return, with or without error.
- `ParallelScanner!FairSpec`: `WF` of the caller and of each worker. The Go scheduler runs
  every goroutine that can run; `ReadDir` returns. Nothing is assumed about
  *which* case of a `select` is taken: a ready case may be passed over for ever.
- `DaemonControl!FairSpec`: `WF` of each monitor, of a command once it has begun, and
  of the clock. Scans of a monitor end after any time, which may be longer than ten minutes.
- `IncrementalScan!FairSpec`: `WF` of the monitor (its ticker fires) and of each scan. `IndexConverges`
  states what else it needs as hypotheses: edits stop, the monitor is not stopped, and
  snapshots succeed again and again.
- `Inventory`, `PlanService` and `Discovery` are checked for safety only. `Discovery` ends by itself,
  so its run does not check deadlock.

## What is proved

Each theorem holds for every value of the constants that satisfies the named
assumptions of its module; TLC evaluates these in each run.

**Cleanup** (`CleanupAssumption`: at least one item and manifest, `ManifestOf` maps
items to manifests). `CleanupProofs!TypeCorrect` proves the types. `CleanupProofs!Invariance`
proves `IInv` inductive, from which `ManifestsCoverQuarantine`, `RecordsAreSound` and
`ClosedTransactionsAreEmpty` follow, for any number of processes and transactions and every
fault. None of the three is inductive by itself, because a process writes into rows and
manifests what it remembers. `IInv` says what a process may believe: while a
transaction is cleaned it has no row and no other process (`Occupied`, `Ownership`); a
clean moves only under written manifests and remembers what it moved (`Cleaning`); no
process believes an item gone that is in quarantine, even with a stale copy, because
nothing ever enters the quarantine of a transaction that has a row (`MemorySound`); items that a
restore or purge has passed are no longer MOVED in its memory (`Advanced`), hence in the rows it writes (`OtherRows`); a
purge has all that is in quarantine on its list or among its failures (`Purging`), since
the rows it accepts list all of it as moved (`PurgeableRows`), and if another command wrote the row before it
read the items, then it has nothing to remove and nothing to record, as that command has left only failures in
quarantine (`PurgedRows`, `Restoring`); and what is in quarantine was
moved before the row was finished, from when retention counts (`Retained`).

`CleanupProofs!RowsMatchDisk` proves `RowMatchesDisk` where commands are not killed, the database
accepts their rows and nobody alters the quarantine by hand (with any of these it is false: the
first two leave trees that no row names). The later of two commands on one transaction
overwrites the row of the earlier with a stale copy, so the second invariant, `RowInv`, keeps
account across processes: a row may say MOVED of what is gone only as long as the command that took it is
about to write its row (`Vanished`); what is in quarantine without a row, a clean is about to record (`Unrecorded`).

`CleanupProofs!Refinement` proves that `Cleanup` implements `QuarantineStore` with
`place <- orig`, `vault <- quar`, `since <- movedAt`, if the quarantine is not altered by
hand: a clean's rename is `SetAside`, a restore's `PutBack`, a purge's `RemoveAll` is
`Destroy` (also half done), and every other step stutters. That `Destroy` is enabled only after
the retention period comes from `Retained`.

`CleanupProofs!FinalRecordsAreKept` proves `FinalRecordsStick` of behaviours in which no two
commands work on one transaction at a time (`Alone`), whatever else fails: a restore or purge
remembers as final what its row has as final and works on no such item (`Recalls`). `Alone` is
needed: of two restores at once the later finds nothing in quarantine and records as FAILED what the earlier recorded as RESTORED.

**ParallelScanner** (`ScannerAssumption`, and `TreeAssumption`: the roots' trees are disjoint and
depths count from the roots). `ScanInvariance` proves the invariant with `Phases` (what
holds at each place of the caller), `SoundResults` (a result carries the children of its
directory), `Counted` (in the loop `active` is the number of workers not waiting for a
job plus the number of results in the channel, lost ones included), `Closed` (unless a
worker lost a result, every root and every child of a visited directory is known) and
`Parented`. `TypeCorrect` gives the types. From it: `VisitsOnce`, `WalkIsComplete` (the loop ends with `active = 0`, so by
`Counted` nothing is in flight and by `Closed` nothing is missing), `NoWorkerLeft`, `ActiveIsRight`.

`WalkIsExact` proves `ExactlyInDepth`. Of directories that are left out above the limit take one of
least depth: it is no root, so by `TreeAssumption` it has a parent, which is less deep, so it was visited, and
then `Closed` has its children known (`NoneLeftOut`). What is below the limit never becomes known,
because only a visited directory makes its children known and `processDirectory` lists none at
the limit (`NoneTooDeep`).

**DaemonControl** (`DaemonAssumption`). `TypeCorrect`, and with it `RecordsNameMonitors`: what is
recorded, on disk, in the temporary or in the memory of a command, names a process that was
started; `stop` never signals one that is not. `StopIsFinal` proves `StopLeavesNoRecord` for
any number of monitors and one terminal: `StopHolds` lets the record after a stop come only from a
monitor that still lives, past a renaming, or that has crashed there. With two terminals the
`start` of one may write its record after the `stop` of the other, which is no fault of `stop`; so the
theorem assumes one.

**SnapshotDiff** (`DiffAssumption`: snapshots are of finitely many files). `DiffInvariance`: the three loops have worked through
certain paths (`Loops`), each change accounts for such paths only (`Accounts`), each of them
is accounted for (`AccountedFor`), no two changes share a path (`Disjoint`). From it:
`TypeCorrect`, `ScansTheRightRoots` and `EveryDifferenceOnce`, for any two snapshots and any order of the maps.
`RenamesAreCounted` proves `RenamesDoNotDepend`: the renames between files of one root and state
map one to one into the lost files and into the new ones, so they are no more than the fewer;
and if one of the lost ones was given up, then no new one was left (`Paired`), so all of those are
paired.

**Inventory** (`InventoryAssumption`), over `TimedSpec`, whose behaviours include those of `Spec`.
`Typed` and `Sound` (the database fits together) are inductive with `Backed`: what a scan
has found is stored by the time that later phases refer to it, and other scans do not
remove it, because only `UpsertObserved` removes anything and only repositories where a build
project is. From it: `TypeCorrect`, `OneProjectPerRoot`, `ReferencesResolve`, `MembersAreStored`.
`RequiredStaysBlocked` and `IssuesAreTold` rest on `Stands`: along the phases a scan has blocked each
required tool or still has it to do, and what other scans write to that row is BLOCKED or theirs.

**IncrementalScan** (`IndexAssumption`). `TypeCorrect`, and `UntouchedRest`: a root that nobody has
edited since the last snapshot is not scanned, provided that walks do not fail
(`"walk" \notin Faults`: a failed walk makes a root look empty). The invariant behind it
(`Faithful`) says what the monitor holds of each root: the last snapshot is the root's
content unless an edit came since, and the one being taken is right for the roots already
walked; so the difference of two snapshots names edited roots only.

**Discovery** (`FileTreeAssumption`; `DiscoveryAssumption`: on the disks that are scanned, whatever there is
is in a directory, the way to which goes over directories and no links, links lead to
paths, what build files declare are directories and SDKs, the roots are paths, system detectors report no output
of a project, and the names that detectors look for (`FixedNames`) have not the ending of an MSBuild file or of egg-info).
`SafeRowsAreUntracked`: for every disk, set of roots,
exclusions and order of the walk, a row that is SAFE is no link, and no repository around it
tracks a file in it where Git answers. The argument follows the code backwards: `Classify`
says SAFE only with all four facts (`CompleteHasAllFacts` and the lemmas after it), a blocked or required
row is never SAFE, and the evidence that `EnrichCleanupEvidence` leaves was asked at
the output's own path, so whichever detector reported it, and from which root, does not matter.

`MarkersAreKept` proves `MarkersAreAnswered` for the same disks and orders. Its invariant, `WalkInv`, is
about the walk: of a directory that counts as walked the entries have been observed, or some
pending task leads to it (`Covered`), since the listing of a directory on the way finds the next one
(`NextOnTheWay`); and each candidate is what the detectors said of some path (`Known`), which
holds while the disk does not change (`ObservationStays`, over all detectors). The rest is about the
result: only `NodeProject` reports Node projects and workspaces (`OthersAreForeign`), a directory declares
one workspace at most (`NodeWorkspaceShape`), so what a filter drops is inside a kept workspace that does
not list it (`DroppedIsUnlisted`), and so is what stood for a repository.

`LockfileIsShared` proves `MembersShareTheLockfile`, which depends on the order of the candidates, by a second
invariant, `OrderInv`: a candidate comes from an entry below a root, and those of the directories
between the two are before it, since the walk lists a directory after those above it (`Came`, `OnTheWay`).
A row of a node_modules is what the last report of it says (`Stored`), and that was made with some package.json:
by the directory itself or by a workspace that lists it (`InstallReports`). If that is
not the root of the kept workspace, it is above this root, which `topLevelWorkspaceCandidates` rules out, or
below it; then the root has reported the directory before, for the same owner, and `dedupeProjectResources`
kept the root's report (`MemberInstall`). The other half is that some report is the first, and is stored
(`MemberHasRow`).

`SafeHasAnOwner` proves `SafeIsVouchedFor`, `NeedsAreBlocked` proves `NeededToolsAreBlocked`. Both rest on a
third invariant, `Concluded`: the result is the analysis of the candidates, part by part (`AnalysisIsJoined`).
For the first, each detector is taken in turn (`NodeIsVouched` to `MSBuildIsVouched`): what it calls
complete it reports with a declaration that is on the disk, inside its root and where no repository tracks it
(`Vouched`). A row keeps the evidence of the last report (`LastExists`) and an edge the name of the first
(`FirstExists`), which is why the owner of a safe row may own it under another type; and the project
that reported it is in the result, or one with the same manifest is (`SafeHasProject`, on
`DetectedIsIdentified`: the name of a manifest tells type and root of its project). For the second,
`Newer` is a strict order on versions of any length (`NewerIsTransitive`), so one of the suitable tools is
newest (`NewestTool`); `MatchDotNetSDK` and `MatchWindowsSDK` choose one such (`SDKIsMatched`),
`MatchEnv` an environment of the name (`EnvIsMatched`), and its edge makes the row blocked (`MatchedIsBlocked`), since
nothing that projects need is a type that they report or that may not be blocked.

`OrderIsFree` proves `VisitOrderIsFree`: of a settled scan (no root inside another, no member outside its
workspace, no two environments of one name) the result is that of the serial walk. Three parts:
- *The walk.* A fourth invariant, `LayInv`: what is observed in a directory stands among the candidates in
  one piece, for a directory above another before the piece of that one (`Laid`); to each directory that a root leads to and that
  is not yet listed there is exactly one task (`Progress`, `Separate`). So a walk that has ended lists the same
  directories as the serial one, each once (`AllIsLaid`). Nothing bounds the size of the disk: a walk that ends has
  listed finitely many. `Before` orders the directories totally, above before below (`BeforeIsTransitive`,
  `BeforeIsTotal`, `AboveIsBefore`), so the serial walk is laid out as well (`SerialIsLaid`).
- *The analysis.* `Matches` pairs the reports of two scans so that those of one path, and those
  of tools, are in the same order in both. Then the same are kept as first (`DedupeMatches`) and as last
  (`LastMatches`), the rows, edges and needs are the same (`RowsMatch`, `OwnsMatch`, `RequiresMatch`), and so is the
  result (`AnalysisMatches`).
- *Between them.* Two reports of one path come from directories of which one is the other or above it, since a
  detector reports what is beneath the directory that it looks at (`ObservedIsInside`, `AboveOne`); those keep
  their order in every walk (`PairedInOrder`, `WalksMatch`).

**PlanService** (`PlanAssumption`, `InventoryAssumption`). For any number of scans, any contents and any
target, the invariant has three layers. `Inv` is that of `Inventory`: rows, projects and edges fit
together. `Ready` adds what scans promise a reader at every moment: a row is SAFE only if it is
regenerable, unprotected and has all four facts, and an output of which that holds is SAFE
(`Fair`); a scan that has ended has stored its edges (`Owned`). `PlanInv` is the plan's own: the list
it read is `Fair` as well; its items were looked at, have the sizes listed and edges that are still
there (`ItemsHold`), and sizes add up (`SumHolds`); the outputs of scans that had completed
when it began are listed, owned, and taken once looked at (`NothingMissed`), better ones before worse
(`InOrderTaken`). From it `TargetIsMet`, `TakenIsProven`, `NothingIsMissed`, and `SelectionIsValid`: the
checks of `validateCleanupPlan` never refuse what `Build` selected. That a total grows by the size
of the item appended is proved of the recursive function `Total`, by `Induction` (below).

**Only model-checked.** Liveness (`CommandsEnd`, `ScanReturns`, `RunningIsRecorded`,
`DeadRecordExpires`, `IndexConverges`, `ScansCease`): the prover does not reason about fairness
and `ENABLED`. Every invariant and every other action property of a passing run is stated by a theorem.

Induction over data: the library's induction theorems take an operator as a parameter, so they
cannot be used. Over natural numbers `PlanProofs!Induction` (in `DiscoveryProofs` too) states it for sets instead (a set that
holds 0 and with n also n + 1 holds every natural), from the well-foundedness of <; this serves
where the argument is on one number: the sums, the depth of a tree, the length of a
sequence that `FlattenSeq` joins. `SelectSeq` is unknown to the prover; `FileTree!Those` says the same with `FlattenSeq`.

## Where code and documentation disagree

Two runs show a violation:

- `cleanup_stranded`: a restore that cannot rename a tree back records the item as FAILED
  (`quarantine.go:95`); a later restore only takes MOVED and SKIPPED items (`quarantine.go:69`)
  and a purge refuses the transaction, so the tree stays in quarantine and no command
  can reach it, though `README.md:285` says restore returns quarantined items.
- `inventory_unblocked`: a scan observes every tool anew as not required and blocks those
  that its own roots require, so a scan of one root takes the BLOCKED verdict from a tool
  that a project in another root requires (`analysis_orchestrator.go:308`). The
  tool becomes REVIEW, not SAFE: no plan takes it.

Others were met while modelling and have no run:

- A crash after the moves and before `Create` (`cleanup_service.go:63`) leaves a
  quarantine that no row names; `docs/libra_integration_contracts.md:17` has the manifest on disk
  as the source of recovery, but restore and purge both start from the row.
- Restoring a PURGED transaction rewrites its row as FAILED (`cleanup_service.go:71`), while
  `exit_code.go:47` takes FAILED for an operation that "was safely refused".
- A monitor whose scan takes more than ten minutes counts as stopped: stop reports success and
  leaves it running (`daemon.go:124`), start begins a second one (`daemon.go:61`).
  `writeDaemonState` removes the old file before it renames the new one (`daemon.go:320`), so a
  start in between begins a second one too; both write the same temporary, so the
  record may be of either.
- A root that holds the configuration holds the state file too, and the monitor scans it at
  every poll for ever (`daemon.go:225`). A scan that fails is not repeated (`daemon.go:180`).
  A file that is changed and is back as it was at the next snapshot goes unseen, as with any polling.
- Resource IDs include the version, but paths are unique (`001_initial.sql:33`): when an installer
  replaces a version at the same place (`xcode/install.go:78`, `vswhere.go:101`), each later
  scan fails on it.
- `docs/libra_integration_contracts.md:698-699` has originals tracked by Git and reparse points BLOCKED
  whatever the scores; `Classify` says REVIEW of missing evidence about them.
- `ReclassifyRequired` writes back a whole row that it read in another transaction and may thereby
  move `LastObservedAt` back.
- A build project row that was once stored hides a repository at that root for ever. A repository
  may be left out in favour of a Node project that the workspace rule then leaves out as well
  (`analysis_orchestrator.go:213`).
- A member that a workspace lists outside its own root and that is below another workspace is reported only if
  that one lists it as well (`analysis_orchestrator.go:515`), so the first keeps a member without a project.
- A scan root itself is never visited, only what is in it: a root that is a Node, Python or Git
  project is not found by the detectors that look at directories.
- `docs/libra_integration_contracts.md:124` and `:788` say that links are not followed. The walk does not
  descend into them, but a link to a project directory is reported as a project, with the outputs
  behind it, and `FindRepoRoot` climbs the path as written, so what Git tracks there is not seen;
  `Validate` looks for a link at the last name only.
- What a repository *below* an output directory tracks is not seen: Git is asked in the one above.
- An `OutputPath` that is the project's own directory (`.`, or a source directory), outside a repository,
  is evidence enough for SAFE; only the names that `cleanup_validator.go` accepts stand in the way.
- `node.go:231` has members share the lockfile of the workspace. A member visited from another
  root, or one outside the workspace's root (`../x`), keeps what its own visit said first
  (`dedupeProjectResources`); hence `Settled` in the properties. `Settled` also excludes two environments of
  one name inside projects: which of them a project requires depends on the order of the
  visits, and the index holds them although
  `dependency_analyzer_adapters.go:67` says that only registered ones are matched.
- When two owners report one directory, the row keeps the verdict of the last.
- A child directory that cannot be listed hides a Python project that has only `requirements.txt`. Conditional
  target frameworks are not analysed at all.
- `Validate` reads the stored row and does not look whether the manifest or lockfile that made an
  output regenerable is still there (`docs/libra_integration_contracts.md` §10, `README.md:272`).
- Confidence orders plan candidates (`plan_service.go:109`), but `Overall` is the least
  axis and two axes are always 80, so detectors that are surer than that tie and size decides. A scan that died stays RUNNING, and `FindLatest` returns it like any other.
- `--target` beyond 2^63 − 1 becomes negative (`cmd/plan.go:107`): everything is selected and
  `Create` refuses the plan.

## What is not modelled and why

- *Cleanup*: dry runs change nothing. Two processes that write the same `.tmp` of a manifest at
  once, a manifest torn by a power failure, directories left empty, a clock that goes back, and
  `Rename` onto an empty directory are left out. The retention check of a purge
reads the clock with the row, not after the items: a period that ends between these two reads ends too late for that purge. That a plan's resources and projects are
  read again is part of one verdict of `CleanValidate`. Exit codes and views are formatting.
- *Scanner*: in `ParallelScanner`, exclusion patterns and link detection (`ignore.go`) decide what `Subdirs`
  holds, and roots are disjoint; `Discovery` has both, and roots inside one another, but no depth limit.
- *Discovery*: names of projects, sizes, dates, regeneration commands, absolute and negated
  workspace patterns, MSBuild macros, versions with letters. What the system detectors report is given (`installed`). The disk does not change during a
  scan; a change between two visits is as if the later one had been visited on another disk.
- *Monitor*: a torn state file, a process ID used again, write errors other than of the rename.
- *Inventory*: a root has at most one repository, build project, output directory and
  workspace. Rows of evidence and overlapping roots are left out; the rules by which workspaces hide
  projects are in `Discovery`. A scan takes no time of
  the day-long clock in `Spec`.
- *Plan*: one plan; rows from before profiles existed; the scan ID of items, which
  nothing reads; the printed view.
- *Components not modelled*: system detectors run tools and parse what they print, reports query, output formats,
  configuration is read and written whole, the event log is appended to by one process.
  Path safety and migrations are planned.

## Plan

Done: cleanup, scanner, monitor, comparison, scan pipeline, risk, plan, discovery (detectors, workspace
rules, exclusion, requirements). Next, with the modules that are to be written:

1. `PathSafety`: `Normalize`, `IsSameOrChild`, `Classify` and `resolveTarget` as functions, compared
   with reference definitions over all short paths; containment proved a partial order.
2. `PlanToClean`: `PlanService`, then `Cleanup`'s validation, over one database: what was
   SAFE when planned is checked again before it is moved; plans with a directory inside another.
3. `Reports`: `explain`, `impact`, `summary` as several reads beside a scan.
4. `Migrations` and `EventLog`: crash between steps, torn last line.
5. A disk that changes while `Discovery` walks it.
6. Proofs: what `Discovery` stores fits together; the refinement of the index by "a root's last stored content was its content
   at some time since the last change".

## Usage

With TLC, TLAPS and the TLA+ community modules on the path:

    tlc -workers 2 -config MCCleanup_faults.cfg MCCleanup.tla
    tlapm CleanupProofs.tla

Configurations are named after the module that they instantiate and the run.
