--------------------------- MODULE IncrementalScan ----------------------------
(***************************************************************************)
(* How the background monitor (runDaemon in cmd/daemon.go) keeps the index  *)
(* up to date: it compares snapshots of the roots' files every two seconds  *)
(* and runs `libra scan --root' for each root that changed, while users     *)
(* edit, type scans of their own, and stop and start the monitor.           *)
(*                                                                          *)
(* The files of a root are one value of Contents. A scan is what it sees    *)
(* and when it stores that. The roots do not overlap.                       *)
(***************************************************************************)
EXTENDS Naturals, FiniteSets

CONSTANTS
    Roots,     \* ProjectRoots
    Contents,  \* what the files of a root can be
    Empty,     \* no files
    Scans,     \* processes for scans
    None,
    Home,      \* the root that holds the configuration file, or None
    Faults     \* what may happen besides edits, see FaultKinds

\* walk: a file or directory cannot be read; scan: a scan fails;
\* manual: a user types scan; kill: a user stops the monitor; unseen: files are
\* edited while there is no monitor; revert: an edit brings back files, their sizes
\* and their times, as a temporary file does that is created and removed.
FaultKinds == {"walk", "scan", "manual", "kill", "unseen", "revert"}

ASSUME IndexAssumption ==
    /\ Empty \in Contents
    /\ None \notin Roots \union Scans \union Contents
    /\ Home \in Roots \union {None}
    /\ IsFiniteSet(Roots)
    /\ Faults \subseteq FaultKinds
    /\ \A a, b, c \in Contents : \E files \in Contents : "revert" \in Faults \/ files \notin {a, b, c}

VARIABLES
    content,   \* content[r]: the files of root r
    own,       \* the times of the monitor's own state and event files
    indexed,   \* indexed[r]: the files of r that the index reflects
    pc,        \* where the monitor is in runDaemon
    walk,      \* roots that the snapshot under way has not walked
    previous,  \* the snapshots
    current,
    todo,      \* changed roots to scan
    child,     \* the scan that the monitor waits for
    scan,      \* scan[s]: the root of a running scan and what it saw
    edited     \* roots edited since the monitor took its first snapshot (history)

monitor == <<pc, walk, previous, current, todo, child>>
vars == <<content, own, indexed, monitor, scan, edited>>

\* The files in a root as snapshotRoots sees them: only directories are held
\* against the excluded names, so the monitor's own files are among them.
Inventory(r) == [files |-> content[r], own |-> IF r = Home THEN own ELSE 0]

Times == 0 .. 3
Inventories == [files : Contents, own : Times]
NoInventory == [files |-> Empty, own |-> 0]

\* A time that none of the snapshots at hand has.
Later ==
    CHOOSE t \in Times :
        t # own /\ (Home # None => t \notin {previous[Home].own, current[Home].own})

TouchOwn == own' = IF Home = None THEN own ELSE Later

\* What an edit makes of the files of r: something new to the snapshots, or
\* anything.
Edited(r) ==
    IF "revert" \in Faults THEN Contents \ {content[r]}
    ELSE {CHOOSE files \in Contents :
            files \notin {content[r], previous[r].files, current[r].files}}

Watching == pc \notin {"off", "first"}

Idle == [root |-> None, saw |-> None]

Init ==
    /\ content = [r \in Roots |-> Empty]
    /\ own = 0
    /\ indexed = content
    /\ pc = "off"
    /\ walk = {}
    /\ previous = [r \in Roots |-> NoInventory]
    /\ current = previous
    /\ todo = {}
    /\ child = None
    /\ scan = [s \in Scans |-> Idle]
    /\ edited = {}

------------------------------------------------------------------------------
(* The monitor.                                                             *)

StartMonitor ==
    /\ pc = "off"
    /\ pc' = "first"
    /\ walk' = Roots
    /\ previous' = [r \in Roots |-> NoInventory]
    /\ TouchOwn
    /\ UNCHANGED <<content, indexed, current, todo, child, scan, edited>>

FirstSnapshot(r) ==
    /\ pc = "first"
    /\ r \in walk
    /\ previous' = [previous EXCEPT ![r] = Inventory(r)]
    /\ walk' = walk \ {r}
    /\ pc' = IF walk = {r} THEN "poll" ELSE "first"
    /\ edited' = IF walk = Roots THEN {} ELSE edited
    /\ UNCHANGED <<content, own, indexed, current, todo, child, scan>>

\* The monitor goes on with what it has seen, of the root that failed any part.
FirstSnapshotFails(r) ==
    /\ "walk" \in Faults
    /\ pc = "first"
    /\ r \in walk
    /\ \E part \in Edited(r) \union {Empty} : previous' = [previous EXCEPT ![r].files = part]
    /\ pc' = "poll"
    /\ walk' = {}
    /\ edited' = IF walk = Roots THEN {} ELSE edited
    /\ UNCHANGED <<content, own, indexed, current, todo, child, scan>>

Poll ==
    /\ pc = "poll"
    /\ pc' = "walk"
    /\ walk' = Roots
    /\ UNCHANGED <<content, own, indexed, previous, current, todo, child, scan, edited>>

Snapshot(r) ==
    /\ pc = "walk"
    /\ r \in walk
    /\ current' = [current EXCEPT ![r] = Inventory(r)]
    /\ walk' = walk \ {r}
    /\ pc' = IF walk = {r} THEN "diff" ELSE "walk"
    /\ UNCHANGED <<content, own, indexed, previous, todo, child, scan, edited>>

\* The poll is over; previous stays.
SnapshotFails ==
    /\ "walk" \in Faults
    /\ pc = "walk"
    /\ walk # {}
    /\ walk' = {}
    /\ pc' = "write"
    /\ UNCHANGED <<content, own, indexed, previous, current, todo, child, scan, edited>>

\* Mutant: every root is scanned when one has changed.
ChangedOrNot == IF previous = current THEN {} ELSE Roots

Changed == {r \in Roots : previous[r] # current[r]}

\* Each change is appended to the event log.
Diff ==
    /\ pc = "diff"
    /\ todo' = Changed
    /\ IF Changed = {}
       THEN pc' = "write" /\ UNCHANGED own
       ELSE pc' = "scan" /\ TouchOwn
    /\ UNCHANGED <<content, indexed, walk, previous, current, child, scan, edited>>

\* The changed roots are taken in the random order of a map.
Launch(s, r) ==
    /\ pc = "scan"
    /\ child = None
    /\ r \in todo
    /\ scan[s] = Idle
    /\ scan' = [scan EXCEPT ![s] = [root |-> r, saw |-> None]]
    /\ child' = s
    /\ todo' = todo \ {r}
    /\ UNCHANGED <<content, own, indexed, pc, walk, previous, current, edited>>

Await ==
    /\ pc = "scan"
    /\ child # None
    /\ scan[child] = Idle
    /\ child' = None
    /\ UNCHANGED <<content, own, indexed, pc, walk, previous, current, todo, scan, edited>>

\* Mutant: what is found after the scans is taken for seen.
ScannedSinceThen ==
    /\ pc = "scan"
    /\ todo = {} /\ child = None
    /\ previous' = [r \in Roots |-> Inventory(r)]
    /\ TouchOwn
    /\ pc' = "write"
    /\ UNCHANGED <<content, indexed, walk, current, todo, child, scan, edited>>

\* Mutant: the new snapshot is not kept.
ScannedForgotten ==
    /\ pc = "scan"
    /\ todo = {} /\ child = None
    /\ TouchOwn
    /\ pc' = "write"
    /\ UNCHANGED <<content, indexed, walk, previous, current, todo, child, scan, edited>>

\* Whether the scans failed makes no difference.
Scanned ==
    /\ pc = "scan"
    /\ todo = {} /\ child = None
    /\ previous' = current
    /\ TouchOwn
    /\ pc' = "write"
    /\ UNCHANGED <<content, indexed, walk, current, todo, child, scan, edited>>

Write ==
    /\ pc = "write"
    /\ TouchOwn
    /\ pc' = "poll"
    /\ UNCHANGED <<content, indexed, walk, previous, current, todo, child, scan, edited>>

Monitor ==
    \/ \E r \in Roots : FirstSnapshot(r) \/ FirstSnapshotFails(r) \/ Snapshot(r)
    \/ Poll \/ SnapshotFails \/ Diff
    \/ \E s \in Scans, r \in Roots : Launch(s, r)
    \/ Await \/ Scanned \/ Write

------------------------------------------------------------------------------
(* Scans, those of the monitor and others.                                  *)

ScanReads(s) ==
    /\ scan[s] # Idle
    /\ scan[s].saw = None
    /\ scan' = [scan EXCEPT ![s].saw = content[scan[s].root]]
    /\ UNCHANGED <<content, own, indexed, monitor, edited>>

\* Mutant: a scan may store before it has read.
ScanStoresUnread(s) ==
    /\ scan[s] # Idle
    /\ indexed' = [indexed EXCEPT ![scan[s].root] = scan[s].saw]
    /\ scan' = [scan EXCEPT ![s] = Idle]
    /\ UNCHANGED <<content, own, monitor, edited>>

ScanStores(s) ==
    /\ scan[s].saw # None
    /\ indexed' = [indexed EXCEPT ![scan[s].root] = scan[s].saw]
    /\ scan' = [scan EXCEPT ![s] = Idle]
    /\ UNCHANGED <<content, own, monitor, edited>>

ScanFails(s) ==
    /\ "scan" \in Faults
    /\ scan[s] # Idle
    /\ scan' = [scan EXCEPT ![s] = Idle]
    /\ UNCHANGED <<content, own, indexed, monitor, edited>>

ScanStep(s) == ScanReads(s) \/ ScanStores(s) \/ ScanFails(s)

------------------------------------------------------------------------------
(* Users.                                                                   *)

Edit(r) ==
    /\ Watching \/ "unseen" \in Faults
    /\ \E files \in Edited(r) : content' = [content EXCEPT ![r] = files]
    /\ edited' = edited \union {r}
    /\ UNCHANGED <<own, indexed, monitor, scan>>

TypeScan(s, r) ==
    /\ "manual" \in Faults
    /\ scan[s] = Idle
    /\ s # child
    /\ scan' = [scan EXCEPT ![s] = [root |-> r, saw |-> None]]
    /\ UNCHANGED <<content, own, indexed, monitor, edited>>

\* A scan of a monitor that is killed goes on by itself.
KillMonitor ==
    /\ "kill" \in Faults
    /\ pc # "off"
    /\ pc' = "off"
    /\ walk' = {} /\ todo' = {} /\ child' = None
    /\ UNCHANGED <<content, own, indexed, previous, current, scan, edited>>

User ==
    \/ StartMonitor \/ KillMonitor
    \/ \E r \in Roots : Edit(r) \/ \E s \in Scans : TypeScan(s, r)

Next == Monitor \/ (\E s \in Scans : ScanStep(s)) \/ User

Spec == Init /\ [][Next]_vars

\* Processes are scheduled and scans come to their end. Users do what they like.
FairSpec == Spec /\ WF_vars(Monitor) /\ \A s \in Scans : WF_vars(ScanStep(s))

------------------------------------------------------------------------------
(* Properties.                                                              *)

TypeOK ==
    /\ content \in [Roots -> Contents]
    /\ own \in Times
    /\ indexed \in [Roots -> Contents]
    /\ pc \in {"off", "first", "poll", "walk", "diff", "scan", "write"}
    /\ walk \subseteq Roots /\ todo \subseteq Roots /\ edited \subseteq Roots
    /\ previous \in [Roots -> Inventories]
    /\ current \in [Roots -> Inventories]
    /\ child \in Scans \union {None}
    /\ scan \in [Scans -> [root : Roots \union {None}, saw : Contents \union {None}]]

\* The monitor scans no root that nobody has edited since it first looked at the
\* roots, even if scans fail and users scan by themselves, but for the root of the
\* monitor's own files: what it writes about one root never has it scan another.
UntouchedRootsRest ==
    Watching =>
        /\ todo \subseteq edited \union {Home}
        /\ child # None /\ scan[child] # Idle => scan[child].root \in edited \union {Home}

\* When users stop editing, scans come to an end. (Not if a root holds the monitor's
\* own files, which it changes itself at every poll.)
ScansCease == <>[][content' = content]_vars => <>[](pc # "scan")

\* When users stop editing, the index comes to agree with every root that was
\* edited while the monitor was watching: no edit falls between two snapshots, or
\* is lost during the scans. (Snapshots must succeed again and again, edits leave
\* a trace in size or time, and no scan fail: a failed scan is not repeated.)
IndexConverges ==
    (<>[][content' = content]_vars /\ <>[]Watching /\ []<>(pc = "diff")) =>
        \A r \in Roots : <>[](r \in edited => indexed[r] = content[r])
==============================================================================
