--------------------------- MODULE IncrementalProofs ---------------------------
(***************************************************************************)
(* Proofs about IncrementalScan, for any roots, files and scans.            *)
(***************************************************************************)
EXTENDS IncrementalScan, TLAPS

------------------------------------------------------------------------------
(* Types.                                                                   *)

\* Three times leave a fourth.
LEMMA FourTimes ==
    ASSUME NEW x \in Times, NEW y \in Times, NEW z \in Times
    PROVE  \E t \in Times : t # x /\ t # y /\ t # z
  <1>1. x \in Nat /\ y \in Nat /\ z \in Nat
    BY DEF Times
  <1>2. \/ 0 # x /\ 0 # y /\ 0 # z
        \/ 1 # x /\ 1 # y /\ 1 # z
        \/ 2 # x /\ 2 # y /\ 2 # z
        \/ 3 # x /\ 3 # y /\ 3 # z
    BY <1>1
  <1>3. 0 \in Times /\ 1 \in Times /\ 2 \in Times /\ 3 \in Times
    BY DEF Times
  <1> QED
    BY <1>2, <1>3

USE IndexAssumption

\* The monitor's inventory is one the model can hold, with the own files of now.
LEMMA InventoryType ==
    ASSUME TypeOK, NEW r \in Roots
    PROVE  Inventory(r) \in Inventories
  BY DEF TypeOK, Inventory, Inventories, Times

\* Four times are enough: three are in use at most.
LEMMA LaterType ==
    ASSUME TypeOK
    PROVE  Later \in Times
  <1> DEFINE Fits(t) == t # own /\ (Home # None => t \notin {previous[Home].own, current[Home].own})
  <1>1. own \in Times /\ (Home # None => previous[Home].own \in Times /\ current[Home].own \in Times)
    BY DEF TypeOK, Inventories
  <1>2. ASSUME Home = None PROVE \E t \in Times : Fits(t)
    <2>1. \E t \in Times : t # own
      BY <1>1, FourTimes
    <2> QED
      BY <1>2, <2>1
  <1>3. ASSUME Home # None PROVE \E t \in Times : Fits(t)
    <2>1. PICK t \in Times : t # own /\ t # previous[Home].own /\ t # current[Home].own
      BY <1>1, <1>3, FourTimes
    <2> QED
      BY <2>1
  <1>4. \E t \in Times : Fits(t)
    BY <1>2, <1>3
  <1> QED
    BY <1>4 DEF Later

\* Writing the state file gives it a modification time among the four.
LEMMA TouchOwnType ==
    ASSUME TypeOK, TouchOwn
    PROVE  own' \in Times
  BY LaterType DEF TypeOK, TouchOwn

\* What a user leaves a root with is one of its possible contents.
LEMMA EditedType ==
    ASSUME TypeOK, NEW r \in Roots
    PROVE  Edited(r) \subseteq Contents
  <1>1. CASE "revert" \in Faults
    BY <1>1 DEF Edited
  <1>2. CASE "revert" \notin Faults
    <2>1. content[r] \in Contents /\ previous[r].files \in Contents /\ current[r].files \in Contents
      BY DEF TypeOK, Inventories
    <2>2. \E files \in Contents : files \notin {content[r], previous[r].files, current[r].files}
      BY <1>2, <2>1
    <2> QED
      BY <1>2, <2>2 DEF Edited
  <1> QED
    BY <1>1, <1>2

\* TypeOK, from the start over the monitor's steps, the scans' and the users'.
LEMMA TypeInitially == Init => TypeOK
  BY DEF Init, TypeOK, NoInventory, Inventories, Times, Idle

\* A step of the monitor assigns values of the types.
LEMMA TypeMonitor == TypeOK /\ Monitor => TypeOK'
  <1> SUFFICES ASSUME TypeOK, Monitor
               PROVE  TypeOK'
    OBVIOUS
  <1>1. ASSUME NEW r \in Roots, FirstSnapshot(r)
        PROVE  TypeOK'
    BY <1>1, InventoryType DEF TypeOK, FirstSnapshot
  <1>2. ASSUME NEW r \in Roots, FirstSnapshotFails(r)
        PROVE  TypeOK'
    <2>1. PICK part \in Contents : previous' = [previous EXCEPT ![r].files = part]
      BY <1>2, EditedType DEF FirstSnapshotFails
    <2>2. [previous[r] EXCEPT !.files = part] \in Inventories
      <3>1. previous[r] \in Inventories
        BY DEF TypeOK
      <3> QED
        BY <3>1 DEF Inventories
    <2>3. previous' \in [Roots -> Inventories]
      BY <2>1, <2>2 DEF TypeOK
    <2> QED
      BY <1>2, <2>3 DEF TypeOK, FirstSnapshotFails
  <1>3. ASSUME NEW r \in Roots, Snapshot(r)
        PROVE  TypeOK'
    BY <1>3, InventoryType DEF TypeOK, Snapshot
  <1>4. CASE Poll
    BY <1>4 DEF TypeOK, Poll
  <1>5. CASE SnapshotFails
    BY <1>5 DEF TypeOK, SnapshotFails
  <1>6. CASE Diff
    BY <1>6, TouchOwnType DEF TypeOK, Diff, Changed
  <1>7. ASSUME NEW s \in Scans, NEW r \in Roots, Launch(s, r)
        PROVE  TypeOK'
    BY <1>7 DEF TypeOK, Launch
  <1>8. CASE Await
    BY <1>8 DEF TypeOK, Await
  <1>9. CASE Scanned
    BY <1>9, TouchOwnType DEF TypeOK, Scanned
  <1>10. CASE Write
    BY <1>10, TouchOwnType DEF TypeOK, Write
  <1> QED
    BY <1>1, <1>2, <1>3, <1>4, <1>5, <1>6, <1>7, <1>8, <1>9, <1>10 DEF Monitor

\* So does a step of a scan.
LEMMA TypeScanStep ==
    ASSUME TypeOK, NEW s \in Scans, ScanStep(s)
    PROVE  TypeOK'
  <1> DEFINE Scan == [root : Roots \union {None}, saw : Contents \union {None}]
  <1>1. Idle \in Scan
    BY DEF Idle
  <1>2. CASE ScanReads(s)
    <2>1. scan[s] \in Scan /\ scan[s] # Idle /\ scan[s].saw = None
      BY <1>2 DEF TypeOK, ScanReads
    <2>2. scan[s].root \in Roots
      BY <2>1 DEF Idle
    <2>3. [scan[s] EXCEPT !.saw = content[scan[s].root]] \in Scan
      BY <2>1, <2>2 DEF TypeOK
    <2>4. scan' \in [Scans -> Scan]
      BY <1>2, <2>3 DEF TypeOK, ScanReads
    <2> QED
      BY <1>2, <2>4 DEF TypeOK, ScanReads, monitor
  <1>3. CASE ScanStores(s)
    <2>1. scan[s].saw \in Contents
      BY <1>3 DEF TypeOK, ScanStores
    <2>2. scan' \in [Scans -> Scan]
      BY <1>1, <1>3 DEF TypeOK, ScanStores
    <2>3. indexed' \in [Roots -> Contents]
      BY <1>3, <2>1 DEF TypeOK, ScanStores
    <2> QED
      BY <1>3, <2>2, <2>3 DEF TypeOK, ScanStores, monitor
  <1>4. CASE ScanFails(s)
    BY <1>1, <1>4 DEF TypeOK, ScanFails, monitor
  <1> QED
    BY <1>2, <1>3, <1>4 DEF ScanStep

\* So does an edit, and a scan that a user types.
LEMMA TypeUser == TypeOK /\ User => TypeOK'
  <1> SUFFICES ASSUME TypeOK, User
               PROVE  TypeOK'
    OBVIOUS
  <1>1. CASE StartMonitor
    <2>1. NoInventory \in Inventories
      BY DEF NoInventory, Inventories, Times
    <2>2. own' \in Times
      BY <1>1, TouchOwnType DEF StartMonitor
    <2> QED
      BY <1>1, <2>1, <2>2 DEF TypeOK, StartMonitor
  <1>2. CASE KillMonitor
    BY <1>2 DEF TypeOK, KillMonitor
  <1>3. ASSUME NEW r \in Roots, Edit(r)
        PROVE  TypeOK'
    <2>1. PICK files \in Contents : content' = [content EXCEPT ![r] = files]
      BY <1>3, EditedType DEF Edit
    <2> QED
      BY <1>3, <2>1 DEF TypeOK, Edit, monitor
  <1>4. ASSUME NEW s \in Scans, NEW r \in Roots, TypeScan(s, r)
        PROVE  TypeOK'
    BY <1>4 DEF TypeOK, TypeScan, monitor
  <1> QED
    BY <1>1, <1>2, <1>3, <1>4 DEF User

\* What the monitor, the scans and the users leave in the variables has its type
\* after every step; in particular one of four times is always free.
THEOREM TypeCorrect == Spec => []TypeOK
  <1>1. TypeOK /\ [Next]_vars => TypeOK'
    <2>1. TypeOK /\ UNCHANGED vars => TypeOK'
      BY DEF TypeOK, vars, monitor
    <2> QED
      BY <2>1, TypeMonitor, TypeScanStep, TypeUser DEF Next
  <1> QED
    BY <1>1, TypeInitially, PTL DEF Spec

------------------------------------------------------------------------------
(* Untouched roots.                                                         *)

Untouched == Roots \ (edited \union {Home})

\* What the monitor holds of a root that nobody has edited is what is there: in
\* the first snapshot as far as it has come, then in the last one, and in the next
\* one as far as that has come.
Faithful ==
    \A r \in Untouched :
        /\ pc = "first" /\ r \notin walk => previous[r] = Inventory(r)
        /\ Watching => previous[r] = Inventory(r)
        /\ pc = "walk" /\ r \notin walk => current[r] = Inventory(r)
        /\ pc \in {"diff", "scan"} => current[r] = Inventory(r)

\* Roots wait for a scan only while the monitor scans.
Resting == pc # "scan" => todo = {} /\ child = None

IInv ==
    /\ TypeOK
    /\ Faithful
    /\ Resting
    /\ todo \subseteq edited \union {Home}
    /\ child # None /\ scan[child] # Idle => scan[child].root \in edited \union {Home}

\* The monitor's own files change the inventory of the root that holds them alone.
LEMMA OtherRoots ==
    ASSUME NEW r \in Roots, r # Home, content'[r] = content[r]
    PROVE  Inventory(r)' = Inventory(r)
  BY DEF Inventory

\* IInv, from the start over the monitor's steps and the users'.
LEMMA RestInitially == Init => IInv
  <1> SUFFICES ASSUME Init PROVE IInv
    OBVIOUS
  <1>1. pc = "off" /\ todo = {} /\ child = None
    BY DEF Init
  <1> QED
    BY <1>1, TypeInitially DEF IInv, Faithful, Resting, Watching

\* The monitor starts scans only of roots it found changed.
LEMMA RestMonitor ==
    ASSUME "walk" \notin Faults, IInv, Monitor, TypeOK'
    PROVE  IInv'
  <1> USE DEF Faithful, Resting, Untouched, Watching
  <1>a. \A r \in Roots : UNCHANGED content /\ r # Home => Inventory(r)' = Inventory(r)
    BY OtherRoots
  <1>t. \A r \in Roots : previous[r] \in Inventories
    BY DEF IInv, TypeOK
  <1>1. ASSUME NEW r \in Roots, FirstSnapshot(r)
        PROVE  IInv'
    <2>1. \A q \in Roots : previous'[q] = IF q = r THEN Inventory(r) ELSE previous[q]
      BY <1>1 DEF FirstSnapshot, IInv, TypeOK
    <2>2. edited' = edited \/ walk = Roots
      BY <1>1 DEF FirstSnapshot
    <2>3. UNCHANGED <<content, todo, child, scan>> /\ todo = {} /\ child = None
      BY <1>1 DEF FirstSnapshot, IInv
    <2>4. \A q \in Untouched' : q \notin walk' => previous'[q] = Inventory(q)'
      BY <1>1, <1>a, <2>1, <2>2, <2>3 DEF FirstSnapshot, IInv
    <2>5. pc' = "poll" => walk' = {}
      BY <1>1 DEF FirstSnapshot
    <2>6. pc' \in {"first", "poll"}
      BY <1>1 DEF FirstSnapshot
    <2> QED
      BY <2>3, <2>4, <2>5, <2>6 DEF IInv
  <1>2. ASSUME NEW r \in Roots, Snapshot(r)
        PROVE  IInv'
    <2>1. \A q \in Roots : current'[q] = IF q = r THEN Inventory(r) ELSE current[q]
      BY <1>2 DEF Snapshot, IInv, TypeOK
    <2>2. UNCHANGED <<content, previous, todo, child, scan, edited>> /\ todo = {} /\ child = None
      BY <1>2 DEF Snapshot, IInv
    <2>3. \A q \in Untouched' : previous'[q] = Inventory(q)'
      BY <1>2, <1>a, <2>2 DEF Snapshot, IInv
    <2>4. \A q \in Untouched' : q \notin walk' => current'[q] = Inventory(q)'
      BY <1>2, <1>a, <2>1, <2>2 DEF Snapshot, IInv
    <2>5. pc' \in {"walk", "diff"} /\ (pc' = "diff" => walk' = {})
      BY <1>2 DEF Snapshot
    <2> QED
      BY <2>2, <2>3, <2>4, <2>5 DEF IInv
  <1>3. CASE Poll
    BY <1>3, <1>a DEF Poll, IInv
  <1>4. CASE Diff
    <2>1. UNCHANGED <<content, previous, current, child, scan, edited>> /\ pc = "diff"
      BY <1>4 DEF Diff
    <2>2. Changed \subseteq edited \union {Home}
      BY <2>1 DEF IInv, Changed
    <2>3. \A q \in Untouched' : previous'[q] = Inventory(q)' /\ current'[q] = Inventory(q)'
      BY <1>a, <2>1 DEF IInv
    <2>4. todo' = Changed /\ pc' \in {"write", "scan"} /\ (pc' = "write" => todo' = {})
      BY <1>4 DEF Diff
    <2> QED
      BY <2>1, <2>2, <2>3, <2>4 DEF IInv
  <1>5. ASSUME NEW s \in Scans, NEW r \in Roots, Launch(s, r)
        PROVE  IInv'
    <2>1. scan'[s].root = r /\ child' = s /\ r \in edited \union {Home}
      BY <1>5 DEF Launch, IInv, TypeOK
    <2> QED
      BY <1>5, <1>a, <2>1 DEF Launch, IInv
  <1>6. CASE Await
    BY <1>6, <1>a DEF Await, IInv
  <1>7. CASE Scanned
    BY <1>7, <1>a DEF Scanned, IInv
  <1>8. CASE Write
    BY <1>8, <1>a DEF Write, IInv
  <1> QED
    BY <1>1, <1>2, <1>3, <1>4, <1>5, <1>6, <1>7, <1>8
    DEF Monitor, FirstSnapshotFails, SnapshotFails

\* A scan that ends, or reads, is for the root that it was launched for.
LEMMA RestScanStep ==
    ASSUME IInv, NEW s \in Scans, ScanStep(s), TypeOK'
    PROVE  IInv'
  <1>1. UNCHANGED <<content, own, monitor, edited>>
    BY DEF ScanStep, ScanReads, ScanStores, ScanFails
  <1>2. \A q \in Scans : scan'[q] # Idle => scan[q] # Idle /\ scan'[q].root = scan[q].root
    <2>1. CASE ScanReads(s)
      <3>1. scan[s] # Idle /\ scan \in [Scans -> [root : Roots \union {None}, saw : Contents \union {None}]]
        BY <2>1 DEF ScanReads, IInv, TypeOK
      <3>2. scan' = [scan EXCEPT ![s].saw = content[scan[s].root]]
        BY <2>1 DEF ScanReads
      <3> QED
        BY <3>1, <3>2
    <2>2. CASE ScanStores(s) \/ ScanFails(s)
      BY <2>2 DEF ScanStores, ScanFails, IInv, TypeOK
    <2> QED
      BY <2>1, <2>2 DEF ScanStep
  <1>3. child \in Scans \union {None}
    BY DEF IInv, TypeOK
  <1>4. Faithful' /\ Resting'
    BY <1>1 DEF IInv, Faithful, Resting, Untouched, Watching, Inventory, monitor
  <1> QED
    BY <1>1, <1>2, <1>3, <1>4 DEF IInv, monitor

\* A user changes a root, or scans one, and is then remembered for it.
LEMMA RestUser ==
    ASSUME IInv, User, TypeOK'
    PROVE  IInv'
  <1> USE DEF Faithful, Resting, Untouched, Watching
  <1>1. CASE StartMonitor
    BY <1>1 DEF StartMonitor, IInv
  <1>2. CASE KillMonitor
    BY <1>2 DEF KillMonitor, IInv
  <1>3. ASSUME NEW r \in Roots, Edit(r)
        PROVE  IInv'
    <2>1. edited' = edited \union {r} /\ UNCHANGED <<own, indexed, monitor, scan>>
      BY <1>3 DEF Edit
    <2>2. \A q \in Untouched' : q \in Untouched /\ content'[q] = content[q]
      BY <1>3, <2>1 DEF Edit, IInv, TypeOK
    <2>3. \A q \in Untouched' : Inventory(q)' = Inventory(q)
      BY <2>2, OtherRoots
    <2> QED
      BY <2>1, <2>2, <2>3 DEF IInv, monitor
  <1>4. ASSUME NEW s \in Scans, NEW r \in Roots, TypeScan(s, r)
        PROVE  IInv'
    <2>1. UNCHANGED <<content, own, monitor, edited>>
      BY <1>4 DEF TypeScan
    <2>2. child # None => scan'[child] = scan[child]
      BY <1>4 DEF TypeScan, IInv, TypeOK
    <2>3. Faithful' /\ Resting'
      BY <2>1 DEF IInv, Inventory, monitor
    <2> QED
      BY <2>1, <2>2, <2>3 DEF IInv, monitor
  <1> QED
    BY <1>1, <1>2, <1>3, <1>4 DEF User

\* The monitor scans no root that nobody has edited, however many roots, scans,
\* users and restarts there are, as long as every snapshot succeeds: what it holds
\* of such a root is what is there, and what it writes itself shows in its own root
\* alone.
THEOREM UntouchedRest ==
    ASSUME "walk" \notin Faults
    PROVE  Spec => []UntouchedRootsRest
  <1>1. IInv /\ UNCHANGED vars => IInv'
    BY DEF IInv, TypeOK, Faithful, Resting, Untouched, Watching, Inventory, vars, monitor
  <1>2. IInv /\ TypeOK' /\ [Next]_vars => IInv'
    BY <1>1, RestMonitor, RestScanStep, RestUser DEF Next
  <1>3. IInv => UntouchedRootsRest
    BY DEF IInv, UntouchedRootsRest
  <1> QED
    BY <1>2, <1>3, RestInitially, TypeCorrect, PTL DEF Spec

==============================================================================
