----------------------------- MODULE DaemonProofs -----------------------------
(***************************************************************************)
(* Proofs about DaemonControl, for any number of monitors, any period after *)
(* which a heartbeat is stale, and any faults.                              *)
(***************************************************************************)
EXTENDS DaemonControl, TLAPS

\* The commands whose target is a process that was started.
Targeting == {"write", "remove", "rename", "kill", "forget"}

\* A record is of a process that was started, on disk, in the temporary, and in the
\* memory of a command.
Born ==
    /\ file # NoFile => pc[file.pid] # "unborn"
    /\ tmp # NoFile => pc[tmp.pid] # "unborn"
    /\ \A c \in Clis : pc[c] \in Targeting => target[c] \in Pids /\ pc[target[c]] # "unborn"

\* After a stop that reported success a record can only come from a monitor that is
\* past a renaming of its own and has not removed the file again.
StopHolds ==
    \A c \in Clis : report[c] = "stopped" /\ pc[c] = "idle" =>
        file = NoFile \/ \E q \in Pids : pc[q] \in {"poll", "scan", "write", "remove", "crashed"}

Sound == TypeOK /\ Born

------------------------------------------------------------------------------
(* Helpers.                                                                 *)

\* An age stays within its bounds when time passes.
LEMMA OlderIsAge == \A age \in Ages : Older(age) \in Ages
BY DaemonAssumption DEF Ages, Older

\* So does a record.
LEMMA OlderState ==
    ASSUME NEW f \in States
    PROVE  [f EXCEPT !.age = Older(@)] \in States /\ [f EXCEPT !.age = Older(@)].pid = f.pid
BY OlderIsAge DEF States

\* Going to a label keeps the labels well typed, and nobody becomes unborn again.
LEMMA GotoTyped ==
    ASSUME TypeOK, NEW p \in Pids \union Clis, NEW label, Goto(p, label),
           p \in Pids => label \in Labels \ {"unborn"},
           label \in (Labels \ {"unborn"}) \union {"idle", "spawn", "kill", "forget"}
    PROVE  /\ pc' \in [Pids \union Clis -> Labels \union {"idle", "spawn", "kill", "forget"}]
           /\ \A q \in Pids : pc'[q] \in Labels
           /\ \A q \in Pids : pc[q] # "unborn" => pc'[q] # "unborn"
           /\ pc'[p] = label
           /\ \A q \in (Pids \union Clis) \ {p} : pc'[q] = pc[q]
BY DEF TypeOK, Goto

------------------------------------------------------------------------------
(* Types.                                                                   *)

\* Nothing has been started and nothing recorded.
LEMMA InitSound == Init => Sound
<1> SUFFICES ASSUME Init PROVE Sound
  OBVIOUS
<1>1. TypeOK
  BY DaemonAssumption DEF Init, TypeOK, Labels, Ages
<1>2. Born
  BY DaemonAssumption DEF Init, Born, Targeting
<1> QED BY <1>1, <1>2 DEF Sound

\* Of a step that only one monitor or command takes, and of the record it leaves.
LEMMA Keep ==
    ASSUME Sound, NEW p \in Pids \union Clis, NEW label, Goto(p, label),
           p \in Pids => label \in Labels \ {"unborn"},
           label \in (Labels \ {"unborn"}) \union {"idle", "spawn", "kill", "forget"},
           file' \in {file, tmp, NoFile},
           tmp' \in {tmp, NoFile} \/ (tmp' \in States /\ pc[tmp'.pid] # "unborn"),
           beat' \in [Pids -> Ages],
           target' \in [Clis -> Pids \union {NoPid}],
           report' \in [Clis -> {"none", "starting", "error", "already_stopped", "stopped"}],
           \A c \in Clis : pc'[c] \in Targeting =>
                target'[c] \in Pids /\ pc'[target'[c]] # "unborn"
    PROVE  Sound'
<1>1. /\ pc' \in [Pids \union Clis -> Labels \union {"idle", "spawn", "kill", "forget"}]
      /\ \A q \in Pids : pc'[q] \in Labels
      /\ \A q \in Pids : pc[q] # "unborn" => pc'[q] # "unborn"
  BY GotoTyped DEF Sound
<1>2. file' \in States \union {NoFile} /\ tmp' \in States \union {NoFile}
  BY DEF Sound, TypeOK
<1>3. TypeOK'
  BY <1>1, <1>2 DEF TypeOK
<1>4. (file' # NoFile => pc[file'.pid] # "unborn") /\ (tmp' # NoFile => pc[tmp'.pid] # "unborn")
  BY DEF Sound, Born
<1>5. (file' # NoFile => file'.pid \in Pids) /\ (tmp' # NoFile => tmp'.pid \in Pids)
  BY <1>2 DEF States
<1>6. Born'
  BY <1>1, <1>4, <1>5 DEF Born
<1> QED BY <1>3, <1>6 DEF Sound

\* Steps of a monitor.
LEMMA MonitorSound ==
    ASSUME Sound, NEW p \in Pids, Monitor(p)
    PROVE  Sound'
<1> DEFINE Kept == \A c \in Clis : pc'[c] \in Targeting =>
                        target'[c] \in Pids /\ pc'[target'[c]] # "unborn"
<1>0. ASSUME NEW label \in Labels \ {"unborn"}, Goto(p, label), UNCHANGED target
      PROVE  Kept
  <2>1. /\ \A q \in Pids : pc[q] # "unborn" => pc'[q] # "unborn"
        /\ \A c \in Clis : pc'[c] = pc[c]
    BY <1>0, GotoTyped, DaemonAssumption DEF Sound
  <2> QED BY <1>0, <2>1 DEF Sound, Born
<1>t. /\ beat \in [Pids -> Ages]
      /\ target \in [Clis -> Pids \union {NoPid}]
      /\ report \in [Clis -> {"none", "starting", "error", "already_stopped", "stopped"}]
      /\ 0 \in Ages
  BY DaemonAssumption DEF Sound, TypeOK, Ages
<1>1. CASE Boot(p)
  <2>1. Kept
    BY <1>0, <1>1 DEF Boot, Labels
  <2> QED BY <1>1, <1>t, <2>1, Keep DEF Boot, Labels
<1>2. CASE Poll(p)
  <2> PICK label \in {"scan", "write"} : Goto(p, label)
    BY <1>2 DEF Poll
  <2>1. Kept
    BY <1>0, <1>2 DEF Poll, Labels
  <2> QED BY <1>2, <1>t, <2>1, Keep DEF Poll, Labels
<1>3. CASE Scanned(p)
  <2>1. Kept
    BY <1>0, <1>3 DEF Scanned, Labels
  <2> QED BY <1>3, <1>t, <2>1, Keep DEF Scanned, Labels
<1>4. CASE Write(p)
  <2>1. Kept
    BY <1>0, <1>4 DEF Write, WriteTemporary, Labels
  <2>2. [pid |-> p, age |-> beat[p]] \in States /\ pc[p] # "unborn"
    BY <1>4, <1>t DEF Write, WriteTemporary, States
  <2> QED BY <1>4, <1>t, <2>1, <2>2, Keep DEF Write, WriteTemporary, Labels
<1>5. CASE RemoveOld(p)
  <2>1. Kept
    BY <1>0, <1>5 DEF RemoveOld, Labels
  <2> QED BY <1>5, <1>t, <2>1, Keep DEF RemoveOld, Labels
<1>6. CASE Recorded(p)
  <2> PICK label \in {"poll", "dead"} : Goto(p, label)
    BY <1>6 DEF Recorded
  <2>1. Kept
    BY <1>0, <1>6 DEF Recorded, Labels
  <2> QED BY <1>6, <1>t, <2>1, Keep DEF Recorded, RenameTemporary, TemporaryGone, Labels
<1> QED BY <1>1, <1>2, <1>3, <1>4, <1>5, <1>6 DEF Monitor

\* Steps of a command that leave the monitors alone.
LEMMA CommandKeeps ==
    ASSUME Sound, NEW c \in Clis,
           NEW label \in {"idle", "spawn", "write", "remove", "rename", "kill", "forget"},
           Goto(c, label),
           target' = target \/ \E p \in Pids \union {NoPid} : target' = [target EXCEPT ![c] = p],
           label \in Targeting => target'[c] \in Pids /\ pc[target'[c]] # "unborn"
    PROVE  \A d \in Clis : pc'[d] \in Targeting => target'[d] \in Pids /\ pc'[target'[d]] # "unborn"
<1>1. \A q \in Pids : pc'[q] = pc[q]
  BY DaemonAssumption DEF Sound, TypeOK, Goto
<1>2. pc'[c] = label /\ \A d \in Clis \ {c} : pc'[d] = pc[d] /\ target'[d] = target[d]
  BY DEF Sound, TypeOK, Goto
<1> QED BY <1>1, <1>2 DEF Sound, Born

\* Steps of a command.
LEMMA CommandSound ==
    ASSUME Sound, NEW c \in Clis, Command(c)
    PROVE  Sound'
<1>t. /\ beat \in [Pids -> Ages]
      /\ target \in [Clis -> Pids \union {NoPid}]
      /\ report \in [Clis -> {"none", "starting", "error", "already_stopped", "stopped"}]
      /\ pc \in [Pids \union Clis -> Labels \union {"idle", "spawn", "kill", "forget"}]
      /\ c \notin Pids /\ 0 \in Ages
  BY DaemonAssumption DEF Sound, TypeOK, Ages
<1>r. ASSUME NEW answer \in {"none", "starting", "error", "already_stopped", "stopped"}
      PROVE  [report EXCEPT ![c] = answer] \in
                 [Clis -> {"none", "starting", "error", "already_stopped", "stopped"}]
  BY <1>t
<1>b. pc[c] \in Targeting => target[c] \in Pids /\ pc[target[c]] # "unborn"
  BY DEF Sound, Born
<1>1. CASE Start(c)
  <2>1. \A d \in Clis : pc'[d] \in Targeting => target'[d] \in Pids /\ pc'[target'[d]] # "unborn"
    BY <1>1, CommandKeeps DEF Start, Targeting
  <2> QED BY <1>1, <1>t, <1>r, <2>1, Keep DEF Start
<1>2. CASE Spawn(c)
  <2>1. CASE \E p \in Pids : /\ pc[p] = "unborn"
                             /\ target' = [target EXCEPT ![c] = p]
                             /\ pc' = [pc EXCEPT ![p] = "boot", ![c] = "write"]
                             /\ UNCHANGED report
    <3> PICK p \in Pids : /\ pc[p] = "unborn"
                          /\ target' = [target EXCEPT ![c] = p]
                          /\ pc' = [pc EXCEPT ![p] = "boot", ![c] = "write"]
                          /\ UNCHANGED report
      BY <2>1
    <3>1. /\ pc' \in [Pids \union Clis -> Labels \union {"idle", "spawn", "kill", "forget"}]
          /\ pc'[p] = "boot" /\ pc'[c] = "write"
          /\ \A q \in Pids \ {p} : pc'[q] = pc[q]
          /\ \A d \in Clis \ {c} : pc'[d] = pc[d] /\ target'[d] = target[d]
          /\ target' \in [Clis -> Pids \union {NoPid}] /\ target'[c] = p
      BY <1>t, DaemonAssumption DEF Labels
    <3>2. \A q \in Pids : pc'[q] \in Labels /\ (pc[q] # "unborn" => pc'[q] # "unborn")
      BY <3>1 DEF Sound, TypeOK, Labels
    <3>3. TypeOK'
      BY <1>2, <2>1, <3>1, <3>2 DEF Spawn, Sound, TypeOK
    <3>4. (file # NoFile => file.pid \in Pids) /\ (tmp # NoFile => tmp.pid \in Pids)
      BY DEF Sound, TypeOK, States
    <3>5. Born'
      BY <1>2, <3>1, <3>2, <3>4 DEF Spawn, Sound, Born
    <3> QED BY <3>3, <3>5 DEF Sound
  <2>2. CASE Goto(c, "idle") /\ report' = [report EXCEPT ![c] = "error"] /\ UNCHANGED target
    <3>1. \A d \in Clis : pc'[d] \in Targeting => target'[d] \in Pids /\ pc'[target'[d]] # "unborn"
      BY <2>2, CommandKeeps DEF Targeting
    <3> QED BY <1>2, <1>t, <1>r, <2>2, <3>1, Keep DEF Spawn
  <2> QED BY <1>2, <2>1, <2>2 DEF Spawn
<1>3. CASE StartWrite(c)
  <2>1. target[c] \in Pids /\ pc[target[c]] # "unborn"
    BY <1>3, <1>b DEF StartWrite, WriteTemporary, Targeting
  <2>2. [pid |-> target[c], age |-> 0] \in States
    BY <1>t, <2>1 DEF States
  <2>3. \A d \in Clis : pc'[d] \in Targeting => target'[d] \in Pids /\ pc'[target'[d]] # "unborn"
    BY <1>3, <2>1, CommandKeeps DEF StartWrite, WriteTemporary
  <2> QED BY <1>3, <1>t, <2>1, <2>2, <2>3, Keep DEF StartWrite, WriteTemporary, Labels
<1>4. CASE RemoveOld(c)
  <2>1. target[c] \in Pids /\ pc[target[c]] # "unborn"
    BY <1>4, <1>b DEF RemoveOld, Targeting
  <2>2. \A d \in Clis : pc'[d] \in Targeting => target'[d] \in Pids /\ pc'[target'[d]] # "unborn"
    BY <1>4, <2>1, CommandKeeps DEF RemoveOld
  <2> QED BY <1>4, <1>t, <2>2, Keep DEF RemoveOld, Labels
<1>5. CASE Started(c)
  <2>1. \A d \in Clis : pc'[d] \in Targeting => target'[d] \in Pids /\ pc'[target'[d]] # "unborn"
    BY <1>5, CommandKeeps DEF Started, Targeting
  <2>2. target' \in [Clis -> Pids \union {NoPid}]
    BY <1>5, <1>t DEF Started
  <2> QED BY <1>5, <1>t, <1>r, <2>1, <2>2, Keep DEF Started, RenameTemporary, TemporaryGone
<1>6. CASE Stop(c)
  <2>1. CASE file = NoFile
    <3>1. TypeOK' /\ Born'
      BY <1>6, <1>r, <2>1 DEF Stop, Sound, TypeOK, Born
    <3> QED BY <3>1 DEF Sound
  <2>2. CASE file # NoFile
    <3>1. file.pid \in Pids /\ pc[file.pid] # "unborn"
      BY <2>2 DEF Sound, TypeOK, Born, States
    <3> PICK label \in {"kill", "forget"} : Goto(c, label)
      BY <1>6, <2>2 DEF Stop
    <3>2. target' = [target EXCEPT ![c] = file.pid] /\ target'[c] = file.pid
          /\ target' \in [Clis -> Pids \union {NoPid}]
      BY <1>6, <1>t, <2>2, <3>1 DEF Stop
    <3>3. \A d \in Clis : pc'[d] \in Targeting => target'[d] \in Pids /\ pc'[target'[d]] # "unborn"
      BY <3>1, <3>2, CommandKeeps
    <3> QED BY <1>6, <1>t, <1>r, <2>2, <3>2, <3>3, Keep DEF Stop
  <2> QED BY <2>1, <2>2
<1>7. CASE Kill(c)
  <2>1. CASE target[c] \in Running
    <3>1. target[c] \in Pids /\ pc[target[c]] # "unborn"
      BY <2>1 DEF Running
    <3>2. /\ pc' \in [Pids \union Clis -> Labels \union {"idle", "spawn", "kill", "forget"}]
          /\ pc'[target[c]] = "dead" /\ pc'[c] = "forget"
          /\ \A q \in Pids \ {target[c]} : pc'[q] = pc[q]
          /\ \A d \in Clis \ {c} : pc'[d] = pc[d]
      BY <1>7, <1>t, <2>1, <3>1, DaemonAssumption DEF Kill, Labels
    <3>3. \A q \in Pids : pc'[q] \in Labels /\ (pc[q] # "unborn" => pc'[q] # "unborn")
      BY <3>2 DEF Sound, TypeOK, Labels
    <3>4. TypeOK'
      BY <1>7, <2>1, <3>2, <3>3 DEF Kill, Sound, TypeOK
    <3>5. (file # NoFile => file.pid \in Pids) /\ (tmp # NoFile => tmp.pid \in Pids)
      BY DEF Sound, TypeOK, States
    <3>6. Born'
      BY <1>7, <2>1, <3>1, <3>2, <3>3, <3>5 DEF Kill, Sound, Born
    <3> QED BY <3>4, <3>6 DEF Sound
  <2>2. CASE target[c] \notin Running
    <3>1. \A d \in Clis : pc'[d] \in Targeting => target'[d] \in Pids /\ pc'[target'[d]] # "unborn"
      BY <1>7, <2>2, CommandKeeps DEF Kill, Targeting
    <3>2. target' \in [Clis -> Pids \union {NoPid}]
      BY <1>7, <1>t, <2>2 DEF Kill
    <3> QED BY <1>7, <1>t, <1>r, <2>2, <3>1, <3>2, Keep DEF Kill
  <2> QED BY <2>1, <2>2
<1>8. CASE Forget(c)
  <2>1. \A d \in Clis : pc'[d] \in Targeting => target'[d] \in Pids /\ pc'[target'[d]] # "unborn"
    BY <1>8, CommandKeeps DEF Forget, Targeting
  <2>2. target' \in [Clis -> Pids \union {NoPid}]
    BY <1>8, <1>t DEF Forget
  <2> QED BY <1>8, <1>t, <1>r, <2>1, <2>2, Keep DEF Forget
<1> QED BY <1>1, <1>2, <1>3, <1>4, <1>5, <1>6, <1>7, <1>8 DEF Command

\* A monitor crashes.
LEMMA CrashSound ==
    ASSUME Sound, NEW p \in Pids, Crash(p)
    PROVE  Sound'
<1>1. /\ \A q \in Pids : pc[q] # "unborn" => pc'[q] # "unborn"
      /\ \A c \in Clis : pc'[c] = pc[c]
  BY GotoTyped, DaemonAssumption DEF Sound, Crash, Labels
<1>2. \A c \in Clis : pc'[c] \in Targeting => target'[c] \in Pids /\ pc'[target'[c]] # "unborn"
  BY <1>1 DEF Crash, Sound, Born
<1> QED BY <1>2, Keep DEF Crash, Labels, Sound, TypeOK

\* Time passes.
LEMMA TickSound ==
    ASSUME Sound, Tick
    PROVE  Sound'
<1>1. /\ file' \in States \union {NoFile}
      /\ file' # NoFile => file # NoFile /\ file'.pid = file.pid
  BY OlderState DEF Sound, TypeOK, Tick
<1>2. /\ tmp' \in States \union {NoFile}
      /\ tmp' # NoFile => tmp # NoFile /\ tmp'.pid = tmp.pid
  BY OlderState DEF Sound, TypeOK, Tick
<1>3. beat' \in [Pids -> Ages]
  BY OlderIsAge DEF Sound, TypeOK, Tick
<1>4. TypeOK'
  BY <1>1, <1>2, <1>3 DEF Sound, TypeOK, Tick
<1>5. Born'
  BY <1>1, <1>2 DEF Sound, Born, Tick
<1> QED BY <1>4, <1>5 DEF Sound

\* Every step keeps types and records sound.
LEMMA StepSound == Sound /\ [Next]_vars => Sound'
<1> SUFFICES ASSUME Sound, [Next]_vars PROVE Sound'
  OBVIOUS
<1>1. CASE UNCHANGED vars
  BY <1>1 DEF vars, Sound, TypeOK, Born
<1>2. CASE Next
  BY <1>2, MonitorSound, CrashSound, CommandSound, TickSound DEF Next
<1> QED BY <1>1, <1>2

\* The invariant holds always.
LEMMA SoundAlways == Spec => []Sound
BY InitSound, StepSound, PTL DEF Spec

\* Every variable keeps its type: what writeDaemonState is given is always a record
\* of a process and its heartbeat (daemon.go:92, :151, :183).
THEOREM TypeCorrect == Spec => []TypeOK
<1>1. Sound => TypeOK
  BY DEF Sound
<1> QED BY <1>1, SoundAlways, PTL

\* A record names a process that was started, wherever it is, on disk, in the temporary
\* or in the memory of a command, whoever wrote it and however many terminals there
\* are: stop never kills for a monitor that is not there yet (daemon.go:127).
THEOREM RecordsNameMonitors == Spec => []Born
<1>1. Sound => Born
  BY DEF Sound
<1> QED BY <1>1, SoundAlways, PTL

------------------------------------------------------------------------------
(* A stop leaves no record, as long as commands are typed in one terminal:  *)
(* a start in another one may still be about to record what was stopped.    *)

\* Where a monitor is whose record may lie on disk.
Recorders == {"poll", "scan", "write", "remove", "crashed"}

\* Nothing has been stopped at first.
LEMMA InitStop == Init => StopHolds
BY DEF Init, StopHolds

\* Only the monitor that renames makes a file, and it is a recorder then; the one
\* that is recorder no more has removed the file.
LEMMA MonitorStop ==
    ASSUME Sound, StopHolds, NEW p \in Pids, Monitor(p)
    PROVE  StopHolds'
<1>1. \A q \in (Pids \union Clis) \ {p} : pc'[q] = pc[q]
  BY DEF Monitor, Boot, Poll, Scanned, Write, WriteTemporary, RemoveOld, Recorded, Goto, Sound, TypeOK
<1>2. UNCHANGED report
  BY DEF Monitor, Boot, Poll, Scanned, Write, WriteTemporary, RemoveOld, Recorded
<1>3. ASSUME NEW c \in Clis, report'[c] = "stopped", pc'[c] = "idle", file' # NoFile
      PROVE  \E q \in Pids : pc'[q] \in Recorders
  <2>1. report[c] = "stopped" /\ pc[c] = "idle"
    BY <1>1, <1>2, <1>3, DaemonAssumption
  <2>2. CASE pc'[p] \in Recorders
    BY <2>2
  <2>3. CASE pc'[p] \notin Recorders
    <3>1. UNCHANGED file /\ pc[p] \notin Recorders
      BY <1>3, <2>3 DEF Monitor, Boot, Poll, Scanned, Write, WriteTemporary, RemoveOld, Recorded,
                       RenameTemporary, TemporaryGone, Goto, Sound, TypeOK, Recorders
    <3>2. PICK q \in Pids : pc[q] \in Recorders
      BY <1>3, <2>1, <3>1 DEF StopHolds, Recorders
    <3> QED BY <1>1, <3>1, <3>2
  <2> QED BY <2>2, <2>3
<1> QED BY <1>3 DEF StopHolds, Recorders

\* A command begins by taking the report back, and ends it with "stopped" only
\* when it removes the file.
LEMMA CommandStop ==
    ASSUME Sound, StopHolds, \A c, d \in Clis : c = d, NEW c \in Clis, Command(c)
    PROVE  StopHolds'
<1>1. report \in [Clis -> {"none", "starting", "error", "already_stopped", "stopped"}]
      /\ pc \in [Pids \union Clis -> Labels \union {"idle", "spawn", "kill", "forget"}]
      /\ c \notin Pids
  BY DaemonAssumption DEF Sound, TypeOK
<1>2. report'[c] = "stopped" /\ pc'[c] = "idle" => file' = NoFile
  <2>1. CASE Spawn(c)
    BY <1>1, <2>1 DEF Spawn, Goto
  <2>2. CASE Kill(c)
    BY <1>1, <2>2 DEF Kill, Goto
  <2>3. CASE ~Spawn(c) /\ ~Kill(c)
    BY <1>1, <2>3 DEF Command, Start, StartWrite, WriteTemporary, RemoveOld, Started, Stop, Forget, Goto
  <2> QED BY <2>1, <2>2, <2>3
<1> QED BY <1>2 DEF StopHolds

\* Time and crashes make no record.
LEMMA OtherStop ==
    ASSUME Sound, StopHolds, Tick \/ \E p \in Pids : Crash(p)
    PROVE  StopHolds'
<1>1. CASE Tick
  BY <1>1 DEF Tick, StopHolds
<1>2. ASSUME NEW p \in Pids, Crash(p)
      PROVE  StopHolds'
  <2>1. pc'[p] = "crashed" /\ \A c \in Clis : pc'[c] = pc[c]
    BY <1>2, DaemonAssumption DEF Crash, Goto, Sound, TypeOK
  <2> QED BY <1>2, <2>1 DEF Crash, StopHolds
<1> QED BY <1>1, <1>2

\* Every step keeps what a stop has left.
LEMMA StepStop ==
    ASSUME \A c, d \in Clis : c = d
    PROVE  Sound /\ StopHolds /\ [Next]_vars => StopHolds'
<1> SUFFICES ASSUME Sound, StopHolds, [Next]_vars PROVE StopHolds'
  OBVIOUS
<1>1. CASE UNCHANGED vars
  BY <1>1 DEF vars, StopHolds
<1>2. CASE Next
  BY <1>2, MonitorStop, CommandStop, OtherStop DEF Next
<1> QED BY <1>1, <1>2

\* Once stop has reported success, what lies on disk is nothing, or the record of a
\* monitor that is alive or has crashed; so with no such monitor left, a later start
\* finds nothing in its way (daemon.go:127, the kill before the removal).
THEOREM StopIsFinal ==
    ASSUME \A c, d \in Clis : c = d
    PROVE  Spec => []StopLeavesNoRecord
<1>1. StopHolds => StopLeavesNoRecord
  BY DEF StopHolds, StopLeavesNoRecord, Fresh
<1> QED BY <1>1, InitStop, SoundAlways, StepStop, PTL DEF Spec
==============================================================================
