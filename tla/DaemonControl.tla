---------------------------- MODULE DaemonControl -----------------------------
(***************************************************************************)
(* The life of background monitors (cmd/daemon.go): `daemon start' and      *)
(* `daemon stop' work from a state file that each monitor rewrites after    *)
(* every poll, through one temporary file shared by all of them.            *)
(*                                                                          *)
(* Time is counted in parts of the ten minutes after which a heartbeat is   *)
(* stale; only scans take that long. Errors of the filesystem other than a  *)
(* missing file, and process IDs used again, are left out.                  *)
(***************************************************************************)
EXTENDS Naturals, FiniteSets

CONSTANTS
    Pids,        \* the processes that may become monitors
    Clis,        \* the terminals in which start and stop are typed
    NoFile, NoPid,
    StaleAfter,  \* daemonStaleAfter
    Faults       \* what may happen besides, see FaultKinds

\* crash: a monitor dies; slow: a scan outlasts StaleAfter.
FaultKinds == {"crash", "slow"}

ASSUME DaemonAssumption ==
    /\ NoPid \notin Pids
    /\ Pids \cap Clis = {}
    /\ IsFiniteSet(Pids)
    /\ StaleAfter \in Nat \ {0}
    /\ Faults \subseteq FaultKinds

VARIABLES
    file,    \* the state file: NoFile, or a PID and the age of its heartbeat
    tmp,     \* the state file's temporary
    pc,      \* pc[p]: where a monitor or a command is
    beat,    \* beat[p]: the age of state.Heartbeat in the memory of monitor p
    target,  \* target[c]: the PID that the command in c works on
    report   \* report[c]: what the last command in c printed

vars == <<file, tmp, pc, beat, target, report>>

Ages == 0 .. StaleAfter + 1
Older(age) == IF age \in 0 .. StaleAfter THEN age + 1 ELSE age

States == [pid : Pids, age : Ages]

\* Mutant: a heartbeat of any age will do.
FreshForever(f) == f # NoFile

Fresh(f) == f # NoFile /\ f.age <= StaleAfter
Status(f) == IF f = NoFile THEN "stopped" ELSE IF Fresh(f) THEN "running" ELSE "stale"

Running == {p \in Pids : pc[p] \notin {"unborn", "dead", "crashed"}}

Goto(p, label) == pc' = [pc EXCEPT ![p] = label]

Init ==
    /\ file = NoFile
    /\ tmp = NoFile
    /\ pc = [p \in Pids \union Clis |-> IF p \in Pids THEN "unborn" ELSE "idle"]
    /\ beat = [p \in Pids |-> 0]
    /\ target = [c \in Clis |-> NoPid]
    /\ report = [c \in Clis |-> "none"]

------------------------------------------------------------------------------
(* writeDaemonState, by a monitor or by `daemon start'.                     *)

WriteTemporary(p, state) ==
    /\ pc[p] = "write"
    /\ tmp' = state
    /\ Goto(p, "remove")
    /\ UNCHANGED <<file, beat, target, report>>

RemoveOld(p) ==
    /\ pc[p] = "remove"
    /\ file' = NoFile
    /\ Goto(p, "rename")
    /\ UNCHANGED <<tmp, beat, target, report>>

\* Mutant: the temporary is left in place.
RenameNothing ==
    /\ tmp # NoFile
    /\ UNCHANGED <<file, tmp>>

RenameTemporary ==
    /\ tmp # NoFile
    /\ file' = tmp
    /\ tmp' = NoFile

\* Another writer may have renamed the temporary first.
TemporaryGone == tmp = NoFile /\ UNCHANGED <<file, tmp>>

------------------------------------------------------------------------------
(* runDaemon.                                                               *)

Boot(p) ==
    /\ pc[p] = "boot"
    /\ beat' = [beat EXCEPT ![p] = 0]
    /\ Goto(p, "write")
    /\ UNCHANGED <<file, tmp, target, report>>

\* The heartbeat is taken before the scans, and written after them.
Poll(p) ==
    /\ pc[p] = "poll"
    /\ beat' = [beat EXCEPT ![p] = 0]
    /\ \E label \in {"scan", "write"} : Goto(p, label)
    /\ UNCHANGED <<file, tmp, target, report>>

Scanned(p) ==
    /\ pc[p] = "scan"
    /\ Goto(p, "write")
    /\ UNCHANGED <<file, tmp, beat, target, report>>

Write(p) == WriteTemporary(p, [pid |-> p, age |-> beat[p]])

\* A monitor that cannot write its state returns from runDaemon.
Recorded(p) ==
    /\ pc[p] = "rename"
    /\ \/ RenameTemporary /\ Goto(p, "poll")
       \/ TemporaryGone /\ Goto(p, "dead")
    /\ UNCHANGED <<beat, target, report>>

Monitor(p) == Boot(p) \/ Poll(p) \/ Scanned(p) \/ Write(p) \/ RemoveOld(p) \/ Recorded(p)

------------------------------------------------------------------------------
(* startDaemon. A start that finds a fresh state is refused and changes     *)
(* nothing.                                                                 *)

Start(c) ==
    /\ pc[c] = "idle"
    /\ ~Fresh(file)
    /\ Goto(c, "spawn")
    /\ report' = [report EXCEPT ![c] = "none"]
    /\ UNCHANGED <<file, tmp, beat, target>>

\* Mutant: the PID of the new process is not kept.
SpawnForgettingPid(c) ==
    /\ pc[c] = "spawn"
    /\ \E p \in Pids :
        /\ pc[p] = "unborn"
        /\ pc' = [pc EXCEPT ![p] = "boot", ![c] = "write"]
    /\ UNCHANGED <<file, tmp, beat, target, report>>

\* A process cannot be had when all of Pids, the bound on their number, are used.
Spawn(c) ==
    /\ pc[c] = "spawn"
    /\ \/ \E p \in Pids :
            /\ pc[p] = "unborn"
            /\ target' = [target EXCEPT ![c] = p]
            /\ pc' = [pc EXCEPT ![p] = "boot", ![c] = "write"]
            /\ UNCHANGED report
       \/ /\ \A p \in Pids : pc[p] # "unborn"
          /\ Goto(c, "idle")
          /\ report' = [report EXCEPT ![c] = "error"]
          /\ UNCHANGED target
    /\ UNCHANGED <<file, tmp, beat>>

StartWrite(c) == WriteTemporary(c, [pid |-> target[c], age |-> 0])

Started(c) ==
    /\ pc[c] = "rename"
    /\ \/ RenameTemporary /\ report' = [report EXCEPT ![c] = "starting"]
       \/ TemporaryGone /\ report' = [report EXCEPT ![c] = "error"]
    /\ Goto(c, "idle")
    /\ target' = [target EXCEPT ![c] = NoPid]
    /\ UNCHANGED beat

------------------------------------------------------------------------------
(* stopDaemon.                                                              *)

Stop(c) ==
    /\ pc[c] = "idle"
    /\ IF file = NoFile
       THEN /\ report' = [report EXCEPT ![c] = "already_stopped"]
            /\ UNCHANGED <<pc, target>>
       ELSE /\ Goto(c, IF Fresh(file) THEN "kill" ELSE "forget")
            /\ target' = [target EXCEPT ![c] = file.pid]
            /\ report' = [report EXCEPT ![c] = "none"]
    /\ UNCHANGED <<file, tmp, beat>>

\* Killing a process that has ended is an error.
Kill(c) ==
    /\ pc[c] = "kill"
    /\ IF target[c] \in Running
       THEN /\ pc' = [pc EXCEPT ![target[c]] = "dead", ![c] = "forget"]
            /\ UNCHANGED <<target, report>>
       ELSE /\ Goto(c, "idle")
            /\ target' = [target EXCEPT ![c] = NoPid]
            /\ report' = [report EXCEPT ![c] = "error"]
    /\ UNCHANGED <<file, tmp, beat>>

\* Mutant: the state file is kept.
ForgetNothing(c) ==
    /\ pc[c] = "forget"
    /\ Goto(c, "idle")
    /\ target' = [target EXCEPT ![c] = NoPid]
    /\ report' = [report EXCEPT ![c] = "stopped"]
    /\ UNCHANGED <<file, tmp, beat>>

Forget(c) ==
    /\ pc[c] = "forget"
    /\ file' = NoFile
    /\ Goto(c, "idle")
    /\ target' = [target EXCEPT ![c] = NoPid]
    /\ report' = [report EXCEPT ![c] = "stopped"]
    /\ UNCHANGED <<tmp, beat>>

Command(c) ==
    \/ Start(c) \/ Spawn(c) \/ StartWrite(c) \/ RemoveOld(c) \/ Started(c)
    \/ Stop(c) \/ Kill(c) \/ Forget(c)

------------------------------------------------------------------------------
Crash(p) ==
    /\ "crash" \in Faults
    /\ p \in Running
    /\ Goto(p, "crashed")
    /\ UNCHANGED <<file, tmp, beat, target, report>>

\* Nothing but a scan lasts as long as StaleAfter: a monitor that polls does so
\* long before its last heartbeat is stale.
Tick ==
    /\ \A p \in Running :
        \/ pc[p] = "scan" /\ ("slow" \in Faults \/ beat[p] < StaleAfter)
        \/ pc[p] = "poll" /\ beat[p] < StaleAfter
    /\ file' = IF file = NoFile THEN NoFile ELSE [file EXCEPT !.age = Older(@)]
    /\ tmp' = IF tmp = NoFile THEN NoFile ELSE [tmp EXCEPT !.age = Older(@)]
    /\ beat' = [p \in Pids |-> Older(beat[p])]
    /\ UNCHANGED <<pc, target, report>>

Next ==
    \/ \E p \in Pids : Monitor(p) \/ Crash(p)
    \/ \E c \in Clis : Command(c)
    \/ Tick

Spec == Init /\ [][Next]_vars

\* A process that can go on is scheduled, a scan comes to its end, and time
\* passes. Nobody has to type a command.
FairSpec ==
    /\ Spec
    /\ \A p \in Pids : WF_vars(Monitor(p))
    /\ \A c \in Clis : WF_vars(pc[c] # "idle" /\ Command(c))
    /\ WF_vars(Tick)

------------------------------------------------------------------------------
(* Properties.                                                              *)

Labels == {"unborn", "boot", "poll", "scan", "write", "remove", "rename", "dead", "crashed"}

TypeOK ==
    /\ file \in States \union {NoFile}
    /\ tmp \in States \union {NoFile}
    /\ pc \in [Pids \union Clis -> Labels \union {"idle", "spawn", "kill", "forget"}]
    /\ \A p \in Pids : pc[p] \in Labels
    /\ beat \in [Pids -> Ages]
    /\ target \in [Clis -> Pids \union {NoPid}]
    /\ report \in [Clis -> {"none", "starting", "error", "already_stopped", "stopped"}]

\* Once stop has reported success and no monitor is left, nothing remains on disk
\* that a later start would take for a running monitor, unless one crashed: the
\* kill comes before the removal, so that the monitor's last write cannot undo it.
StopLeavesNoRecord ==
    \A c \in Clis :
        /\ report[c] = "stopped" /\ pc[c] = "idle"
        /\ \A p \in Pids : pc[p] \in {"unborn", "dead"}
        => ~Fresh(file)

\* Whatever monitors and commands do to the shared temporary, a monitor that goes
\* on running gets its own PID into the state file, where stop can find it.
RunningIsRecorded ==
    \A p \in Pids :
        p \in Running ~> (file # NoFile /\ file.pid = p) \/ p \notin Running

\* A monitor that crashed blocks `daemon start' and `daemon stop' only until its
\* last heartbeat is stale.
DeadRecordExpires ==
    (Fresh(file) /\ Running = {}) ~> (~Fresh(file) \/ Running # {})
==============================================================================
