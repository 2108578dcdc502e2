------------------------------- MODULE Cleanup -------------------------------
(***************************************************************************)
(* The clean, restore and purge commands over one saved cleanup plan: CLI   *)
(* processes that share a SQLite database and the filesystem and take no    *)
(* lock. Each rename, removal, check, rewrite of the manifests and database *)
(* transaction is one step; a process may crash between any two of them.    *)
(*                                                                          *)
(* Sources: internal/app/cleanup_service.go, internal/app/purge_service.go, *)
(* internal/safety/quarantine.go, internal/safety/cleanup_validator.go,     *)
(* internal/store/sqlite/cleanup_transaction_repository.go.                 *)
(***************************************************************************)
EXTENDS Integers, FiniteSets

CONSTANTS
    N,            \* items in the plan, processed in the order of their IDs
    M,            \* disk manifests per transaction, written in path order
    ManifestOf,   \* ManifestOf[i]: the manifest that lists item i
    Txs,          \* transaction IDs that "clean --execute" may draw
    NoTx,         \* the transaction of a process that has none
    Procs,        \* CLI processes
    Retention,    \* cleanup.quarantine_days
    MaxTime,      \* bound on the clock
    Faults        \* what may go wrong, see FaultKinds

Items == 1 .. N

\* crash: a process dies; db: a database write fails; io: a filesystem call
\* fails; tamper: someone alters the quarantine directory by hand.
FaultKinds == {"crash", "db", "io", "tamper"}

ASSUME CleanupAssumption ==
    /\ N \in Nat \ {0}
    /\ M \in Nat \ {0}
    /\ ManifestOf \in [Items -> 1 .. M]
    /\ NoTx \notin Txs
    /\ Retention \in Nat
    /\ MaxTime \in Nat
    /\ Faults \subseteq FaultKinds

VARIABLES
    clock,        \* wall clock, in days
    orig,         \* orig[i]: what is at the original path of item i
    quar,         \* quar[t][i]: what is at the quarantine path of item i in t
    movedAt,      \* history: when quar[t][i] was moved there
    manifest,     \* manifest[t][i]: status of i in t's manifest file, or "NONE"
    row,          \* row[t]: the database row of t and of its items
    pc,           \* pc[p]: the step process p is about to take
    cur,          \* cur[p]: the transaction p works on
    at,           \* at[p]: the item p works on
    st            \* st[p][i]: the item statuses in p's memory

diskVars == <<orig, quar, movedAt, manifest>>
procVars == <<pc, cur, at, st>>
vars     == <<clock, diskVars, row, procVars>>

Tree    == {"planned", "changed", "partial", "link"}
Content == Tree \union {"none"}

ItemStatus == {"PENDING", "MOVED", "SKIPPED", "FAILED", "RESTORED", "PURGED"}
TxStatus   == {"QUARANTINED", "PARTIALLY_QUARANTINED", "RESTORED",
               "PARTIALLY_RESTORED", "PURGED", "PARTIALLY_PURGED", "FAILED"}
Purgeable  == {"QUARANTINED", "PARTIALLY_QUARANTINED"}

CleanPcs   == {"validate", "prepare", "move", "logMove", "record"}
RestorePcs == {"lstatQuarantine", "lstatOriginal", "rename", "logRestore",
               "recordRestore"}
PurgePcs   == {"load", "check", "remove", "recordPurge", "unlink"}
Pcs        == {"idle"} \union CleanPcs \union RestorePcs \union PurgePcs

Pending == [i \in Items |-> "PENDING"]
NoRow   == [status |-> "NONE", finished |-> 0, items |-> Pending]

Init ==
    /\ clock = 0
    /\ orig = [i \in Items |-> "planned"]
    /\ quar = [t \in Txs |-> [i \in Items |-> "none"]]
    /\ movedAt = [t \in Txs |-> [i \in Items |-> 0]]
    /\ manifest = [t \in Txs |-> [i \in Items |-> "NONE"]]
    /\ row = [t \in Txs |-> NoRow]
    /\ pc = [p \in Procs |-> "idle"]
    /\ cur = [p \in Procs |-> NoTx]
    /\ at = [p \in Procs |-> 1]
    /\ st = [p \in Procs |-> Pending]

------------------------------------------------------------------------------
(* Steps shared by the three commands.                                      *)

Goto(p, label) == pc' = [pc EXCEPT ![p] = label]

Begin(p, t, items, label) ==
    /\ pc[p] = "idle"
    /\ cur' = [cur EXCEPT ![p] = t]
    /\ st' = [st EXCEPT ![p] = items]
    /\ Goto(p, label)
    /\ UNCHANGED at

\* The process exits, by success, error or crash, and its memory is gone.
End(p) ==
    /\ Goto(p, "idle")
    /\ cur' = [cur EXCEPT ![p] = NoTx]
    /\ at' = [at EXCEPT ![p] = 1]
    /\ st' = [st EXCEPT ![p] = Pending]

\* Mutant: the index is not reset for the next loop over the items.
NextItemNoReset(p, loop, exit) ==
    /\ Goto(p, IF at[p] = N THEN exit ELSE loop)
    /\ at' = [at EXCEPT ![p] = at[p] + 1]
    /\ UNCHANGED cur

\* Go on with the next item at label loop, or leave the loop.
NextItem(p, loop, exit) ==
    /\ Goto(p, IF at[p] = N THEN exit ELSE loop)
    /\ at' = [at EXCEPT ![p] = IF at[p] = N THEN 1 ELSE at[p] + 1]
    /\ UNCHANGED cur

Status(p) == st[p][at[p]]
Mark(p, s) == st' = [st EXCEPT ![p][at[p]] = s]

\* What lies at the two paths of the item p works on.
Original(p)   == orig[at[p]]
Quarantine(p) == quar[cur[p]][at[p]]

\* The number of manifests written before the first error, M without one.
Written == IF "io" \in Faults THEN 0 .. M ELSE {M}

WriteManifests(p, k) ==
    manifest' = [manifest EXCEPT ![cur[p]] =
        [i \in Items |-> IF ManifestOf[i] <= k THEN st[p][i]
                                               ELSE manifest[cur[p]][i]]]

\* finishTransaction: all items reached goal, some did, or none.
Summary(items, goal, all, some) ==
    IF \A i \in Items : items[i] = goal THEN all
    ELSE IF \E i \in Items : items[i] = goal THEN some
    ELSE "FAILED"

\* Mutant: the update writes the transaction but not its items.
WriteRowWithoutItems(p, s) ==
    row' = [row EXCEPT ![cur[p]].status = s, ![cur[p]].finished = clock]

WriteRow(p, s) ==
    row' = [row EXCEPT ![cur[p]] =
                [status |-> s, finished |-> clock, items |-> st[p]]]

------------------------------------------------------------------------------
(* libra clean --plan <id> --execute                                        *)

\* A random ID: no other transaction, alive or dead, left a trace under it.
Fresh(t) ==
    /\ row[t].status = "NONE"
    /\ \A i \in Items : manifest[t][i] = "NONE"
    /\ \A p \in Procs : cur[p] # t

CleanBegin(p) ==
    /\ \E t \in Txs : Fresh(t) /\ Begin(p, t, Pending, "validate")
    /\ UNCHANGED <<clock, diskVars, row>>

\* Every item is validated before the first one is moved. Only a tree with the
\* planned size and modification time passes, and even that one fails when its
\* resource row, owner project, Git state or measurement does not allow it.
CleanValidate(p) ==
    /\ pc[p] = "validate"
    /\ \E verdict \in {"PENDING", "SKIPPED"} :
        /\ verdict = "PENDING" => Original(p) = "planned"
        /\ Mark(p, verdict)
    /\ NextItem(p, "validate", "prepare")
    /\ UNCHANGED <<clock, diskVars, row>>

\* Mutant: moving starts although the manifests could not be written.
CleanPrepareIgnoringErrors(p) ==
    /\ pc[p] = "prepare"
    /\ \E k \in Written : WriteManifests(p, k)
    /\ Goto(p, "move")
    /\ UNCHANGED <<clock, orig, quar, movedAt, row, cur, at, st>>

CleanPrepare(p) ==
    /\ pc[p] = "prepare"
    /\ \E k \in Written :
        /\ WriteManifests(p, k)
        /\ IF k = M THEN Goto(p, "move") /\ UNCHANGED <<cur, at, st>>
                    ELSE End(p)
    /\ UNCHANGED <<clock, orig, quar, movedAt, row>>

\* MkdirAll or Rename fails, or the item was not to be moved.
CleanLeave(p) ==
    /\ pc[p] = "move"
    /\ \/ Status(p) # "PENDING" /\ UNCHANGED st
       \/ /\ Status(p) = "PENDING"
          /\ Original(p) = "none" \/ "io" \in Faults
          /\ Mark(p, "FAILED")
    /\ NextItem(p, "move", "record")
    /\ UNCHANGED <<clock, diskVars, row>>

CleanMove(p) ==
    /\ pc[p] = "move"
    /\ Status(p) = "PENDING"
    /\ Original(p) # "none"
    /\ quar' = [quar EXCEPT ![cur[p]][at[p]] = Original(p)]
    /\ orig' = [orig EXCEPT ![at[p]] = "none"]
    /\ movedAt' = [movedAt EXCEPT ![cur[p]][at[p]] = clock]
    /\ Mark(p, "MOVED")
    /\ Goto(p, "logMove")
    /\ UNCHANGED <<clock, manifest, row, cur, at>>

\* A failed manifest update after a move is only noted in the item's reason.
CleanLog(p) ==
    /\ pc[p] = "logMove"
    /\ \E k \in Written : WriteManifests(p, k)
    /\ NextItem(p, "move", "record")
    /\ UNCHANGED <<clock, orig, quar, movedAt, row, st>>

\* The database hears of the transaction only now, when all moves are done.
CleanRecord(p) ==
    /\ pc[p] = "record"
    /\ \/ WriteRow(p, Summary(st[p], "MOVED", "QUARANTINED", "PARTIALLY_QUARANTINED"))
       \/ "db" \in Faults /\ UNCHANGED row
    /\ End(p)
    /\ UNCHANGED <<clock, diskVars>>

------------------------------------------------------------------------------
(* libra restore --transaction <id>: any transaction that has a row.        *)

\* Mutant: an item that was restored before is looked at again.
RestorableAgain == {"MOVED", "SKIPPED", "RESTORED"}

\* The items that restore considers, the SKIPPED ones because an earlier
\* restore may have found their original path taken.
Restorable == {"MOVED", "SKIPPED"}

\* FindByID reads the row and then its items. A restore uses nothing of the row
\* but that there is one, which stays so: the items alone are read here.
RestoreBegin(p) ==
    /\ \E t \in Txs :
        /\ row[t].status # "NONE"
        /\ Begin(p, t, row[t].items, "lstatQuarantine")
    /\ UNCHANGED <<clock, diskVars, row>>

RestoreLstatQuarantine(p) ==
    /\ pc[p] = "lstatQuarantine"
    /\ \/ /\ Status(p) \notin Restorable
          /\ UNCHANGED st
          /\ NextItem(p, "lstatQuarantine", "recordRestore")
       \/ /\ Status(p) \in Restorable
          /\ Quarantine(p) = "none" \/ "io" \in Faults
          /\ IF Status(p) = "SKIPPED" THEN UNCHANGED st ELSE Mark(p, "FAILED")
          /\ NextItem(p, "lstatQuarantine", "recordRestore")
       \/ /\ Status(p) \in Restorable
          /\ Quarantine(p) # "none"
          /\ Goto(p, "lstatOriginal")
          /\ UNCHANGED <<cur, at, st>>
    /\ UNCHANGED <<clock, diskVars, row>>

RestoreLstatOriginal(p) ==
    /\ pc[p] = "lstatOriginal"
    /\ \/ /\ Original(p) # "none"
          /\ Mark(p, "SKIPPED")
          /\ NextItem(p, "lstatQuarantine", "recordRestore")
       \/ /\ "io" \in Faults
          /\ Mark(p, "FAILED")
          /\ NextItem(p, "lstatQuarantine", "recordRestore")
       \/ /\ Original(p) = "none"
          /\ Goto(p, "rename")
          /\ UNCHANGED <<cur, at, st>>
    /\ UNCHANGED <<clock, diskVars, row>>

\* os.Rename of a directory refuses a target that has appeared since Lstat.
CanRename(p) == Quarantine(p) # "none" /\ Original(p) = "none"

\* Mutant: the error of MkdirAll or Rename is dropped.
RestoreFailIgnored(p) ==
    /\ pc[p] = "rename"
    /\ ~CanRename(p) \/ "io" \in Faults
    /\ Mark(p, "RESTORED")
    /\ NextItem(p, "lstatQuarantine", "recordRestore")
    /\ UNCHANGED <<clock, diskVars, row>>

\* Mutant: a failed restore of an item is tried again until it succeeds.
RestoreFailRetried(p) ==
    /\ pc[p] = "rename"
    /\ ~CanRename(p) \/ "io" \in Faults
    /\ Goto(p, "lstatOriginal")
    /\ UNCHANGED <<clock, diskVars, row, cur, at, st>>

\* MkdirAll or Rename fails.
RestoreFail(p) ==
    /\ pc[p] = "rename"
    /\ ~CanRename(p) \/ "io" \in Faults
    /\ Mark(p, "FAILED")
    /\ NextItem(p, "lstatQuarantine", "recordRestore")
    /\ UNCHANGED <<clock, diskVars, row>>

RestoreRename(p) ==
    /\ pc[p] = "rename"
    /\ CanRename(p)
    /\ orig' = [orig EXCEPT ![at[p]] = Quarantine(p)]
    /\ quar' = [quar EXCEPT ![cur[p]][at[p]] = "none"]
    /\ Mark(p, "RESTORED")
    /\ Goto(p, "logRestore")
    /\ UNCHANGED <<clock, movedAt, manifest, row, cur, at>>

RestoreLog(p) ==
    /\ pc[p] = "logRestore"
    /\ \E k \in Written : WriteManifests(p, k)
    /\ NextItem(p, "lstatQuarantine", "recordRestore")
    /\ UNCHANGED <<clock, orig, quar, movedAt, row, st>>

RestoreRecord(p) ==
    /\ pc[p] = "recordRestore"
    /\ \/ WriteRow(p, Summary(st[p], "RESTORED", "RESTORED", "PARTIALLY_RESTORED"))
       \/ "db" \in Faults /\ UNCHANGED row
    /\ End(p)
    /\ UNCHANGED <<clock, diskVars>>

------------------------------------------------------------------------------
(* libra purge --transaction <id> --execute                                 *)

\* Mutant: the retention period is added to the wrong side.
ExpiredTooEarly(t) == row[t].finished <= clock + Retention

\* FinishedAt is not after now minus the retention period.
Expired(t) == row[t].finished <= clock - Retention

\* The status and the date that are checked are those of the row's own query.
PurgeBegin(p) ==
    /\ \E t \in Txs :
        /\ row[t].status \in Purgeable
        /\ Expired(t)
        /\ Begin(p, t, Pending, "load")
    /\ UNCHANGED <<clock, diskVars, row>>

\* The items may be those that another command has written since.
PurgeLoad(p) ==
    /\ pc[p] = "load"
    /\ st' = [st EXCEPT ![p] = row[cur[p]].items]
    /\ Goto(p, "check")
    /\ UNCHANGED <<clock, diskVars, row, cur, at>>

\* validatePurgeItem finds the item in its manifest, Lstat finds a real tree.
PurgeCheck(p) ==
    /\ pc[p] = "check"
    /\ \/ /\ Status(p) # "MOVED"
          /\ UNCHANGED st
          /\ NextItem(p, "check", "recordPurge")
       \/ /\ Status(p) = "MOVED"
          /\ \/ manifest[cur[p]][at[p]] = "NONE"
             \/ Quarantine(p) \in {"none", "link"}
             \/ "io" \in Faults
          /\ Mark(p, "FAILED")
          /\ NextItem(p, "check", "recordPurge")
       \/ /\ Status(p) = "MOVED"
          /\ manifest[cur[p]][at[p]] # "NONE"
          /\ Quarantine(p) \notin {"none", "link"}
          /\ Goto(p, "remove")
          /\ UNCHANGED <<cur, at, st>>
    /\ UNCHANGED <<clock, diskVars, row>>

\* RemoveAll deletes a tree entry by entry: it may stop half way, and it takes
\* a tree that is no longer there for a tree it has removed.
PurgeRemove(p) ==
    /\ pc[p] = "remove"
    /\ \/ /\ Quarantine(p) \in {"planned", "changed"}
          /\ quar' = [quar EXCEPT ![cur[p]][at[p]] = "partial"]
          /\ UNCHANGED procVars
       \/ /\ Quarantine(p) \notin {"planned", "changed"}
          /\ quar' = [quar EXCEPT ![cur[p]][at[p]] = "none"]
          /\ Mark(p, "PURGED")
          /\ NextItem(p, "check", "recordPurge")
       \/ /\ "io" \in Faults
          /\ Mark(p, "FAILED")
          /\ NextItem(p, "check", "recordPurge")
          /\ UNCHANGED quar
    /\ UNCHANGED <<clock, orig, movedAt, manifest, row>>

\* Mutant: items whose removal failed do not count as remaining.
PurgeStatusForgettingFailures(items) ==
    IF \E i \in Items : items[i] = "MOVED" THEN "PARTIALLY_PURGED" ELSE "PURGED"

PurgeStatus(items) ==
    IF \E i \in Items : items[i] \in {"MOVED", "FAILED"}
    THEN "PARTIALLY_PURGED" ELSE "PURGED"

\* Nothing purged is an error, and leaves the row as it was.
PurgeRecord(p) ==
    /\ pc[p] = "recordPurge"
    /\ \/ /\ \A i \in Items : st[p][i] # "PURGED"
          /\ UNCHANGED row
          /\ End(p)
       \/ /\ \E i \in Items : st[p][i] = "PURGED"
          /\ WriteRow(p, PurgeStatus(st[p]))
          /\ IF PurgeStatus(st[p]) = "PURGED"
             THEN Goto(p, "unlink") /\ UNCHANGED <<cur, at, st>>
             ELSE End(p)
       \/ "db" \in Faults /\ UNCHANGED row /\ End(p)
    /\ UNCHANGED <<clock, diskVars>>

\* The manifests of a purged transaction are removed, errors ignored.
PurgeUnlink(p) ==
    /\ pc[p] = "unlink"
    /\ \E removed \in SUBSET (1 .. M) :
        manifest' = [manifest EXCEPT ![cur[p]] =
            [i \in Items |-> IF ManifestOf[i] \in removed THEN "NONE"
                                                          ELSE manifest[cur[p]][i]]]
    /\ End(p)
    /\ UNCHANGED <<clock, orig, quar, movedAt, row>>

------------------------------------------------------------------------------
(* The rest of the world.                                                   *)

Crash(p) ==
    /\ "crash" \in Faults
    /\ pc[p] # "idle"
    /\ End(p)
    /\ UNCHANGED <<clock, diskVars, row>>

\* A build or a user rewrites or deletes what is at an original path.
Outside(i) ==
    /\ \E c \in {"changed", "none"} \ {orig[i]} : orig' = [orig EXCEPT ![i] = c]
    /\ UNCHANGED <<clock, quar, movedAt, manifest, row, procVars>>

Tamper(t, i) ==
    /\ "tamper" \in Faults
    /\ \E c \in {"link", "none"} :
        /\ quar[t][i] \notin {"none", c}
        /\ quar' = [quar EXCEPT ![t][i] = c]
    /\ UNCHANGED <<clock, orig, movedAt, manifest, row, procVars>>

Tick ==
    /\ clock < MaxTime
    /\ clock' = clock + 1
    /\ UNCHANGED <<diskVars, row, procVars>>

------------------------------------------------------------------------------
CleanStep(p) ==
    \/ CleanValidate(p) \/ CleanPrepare(p) \/ CleanLeave(p)
    \/ CleanMove(p) \/ CleanLog(p) \/ CleanRecord(p)

RestoreStep(p) ==
    \/ RestoreLstatQuarantine(p) \/ RestoreLstatOriginal(p) \/ RestoreFail(p)
    \/ RestoreRename(p) \/ RestoreLog(p) \/ RestoreRecord(p)

PurgeStep(p) ==
    PurgeLoad(p) \/ PurgeCheck(p) \/ PurgeRemove(p) \/ PurgeRecord(p) \/ PurgeUnlink(p)

Run(p) == CleanStep(p) \/ RestoreStep(p) \/ PurgeStep(p)

Next ==
    \/ \E p \in Procs : CleanBegin(p) \/ RestoreBegin(p) \/ PurgeBegin(p)
    \/ \E p \in Procs : Run(p) \/ Crash(p)
    \/ \E i \in Items : Outside(i)
    \/ \E t \in Txs, i \in Items : Tamper(t, i)
    \/ Tick

Spec == Init /\ [][Next]_vars

\* A command that was started is scheduled until it exits.
FairSpec == Spec /\ \A p \in Procs : WF_vars(Run(p))
==============================================================================
