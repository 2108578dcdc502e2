-------------------------- MODULE CleanupProperties --------------------------
(***************************************************************************)
(* What is checked, and in CleanupProofs proved, of Cleanup.                *)
(***************************************************************************)
EXTENDS Cleanup

\* Every variable stays in its range (domain/cleanup_transaction.go).
TypeOK ==
    /\ clock \in Nat
    /\ orig \in [Items -> Content]
    /\ quar \in [Txs -> [Items -> Content]]
    /\ movedAt \in [Txs -> [Items -> Nat]]
    /\ manifest \in [Txs -> [Items -> ItemStatus \union {"NONE"}]]
    /\ row \in [Txs -> [status : TxStatus \union {"NONE"}, finished : Nat,
                        items : [Items -> ItemStatus]]]
    /\ pc \in [Procs -> Pcs]
    /\ cur \in [Procs -> Txs \union {NoTx}]
    /\ at \in [Procs -> Items]
    /\ st \in [Procs -> [Items -> ItemStatus]]

\* "The disk manifest is the source of recovery": a tree that lies in quarantine
\* is listed by a manifest on disk, and never listed there as put back, whatever
\* crashes, fails or runs at the same time (QuarantineEngine, PurgeService).
ManifestCovers ==
    \A t \in Txs, i \in Items :
        quar[t][i] # "none" => manifest[t][i] \notin {"NONE", "RESTORED"}

\* A row never says that an item was restored or purged while its tree is still
\* in quarantine, where no command would look for it again.
RecordSound ==
    \A t \in Txs, i \in Items :
        row[t].items[i] \in {"RESTORED", "PURGED"} => quar[t][i] = "none"

\* A transaction that is closed as RESTORED or PURGED has left nothing behind in
\* quarantine, the items it skipped or failed to move included.
ClosedIsEmpty ==
    \A t \in Txs :
        row[t].status \in {"RESTORED", "PURGED"} =>
            \A i \in Items : quar[t][i] = "none"

\* Clean, restore and purge keep their promises about the trees themselves.
Store == INSTANCE QuarantineStore
         WITH place <- orig, vault <- quar, since <- movedAt
StoreSpec == Store!Spec

Quiet == \A p \in Procs : pc[p] = "idle"

\* Commands that are not killed, several at once on one transaction included, leave
\* the database in agreement with the disk although the later write of a row wins:
\* an item recorded MOVED is in quarantine, and what is in quarantine is recorded
\* as an item that was not restored or purged.
RowMatchesDisk ==
    Quiet =>
        \A t \in Txs, i \in Items :
            /\ row[t].items[i] = "MOVED" => quar[t][i] # "none"
            /\ quar[t][i] # "none" => row[t].items[i] \in {"MOVED", "SKIPPED", "FAILED"}

\* What a command recorded as restored or purged, no later restore or purge of
\* the same transaction records otherwise.
FinalRecordsStick ==
    [][\A t \in Txs, i \in Items :
          row[t].items[i] \in {"RESTORED", "PURGED"} =>
              row'[t].items[i] = row[t].items[i]]_vars

\* A clean, restore or purge that was started comes to its end.
CommandsEnd == \A p \in Procs : pc[p] # "idle" ~> pc[p] = "idle"

------------------------------------------------------------------------------
(* The inductive invariant: what is known of a process by where it stands.  *)

CleaningPcs == {"move", "logMove", "record"}
PurgingPcs  == {"check", "remove", "recordPurge"}

\* A process works on a transaction exactly while it runs.
Occupied == \A p \in Procs : pc[p] = "idle" <=> cur[p] = NoTx

\* A transaction has no row, and no other process, while it is being cleaned;
\* restore and purge only ever work on transactions that have a row.
Ownership ==
    /\ \A p \in Procs :
        /\ pc[p] \in CleanPcs =>
            /\ row[cur[p]].status = "NONE"
            /\ \A q \in Procs \ {p} : cur[q] # cur[p]
        /\ pc[p] \in RestorePcs \union PurgePcs => row[cur[p]].status # "NONE"
    /\ \A t \in Txs : row[t].status = "NONE" => row[t].items = Pending

\* A clean knows what it moved, and moves only under complete manifests.
Cleaning ==
    \A p \in Procs, i \in Items :
        /\ pc[p] \in {"validate", "prepare"} => st[p][i] \in {"PENDING", "SKIPPED"}
        /\ pc[p] \in CleanPcs =>
            /\ st[p][i] \in {"PENDING", "SKIPPED", "MOVED", "FAILED"}
            /\ quar[cur[p]][i] # "none" => st[p][i] = "MOVED"
        /\ pc[p] \in CleaningPcs => manifest[cur[p]][i] \notin {"NONE", "RESTORED"}

\* A process never believes an item gone from quarantine that is still there.
MemorySound ==
    \A p \in Procs, i \in Items :
        pc[p] # "idle" /\ st[p][i] \in {"RESTORED", "PURGED"} =>
            quar[cur[p]][i] = "none"

\* Items that a restore or purge has dealt with, and the one it deals with.
Passed(p, i) ==
    \/ pc[p] \in {"recordRestore", "recordPurge"}
    \/ pc[p] \in {"lstatQuarantine", "lstatOriginal", "rename", "check", "remove"} /\ i < at[p]
    \/ pc[p] = "logRestore" /\ i <= at[p]

\* A restore or purge leaves no item it passes as moved.
Advanced ==
    \A p \in Procs, i \in Items :
        /\ Passed(p, i) => st[p][i] # "MOVED"
        /\ pc[p] \in {"lstatOriginal", "rename"} /\ i = at[p] => st[p][i] \in Restorable
        /\ pc[p] = "remove" /\ i = at[p] => st[p][i] = "MOVED"
        /\ pc[p] \in {"idle", "load"} => at[p] = 1

HasPurged(items) == \E i \in Items : items[i] = "PURGED"

\* What is in quarantine, a purge has on its list or has failed to remove, unless
\* another command recorded its work before the items were read: then there is
\* nothing to remove, and nothing to record.
Purging ==
    \A p \in Procs :
        /\ pc[p] \in PurgingPcs =>
            \/ \A i \in Items : quar[cur[p]][i] # "none" => st[p][i] \in {"MOVED", "FAILED"}
            \/ \A i \in Items : st[p][i] \notin {"MOVED", "PURGED"}
        /\ pc[p] = "unlink" => \A i \in Items : quar[cur[p]][i] = "none"

\* What a purge has left in quarantine it has marked as failed, and so a restore
\* will not touch it.
Restoring ==
    \A p \in Procs, i \in Items :
        pc[p] \in RestorePcs /\ HasPurged(st[p]) /\ quar[cur[p]][i] # "none" => st[p][i] = "FAILED"

\* A row that admits a purge lists all of the quarantine as moved.
PurgeableRows ==
    \A t \in Txs, i \in Items :
        row[t].status \in Purgeable /\ quar[t][i] # "none" =>
            row[t].items[i] = "MOVED"

\* Every other row was written by a command that went through all of the items,
OtherRows ==
    \A t \in Txs, i \in Items :
        row[t].status \notin Purgeable => row[t].items[i] # "MOVED"

\* and a purge that removed something leaves only failures.
PurgedRows ==
    \A t \in Txs, i \in Items :
        HasPurged(row[t].items) /\ quar[t][i] # "none" => row[t].items[i] = "FAILED"

\* Retention counts from a time after the last move, and a purge outlives it.
Retained ==
    /\ \A t \in Txs, i \in Items :
        /\ movedAt[t][i] <= clock
        /\ row[t].status # "NONE" => movedAt[t][i] <= row[t].finished
    /\ \A p \in Procs, i \in Items :
        pc[p] \in PurgePcs => movedAt[cur[p]][i] + Retention <= clock

IInv ==
    /\ TypeOK
    /\ Occupied
    /\ Ownership
    /\ Cleaning
    /\ MemorySound
    /\ Advanced
    /\ Purging
    /\ Restoring
    /\ PurgeableRows
    /\ OtherRows
    /\ PurgedRows
    /\ Retained
    /\ ManifestCovers
    /\ RecordSound
    /\ ClosedIsEmpty

------------------------------------------------------------------------------
(* What the documentation or a comment says and the code does not do.       *)

\* README.md:285, "restore returns quarantined items to their original path":
\* a recorded tree left in quarantine is one that restore would still consider.
NothingStranded ==
    Quiet => \A t \in Txs, i \in Items :
        quar[t][i] # "none" /\ row[t].status # "NONE" =>
            row[t].items[i] \in {"MOVED", "SKIPPED"}
==============================================================================
