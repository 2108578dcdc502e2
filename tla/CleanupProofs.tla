---------------------------- MODULE CleanupProofs ----------------------------
(***************************************************************************)
(* Proofs about Cleanup, for any plan, any number of transactions and       *)
(* processes, any retention period and any set of faults: its types, its    *)
(* inductive invariant, the safety properties that follow from it, and the  *)
(* refinement of QuarantineStore.                                           *)
(***************************************************************************)
EXTENDS CleanupProperties, TLAPS

USE CleanupAssumption DEF Items

------------------------------------------------------------------------------
(* Lemmas about the helpers the actions are built from.                     *)

\* What the summary of a finished clean or restore can be.
LEMMA SummaryRange ==
    ASSUME NEW items \in [Items -> ItemStatus], NEW goal, NEW all, NEW some
    PROVE  /\ Summary(items, goal, all, some) \in {all, some, "FAILED"}
           /\ all \notin {some, "FAILED"} =>
                (Summary(items, goal, all, some) = all => \A i \in Items : items[i] = goal)
  BY DEF Summary

\* The process variables stay in their ranges, and a process has a transaction
\* exactly while it runs.
ProcOK ==
    /\ pc \in [Procs -> Pcs]
    /\ at \in [Procs -> Items]
    /\ cur \in [Procs -> Txs \union {NoTx}]
    /\ st \in [Procs -> [Items -> ItemStatus]]
    /\ Occupied

\* A command that begins has its transaction, its items and its place.
LEMMA BeginProcOK ==
    ASSUME ProcOK, NEW p \in Procs, NEW t \in Txs,
           NEW items \in [Items -> ItemStatus], NEW label \in Pcs \ {"idle"},
           Begin(p, t, items, label)
    PROVE  ProcOK'
  BY DEF ProcOK, Occupied, Begin, Goto

\* A command that ends forgets them.
LEMMA EndProcOK ==
    ASSUME ProcOK, NEW p \in Procs, End(p)
    PROVE  ProcOK'
  BY DEF ProcOK, Occupied, End, Goto, Pcs, Pending, ItemStatus

\* An item's status in memory is marked with a status.
LEMMA MarkType ==
    ASSUME ProcOK, NEW p \in Procs, UNCHANGED st \/ \E s \in ItemStatus : Mark(p, s)
    PROVE  st' \in [Procs -> [Items -> ItemStatus]]
  <1>1. CASE UNCHANGED st
    BY <1>1 DEF ProcOK
  <1>2. ASSUME NEW s \in ItemStatus, Mark(p, s)
        PROVE  st' \in [Procs -> [Items -> ItemStatus]]
    BY <1>2 DEF ProcOK, Mark
  <1>. QED
    BY <1>1, <1>2

\* A step to another label of the same command keeps its memory typed.
LEMMA GotoProcOK ==
    ASSUME ProcOK, NEW p \in Procs, pc[p] # "idle", NEW label \in Pcs \ {"idle"},
           Goto(p, label), UNCHANGED <<at, cur>>,
           UNCHANGED st \/ \E s \in ItemStatus : Mark(p, s)
    PROVE  ProcOK'
  BY MarkType DEF ProcOK, Occupied, Goto

\* So does a step of a command's loop over its items.
LEMMA NextItemProcOK ==
    ASSUME ProcOK, NEW p \in Procs, pc[p] # "idle",
           NEW loop \in Pcs \ {"idle"}, NEW exit \in Pcs \ {"idle"},
           NextItem(p, loop, exit),
           UNCHANGED st \/ \E s \in ItemStatus : Mark(p, s)
    PROVE  ProcOK'
  <1>1. at[p] \in Items /\ (at[p] # N => at[p] + 1 \in Items) /\ 1 \in Items
    BY DEF ProcOK
  <1>. QED
    BY <1>1, MarkType DEF ProcOK, Occupied, NextItem, Goto

\* A process that works does so on a transaction.
LEMMA BusyHasTx ==
    ASSUME ProcOK, NEW p \in Procs, pc[p] # "idle"
    PROVE  cur[p] \in Txs
  BY DEF ProcOK, Occupied

\* The shared variables stay in their ranges.
SharedOK ==
    /\ clock \in Nat
    /\ orig \in [Items -> Content]
    /\ quar \in [Txs -> [Items -> Content]]
    /\ movedAt \in [Txs -> [Items -> Nat]]
    /\ manifest \in [Txs -> [Items -> ItemStatus \union {"NONE"}]]
    /\ row \in [Txs -> [status : TxStatus \union {"NONE"}, finished : Nat,
                        items : [Items -> ItemStatus]]]

\* Writing the manifests, or some of them, keeps them typed,
LEMMA WriteManifestsType ==
    ASSUME SharedOK, ProcOK, NEW p \in Procs, cur[p] \in Txs, NEW k \in Written,
           WriteManifests(p, k)
    PROVE  manifest' \in [Txs -> [Items -> ItemStatus \union {"NONE"}]]
  <1>1. manifest[cur[p]] \in [Items -> ItemStatus \union {"NONE"}]
    BY DEF SharedOK
  <1>2. [i \in Items |-> IF ManifestOf[i] <= k THEN st[p][i] ELSE manifest[cur[p]][i]]
           \in [Items -> ItemStatus \union {"NONE"}]
    BY <1>1 DEF ProcOK
  <1>. QED
    BY <1>2 DEF SharedOK, WriteManifests

\* and writing a row keeps the database typed.
LEMMA WriteRowType ==
    ASSUME SharedOK, ProcOK, NEW p \in Procs, NEW s \in TxStatus, WriteRow(p, s)
    PROVE  row' \in [Txs -> [status : TxStatus \union {"NONE"}, finished : Nat,
                             items : [Items -> ItemStatus]]]
  BY DEF SharedOK, ProcOK, WriteRow

------------------------------------------------------------------------------
(* Type correctness.                                                        *)

\* The type invariant parts into what processes share and what they remember.
LEMMA TypeSplit == (TypeOK /\ Occupied) <=> (SharedOK /\ ProcOK)
  BY DEF TypeOK, SharedOK, ProcOK

\* Every step keeps the memory of the processes typed,
LEMMA ProcStep ==
    ASSUME SharedOK, ProcOK, [Next]_vars
    PROVE  ProcOK'
  <1>. USE DEF Pcs, CleanPcs, RestorePcs, PurgePcs, ItemStatus
  <1>1. ASSUME NEW p \in Procs, CleanBegin(p) \/ RestoreBegin(p) \/ PurgeBegin(p)
        PROVE  ProcOK'
    <2>1. PICK t \in Txs, items \in [Items -> ItemStatus],
               label \in {"validate", "lstatQuarantine", "load"} :
             Begin(p, t, items, label)
      BY <1>1 DEF CleanBegin, RestoreBegin, PurgeBegin, Pending, SharedOK
    <2>. QED
      BY <2>1, BeginProcOK
  <1>2. ASSUME NEW p \in Procs, CleanStep(p)
        PROVE  ProcOK'
    <2>1. CASE CleanValidate(p)
      BY <2>1, NextItemProcOK DEF CleanValidate
    <2>2. CASE CleanPrepare(p)
      BY <2>2, GotoProcOK, EndProcOK DEF CleanPrepare
    <2>3. CASE CleanLeave(p)
      BY <2>3, NextItemProcOK DEF CleanLeave
    <2>4. CASE CleanMove(p)
      BY <2>4, GotoProcOK DEF CleanMove
    <2>5. CASE CleanLog(p)
      BY <2>5, NextItemProcOK DEF CleanLog
    <2>6. CASE CleanRecord(p)
      BY <2>6, EndProcOK DEF CleanRecord
    <2>. QED
      BY <1>2, <2>1, <2>2, <2>3, <2>4, <2>5, <2>6 DEF CleanStep
  <1>3. ASSUME NEW p \in Procs, RestoreStep(p)
        PROVE  ProcOK'
    <2>1. CASE RestoreLstatQuarantine(p)
      BY <2>1, NextItemProcOK, GotoProcOK DEF RestoreLstatQuarantine
    <2>2. CASE RestoreLstatOriginal(p)
      BY <2>2, NextItemProcOK, GotoProcOK DEF RestoreLstatOriginal
    <2>3. CASE RestoreFail(p)
      BY <2>3, NextItemProcOK DEF RestoreFail
    <2>4. CASE RestoreRename(p)
      BY <2>4, GotoProcOK DEF RestoreRename
    <2>5. CASE RestoreLog(p)
      BY <2>5, NextItemProcOK DEF RestoreLog
    <2>6. CASE RestoreRecord(p)
      BY <2>6, EndProcOK DEF RestoreRecord
    <2>. QED
      BY <1>3, <2>1, <2>2, <2>3, <2>4, <2>5, <2>6 DEF RestoreStep
  <1>4. ASSUME NEW p \in Procs, PurgeStep(p)
        PROVE  ProcOK'
    <2>1. CASE PurgeCheck(p)
      BY <2>1, NextItemProcOK, GotoProcOK DEF PurgeCheck
    <2>2. CASE PurgeRemove(p)
      BY <2>2, NextItemProcOK DEF PurgeRemove, procVars, ProcOK, Occupied
    <2>3. CASE PurgeRecord(p)
      BY <2>3, GotoProcOK, EndProcOK DEF PurgeRecord
    <2>4. CASE PurgeUnlink(p)
      BY <2>4, EndProcOK DEF PurgeUnlink
    <2>5. CASE PurgeLoad(p)
      <3>1. row[cur[p]].items \in [Items -> ItemStatus]
        BY <2>5, BusyHasTx DEF PurgeLoad, SharedOK
      <3>2. st' \in [Procs -> [Items -> ItemStatus]]
        BY <2>5, <3>1 DEF PurgeLoad, ProcOK
      <3>. QED
        BY <2>5, <3>2 DEF PurgeLoad, ProcOK, Occupied, Goto
    <2>. QED
      BY <1>4, <2>1, <2>2, <2>3, <2>4, <2>5 DEF PurgeStep
  <1>5. ASSUME NEW p \in Procs, Crash(p)
        PROVE  ProcOK'
    BY <1>5, EndProcOK DEF Crash
  <1>6. ASSUME UNCHANGED procVars
        PROVE  ProcOK'
    BY <1>6 DEF procVars, ProcOK, Occupied
  <1>. QED
    BY <1>1, <1>2, <1>3, <1>4, <1>5, <1>6
    DEF Next, Run, Outside, Tamper, Tick, vars

\* and the disk and the database.
LEMMA SharedStep ==
    ASSUME SharedOK, ProcOK, [Next]_vars
    PROVE  SharedOK'
  <1>. USE DEF diskVars
  <1>1. ASSUME NEW p \in Procs,
               \/ CleanBegin(p) \/ RestoreBegin(p) \/ PurgeBegin(p)
               \/ CleanValidate(p) \/ CleanLeave(p)
               \/ RestoreLstatQuarantine(p) \/ RestoreLstatOriginal(p) \/ RestoreFail(p)
               \/ PurgeLoad(p) \/ PurgeCheck(p) \/ Crash(p)
        PROVE  SharedOK'
    BY <1>1 DEF SharedOK, CleanBegin, RestoreBegin, PurgeBegin, CleanValidate, CleanLeave,
                RestoreLstatQuarantine, RestoreLstatOriginal, RestoreFail, PurgeLoad, PurgeCheck, Crash
  <1>2. ASSUME NEW p \in Procs, CleanPrepare(p) \/ CleanLog(p) \/ RestoreLog(p)
        PROVE  SharedOK'
    <2>1. pc[p] # "idle" /\ \E k \in Written : WriteManifests(p, k)
      BY <1>2 DEF CleanPrepare, CleanLog, RestoreLog
    <2>2. manifest' \in [Txs -> [Items -> ItemStatus \union {"NONE"}]]
      BY <2>1, BusyHasTx, WriteManifestsType
    <2>. QED
      BY <1>2, <2>2 DEF SharedOK, CleanPrepare, CleanLog, RestoreLog
  <1>3. ASSUME NEW p \in Procs, CleanMove(p) \/ RestoreRename(p) \/ PurgeRemove(p)
        PROVE  SharedOK'
    <2>1. cur[p] \in Txs /\ at[p] \in Items
      BY <1>3, BusyHasTx DEF CleanMove, RestoreRename, PurgeRemove, ProcOK
    <2>2. Original(p) \in Content /\ Quarantine(p) \in Content
      BY <2>1 DEF SharedOK, Original, Quarantine
    <2>3. "none" \in Content /\ "partial" \in Content
      BY DEF Content, Tree
    <2>4. CASE CleanMove(p)
      BY <2>1, <2>2, <2>3, <2>4 DEF CleanMove, SharedOK
    <2>5. CASE RestoreRename(p)
      BY <2>1, <2>2, <2>3, <2>5 DEF RestoreRename, SharedOK
    <2>6. CASE PurgeRemove(p)
      <3>1. \/ quar' = quar
            \/ quar' = [quar EXCEPT ![cur[p]][at[p]] = "partial"]
            \/ quar' = [quar EXCEPT ![cur[p]][at[p]] = "none"]
        BY <2>6 DEF PurgeRemove
      <3>2. quar' \in [Txs -> [Items -> Content]]
        <4>1. ASSUME NEW c \in Content, quar' = [quar EXCEPT ![cur[p]][at[p]] = c]
              PROVE  quar' \in [Txs -> [Items -> Content]]
          BY <2>1, <4>1 DEF SharedOK
        <4>. QED
          BY <2>3, <3>1, <4>1 DEF SharedOK
      <3>. QED
        BY <2>6, <3>2 DEF PurgeRemove, SharedOK
    <2>. QED
      BY <1>3, <2>4, <2>5, <2>6
  <1>4. ASSUME NEW p \in Procs, CleanRecord(p) \/ RestoreRecord(p) \/ PurgeRecord(p)
        PROVE  SharedOK'
    <2>1. row' = row \/ \E s \in TxStatus : WriteRow(p, s)
      <3>1. Summary(st[p], "MOVED", "QUARANTINED", "PARTIALLY_QUARANTINED") \in TxStatus
        BY DEF Summary, TxStatus
      <3>2. Summary(st[p], "RESTORED", "RESTORED", "PARTIALLY_RESTORED") \in TxStatus
        BY DEF Summary, TxStatus
      <3>3. PurgeStatus(st[p]) \in TxStatus
        BY DEF PurgeStatus, TxStatus
      <3>. QED
        BY <1>4, <3>1, <3>2, <3>3 DEF CleanRecord, RestoreRecord, PurgeRecord
    <2>2. row' \in [Txs -> [status : TxStatus \union {"NONE"}, finished : Nat,
                            items : [Items -> ItemStatus]]]
      BY <2>1, WriteRowType DEF SharedOK
    <2>. QED
      BY <1>4, <2>2 DEF SharedOK, CleanRecord, RestoreRecord, PurgeRecord
  <1>5. ASSUME NEW p \in Procs, PurgeUnlink(p)
        PROVE  SharedOK'
    <2>1. cur[p] \in Txs
      BY <1>5, BusyHasTx DEF PurgeUnlink
    <2>2. manifest[cur[p]] \in [Items -> ItemStatus \union {"NONE"}]
      BY <2>1 DEF SharedOK
    <2>. QED
      BY <1>5, <2>1, <2>2 DEF PurgeUnlink, SharedOK
  <1>6. ASSUME NEW i \in Items, Outside(i)
        PROVE  SharedOK'
    BY <1>6 DEF Outside, SharedOK, Content, Tree
  <1>7. ASSUME NEW t \in Txs, NEW i \in Items, Tamper(t, i)
        PROVE  SharedOK'
    BY <1>7 DEF Tamper, SharedOK, Content, Tree
  <1>8. ASSUME Tick
        PROVE  SharedOK'
    BY <1>8 DEF Tick, SharedOK
  <1>9. ASSUME UNCHANGED vars
        PROVE  SharedOK'
    BY <1>9 DEF vars, SharedOK
  <1>. QED
    BY <1>1, <1>2, <1>3, <1>4, <1>5, <1>6, <1>7, <1>8, <1>9
    DEF Next, Run, CleanStep, RestoreStep, PurgeStep

\* Both are typed at the start.
LEMMA InitTyped == Init => SharedOK /\ ProcOK
  BY DEF Init, SharedOK, ProcOK, Occupied, NoRow, Pending, Content, Tree, Pcs, ItemStatus

\* The variables stay in their ranges, whatever fails or interleaves.
THEOREM TypeCorrect == Spec => []TypeOK
  <1>1. Init => SharedOK /\ ProcOK
    BY InitTyped
  <1>2. SharedOK /\ ProcOK /\ [Next]_vars => (SharedOK /\ ProcOK)'
    BY SharedStep, ProcStep
  <1>3. SharedOK /\ ProcOK => TypeOK
    BY TypeSplit
  <1>. QED
    BY <1>1, <1>2, <1>3, PTL DEF Spec

HIDE CleanupAssumption DEF Items

------------------------------------------------------------------------------
(* The inductive invariant.                                                 *)

\* The conjuncts of IInv about processes, and those about what they share.
ProcInv   == Ownership /\ Cleaning /\ MemorySound /\ Purging /\ Restoring /\ Retained
SharedInv == /\ PurgeableRows /\ OtherRows /\ PurgedRows
             /\ ManifestCovers /\ RecordSound /\ ClosedIsEmpty

Typed == SharedOK /\ ProcOK

\* The parts of the invariant: types, how far the loops are, what processes know, what
\* is shared.
LEMMA IInvSplit == IInv <=> Typed /\ Advanced /\ ProcInv /\ SharedInv
  BY TypeSplit DEF IInv, Typed, ProcInv, SharedInv

\* The invariant holds before any command has run.
LEMMA InitInv == Init => IInv
  <1>. SUFFICES ASSUME Init PROVE IInv
    OBVIOUS
  <1>1. Typed
    BY InitTyped DEF Typed
  <1>2. ProcInv
    BY DEF Init, ProcInv, Ownership, Cleaning, MemorySound, Purging, Restoring, Retained,
           CleanPcs, RestorePcs, PurgePcs, CleaningPcs, PurgingPcs, NoRow, Pending
  <1>3. SharedInv
    BY DEF Init, SharedInv, PurgeableRows, OtherRows, PurgedRows, HasPurged, ManifestCovers,
           RecordSound, ClosedIsEmpty, NoRow, Pending
  <1>4. Advanced
    BY DEF Init, Advanced, Passed
  <1>. QED
    BY <1>1, <1>2, <1>3, <1>4, IInvSplit

\* Types, from CleanupProofs.
LEMMA TypedStep == Typed /\ [Next]_vars => Typed'
  BY ProcStep, SharedStep DEF Typed

------------------------------------------------------------------------------
(* What the shared helpers do, point by point.                              *)

\* A step that leaves quarantine, manifests and rows alone leaves SharedInv.
LEMMA SharedUndisturbed ==
    ASSUME SharedInv, UNCHANGED <<quar, manifest, row>>
    PROVE  SharedInv'
  BY DEF SharedInv, PurgeableRows, OtherRows, PurgedRows, ManifestCovers, RecordSound, ClosedIsEmpty

\* What writing a row changes: the row of the process's own transaction;
LEMMA WriteRowEffect ==
    ASSUME Typed, NEW p \in Procs, pc[p] # "idle", NEW s, WriteRow(p, s)
    PROVE  \A t \in Txs :
               row'[t] = IF t = cur[p]
                         THEN [status |-> s, finished |-> clock, items |-> st[p]]
                         ELSE row[t]
  BY DEF Typed, SharedOK, WriteRow

\* writing manifests: statuses of its own transaction, to those in its memory;
LEMMA WriteManifestsEffect ==
    ASSUME Typed, NEW p \in Procs, pc[p] # "idle", NEW k, WriteManifests(p, k)
    PROVE  \A t \in Txs, i \in Items :
               \/ manifest'[t][i] = manifest[t][i]
               \/ t = cur[p] /\ manifest'[t][i] = st[p][i]
  BY DEF Typed, SharedOK, WriteManifests

\* marking an item: one status in the memory of one process;
LEMMA MarkEffect ==
    ASSUME Typed, NEW p \in Procs, NEW s, Mark(p, s)
    PROVE  \A q \in Procs, i \in Items :
               st'[q][i] = IF q = p /\ i = at[p] THEN s ELSE st[q][i]
  BY DEF Typed, ProcOK, Mark

\* going on to the next item: where one process is.
LEMMA NextItemEffect ==
    ASSUME Typed, NEW p \in Procs, NEW loop, NEW exit, NextItem(p, loop, exit)
    PROVE  /\ cur' = cur /\ pc'[p] \in {loop, exit}
           /\ \A q \in Procs \ {p} : pc'[q] = pc[q]
  BY DEF Typed, ProcOK, NextItem, Goto

\* An exiting process takes its knowledge with it and disturbs no other.
LEMMA EndEffect ==
    ASSUME Typed, NEW p \in Procs, End(p)
    PROVE  /\ pc'[p] = "idle" /\ cur'[p] = NoTx
           /\ \A q \in Procs \ {p} :
                 pc'[q] = pc[q] /\ cur'[q] = cur[q] /\ st'[q] = st[q]
  BY DEF Typed, ProcOK, End, Goto

------------------------------------------------------------------------------
(* How far restore and purge are with their items.                          *)

\* The rest of a step of p: all that other processes do stays.
OthersStay(p) ==
    \A q \in Procs \ {p} : /\ pc'[q] = pc[q] /\ cur'[q] = cur[q]
                           /\ at'[q] = at[q] /\ st'[q] = st[q]

\* A mark, too, is of p's own.
LEMMA OwnMemory ==
    ASSUME Typed, NEW p \in Procs, UNCHANGED cur,
           UNCHANGED st \/ \E s : Mark(p, s),
           \/ \E label : Goto(p, label) /\ UNCHANGED at
           \/ \E loop, exit : NextItem(p, loop, exit)
    PROVE  OthersStay(p)
  <1>. USE DEF Typed, ProcOK
  <1>1. \A q \in Procs \ {p} : st'[q] = st[q]
    BY DEF Mark
  <1>2. \A q \in Procs \ {p} : pc'[q] = pc[q] /\ at'[q] = at[q]
    BY DEF NextItem, Goto
  <1>. QED
    BY <1>1, <1>2 DEF OthersStay

\* Where a restore or purge goes through the items.
LoopPcs == {"lstatQuarantine", "lstatOriginal", "rename", "check", "remove", "logRestore"}

\* A step to the next item, or out of the loop, passes one item.
LEMMA NextItemPasses ==
    ASSUME Typed, NEW p \in Procs, pc[p] \in LoopPcs,
           NEW loop \in {"lstatQuarantine", "check"},
           NEW exit \in {"recordRestore", "recordPurge"}, NextItem(p, loop, exit)
    PROVE  /\ \A i \in Items : Passed(p, i)' => i = at[p] \/ Passed(p, i)
           /\ pc'[p] \in {loop, exit}
  <1>. USE DEF Typed, ProcOK, Items
  <1>1. at[p] \in 1 .. N /\ N \in Nat
    BY CleanupAssumption
  <1>2. \A i \in Items : i < at[p] => Passed(p, i)
    BY <1>1 DEF Passed, LoopPcs
  <1>3. CASE at[p] = N
    <2>1. pc'[p] = exit
      BY <1>3 DEF NextItem, Goto
    <2>2. \A i \in Items : i = at[p] \/ i < at[p]
      BY <1>1, <1>3
    <2>. QED
      BY <1>2, <2>1, <2>2
  <1>4. CASE at[p] # N
    <2>1. pc'[p] = loop /\ at'[p] = at[p] + 1
      BY <1>4 DEF NextItem, Goto
    <2>2. \A i \in Items : i < at[p] + 1 => i = at[p] \/ i < at[p]
      BY <1>1
    <2>3. \A i \in Items : Passed(p, i)' => i < at[p] + 1
      BY <2>1 DEF Passed
    <2>. QED
      BY <1>2, <2>1, <2>2, <2>3
  <1>. QED
    BY <1>3, <1>4

\* An item that is passed is not left as moved.
LEMMA PassingAdvances ==
    ASSUME Typed, Advanced, NEW p \in Procs, pc[p] \in LoopPcs, OthersStay(p),
           NEW loop \in {"lstatQuarantine", "check"},
           NEW exit \in {"recordRestore", "recordPurge"}, NextItem(p, loop, exit),
           \A i \in Items : IF i = at[p] THEN st'[p][i] # "MOVED" ELSE st'[p][i] = st[p][i]
    PROVE  Advanced'
  <1>1. \A i \in Items : Passed(p, i)' => i = at[p] \/ Passed(p, i)
    BY NextItemPasses
  <1>2. pc'[p] \notin {"idle", "load", "lstatOriginal", "rename", "remove"}
    BY NextItemEffect
  <1>. QED
    BY <1>1, <1>2 DEF Advanced, Passed, OthersStay

\* A step that leads out of the loops, or past them, leaves nothing to say.
LEMMA ElsewhereAdvances ==
    ASSUME Advanced, NEW p \in Procs, OthersStay(p),
           pc'[p] \in CleanPcs \union {"idle", "load", "unlink"},
           pc'[p] \in {"idle", "load"} => at'[p] = 1
    PROVE  Advanced'
  BY DEF Advanced, Passed, OthersStay, CleanPcs

\* A step to the first item has passed none,
LEMMA EnteringAdvances ==
    ASSUME Advanced, NEW p \in Procs, OthersStay(p),
           pc'[p] \in {"lstatQuarantine", "check"}, at'[p] = 1
    PROVE  Advanced'
  <1>1. \A i \in Items : ~(i < 1)
    BY DEF Items
  <1>. QED
    BY <1>1 DEF Advanced, Passed, OthersStay

\* nor has one that goes on with the same item.
LEMMA LookingAdvances ==
    ASSUME Typed, Advanced, NEW p \in Procs, UNCHANGED <<cur, at, st>>,
           \/ pc[p] = "lstatQuarantine" /\ Goto(p, "lstatOriginal") /\ st[p][at[p]] \in Restorable
           \/ pc[p] = "lstatOriginal" /\ Goto(p, "rename") /\ st[p][at[p]] \in Restorable
           \/ pc[p] = "check" /\ Goto(p, "remove") /\ st[p][at[p]] = "MOVED"
    PROVE  Advanced'
  <1>1. OthersStay(p) /\ pc'[p] \in {"lstatOriginal", "rename", "remove"}
    BY OwnMemory DEF Goto, Typed, ProcOK
  <1>2. \A i \in Items : Passed(p, i)' => Passed(p, i)
    BY DEF Passed, Goto, Typed, ProcOK
  <1>. QED
    BY <1>1, <1>2 DEF Advanced, OthersStay, Passed, Goto, Typed, ProcOK

\* A restore marks the item it looks at, or looks further,
LEMMA RestoreAdvances ==
    ASSUME Typed, Advanced, NEW p \in Procs,
           \/ RestoreLstatQuarantine(p) \/ RestoreLstatOriginal(p) \/ RestoreFail(p)
           \/ RestoreRename(p) \/ RestoreLog(p)
    PROVE  Advanced'
  <1>1. at[p] \in Items /\ at[p] <= at[p] /\ pc[p] \in LoopPcs
    BY CleanupAssumption
    DEF Typed, ProcOK, Items, LoopPcs, RestoreLstatQuarantine, RestoreLstatOriginal, RestoreFail,
        RestoreRename, RestoreLog
  <1>. DEFINE Passes == /\ NextItem(p, "lstatQuarantine", "recordRestore")
                        /\ \/ UNCHANGED st /\ st[p][at[p]] # "MOVED"
                           \/ \E s \in {"SKIPPED", "FAILED"} : Mark(p, s)
              Looks == /\ UNCHANGED <<cur, at, st>> /\ st[p][at[p]] \in Restorable
                       /\ \/ pc[p] = "lstatQuarantine" /\ Goto(p, "lstatOriginal")
                          \/ pc[p] = "lstatOriginal" /\ Goto(p, "rename")
  <1>2. ASSUME Passes
        PROVE  Advanced'
    <2>1. OthersStay(p)
      BY <1>2, OwnMemory DEF NextItem
    <2>2. \A i \in Items : IF i = at[p] THEN st'[p][i] # "MOVED" ELSE st'[p][i] = st[p][i]
      BY <1>1, <1>2, MarkEffect
    <2>. QED
      BY <1>1, <1>2, <2>1, <2>2, PassingAdvances
  <1>3. ASSUME Looks
        PROVE  Advanced'
    BY <1>3, LookingAdvances
  <1>4. CASE RestoreLstatQuarantine(p)
    <2>1. Passes \/ Looks
      BY <1>4 DEF RestoreLstatQuarantine, Status, Restorable
    <2>. QED
      BY <1>2, <1>3, <2>1
  <1>5. CASE RestoreLstatOriginal(p)
    <2>1. st[p][at[p]] \in Restorable
      BY <1>1, <1>5 DEF RestoreLstatOriginal, Advanced
    <2>2. Passes \/ Looks
      BY <1>5, <2>1 DEF RestoreLstatOriginal
    <2>. QED
      BY <1>2, <1>3, <2>2
  <1>6. CASE RestoreFail(p)
    BY <1>2, <1>6 DEF RestoreFail
  <1>7. CASE RestoreRename(p)
    <2>1. /\ pc[p] = "rename" /\ UNCHANGED <<cur, at>> /\ Goto(p, "logRestore") /\ Mark(p, "RESTORED")
      BY <1>7 DEF RestoreRename
    <2>2. OthersStay(p) /\ pc'[p] = "logRestore"
      BY <2>1, OwnMemory DEF Goto, Typed, ProcOK
    <2>3. \A i \in Items : st'[p][i] = IF i = at[p] THEN "RESTORED" ELSE st[p][i]
      BY <2>1, MarkEffect
    <2>4. \A i \in Items : Passed(p, i)' => i = at[p] \/ Passed(p, i)
      <3>1. \A i \in Items : i <= at[p] => i = at[p] \/ i < at[p]
        BY <1>1, CleanupAssumption DEF Items
      <3>. QED
        BY <2>1, <2>2, <3>1 DEF Passed
    <2>. QED
      BY <2>2, <2>3, <2>4 DEF Advanced, OthersStay, Passed
  <1>8. CASE RestoreLog(p)
    <2>1. st[p][at[p]] # "MOVED"
      BY <1>1, <1>8 DEF RestoreLog, Advanced, Passed
    <2>. QED
      BY <1>2, <1>8, <2>1 DEF RestoreLog
  <1>. QED
    BY <1>4, <1>5, <1>6, <1>7, <1>8

\* and a purge the item it checks or removes.
LEMMA PurgeAdvances ==
    ASSUME Typed, Advanced, NEW p \in Procs, PurgeCheck(p) \/ PurgeRemove(p)
    PROVE  Advanced'
  <1>1. at[p] \in Items /\ pc[p] \in LoopPcs
    BY DEF Typed, ProcOK, LoopPcs, PurgeCheck, PurgeRemove
  <1>. DEFINE Passes == /\ NextItem(p, "check", "recordPurge")
                        /\ \/ UNCHANGED st /\ st[p][at[p]] # "MOVED"
                           \/ \E s \in {"PURGED", "FAILED"} : Mark(p, s)
              Looks == /\ UNCHANGED <<cur, at, st>> /\ st[p][at[p]] = "MOVED"
                       /\ pc[p] = "check" /\ Goto(p, "remove")
  <1>2. ASSUME Passes
        PROVE  Advanced'
    <2>1. OthersStay(p)
      BY <1>2, OwnMemory DEF NextItem
    <2>2. \A i \in Items : IF i = at[p] THEN st'[p][i] # "MOVED" ELSE st'[p][i] = st[p][i]
      BY <1>1, <1>2, MarkEffect
    <2>. QED
      BY <1>1, <1>2, <2>1, <2>2, PassingAdvances
  <1>3. ASSUME UNCHANGED procVars
        PROVE  Advanced'
    BY <1>3 DEF procVars, Advanced, Passed
  <1>4. Passes \/ Looks \/ UNCHANGED procVars
    BY Zenon DEF PurgeCheck, PurgeRemove, Status
  <1>. QED
    BY <1>2, <1>3, <1>4, LookingAdvances

\* Every step keeps the account of what a restore or purge has passed.
LEMMA AdvancedStep ==
    ASSUME Typed, Advanced, [Next]_vars
    PROVE  Advanced'
  <1>1. ASSUME NEW p \in Procs,
               \/ CleanBegin(p) \/ PurgeBegin(p) \/ CleanStep(p) \/ RestoreRecord(p)
               \/ PurgeRecord(p) \/ PurgeUnlink(p) \/ Crash(p)
        PROVE  Advanced'
    <2>1. CASE CleanBegin(p) \/ PurgeBegin(p)
      <3>1. /\ OthersStay(p) /\ pc[p] = "idle" /\ UNCHANGED at
            /\ pc'[p] \in {"validate", "load"}
        BY <2>1 DEF CleanBegin, PurgeBegin, Begin, Goto, OthersStay, Typed, ProcOK
      <3>2. \E i \in Items : TRUE
        BY DEF Typed, ProcOK
      <3>. QED
        BY <3>1, <3>2, ElsewhereAdvances DEF Advanced, CleanPcs
    <2>2. CASE End(p)
      <3>1. OthersStay(p) /\ pc'[p] = "idle" /\ at'[p] = 1
        BY <2>2 DEF Typed, ProcOK, OthersStay, End, Goto
      <3>. QED
        BY <3>1, ElsewhereAdvances
    <2>3. CASE CleanValidate(p) \/ CleanLeave(p) \/ CleanMove(p) \/ CleanLog(p)
      <3>1. UNCHANGED cur /\ pc'[p] \in CleanPcs
        BY <2>3, NextItemEffect
        DEF CleanValidate, CleanLeave, CleanMove, CleanLog, CleanPcs, Goto, Typed, ProcOK
      <3>2. /\ UNCHANGED st \/ \E s : Mark(p, s)
            /\ \/ (\E label : Goto(p, label)) /\ UNCHANGED at
               \/ \E loop, exit : NextItem(p, loop, exit)
        BY <2>3 DEF CleanValidate, CleanLeave, CleanMove, CleanLog
      <3>3. OthersStay(p)
        BY <3>1, <3>2, OwnMemory
      <3>. QED
        BY <3>1, <3>3, ElsewhereAdvances DEF CleanPcs
    <2>4. CASE (Goto(p, "move") \/ Goto(p, "unlink")) /\ UNCHANGED <<cur, at, st>>
      <3>1. OthersStay(p) /\ pc'[p] \in {"move", "unlink"}
        BY <2>4, OwnMemory DEF Goto, Typed, ProcOK
      <3>. QED
        BY <3>1, ElsewhereAdvances DEF CleanPcs
    <2>. QED
      BY <1>1, <2>1, <2>2, <2>3, <2>4
      DEF CleanStep, CleanPrepare, CleanRecord, RestoreRecord, PurgeRecord, PurgeUnlink, Crash
  <1>2. ASSUME NEW p \in Procs, RestoreBegin(p) \/ PurgeLoad(p)
        PROVE  Advanced'
    <2>1. /\ OthersStay(p) /\ pc[p] \in {"idle", "load"} /\ UNCHANGED at
          /\ pc'[p] \in {"lstatQuarantine", "check"}
      BY <1>2 DEF RestoreBegin, PurgeLoad, Begin, Goto, OthersStay, Typed, ProcOK
    <2>2. \E i \in Items : TRUE
      BY DEF Typed, ProcOK
    <2>. QED
      BY <2>1, <2>2, EnteringAdvances DEF Advanced
  <1>3. ASSUME NEW p \in Procs, RestoreStep(p) /\ ~RestoreRecord(p)
        PROVE  Advanced'
    BY <1>3, RestoreAdvances DEF RestoreStep
  <1>4. ASSUME UNCHANGED procVars
        PROVE  Advanced'
    BY <1>4 DEF procVars, Advanced, Passed
  <1>5. (\E i \in Items : Outside(i)) \/ (\E t \in Txs, i \in Items : Tamper(t, i)) \/ Tick
           \/ UNCHANGED vars => UNCHANGED procVars
    BY DEF Outside, Tamper, Tick, vars
  <1>. QED
    BY <1>1, <1>2, <1>3, <1>4, <1>5, PurgeAdvances
    DEF Next, Run, CleanStep, RestoreStep, PurgeStep

\* What another process knows of quarantine outlives a step of p that puts nothing
\* into the quarantine that process looks at: p itself is not purging after it,
LEMMA PurgingElsewhere ==
    ASSUME Typed, Purging, NEW p \in Procs,
           \A q \in Procs \ {p} : pc'[q] = pc[q] /\ cur'[q] = cur[q] /\ st'[q] = st[q],
           \A q \in Procs \ {p}, i \in Items :
               pc[q] # "idle" /\ quar'[cur[q]][i] # "none" => quar[cur[q]][i] # "none",
           pc'[p] \notin PurgingPcs \union {"unlink"}
    PROVE  Purging'
  BY DEF Purging, PurgingPcs

\* or not restoring.
LEMMA RestoringElsewhere ==
    ASSUME Typed, Restoring, NEW p \in Procs,
           \A q \in Procs \ {p} : pc'[q] = pc[q] /\ cur'[q] = cur[q] /\ st'[q] = st[q],
           \A q \in Procs \ {p}, i \in Items :
               pc[q] # "idle" /\ quar'[cur[q]][i] # "none" => quar[cur[q]][i] # "none",
           pc'[p] \notin RestorePcs
    PROVE  Restoring'
  BY DEF Restoring, RestorePcs

\* A restore that is still on its way knows what it knew, when it marks an item that
\* it may restore, or one that has left quarantine.
LEMMA RestoringGoesOn ==
    ASSUME Typed, Restoring, NEW p \in Procs, pc[p] \in RestorePcs, UNCHANGED cur,
           \A q \in Procs \ {p} : pc'[q] = pc[q] /\ st'[q] = st[q],
           \A q \in Procs, i \in Items :
               pc[q] # "idle" /\ quar'[cur[q]][i] # "none" => quar[cur[q]][i] # "none",
           \A i \in Items : \/ st'[p][i] = st[p][i]
                            \/ st'[p][i] = "FAILED"
                            \/ st[p][i] \in Restorable /\ st'[p][i] # "PURGED"
                            \/ quar'[cur[p]][i] = "none" /\ st'[p][i] # "PURGED"
    PROVE  Restoring'
  <1>1. HasPurged(st'[p]) => HasPurged(st[p])
    BY DEF HasPurged
  <1>. QED
    BY <1>1 DEF Restoring, RestorePcs, Restorable

------------------------------------------------------------------------------
(* The steps that touch only the memory of one process.                     *)

\* Steps that change nothing but what one process remembers.
LEMMA MemorySteps ==
    ASSUME Typed, Advanced, ProcInv, NEW p \in Procs,
           \/ CleanValidate(p) \/ CleanLeave(p)
           \/ RestoreLstatQuarantine(p) \/ RestoreLstatOriginal(p) \/ RestoreFail(p)
           \/ PurgeCheck(p)
    PROVE  ProcInv'
  <1>a. ASSUME UNCHANGED <<quar, cur>>, \A q \in Procs \ {p} : pc'[q] = pc[q] /\ st'[q] = st[q],
               pc'[p] \in CleanPcs \union RestorePcs
        PROVE  Purging'
    BY <1>a, PurgingElsewhere DEF ProcInv, PurgingPcs, CleanPcs, RestorePcs
  <1>b. ASSUME UNCHANGED <<quar, cur>>, \A q \in Procs \ {p} : pc'[q] = pc[q] /\ st'[q] = st[q],
               pc'[p] \in CleanPcs \union PurgePcs
        PROVE  Restoring'
    BY <1>b, RestoringElsewhere DEF ProcInv, PurgePcs, CleanPcs, RestorePcs
  <1>c. OthersStay(p) /\ UNCHANGED <<quar, cur>> /\ \A q \in Procs \ {p} : pc'[q] = pc[q] /\ st'[q] = st[q]
    <2>1. UNCHANGED <<quar, cur>>
      BY DEF CleanValidate, CleanLeave, RestoreLstatQuarantine, RestoreLstatOriginal, RestoreFail,
             PurgeCheck, NextItem, diskVars
    <2>2. /\ UNCHANGED st \/ \E s : Mark(p, s)
          /\ \/ (\E label : Goto(p, label)) /\ UNCHANGED at
             \/ \E loop, exit : NextItem(p, loop, exit)
      BY DEF CleanValidate, CleanLeave, RestoreLstatQuarantine, RestoreLstatOriginal, RestoreFail,
             PurgeCheck
    <2>3. OthersStay(p)
      BY <2>1, <2>2, OwnMemory
    <2>. QED
      BY <2>1, <2>3 DEF OthersStay
  <1>d. ASSUME RestoreLstatOriginal(p) \/ RestoreFail(p)
        PROVE  Purging' /\ Restoring'
    <2>1. pc[p] \in {"lstatOriginal", "rename"} /\ at[p] \in Items
      BY <1>d DEF RestoreLstatOriginal, RestoreFail, Typed, ProcOK
    <2>2. st[p][at[p]] \in Restorable
      BY <2>1 DEF Advanced
    <2>3. UNCHANGED st \/ \E s \in {"SKIPPED", "FAILED"} : Mark(p, s)
      BY <1>d DEF RestoreLstatOriginal, RestoreFail
    <2>4. \A i \in Items : \/ st'[p][i] = st[p][i]
                           \/ i = at[p] /\ st'[p][i] \in {"SKIPPED", "FAILED"}
      BY <2>3, MarkEffect
    <2>5. Restoring'
      BY <1>c, <2>1, <2>2, <2>4, RestoringGoesOn DEF ProcInv, RestorePcs
    <2>6. pc'[p] \in RestorePcs
      BY <1>d, NextItemEffect DEF RestoreLstatOriginal, RestoreFail, RestorePcs, Goto, Typed, ProcOK
    <2>. QED
      BY <1>a, <1>c, <2>5, <2>6
  <1>. USE DEF Typed, SharedOK, ProcOK, Occupied, CleanPcs, RestorePcs, PurgePcs,
               CleaningPcs, PurgingPcs, Goto, Mark, NextItem, diskVars
  <1>. USE DEF ProcInv, Status, Restorable, Quarantine
  <1>1. CASE CleanValidate(p)
    <2>1. Ownership'
      BY <1>1 DEF Ownership, CleanValidate
    <2>2. Cleaning'
      BY <1>1 DEF Cleaning, CleanValidate
    <2>3. MemorySound'
      BY <1>1 DEF MemorySound, Cleaning, CleanValidate
    <2>. HIDE DEF Mark
    <2>7. pc'[p] \in CleanPcs
      BY <1>1 DEF CleanValidate
    <2>4. Purging'
      BY <1>a, <1>c, <2>7
    <2>5. Retained'
      BY <1>1 DEF Retained, CleanValidate
    <2>6. Restoring'
      BY <1>b, <1>c, <2>7
    <2>. QED
      BY <2>1, <2>2, <2>3, <2>4, <2>5, <2>6
  <1>2. CASE CleanLeave(p)
    <2>1. Ownership'
      BY <1>2 DEF Ownership, CleanLeave
    <2>2. Cleaning'
      BY <1>2 DEF Cleaning, CleanLeave
    <2>3. MemorySound'
      BY <1>2 DEF MemorySound, Cleaning, CleanLeave
    <2>. HIDE DEF Mark
    <2>7. pc'[p] \in CleanPcs
      BY <1>2 DEF CleanLeave
    <2>4. Purging'
      BY <1>a, <1>c, <2>7
    <2>5. Retained'
      BY <1>2 DEF Retained, CleanLeave
    <2>6. Restoring'
      BY <1>b, <1>c, <2>7
    <2>. QED
      BY <2>1, <2>2, <2>3, <2>4, <2>5, <2>6
  <1>3. CASE RestoreLstatQuarantine(p)
    <2>1. Ownership'
      BY <1>3 DEF Ownership, RestoreLstatQuarantine
    <2>2. Cleaning'
      BY <1>3 DEF Cleaning, RestoreLstatQuarantine
    <2>3. Retained'
      BY <1>3 DEF Retained, RestoreLstatQuarantine
    <2>. HIDE DEF Mark, NextItem
    <2>4. \A q \in Procs, i \in Items : st'[q][i] \in {st[q][i], "FAILED"}
      BY <1>3, MarkEffect DEF RestoreLstatQuarantine
    <2>5. /\ UNCHANGED <<quar, cur>> /\ pc[p] # "idle" /\ pc'[p] \in RestorePcs
          /\ \A q \in Procs \ {p} : pc'[q] = pc[q]
      BY <1>3, NextItemEffect DEF RestoreLstatQuarantine
    <2>6. MemorySound'
      BY <2>4, <2>5 DEF MemorySound
    <2>7. Purging'
      BY <1>a, <1>c, <2>5
    <2>9. Restoring'
      <3>1. pc[p] \in RestorePcs
        BY <1>3 DEF RestoreLstatQuarantine
      <3>2. \A i \in Items : st'[p][i] = st[p][i] \/ st'[p][i] = "FAILED"
        BY <2>4
      <3>. HIDE DEF RestorePcs, Restorable
      <3>. QED
        BY <1>c, <3>1, <3>2, RestoringGoesOn
    <2>. QED
      BY <2>1, <2>2, <2>3, <2>6, <2>7, <2>9
  <1>4. CASE RestoreLstatOriginal(p)
    <2>1. Ownership'
      BY <1>4 DEF Ownership, RestoreLstatOriginal
    <2>2. Cleaning'
      BY <1>4 DEF Cleaning, RestoreLstatOriginal
    <2>3. Purging'
      BY <1>4, <1>d
    <2>4. Retained'
      BY <1>4 DEF Retained, RestoreLstatOriginal
    <2>. HIDE DEF Mark, NextItem
    <2>5. \A q \in Procs, i \in Items : st'[q][i] \in {st[q][i], "FAILED", "SKIPPED"}
      BY <1>4, MarkEffect DEF RestoreLstatOriginal
    <2>6. /\ UNCHANGED <<quar, cur>> /\ pc[p] # "idle" /\ pc'[p] \in RestorePcs
          /\ \A q \in Procs \ {p} : pc'[q] = pc[q]
      BY <1>4, NextItemEffect DEF RestoreLstatOriginal
    <2>7. MemorySound'
      <3>. SUFFICES ASSUME NEW q \in Procs, NEW i \in Items,
                           pc'[q] # "idle", st'[q][i] \in {"RESTORED", "PURGED"}
                    PROVE  quar'[cur'[q]][i] = "none"
        BY DEF MemorySound
      <3>1. pc[q] # "idle" /\ st[q][i] = st'[q][i]
        BY <2>5, <2>6
      <3>. QED
        BY <2>6, <3>1 DEF MemorySound
    <2>8. Restoring'
      BY <1>4, <1>d
    <2>. QED
      BY <2>1, <2>2, <2>3, <2>4, <2>7, <2>8
  <1>5. CASE RestoreFail(p)
    <2>1. Ownership'
      BY <1>5 DEF Ownership, RestoreFail
    <2>2. Cleaning'
      BY <1>5 DEF Cleaning, RestoreFail
    <2>3. MemorySound'
      BY <1>5 DEF MemorySound, Cleaning, RestoreFail
    <2>4. Purging'
      BY <1>5, <1>d
    <2>5. Retained'
      BY <1>5 DEF Retained, RestoreFail
    <2>6. Restoring'
      BY <1>5, <1>d
    <2>. QED
      BY <2>1, <2>2, <2>3, <2>4, <2>5, <2>6
  <1>6. CASE PurgeCheck(p)
    <2>1. Ownership'
      BY <1>6 DEF Ownership, PurgeCheck
    <2>2. Cleaning'
      BY <1>6 DEF Cleaning, PurgeCheck
    <2>. HIDE DEF Mark, NextItem
    <2>7. \A q \in Procs, i \in Items : st'[q][i] = st[q][i] \/ (q = p /\ st'[q][i] = "FAILED")
      BY <1>6, MarkEffect DEF PurgeCheck
    <2>8. pc[p] = "check" /\ pc'[p] \in PurgingPcs
      BY <1>6, NextItemEffect DEF PurgeCheck
    <2>3. MemorySound'
      BY <1>c, <2>7, <2>8 DEF MemorySound
    <2>4. Purging'
      <3>1. ASSUME \A i \in Items : quar[cur[p]][i] # "none" => st[p][i] \in {"MOVED", "FAILED"}
            PROVE  \A i \in Items : quar[cur[p]][i] # "none" => st'[p][i] \in {"MOVED", "FAILED"}
        BY <2>7, <3>1
      <3>2. ASSUME \A i \in Items : st[p][i] \notin {"MOVED", "PURGED"}
            PROVE  \A i \in Items : st'[p][i] \notin {"MOVED", "PURGED"}
        BY <2>7, <3>2
      <3>3. pc[p] \in PurgingPcs /\ pc'[p] # "unlink"
        BY <2>8
      <3>4. /\ UNCHANGED <<quar, cur>> /\ \A q \in Procs \ {p} : pc'[q] = pc[q] /\ st'[q] = st[q]
            /\ Purging
        BY <1>c
      <3>. HIDE DEF PurgingPcs, ProcOK, Typed, ProcInv
      <3>. QED
        BY <3>1, <3>2, <3>3, <3>4 DEF Purging
    <2>5. Retained'
      BY <1>6 DEF Retained, PurgeCheck, NextItem
    <2>6. Restoring'
      BY <1>b, <1>c, <2>8
    <2>. QED
      BY <2>1, <2>2, <2>3, <2>4, <2>5, <2>6
  <1>. QED
    BY <1>1, <1>2, <1>3, <1>4, <1>5, <1>6

\* A crash loses what a process remembered.
LEMMA CrashStep ==
    ASSUME Typed, ProcInv, NEW p \in Procs, Crash(p)
    PROVE  ProcInv'
  <1>. USE EndEffect DEF Crash, diskVars, Occupied, Typed, ProcOK, CleanPcs, RestorePcs, PurgePcs,
                         CleaningPcs, PurgingPcs
  <1>1. Ownership'
    BY DEF ProcInv, Ownership
  <1>2. Cleaning'
    BY DEF ProcInv, Cleaning
  <1>3. MemorySound'
    BY DEF ProcInv, MemorySound
  <1>4. Purging'
    BY DEF ProcInv, Purging
  <1>5. Retained'
    BY DEF ProcInv, Retained
  <1>6. Restoring'
    BY DEF ProcInv, Restoring
  <1>. QED
    BY <1>1, <1>2, <1>3, <1>4, <1>5, <1>6 DEF ProcInv

------------------------------------------------------------------------------
(* Starting a command.                                                      *)

\* A clean begins with a transaction ID of its own,
LEMMA CleanBeginStep ==
    ASSUME Typed, ProcInv, SharedInv, NEW p \in Procs, CleanBegin(p)
    PROVE  ProcInv'
  <1>. USE DEF Typed, SharedOK, ProcOK, Occupied, CleanPcs, RestorePcs, PurgePcs,
               CleaningPcs, PurgingPcs, Goto, Mark, NextItem, diskVars
  <1>. USE DEF ProcInv, SharedInv, Begin, CleanBegin, Fresh, Pending, ManifestCovers
  <1>1. Ownership'
    BY DEF Ownership
  <1>2. Cleaning'
    BY DEF Cleaning, Ownership
  <1>3. MemorySound'
    BY DEF MemorySound, Ownership
  <1>4. Purging'
    BY PurgingElsewhere DEF Ownership
  <1>5. Retained'
    BY DEF Retained, Ownership
  <1>6. Restoring'
    BY DEF Restoring, Ownership
  <1>. QED
    BY <1>1, <1>2, <1>3, <1>4, <1>5, <1>6

\* a restore with a copy of the row,
LEMMA RestoreBeginStep ==
    ASSUME Typed, ProcInv, SharedInv, NEW p \in Procs, RestoreBegin(p)
    PROVE  ProcInv'
  <1>. USE DEF Typed, SharedOK, ProcOK, Occupied, CleanPcs, RestorePcs, PurgePcs,
               CleaningPcs, PurgingPcs, Goto, Mark, NextItem, diskVars
  <1>. USE DEF ProcInv, SharedInv, Begin, RestoreBegin, RecordSound
  <1>1. Ownership'
    BY DEF Ownership
  <1>2. Cleaning'
    BY DEF Cleaning, Ownership
  <1>3. MemorySound'
    BY DEF MemorySound, Ownership
  <1>4. Purging'
    BY DEF Purging, Ownership
  <1>5. Retained'
    BY DEF Retained, Ownership
  <1>6. Restoring'
    BY DEF Restoring, Ownership, PurgedRows
  <1>. QED
    BY <1>1, <1>2, <1>3, <1>4, <1>5, <1>6

\* and a purge when the row admits it,
LEMMA PurgeBeginStep ==
    ASSUME Typed, ProcInv, SharedInv, NEW p \in Procs, PurgeBegin(p)
    PROVE  ProcInv'
  <1>. USE DEF Typed, SharedOK, ProcOK, Occupied, CleanPcs, RestorePcs, PurgePcs,
               CleaningPcs, PurgingPcs, Goto, Mark, NextItem, diskVars
  <1>. USE DEF ProcInv, SharedInv, Begin, PurgeBegin, Purgeable, Expired, Pending
  <1>1. Ownership'
    BY DEF Ownership
  <1>2. Cleaning'
    BY DEF Cleaning, Ownership
  <1>3. MemorySound'
    BY DEF MemorySound, Ownership
  <1>4. Purging'
    BY DEF Purging, Ownership
  <1>5. Retained'
    <2>1. PICK t \in Txs : /\ row[t].status \in Purgeable
                           /\ row[t].finished <= clock - Retention
                           /\ cur'[p] = t
      OBVIOUS
    <2>2. \A i \in Items : movedAt[t][i] <= row[t].finished
      BY <2>1 DEF Retained
    <2>3. \A i \in Items : movedAt[t][i] + Retention <= clock
      <3>1. row[t].finished \in Nat /\ clock \in Nat /\ \A i \in Items : movedAt[t][i] \in Nat
        OBVIOUS
      <3>. QED
        BY <2>1, <2>2, <3>1, CleanupAssumption
    <2>. QED
      BY <2>1, <2>3 DEF Retained
  <1>6. Restoring'
    BY DEF Restoring, Ownership
  <1>. QED
    BY <1>1, <1>2, <1>3, <1>4, <1>5, <1>6

\* with the items as they are found later.
LEMMA PurgeLoadStep ==
    ASSUME Typed, ProcInv, SharedInv, NEW p \in Procs, PurgeLoad(p)
    PROVE  ProcInv'
  <1>1. /\ pc[p] = "load" /\ pc'[p] = "check"
        /\ UNCHANGED <<clock, quar, movedAt, manifest, row, cur>>
        /\ \A q \in Procs \ {p} : pc'[q] = pc[q] /\ st'[q] = st[q]
        /\ st'[p] = row[cur[p]].items
    BY DEF PurgeLoad, Goto, diskVars, Typed, ProcOK
  <1>2. cur[p] \in Txs /\ row[cur[p]].status # "NONE"
    BY <1>1, BusyHasTx DEF Typed, ProcInv, Ownership, PurgePcs
  <1>3. Ownership'
    BY <1>1 DEF ProcInv, Ownership, CleanPcs, RestorePcs, PurgePcs
  <1>4. Cleaning'
    BY <1>1 DEF ProcInv, Cleaning, CleanPcs, CleaningPcs
  <1>5. MemorySound'
    BY <1>1, <1>2 DEF ProcInv, MemorySound, SharedInv, RecordSound
  <1>6. Purging'
    <2>1. \/ \A i \in Items : quar[cur[p]][i] # "none" => row[cur[p]].items[i] \in {"MOVED", "FAILED"}
          \/ \A i \in Items : row[cur[p]].items[i] \notin {"MOVED", "PURGED"}
      <3>1. CASE row[cur[p]].status \in Purgeable
        BY <1>2, <3>1 DEF SharedInv, PurgeableRows
      <3>2. CASE HasPurged(row[cur[p]].items)
        BY <1>2, <3>2 DEF SharedInv, PurgedRows
      <3>3. CASE row[cur[p]].status \notin Purgeable /\ ~HasPurged(row[cur[p]].items)
        BY <1>2, <3>3 DEF SharedInv, OtherRows, HasPurged
      <3>. QED
        BY <3>1, <3>2, <3>3
    <2>. QED
      BY <1>1, <2>1 DEF ProcInv, Purging, PurgingPcs
  <1>7. Restoring'
    BY <1>1 DEF ProcInv, Restoring, RestorePcs
  <1>8. Retained'
    BY <1>1 DEF ProcInv, Retained, PurgePcs
  <1>. QED
    BY <1>3, <1>4, <1>5, <1>6, <1>7, <1>8 DEF ProcInv

------------------------------------------------------------------------------
(* The steps that rename or delete trees.                                   *)

\* A tree is moved into quarantine, under a manifest that names it,
LEMMA CleanMoveStep ==
    ASSUME Typed, ProcInv, SharedInv, NEW p \in Procs, CleanMove(p)
    PROVE  ProcInv' /\ SharedInv'
  <1>. USE DEF Typed, SharedOK, ProcOK, Occupied, CleanPcs, RestorePcs, PurgePcs,
               CleaningPcs, PurgingPcs, Goto, Mark, NextItem, diskVars, ProcInv,
               SharedInv, Original, Quarantine, Status
  <1>. USE DEF CleanMove
  <1>1. Ownership'
    BY DEF Ownership
  <1>2. Cleaning'
    BY DEF Cleaning, Ownership
  <1>3. MemorySound'
    BY DEF MemorySound, Cleaning, Ownership
  <1>4. Purging'
    <2>1. \A q \in Procs \ {p} : cur[q] # cur[p]
      BY DEF Ownership
    <2>. QED
      BY <2>1, PurgingElsewhere
  <1>5. Retained'
    BY DEF Retained, Ownership
  <1>6. PurgeableRows'
    BY DEF PurgeableRows, Ownership, Purgeable
  <1>7. ManifestCovers'
    BY DEF ManifestCovers, Cleaning
  <1>8. RecordSound'
    BY DEF RecordSound, Ownership, Pending
  <1>9. ClosedIsEmpty'
    BY DEF ClosedIsEmpty, Ownership
  <1>10. Restoring'
    BY DEF Restoring, Ownership
  <1>11. OtherRows' /\ PurgedRows'
    BY DEF OtherRows, PurgedRows, HasPurged, Ownership, Pending
  <1>. QED
    BY <1>1, <1>2, <1>3, <1>4, <1>5, <1>6, <1>7, <1>8, <1>9, <1>10, <1>11

\* moved back out of it,
LEMMA RestoreRenameStep ==
    ASSUME Typed, ProcInv, SharedInv, NEW p \in Procs, RestoreRename(p)
    PROVE  ProcInv' /\ SharedInv'
  <1>. USE DEF Typed, SharedOK, ProcOK, Occupied, CleanPcs, RestorePcs, PurgePcs,
               CleaningPcs, PurgingPcs, Goto, Mark, NextItem, diskVars, ProcInv,
               SharedInv, Original, Quarantine, Status, CanRename
  <1>. USE DEF RestoreRename
  <1>1. Ownership'
    BY DEF Ownership
  <1>2. Cleaning'
    BY DEF Cleaning, Ownership
  <1>3. MemorySound'
    BY DEF MemorySound, Ownership
  <1>4. Purging'
    BY PurgingElsewhere
  <1>5. Retained'
    BY DEF Retained
  <1>6. PurgeableRows'
    BY DEF PurgeableRows
  <1>7. ManifestCovers'
    BY DEF ManifestCovers
  <1>8. RecordSound'
    BY DEF RecordSound
  <1>9. ClosedIsEmpty'
    BY DEF ClosedIsEmpty
  <1>10. Restoring'
    <2>1. \A q \in Procs : HasPurged(st'[q]) => HasPurged(st[q])
      BY DEF HasPurged
    <2>. QED
      BY <2>1 DEF Restoring
  <1>11. OtherRows' /\ PurgedRows'
    BY DEF OtherRows, PurgedRows
  <1>. QED
    BY <1>1, <1>2, <1>3, <1>4, <1>5, <1>6, <1>7, <1>8, <1>9, <1>10, <1>11

\* or removed, in whole or in part.
LEMMA PurgeRemoveStep ==
    ASSUME Typed, Advanced, ProcInv, SharedInv, NEW p \in Procs, PurgeRemove(p)
    PROVE  ProcInv' /\ SharedInv'
  <1>. USE DEF Typed, ProcOK, Occupied
  <1>1. \A q \in Procs : pc[q] # "idle" => cur[q] \in Txs
    OBVIOUS
  <1>2. /\ \A t \in Txs, i \in Items :
             quar'[t][i] # "none" => quar[t][i] # "none"
        /\ UNCHANGED <<clock, movedAt, manifest, row, cur>>
    <2>1. quar' = quar \/ quar' = [quar EXCEPT ![cur[p]][at[p]] = "none"]
          \/ /\ quar' = [quar EXCEPT ![cur[p]][at[p]] = "partial"]
             /\ quar[cur[p]][at[p]] # "none"
      BY DEF PurgeRemove, Quarantine
    <2>2. UNCHANGED <<clock, movedAt, manifest, row, cur>>
      BY DEF PurgeRemove, procVars, NextItem
    <2>3. ASSUME NEW c, quar' = [quar EXCEPT ![cur[p]][at[p]] = c],
                 c = "none" \/ quar[cur[p]][at[p]] # "none",
                 NEW t \in Txs, NEW i \in Items, quar'[t][i] # "none"
          PROVE  quar[t][i] # "none"
      BY <2>3 DEF SharedOK
    <2>. QED
      BY <2>1, <2>2, <2>3
  <1>3. \A q \in Procs, i \in Items :
            \/ st'[q][i] = st[q][i]
            \/ q = p /\ st'[q][i] = "FAILED"
            \/ q = p /\ st'[q][i] = "PURGED" /\ quar'[cur[p]][i] = "none"
    <2>1. CASE UNCHANGED procVars
      BY <2>1 DEF procVars
    <2>2. CASE Mark(p, "FAILED")
      BY <2>2, MarkEffect
    <2>3. CASE Mark(p, "PURGED") /\ quar' = [quar EXCEPT ![cur[p]][at[p]] = "none"]
      <3>1. cur[p] \in Txs /\ at[p] \in Items
        BY <1>1 DEF PurgeRemove
      <3>. QED
        BY <2>3, <3>1, MarkEffect DEF SharedOK
    <2>. QED
      BY <2>1, <2>2, <2>3 DEF PurgeRemove
  <1>4. /\ pc[p] = "remove" /\ pc'[p] \in PurgingPcs
        /\ \A q \in Procs \ {p} : pc'[q] = pc[q] /\ st'[q] = st[q]
    BY NextItemEffect DEF PurgeRemove, procVars, PurgingPcs, Mark
  <1>5. Ownership'
    BY <1>2, <1>4 DEF ProcInv, Ownership, CleanPcs, RestorePcs, PurgePcs, PurgingPcs
  <1>6. Cleaning'
    BY <1>1, <1>2, <1>4 DEF ProcInv, Cleaning, CleanPcs, CleaningPcs, PurgingPcs
  <1>7. MemorySound'
    BY <1>1, <1>2, <1>3, <1>4 DEF ProcInv, MemorySound
  <1>8. Purging'
    <2>1. ASSUME NEW q \in Procs, pc'[q] \in PurgingPcs
          PROVE  \/ \A i \in Items : quar'[cur[q]][i] # "none" => st'[q][i] \in {"MOVED", "FAILED"}
                 \/ \A i \in Items : st'[q][i] \notin {"MOVED", "PURGED"}
      <3>1. pc[q] \in PurgingPcs /\ cur[q] \in Txs
        BY <1>1, <1>4, <2>1 DEF PurgingPcs
      <3>2. CASE \A i \in Items : quar[cur[q]][i] # "none" => st[q][i] \in {"MOVED", "FAILED"}
        BY <1>2, <1>3, <3>1, <3>2
      <3>3. CASE \A i \in Items : st[q][i] \notin {"MOVED", "PURGED"}
        <4>1. at[p] \in Items /\ st[p][at[p]] = "MOVED"
          BY <1>4 DEF Advanced
        <4>2. q # p
          BY <3>3, <4>1
        <4>. QED
          BY <1>4, <3>3, <4>2
      <3>. QED
        BY <3>1, <3>2, <3>3 DEF ProcInv, Purging
    <2>2. ASSUME NEW q \in Procs, NEW i \in Items, pc'[q] = "unlink"
          PROVE  quar'[cur[q]][i] = "none"
      <3>1. pc[q] = "unlink" /\ cur[q] \in Txs
        BY <1>1, <1>4, <2>2 DEF PurgingPcs
      <3>. QED
        BY <1>2, <3>1 DEF ProcInv, Purging
    <2>. QED
      BY <1>2, <2>1, <2>2 DEF Purging
  <1>9. Retained'
    BY <1>2, <1>4 DEF ProcInv, Retained, PurgePcs, PurgingPcs
  <1>10. Restoring'
    <2>1. pc'[p] \notin RestorePcs
      BY <1>4 DEF RestorePcs, PurgingPcs
    <2>2. \A q \in Procs \ {p} : pc'[q] = pc[q] /\ cur'[q] = cur[q] /\ st'[q] = st[q]
      BY <1>2, <1>4
    <2>3. \A q \in Procs \ {p}, i \in Items :
              pc[q] # "idle" /\ quar'[cur[q]][i] # "none" => quar[cur[q]][i] # "none"
      BY <1>1, <1>2
    <2>4. Typed /\ Restoring
      BY DEF ProcInv
    <2>. HIDE DEF Typed, ProcOK, Occupied
    <2>. QED
      BY <2>1, <2>2, <2>3, <2>4, RestoringElsewhere
  <1>11. SharedInv'
    <2>1. PurgedRows'
      BY <1>2 DEF SharedInv, PurgedRows, HasPurged
    <2>. QED
      BY <1>2, <2>1 DEF SharedInv, PurgeableRows, OtherRows, ManifestCovers, RecordSound, ClosedIsEmpty
  <1>. QED
    BY <1>5, <1>6, <1>7, <1>8, <1>9, <1>10, <1>11 DEF ProcInv

------------------------------------------------------------------------------
(* The steps that write manifests.                                          *)

\* The manifests are written before anything is in quarantine.
LEMMA CleanPrepareStep ==
    ASSUME Typed, ProcInv, SharedInv, NEW p \in Procs, CleanPrepare(p)
    PROVE  ProcInv' /\ SharedInv'
  <1>1. PICK k \in Written :
          /\ WriteManifests(p, k)
          /\ IF k = M THEN Goto(p, "move") /\ UNCHANGED <<cur, at, st>> ELSE End(p)
    BY DEF CleanPrepare
  <1>2. /\ pc[p] = "prepare"
        /\ UNCHANGED <<clock, quar, movedAt, row>>
    BY DEF CleanPrepare
  <1>3. \A i \in Items : st[p][i] \in {"PENDING", "SKIPPED"}
    BY <1>2 DEF ProcInv, Cleaning
  <1>4. \A t \in Txs, i \in Items :
            manifest'[t][i] = manifest[t][i] \/ manifest'[t][i] \notin {"NONE", "RESTORED"}
    BY <1>1, <1>2, <1>3, WriteManifestsEffect
  <1>5. SharedInv'
    BY <1>2, <1>4 DEF SharedInv, PurgeableRows, OtherRows, PurgedRows, ManifestCovers, RecordSound, ClosedIsEmpty
  <1>6. CASE k = M
    <2>1. \A i \in Items : manifest'[cur[p]][i] = st[p][i]
      BY <1>1, <1>2, <1>6, CleanupAssumption DEF WriteManifests, Typed, SharedOK, ProcOK, Occupied
    <2>2. /\ UNCHANGED <<cur, st>> /\ pc'[p] = "move"
          /\ \A q \in Procs \ {p} : pc'[q] = pc[q]
      BY <1>1, <1>6 DEF Goto, Typed, ProcOK
    <2>3. Ownership'
      BY <1>2, <2>2 DEF ProcInv, Ownership, CleanPcs, RestorePcs, PurgePcs
    <2>4. Cleaning'
      <3>1. ASSUME NEW i \in Items
            PROVE  /\ st[p][i] \in {"PENDING", "SKIPPED"}
                   /\ quar[cur[p]][i] # "none" => st[p][i] = "MOVED"
                   /\ manifest'[cur[p]][i] \notin {"NONE", "RESTORED"}
        BY <1>2, <1>3, <2>1 DEF ProcInv, Cleaning, CleanPcs
      <3>2. ASSUME NEW q \in Procs \ {p}, NEW i \in Items, pc[q] \in CleaningPcs
            PROVE  manifest'[cur[q]][i] \notin {"NONE", "RESTORED"}
        <4>1. cur[q] \in Txs
          BY <3>2 DEF CleaningPcs, Typed, ProcOK, Occupied
        <4>2. manifest[cur[q]][i] \notin {"NONE", "RESTORED"}
          BY <3>2 DEF ProcInv, Cleaning
        <4>. QED
          BY <1>4, <4>1, <4>2
      <3>. QED
        BY <1>2, <2>2, <3>1, <3>2 DEF ProcInv, Cleaning, CleanPcs, CleaningPcs
    <2>5. MemorySound' /\ Purging' /\ Restoring' /\ Retained'
      BY <1>2, <2>2 DEF ProcInv, MemorySound, Purging, Restoring, Retained,
                                         PurgingPcs, PurgePcs, RestorePcs
    <2>. QED
      BY <1>5, <2>3, <2>4, <2>5 DEF ProcInv
  <1>7. CASE k # M
    <2>1. End(p)
      BY <1>1, <1>7
    <2>2. Ownership'
      BY <1>2, <2>1, EndEffect
      DEF ProcInv, Ownership, CleanPcs, RestorePcs, PurgePcs, Typed, ProcOK, Occupied
    <2>3. Cleaning'
      BY <1>2, <1>4, <2>1, EndEffect
      DEF ProcInv, Cleaning, CleanPcs, CleaningPcs, Typed, ProcOK, Occupied
    <2>4. MemorySound' /\ Purging' /\ Restoring' /\ Retained'
      BY <1>2, <2>1, EndEffect DEF ProcInv, MemorySound, Purging, Restoring, Retained,
                                         PurgingPcs, PurgePcs, RestorePcs
    <2>. QED
      BY <1>5, <2>2, <2>3, <2>4 DEF ProcInv
  <1>. QED
    BY <1>6, <1>7

\* The manifests written after a move or a restore never say RESTORED of a tree
\* that is in quarantine, for the process itself does not believe it.
LEMMA LogSteps ==
    ASSUME Typed, ProcInv, SharedInv, NEW p \in Procs, CleanLog(p) \/ RestoreLog(p)
    PROVE  ProcInv' /\ SharedInv'
  <1>1. PICK k \in Written : WriteManifests(p, k)
    BY DEF CleanLog, RestoreLog
  <1>2. UNCHANGED <<clock, quar, movedAt, row, st, cur>>
    BY NextItemEffect DEF CleanLog, RestoreLog
  <1>3. /\ \/ pc[p] = "logMove" /\ pc'[p] \in {"move", "record"}
           \/ pc[p] = "logRestore" /\ pc'[p] \in {"lstatQuarantine", "recordRestore"}
        /\ \A q \in Procs \ {p} : pc'[q] = pc[q]
    BY NextItemEffect DEF CleanLog, RestoreLog
  <1>4. \A t \in Txs, i \in Items :
            \/ manifest'[t][i] = manifest[t][i]
            \/ t = cur[p] /\ manifest'[t][i] = st[p][i]
    BY <1>1, <1>3, WriteManifestsEffect
  <1>5. \A i \in Items : st[p][i] # "NONE"
    BY DEF Typed, ProcOK, ItemStatus
  <1>6. Ownership'
    BY <1>2, <1>3 DEF ProcInv, Ownership, CleanPcs, RestorePcs, PurgePcs
  <1>7. Cleaning'
    <2>1. \A q \in Procs, i \in Items :
              pc[q] \in CleaningPcs => manifest'[cur[q]][i] \notin {"NONE", "RESTORED"}
      <3>. SUFFICES ASSUME NEW q \in Procs, NEW i \in Items, pc[q] \in CleaningPcs
                    PROVE  manifest'[cur[q]][i] \notin {"NONE", "RESTORED"}
        OBVIOUS
      <3>1. pc[q] \in CleanPcs /\ cur[q] \in Txs
        BY DEF CleanPcs, CleaningPcs, Typed, ProcOK, Occupied
      <3>2. manifest[cur[q]][i] \notin {"NONE", "RESTORED"}
        BY DEF ProcInv, Cleaning
      <3>3. CASE q = p
        <4>1. st[p][i] \notin {"NONE", "RESTORED"}
          BY <3>1, <3>3 DEF ProcInv, Cleaning
        <4>. QED
          BY <1>4, <3>1, <3>2, <4>1
      <3>4. CASE q # p
        <4>1. cur[q] # cur[p]
          BY <3>1, <3>4 DEF ProcInv, Ownership
        <4>. QED
          BY <1>4, <3>1, <3>2, <4>1
      <3>. QED
        BY <3>3, <3>4
    <2>. QED
      BY <1>2, <1>3, <2>1 DEF ProcInv, Cleaning, CleanPcs, CleaningPcs
  <1>8. MemorySound' /\ Purging' /\ Restoring' /\ Retained'
    BY <1>2, <1>3 DEF ProcInv, MemorySound, Purging, Restoring, Retained,
                                         PurgingPcs, PurgePcs, RestorePcs
  <1>9. ManifestCovers'
    BY <1>2, <1>3, <1>4, <1>5 DEF SharedInv, ManifestCovers, ProcInv, MemorySound
  <1>10. PurgeableRows' /\ OtherRows' /\ PurgedRows' /\ RecordSound' /\ ClosedIsEmpty'
    BY <1>2 DEF SharedInv, PurgeableRows, OtherRows, PurgedRows, RecordSound, ClosedIsEmpty
  <1>. QED
    BY <1>6, <1>7, <1>8, <1>9, <1>10 DEF ProcInv, SharedInv

\* The manifests are removed when nothing is in quarantine any more.
LEMMA PurgeUnlinkStep ==
    ASSUME Typed, ProcInv, SharedInv, NEW p \in Procs, PurgeUnlink(p)
    PROVE  ProcInv' /\ SharedInv'
  <1>1. /\ pc[p] = "unlink" /\ End(p)
        /\ UNCHANGED <<clock, quar, movedAt, row>>
    BY DEF PurgeUnlink
  <1>2. cur[p] \in Txs /\ \A i \in Items : quar[cur[p]][i] = "none"
    BY <1>1, BusyHasTx DEF ProcInv, Purging, Typed
  <1>3. \A t \in Txs \ {cur[p]} : manifest'[t] = manifest[t]
    BY <1>2 DEF PurgeUnlink, Typed, SharedOK
  <1>4. SharedInv'
    BY <1>1, <1>2, <1>3 DEF SharedInv, PurgeableRows, OtherRows, PurgedRows, ManifestCovers, RecordSound, ClosedIsEmpty
  <1>5. \A q \in Procs : pc[q] \in CleanPcs => cur[q] \in Txs \ {cur[p]}
    BY <1>1 DEF ProcInv, Ownership, CleanPcs, PurgePcs, RestorePcs, Typed, ProcOK, Occupied
  <1>6. Ownership'
    BY <1>1, EndEffect DEF ProcInv, Ownership, CleanPcs, RestorePcs, PurgePcs,
                           Typed, ProcOK, Occupied
  <1>7. Cleaning'
    BY <1>1, <1>3, <1>5, EndEffect DEF ProcInv, Cleaning, CleanPcs, CleaningPcs
  <1>8. MemorySound' /\ Purging' /\ Restoring' /\ Retained'
    BY <1>1, EndEffect DEF ProcInv, MemorySound, Purging, Restoring, Retained,
                                         PurgingPcs, PurgePcs, RestorePcs
  <1>. QED
    BY <1>4, <1>6, <1>7, <1>8 DEF ProcInv

------------------------------------------------------------------------------
(* The steps that write a transaction's row.                                *)

\* A command that exits without touching the disk or the database.
LEMMA EndOnly ==
    ASSUME Typed, ProcInv, SharedInv, NEW p \in Procs, pc[p] # "idle", End(p),
           UNCHANGED <<clock, diskVars, row>>
    PROVE  ProcInv' /\ SharedInv'
  <1>. USE EndEffect DEF diskVars, ProcInv, Typed, ProcOK, Occupied, CleanPcs, RestorePcs,
                         PurgePcs, CleaningPcs, PurgingPcs
  <1>1. Ownership'
    BY DEF Ownership
  <1>2. Cleaning'
    BY DEF Cleaning
  <1>3. MemorySound'
    BY DEF MemorySound
  <1>4. Purging'
    BY DEF Purging
  <1>5. Retained'
    BY DEF Retained
  <1>6. Restoring'
    BY DEF Restoring
  <1>7. SharedInv'
    BY SharedUndisturbed
  <1>. QED
    BY <1>1, <1>2, <1>3, <1>4, <1>5, <1>6, <1>7

\* What it takes for a row to be written at the end of a command.
RowFits(p, s) ==
    /\ s # "NONE"
    /\ \A i \in Items : st[p][i] \in {"RESTORED", "PURGED"} => quar[cur[p]][i] = "none"
    /\ s \in Purgeable =>
          \A i \in Items : quar[cur[p]][i] # "none" => st[p][i] = "MOVED"
    /\ s \in {"RESTORED", "PURGED"} => \A i \in Items : quar[cur[p]][i] = "none"
    /\ s \notin Purgeable => \A i \in Items : st[p][i] # "MOVED"
    /\ HasPurged(st[p]) => \A i \in Items : quar[cur[p]][i] # "none" => st[p][i] = "FAILED"

\* A row is written of which the memory is true.
LEMMA RowStep ==
    ASSUME Typed, ProcInv, SharedInv, NEW p \in Procs, pc[p] # "idle", NEW s,
           RowFits(p, s), WriteRow(p, s), UNCHANGED <<clock, diskVars>>,
           \/ End(p)
           \/ /\ pc[p] = "recordPurge" /\ Goto(p, "unlink") /\ UNCHANGED <<cur, st>>
              /\ s = "PURGED"
    PROVE  ProcInv' /\ SharedInv'
  <1>1. \A t \in Txs :
            row'[t] = IF t = cur[p]
                      THEN [status |-> s, finished |-> clock, items |-> st[p]]
                      ELSE row[t]
    BY WriteRowEffect
  <1>2. cur[p] \in Txs
    BY BusyHasTx DEF Typed
  <1>3. /\ \/ pc'[p] = "idle" /\ cur'[p] = NoTx
           \/ /\ pc[p] = "recordPurge" /\ pc'[p] = "unlink"
              /\ cur'[p] = cur[p] /\ st'[p] = st[p] /\ s = "PURGED"
        /\ \A q \in Procs \ {p} :
              pc'[q] = pc[q] /\ cur'[q] = cur[q] /\ st'[q] = st[q]
    BY EndEffect DEF Goto, Typed, ProcOK
  <1>4. UNCHANGED <<clock, orig, quar, movedAt, manifest>>
    BY DEF diskVars
  <1>5. \A q \in Procs \ {p} : pc[q] \in CleanPcs => cur[q] # cur[p]
    BY DEF ProcInv, Ownership
  <1>6. Ownership'
    <2>1. row'[cur[p]].status # "NONE" /\ \A t \in Txs \ {cur[p]} : row'[t] = row[t]
      BY <1>1, <1>2 DEF RowFits
    <2>2. \A q \in Procs : pc'[q] \in CleanPcs =>
              /\ pc[q] \in CleanPcs /\ q # p /\ cur'[q] = cur[q] /\ cur[q] \in Txs \ {cur[p]}
      BY <1>3, <1>5, BusyHasTx DEF CleanPcs, Typed
    <2>3. \A q \in Procs : pc'[q] \in CleanPcs =>
              /\ row'[cur'[q]].status = "NONE"
              /\ \A r \in Procs \ {q} : cur'[r] # cur'[q]
      BY <1>3, <2>1, <2>2, CleanupAssumption DEF ProcInv, Ownership
    <2>4. \A q \in Procs : pc'[q] \in RestorePcs \union PurgePcs =>
              row'[cur'[q]].status # "NONE"
      BY <1>3, <2>1, BusyHasTx DEF ProcInv, Ownership, RestorePcs, PurgePcs, Typed
    <2>5. \A t \in Txs : row'[t].status = "NONE" => row'[t].items = Pending
      BY <2>1 DEF ProcInv, Ownership
    <2>. QED
      BY <2>3, <2>4, <2>5 DEF Ownership
  <1>7. Cleaning'
    BY <1>3, <1>4 DEF ProcInv, Cleaning, CleanPcs, CleaningPcs
  <1>8. MemorySound'
    BY <1>3, <1>4 DEF ProcInv, MemorySound
  <1>9. Purging'
    BY <1>3, <1>4 DEF ProcInv, Purging, PurgingPcs, RowFits
  <1>10. Retained'
    BY <1>1, <1>3, <1>4 DEF ProcInv, Retained, PurgePcs
  <1>11. PurgeableRows'
    BY <1>1, <1>4 DEF SharedInv, PurgeableRows, RowFits
  <1>12. ManifestCovers'
    BY <1>4 DEF SharedInv, ManifestCovers
  <1>13. RecordSound'
    BY <1>1, <1>4 DEF SharedInv, RecordSound, RowFits
  <1>14. ClosedIsEmpty'
    BY <1>1, <1>4 DEF SharedInv, ClosedIsEmpty, RowFits
  <1>15. Restoring'
    BY <1>3, <1>4 DEF ProcInv, Restoring, RestorePcs
  <1>16. OtherRows' /\ PurgedRows'
    BY <1>1, <1>4 DEF SharedInv, OtherRows, PurgedRows, RowFits
  <1>. QED
    BY <1>6, <1>7, <1>8, <1>9, <1>10, <1>11, <1>12, <1>13, <1>14, <1>15, <1>16 DEF ProcInv, SharedInv

\* The three commands' own records are such rows.
LEMMA RecordSteps ==
    ASSUME Typed, Advanced, ProcInv, SharedInv, NEW p \in Procs,
           CleanRecord(p) \/ RestoreRecord(p) \/ PurgeRecord(p)
    PROVE  ProcInv' /\ SharedInv'
  <1>1. pc[p] # "idle" /\ UNCHANGED <<clock, diskVars>>
    BY DEF CleanRecord, RestoreRecord, PurgeRecord
  <1>2. \A i \in Items : st[p][i] \in {"RESTORED", "PURGED"} => quar[cur[p]][i] = "none"
    BY <1>1 DEF ProcInv, MemorySound
  <1>3. CASE CleanRecord(p)
    <2>. DEFINE s == Summary(st[p], "MOVED", "QUARANTINED", "PARTIALLY_QUARANTINED")
    <2>1. \A i \in Items : quar[cur[p]][i] # "none" => st[p][i] = "MOVED"
      BY <1>3 DEF CleanRecord, ProcInv, Cleaning, CleanPcs
    <2>4. s \notin Purgeable => \A i \in Items : st[p][i] # "MOVED"
      BY DEF Summary, Purgeable
    <2>5. ~HasPurged(st[p])
      BY <1>3 DEF CleanRecord, ProcInv, Cleaning, CleanPcs, HasPurged
    <2>6. s \notin {"NONE", "RESTORED", "PURGED"}
      BY DEF Summary
    <2>2. RowFits(p, s)
      <3>. HIDE DEF s
      <3>. QED
        BY <1>2, <2>1, <2>4, <2>5, <2>6 DEF RowFits
    <2>3. (WriteRow(p, s) \/ UNCHANGED row) /\ End(p)
      BY <1>3 DEF CleanRecord
    <2>. HIDE DEF s
    <2>. QED
      BY <1>1, <2>2, <2>3, RowStep, EndOnly
  <1>4. CASE RestoreRecord(p)
    <2>. DEFINE s == Summary(st[p], "RESTORED", "RESTORED", "PARTIALLY_RESTORED")
    <2>1. s \in {"RESTORED", "PARTIALLY_RESTORED", "FAILED"}
          /\ (s = "RESTORED" => \A i \in Items : st[p][i] = "RESTORED")
      BY DEF Summary
    <2>4. \A i \in Items : /\ st[p][i] # "MOVED"
                           /\ HasPurged(st[p]) /\ quar[cur[p]][i] # "none" => st[p][i] = "FAILED"
      <3>1. pc[p] = "recordRestore"
        BY <1>4 DEF RestoreRecord
      <3>2. \A i \in Items : st[p][i] # "MOVED"
        BY <3>1 DEF Advanced, Passed
      <3>3. Restoring /\ pc[p] \in RestorePcs
        BY <3>1 DEF ProcInv, RestorePcs
      <3>. QED
        BY <3>2, <3>3 DEF Restoring
    <2>2. RowFits(p, s)
      <3>. HIDE DEF s
      <3>. QED
        BY <1>2, <2>1, <2>4 DEF RowFits, Purgeable
    <2>3. (WriteRow(p, s) \/ UNCHANGED row) /\ End(p)
      BY <1>4 DEF RestoreRecord
    <2>. HIDE DEF s
    <2>. QED
      BY <1>1, <2>2, <2>3, RowStep, EndOnly
  <1>5. CASE PurgeRecord(p)
    <2>. DEFINE s == PurgeStatus(st[p])
    <2>1. pc[p] = "recordPurge"
      BY <1>5 DEF PurgeRecord
    <2>2. \A i \in Items : st[p][i] # "MOVED"
      BY <2>1 DEF Advanced, Passed
    <2>3. ASSUME HasPurged(st[p])
          PROVE  RowFits(p, s)
      <3>1. \A i \in Items : quar[cur[p]][i] # "none" => st[p][i] = "FAILED"
        BY <2>1, <2>2, <2>3 DEF ProcInv, Purging, PurgingPcs, HasPurged
      <3>. QED
        BY <1>2, <2>2, <3>1 DEF RowFits, PurgeStatus, Purgeable
    <2>4. \/ UNCHANGED row /\ End(p)
          \/ /\ HasPurged(st[p]) /\ WriteRow(p, s)
             /\ End(p) \/ (s = "PURGED" /\ Goto(p, "unlink") /\ UNCHANGED <<cur, st>>)
      BY <1>5 DEF PurgeRecord, HasPurged
    <2>. HIDE DEF s
    <2>. QED
      BY <1>1, <2>1, <2>3, <2>4, RowStep, EndOnly
  <1>. QED
    BY <1>3, <1>4, <1>5

------------------------------------------------------------------------------
(* The rest of the world.                                                   *)

\* Users, tampering hands and time put nothing into quarantine.
LEMMA WorldSteps ==
    ASSUME Typed, ProcInv, SharedInv,
           \/ \E i \in Items : Outside(i)
           \/ \E t \in Txs, i \in Items : Tamper(t, i)
           \/ Tick
           \/ UNCHANGED vars
    PROVE  ProcInv' /\ SharedInv'
  <1>1. /\ \A t \in Txs, i \in Items : quar'[t][i] # "none" => quar[t][i] # "none"
        /\ UNCHANGED <<movedAt, manifest, row, pc, cur, st>>
        /\ clock' \in Nat /\ clock' >= clock
    <2>. USE DEF diskVars, procVars, Typed, SharedOK
    <2>1. CASE \E i \in Items : Outside(i)
      BY <2>1 DEF Outside
    <2>2. CASE \E t \in Txs, i \in Items : Tamper(t, i)
      BY <2>2 DEF Tamper
    <2>3. CASE Tick
      BY <2>3 DEF Tick
    <2>4. CASE UNCHANGED vars
      BY <2>4 DEF vars
    <2>. QED
      BY <2>1, <2>2, <2>3, <2>4
  <1>2. \A q \in Procs : pc[q] # "idle" => cur[q] \in Txs
    BY BusyHasTx DEF Typed
  <1>3. Ownership' /\ MemorySound'
    BY <1>1, <1>2 DEF ProcInv, Ownership, MemorySound
  <1>4. Cleaning'
    BY <1>1, <1>2 DEF ProcInv, Cleaning, CleanPcs
  <1>5. Purging'
    BY <1>1, <1>2 DEF ProcInv, Purging, PurgingPcs
  <1>6. Retained'
    <2>1. \A t \in Txs, i \in Items : movedAt[t][i] \in Nat
      BY DEF Typed, SharedOK
    <2>2. clock \in Nat /\ Retention \in Nat
      BY CleanupAssumption DEF Typed, SharedOK
    <2>. QED
      BY <1>1, <1>2, <2>1, <2>2 DEF ProcInv, Retained, PurgePcs
  <1>8. Restoring'
    BY <1>1, <1>2 DEF ProcInv, Restoring, RestorePcs
  <1>7. SharedInv'
    BY <1>1 DEF SharedInv, PurgeableRows, OtherRows, PurgedRows, ManifestCovers, RecordSound, ClosedIsEmpty
  <1>. QED
    BY <1>3, <1>4, <1>5, <1>6, <1>7, <1>8 DEF ProcInv

------------------------------------------------------------------------------
(* The inductive invariant and what follows from it.                        *)

\* The invariant is inductive.
LEMMA InvStep == IInv /\ [Next]_vars => IInv'
  <1>. SUFFICES ASSUME IInv, [Next]_vars PROVE IInv'
    OBVIOUS
  <1>a. Typed /\ Advanced /\ ProcInv /\ SharedInv
    BY IInvSplit
  <1>b. Typed' /\ Advanced'
    BY <1>a, TypedStep, AdvancedStep
  <1>c. Typed' /\ Advanced' /\ ProcInv' /\ SharedInv' => IInv'
    BY IInvSplit, PTL
  <1>1. ASSUME NEW p \in Procs, CleanBegin(p) \/ RestoreBegin(p) \/ PurgeBegin(p)
        PROVE  ProcInv' /\ SharedInv'
    <2>1. ProcInv'
      BY <1>1, <1>a, CleanBeginStep, RestoreBeginStep, PurgeBeginStep
    <2>2. SharedInv'
      BY <1>1, <1>a, SharedUndisturbed DEF CleanBegin, RestoreBegin, PurgeBegin, diskVars
    <2>. QED
      BY <2>1, <2>2
  <1>2. ASSUME NEW p \in Procs,
               \/ CleanValidate(p) \/ CleanLeave(p)
               \/ RestoreLstatQuarantine(p) \/ RestoreLstatOriginal(p) \/ RestoreFail(p)
               \/ PurgeLoad(p) \/ PurgeCheck(p) \/ Crash(p)
        PROVE  ProcInv' /\ SharedInv'
    <2>1. ProcInv'
      BY <1>2, <1>a, MemorySteps, PurgeLoadStep, CrashStep
    <2>2. SharedInv'
      BY <1>2, <1>a, SharedUndisturbed
      DEF CleanValidate, CleanLeave, RestoreLstatQuarantine, RestoreLstatOriginal,
          RestoreFail, PurgeLoad, PurgeCheck, Crash, diskVars
    <2>. QED
      BY <2>1, <2>2
  <1>3. ASSUME NEW p \in Procs, CleanMove(p) \/ RestoreRename(p) \/ PurgeRemove(p)
        PROVE  ProcInv' /\ SharedInv'
    BY <1>3, <1>a, CleanMoveStep, RestoreRenameStep, PurgeRemoveStep
  <1>4. ASSUME NEW p \in Procs,
               CleanPrepare(p) \/ CleanLog(p) \/ RestoreLog(p) \/ PurgeUnlink(p)
        PROVE  ProcInv' /\ SharedInv'
    BY <1>4, <1>a, CleanPrepareStep, LogSteps, PurgeUnlinkStep
  <1>5. ASSUME NEW p \in Procs, CleanRecord(p) \/ RestoreRecord(p) \/ PurgeRecord(p)
        PROVE  ProcInv' /\ SharedInv'
    BY <1>5, <1>a, RecordSteps
  <1>6. CASE \/ \E i \in Items : Outside(i)
             \/ \E t \in Txs, i \in Items : Tamper(t, i)
             \/ Tick \/ UNCHANGED vars
    BY <1>6, <1>a, <1>b, <1>c, WorldSteps
  <1>. QED
    BY <1>b, <1>c, <1>1, <1>2, <1>3, <1>4, <1>5, <1>6
    DEF Next, Run, CleanStep, RestoreStep, PurgeStep

\* The inductive invariant holds in every reachable state.
THEOREM Invariance == Spec => []IInv
  BY InitInv, InvStep, PTL DEF Spec

\* Every quarantined tree has its manifest on disk, which does not claim that
\* the tree was put back.
THEOREM ManifestsCoverQuarantine == Spec => []ManifestCovers
  <1>1. IInv => ManifestCovers
    BY DEF IInv
  <1>. QED
    BY <1>1, Invariance, PTL

\* No row records an item as restored or purged while it is in quarantine.
THEOREM RecordsAreSound == Spec => []RecordSound
  <1>1. IInv => RecordSound
    BY DEF IInv
  <1>. QED
    BY <1>1, Invariance, PTL

\* A transaction recorded RESTORED or PURGED holds nothing any more.
THEOREM ClosedTransactionsAreEmpty == Spec => []ClosedIsEmpty
  <1>1. IInv => ClosedIsEmpty
    BY DEF IInv
  <1>. QED
    BY <1>1, Invariance, PTL

------------------------------------------------------------------------------
(* Rows and the disk agree when commands are not killed.                    *)

\* p has taken item i out of quarantine and has yet to record it.
WillRecord(p, i) ==
    \/ pc[p] \in RestorePcs /\ st[p][i] = "RESTORED"
    \/ pc[p] \in PurgingPcs /\ st[p][i] = "PURGED"

\* Where a row still says MOVED of what is gone, a command will correct it.
Vanished ==
    \A t \in Txs, i \in Items :
        row[t].items[i] = "MOVED" /\ quar[t][i] = "none" =>
            \E p \in Procs : cur[p] = t /\ WillRecord(p, i)

\* What a clean remembers as moved is in quarantine,
Holding ==
    \A p \in Procs, i \in Items :
        pc[p] \in CleanPcs /\ st[p][i] = "MOVED" => quar[cur[p]][i] # "none"

\* and what is in quarantine without a row, a clean is about to record.
Unrecorded ==
    \A t \in Txs, i \in Items :
        quar[t][i] # "none" /\ row[t].status = "NONE" =>
            \E p \in Procs : cur[p] = t /\ pc[p] \in CleaningPcs

\* What is in quarantine is not pending, in a row or in the memory of it.
Noted ==
    /\ \A t \in Txs, i \in Items :
          quar[t][i] # "none" /\ row[t].status # "NONE" => row[t].items[i] # "PENDING"
    /\ \A p \in Procs, i \in Items :
          pc[p] \in RestorePcs \union PurgingPcs /\ quar[cur[p]][i] # "none" => st[p][i] # "PENDING"

\* The account of rows and disk, inductive together with IInv.
RowInv == Vanished /\ Holding /\ Unrecorded /\ Noted

\* A step of a restore or purge that writes no row keeps the account of what left
\* the quarantine.
LEMMA LoopStep ==
    ASSUME Typed, ProcInv, RowInv, NEW p \in Procs, OthersStay(p), UNCHANGED <<row, cur>>,
           \/ pc[p] \in RestorePcs /\ pc'[p] \in RestorePcs
           \/ pc[p] \in PurgingPcs /\ pc'[p] \in PurgingPcs,
           \A i \in Items :
              \/ st'[p][i] = st[p][i]
              \/ st[p][i] \in Restorable /\ st'[p][i] # "PENDING",
           \A t \in Txs, i \in Items :
              /\ quar'[t][i] # "none" => quar[t][i] # "none"
              /\ quar'[t][i] = "none" => quar[t][i] = "none" \/ (t = cur[p] /\ WillRecord(p, i)')
    PROVE  RowInv'
  <1>. USE DEF RowInv, OthersStay
  <1>1. \A q \in Procs, i \in Items : WillRecord(q, i) => WillRecord(q, i)'
    BY DEF WillRecord, Restorable, RestorePcs, PurgingPcs
  <1>2. Vanished'
    BY <1>1 DEF Vanished
  <1>3. Holding'
    <2>. SUFFICES ASSUME NEW q \in Procs, NEW i \in Items, pc'[q] \in CleanPcs, st'[q][i] = "MOVED"
                  PROVE  quar'[cur'[q]][i] # "none"
      BY DEF Holding
    <2>1. q # p /\ pc[q] \in CleanPcs /\ st[q][i] = "MOVED"
      BY DEF CleanPcs, RestorePcs, PurgingPcs
    <2>2. cur[q] \in Txs /\ cur[q] # cur[p]
      BY <2>1, BusyHasTx DEF ProcInv, Ownership, Typed, CleanPcs
    <2>. QED
      BY <2>1, <2>2 DEF Holding
  <1>4. Unrecorded'
    BY DEF Unrecorded, CleaningPcs, RestorePcs, PurgingPcs
  <1>5. Noted'
    <2>1. \A q \in Procs : pc'[q] \in RestorePcs \union PurgingPcs =>
              pc[q] \in RestorePcs \union PurgingPcs /\ cur[q] \in Txs
      BY BusyHasTx DEF Typed, RestorePcs, PurgingPcs
    <2>. QED
      BY <2>1 DEF Noted
  <1>. QED
    BY <1>2, <1>3, <1>4, <1>5

\* So does a step of a clean, which only adds to the quarantine.
LEMMA CleaningStep ==
    ASSUME Typed, ProcInv, RowInv, NEW p \in Procs, OthersStay(p), UNCHANGED <<row, cur>>,
           pc[p] \in CleanPcs, pc'[p] \in CleanPcs,
           pc[p] \in CleaningPcs => pc'[p] \in CleaningPcs,
           \A i \in Items :
              st'[p][i] = "MOVED" => st[p][i] = "MOVED" \/ quar'[cur[p]][i] # "none",
           \A t \in Txs, i \in Items :
              \/ quar'[t][i] = quar[t][i]
              \/ t = cur[p] /\ quar'[t][i] # "none" /\ pc'[p] \in CleaningPcs
    PROVE  RowInv'
  <1>. USE DEF RowInv, OthersStay
  <1>1. cur[p] \in Txs /\ row[cur[p]].status = "NONE" /\ \A q \in Procs \ {p} : cur[q] # cur[p]
    BY BusyHasTx DEF Typed, ProcInv, Ownership, CleanPcs
  <1>2. Vanished'
    BY DEF Vanished, WillRecord, CleanPcs, RestorePcs, PurgingPcs
  <1>3. Holding'
    <2>1. \A q \in Procs \ {p} : pc[q] \in CleanPcs => cur[q] \in Txs
      BY BusyHasTx DEF Typed, CleanPcs
    <2>. QED
      BY <1>1, <2>1 DEF Holding
  <1>4. Unrecorded'
    BY DEF Unrecorded
  <1>5. Noted'
    <2>1. \A q \in Procs : pc'[q] \in RestorePcs \union PurgingPcs =>
              q # p /\ pc[q] \in RestorePcs \union PurgingPcs /\ cur[q] \in Txs \ {cur[p]}
      BY <1>1, BusyHasTx DEF Typed, CleanPcs, RestorePcs, PurgingPcs
    <2>. QED
      BY <1>1, <2>1 DEF Noted
  <1>. QED
    BY <1>2, <1>3, <1>4, <1>5

\* A command that ends leaves nothing untold, or has told it.
LEMMA LeavingStep ==
    ASSUME Typed, RowInv, NEW p \in Procs, End(p), UNCHANGED <<row, quar>>,
           pc[p] \notin CleaningPcs, \A i \in Items : ~WillRecord(p, i)
    PROVE  RowInv'
  <1>. USE DEF RowInv
  <1>1. OthersStay(p) /\ pc'[p] = "idle"
    BY DEF Typed, ProcOK, OthersStay, End, Goto
  <1>2. \A q \in Procs, i \in Items : WillRecord(q, i) => q # p /\ WillRecord(q, i)'
    BY <1>1 DEF WillRecord, OthersStay
  <1>3. Vanished'
    BY <1>1, <1>2 DEF Vanished, OthersStay
  <1>4. Holding'
    BY <1>1 DEF Holding, OthersStay, CleanPcs
  <1>5. Unrecorded'
    BY <1>1 DEF Unrecorded, OthersStay
  <1>6. Noted'
    BY <1>1 DEF Noted, OthersStay, RestorePcs, PurgingPcs
  <1>. QED
    BY <1>3, <1>4, <1>5, <1>6

\* A row is written of what the command has done.
LEMMA TellingStep ==
    ASSUME Typed, Advanced, ProcInv, RowInv, NEW p \in Procs, NEW s, s # "NONE", WriteRow(p, s),
           UNCHANGED quar, pc[p] \in {"record", "recordRestore", "recordPurge"},
           \/ End(p)
           \/ pc[p] = "recordPurge" /\ Goto(p, "unlink") /\ UNCHANGED <<cur, at, st>>
    PROVE  RowInv'
  <1>. USE DEF RowInv
  <1>1. /\ OthersStay(p) /\ pc'[p] \in {"idle", "unlink"}
        /\ pc'[p] = "unlink" => /\ pc[p] = "recordPurge"
                                /\ cur'[p] = cur[p] /\ st'[p] = st[p]
    BY DEF Typed, ProcOK, OthersStay, End, Goto
  <1>2. cur[p] \in Txs
    BY BusyHasTx DEF Typed
  <1>3. \A t \in Txs :
            row'[t] = IF t = cur[p]
                      THEN [status |-> s, finished |-> clock, items |-> st[p]]
                      ELSE row[t]
    BY WriteRowEffect
  <1>4. \A i \in Items : st[p][i] = "MOVED" => quar[cur[p]][i] # "none"
    BY DEF Advanced, Passed, Holding, CleanPcs
  <1>5. \A i \in Items : quar[cur[p]][i] # "none" => st[p][i] # "PENDING"
    BY DEF Noted, ProcInv, Cleaning, CleanPcs, RestorePcs, PurgingPcs
  <1>6. Vanished'
    <2>. SUFFICES ASSUME NEW t \in Txs, NEW i \in Items,
                         row'[t].items[i] = "MOVED", quar[t][i] = "none"
                  PROVE  \E q \in Procs : cur'[q] = t /\ WillRecord(q, i)'
      BY DEF Vanished
    <2>1. t # cur[p] /\ row[t].items[i] = "MOVED"
      BY <1>3, <1>4
    <2>2. PICK q \in Procs : cur[q] = t /\ WillRecord(q, i)
      BY <2>1 DEF Vanished
    <2>. QED
      BY <1>1, <2>1, <2>2 DEF OthersStay, WillRecord
  <1>7. Holding'
    BY <1>1 DEF Holding, OthersStay, CleanPcs
  <1>8. Unrecorded'
    <2>. SUFFICES ASSUME NEW t \in Txs, NEW i \in Items, quar[t][i] # "none", row'[t].status = "NONE"
                  PROVE  \E q \in Procs : cur'[q] = t /\ pc'[q] \in CleaningPcs
      BY DEF Unrecorded
    <2>1. t # cur[p] /\ row[t].status = "NONE"
      BY <1>3
    <2>2. PICK q \in Procs : cur[q] = t /\ pc[q] \in CleaningPcs
      BY <2>1 DEF Unrecorded
    <2>. QED
      BY <1>1, <2>1, <2>2 DEF OthersStay
  <1>9. Noted'
    <2>1. \A t \in Txs, i \in Items :
              quar[t][i] # "none" /\ row'[t].status # "NONE" => row'[t].items[i] # "PENDING"
      BY <1>3, <1>5 DEF Noted
    <2>2. \A q \in Procs, i \in Items :
              pc'[q] \in RestorePcs \union PurgingPcs /\ quar[cur'[q]][i] # "none" => st'[q][i] # "PENDING"
      BY <1>1 DEF Noted, OthersStay, RestorePcs, PurgingPcs
    <2>. QED
      BY <2>1, <2>2 DEF Noted
  <1>. QED
    BY <1>6, <1>7, <1>8, <1>9

\* A restore marks what it looks at, or goes on to rename it.
LEMMA RestoreLooks ==
    ASSUME Typed, Advanced, ProcInv, RowInv, NEW p \in Procs,
           RestoreLstatQuarantine(p) \/ RestoreLstatOriginal(p) \/ RestoreFail(p)
    PROVE  RowInv'
  <1>. USE DEF RowInv
  <1>. DEFINE Marks == \/ UNCHANGED st /\ st[p][at[p]] # "MOVED"
                       \/ /\ st[p][at[p]] \in Restorable
                          /\ \E s \in {"SKIPPED", "FAILED"} : Mark(p, s)
              Passes == NextItem(p, "lstatQuarantine", "recordRestore") /\ Marks
              Looks == /\ UNCHANGED <<cur, at, st>> /\ st[p][at[p]] \in Restorable
                       /\ \/ pc[p] = "lstatQuarantine" /\ Goto(p, "lstatOriginal")
                          \/ pc[p] = "lstatOriginal" /\ Goto(p, "rename")
  <1>1. pc[p] \in {"lstatQuarantine", "lstatOriginal", "rename"} /\ UNCHANGED <<row, quar>>
    BY DEF RestoreLstatQuarantine, RestoreLstatOriginal, RestoreFail, diskVars
  <1>2. at[p] \in Items /\ (st[p][at[p]] \in Restorable \/ pc[p] = "lstatQuarantine")
    BY <1>1 DEF Advanced, Typed, ProcOK
  <1>3. Passes \/ Looks
    BY <1>1, <1>2 DEF RestoreLstatQuarantine, RestoreLstatOriginal, RestoreFail, Status, Restorable
  <1>4. OthersStay(p) /\ cur' = cur
    BY <1>3, OwnMemory DEF NextItem
  <1>5. \A i \in Items : \/ st'[p][i] = st[p][i]
                         \/ st[p][i] \in Restorable /\ st'[p][i] \in {"SKIPPED", "FAILED"}
    BY <1>3, MarkEffect
  <1>6. pc[p] \in RestorePcs /\ pc'[p] \in RestorePcs
    BY <1>1, <1>3, NextItemEffect DEF RestorePcs, Goto, Typed, ProcOK
  <1>. QED
    BY <1>1, <1>4, <1>5, <1>6, LoopStep

\* A purge marks what it checks, or goes on to remove it.
LEMMA PurgeLooks ==
    ASSUME Typed, ProcInv, RowInv, NEW p \in Procs, PurgeCheck(p)
    PROVE  RowInv'
  <1>. USE DEF RowInv
  <1>. DEFINE Passes == /\ NextItem(p, "check", "recordPurge")
                        /\ \/ UNCHANGED st /\ st[p][at[p]] # "MOVED"
                           \/ st[p][at[p]] = "MOVED" /\ Mark(p, "FAILED")
              Looks == UNCHANGED <<cur, at, st>> /\ st[p][at[p]] = "MOVED" /\ Goto(p, "remove")
  <1>1. pc[p] = "check" /\ UNCHANGED <<row, quar>> /\ at[p] \in Items
    BY DEF PurgeCheck, diskVars, Typed, ProcOK
  <1>2. Passes \/ Looks
    BY Zenon DEF PurgeCheck, Status
  <1>3. OthersStay(p) /\ cur' = cur
    <2>1. cur' = cur
      BY <1>2 DEF NextItem
    <2>2. UNCHANGED st \/ \E s : Mark(p, s)
      BY <1>2
    <2>3. \/ \E label : Goto(p, label) /\ UNCHANGED at
          \/ \E loop, exit : NextItem(p, loop, exit)
      BY <1>2
    <2>. QED
      BY <2>1, <2>2, <2>3, OwnMemory
  <1>4. \A i \in Items : \/ st'[p][i] = st[p][i]
                         \/ st[p][i] \in Restorable /\ st'[p][i] = "FAILED"
    BY <1>2, MarkEffect DEF Restorable
  <1>5. pc[p] \in PurgingPcs /\ pc'[p] \in PurgingPcs
    BY <1>1, <1>2, NextItemEffect DEF PurgingPcs, Goto, Typed, ProcOK
  <1>. QED
    BY <1>1, <1>3, <1>4, <1>5, LoopStep

\* A purge removes an item, in part, in whole or not at all.
LEMMA PurgeRemoves ==
    ASSUME Typed, Advanced, ProcInv, RowInv, NEW p \in Procs, PurgeRemove(p)
    PROVE  RowInv'
  <1>. USE DEF RowInv
  <1>1. pc[p] = "remove" /\ UNCHANGED row /\ at[p] \in Items /\ cur[p] \in Txs
    BY BusyHasTx DEF PurgeRemove, Typed, ProcOK
  <1>2. CASE /\ quar[cur[p]][at[p]] # "none" /\ UNCHANGED procVars
             /\ quar' = [quar EXCEPT ![cur[p]][at[p]] = "partial"]
    <2>1. /\ UNCHANGED <<pc, cur, at, st>> /\ OthersStay(p)
          /\ pc[p] \in PurgingPcs /\ pc'[p] \in PurgingPcs
      BY <1>1, <1>2 DEF procVars, OthersStay, PurgingPcs
    <2>2. \A t \in Txs, i \in Items : quar'[t][i] = "none" <=> quar[t][i] = "none"
      BY <1>1, <1>2 DEF Typed, SharedOK
    <2>. QED
      BY <1>1, <2>1, <2>2, LoopStep
  <1>3. CASE /\ NextItem(p, "check", "recordPurge")
             /\ \/ UNCHANGED quar /\ Mark(p, "FAILED")
                \/ quar' = [quar EXCEPT ![cur[p]][at[p]] = "none"] /\ Mark(p, "PURGED")
    <2>1. OthersStay(p) /\ cur' = cur
      BY <1>3, OwnMemory DEF NextItem
    <2>2. pc[p] \in PurgingPcs /\ pc'[p] \in PurgingPcs
      BY <1>1, <1>3, NextItemEffect DEF PurgingPcs
    <2>3. \A i \in Items : IF i = at[p] THEN st'[p][i] \in {"FAILED", "PURGED"}
                                        ELSE st'[p][i] = st[p][i]
      BY <1>3, MarkEffect
    <2>4. st[p][at[p]] \in Restorable
      BY <1>1 DEF Advanced, Restorable
    <2>5. \A t \in Txs, i \in Items :
              /\ quar'[t][i] # "none" => quar[t][i] # "none"
              /\ quar'[t][i] = "none" => quar[t][i] = "none" \/ (t = cur[p] /\ WillRecord(p, i)')
      <3>1. CASE UNCHANGED quar
        BY <3>1
      <3>2. CASE quar' = [quar EXCEPT ![cur[p]][at[p]] = "none"] /\ Mark(p, "PURGED")
        <4>1. st'[p][at[p]] = "PURGED"
          BY <1>1, <3>2, MarkEffect
        <4>. QED
          BY <1>1, <2>2, <3>2, <4>1 DEF Typed, SharedOK, WillRecord
      <3>. QED
        BY <1>3, <3>1, <3>2
    <2>. QED
      BY <1>1, <2>1, <2>2, <2>3, <2>4, <2>5, LoopStep
  <1>. QED
    BY <1>2, <1>3 DEF PurgeRemove, Quarantine

\* A restore renames an item,
LEMMA RestoreRenames ==
    ASSUME Typed, Advanced, ProcInv, RowInv, NEW p \in Procs, RestoreRename(p)
    PROVE  RowInv'
  <1>. USE DEF RowInv
  <1>1. /\ pc[p] = "rename" /\ UNCHANGED <<row, cur, at>> /\ Goto(p, "logRestore")
        /\ Mark(p, "RESTORED") /\ quar' = [quar EXCEPT ![cur[p]][at[p]] = "none"]
    BY DEF RestoreRename
  <1>2. at[p] \in Items /\ cur[p] \in Txs /\ pc'[p] = "logRestore"
    BY <1>1, BusyHasTx DEF Typed, ProcOK, Goto
  <1>3. OthersStay(p)
    BY <1>1, OwnMemory
  <1>4. \A i \in Items : st'[p][i] = IF i = at[p] THEN "RESTORED" ELSE st[p][i]
    BY <1>1, MarkEffect
  <1>5. st[p][at[p]] \in Restorable
    BY <1>1, <1>2 DEF Advanced
  <1>6. \A t \in Txs, i \in Items :
            /\ quar'[t][i] # "none" => quar[t][i] # "none"
            /\ quar'[t][i] = "none" => quar[t][i] = "none" \/ (t = cur[p] /\ WillRecord(p, i)')
    BY <1>1, <1>2, <1>4 DEF Typed, SharedOK, WillRecord, RestorePcs
  <1>. QED
    BY <1>1, <1>2, <1>3, <1>4, <1>5, <1>6, LoopStep DEF RestorePcs

\* and writes its manifests.
LEMMA RestoreLogs ==
    ASSUME Typed, ProcInv, RowInv, NEW p \in Procs, RestoreLog(p)
    PROVE  RowInv'
  <1>. USE DEF RowInv
  <1>1. /\ pc[p] = "logRestore" /\ UNCHANGED <<row, quar, st>>
        /\ NextItem(p, "lstatQuarantine", "recordRestore")
    BY DEF RestoreLog
  <1>2. OthersStay(p) /\ cur' = cur
    BY <1>1, OwnMemory DEF NextItem
  <1>3. pc[p] \in RestorePcs /\ pc'[p] \in RestorePcs
    BY <1>1, NextItemEffect DEF RestorePcs
  <1>. QED
    BY <1>1, <1>2, <1>3, LoopStep

\* A clean only adds to what is in quarantine, and knows it.
LEMMA CleanAdds ==
    ASSUME Typed, ProcInv, RowInv, NEW p \in Procs,
           \/ CleanValidate(p) \/ CleanPrepare(p) \/ CleanLeave(p)
           \/ CleanMove(p) \/ CleanLog(p)
    PROVE  RowInv'
  <1>. USE DEF RowInv
  <1>1. at[p] \in Items
    BY DEF Typed, ProcOK
  <1>2. CASE CleanValidate(p) \/ CleanLeave(p)
    <2>1. /\ UNCHANGED <<row, quar>>
          /\ \/ pc[p] = "validate" /\ NextItem(p, "validate", "prepare")
             \/ pc[p] = "move" /\ NextItem(p, "move", "record")
          /\ UNCHANGED st \/ \E s \in {"PENDING", "SKIPPED", "FAILED"} : Mark(p, s)
      BY <1>2 DEF CleanValidate, CleanLeave, diskVars
    <2>2. OthersStay(p) /\ cur' = cur
      BY <2>1, OwnMemory DEF NextItem
    <2>3. /\ pc[p] \in CleanPcs /\ pc'[p] \in CleanPcs
          /\ pc[p] \in CleaningPcs => pc'[p] \in CleaningPcs
      BY <2>1, NextItemEffect DEF CleanPcs, CleaningPcs
    <2>4. \A i \in Items : st'[p][i] = "MOVED" => st[p][i] = "MOVED"
      BY <2>1, MarkEffect
    <2>. QED
      BY <2>1, <2>2, <2>3, <2>4, CleaningStep
  <1>3. CASE CleanPrepare(p)
    <2>1. pc[p] = "prepare" /\ UNCHANGED <<row, quar>>
      BY <1>3 DEF CleanPrepare
    <2>2. CASE Goto(p, "move") /\ UNCHANGED <<cur, at, st>>
      <3>1. OthersStay(p) /\ pc'[p] = "move"
        BY <2>2, OwnMemory DEF Goto, Typed, ProcOK
      <3>. QED
        BY <2>1, <2>2, <3>1, CleaningStep DEF CleanPcs, CleaningPcs
    <2>3. CASE End(p)
      BY <2>1, <2>3, LeavingStep DEF CleaningPcs, WillRecord, RestorePcs, PurgingPcs
    <2>. QED
      BY <1>3, <2>2, <2>3 DEF CleanPrepare
  <1>4. CASE CleanMove(p)
    <2>1. /\ pc[p] = "move" /\ UNCHANGED <<row, cur, at>> /\ Goto(p, "logMove")
          /\ Mark(p, "MOVED") /\ orig[at[p]] # "none"
          /\ quar' = [quar EXCEPT ![cur[p]][at[p]] = orig[at[p]]]
      BY <1>4 DEF CleanMove, Original
    <2>2. OthersStay(p) /\ pc'[p] = "logMove" /\ cur[p] \in Txs
      BY <2>1, OwnMemory, BusyHasTx DEF Goto, Typed, ProcOK
    <2>3. \A t \in Txs, i \in Items :
              quar'[t][i] = IF t = cur[p] /\ i = at[p] THEN orig[at[p]] ELSE quar[t][i]
      BY <1>1, <2>1, <2>2 DEF Typed, SharedOK
    <2>4. \A i \in Items : st'[p][i] = IF i = at[p] THEN "MOVED" ELSE st[p][i]
      BY <2>1, MarkEffect
    <2>. QED
      BY <1>1, <2>1, <2>2, <2>3, <2>4, CleaningStep DEF CleanPcs, CleaningPcs
  <1>5. CASE CleanLog(p)
    <2>1. /\ pc[p] = "logMove" /\ UNCHANGED <<row, quar, st>> /\ NextItem(p, "move", "record")
      BY <1>5 DEF CleanLog
    <2>2. OthersStay(p) /\ cur' = cur /\ pc'[p] \in {"move", "record"}
      BY <2>1, OwnMemory, NextItemEffect
    <2>. QED
      BY <2>1, <2>2, CleaningStep DEF CleanPcs, CleaningPcs
  <1>. QED
    BY <1>2, <1>3, <1>4, <1>5

\* A command that writes its row, or has nothing to write.
LEMMA Records ==
    ASSUME Typed, Advanced, ProcInv, RowInv, "db" \notin Faults, NEW p \in Procs,
           CleanRecord(p) \/ RestoreRecord(p) \/ PurgeRecord(p) \/ PurgeUnlink(p)
    PROVE  RowInv'
  <1>1. UNCHANGED quar
    BY DEF CleanRecord, RestoreRecord, PurgeRecord, PurgeUnlink, diskVars
  <1>2. CASE CleanRecord(p) \/ RestoreRecord(p)
    <2>. DEFINE c == Summary(st[p], "MOVED", "QUARANTINED", "PARTIALLY_QUARANTINED")
                r == Summary(st[p], "RESTORED", "RESTORED", "PARTIALLY_RESTORED")
    <2>1. pc[p] \in {"record", "recordRestore"} /\ (WriteRow(p, c) \/ WriteRow(p, r)) /\ End(p)
      BY <1>2 DEF CleanRecord, RestoreRecord
    <2>2. c # "NONE" /\ r # "NONE"
      BY DEF Summary
    <2>. HIDE DEF c, r
    <2>. QED
      BY <1>1, <2>1, <2>2, TellingStep
  <1>3. CASE PurgeRecord(p)
    <2>. DEFINE s == PurgeStatus(st[p])
    <2>1. pc[p] = "recordPurge"
      BY <1>3 DEF PurgeRecord
    <2>2. s # "NONE"
      BY DEF PurgeStatus
    <2>3. \/ (\A i \in Items : st[p][i] # "PURGED") /\ UNCHANGED row /\ End(p)
          \/ WriteRow(p, s) /\ End(p)
          \/ WriteRow(p, s) /\ Goto(p, "unlink") /\ UNCHANGED <<cur, at, st>>
      BY <1>3 DEF PurgeRecord
    <2>. HIDE DEF s
    <2>4. CASE (\A i \in Items : st[p][i] # "PURGED") /\ UNCHANGED row /\ End(p)
      BY <1>1, <2>1, <2>4, LeavingStep DEF CleaningPcs, WillRecord, RestorePcs
    <2>. QED
      BY <1>1, <2>1, <2>2, <2>3, <2>4, TellingStep
  <1>4. CASE PurgeUnlink(p)
    <2>1. pc[p] = "unlink" /\ UNCHANGED row /\ End(p)
      BY <1>4 DEF PurgeUnlink
    <2>. QED
      BY <1>1, <2>1, LeavingStep DEF CleaningPcs, WillRecord, RestorePcs, PurgingPcs
  <1>. QED
    BY <1>2, <1>3, <1>4

\* A command that begins, or reads its items, believes its row.
LEMMA Begins ==
    ASSUME Typed, ProcInv, RowInv, NEW p \in Procs,
           CleanBegin(p) \/ RestoreBegin(p) \/ PurgeBegin(p) \/ PurgeLoad(p)
    PROVE  RowInv'
  <1>. USE DEF RowInv
  <1>1. /\ UNCHANGED <<row, quar>> /\ OthersStay(p) /\ pc[p] \in {"idle", "load"}
        /\ pc'[p] \in {"validate", "load", "lstatQuarantine", "check"}
        /\ pc[p] = "load" => cur'[p] = cur[p]
    BY DEF CleanBegin, RestoreBegin, PurgeBegin, PurgeLoad, Begin, Goto, OthersStay, diskVars,
           Typed, ProcOK
  <1>2. pc'[p] \in CleanPcs => st'[p] = Pending
    BY DEF CleanBegin, RestoreBegin, PurgeBegin, PurgeLoad, Begin, Goto, Typed, ProcOK,
           CleanPcs
  <1>3. pc'[p] \in {"lstatQuarantine", "check"} =>
            /\ cur'[p] \in Txs /\ row[cur'[p]].status # "NONE"
            /\ st'[p] = row[cur'[p]].items
    <2>1. CASE PurgeLoad(p)
      <3>1. pc[p] = "load" /\ cur' = cur /\ st'[p] = row[cur[p]].items
        BY <2>1 DEF PurgeLoad, Typed, ProcOK
      <3>2. cur[p] \in Txs /\ row[cur[p]].status # "NONE"
        BY <3>1, BusyHasTx DEF Typed, ProcInv, Ownership, PurgePcs
      <3>. QED
        BY <3>1, <3>2
    <2>2. CASE CleanBegin(p) \/ RestoreBegin(p) \/ PurgeBegin(p)
      BY <2>2 DEF CleanBegin, RestoreBegin, PurgeBegin, Begin, Goto, Typed, ProcOK
    <2>. QED
      BY <2>1, <2>2
  <1>4. Vanished'
    BY <1>1 DEF Vanished, WillRecord, OthersStay, RestorePcs, PurgingPcs
  <1>5. Holding'
    BY <1>1, <1>2 DEF Holding, OthersStay, Pending, CleanPcs
  <1>6. Unrecorded'
    BY <1>1 DEF Unrecorded, OthersStay, CleaningPcs
  <1>7. Noted'
    BY <1>1, <1>3 DEF Noted, OthersStay, RestorePcs, PurgingPcs
  <1>. QED
    BY <1>4, <1>5, <1>6, <1>7

\* Rows and disk agree at first,
LEMMA RowInitially == Init => RowInv
  BY DEF Init, RowInv, Vanished, Holding, Unrecorded, Noted, NoRow, Pending,
         CleanPcs, RestorePcs, PurgingPcs

\* and every step keeps the account.
LEMMA RowInvStep ==
    ASSUME Faults \intersect {"crash", "db", "tamper"} = {}, IInv, RowInv, [Next]_vars
    PROVE  RowInv'
  <1>1. Typed /\ Advanced /\ ProcInv
    BY IInvSplit
  <1>2. ASSUME NEW p \in Procs, CleanBegin(p) \/ RestoreBegin(p) \/ PurgeBegin(p)
        PROVE  RowInv'
    BY <1>1, <1>2, Begins
  <1>3. ASSUME NEW p \in Procs, CleanStep(p)
        PROVE  RowInv'
    BY <1>1, <1>3, CleanAdds, Records DEF CleanStep
  <1>4. ASSUME NEW p \in Procs, RestoreStep(p)
        PROVE  RowInv'
    BY <1>1, <1>4, RestoreLooks, RestoreRenames, RestoreLogs, Records DEF RestoreStep
  <1>5. ASSUME NEW p \in Procs, PurgeStep(p)
        PROVE  RowInv'
    BY <1>1, <1>5, Begins, PurgeLooks, PurgeRemoves, Records DEF PurgeStep
  <1>6. ASSUME UNCHANGED <<quar, row, procVars>>
        PROVE  RowInv'
    BY <1>6 DEF procVars, RowInv, Vanished, WillRecord, Holding, Unrecorded, Noted
  <1>7. \A p \in Procs : ~Crash(p)
    BY DEF Crash
  <1>8. \A t \in Txs, i \in Items : ~Tamper(t, i)
    BY DEF Tamper
  <1>9. (\E i \in Items : Outside(i)) \/ Tick \/ UNCHANGED vars => UNCHANGED <<quar, row, procVars>>
    BY DEF Outside, Tick, vars, diskVars
  <1>. QED
    BY <1>2, <1>3, <1>4, <1>5, <1>6, <1>7, <1>8, <1>9 DEF Next, Run

\* While no command runs, rows and disk agree, if commands are neither killed nor
\* refused a row and nobody alters the quarantine by hand.
THEOREM RowsMatchDisk ==
    ASSUME Faults \intersect {"crash", "db", "tamper"} = {}
    PROVE  Spec => []RowMatchesDisk
  <1>1. IInv /\ RowInv => RowMatchesDisk
    <2>. SUFFICES ASSUME IInv, RowInv, Quiet, NEW t \in Txs, NEW i \in Items
                  PROVE  /\ row[t].items[i] = "MOVED" => quar[t][i] # "none"
                         /\ quar[t][i] # "none" => row[t].items[i] \in {"MOVED", "SKIPPED", "FAILED"}
      BY DEF RowMatchesDisk
    <2>1. row[t].items[i] = "MOVED" => quar[t][i] # "none"
      BY DEF RowInv, Vanished, WillRecord, Quiet, RestorePcs, PurgingPcs
    <2>2. ASSUME quar[t][i] # "none"
          PROVE  row[t].items[i] \in {"MOVED", "SKIPPED", "FAILED"}
      <3>1. row[t].status # "NONE"
        BY <2>2 DEF RowInv, Unrecorded, Quiet, CleaningPcs
      <3>2. row[t].items[i] \notin {"PENDING", "RESTORED", "PURGED"}
        BY <2>2, <3>1 DEF RowInv, Noted, IInv, RecordSound
      <3>. QED
        BY <3>2 DEF IInv, TypeOK, ItemStatus
    <2>. QED
      BY <2>1, <2>2
  <1>2. IInv /\ RowInv /\ [Next]_vars => RowInv'
    BY RowInvStep
  <1>. QED
    BY <1>1, <1>2, RowInitially, Invariance, PTL DEF Spec

------------------------------------------------------------------------------
(* What is recorded as restored or purged stays so, unless two commands     *)
(* work on one transaction.                                                 *)

Final == {"RESTORED", "PURGED"}

\* No two commands at a time work on one transaction. Clean draws an ID of its own;
\* nothing in the code keeps restore and purge from it.
Alone == \A p, q \in Procs : cur[p] = cur[q] /\ cur[p] # NoTx => p = q

\* Where a command has read the items of its row.
ReadingPcs == RestorePcs \union PurgingPcs

\* A restore or purge knows what its row records as final, and an item that it
\* handles is not among that.
Recalls(p) ==
    /\ pc[p] \in {"lstatOriginal", "rename", "remove"} => st[p][at[p]] \in Restorable
    /\ pc[p] \in ReadingPcs =>
         \A i \in Items : row[cur[p]].items[i] \in Final => st[p][i] = row[cur[p]].items[i]

Recall == \A p \in Procs : Recalls(p)

\* No row says otherwise than before of an item that it recorded as final.
Sticks ==
    \A t \in Txs, i \in Items : row[t].items[i] \in Final => row'[t].items[i] = row[t].items[i]

\* A step of p leaves alone what others recall.
LEMMA OthersRecall ==
    ASSUME Typed, Recall, NEW p \in Procs, OthersStay(p), UNCHANGED row, Recalls(p)'
    PROVE  Recall' /\ Sticks
  <1>1. \A q \in Procs \ {p} : Recalls(q)'
    BY DEF Recall, Recalls, OthersStay
  <1>. QED
    BY <1>1 DEF Recall, Sticks

\* A command that is not about to restore or purge has nothing to recall.
LEMMA NothingToRecall ==
    ASSUME Typed, Recall, NEW p \in Procs, OthersStay(p), UNCHANGED row,
           pc'[p] \in CleanPcs \union {"idle", "load", "unlink"}
    PROVE  Recall' /\ Sticks
  <1>1. Recalls(p)'
    BY DEF Recalls, CleanPcs, ReadingPcs, RestorePcs, PurgingPcs
  <1>. QED
    BY <1>1, OthersRecall

\* A step within a restore or purge marks only items that are not final.
LEMMA LoopRecalls ==
    ASSUME Typed, Recall, NEW p \in Procs, OthersStay(p), UNCHANGED <<row, cur>>,
           pc[p] \in ReadingPcs,
           \A i \in Items : st'[p][i] = st[p][i] \/ st[p][i] \in Restorable,
           pc'[p] \in {"lstatOriginal", "rename", "remove"} =>
              at'[p] = at[p] /\ st'[p] = st[p] /\ st[p][at[p]] \in Restorable
    PROVE  Recall' /\ Sticks
  <1>1. Recalls(p)'
    BY DEF Recall, Recalls, Restorable, Final
  <1>. QED
    BY <1>1, OthersRecall

\* A command that reads the items knows the row; a clean, a crash or an end needs none.
LEMMA BeginRecalls ==
    ASSUME Typed, Recall, NEW p \in Procs,
           \/ CleanBegin(p) \/ RestoreBegin(p) \/ PurgeBegin(p) \/ PurgeLoad(p)
           \/ PurgeUnlink(p) \/ Crash(p)
    PROVE  Recall' /\ Sticks
  <1>1. CASE CleanBegin(p) \/ PurgeBegin(p) \/ Crash(p) \/ PurgeUnlink(p)
    <2>1. OthersStay(p) /\ UNCHANGED row /\ pc'[p] \in {"validate", "load", "idle"}
      BY <1>1 DEF CleanBegin, PurgeBegin, Crash, PurgeUnlink, Begin, End, Goto, OthersStay, Typed, ProcOK
    <2>. QED
      BY <2>1, NothingToRecall DEF CleanPcs
  <1>2. CASE RestoreBegin(p) \/ PurgeLoad(p)
    <2>1. /\ OthersStay(p) /\ UNCHANGED row /\ pc'[p] \in {"lstatQuarantine", "check"}
          /\ st'[p] = row[cur'[p]].items
      BY <1>2 DEF RestoreBegin, PurgeLoad, Begin, Goto, OthersStay, Typed, ProcOK
    <2>2. Recalls(p)'
      BY <2>1 DEF Recalls
    <2>. QED
      BY <2>1, <2>2, OthersRecall
  <1>. QED
    BY <1>1, <1>2

\* A clean records nothing before its last step.
LEMMA CleanRecalls ==
    ASSUME Typed, Recall, NEW p \in Procs, CleanStep(p), ~CleanRecord(p)
    PROVE  Recall' /\ Sticks
  <1>1. CASE CleanValidate(p) \/ CleanLeave(p) \/ CleanMove(p) \/ CleanLog(p)
    <2>1. UNCHANGED <<row, cur>> /\ pc'[p] \in CleanPcs
      BY <1>1, NextItemEffect
      DEF CleanValidate, CleanLeave, CleanMove, CleanLog, CleanPcs, Goto, Typed, ProcOK
    <2>2. /\ UNCHANGED st \/ \E s : Mark(p, s)
          /\ \/ (\E label : Goto(p, label)) /\ UNCHANGED at
             \/ \E loop, exit : NextItem(p, loop, exit)
      BY <1>1 DEF CleanValidate, CleanLeave, CleanMove, CleanLog
    <2>3. OthersStay(p)
      BY <2>1, <2>2, OwnMemory
    <2>. QED
      BY <2>1, <2>3, NothingToRecall
  <1>2. CASE CleanPrepare(p)
    <2>1. OthersStay(p) /\ UNCHANGED row /\ pc'[p] \in {"move", "idle"}
      BY <1>2 DEF CleanPrepare, End, Goto, OthersStay, Typed, ProcOK
    <2>. QED
      BY <2>1, NothingToRecall DEF CleanPcs
  <1>. QED
    BY <1>1, <1>2 DEF CleanStep

\* Restore and purge look only at items that are not final, and decide on those.
LEMMA DecideRecalls ==
    ASSUME Typed, Recall, NEW p \in Procs,
           \/ RestoreStep(p) /\ ~RestoreRecord(p)
           \/ PurgeCheck(p) \/ PurgeRemove(p)
    PROVE  Recall' /\ Sticks
  <1>. USE DEF Status, Restorable
  <1>1. CASE RestoreLstatQuarantine(p) \/ RestoreLstatOriginal(p) \/ PurgeCheck(p)
    <2>1. /\ UNCHANGED <<row, cur>> /\ pc[p] \in ReadingPcs
          /\ UNCHANGED st \/ \E s : Mark(p, s)
          /\ \/ (\E label : Goto(p, label)) /\ UNCHANGED at
             \/ \E loop, exit : NextItem(p, loop, exit)
      BY <1>1 DEF RestoreLstatQuarantine, RestoreLstatOriginal, PurgeCheck, NextItem,
                  ReadingPcs, RestorePcs, PurgingPcs
    <2>2. OthersStay(p)
      BY <2>1, OwnMemory
    <2>3. UNCHANGED st \/ (st[p][at[p]] \in Restorable /\ \E s : Mark(p, s))
      BY <1>1 DEF RestoreLstatQuarantine, RestoreLstatOriginal, PurgeCheck, Recall, Recalls
    <2>4. \A i \in Items : st'[p][i] = st[p][i] \/ st[p][i] \in Restorable
      BY <2>3, MarkEffect
    <2>5. pc'[p] \in {"lstatOriginal", "rename", "remove"} =>
             at'[p] = at[p] /\ st'[p] = st[p] /\ st[p][at[p]] \in Restorable
      <3>1. ASSUME NEW loop \in {"lstatQuarantine", "check"},
                   NEW exit \in {"recordRestore", "recordPurge"}, NextItem(p, loop, exit)
            PROVE  pc'[p] \notin {"lstatOriginal", "rename", "remove"}
        BY <3>1, NextItemEffect
      <3>2. CASE RestoreLstatQuarantine(p)
        <4>1. \/ NextItem(p, "lstatQuarantine", "recordRestore")
              \/ UNCHANGED <<at, st>> /\ st[p][at[p]] \in Restorable
          BY <3>2 DEF RestoreLstatQuarantine
        <4>. QED
          BY <3>1, <4>1
      <3>3. CASE RestoreLstatOriginal(p)
        <4>1. \/ NextItem(p, "lstatQuarantine", "recordRestore")
              \/ UNCHANGED <<at, st>> /\ st[p][at[p]] \in Restorable
          BY <3>3 DEF RestoreLstatOriginal, Recall, Recalls
        <4>. QED
          BY <3>1, <4>1
      <3>4. CASE PurgeCheck(p)
        <4>1. \/ NextItem(p, "check", "recordPurge")
              \/ UNCHANGED <<at, st>> /\ st[p][at[p]] \in Restorable
          BY <3>4 DEF PurgeCheck
        <4>. QED
          BY <3>1, <4>1
      <3>. QED
        BY <1>1, <3>2, <3>3, <3>4
    <2>. QED
      BY <2>1, <2>2, <2>4, <2>5, LoopRecalls
  <1>2. CASE RestoreFail(p) \/ RestoreRename(p) \/ PurgeRemove(p)
    <2>1. CASE UNCHANGED procVars
      BY <1>2, <2>1 DEF RestoreFail, RestoreRename, PurgeRemove, procVars, Recall, Recalls, Sticks
    <2>2. CASE ~UNCHANGED procVars
      <3>1. /\ UNCHANGED <<row, cur>> /\ pc[p] \in {"rename", "remove"}
            /\ \E s : Mark(p, s)
            /\ \/ Goto(p, "logRestore") /\ UNCHANGED at
               \/ NextItem(p, "lstatQuarantine", "recordRestore")
               \/ NextItem(p, "check", "recordPurge")
        BY <1>2, <2>2 DEF RestoreFail, RestoreRename, PurgeRemove, NextItem
      <3>2. OthersStay(p)
        BY <3>1, OwnMemory
      <3>3. st[p][at[p]] \in Restorable
        BY <3>1 DEF Recall, Recalls
      <3>4. \A i \in Items : st'[p][i] = st[p][i] \/ st[p][i] \in Restorable
        BY <3>1, <3>3, MarkEffect
      <3>5. pc'[p] \notin {"lstatOriginal", "rename", "remove"}
        <4>1. CASE Goto(p, "logRestore")
          BY <4>1 DEF Goto, Typed, ProcOK
        <4>2. CASE NextItem(p, "lstatQuarantine", "recordRestore")
          BY <4>2, NextItemEffect
        <4>3. CASE NextItem(p, "check", "recordPurge")
          BY <4>3, NextItemEffect
        <4>. QED
          BY <3>1, <4>1, <4>2, <4>3
      <3>. QED
        BY <3>1, <3>2, <3>4, <3>5, LoopRecalls DEF ReadingPcs, RestorePcs, PurgingPcs
    <2>. QED
      BY <2>1, <2>2
  <1>3. CASE RestoreLog(p)
    <2>1. /\ UNCHANGED <<row, cur, st>> /\ pc[p] = "logRestore"
          /\ NextItem(p, "lstatQuarantine", "recordRestore")
      BY <1>3 DEF RestoreLog, NextItem
    <2>2. OthersStay(p)
      BY <2>1, OwnMemory
    <2>3. pc'[p] \notin {"lstatOriginal", "rename", "remove"}
      BY <2>1, NextItemEffect
    <2>. QED
      BY <2>1, <2>2, <2>3, LoopRecalls DEF ReadingPcs, RestorePcs
  <1>. QED
    BY <1>1, <1>2, <1>3 DEF RestoreStep

\* What is recorded in the end agrees with what the row already says is final, and is
\* nobody else's.
LEMMA RecordRecalls ==
    ASSUME Typed, ProcInv, Alone, Recall, NEW p \in Procs,
           CleanRecord(p) \/ RestoreRecord(p) \/ PurgeRecord(p)
    PROVE  Recall' /\ Sticks
  <1>1. /\ pc[p] \in {"record", "recordRestore", "recordPurge"}
        /\ UNCHANGED row \/ \E s : WriteRow(p, s)
        /\ End(p) \/ (Goto(p, "unlink") /\ UNCHANGED <<cur, at, st>> /\ pc[p] = "recordPurge")
    BY DEF CleanRecord, RestoreRecord, PurgeRecord
  <1>2. cur[p] \in Txs
    BY <1>1, BusyHasTx DEF Typed
  <1>3. OthersStay(p) /\ pc'[p] \in {"idle", "unlink"}
    BY <1>1 DEF OthersStay, End, Goto, Typed, ProcOK
  <1>4. \A t \in Txs : row'[t] = row[t] \/ (t = cur[p] /\ row'[t].items = st[p])
    <2>1. ASSUME NEW s, WriteRow(p, s)
          PROVE  \A t \in Txs : row'[t] = row[t] \/ (t = cur[p] /\ row'[t].items = st[p])
      <3>1. pc[p] # "idle"
        BY <1>1
      <3>2. \A t \in Txs :
               row'[t] = IF t = cur[p]
                         THEN [status |-> s, finished |-> clock, items |-> st[p]]
                         ELSE row[t]
        BY <2>1, <3>1, WriteRowEffect
      <3>. QED
        BY <3>2
    <2>. QED
      BY <1>1, <2>1
  <1>5. \A i \in Items : row[cur[p]].items[i] \in Final => st[p][i] = row[cur[p]].items[i]
    <2>1. CASE pc[p] = "record"
      <3>1. row[cur[p]].items = Pending
        BY <1>2, <2>1 DEF ProcInv, Ownership, CleanPcs
      <3>. QED
        BY <3>1 DEF Pending, Final
    <2>2. CASE pc[p] # "record"
      BY <1>1, <2>2 DEF Recall, Recalls, ReadingPcs, RestorePcs, PurgingPcs
    <2>. QED
      BY <2>1, <2>2
  <1>6. Sticks
    BY <1>4, <1>5 DEF Sticks
  <1>7. Recalls(p)'
    BY <1>3 DEF Recalls, ReadingPcs, RestorePcs, PurgingPcs
  <1>8. ASSUME NEW q \in Procs \ {p}, pc[q] # "idle"
        PROVE  cur[q] \in Txs \ {cur[p]}
    <2>1. q \in Procs /\ ProcOK
      BY DEF Typed
    <2>2. cur[q] \in Txs
      BY <1>8, <2>1, BusyHasTx
    <2>3. cur[q] # NoTx
      BY <2>2, CleanupAssumption
    <2>4. cur[q] # cur[p]
      BY <2>1, <2>3 DEF Alone
    <2>. QED
      BY <2>2, <2>4
  <1>9. ASSUME NEW q \in Procs \ {p} PROVE Recalls(q)'
    <2>1. pc'[q] = pc[q] /\ cur'[q] = cur[q] /\ at'[q] = at[q] /\ st'[q] = st[q]
      BY <1>3 DEF OthersStay
    <2>2. pc[q] # "idle" => row'[cur[q]] = row[cur[q]]
      BY <1>4, <1>8
    <2>. QED
      BY <2>1, <2>2 DEF Recall, Recalls, ReadingPcs, RestorePcs, PurgingPcs
  <1>. QED
    BY <1>6, <1>7, <1>9 DEF Recall

\* Every step keeps what is recalled and what is recorded.
LEMMA RecallStep ==
    ASSUME IInv, Alone, Recall, [Next]_vars
    PROVE  Recall' /\ Sticks
  <1>1. Typed /\ ProcInv
    BY IInvSplit
  <1>2. ASSUME UNCHANGED <<row, procVars>>
        PROVE  Recall' /\ Sticks
    BY <1>2 DEF procVars, Recall, Recalls, Sticks
  <1>3. (\E i \in Items : Outside(i)) \/ (\E t \in Txs, i \in Items : Tamper(t, i)) \/ Tick
           \/ UNCHANGED vars => UNCHANGED <<row, procVars>>
    BY DEF Outside, Tamper, Tick, vars, diskVars
  <1>4. ASSUME NEW p \in Procs, CleanBegin(p) \/ RestoreBegin(p) \/ PurgeBegin(p) \/ Crash(p)
        PROVE  Recall' /\ Sticks
    BY <1>1, <1>4, BeginRecalls
  <1>5. ASSUME NEW p \in Procs, Run(p)
        PROVE  Recall' /\ Sticks
    BY <1>1, <1>5, CleanRecalls, DecideRecalls, RecordRecalls, BeginRecalls
    DEF Run, CleanStep, RestoreStep, PurgeStep
  <1>. QED
    BY <1>2, <1>3, <1>4, <1>5 DEF Next

\* As long as no two commands work on one transaction at a time, what a restore or purge
\* has recorded as restored or purged no later command records otherwise, whatever
\* fails, dies or is altered by hand meanwhile. (Two restores at once may undo it: the
\* later one finds nothing in quarantine and records a failure.)
THEOREM FinalRecordsAreKept == Spec /\ []Alone => FinalRecordsStick
  <1>1. Init => Recall
    BY DEF Init, Recall, Recalls, ReadingPcs, RestorePcs, PurgingPcs
  <1>2. IInv /\ Alone /\ Recall /\ [Next]_vars => Recall' /\ Sticks
    BY RecallStep
  <1>3. Sticks <=> (\A t \in Txs, i \in Items :
                      row[t].items[i] \in {"RESTORED", "PURGED"} =>
                          row'[t].items[i] = row[t].items[i])
    BY DEF Sticks, Final
  <1>. QED
    BY <1>1, <1>2, <1>3, Invariance, PTL DEF Spec, FinalRecordsStick

------------------------------------------------------------------------------
(* Clean, restore and purge implement QuarantineStore as long as nobody     *)
(* alters the quarantine directory by hand, whatever crashes or fails and   *)
(* however many processes run at the same time.                             *)

\* A step that touches neither trees nor the clock is a stutter of the store.
LEMMA Stutters ==
    ASSUME UNCHANGED <<clock, orig, quar, movedAt>>
    PROVE  UNCHANGED Store!vars
  BY DEF Store!vars

\* The moves of a clean set trees aside: their place in quarantine is empty.
LEMMA MoveIsSetAside ==
    ASSUME IInv, NEW p \in Procs, CleanMove(p)
    PROVE  Store!Next
  <1>1. /\ pc[p] = "move" /\ cur[p] \in Txs /\ at[p] \in Items
        /\ orig[at[p]] \in Tree
    BY BusyHasTx, TypeSplit
    DEF IInv, CleanMove, Original, Content, ProcOK, SharedOK
  <1>2. st[p][at[p]] = "PENDING" /\ quar[cur[p]][at[p]] = "none"
    BY <1>1 DEF IInv, Cleaning, CleanPcs, CleanMove, Status
  <1>3. Store!SetAside(cur[p], at[p])
    BY <1>1, <1>2 DEF CleanMove, Original, Store!SetAside, Tree, Store!Tree
  <1>. QED
    BY <1>1, <1>3 DEF Store!Next

\* The moves of a restore put a whole tree back, into an empty place.
LEMMA RenameIsPutBack ==
    ASSUME IInv, NEW p \in Procs, RestoreRename(p)
    PROVE  Store!Next
  <1>1. /\ pc[p] = "rename" /\ cur[p] \in Txs /\ at[p] \in Items
        /\ quar[cur[p]][at[p]] \in Content
    BY BusyHasTx, TypeSplit
    DEF IInv, RestoreRename, ProcOK, SharedOK
  <1>2. Store!PutBack(cur[p], at[p])
    BY <1>1 DEF RestoreRename, CanRename, Original, Quarantine, Content,
                Store!PutBack, Tree, Store!Tree
  <1>. QED
    BY <1>1, <1>2 DEF Store!Next

\* The removals of a purge destroy trees that are old enough, or find nothing.
LEMMA RemoveIsDestroy ==
    ASSUME IInv, NEW p \in Procs, PurgeRemove(p)
    PROVE  Store!Next \/ UNCHANGED Store!vars
  <1>1. /\ pc[p] = "remove" /\ cur[p] \in Txs /\ at[p] \in Items
        /\ quar[cur[p]][at[p]] \in Content
    BY BusyHasTx, TypeSplit
    DEF IInv, PurgeRemove, ProcOK, SharedOK
  <1>2. clock >= movedAt[cur[p]][at[p]] + Retention
    <2>1. /\ movedAt[cur[p]][at[p]] + Retention <= clock
          /\ clock \in Nat /\ movedAt[cur[p]][at[p]] \in Nat
      BY <1>1 DEF IInv, TypeOK, Retained, PurgePcs
    <2>. QED
      BY <2>1, CleanupAssumption
  <1>3. UNCHANGED <<clock, orig, movedAt>>
    BY DEF PurgeRemove
  <1>4. CASE quar[cur[p]][at[p]] = "none"
    <2>1. quar' = quar
      BY <1>1, <1>4 DEF PurgeRemove, Quarantine, IInv, TypeOK
    <2>. QED
      BY <1>3, <2>1, Stutters
  <1>5. CASE quar[cur[p]][at[p]] # "none"
    <2>1. CASE quar' = quar
      BY <1>3, <2>1, Stutters
    <2>2. CASE quar' # quar
      <3>1. \E c \in {"partial", "none"} : quar' = [quar EXCEPT ![cur[p]][at[p]] = c]
        BY <2>2 DEF PurgeRemove
      <3>2. Store!Destroy(cur[p], at[p])
        BY <1>1, <1>2, <1>3, <1>5, <3>1 DEF Store!Destroy, Content, Tree, Store!Tree
      <3>. QED
        BY <1>1, <3>2 DEF Store!Next
    <2>. QED
      BY <2>1, <2>2
  <1>. QED
    BY <1>4, <1>5

\* Every step of the commands and of the world is a step of the store.
LEMMA StoreStep ==
    ASSUME IInv, [Next]_vars, "tamper" \notin Faults
    PROVE  [Store!Next]_(Store!vars)
  <1>1. ASSUME NEW p \in Procs, CleanBegin(p) \/ RestoreBegin(p) \/ PurgeBegin(p)
        PROVE  UNCHANGED Store!vars
    BY <1>1, Stutters DEF CleanBegin, RestoreBegin, PurgeBegin, diskVars
  <1>2. ASSUME NEW p \in Procs,
               \/ CleanValidate(p) \/ CleanPrepare(p) \/ CleanLeave(p) \/ CleanLog(p)
               \/ CleanRecord(p) \/ Crash(p)
        PROVE  UNCHANGED Store!vars
    BY <1>2, Stutters
    DEF CleanValidate, CleanPrepare, CleanLeave, CleanLog, CleanRecord, Crash, diskVars
  <1>3. ASSUME NEW p \in Procs,
               \/ RestoreLstatQuarantine(p) \/ RestoreLstatOriginal(p) \/ RestoreFail(p)
               \/ RestoreLog(p) \/ RestoreRecord(p)
        PROVE  UNCHANGED Store!vars
    BY <1>3, Stutters
    DEF RestoreLstatQuarantine, RestoreLstatOriginal, RestoreFail, RestoreLog,
        RestoreRecord, diskVars
  <1>4. ASSUME NEW p \in Procs, PurgeLoad(p) \/ PurgeCheck(p) \/ PurgeRecord(p) \/ PurgeUnlink(p)
        PROVE  UNCHANGED Store!vars
    BY <1>4, Stutters DEF PurgeLoad, PurgeCheck, PurgeRecord, PurgeUnlink, diskVars
  <1>5. ASSUME NEW i \in Items, Outside(i)
        PROVE  Store!Next
    <2>1. Store!Outside(i)
      BY <1>5 DEF Outside, Store!Outside
    <2>. QED
      BY <2>1 DEF Store!Next
  <1>6. ASSUME Tick PROVE Store!Next
    BY <1>6 DEF Tick, diskVars, Store!Tick, Store!Next
  <1>7. ASSUME UNCHANGED vars PROVE UNCHANGED Store!vars
    BY <1>7, Stutters DEF vars, diskVars
  <1>8. ~ \E t \in Txs, i \in Items : Tamper(t, i)
    BY DEF Tamper
  <1>. QED
    BY <1>1, <1>2, <1>3, <1>4, <1>5, <1>6, <1>7, <1>8, MoveIsSetAside,
       RenameIsPutBack, RemoveIsDestroy
    DEF Next, Run, CleanStep, RestoreStep, PurgeStep

\* Clean never deletes, restore puts back what was set aside and only into an
\* empty place, purge destroys only what was in quarantine for the retention
\* period: the commands implement QuarantineStore.
THEOREM Refinement ==
    ASSUME "tamper" \notin Faults
    PROVE  Spec => StoreSpec
  <1>1. Init => Store!Init
    BY DEF Init, Store!Init
  <1>2. IInv /\ [Next]_vars => [Store!Next]_(Store!vars)
    BY StoreStep
  <1>. QED
    BY <1>1, <1>2, Invariance, PTL DEF Spec, StoreSpec, Store!Spec
==============================================================================
