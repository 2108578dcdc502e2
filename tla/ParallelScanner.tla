--------------------------- MODULE ParallelScanner ---------------------------
(***************************************************************************)
(* The bounded parallel walk of internal/scanner/scanner.go: one caller     *)
(* that hands directories to workers over an unbuffered channel, takes      *)
(* their results from a buffered one and calls the visitor, and the         *)
(* shutdown of the workers when the walk is done, cancelled or refused.     *)
(*                                                                          *)
(* A directory below two configured roots is walked once for each of them:  *)
(* it stands for two elements of Dirs. What a visitor does with an entry    *)
(* and the order of the queue play no part.                                 *)
(***************************************************************************)
EXTENDS Integers, Sequences, FiniteSets

CONSTANTS
    Dirs,        \* the directories below the roots, the roots included
    NoDir,       \* the work of a worker that has none
    Roots,       \* the roots left after exclusion and removal of duplicates
    Subdirs,     \* Subdirs[d]: the directories in d that are not excluded
    Depth,       \* Depth[d]: the distance of d from its root
    MaxDepth,
    Workers,
    Faults       \* what may happen, see FaultKinds

\* cancel: the caller's context ends; visit: the visitor returns an error;
\* read: ReadDir or Lstat fails.
FaultKinds == {"cancel", "visit", "read"}

ASSUME ScannerAssumption ==
    /\ NoDir \notin Dirs
    /\ Roots \subseteq Dirs
    /\ Subdirs \in [Dirs -> SUBSET Dirs]
    /\ Depth \in [Dirs -> Nat]
    /\ MaxDepth \in Nat \ {0}
    /\ IsFiniteSet(Workers)
    /\ Workers # {}
    /\ Faults \subseteq FaultKinds

\* Each directory has one parent, unless it is a root.
ASSUME TreeAssumption ==
    /\ \A c \in Dirs \ Roots : \E d \in Dirs : c \in Subdirs[d]
    /\ \A d, e \in Dirs : d # e => Subdirs[d] \cap Subdirs[e] = {}
    /\ \A d \in Dirs : Roots \cap Subdirs[d] = {}
    /\ \A d \in Roots : Depth[d] = 0
    /\ \A d \in Dirs : \A c \in Subdirs[d] : Depth[c] = Depth[d] + 1

VARIABLES
    main,         \* where the caller is in Scan
    outcome,      \* what Scan will return
    ctxDone,      \* the caller's context has ended
    cancelled,    \* workerCtx was cancelled by the deferred function
    closed,       \* the jobs channel is closed
    queue,        \* directories not handed out yet
    active,       \* the count of results still expected
    results,      \* the results channel
    wpc,          \* wpc[w]: where worker w is
    work,         \* work[w]: the directoryResult that w is preparing
    done,         \* directories whose results the caller has taken
    directories,  \* result.Directories
    issues        \* directories with an issue in result.Issues

callerVars == <<main, outcome, queue, active, done, directories, issues>>
vars == <<callerVars, ctxDone, cancelled, closed, results, wpc, work>>

Result == [dir : Dirs, subdirs : SUBSET Dirs, issue : BOOLEAN]
Job(d) == [dir |-> d, subdirs |-> {}, issue |-> FALSE]
NoWork == Job(NoDir)

\* Mutant: one level too many.
ChildrenTooDeep(d) == {c \in Subdirs[d] : Depth[d] + 1 <= MaxDepth}

\* result.children of scanDirectory: what is still above the depth limit.
Children(d) == {c \in Subdirs[d] : Depth[d] + 1 < MaxDepth}

Init ==
    /\ main = "prepare"
    /\ outcome = "none"
    /\ ctxDone = FALSE
    /\ cancelled = FALSE
    /\ closed = FALSE
    /\ queue = {}
    /\ active = 0
    /\ results = <<>>
    /\ wpc = [w \in Workers |-> "unborn"]
    /\ work = [w \in Workers |-> NoWork]
    /\ done = {}
    /\ directories = 0
    /\ issues = {}

------------------------------------------------------------------------------
(* The caller.                                                              *)

\* prepareRoots, and the start of the workers unless no root is left.
Prepare ==
    /\ main = "prepare"
    /\ \E unusable \in SUBSET Roots :
        /\ "read" \in Faults \/ unusable = {}
        /\ queue' = Roots \ unusable
        /\ issues' = unusable
        /\ IF unusable = Roots
           THEN main' = "returned" /\ outcome' = "ok" /\ UNCHANGED wpc
           ELSE /\ main' = "loop"
                /\ wpc' = [w \in Workers |-> "receive"]
                /\ UNCHANGED outcome
    /\ UNCHANGED <<ctxDone, cancelled, closed, active, results, work, done, directories>>

\* Mutant: the directory that was handed out stays in the queue.
DispatchKeepingQueue(w) ==
    /\ main = "loop"
    /\ wpc[w] = "receive"
    /\ \E d \in queue :
        /\ UNCHANGED queue
        /\ work' = [work EXCEPT ![w] = Job(d)]
    /\ active' = active + 1
    /\ wpc' = [wpc EXCEPT ![w] = "scan"]
    /\ UNCHANGED <<main, outcome, ctxDone, cancelled, closed, results, done, directories, issues>>

\* Mutant: the directory that was handed out is not counted.
DispatchUncounted(w) ==
    /\ main = "loop"
    /\ wpc[w] = "receive"
    /\ \E d \in queue :
        /\ queue' = queue \ {d}
        /\ work' = [work EXCEPT ![w] = Job(d)]
    /\ wpc' = [wpc EXCEPT ![w] = "scan"]
    /\ UNCHANGED <<main, outcome, ctxDone, cancelled, closed, active, results, done,
                   directories, issues>>

\* The unbuffered send to jobs meets a worker that waits there.
Dispatch(w) ==
    /\ main = "loop"
    /\ wpc[w] = "receive"
    /\ \E d \in queue :
        /\ queue' = queue \ {d}
        /\ work' = [work EXCEPT ![w] = Job(d)]
    /\ active' = active + 1
    /\ wpc' = [wpc EXCEPT ![w] = "scan"]
    /\ UNCHANGED <<main, outcome, ctxDone, cancelled, closed, results, done, directories, issues>>

\* A result is taken, and the visitor called for its entries in turn.
Receive ==
    /\ main = "loop"
    /\ results # <<>>
    /\ LET r == Head(results) IN
        /\ results' = Tail(results)
        /\ active' = active - 1
        /\ directories' = directories + 1
        /\ done' = done \union {r.dir}
        /\ issues' = IF r.issue THEN issues \union {r.dir} ELSE issues
        /\ queue' = queue \union r.subdirs
    /\ \/ UNCHANGED <<main, outcome>>
       \/ "visit" \in Faults /\ main' = "cancel" /\ outcome' = "refused"
    /\ UNCHANGED <<ctxDone, cancelled, closed, wpc, work>>

LoopCancelled ==
    /\ main = "loop"
    /\ ctxDone
    /\ queue # {} \/ active > 0
    /\ main' = "cancel"
    /\ outcome' = "cancelled"
    /\ UNCHANGED <<ctxDone, cancelled, closed, queue, active, results, wpc, work, done,
                   directories, issues>>

\* Mutant: results still expected do not keep the loop going.
LoopEndsEarly ==
    /\ main = "loop"
    /\ queue = {}
    /\ main' = "cancel"
    /\ outcome' = "ok"
    /\ UNCHANGED <<ctxDone, cancelled, closed, queue, active, results, wpc, work, done,
                   directories, issues>>

LoopEnds ==
    /\ main = "loop"
    /\ queue = {} /\ active = 0
    /\ main' = "cancel"
    /\ outcome' = "ok"
    /\ UNCHANGED <<ctxDone, cancelled, closed, queue, active, results, wpc, work, done,
                   directories, issues>>

\* The deferred function: cancel, close, wait.
CancelWorkers ==
    /\ main = "cancel"
    /\ cancelled' = TRUE
    /\ main' = "close"
    /\ UNCHANGED <<outcome, ctxDone, closed, queue, active, results, wpc, work, done,
                   directories, issues>>

CloseJobs ==
    /\ main = "close"
    /\ closed' = TRUE
    /\ main' = "wait"
    /\ UNCHANGED <<outcome, ctxDone, cancelled, queue, active, results, wpc, work, done,
                   directories, issues>>

\* Mutant: Scan returns without waiting for the workers.
DoNotWait ==
    /\ main = "wait"
    /\ main' = "returned"
    /\ UNCHANGED <<outcome, ctxDone, cancelled, closed, queue, active, results, wpc, work,
                   done, directories, issues>>

WaitForWorkers ==
    /\ main = "wait"
    /\ \A w \in Workers : wpc[w] = "exited"
    /\ main' = "returned"
    /\ UNCHANGED <<outcome, ctxDone, cancelled, closed, queue, active, results, wpc, work,
                   done, directories, issues>>

CallerStep ==
    \/ Prepare \/ (\E w \in Workers : Dispatch(w)) \/ Receive
    \/ LoopCancelled \/ LoopEnds
    \/ CancelWorkers \/ CloseJobs \/ WaitForWorkers

------------------------------------------------------------------------------
(* A worker.                                                                *)

\* scanDirectory: a failing ReadDir finds nothing, a failing Lstat misses the
\* entry, and either is reported as an issue.
ScanDirectory(w) ==
    /\ wpc[w] = "scan"
    /\ \E found \in SUBSET Children(work[w].dir), issue \in BOOLEAN :
        /\ issue => "read" \in Faults
        /\ issue \/ found = Children(work[w].dir)
        /\ work' = [work EXCEPT ![w] = [dir |-> @.dir, subdirs |-> found, issue |-> issue]]
    /\ wpc' = [wpc EXCEPT ![w] = "send"]
    /\ UNCHANGED <<callerVars, ctxDone, cancelled, closed, results>>

SendResult(w) ==
    /\ wpc[w] = "send"
    /\ Len(results) < Cardinality(Workers)
    /\ results' = Append(results, work[w])
    /\ work' = [work EXCEPT ![w] = NoWork]
    /\ wpc' = [wpc EXCEPT ![w] = "receive"]
    /\ UNCHANGED <<callerVars, ctxDone, cancelled, closed>>

\* Mutant: the send does not watch the context.
AbandonNever(w) == FALSE /\ UNCHANGED vars

\* The other arm of the worker's select: workerCtx.Done().
Abandon(w) ==
    /\ wpc[w] = "send"
    /\ ctxDone \/ cancelled
    /\ wpc' = [wpc EXCEPT ![w] = "exited"]
    /\ work' = [work EXCEPT ![w] = NoWork]
    /\ UNCHANGED <<callerVars, ctxDone, cancelled, closed, results>>

Exit(w) ==
    /\ wpc[w] = "receive"
    /\ closed
    /\ wpc' = [wpc EXCEPT ![w] = "exited"]
    /\ UNCHANGED <<callerVars, ctxDone, cancelled, closed, results, work>>

WorkerStep(w) == ScanDirectory(w) \/ SendResult(w) \/ Abandon(w) \/ Exit(w)

------------------------------------------------------------------------------
CallerCancels ==
    /\ "cancel" \in Faults
    /\ ~ctxDone
    /\ ctxDone' = TRUE
    /\ UNCHANGED <<callerVars, cancelled, closed, results, wpc, work>>

Returned == main = "returned" /\ UNCHANGED vars

Next ==
    \/ CallerStep
    \/ \E w \in Workers : WorkerStep(w)
    \/ CallerCancels
    \/ Returned

Spec == Init /\ [][Next]_vars

\* Goroutines that can go on are scheduled; filesystem calls return.
FairSpec == Spec /\ WF_vars(CallerStep) /\ \A w \in Workers : WF_vars(WorkerStep(w))

------------------------------------------------------------------------------
(* Properties.                                                              *)

Busy == {w \in Workers : wpc[w] \in {"scan", "send"}}
Held == {work[w].dir : w \in Busy}
Buffered == {results[i].dir : i \in 1 .. Len(results)}

TypeOK ==
    /\ main \in {"prepare", "loop", "cancel", "close", "wait", "returned"}
    /\ outcome \in {"none", "ok", "cancelled", "refused"}
    /\ ctxDone \in BOOLEAN /\ cancelled \in BOOLEAN /\ closed \in BOOLEAN
    /\ queue \subseteq Dirs
    /\ active \in Nat
    /\ results \in Seq(Result) /\ Len(results) <= Cardinality(Workers)
    /\ wpc \in [Workers -> {"unborn", "receive", "scan", "send", "exited"}]
    /\ work \in [Workers -> Result \union {NoWork}]
    /\ done \subseteq Dirs
    /\ directories \in Nat
    /\ issues \subseteq Dirs

\* While the walk goes on, active counts the directories that are with the
\* workers or in the channel (a result lost to a cancelled context excepted):
\* the loop neither ends while one is outstanding nor waits for one too many.
ActiveCounts ==
    main = "loop" /\ ~ctxDone => active = Cardinality(Busy) + Len(results)

\* No directory is read or reported twice, however the workers interleave, and
\* Directories counts every one whose entries were visited.
ScannedOnce ==
    /\ \A v, w \in Busy : v # w => work[v].dir # work[w].dir
    /\ \A i, j \in 1 .. Len(results) : i # j => results[i].dir # results[j].dir
    /\ queue \cap (Held \union Buffered \union done) = {}
    /\ Held \cap (Buffered \union done) = {}
    /\ Buffered \cap done = {}
    /\ directories = Cardinality(done)

\* A walk that ends without an error has left out no directory, except below one
\* for which it reports an issue.
Complete ==
    outcome = "ok" =>
        /\ Roots \subseteq done \union issues
        /\ \A d \in done : Children(d) \subseteq done \/ d \in issues

\* Without issues that is every directory above the depth limit, and no other.
ExactlyInDepth ==
    outcome = "ok" /\ issues = {} => done = {d \in Dirs : Depth[d] < MaxDepth}

\* Scan leaves no goroutine behind that could still read or send.
NoLeak ==
    main = "returned" => \A w \in Workers : wpc[w] \in {"unborn", "exited"}

\* Scan returns: neither the full channel, nor a refusing visitor, nor a context
\* that ends at any moment leaves the caller and the workers waiting for each
\* other.
ScanReturns == <>(main = "returned")
==============================================================================
