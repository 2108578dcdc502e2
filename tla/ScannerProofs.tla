---------------------------- MODULE ScannerProofs -----------------------------
(***************************************************************************)
(* Proofs about ParallelScanner, for any tree of directories, any number of *)
(* workers, any depth limit and any set of faults.                          *)
(***************************************************************************)
EXTENDS ParallelScanner, WellFoundedInduction, FiniteSetTheorems, SequenceTheorems, TLAPS

------------------------------------------------------------------------------
(* The inductive invariant.                                                 *)

\* Before the walk there is nothing; the workers exist exactly while Scan has
\* started them and not returned; their context and the channel outlive the loop.
Phases ==
    /\ main = "prepare" =>
         /\ outcome = "none" /\ ~cancelled /\ ~closed
         /\ queue = {} /\ active = 0 /\ results = <<>>
         /\ done = {} /\ directories = 0 /\ issues = {}
         /\ \A w \in Workers : wpc[w] = "unborn"
    /\ main = "loop" =>
         /\ outcome = "none" /\ ~cancelled /\ ~closed
    /\ main \in {"loop", "cancel", "close", "wait"} =>
         \A w \in Workers : wpc[w] # "unborn"
    /\ main = "returned" =>
         \A w \in Workers : wpc[w] \in {"unborn", "exited"}
    /\ \A w \in Workers : wpc[w] = "exited" => ctxDone \/ cancelled \/ closed

\* A result is a directory with all its children, or an issue.
Sound(r) == r \in Result /\ (r.issue \/ r.subdirs = Children(r.dir)) /\ r.subdirs \subseteq Children(r.dir)

SoundResults ==
    /\ \A i \in 1 .. Len(results) : Sound(results[i])
    /\ \A w \in Workers : wpc[w] = "scan" => work[w].dir \in Dirs
    /\ \A w \in Workers : wpc[w] = "send" => Sound(work[w])

\* In the loop a worker that does not wait for a job accounts for one result,
\* sent or lost, and each buffered result for itself.
NotWaiting == {w \in Workers : wpc[w] # "receive"}
Counted == main = "loop" => active = Cardinality(NotWaiting) + Len(results)

\* The directories that the walk knows of.
InFlight == Held \union Buffered
Reached == queue \union InFlight \union done

\* Unless a worker lost a result to an ended context, the walk knows of every
\* root and of every child of a visited directory.
Closed ==
    main = "loop" /\ (\A w \in Workers : wpc[w] # "exited") =>
        /\ Roots \subseteq Reached \union issues
        /\ \A d \in done : d \in issues \/ Children(d) \subseteq Reached

\* A directory becomes known only as a root or when its parent is visited.
Parented ==
    \A c \in Reached : c \in Roots \/ \E d \in done : c \in Children(d)

IInv ==
    /\ TypeOK
    /\ Phases
    /\ SoundResults
    /\ Counted
    /\ Closed
    /\ Parented
    /\ ScannedOnce
    /\ IsFiniteSet(done)
    /\ Complete

USE ScannerAssumption

------------------------------------------------------------------------------
(* Lemmas about the helpers.                                                *)

\* What a directory's scan may queue.
LEMMA ChildrenAreDirs ==
    ASSUME NEW d \in Dirs
    PROVE  Children(d) \subseteq Subdirs[d] /\ Children(d) \subseteq Dirs
  BY DEF Children

\* A directory is a child of one directory only, and no root is anyone's child.
LEMMA OneParent ==
    ASSUME NEW d \in Dirs, NEW e \in Dirs, NEW c \in Children(d)
    PROVE  c \notin Roots /\ (c \in Children(e) => d = e)
  BY TreeAssumption, ChildrenAreDirs DEF Children

\* What appending a result does to the buffer.
LEMMA AppendResult ==
    ASSUME TypeOK, NEW r \in Result, results' = Append(results, r)
    PROVE  /\ results' \in Seq(Result)
           /\ Len(results') = Len(results) + 1
           /\ \A i \in 1 .. Len(results) : results'[i] = results[i]
           /\ results'[Len(results) + 1] = r
           /\ \A i \in 1 .. Len(results') :
                results'[i] = r \/ (i \in 1 .. Len(results) /\ results'[i] = results[i])
           /\ Buffered' = Buffered \union {r.dir}
  <1>1. /\ results' \in Seq(Result)
        /\ Len(results') = Len(results) + 1
        /\ \A i \in 1 .. Len(results) : results'[i] = results[i]
        /\ results'[Len(results) + 1] = r
    BY AppendProperties DEF TypeOK
  <1>2. 1 .. Len(results') = 1 .. Len(results) \union {Len(results) + 1}
    BY <1>1, LenProperties DEF TypeOK
  <1>3. \A i \in 1 .. Len(results') :
          results'[i] = r \/ (i \in 1 .. Len(results) /\ results'[i] = results[i])
    BY <1>1, <1>2
  <1>4. Buffered' = Buffered \union {r.dir}
    BY <1>1, <1>2 DEF Buffered
  <1> QED
    BY <1>1, <1>3, <1>4

\* What taking the first result does.
LEMMA TakeResult ==
    ASSUME TypeOK, results # <<>>, results' = Tail(results)
    PROVE  /\ Head(results) \in Result /\ Head(results) = results[1]
           /\ results' \in Seq(Result)
           /\ Len(results) \in Nat \ {0}
           /\ Len(results') = Len(results) - 1
           /\ \A i \in 1 .. Len(results') : results'[i] = results[i + 1]
           /\ Buffered = Buffered' \union {Head(results).dir}
  <1> USE DEF TypeOK
  <1>1. /\ Head(results) \in Result
        /\ results' \in Seq(Result)
        /\ Len(results') = Len(results) - 1
        /\ \A i \in 1 .. Len(results') : results'[i] = results[i + 1]
    BY HeadTailProperties
  <1>2. Len(results) \in Nat \ {0}
    BY LenProperties, EmptySeq
  <1>3. Head(results) = results[1]
    OBVIOUS
  <1>4. ASSUME NEW d
        PROVE  d \in Buffered <=> d \in Buffered' \/ d = Head(results).dir
    <2>1. ASSUME NEW i \in 1 .. Len(results), d = results[i].dir
          PROVE  d \in Buffered' \/ d = Head(results).dir
      <3>1. CASE i = 1
        BY <2>1, <3>1, <1>3
      <3>2. CASE i # 1
        <4>1. i - 1 \in 1 .. Len(results') /\ results'[i - 1] = results[i]
          BY <1>1, <1>2, <3>2
        <4> QED
          BY <2>1, <4>1 DEF Buffered
      <3> QED
        BY <3>1, <3>2
    <2>2. ASSUME NEW i \in 1 .. Len(results'), d = results'[i].dir
          PROVE  d \in Buffered
      <3>1. i + 1 \in 1 .. Len(results) /\ results'[i] = results[i + 1]
        BY <1>1, <1>2
      <3> QED
        BY <2>2, <3>1 DEF Buffered
    <2>3. 1 \in 1 .. Len(results)
      BY <1>2
    <2> QED
      BY <1>3, <2>1, <2>2, <2>3 DEF Buffered
  <1> QED
    BY <1>1, <1>2, <1>3, <1>4

------------------------------------------------------------------------------
(* Counting.                                                                *)

\* The counts that Counted adds up are numbers.
LEMMA CountRange ==
    ASSUME TypeOK
    PROVE  /\ IsFiniteSet(NotWaiting)
           /\ Cardinality(NotWaiting) \in Nat
           /\ Len(results) \in Nat
           /\ Cardinality(Workers) \in Nat
  <1>1. IsFiniteSet(NotWaiting)
    BY FS_Subset DEF NotWaiting
  <1> QED
    BY <1>1, FS_CardinalityType, LenProperties DEF TypeOK

\* While a result is in the buffer, a worker is reading or a result was lost,
\* the loop expects something.
LEMMA Expected ==
    ASSUME TypeOK, Counted, main = "loop"
    PROVE  /\ results # <<>> => active > 0
           /\ active = 0 => (results = <<>> /\ \A w \in Workers : wpc[w] = "receive")
  <1>1. Len(results) = 0 => results = <<>>
    BY EmptySeq DEF TypeOK
  <1>2. Cardinality(NotWaiting) = 0 => \A w \in Workers : wpc[w] = "receive"
    <2>1. Cardinality(NotWaiting) = 0 => NotWaiting = {}
      BY CountRange, FS_EmptySet
    <2> QED
      BY <2>1 DEF NotWaiting
  <1> QED
    BY <1>1, <1>2, CountRange DEF Counted, TypeOK

\* The loop starts with nothing outstanding;
LEMMA PrepareCounted ==
    ASSUME TypeOK, Phases, Prepare
    PROVE  Counted'
  <1> SUFFICES ASSUME main' = "loop" PROVE Counted'
    BY DEF Counted
  <1>1. \A w \in Workers : wpc'[w] = "receive"
    BY DEF Prepare
  <1>2. NotWaiting' = {}
    BY <1>1 DEF NotWaiting
  <1>3. active' = 0 /\ Len(results') = 0
    BY EmptySeq DEF Prepare, Phases
  <1> QED
    BY <1>2, <1>3, FS_EmptySet DEF Counted

\* a directory handed out is counted,
LEMMA DispatchCounted ==
    ASSUME TypeOK, Counted, NEW w \in Workers, Dispatch(w)
    PROVE  Counted'
  <1>1. NotWaiting' = NotWaiting \union {w} /\ w \notin NotWaiting
    BY DEF Dispatch, NotWaiting, TypeOK
  <1>2. Cardinality(NotWaiting') = Cardinality(NotWaiting) + 1
    BY <1>1, CountRange, FS_AddElement
  <1> QED
    BY <1>2, CountRange DEF Counted, Dispatch

\* a result received is counted off,
LEMMA ReceiveCounted ==
    ASSUME TypeOK, Counted, Receive
    PROVE  Counted'
  <1>1. Len(results') = Len(results) - 1
    BY TakeResult DEF Receive
  <1>2. NotWaiting' = NotWaiting
    BY DEF Receive, NotWaiting
  <1> QED
    BY <1>1, <1>2, CountRange DEF Counted, Receive

\* and a worker's own steps move a directory without changing the count.
LEMMA WorkerCounted ==
    ASSUME TypeOK, Phases, SoundResults, Counted, NEW w \in Workers, WorkerStep(w)
    PROVE  Counted'
  <1> USE DEF WorkerStep
  <1>1. CASE ScanDirectory(w)
    <2>1. NotWaiting' = NotWaiting
      BY <1>1 DEF ScanDirectory, NotWaiting, TypeOK
    <2> QED
      BY <1>1, <2>1 DEF ScanDirectory, Counted, callerVars
  <1>2. CASE SendResult(w)
    <2>1. NotWaiting' = NotWaiting \ {w} /\ w \in NotWaiting
      BY <1>2 DEF SendResult, NotWaiting, TypeOK
    <2>2. Cardinality(NotWaiting') = Cardinality(NotWaiting) - 1
      BY <2>1, CountRange, FS_RemoveElement
    <2>3. work[w] \in Result
      BY <1>2 DEF SendResult, SoundResults, Sound
    <2>4. Len(results') = Len(results) + 1
      BY <1>2, <2>3, AppendResult DEF SendResult
    <2> QED
      BY <1>2, <2>2, <2>4, CountRange DEF SendResult, Counted, callerVars
  <1>3. CASE Abandon(w)
    <2>1. NotWaiting' = NotWaiting
      BY <1>3 DEF Abandon, NotWaiting, TypeOK
    <2> QED
      BY <1>3, <2>1 DEF Abandon, Counted, callerVars
  <1>4. CASE Exit(w)
    BY <1>4 DEF Exit, Counted, Phases, callerVars
  <1> QED
    BY <1>1, <1>2, <1>3, <1>4

\* The steps that neither touch the walk's data nor enter the loop.
Control ==
    /\ UNCHANGED <<queue, active, results, wpc, work, done, directories, issues>>
    /\ main' = "loop" => main = "loop"

\* Steps that move no directory.
LEMMA ControlSteps ==
    ASSUME \/ LoopCancelled \/ LoopEnds \/ CancelWorkers \/ CloseJobs \/ WaitForWorkers
           \/ CallerCancels \/ UNCHANGED vars
    PROVE  Control
  BY DEF LoopCancelled, LoopEnds, CancelWorkers, CloseJobs, WaitForWorkers, CallerCancels,
         vars, callerVars, Control

\* They leave the count alone.
LEMMA ControlCounted ==
    ASSUME Counted, Control
    PROVE  Counted'
  BY DEF Counted, Control, NotWaiting

------------------------------------------------------------------------------
(* Types, phases and the contents of results.                               *)

\* The invariant holds when Scan is called.
LEMMA InitIInv == Init => IInv
  <1> SUFFICES ASSUME Init PROVE IInv
    OBVIOUS
  <1>1. TypeOK
    <2>1. results \in Seq(Result) /\ Len(results) = 0
      BY EmptySeq DEF Init
    <2>2. Cardinality(Workers) \in Nat
      BY FS_CardinalityType
    <2>3. work \in [Workers -> Result \union {NoWork}] 
      BY DEF Init
    <2>7. wpc \in [Workers -> {"unborn", "receive", "scan", "send", "exited"}]
      BY DEF Init
    <2>8. /\ main \in {"prepare", "loop", "cancel", "close", "wait", "returned"}
          /\ outcome \in {"none", "ok", "cancelled", "refused"}
      BY DEF Init
    <2>4. ctxDone \in BOOLEAN /\ cancelled \in BOOLEAN /\ closed \in BOOLEAN
      BY DEF Init
    <2>5. active \in Nat /\ directories \in Nat
      BY DEF Init
    <2>6. queue \subseteq Dirs /\ done \subseteq Dirs /\ issues \subseteq Dirs
      BY DEF Init
    <2> QED
      BY <2>1, <2>2, <2>3, <2>4, <2>5, <2>6, <2>7, <2>8 DEF TypeOK
  <1>2. Held = {} /\ Buffered = {} /\ Busy = {}
    BY EmptySeq DEF Init, Held, Buffered, Busy
  <1>3. ScannedOnce
    BY <1>2, EmptySeq, FS_EmptySet DEF Init, ScannedOnce
  <1> QED
    BY <1>1, <1>2, <1>3, FS_EmptySet
    DEF Init, IInv, Phases, SoundResults, Counted, Closed, Parented, Complete, Reached, InFlight

\* What a worker is given, and what it makes of it.
LEMMA NewWork ==
    ASSUME NEW d \in Dirs
    PROVE  Job(d) \in Result /\ Job(d).dir = d
  BY DEF Job, Result

\* A worker's result tells of the directory that it was given.
LEMMA Scanned ==
    ASSUME IInv, NEW w \in Workers, ScanDirectory(w)
    PROVE  /\ work[w].dir \in Dirs
           /\ Sound(work'[w])
           /\ work'[w] \in Result
           /\ work'[w].dir = work[w].dir
           /\ work' = [work EXCEPT ![w] = work'[w]]
  <1>1. work[w].dir \in Dirs
    BY DEF IInv, SoundResults, ScanDirectory
  <1>2. PICK found \in SUBSET Children(work[w].dir), issue \in BOOLEAN :
          /\ issue \/ found = Children(work[w].dir)
          /\ work' = [work EXCEPT ![w] = [dir |-> @.dir, subdirs |-> found, issue |-> issue]]
    BY DEF ScanDirectory
  <1> DEFINE r == [dir |-> work[w].dir, subdirs |-> found, issue |-> issue]
  <1>3. work' = [work EXCEPT ![w] = r] /\ work'[w] = r
    BY <1>2 DEF IInv, TypeOK
  <1>4. r \in Result
    BY <1>1, ChildrenAreDirs DEF Result
  <1>5. /\ r.dir = work[w].dir
        /\ r.issue \/ r.subdirs = Children(r.dir)
        /\ r.subdirs \subseteq Children(r.dir)
    BY <1>2
  <1> HIDE DEF r
  <1> QED
    BY <1>1, <1>3, <1>4, <1>5 DEF Sound

\* Every step keeps the types,
LEMMA NextType ==
    ASSUME IInv, [Next]_vars
    PROVE  TypeOK'
  <1> USE DEF IInv, TypeOK
  <1>1. CASE Prepare
    BY <1>1 DEF Prepare
  <1>2. ASSUME NEW w \in Workers, Dispatch(w) PROVE TypeOK'
    BY <1>2, NewWork DEF Dispatch
  <1>3. CASE Receive
    <2>1. /\ Head(results) \in Result
          /\ results' \in Seq(Result)
          /\ Len(results') <= Cardinality(Workers)
      BY <1>3, TakeResult, CountRange DEF Receive
    <2>2. active' \in Nat
      BY <1>3, Expected DEF Receive
    <2> QED
      BY <1>3, <2>1, <2>2 DEF Receive, Result
  <1>4. ASSUME NEW w \in Workers, ScanDirectory(w) PROVE TypeOK'
    BY <1>4, Scanned DEF ScanDirectory, callerVars
  <1>5. ASSUME NEW w \in Workers, SendResult(w) PROVE TypeOK'
    <2>1. work[w] \in Result
      BY <1>5 DEF SendResult, SoundResults, Sound
    <2>2. results' \in Seq(Result) /\ Len(results') <= Cardinality(Workers)
      BY <1>5, <2>1, AppendResult, CountRange DEF SendResult
    <2> QED
      BY <1>5, <2>2 DEF SendResult, callerVars
  <1>6. ASSUME NEW w \in Workers, Abandon(w) \/ Exit(w) PROVE TypeOK'
    BY <1>6 DEF Abandon, Exit, callerVars
  <1>7. CASE LoopCancelled \/ LoopEnds \/ CancelWorkers \/ CloseJobs \/ WaitForWorkers
    BY <1>7 DEF LoopCancelled, LoopEnds, CancelWorkers, CloseJobs, WaitForWorkers
  <1>8. CASE CallerCancels \/ UNCHANGED vars
    BY <1>8 DEF CallerCancels, vars, callerVars
  <1> QED
    BY <1>1, <1>2, <1>3, <1>4, <1>5, <1>6, <1>7, <1>8
    DEF Next, CallerStep, WorkerStep, Returned

\* the phases of the caller's and the workers' life,
LEMMA NextPhases ==
    ASSUME TypeOK, Phases, [Next]_vars
    PROVE  Phases'
  <1> USE DEF TypeOK, Phases
  <1>1. CASE Prepare
    BY <1>1 DEF Prepare
  <1>2. ASSUME NEW w \in Workers, Dispatch(w) PROVE Phases'
    BY <1>2 DEF Dispatch
  <1>3. CASE Receive
    BY <1>3 DEF Receive
  <1>4. ASSUME NEW w \in Workers, WorkerStep(w) PROVE Phases'
    BY <1>4 DEF WorkerStep, ScanDirectory, SendResult, Abandon, Exit, callerVars
  <1>5. CASE LoopCancelled \/ LoopEnds \/ CancelWorkers \/ CloseJobs \/ WaitForWorkers
    BY <1>5 DEF LoopCancelled, LoopEnds, CancelWorkers, CloseJobs, WaitForWorkers
  <1>6. CASE CallerCancels \/ UNCHANGED vars
    BY <1>6 DEF CallerCancels, vars, callerVars
  <1> QED
    BY <1>1, <1>2, <1>3, <1>4, <1>5, <1>6 DEF Next, CallerStep, Returned

\* and the soundness of every result under way.
LEMMA NextSound ==
    ASSUME IInv, [Next]_vars
    PROVE  SoundResults'
  <1> USE DEF IInv, TypeOK, SoundResults
  <1>1. CASE Prepare
    BY <1>1 DEF Prepare
  <1>2. ASSUME NEW w \in Workers, Dispatch(w) PROVE SoundResults'
    BY <1>2, NewWork DEF Dispatch
  <1>3. CASE Receive
    <2>1. \A i \in 1 .. Len(results') :
            i + 1 \in 1 .. Len(results) /\ results'[i] = results[i + 1]
      BY <1>3, TakeResult DEF Receive
    <2> QED
      BY <1>3, <2>1 DEF Receive
  <1>4. ASSUME NEW w \in Workers, ScanDirectory(w) PROVE SoundResults'
    <2>1. Sound(work'[w])
      BY <1>4, Scanned
    <2>2. \A v \in Workers \ {w} : work'[v] = work[v] /\ wpc'[v] = wpc[v]
      BY <1>4 DEF ScanDirectory
    <2> QED
      BY <1>4, <2>1, <2>2 DEF ScanDirectory
  <1>5. ASSUME NEW w \in Workers, SendResult(w) PROVE SoundResults'
    <2>1. Sound(work[w])
      BY <1>5 DEF SendResult
    <2>2. work[w] \in Result
      BY <2>1 DEF Sound
    <2>3. \A i \in 1 .. Len(results') :
            results'[i] = work[w] \/ (i \in 1 .. Len(results) /\ results'[i] = results[i])
      BY <1>5, <2>2, AppendResult DEF SendResult
    <2> QED
      BY <1>5, <2>1, <2>3 DEF SendResult
  <1>6. ASSUME NEW w \in Workers, Abandon(w) \/ Exit(w) PROVE SoundResults'
    BY <1>6 DEF Abandon, Exit
  <1>7. CASE Control
    BY <1>7 DEF Control
  <1> QED
    BY <1>1, <1>2, <1>3, <1>4, <1>5, <1>6, <1>7, ControlSteps
    DEF Next, CallerStep, WorkerStep, Returned

------------------------------------------------------------------------------
(* How the directories flow from the queue to the visitor.                  *)

\* Where directories go: from the queue to a worker,
LEMMA DispatchFlow ==
    ASSUME IInv, NEW w \in Workers, Dispatch(w)
    PROVE  \E d \in queue :
             /\ queue' = queue \ {d}
             /\ Busy' = Busy \union {w} /\ w \notin Busy
             /\ work'[w].dir = d
             /\ \A v \in Busy : work'[v] = work[v]
             /\ Held' = Held \union {d}
             /\ Buffered' = Buffered
             /\ UNCHANGED <<results, done, issues, directories>>
  <1>1. PICK d \in queue : queue' = queue \ {d} /\ work' = [work EXCEPT ![w] = Job(d)]
    BY DEF Dispatch
  <1>2. work'[w].dir = d /\ \A v \in Workers \ {w} : work'[v] = work[v]
    BY <1>1, NewWork DEF IInv, TypeOK
  <1>3. Busy' = Busy \union {w} /\ w \notin Busy
    BY DEF Busy, Dispatch, IInv, TypeOK
  <1>4. Held' = Held \union {d}
    BY <1>2, <1>3 DEF Held, Busy
  <1>5. Buffered' = Buffered
    BY DEF Buffered, Dispatch
  <1> QED
    BY <1>1, <1>2, <1>3, <1>4, <1>5 DEF Dispatch, Busy

\* from the channel to the caller, its children to the queue;
LEMMA ReceiveFlow ==
    ASSUME IInv, Receive
    PROVE  /\ Sound(results[1])
           /\ results[1].dir \in Buffered
           /\ Buffered = Buffered' \union {results[1].dir}
           /\ queue' = queue \union results[1].subdirs
           /\ done' = done \union {results[1].dir}
           /\ issues' = issues \union (IF results[1].issue THEN {results[1].dir} ELSE {})
           /\ directories' = directories + 1
           /\ UNCHANGED <<wpc, work, Busy, Held>>
  <1>1. results[1] = Head(results) /\ Len(results) \in Nat \ {0}
    BY TakeResult DEF IInv, Receive
  <1>2. Sound(results[1])
    BY <1>1 DEF IInv, SoundResults
  <1>3. Buffered = Buffered' \union {results[1].dir}
    BY <1>1, TakeResult DEF IInv, Receive
  <1>4. UNCHANGED <<wpc, work, Busy, Held>>
    BY DEF Receive, Held, Busy
  <1> QED
    BY <1>1, <1>2, <1>3, <1>4 DEF Receive

\* nowhere while a worker reads;
LEMMA ScanFlow ==
    ASSUME IInv, NEW w \in Workers, ScanDirectory(w)
    PROVE  /\ \A v \in Workers : work'[v].dir = work[v].dir
           /\ UNCHANGED <<queue, results, done, issues, directories, Busy, Held, Buffered>>
           /\ \A v \in Workers : wpc'[v] = "exited" <=> wpc[v] = "exited"
  <1>1. \A v \in Workers : work'[v].dir = work[v].dir
    BY Scanned DEF IInv, TypeOK
  <1>2. Busy' = Busy
    BY DEF ScanDirectory, Busy, IInv, TypeOK
  <1>3. Held' = Held
    BY <1>1, <1>2 DEF Held, Busy
  <1>4. Buffered' = Buffered
    BY DEF ScanDirectory, Buffered
  <1> QED
    BY <1>1, <1>2, <1>3, <1>4 DEF ScanDirectory, callerVars, IInv, TypeOK

\* from a worker to the channel,
LEMMA SendFlow ==
    ASSUME IInv, NEW w \in Workers, SendResult(w)
    PROVE  /\ Busy' = Busy \ {w} /\ w \in Busy
           /\ \A v \in Busy' : work'[v] = work[v]
           /\ Held = Held' \union {work[w].dir}
           /\ Buffered' = Buffered \union {work[w].dir}
           /\ work[w] \in Result
           /\ UNCHANGED <<queue, done, issues, directories>>
           /\ \A v \in Workers : wpc'[v] = "exited" <=> wpc[v] = "exited"
  <1>1. work[w] \in Result
    BY DEF IInv, SoundResults, Sound, SendResult
  <1>2. Busy' = Busy \ {w} /\ w \in Busy
    BY DEF SendResult, Busy, IInv, TypeOK
  <1>3. \A v \in Busy' : work'[v] = work[v]
    BY <1>2 DEF SendResult, Busy, IInv, TypeOK
  <1>4. Held = Held' \union {work[w].dir}
    BY <1>2, <1>3 DEF Held
  <1>5. Buffered' = Buffered \union {work[w].dir}
    BY <1>1, AppendResult DEF SendResult, IInv
  <1> QED
    BY <1>1, <1>2, <1>3, <1>4, <1>5 DEF SendResult, callerVars, IInv, TypeOK

\* or nowhere, with a worker that is cancelled.
LEMMA LeaveFlow ==
    ASSUME IInv, NEW w \in Workers, Abandon(w) \/ Exit(w)
    PROVE  /\ Busy' = Busy \ {w}
           /\ \A v \in Busy' : work'[v] = work[v]
           /\ Held' \subseteq Held
           /\ wpc'[w] = "exited"
           /\ UNCHANGED <<queue, results, done, issues, directories, Buffered>>
  <1>1. Busy' = Busy \ {w}
    BY DEF Abandon, Exit, Busy, IInv, TypeOK
  <1>2. \A v \in Busy' : work'[v] = work[v]
    BY <1>1 DEF Abandon, Exit, Busy, IInv, TypeOK
  <1>3. Held' \subseteq Held
    BY <1>1, <1>2 DEF Held
  <1>4. Buffered' = Buffered
    BY DEF Abandon, Exit, Buffered
  <1> QED
    BY <1>1, <1>2, <1>3, <1>4 DEF Abandon, Exit, callerVars, IInv, TypeOK

\* Roots go to the queue, or become issues.
LEMMA PrepareFlow ==
    ASSUME IInv, Prepare
    PROVE  /\ queue' \subseteq Roots /\ Roots = queue' \union issues'
           /\ Busy' = {} /\ Held' = {} /\ Buffered' = {} /\ done' = {}
           /\ results' = <<>> /\ directories' = 0
           /\ outcome' = "ok" => issues' = Roots
  <1>1. Busy' = {} /\ Held' = {}
    BY DEF Prepare, IInv, Phases, Busy, Held
  <1>2. results' = <<>> /\ Buffered' = {}
    BY EmptySeq DEF Prepare, IInv, Phases, Buffered
  <1> QED
    BY <1>1, <1>2 DEF Prepare, IInv, Phases

\* Other steps leave directories where they are.
LEMMA ControlFlow ==
    ASSUME Control
    PROVE  UNCHANGED <<queue, results, work, wpc, done, issues, directories, Busy, Held, Buffered>>
  BY DEF Control, Busy, Held, Buffered

------------------------------------------------------------------------------
(* The walk is closed, parented, and takes each directory once.             *)

\* No child of a directory that is done gets lost.
LEMMA NextClosed ==
    ASSUME IInv, [Next]_vars
    PROVE  Closed'
  <1> USE DEF Reached, InFlight
  <1>1. CASE Prepare
    BY <1>1, PrepareFlow DEF Closed
  <1>2. ASSUME NEW w \in Workers, Dispatch(w) PROVE Closed'
    <2>1. Reached \subseteq Reached'
      BY <1>2, DispatchFlow
    <2>2. \A v \in Workers : wpc[v] = "exited" => wpc'[v] = "exited"
      BY <1>2 DEF Dispatch, IInv, TypeOK
    <2> QED
      BY <1>2, <2>1, <2>2 DEF Closed, IInv, Dispatch
  <1>3. CASE Receive
    <2> DEFINE r == results[1]
    <2>1. /\ Reached' = Reached \union r.subdirs
          /\ done' = done \union {r.dir}
          /\ issues \subseteq issues'
      BY <1>3, ReceiveFlow
    <2>2. r.dir \in issues' \/ Children(r.dir) \subseteq Reached'
      BY <1>3, ReceiveFlow DEF Sound
    <2>3. main = "loop" /\ wpc' = wpc
      BY <1>3 DEF Receive
    <2> HIDE DEF r
    <2> QED
      BY <2>1, <2>2, <2>3 DEF Closed, IInv
  <1>4. ASSUME NEW w \in Workers, ScanDirectory(w) PROVE Closed'
    BY <1>4, ScanFlow DEF Closed, IInv, ScanDirectory, callerVars
  <1>5. ASSUME NEW w \in Workers, SendResult(w) PROVE Closed'
    BY <1>5, SendFlow DEF Closed, IInv, SendResult, callerVars
  <1>6. ASSUME NEW w \in Workers, Abandon(w) \/ Exit(w) PROVE Closed'
    BY <1>6, LeaveFlow DEF Closed
  <1>7. CASE Control
    BY <1>7, ControlFlow DEF Closed, Control, IInv
  <1> QED
    BY <1>1, <1>2, <1>3, <1>4, <1>5, <1>6, <1>7, ControlSteps
    DEF Next, CallerStep, WorkerStep, Returned

\* No directory turns up whose parent is not done.
LEMMA NextParented ==
    ASSUME IInv, [Next]_vars
    PROVE  Parented'
  <1> USE DEF Reached, InFlight, Parented, IInv
  <1>1. CASE Prepare
    BY <1>1, PrepareFlow
  <1>2. ASSUME NEW w \in Workers, Dispatch(w) PROVE Parented'
    <2>1. Reached' \subseteq Reached /\ done' = done
      BY <1>2, DispatchFlow
    <2> QED
      BY <2>1
  <1>3. CASE Receive
    <2>1. /\ Reached' = Reached \union results[1].subdirs
          /\ done' = done \union {results[1].dir}
          /\ results[1].subdirs \subseteq Children(results[1].dir)
      BY <1>3, ReceiveFlow DEF Sound
    <2> QED
      BY <2>1
  <1>4. ASSUME NEW w \in Workers, ScanDirectory(w) PROVE Parented'
    BY <1>4, ScanFlow
  <1>5. ASSUME NEW w \in Workers, SendResult(w) PROVE Parented'
    BY <1>5, SendFlow
  <1>6. ASSUME NEW w \in Workers, Abandon(w) \/ Exit(w) PROVE Parented'
    BY <1>6, LeaveFlow
  <1>7. CASE Control
    BY <1>7, ControlFlow
  <1> QED
    BY <1>1, <1>2, <1>3, <1>4, <1>5, <1>6, <1>7, ControlSteps
    DEF Next, CallerStep, WorkerStep, Returned

\* The children of a directory just received are new to the walk.
LEMMA NewChildren ==
    ASSUME IInv, Receive
    PROVE  /\ results[1].dir \notin queue \union Held \union done
           /\ \A i \in 2 .. Len(results) : results[i].dir # results[1].dir
           /\ results[1].subdirs \cap Reached = {}
  <1> DEFINE d == results[1].dir
  <1>1. /\ d \in Buffered /\ d \in Dirs
        /\ results[1].subdirs \subseteq Children(d)
    BY ReceiveFlow DEF Sound, Result
  <1>2. d \notin queue \union Held \union done
    BY <1>1 DEF IInv, ScannedOnce
  <1>3. Len(results) \in Nat \ {0}
    BY TakeResult DEF IInv, Receive
  <1>4. \A i \in 2 .. Len(results) : results[i].dir # d
    BY <1>3 DEF IInv, ScannedOnce
  <1>5. ASSUME NEW c \in Children(d), c \in Reached PROVE FALSE
    <2>1. c \notin Roots
      BY <1>1, <1>5, OneParent
    <2>2. PICK e \in done : c \in Children(e)
      BY <1>5, <2>1 DEF IInv, Parented
    <2>3. e \in Dirs
      BY DEF IInv, TypeOK
    <2>4. e = d
      BY <1>1, <1>5, <2>2, <2>3, OneParent
    <2> QED
      BY <1>2, <2>4
  <1> QED
    BY <1>1, <1>2, <1>4, <1>5

\* No directory is in two places.
LEMMA NextScannedOnce ==
    ASSUME IInv, [Next]_vars
    PROVE  ScannedOnce' /\ IsFiniteSet(done')
  <1> USE DEF ScannedOnce, IInv
  <1>1. CASE Prepare
    <2>1. IsFiniteSet(done') /\ Cardinality(done') = 0
      BY <1>1, PrepareFlow, FS_EmptySet
    <2>2. 1 .. Len(results') = {}
      BY <1>1, PrepareFlow, EmptySeq
    <2> QED
      BY <1>1, <2>1, <2>2, PrepareFlow
  <1>2. ASSUME NEW w \in Workers, Dispatch(w) PROVE ScannedOnce' /\ IsFiniteSet(done')
    <2>1. PICK d \in queue :
             /\ queue' = queue \ {d}
             /\ Busy' = Busy \union {w} /\ w \notin Busy
             /\ work'[w].dir = d
             /\ \A v \in Busy : work'[v] = work[v]
             /\ Held' = Held \union {d}
             /\ Buffered' = Buffered
             /\ UNCHANGED <<results, done, issues, directories>>
      BY <1>2, DispatchFlow
    <2>2. \A v \in Busy : work[v].dir # d
      BY DEF Held
    <2> QED
      BY <2>1, <2>2
  <1>3. CASE Receive
    <2>1. \A i \in 1 .. Len(results') : results'[i] = results[i + 1]
      BY <1>3, TakeResult DEF Receive
    <2>2. Len(results) \in Nat \ {0} /\ Len(results') = Len(results) - 1
      BY <1>3, TakeResult DEF Receive
    <2>3. \A i, j \in 1 .. Len(results') : i # j => results'[i].dir # results'[j].dir
      <3>1. TAKE i, j \in 1 .. Len(results')
      <3>2. HAVE i # j
      <3>3. /\ i + 1 \in 1 .. Len(results)
            /\ j + 1 \in 1 .. Len(results)
            /\ i + 1 # j + 1
        BY <2>2, <3>2
      <3>4. results[i + 1].dir # results[j + 1].dir
        BY <3>3
      <3> QED
        BY <2>1, <3>4
    <2>4. results[1].dir \notin Buffered'
      <3>1. \A i \in 1 .. Len(results') : i + 1 \in 2 .. Len(results)
        BY <2>2
      <3>2. \A i \in 1 .. Len(results') : results'[i].dir # results[1].dir
        BY <1>3, <2>1, <3>1, NewChildren
      <3> QED
        BY <3>2 DEF Buffered
    <2>5. results[1].dir \notin results[1].subdirs
      BY <1>3, NewChildren, ReceiveFlow DEF Reached, InFlight
    <2>6. directories' = Cardinality(done') /\ IsFiniteSet(done')
      BY <1>3, NewChildren, ReceiveFlow, FS_AddElement
    <2> QED
      BY <1>3, <2>3, <2>4, <2>5, <2>6, NewChildren, ReceiveFlow DEF Reached, InFlight
  <1>4. ASSUME NEW w \in Workers, ScanDirectory(w) PROVE ScannedOnce' /\ IsFiniteSet(done')
    BY <1>4, ScanFlow DEF Busy
  <1>5. ASSUME NEW w \in Workers, SendResult(w) PROVE ScannedOnce' /\ IsFiniteSet(done')
    <2>1. work[w].dir \notin Held'
      BY <1>5, SendFlow DEF Held
    <2>2. work[w].dir \notin Buffered
      BY <1>5, SendFlow
    <2>3. \A i, j \in 1 .. Len(results') : i # j => results'[i].dir # results'[j].dir
      <3>1. /\ Len(results) \in Nat
            /\ Len(results') = Len(results) + 1
            /\ \A i \in 1 .. Len(results) : results'[i] = results[i]
            /\ results'[Len(results) + 1] = work[w]
        BY <1>5, SendFlow, AppendResult, CountRange DEF SendResult
      <3>2. \A i \in 1 .. Len(results) : results[i].dir # work[w].dir
        BY <2>2 DEF Buffered
      <3>3. 1 .. Len(results') = 1 .. Len(results) \union {Len(results) + 1}
        BY <3>1
      <3> QED
        BY <3>1, <3>2, <3>3
    <2> QED
      BY <1>5, <2>1, <2>2, <2>3, SendFlow
  <1>6. ASSUME NEW w \in Workers, Abandon(w) \/ Exit(w) PROVE ScannedOnce' /\ IsFiniteSet(done')
    BY <1>6, LeaveFlow
  <1>7. CASE Control
    BY <1>7, ControlFlow
  <1> QED
    BY <1>1, <1>2, <1>3, <1>4, <1>5, <1>6, <1>7, ControlSteps
    DEF Next, CallerStep, WorkerStep, Returned

\* The walk ends well only when everything is done.
LEMMA NextComplete ==
    ASSUME IInv, [Next]_vars
    PROVE  Complete'
  <1> USE DEF Complete, IInv
  <1>1. CASE Prepare
    BY <1>1, PrepareFlow
  <1>2. CASE LoopEnds
    <2>1. main = "loop" /\ queue = {} /\ active = 0
      BY <1>2 DEF LoopEnds
    <2>2. results = <<>> /\ \A w \in Workers : wpc[w] = "receive"
      BY <2>1, Expected
    <2>3. Reached = done
      BY <2>1, <2>2, EmptySeq DEF Reached, InFlight, Held, Busy, Buffered
    <2>4. /\ Roots \subseteq done \union issues
          /\ \A d \in done : d \in issues \/ Children(d) \subseteq done
      BY <2>1, <2>2, <2>3 DEF Closed
    <2> QED
      BY <1>2, <2>4 DEF LoopEnds
  <1>3. CASE Receive
    BY <1>3 DEF Receive, Phases
  <1>4. ASSUME NEW w \in Workers, Dispatch(w) \/ WorkerStep(w) PROVE Complete'
    BY <1>4 DEF Dispatch, WorkerStep, ScanDirectory, SendResult, Abandon, Exit, callerVars
  <1>5. CASE LoopCancelled \/ CancelWorkers \/ CloseJobs \/ WaitForWorkers
    BY <1>5 DEF LoopCancelled, CancelWorkers, CloseJobs, WaitForWorkers
  <1>6. CASE CallerCancels \/ UNCHANGED vars
    BY <1>6 DEF CallerCancels, vars, callerVars
  <1> QED
    BY <1>1, <1>2, <1>3, <1>4, <1>5, <1>6 DEF Next, CallerStep, Returned

------------------------------------------------------------------------------
(* What a walk without issues has visited.                                  *)

\* A set of natural numbers has a least element.
LEMMA LeastNatural ==
    ASSUME NEW T \in SUBSET Nat, T # {}
    PROVE  \E n \in T : \A m \in T : n <= m
  <1> DEFINE R == OpToRel(<, Nat)
  <1>1. IsWellFoundedOn(R, Nat)
    BY NatLessThanWellFounded
  <1>2. \A x, y \in Nat : x < y => <<x, y>> \in R
    BY DEF OpToRel
  <1> HIDE DEF R
  <1>3. PICK n \in T : \A m \in T : ~(<<m, n>> \in R)
    BY <1>1, WFMin
  <1>4. \A m \in T : m \in Nat /\ ~(m < n)
    BY <1>2, <1>3
  <1> QED
    BY <1>4

\* A walk that ended well without issues has left out no directory: of those it
\* left out above the limit, take one of least depth. It is a root, or its parent
\* is done, and then so are all the children of that parent.
LEMMA NoneLeftOut ==
    ASSUME TypeOK, Complete, outcome = "ok", issues = {}
    PROVE  {d \in Dirs : Depth[d] < MaxDepth} \subseteq done
  <1> DEFINE Missing == {d \in Dirs : Depth[d] < MaxDepth /\ d \notin done}
             Depths == {Depth[d] : d \in Missing}
  <1>1. \A d \in Dirs : Depth[d] \in Nat
    OBVIOUS
  <1>2. ASSUME Missing # {} PROVE FALSE
    <2>1. Depths \in SUBSET Nat /\ Depths # {}
      BY <1>1, <1>2
    <2>2. PICK n \in Depths : \A k \in Depths : n <= k
      BY <2>1, LeastNatural
    <2>3. PICK c \in Missing : n = Depth[c]
      BY <2>2
    <2>4. \A e \in Missing : Depth[c] <= Depth[e]
      BY <2>2, <2>3
    <2>5. c \notin Roots
      BY DEF Complete
    <2>6. PICK d \in Dirs : c \in Subdirs[d]
      BY <2>5, TreeAssumption
    <2>7. Depth[c] = Depth[d] + 1 /\ Depth[c] < MaxDepth
      BY <2>6, TreeAssumption
    <2>8. d \in done
      BY <1>1, <2>4, <2>7
    <2>9. c \in Children(d)
      BY <2>6, <2>7 DEF Children
    <2> QED
      BY <2>8, <2>9 DEF Complete
  <1> QED
    BY <1>2

\* No directory that the walk knows of lies below the limit.
LEMMA NoneTooDeep ==
    ASSUME TypeOK, Parented
    PROVE  done \subseteq {d \in Dirs : Depth[d] < MaxDepth}
  <1> SUFFICES ASSUME NEW c \in done PROVE c \in Dirs /\ Depth[c] < MaxDepth
    OBVIOUS
  <1>1. CASE c \in Roots
    BY <1>1, TreeAssumption
  <1>2. CASE c \notin Roots
    <2>1. PICK d \in done : c \in Children(d)
      BY <1>2 DEF Parented, Reached
    <2>2. d \in Dirs /\ c \in Subdirs[d] /\ Depth[d] + 1 < MaxDepth
      BY <2>1 DEF Children, TypeOK
    <2> QED
      BY <2>2, TreeAssumption
  <1> QED
    BY <1>1, <1>2

------------------------------------------------------------------------------
(* The theorems.                                                            *)

\* The invariant is inductive.
LEMMA NextIInv == IInv /\ [Next]_vars => IInv'
  <1> SUFFICES ASSUME IInv, [Next]_vars PROVE IInv'
    OBVIOUS
  <1>1. Counted'
    BY PrepareCounted, DispatchCounted, ReceiveCounted, WorkerCounted, ControlSteps, ControlCounted
    DEF IInv, Next, CallerStep, Returned
  <1>2. TypeOK' /\ SoundResults' /\ Closed' /\ Parented' /\ Complete'
    BY NextType, NextSound, NextClosed, NextParented, NextComplete
  <1>3. Phases'
    BY NextPhases DEF IInv
  <1>4. ScannedOnce' /\ IsFiniteSet(done')
    BY NextScannedOnce
  <1> QED
    BY <1>1, <1>2, <1>3, <1>4 DEF IInv

\* Every directory below the roots is in one place at any time, until the walk is given up:
\* not reached yet, queued, with a worker, in the channel, or done.
THEOREM ScanInvariance == Spec => []IInv
  BY InitIInv, NextIInv, PTL DEF Spec

\* No directory is read, reported or counted twice, however many workers share
\* the walk and however their results overtake each other: the parallel Scan
\* visits a tree as a sequential walk would.
THEOREM VisitsOnce == Spec => []ScannedOnce
  <1>1. IInv => ScannedOnce
    BY DEF IInv
  <1> QED
    BY <1>1, ScanInvariance, PTL

\* When Scan returns without an error it has visited every root, and every child
\* of every visited directory, that it reported no issue for. The argument: in the
\* loop, active counts the workers that do not wait for a job and the buffered
\* results, so that it is zero only when the walk knows of nothing but visited
\* directories; a result lost to an ended context stays counted for good.
THEOREM WalkIsComplete == Spec => []Complete
  <1>1. IInv => Complete
    BY DEF IInv
  <1> QED
    BY <1>1, ScanInvariance, PTL

\* When Scan returns without an error and without an issue, it has visited every
\* directory above the limit of depth, and no other: the parallel walk is the
\* sequential one, for any forest. Above the limit nothing is left out because of
\* two directories left out the parent of the higher one is done (NoneLeftOut);
\* below it nothing becomes known (NoneTooDeep; scanner.go:174-195).
THEOREM WalkIsExact == Spec => []ExactlyInDepth
  <1>1. IInv => ExactlyInDepth
    BY NoneLeftOut, NoneTooDeep DEF IInv, ExactlyInDepth
  <1> QED
    BY <1>1, ScanInvariance, PTL

\* When Scan returns no worker is left that could still read or send.
THEOREM NoWorkerLeft == Spec => []NoLeak
  <1>1. IInv => NoLeak
    BY DEF IInv, Phases, NoLeak
  <1> QED
    BY <1>1, ScanInvariance, PTL

\* As long as the context has not ended, the count on which the loop decides
\* whether to go on is exactly the number of results it can still receive.
THEOREM ActiveIsRight == Spec => []ActiveCounts
  <1>1. ASSUME IInv, main = "loop", ~ctxDone PROVE active = Cardinality(Busy) + Len(results)
    <2>1. \A w \in Workers : wpc[w] \in {"receive", "scan", "send"}
      BY <1>1 DEF IInv, Phases, TypeOK
    <2>2. NotWaiting = Busy
      BY <2>1 DEF NotWaiting, Busy
    <2> QED
      BY <1>1, <2>2 DEF IInv, Counted
  <1>2. IInv => ActiveCounts
    BY <1>1 DEF ActiveCounts
  <1> QED
    BY <1>2, ScanInvariance, PTL

\* The queue, the channel, the workers and the counter of a walk keep their types
\* for any forest, any number of workers and any limit of depth.
THEOREM TypeCorrect == Spec => []TypeOK
  <1>1. IInv => TypeOK
    BY DEF IInv
  <1> QED
    BY <1>1, ScanInvariance, PTL

====
