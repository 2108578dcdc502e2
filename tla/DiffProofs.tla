------------------------------ MODULE DiffProofs ------------------------------
(***************************************************************************)
(* Proofs about SnapshotDiff, for any paths, file states and roots, and any *)
(* two snapshots.                                                           *)
(***************************************************************************)
EXTENDS SnapshotDiff, FiniteSetTheorems, TLAPS

USE DiffAssumption

Lost == Files(before) \ Files(after)
New  == Files(after) \ Files(before)
Kept == Files(before) \cap Files(after)

Compared == {"SIZE_CHANGE", "MODIFY"}

\* What the loops have worked through.
LostDone == IF phase = "before" THEN {} ELSE Lost \ left
NewDone  == IF phase = "before" THEN {} ELSE IF phase = "deleted" THEN New \ created ELSE New
KeptDone == (Kept \cap Differing) \ (IF phase = "before" THEN left ELSE {})

Loops ==
    /\ phase = "before" => /\ left \subseteq Files(before)
                           /\ deleted = Lost \ left
                           /\ created = {}
    /\ phase # "before" => left \subseteq Lost /\ deleted = Lost /\ created \subseteq New
    /\ phase = "done" => left = {}

\* The paths that a change takes account of, all of them worked through.
Accounts(c) ==
    \/ /\ c.kind \in Compared /\ c.path \in KeptDone /\ c.old = NoPath
    \/ /\ c.kind = "DELETE" /\ c.path \in LostDone /\ c.old = NoPath
    \/ /\ c.kind = "RENAME" /\ c.old \in LostDone /\ c.path \in NewDone
       /\ RootOf[c.old] = RootOf[c.path]
    \/ /\ c.kind = "CREATE" /\ c.path \in NewDone /\ c.old = NoPath

AccountedFor ==
    /\ \A p \in KeptDone : \E c \in changes : c.kind \in Compared /\ c.path = p
    /\ \A p \in LostDone : \E c \in changes :
         \/ c.kind = "DELETE" /\ c.path = p
         \/ c.kind = "RENAME" /\ c.old = p
    /\ \A q \in NewDone : \E c \in changes :
         c.kind \in {"CREATE", "RENAME"} /\ c.path = q

Disjoint ==
    \A c, d \in changes : c # d => {c.path, c.old} \cap {d.path, d.old} \subseteq {NoPath}

IInv ==
    /\ TypeOK
    /\ Loops
    /\ \A c \in changes : Accounts(c)
    /\ AccountedFor
    /\ Disjoint
------------------------------------------------------------------------------
(* One loop at a time.                                                      *)

\* The paths worked through.
AllDone == KeptDone \union LostDone \union NewDone

\* The fields of a change.
LEMMA Fields ==
    ASSUME NEW kind, NEW path, NEW old
    PROVE  /\ Change(kind, path, old).kind = kind
           /\ Change(kind, path, old).path = path
           /\ Change(kind, path, old).old = old
  BY DEF Change

\* The three kinds of paths exclude each other.
LEMMA Kinds ==
    /\ Lost \cap New = {} /\ Kept \cap Lost = {} /\ Kept \cap New = {}
    /\ Lost \subseteq Paths /\ New \subseteq Paths /\ Kept \subseteq Paths
  BY DEF Lost, New, Kept, Files

\* A change touches nothing but paths worked through.
LEMMA Touches ==
    ASSUME IInv, NEW c \in changes
    PROVE  {c.path, c.old} \subseteq AllDone \union {NoPath}
  BY DEF IInv, Accounts, AllDone

\* A change on paths not worked through before leaves the changes disjoint.
LEMMA OneMore ==
    ASSUME IInv, NEW c, changes' = changes \union {c},
           {c.path, c.old} \cap AllDone = {}
    PROVE  Disjoint'
  BY Touches DEF IInv, Disjoint

\* Before the first loop no path is worked through and none is reported.
LEMMA InitIInv == Init => IInv
  <1> SUFFICES ASSUME Init PROVE IInv
    OBVIOUS
  <1>1. KeptDone = {} /\ LostDone = {} /\ NewDone = {}
    BY DEF Init, KeptDone, LostDone, NewDone, Kept, Files
  <1>2. Loops
    BY DEF Init, Loops, Lost
  <1>3. TypeOK
    BY DEF Init, TypeOK, Files
  <1> QED
    BY <1>1, <1>2, <1>3 DEF Init, IInv, AccountedFor, Disjoint

\* Each step of the first loop works through one path.
LEMMA CompareStep ==
    ASSUME IInv, NEW p \in Paths, CompareFile(p)
    PROVE  IInv'
  <1> USE DEF IInv
  <1>1. /\ Lost' = Lost /\ New' = New /\ Kept' = Kept /\ Differing' = Differing
        /\ phase = "before" /\ phase' = "before" /\ p \in left /\ left' = left \ {p}
    BY DEF CompareFile, Lost, New, Kept, Files, Differing
  <1>2. p \in Files(before) /\ left \subseteq Files(before)
    BY <1>1 DEF Loops
  <1>3. (p \in Lost <=> after[p] = Gone) /\ (p \in Kept <=> after[p] # Gone)
    BY <1>2 DEF Lost, Kept, Files
  <1>4. LostDone' = {} /\ NewDone' = {} /\ LostDone = {} /\ NewDone = {}
    BY <1>1 DEF LostDone, NewDone
  <1>5. CASE after[p] = Gone \/ after[p] = before[p]
    <2>1. changes' = changes
      BY <1>5 DEF CompareFile
    <2>2. KeptDone' = KeptDone
      BY <1>1, <1>3, <1>5 DEF KeptDone, Differing
    <2>3. deleted' = Lost \ left'
      BY <1>1, <1>2, <1>3, <1>5 DEF CompareFile, Loops
    <2>4. Loops'
      BY <1>1, <1>2, <2>3 DEF Loops, CompareFile, Files
    <2>5. TypeOK'
      BY <2>1 DEF TypeOK, CompareFile
    <2>6. \A c \in changes' : Accounts(c)'
      BY <1>4, <2>1, <2>2 DEF Accounts
    <2>7. AccountedFor' /\ Disjoint'
      BY <1>4, <2>1, <2>2 DEF AccountedFor, Disjoint
    <2> QED
      BY <2>4, <2>5, <2>6, <2>7
  <1>6. CASE after[p] # Gone /\ after[p] # before[p]
    <2>1. PICK kind \in Compared : changes' = changes \union {Change(kind, p, NoPath)}
      BY <1>6 DEF CompareFile, Compared
    <2>2. KeptDone' = KeptDone \union {p} /\ p \notin KeptDone
      BY <1>1, <1>3, <1>6 DEF KeptDone, Differing
    <2>3. Loops'
      BY <1>1, <1>2, <1>3, <1>6 DEF Loops, CompareFile, Files
    <2>4. TypeOK'
      BY <2>1 DEF TypeOK, CompareFile, Change, Compared
    <2>5. \A c \in changes' : Accounts(c)'
      <3>1. ASSUME NEW c \in changes PROVE Accounts(c)'
        BY <1>4, <2>2 DEF Accounts
      <3>2. ASSUME NEW c, c = Change(kind, p, NoPath) PROVE Accounts(c)'
        BY <2>2, <3>2, Fields DEF Accounts
      <3> QED
        BY <2>1, <3>1, <3>2
    <2>6. AccountedFor'
      BY <1>4, <2>1, <2>2, Fields DEF AccountedFor
    <2>7. Disjoint'
      <3>1. p \notin AllDone /\ NoPath \notin AllDone
        BY <1>4, <2>2, Kinds DEF AllDone, KeptDone
      <3> QED
        BY <2>1, <3>1, OneMore, Fields
    <2> QED
      BY <2>3, <2>4, <2>5, <2>6, <2>7
  <1> QED
    BY <1>5, <1>6

\* The second loop leaves the compared files as they are and starts the third.
LEMMA CollectStep ==
    ASSUME IInv, CollectCreated
    PROVE  IInv'
  <1> USE DEF IInv
  <1>1. /\ Lost' = Lost /\ New' = New /\ Kept' = Kept /\ Differing' = Differing
        /\ phase = "before" /\ phase' = "deleted" /\ left = {} /\ left' = Lost
        /\ created' = New /\ deleted' = Lost /\ changes' = changes
    BY DEF CollectCreated, Loops, Lost, New, Kept, Files, Differing
  <1>2. LostDone = {} /\ NewDone = {} /\ LostDone' = {} /\ NewDone' = {} /\ KeptDone' = KeptDone
    BY <1>1 DEF LostDone, NewDone, KeptDone
  <1>3. Loops'
    BY <1>1 DEF Loops
  <1>4. TypeOK'
    BY <1>1, Kinds DEF TypeOK, CollectCreated
  <1>5. \A c \in changes' : Accounts(c)'
    BY <1>1, <1>2 DEF Accounts
  <1> QED
    BY <1>1, <1>2, <1>3, <1>4, <1>5 DEF AccountedFor, Disjoint

\* Each step of the third loop works through a lost path, and the new one that it
\* is paired with.
LEMMA PairStep ==
    ASSUME IInv, NEW p \in Paths, PairDeleted(p)
    PROVE  IInv'
  <1> USE DEF IInv
  <1>1. /\ Lost' = Lost /\ New' = New /\ Kept' = Kept /\ Differing' = Differing
        /\ phase = "deleted" /\ phase' = "deleted" /\ p \in left /\ left' = left \ {p}
    BY DEF PairDeleted, Lost, New, Kept, Files, Differing
  <1>2. p \in Lost /\ left \subseteq Lost /\ created \subseteq New
    BY <1>1 DEF Loops
  <1>3. KeptDone' = KeptDone
    BY <1>1 DEF KeptDone
  <1>4. LostDone' = LostDone \union {p} /\ p \notin LostDone
    BY <1>1, <1>2 DEF LostDone
  <1>5. p \notin AllDone /\ NoPath \notin AllDone
    BY <1>2, <1>4, Kinds DEF AllDone, KeptDone, LostDone, NewDone
  <1>6. CASE \A q \in created : ~Renameable(p, q)
    <2>1. changes' = changes \union {Change("DELETE", p, NoPath)} /\ created' = created
      BY <1>6 DEF PairDeleted
    <2>2. NewDone' = NewDone
      BY <1>1, <2>1 DEF NewDone
    <2>3. Loops'
      BY <1>1, <1>2, <2>1 DEF Loops, PairDeleted
    <2>4. TypeOK'
      BY <2>1 DEF TypeOK, PairDeleted, Change
    <2>5. \A c \in changes' : Accounts(c)'
      <3>1. ASSUME NEW c \in changes PROVE Accounts(c)'
        BY <1>3, <1>4, <2>2 DEF Accounts
      <3>2. ASSUME NEW c, c = Change("DELETE", p, NoPath) PROVE Accounts(c)'
        BY <1>4, <3>2, Fields DEF Accounts
      <3> QED
        BY <2>1, <3>1, <3>2
    <2>6. AccountedFor'
      BY <1>3, <1>4, <2>1, <2>2, Fields DEF AccountedFor
    <2>7. Disjoint'
      BY <1>5, <2>1, OneMore, Fields
    <2> QED
      BY <2>3, <2>4, <2>5, <2>6, <2>7
  <1>7. CASE \E q \in created : Renameable(p, q)
    <2>1. PICK q \in created :
            /\ Renameable(p, q)
            /\ created' = created \ {q}
            /\ changes' = changes \union {Change("RENAME", q, p)}
      BY <1>7 DEF PairDeleted
    <2>2. NewDone' = NewDone \union {q} /\ q \notin NewDone /\ q \in New /\ q \in Paths
      BY <1>1, <1>2, <2>1, Kinds DEF NewDone
    <2>3. Loops'
      BY <1>1, <1>2, <2>1 DEF Loops, PairDeleted
    <2>4. TypeOK'
      BY <2>1, <2>2 DEF TypeOK, PairDeleted, Change
    <2>5. \A c \in changes' : Accounts(c)'
      <3>1. ASSUME NEW c \in changes PROVE Accounts(c)'
        BY <1>3, <1>4, <2>2 DEF Accounts
      <3>2. ASSUME NEW c, c = Change("RENAME", q, p) PROVE Accounts(c)'
        <4>1. RootOf[p] = RootOf[q]
          BY <2>1 DEF Renameable
        <4> QED
          BY <1>4, <2>2, <3>2, <4>1, Fields DEF Accounts
      <3> QED
        BY <2>1, <3>1, <3>2
    <2>6. AccountedFor'
      BY <1>3, <1>4, <2>1, <2>2, Fields DEF AccountedFor
    <2>7. Disjoint'
      <3>1. q \notin AllDone
        BY <2>2, Kinds DEF AllDone, KeptDone, LostDone
      <3> QED
        BY <1>5, <2>1, <3>1, OneMore, Fields
    <2> QED
      BY <2>3, <2>4, <2>5, <2>6, <2>7
  <1> QED
    BY <1>6, <1>7

\* The last loop works through the new paths that are left.
LEMMA ReportStep ==
    ASSUME IInv, ReportCreated
    PROVE  IInv'
  <1> USE DEF IInv
  <1> DEFINE reports == {Change("CREATE", q, NoPath) : q \in created}
  <1>1. /\ Lost' = Lost /\ New' = New /\ Kept' = Kept /\ Differing' = Differing
        /\ phase = "deleted" /\ phase' = "done" /\ left = {} /\ left' = left
        /\ created' = created /\ deleted' = deleted
        /\ changes' = changes \union reports
    BY DEF ReportCreated, Lost, New, Kept, Files, Differing
  <1>2. created \subseteq New /\ created \subseteq Paths
    BY <1>1, Kinds DEF Loops
  <1>3. /\ KeptDone' = KeptDone /\ LostDone' = LostDone
        /\ NewDone' = NewDone \union created /\ NewDone \cap created = {}
    BY <1>1, <1>2 DEF KeptDone, LostDone, NewDone
  <1>4. Loops'
    BY <1>1 DEF Loops
  <1>5. TypeOK'
    BY <1>1, <1>2 DEF TypeOK, ReportCreated, Change
  <1>6. ASSUME NEW c \in reports
        PROVE  /\ c.kind = "CREATE" /\ c.path \in created /\ c.old = NoPath
               /\ c = Change("CREATE", c.path, NoPath)
    BY Fields
  <1>7. \A c \in changes' : Accounts(c)'
    <2>1. ASSUME NEW c \in changes PROVE Accounts(c)'
      BY <1>3 DEF Accounts
    <2>2. ASSUME NEW c \in reports PROVE Accounts(c)'
      BY <1>3, <1>6 DEF Accounts
    <2> QED
      BY <1>1, <2>1, <2>2
  <1>8. AccountedFor'
    <2>1. \A q \in created : Change("CREATE", q, NoPath) \in changes'
      BY <1>1
    <2> QED
      BY <1>1, <1>3, <2>1, Fields DEF AccountedFor
  <1>9. Disjoint'
    <2>1. created \cap AllDone = {} /\ NoPath \notin created
      BY <1>2, <1>3, Kinds DEF AllDone, KeptDone, LostDone
    <2>2. ASSUME NEW c \in changes, NEW d \in reports
          PROVE  {c.path, c.old} \cap {d.path, d.old} \subseteq {NoPath}
      BY <1>6, <2>1, Touches
    <2>3. ASSUME NEW c \in reports, NEW d \in reports, c # d
          PROVE  {c.path, c.old} \cap {d.path, d.old} \subseteq {NoPath}
      BY <1>6, <2>3
    <2> QED
      BY <1>1, <2>2, <2>3 DEF Disjoint
  <1> QED
    BY <1>4, <1>5, <1>7, <1>8, <1>9

\* The invariant is inductive: one lemma for each loop.
LEMMA NextIInv == IInv /\ [Next]_vars => IInv'
  <1>1. ASSUME IInv, UNCHANGED vars PROVE IInv'
    <2>1. /\ before' = before /\ after' = after /\ phase' = phase /\ left' = left
          /\ deleted' = deleted /\ created' = created /\ changes' = changes
      BY <1>1 DEF vars
    <2>2. Lost' = Lost /\ New' = New /\ Kept' = Kept /\ Differing' = Differing
      BY <2>1 DEF Lost, New, Kept, Differing, Files
    <2>3. KeptDone' = KeptDone /\ LostDone' = LostDone /\ NewDone' = NewDone
      BY <2>1, <2>2 DEF KeptDone, LostDone, NewDone
    <2>4. TypeOK'
      BY <1>1, <2>1 DEF IInv, TypeOK
    <2>5. Loops'
      BY <1>1, <2>1, <2>2 DEF IInv, Loops, Files
    <2>6. \A c \in changes' : Accounts(c)'
      BY <1>1, <2>1, <2>3 DEF IInv, Accounts
    <2>7. AccountedFor'
      BY <1>1, <2>1, <2>3 DEF IInv, AccountedFor
    <2>8. Disjoint'
      BY <1>1, <2>1 DEF IInv, Disjoint
    <2> QED
      BY <2>4, <2>5, <2>6, <2>7, <2>8 DEF IInv
  <1> QED
    BY <1>1, CompareStep, CollectStep, PairStep, ReportStep DEF Next, Done

\* At every step the changes found so far account for the paths worked through so far.
THEOREM DiffInvariance == Spec => []IInv
  BY InitIInv, NextIInv, PTL DEF Spec

------------------------------------------------------------------------------
(* How many renames there are.                                              *)

\* Who is paired: files that could be, and never one that was left while another
\* that it could be paired with was given up.
Paired ==
    \A c \in changes :
        /\ c.kind = "RENAME" => Renameable(c.old, c.path)
        /\ c.kind = "DELETE" => \A q \in created : ~Renameable(c.path, q)
        /\ c.kind = "CREATE" => c.path \in created

\* What changes' that are not new, or not of the kind, say of the pairs.
PairedUpon(c) ==
    /\ c.kind = "RENAME" => Renameable(c.old, c.path)'
    /\ c.kind = "DELETE" => \A q \in created' : ~Renameable(c.path, q)'
    /\ c.kind = "CREATE" => c.path \in created'

\* Only the last loop reports a created file.
LEMMA NoneCreatedYet ==
    ASSUME IInv, phase # "done", NEW c \in changes
    PROVE  /\ c.kind = "CREATE" => c.path \notin created /\ phase = "deleted"
           /\ c.kind \in {"DELETE", "RENAME"} => phase = "deleted"
  <1>1. Accounts(c) /\ phase \in {"before", "deleted"}
    BY DEF IInv, TypeOK
  <1> QED
    BY <1>1 DEF Accounts, Compared, LostDone, NewDone

\* The pairs stay right: what is created gets less, and with it what a file that
\* was given up could have been paired with.
LEMMA NextPaired ==
    ASSUME IInv, Paired, [Next]_vars
    PROVE  Paired'
  <1>1. UNCHANGED <<before, after>>
    BY DEF Next, CompareFile, PairDeleted, CollectCreated, ReportCreated, Done, vars
  <1>2. \A p, q : Renameable(p, q)' <=> Renameable(p, q)
    BY <1>1 DEF Renameable
  <1>3. ASSUME NEW p \in Paths, CompareFile(p) PROVE Paired'
    <2>1. created' = created /\ \A c \in changes' : c \in changes \/ c.kind \in Compared
      BY <1>3 DEF CompareFile, Change, Compared
    <2> QED
      BY <1>2, <2>1 DEF Paired, Compared
  <1>4. CASE CollectCreated
    <2>1. changes' = changes /\ phase = "before"
      BY <1>4 DEF CollectCreated
    <2> QED
      BY <2>1, NoneCreatedYet DEF Paired
  <1>5. ASSUME NEW p \in Paths, PairDeleted(p) PROVE Paired'
    <2>1. phase = "deleted"
      BY <1>5 DEF PairDeleted
    <2>2. \A c \in changes : c.kind # "CREATE"
      BY <2>1, NoneCreatedYet DEF Paired
    <2>3. CASE \A q \in created : ~Renameable(p, q)
      <3>1. created' = created /\ changes' = changes \union {Change("DELETE", p, NoPath)}
        BY <1>5, <2>3 DEF PairDeleted
      <3>2. \A c \in changes : PairedUpon(c)
        BY <1>2, <2>2, <3>1 DEF Paired, PairedUpon
      <3>3. PairedUpon(Change("DELETE", p, NoPath))
        BY <1>2, <2>3, <3>1, Fields DEF PairedUpon
      <3> QED
        BY <3>1, <3>2, <3>3 DEF Paired, PairedUpon
    <2>4. CASE \E q \in created : Renameable(p, q)
      <3>1. PICK q \in created :
              /\ Renameable(p, q)
              /\ created' = created \ {q}
              /\ changes' = changes \union {Change("RENAME", q, p)}
        BY <1>5, <2>4 DEF PairDeleted
      <3>2. \A c \in changes : PairedUpon(c)
        BY <1>2, <2>2, <3>1 DEF Paired, PairedUpon
      <3>3. PairedUpon(Change("RENAME", q, p))
        BY <1>2, <3>1, Fields DEF PairedUpon
      <3> QED
        BY <3>1, <3>2, <3>3 DEF Paired, PairedUpon
    <2> QED
      BY <2>3, <2>4
  <1>6. CASE ReportCreated
    <2> DEFINE reports == {Change("CREATE", q, NoPath) : q \in created}
    <2>1. created' = created /\ changes' = changes \union reports
      BY <1>6 DEF ReportCreated
    <2>2. \A c \in changes : PairedUpon(c)
      BY <1>2, <2>1 DEF Paired, PairedUpon
    <2>3. \A c \in reports : c.kind = "CREATE" /\ c.path \in created
      BY Fields
    <2>4. \A c \in reports : PairedUpon(c)
      BY <2>1, <2>3 DEF PairedUpon
    <2> QED
      BY <2>1, <2>2, <2>4 DEF Paired, PairedUpon
  <1>7. CASE UNCHANGED vars
    BY <1>2, <1>7 DEF Paired, vars
  <1> QED
    BY <1>3, <1>4, <1>5, <1>6, <1>7 DEF Next, Done

\* A set that is mapped one to one into another has no more elements, and as many
\* if it covers it.
LEMMA OneToOne ==
    ASSUME NEW S, NEW T, IsFiniteSet(T), NEW f \in [S -> T],
           \A x, y \in S : f[x] = f[y] => x = y
    PROVE  /\ Cardinality(S) \in Nat /\ Cardinality(T) \in Nat
           /\ Cardinality(S) <= Cardinality(T)
           /\ (\A t \in T : \E x \in S : f[x] = t) => Cardinality(S) = Cardinality(T)
  <1>1. f \in Injection(S, T)
    BY DEF Injection, IsInjective
  <1>2. (\A t \in T : \E x \in S : f[x] = t) => f \in Surjection(S, T)
    BY DEF Surjection
  <1> QED
    BY <1>1, <1>2, FS_Injection, FS_CardinalityType

------------------------------------------------------------------------------
(* The theorems.                                                            *)

\* In whatever order Go ranges over the maps, and whichever of several possible
\* pairs of names it takes for a rename, the roots that the monitor goes on to
\* scan are those below which the snapshots differ.
THEOREM ScansTheRightRoots == Spec => []RootsAreRight
  <1>1. ASSUME IInv, phase = "done"
        PROVE  {Root(c) : c \in changes} = {RootOf[p] : p \in Differing}
    <2>1. /\ LostDone = Lost /\ NewDone = New /\ KeptDone = Kept \cap Differing
      BY <1>1 DEF IInv, Loops, LostDone, NewDone, KeptDone
    <2>2. Lost \subseteq Differing /\ New \subseteq Differing /\ Differing \subseteq Paths
      BY DEF Lost, New, Files, Differing
    <2>3. Differing \subseteq Lost \union New \union (Kept \cap Differing)
      BY DEF Lost, New, Kept, Files, Differing
    <2>4. ASSUME NEW c \in changes
          PROVE  \E p \in Differing : Root(c) = RootOf[p]
      <3>1. Accounts(c)
        BY <1>1 DEF IInv
      <3>2. CASE c.kind = "RENAME"
        BY <2>1, <2>2, <3>1, <3>2 DEF Accounts, Root, Compared
      <3>3. CASE c.kind # "RENAME"
        BY <2>1, <2>2, <3>1, <3>3 DEF Accounts, Root
      <3> QED
        BY <3>2, <3>3
    <2>5. ASSUME NEW p \in Differing
          PROVE  \E c \in changes : Root(c) = RootOf[p]
      <3>1. CASE p \in KeptDone
        <4>1. PICK c \in changes : c.kind \in Compared /\ c.path = p
          BY <1>1, <3>1 DEF IInv, AccountedFor
        <4> QED
          BY <4>1 DEF Root, Compared
      <3>2. CASE p \in LostDone
        <4>1. PICK c \in changes : \/ c.kind = "DELETE" /\ c.path = p
                                   \/ c.kind = "RENAME" /\ c.old = p
          BY <1>1, <3>2 DEF IInv, AccountedFor
        <4> QED
          BY <4>1 DEF Root
      <3>3. CASE p \in NewDone
        <4>1. PICK c \in changes : c.kind \in {"CREATE", "RENAME"} /\ c.path = p
          BY <1>1, <3>3 DEF IInv, AccountedFor
        <4>2. c.kind = "RENAME" => RootOf[c.old] = RootOf[c.path]
          BY <1>1 DEF IInv, Accounts, Compared
        <4> QED
          BY <4>1, <4>2 DEF Root
      <3> QED
        BY <2>1, <2>3, <3>1, <3>2, <3>3
    <2> QED
      BY <2>4, <2>5
  <1>2. IInv => RootsAreRight
    BY <1>1 DEF RootsAreRight
  <1> QED
    BY <1>2, DiffInvariance, PTL

\* The events of one poll account for every path of which the snapshots differ,
\* and for each only once: no file is both renamed and created, and no two files
\* are renamed to one.
THEOREM EveryDifferenceOnce == Spec => []EventsAccount
  <1>1. ASSUME IInv, phase = "done"
        PROVE  LET gone == {c.path : c \in OfKind("DELETE")} \union {c.old : c \in OfKind("RENAME")}
                   new  == {c.path : c \in OfKind("CREATE") \union OfKind("RENAME")}
               IN  /\ gone = Files(before) \ Files(after)
                   /\ new = Files(after) \ Files(before)
                   /\ {c.path : c \in OfKind("SIZE_CHANGE") \union OfKind("MODIFY")} =
                        Differing \ (gone \union new)
                   /\ Disjoint
    <2> DEFINE gone == {c.path : c \in OfKind("DELETE")} \union {c.old : c \in OfKind("RENAME")}
               new  == {c.path : c \in OfKind("CREATE") \union OfKind("RENAME")}
    <2>1. /\ LostDone = Lost /\ NewDone = New /\ KeptDone = Kept \cap Differing
      BY <1>1 DEF IInv, Loops, LostDone, NewDone, KeptDone
    <2>2. gone = Lost
      BY <1>1, <2>1 DEF IInv, Accounts, AccountedFor, OfKind, Compared
    <2>3. new = New
      BY <1>1, <2>1 DEF IInv, Accounts, AccountedFor, OfKind, Compared
    <2>4. {c.path : c \in OfKind("SIZE_CHANGE") \union OfKind("MODIFY")} = Kept \cap Differing
      BY <1>1, <2>1 DEF IInv, Accounts, AccountedFor, OfKind, Compared
    <2>5. Kept \cap Differing = Differing \ (Lost \union New)
      BY DEF Lost, New, Kept, Files, Differing
    <2> QED
      BY <1>1, <2>2, <2>3, <2>4, <2>5 DEF IInv, Lost, New
  <1>2. IInv => EventsAccount
    BY <1>1 DEF EventsAccount, Disjoint
  <1> QED
    BY <1>2, DiffInvariance, PTL

\* However Go orders its maps, as many files of a root are reported renamed as there
\* are files of one state gone from it or new in it, whichever are fewer: pairing
\* greedily loses no pair. The argument: renames map one to one to the lost files
\* of that state and to the new ones; if one of the lost files was given up, no new
\* one was left for it, and all of them are paired (daemon.go:276-291).
THEOREM RenamesAreCounted == Spec => []RenamesDoNotDepend
  <1>1. ASSUME IInv, Paired, phase = "done", NEW p \in Files(before) \ Files(after)
        PROVE  Cardinality({c \in OfKind("RENAME") :
                              RootOf[c.old] = RootOf[p] /\ before[c.old] = before[p]}) = Matches(p)
    <2> DEFINE Like(q, snapshot, other) ==
                   snapshot[q] = before[p] /\ RootOf[q] = RootOf[p] /\ other[q] = Gone
               Olds == {q \in Paths : Like(q, before, after)}
               News == {q \in Paths : Like(q, after, before)}
               Pairs == {c \in OfKind("RENAME") :
                           RootOf[c.old] = RootOf[p] /\ before[c.old] = before[p]}
               old == [c \in Pairs |-> c.old]
               new == [c \in Pairs |-> c.path]
    <2>1. before[p] # Gone
      BY DEF Files
    <2>2. LostDone = Lost /\ NewDone = New /\ Olds \subseteq Lost /\ News \subseteq New
      BY <1>1, <2>1 DEF IInv, Loops, LostDone, NewDone, Lost, New, Files
    <2>3. \A c \in Pairs : /\ c \in changes /\ c.kind = "RENAME"
                          /\ c.old \in Lost /\ c.path \in New /\ Renameable(c.old, c.path)
                          /\ RootOf[c.old] = RootOf[p] /\ before[c.old] = before[p]
      BY <1>1, <2>2 DEF OfKind, IInv, Accounts, Paired, Compared
    <2>4. \A c \in Pairs : c.old \in Olds /\ c.path \in News
      BY <2>3 DEF Lost, New, Files, Renameable
    <2>5. NoPath \notin Paths /\ Olds \subseteq Paths /\ News \subseteq Paths
      OBVIOUS
    <2>6. \A c, d \in Pairs : c.old = d.old \/ c.path = d.path => c = d
      <3>1. ASSUME NEW c \in Pairs, NEW d \in Pairs, c # d
            PROVE  c.old # d.old /\ c.path # d.path
        <4>1. {c.path, c.old} \cap {d.path, d.old} \subseteq {NoPath}
          BY <1>1, <2>3, <3>1 DEF IInv, Disjoint
        <4>2. c.old # NoPath /\ c.path # NoPath
          BY <2>4, <2>5
        <4> QED
          BY <4>1, <4>2
      <3> QED
        BY <3>1
    <2>7. IsFiniteSet(Olds) /\ IsFiniteSet(News)
      BY <2>5, FS_Subset
    <2>8. /\ Cardinality(Pairs) \in Nat /\ Cardinality(Olds) \in Nat
          /\ Cardinality(Pairs) <= Cardinality(Olds)
          /\ (\A q \in Olds : \E c \in Pairs : c.old = q) => Cardinality(Pairs) = Cardinality(Olds)
      <3>1. old \in [Pairs -> Olds] /\ \A c, d \in Pairs : old[c] = old[d] => c = d
        BY <2>4, <2>6
      <3>2. \A c \in Pairs : old[c] = c.old
        OBVIOUS
      <3> HIDE DEF Pairs, Olds, old
      <3>3. /\ Cardinality(Pairs) \in Nat /\ Cardinality(Olds) \in Nat
            /\ Cardinality(Pairs) <= Cardinality(Olds)
            /\ (\A q \in Olds : \E c \in Pairs : old[c] = q) => Cardinality(Pairs) = Cardinality(Olds)
        BY <2>7, <3>1, OneToOne
      <3> QED
        BY <3>2, <3>3
    <2>9. /\ Cardinality(News) \in Nat
          /\ Cardinality(Pairs) <= Cardinality(News)
          /\ (\A q \in News : \E c \in Pairs : c.path = q) => Cardinality(Pairs) = Cardinality(News)
      <3>1. new \in [Pairs -> News] /\ \A c, d \in Pairs : new[c] = new[d] => c = d
        BY <2>4, <2>6
      <3>2. \A c \in Pairs : new[c] = c.path
        OBVIOUS
      <3> HIDE DEF Pairs, News, new
      <3>3. /\ Cardinality(Pairs) \in Nat /\ Cardinality(News) \in Nat
            /\ Cardinality(Pairs) <= Cardinality(News)
            /\ (\A q \in News : \E c \in Pairs : new[c] = q) => Cardinality(Pairs) = Cardinality(News)
        BY <2>7, <3>1, OneToOne
      <3> QED
        BY <3>2, <3>3
    <2>10. \/ \A q \in Olds : \E c \in Pairs : c.old = q
           \/ \A q \in News : \E c \in Pairs : c.path = q
      <3>1. CASE \A q \in Olds : \E c \in changes : c.kind = "RENAME" /\ c.old = q
        BY <3>1 DEF OfKind
      <3>2. CASE \E q \in Olds : ~\E c \in changes : c.kind = "RENAME" /\ c.old = q
        <4>1. PICK q \in Olds : ~\E c \in changes : c.kind = "RENAME" /\ c.old = q
          BY <3>2
        <4>2. \E c \in changes : c.kind = "DELETE" /\ c.path = q
          BY <1>1, <2>2, <4>1 DEF IInv, AccountedFor
        <4>3. \A n \in created : ~Renameable(q, n)
          BY <1>1, <4>2 DEF Paired
        <4>4. ASSUME NEW n \in News PROVE \E c \in Pairs : c.path = n
          <5>1. n \notin created
            BY <4>3 DEF Renameable
          <5>2. PICK c \in changes : c.kind \in {"CREATE", "RENAME"} /\ c.path = n
            BY <1>1, <2>2 DEF IInv, AccountedFor
          <5>3. c.kind = "RENAME" /\ Renameable(c.old, n)
            BY <1>1, <5>1, <5>2 DEF Paired
          <5> QED
            BY <5>2, <5>3 DEF OfKind, Renameable
        <4> QED
          BY <4>4
      <3> QED
        BY <3>1, <3>2
    <2>11. Matches(p) = IF Cardinality(Olds) < Cardinality(News)
                        THEN Cardinality(Olds) ELSE Cardinality(News)
      BY DEF Matches
    <2> HIDE DEF Pairs, Olds, News
    <2>12. Cardinality(Pairs) = Matches(p)
      BY <2>8, <2>9, <2>10, <2>11
    <2> QED
      BY <2>12 DEF Pairs
  <1>2. IInv /\ Paired => RenamesDoNotDepend
    BY <1>1 DEF RenamesDoNotDepend
  <1>3. Init => Paired
    BY DEF Init, Paired
  <1>4. IInv /\ Paired /\ [Next]_vars => Paired'
    BY NextPaired
  <1> QED
    BY <1>2, <1>3, <1>4, DiffInvariance, PTL DEF Spec

\* The changes of a comparison are of known kinds, between paths that were
\* compared, in every phase of it.
THEOREM TypeCorrect == Spec => []TypeOK
  <1>1. IInv => TypeOK
    BY DEF IInv
  <1> QED
    BY <1>1, DiffInvariance, PTL

====
