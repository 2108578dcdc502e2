--------------------------- MODULE QuarantineStore ---------------------------
(***************************************************************************)
(* What the clean / restore / purge commands promise about the artifact     *)
(* directories themselves, whatever the processes, database rows and disk   *)
(* manifests behind them do:                                                *)
(*   - clean only moves a directory aside, it never deletes one;            *)
(*   - restore puts back exactly the tree that was set aside, and only into *)
(*     an empty place;                                                      *)
(*   - data is destroyed only once it has been in quarantine for Retention. *)
(* Cleanup.tla is shown to implement this specification.                    *)
(***************************************************************************)
EXTENDS Integers

CONSTANTS
    Items,       \* the artifact directories of a cleanup plan
    Txs,         \* cleanup transactions: each has its own quarantine directory
    Retention    \* quarantine_days

VARIABLES
    clock,       \* days
    place,       \* place[i]: what is at the original path of artifact i
    vault,       \* vault[t][i]: what transaction t holds of artifact i
    since        \* since[t][i]: when t set artifact i aside

vars == <<clock, place, vault, since>>

\* A directory tree: as the plan measured it, changed since, partly deleted,
\* or a link that replaced it; "none" where there is nothing.
Tree    == {"planned", "changed", "partial", "link"}
Content == Tree \union {"none"}

Init ==
    /\ clock = 0
    /\ place = [i \in Items |-> "planned"]
    /\ vault = [t \in Txs |-> [i \in Items |-> "none"]]
    /\ since = [t \in Txs |-> [i \in Items |-> 0]]

Tick ==
    /\ clock' = clock + 1
    /\ UNCHANGED <<place, vault, since>>

\* Anyone may rebuild, change or delete what is at an original path.
Outside(i) ==
    /\ \E c \in {"changed", "none"} : place' = [place EXCEPT ![i] = c]
    /\ UNCHANGED <<clock, vault, since>>

SetAside(t, i) ==
    /\ place[i] \in Tree
    /\ vault[t][i] = "none"
    /\ vault' = [vault EXCEPT ![t][i] = place[i]]
    /\ place' = [place EXCEPT ![i] = "none"]
    /\ since' = [since EXCEPT ![t][i] = clock]
    /\ UNCHANGED clock

PutBack(t, i) ==
    /\ place[i] = "none"
    /\ vault[t][i] \in Tree
    /\ place' = [place EXCEPT ![i] = vault[t][i]]
    /\ vault' = [vault EXCEPT ![t][i] = "none"]
    /\ UNCHANGED <<clock, since>>

\* Deleting a tree is not atomic: it may be seen, or left, partly deleted.
Destroy(t, i) ==
    /\ vault[t][i] \in Tree
    /\ clock >= since[t][i] + Retention
    /\ \E c \in {"partial", "none"} : vault' = [vault EXCEPT ![t][i] = c]
    /\ UNCHANGED <<clock, place, since>>

Next ==
    \/ Tick
    \/ \E i \in Items : Outside(i)
    \/ \E t \in Txs, i \in Items : SetAside(t, i) \/ PutBack(t, i) \/ Destroy(t, i)

Spec == Init /\ [][Next]_vars
==============================================================================
