------------------------------ MODULE PlanService ------------------------------
(***************************************************************************)
(* `libra plan' beside the scans: PlanService.Build (plan_service.go) and   *)
(* CleanupPlanRepository.Create. Build reads all resources, then the owner  *)
(* of one candidate after the other, each in a transaction of its own;      *)
(* scans write between them. Nothing but the plan is written, at the end    *)
(* and as a whole. A read or a write that fails ends the plan with nothing  *)
(* stored, like one that takes no more steps.                               *)
(*                                                                          *)
(* One plan is made. A row without a confidence profile, which only a       *)
(* database from before profiles has, is not modelled.                      *)
(***************************************************************************)
EXTENDS Inventory, SequencesExt

CONSTANTS
    Targets, \* what --target can be; a size beyond 2^63 - 1 becomes negative
    Scopes,  \* the resources that --project can restrict a plan to
    Rank     \* the order of resource IDs

ASSUME PlanAssumption ==
    /\ Targets \subseteq Int
    /\ Scopes \subseteq SUBSET Resources
    /\ Rank \in [Resources -> Nat]
    /\ \A x, y \in Resources : x # y => Rank[x] # Rank[y]
    /\ \A c \in Contents : c.output # None => c.output.type \notin ManagedTypes

VARIABLES
    step,     \* where the plan is
    target, scope,
    complete, \* history: the scans that had completed when resources were read
    listed,   \* the rows of all resources, as read
    at,       \* when they were read
    looked,   \* the candidates that have been looked at
    items,
    selected, \* the size of the items so far
    stored    \* the plan that is stored

plan     == <<step, target, scope, complete, listed, at, looked, items, selected, stored>>
planVars == <<vars, plan>>

NotRead == [x \in Resources |-> None]

PlanInit ==
    /\ Init
    /\ step = "idle"
    /\ target = 0 /\ scope = {}
    /\ complete = {} /\ listed = NotRead /\ at = 0
    /\ looked = {}
    /\ items = <<>> /\ selected = 0
    /\ stored = None

------------------------------------------------------------------------------
(* Candidates, in the order in which they are taken.                        *)

Age(x) == at - listed[x].observed

AgedProfile(x) == Aged(ConfidenceProfile(listed[x].report, listed[x].report.evidence), Age(x))

Confidence(x) == Overall(AgedProfile(x), listed[x].report)

\* Mutant: the age of an observation is not looked at.
AgelessSafe ==
    {x \in scope : /\ listed[x] # None
                   /\ listed[x].risk = "SAFE"
                   /\ Eligible(ConfidenceProfile(listed[x].report, listed[x].report.evidence),
                               listed[x].report)}

Safe ==
    {x \in scope : /\ listed[x] # None
                   /\ AgedRisk(listed[x].risk, Age(x)) = "SAFE"
                   /\ Eligible(AgedProfile(x), listed[x].report)}

Precedes(x, y) ==
    \/ Confidence(x) > Confidence(y)
    \/ /\ Confidence(x) = Confidence(y)
       /\ \/ listed[x].reclaimable > listed[y].reclaimable
          \/ listed[x].reclaimable = listed[y].reclaimable /\ Rank[x] < Rank[y]

\* The slice is sorted, and this is the first element that has not been looked at.
First(x) == \A y \in Safe \ looked : y = x \/ Precedes(x, y)

Total(chosen) ==
    LET sum[n \in 0 .. Len(chosen)] == IF n = 0 THEN 0 ELSE sum[n - 1] + chosen[n].size
    IN  sum[Len(chosen)]

\* Mutant: one candidate more than needed.
Exceeded == target > 0 /\ selected > target

Enough == target > 0 /\ selected >= target

Owner(x) == {e[1] : e \in {f \in edges : f[2] = "OWNS" /\ f[3] = x}}

------------------------------------------------------------------------------
(* Steps.                                                                   *)

\* There must have been a scan. The items are given the ID of the one that was started
\* last, whatever its status; nothing reads it again.
PlanBegin ==
    /\ step = "idle"
    /\ \E s \in Scans : status[s] # "NONE"
    /\ target' \in Targets /\ scope' \in Scopes
    /\ step' = "list"
    /\ UNCHANGED <<vars, complete, listed, at, looked, items, selected, stored>>

PlanList ==
    /\ step = "list"
    /\ listed' = rows
    /\ at' = now
    /\ complete' = {s \in Scans : status[s] \in {"COMPLETED", "COMPLETED_WITH_ERRORS"}}
    /\ step' = "owners"
    /\ UNCHANGED <<vars, target, scope, looked, items, selected, stored>>

Take(x, p) ==
    /\ items' = Append(items, [id |-> x, size |-> listed[x].reclaimable, owner |-> p])
    /\ selected' = selected + listed[x].reclaimable

\* Mutant: a candidate without an owner ends the selection.
StopAtOrphan ==
    /\ step = "owners" /\ ~Enough
    /\ \E x \in Safe \ looked :
        /\ First(x)
        /\ IF Owner(x) = {}
           THEN looked' = Safe /\ UNCHANGED <<items, selected>>
           ELSE looked' = looked \union {x} /\ \E p \in Owner(x) : Take(x, p)
    /\ UNCHANGED <<vars, step, target, scope, complete, listed, at, stored>>

\* A candidate without an owner is passed over.
PlanCandidate ==
    /\ step = "owners" /\ ~Enough
    /\ \E x \in Safe \ looked :
        /\ First(x)
        /\ looked' = looked \union {x}
        /\ IF Owner(x) = {}
           THEN UNCHANGED <<items, selected>>
           ELSE \E p \in Owner(x) : Take(x, p)
    /\ UNCHANGED <<vars, step, target, scope, complete, listed, at, stored>>

\* validateCleanupPlan, of what a selection can get wrong.
Valid(p) ==
    /\ p.target >= 0
    /\ p.selected = Total(p.items)
    /\ \A i, j \in DOMAIN p.items : i # j => p.items[i].id # p.items[j].id

PlanStore ==
    /\ step = "owners"
    /\ looked = Safe \/ Enough
    /\ LET p == [target |-> target, items |-> items, selected |-> selected,
                 status |-> IF target > 0 /\ selected < target
                            THEN "INSUFFICIENT_CANDIDATES" ELSE "READY"]
       IN  stored' = IF Valid(p) THEN p ELSE None
    /\ step' = "done"
    /\ UNCHANGED <<vars, target, scope, complete, listed, at, looked, items, selected>>

Plan == PlanBegin \/ PlanList \/ PlanCandidate \/ PlanStore

PlanSpec == PlanInit /\ [][(TimedNext /\ UNCHANGED plan) \/ Plan]_planVars
------------------------------------------------------------------------------
(* Properties.                                                              *)

Chosen == {stored.items[i].id : i \in DOMAIN stored.items}

\* A plan that says it is READY reaches its target, and would not without its last item;
\* one that says INSUFFICIENT_CANDIDATES does not (contracts.md section 23.1).
PlanMeetsTarget ==
    (stored # None /\ target > 0) =>
        /\ stored.status = "READY" => /\ stored.selected >= target
                                      /\ stored.items # <<>>
                                      /\ Total(Front(stored.items)) < target
        /\ stored.status = "INSUFFICIENT_CANDIDATES" => stored.selected < target

\* However scans write meanwhile, what a plan takes is proven: it belongs to a stored
\* project, can be made again from it, no fact about it is missing, and it was seen at
\* most 30 days before (plan_service.go:92-118).
PlanIsProven ==
    stored # None => \A i \in DOMAIN stored.items :
        LET item == stored.items[i]
            row  == listed[item.id]
        IN  /\ item.id \in scope \intersect Roots
            /\ row.report.regenerable /\ ~row.report.protected
            /\ row.report.evidence = CleanupFacts
            /\ at - row.observed <= 30
            /\ item.owner \in projects /\ <<item.owner, "OWNS", item.id>> \in edges
            /\ item.size = row.reclaimable

\* An output that a completed scan has found, and whose stored row, of this or another
\* scan that may be under way, is proven and fresh, is in the plan, unless the plan
\* reaches its target with others, none of them less certain, or as certain but smaller.
PlanMissesNothing ==
    stored # None => \A x \in (scope \intersect Roots) \ Chosen :
        (/\ \E s \in complete : x \in FoundOutputs(s)
         /\ listed[x].report.regenerable /\ ~listed[x].report.protected
         /\ listed[x].report.evidence = CleanupFacts /\ listed[x].report.confidence > 0
         /\ at - listed[x].observed <= 30)
            => /\ stored.status = "READY" /\ target > 0
               /\ \A y \in Chosen :
                    \/ Confidence(y) > Confidence(x)
                    \/ Confidence(y) = Confidence(x)
                        /\ listed[y].reclaimable >= listed[x].reclaimable
==============================================================================
