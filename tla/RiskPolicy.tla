------------------------------ MODULE RiskPolicy -------------------------------
(***************************************************************************)
(* The verdict on a resource and the confidence in it: DefaultRiskPolicy    *)
(* (risk_policy.go), confidence profiles (resource_service.go,              *)
(* confidence_claims.go, risk_assessment.go) and their ageing               *)
(* (confidence.go). Functions of the facts at hand; no state.               *)
(*                                                                          *)
(* What only explains a verdict (reasons, disposition, component scores,    *)
(* the status of an axis) is left out.                                      *)
(***************************************************************************)
EXTENDS Integers, FiniteSets

RiskLevels == {"SAFE", "REVIEW", "BLOCKED"}

(* The types that the policy tells apart, with those of the resources that  *)
(* a REQUIRES edge leads to.                                                *)
ProjectLocalTypes == {"node-modules", "build-output", "cocoapods-pods", "python-venv"}
RequirableTypes   == {"conda-env", "windows-sdk", "dotnet-sdk", "xcode-install"}
ManagedTypes      == {"android-sdk", "global-cache", "docker-volume", "docker-cache"}
ResourceTypes     == ProjectLocalTypes \union RequirableTypes \union ManagedTypes

CleanupFacts ==
    {"ProjectOwned", "KnownOutputPath", "ReparsePointFree", "GitTrackedOriginalsAbsent"}

\* The status of the facts that an adapter reports as booleans: a zero value is
\* an unverified fact.
Normalize(evidence) ==
    [fact \in CleanupFacts |-> IF fact \in evidence THEN "VERIFIED_TRUE" ELSE "UNVERIFIED"]

Complete(evidence) == \A fact \in CleanupFacts : Normalize(evidence)[fact] = "VERIFIED_TRUE"

------------------------------------------------------------------------------
(* The verdict. No caller gives impact counts, relation strengths or        *)
(* critical unknowns: their zero values leave the rules below.              *)

Contexts ==
    [type : ResourceTypes, protected : BOOLEAN, regenerable : BOOLEAN,
     required : BOOLEAN, evidence : SUBSET CleanupFacts]

RecoverableLocally(c) == c.regenerable /\ c.type \in ProjectLocalTypes

Classify(c) ==
    CASE c.type = "android-sdk"                      -> "BLOCKED"
      [] c.type = "global-cache"                     -> "REVIEW"
      [] c.type = "docker-volume"                    -> "BLOCKED"
      [] c.type = "docker-cache"                     -> "REVIEW"
      [] c.type \notin ManagedTypes /\ c.protected   -> "BLOCKED"
      [] c.type \notin ManagedTypes /\ ~c.protected  ->
            IF c.required /\ ~RecoverableLocally(c) THEN "BLOCKED"
            ELSE IF c.regenerable /\ Complete(c.evidence) THEN "SAFE"
            ELSE "REVIEW"

------------------------------------------------------------------------------
(* Confidence in a claim. An item of evidence is a record of its claim,     *)
(* kind, source family, and whether it contradicts and is out of date.      *)

EvidenceKinds == {"RESOLVED", "OBSERVED", "DECLARED", "PINNED", "INFERRED", "UNKNOWN"}

DefaultConfidence(kind) ==
    CASE kind = "RESOLVED" -> 90 [] kind = "OBSERVED" -> 85 [] kind = "DECLARED" -> 75
      [] kind = "PINNED" -> 60 [] kind = "INFERRED" -> 40 [] kind = "UNKNOWN" -> 10

Least(S)    == CHOOSE x \in S : \A y \in S : x <= y
Greatest(S) == CHOOSE x \in S : \A y \in S : x >= y

\* Each further source family adds a quarter of what is missing, at most 5.
Corroborated(top, families) ==
    LET score[n \in 0 .. families - 1] ==
            IF n = 0 THEN top
            ELSE score[n - 1] + Least({5, (100 - score[n - 1]) \div 4})
    IN  score[families - 1]

AssessClaim(claim, evidence) ==
    LET items      == {item \in evidence : item.claim = claim /\ item.kind # "UNKNOWN"}
        supporting == {item \in items : ~item.contradicts}
        families   == {item.family : item \in supporting}
        support    == IF supporting = {} THEN 0
                      ELSE Corroborated(Greatest({DefaultConfidence(item.kind) : item \in supporting}),
                                        Cardinality(families))
        caps       == {100} \union (IF items # supporting THEN {49} ELSE {})
                            \union (IF \E item \in supporting : item.stale THEN {30} ELSE {})
    IN  Least(caps \union {support})

\* One weak prerequisite limits the axis.
AssessAxis(required, evidence) ==
    IF required = {} THEN 0
    ELSE Least({100} \union {AssessClaim(claim, evidence) : claim \in required})

------------------------------------------------------------------------------
(* The confidence profile of an observation.                                *)

CleanupAxes == {"OWNERSHIP", "REGENERABILITY", "PATH_SAFETY"}
Axes == CleanupAxes \union {"CLASSIFICATION", "DEPENDENCY", "SCAN_COVERAGE", "FRESHNESS"}

Claim(claim, known) ==
    [claim |-> claim, kind |-> IF known THEN "RESOLVED" ELSE "UNKNOWN", family |-> claim,
     contradicts |-> FALSE, stale |-> FALSE]

RegenerationClaims == {"BUILD_COMMAND_KNOWN", "INPUTS_AVAILABLE", "TOOLCHAIN_AVAILABLE"}

\* report: what a detector says of a resource, with scoped for a project's own.
ConfidenceProfile(report, evidence) ==
    LET fact     == Normalize(evidence)
        claims   == {Claim(f, fact[f] = "VERIFIED_TRUE") : f \in CleanupFacts}
                        \union {Claim(c, report.regenerable) : c \in RegenerationClaims}
        axis(cs) == IF report.scoped THEN AssessAxis(cs, claims) ELSE 100
    IN  [CLASSIFICATION |-> report.confidence,
         OWNERSHIP      |-> axis({"ProjectOwned"}),
         DEPENDENCY     |-> 80,
         REGENERABILITY |-> axis({"KnownOutputPath"} \union RegenerationClaims),
         PATH_SAFETY    |-> axis({"ReparsePointFree", "GitTrackedOriginalsAbsent"}),
         SCAN_COVERAGE  |-> 80,
         FRESHNESS      |-> 100]

Applicable(report) == IF report.scoped THEN Axes ELSE Axes \ CleanupAxes

Overall(profile, report) == Least({100} \union {profile[axis] : axis \in Applicable(report)})

FreshnessScore(days) ==
    IF days <= 7 THEN 100 ELSE IF days <= 30 THEN 80 ELSE IF days <= 90 THEN 50 ELSE 20

Aged(profile, days) == [profile EXCEPT !.FRESHNESS = FreshnessScore(days)]

\* Old observations lower SAFE to REVIEW, and never raise or lower another.
AgedRisk(risk, days) == IF risk = "SAFE" /\ FreshnessScore(days) < 80 THEN "REVIEW" ELSE risk

Threshold(axis) ==
    CASE axis \in CleanupAxes -> 90
      [] axis \in {"DEPENDENCY", "SCAN_COVERAGE", "FRESHNESS"} -> 80
      [] axis = "CLASSIFICATION" -> 1

Eligible(profile, report) == \A axis \in Applicable(report) : profile[axis] >= Threshold(axis)
==============================================================================
