-------------------------- MODULE MCIncrementalScan ---------------------------
(***************************************************************************)
(* Instances of IncrementalScan for TLC.                                    *)
(***************************************************************************)
EXTENDS IncrementalScan, TLC

Meddling     == {"scan", "manual", "kill", "unseen", "revert"}
Unreadable   == {"walk"}
NoHome       == None
ScanSymmetry == Permutations(Scans)
==============================================================================
