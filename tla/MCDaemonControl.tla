--------------------------- MODULE MCDaemonControl ----------------------------
(***************************************************************************)
(* Instances of DaemonControl for TLC.                                      *)
(***************************************************************************)
EXTENDS DaemonControl

AllFaults == FaultKinds
==============================================================================
