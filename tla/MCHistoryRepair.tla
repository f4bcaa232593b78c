--------------------------- MODULE MCHistoryRepair ---------------------------
(* Instances of HistoryRepair for TLC. *)
EXTENDS HistoryRepair

CONSTANTS f1, f2, f3
=============================================================================
