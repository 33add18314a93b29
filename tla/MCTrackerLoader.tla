--------------------------- MODULE MCTrackerLoader ---------------------------
(* The command queue for TLC: a few commands, before and after the script.  *)
EXTENDS TrackerLoader
=============================================================================
