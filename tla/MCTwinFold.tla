----------------------------- MODULE MCTwinFold -----------------------------
(* An instance of TwinFold for TLC: one session, one workspace, one task.  *)
EXTENDS TwinFold

CONSTANTS t1, thread, w
=============================================================================
