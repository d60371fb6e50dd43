------------------------------ MODULE MCCopyRun -----------------------------
(* Two foreign keys, so that a run can be interrupted between two drops or *)
(* two restores; three signals, so that one may be dropped.                *)
EXTENDS CopyRun

CONSTANTS k1, k2
MCFK == {k1, k2}
=============================================================================
