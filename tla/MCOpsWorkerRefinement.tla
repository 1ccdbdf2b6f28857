----------------------- MODULE MCOpsWorkerRefinement -----------------------
(* Small instance of the refinement for TLC.  Without symmetry, since the   *)
(* run also checks liveness.                                                *)
EXTENDS OpsWorkerRefinement
=============================================================================
