----------------------------- MODULE MCOpsRelay -----------------------------
(* Small instances of OpsRelay for TLC. *)
EXTENDS OpsRelay, TLC

\* Comments and job ids occur in no order.
Symmetry == Permutations(Comments) \cup Permutations(JobIds)
=============================================================================
