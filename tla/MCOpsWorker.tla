---------------------------- MODULE MCOpsWorker ----------------------------
(* Small instances of OpsWorker for TLC. *)
EXTENDS OpsWorker, TLC

\* Keys appear in no order and no arithmetic: any permutation is a symmetry.
KeySymmetry == Permutations(Keys)
=============================================================================
