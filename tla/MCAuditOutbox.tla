---------------------------- MODULE MCAuditOutbox ----------------------------
(* Small instances of AuditOutbox for TLC. *)
EXTENDS AuditOutbox, TLC

\* The executor thread and the handler threads flush alike.
ThreadSymmetry == Permutations(Threads)
=============================================================================
