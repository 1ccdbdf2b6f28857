------------------------ MODULE OpsWorkerRefinement ------------------------
(* The worker keeps the promise of OpsJobSpec. *)
EXTENDS OpsWorker

\* Performing: this process has begun the mutation and nothing was raised yet.
Performing(k) ==
  /\ job = k
  /\ pc \in {"backup", "mutate", "apply", "handoffCheck", "handoff",
             "complete", "commit"}

\* A complete handoff stays one until its undo begins: a process that dies
\* between a failed verification and the rollback verifies it again.
HandedOff(k) == HandoffPending(k) /\ effect[k] = "full"

OpenPhase(k) ==
  CASE ~NeedsRollback(k) -> "waiting"
    [] NeedsRollback(k) /\ HandedOff(k) -> "handedOff"
    [] NeedsRollback(k) /\ ~HandedOff(k) /\ Performing(k) -> "working"
    [] OTHER -> "recovering"

ClosedPhase(k) ==
  CASE state[k] = "succeeded" -> "succeeded"
    [] state[k] # "succeeded" /\ rollbackObs[k] = "operator_attention_required"
         -> "attention"
    [] state[k] = "cancelled" /\ rollbackObs[k] = "none" /\ NeedsRollback(k)
         -> "abandoned"
    [] OTHER -> "undone"

Phase(k) ==
  CASE state[k] = "absent" -> "unknown"
    [] state[k] \in Active -> OpenPhase(k)
    [] OTHER -> ClosedPhase(k)

Jobs == INSTANCE OpsJobSpec WITH phase <- [k \in Keys |-> Phase(k)]

\* The job table, the executor, the daemon and systemd together implement the
\* abstract job: a mutation that was interrupted is never taken up again, a
\* success is whole, a clean failure leaves nothing, and each step touches one
\* job only.  This is Jobs!Spec up to the first audit flush that fails: what
\* the worker does to a job it has already committed is no step of it.
ImplementsOpsJobSpec ==
  Jobs!Init /\ [][faults' = 0 => Jobs!Next \/ UNCHANGED Jobs!vars]_vars

=============================================================================
