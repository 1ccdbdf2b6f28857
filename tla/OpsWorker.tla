------------------------------ MODULE OpsWorker ------------------------------
(***************************************************************************)
(* The production operations worker (ops/phishtopia-ops-mcp/worker): the   *)
(* SQLite job store, the job executor, the daemon that runs one executor   *)
(* thread beside socket handler threads, and systemd restarting it.        *)
(*                                                                         *)
(* Durable state is the job table (one function per column), the recovery  *)
(* material of a secret rotation, the release symlink, the reexec flag and *)
(* "production" itself.  A crash loses only the process variables.         *)
(*                                                                         *)
(* Abstracted: progress numbers and timestamps (a deadline may have passed *)
(* at any check), observations other than the rollback verdict, the start  *)
(* rate limit and the storage size limit (a refusal changes nothing), and  *)
(* the audit outbox, of which only "the flush raised" is visible here: its *)
(* contents are module AuditOutbox.  The four other action types, and      *)
(* rollback_release of phishtopia_app, follow the path of                  *)
(* restart_phishtopia_service through the executor.  A rollback_release of *)
(* phishtopia_ops takes the handoff path of the upgrade; the release it    *)
(* names is here the initial one.                                          *)
(***************************************************************************)
EXTENDS Naturals, FiniteSets

CONSTANTS
  Keys,            \* idempotency keys; a key names the one job it can create
  InitialRelease,  \* the ops release selected before the first upgrade
  NoJob,           \* the executor thread holds no job
  MaxJobs,         \* JobStore.MAX_JOBS
  MaxCrashes,      \* bound: process deaths explored (kill -9, power, OOM)
  MaxStops,        \* bound: SIGTERMs explored
  MaxFlushFaults   \* bound: audit flushes that raise

ASSUME KeysAssumption == InitialRelease \notin Keys /\ NoJob \notin Keys
ASSUME BoundsAssumption ==
  /\ MaxJobs \in Nat
  /\ MaxCrashes \in Nat
  /\ MaxStops \in Nat
  /\ MaxFlushFaults \in Nat

VARIABLES
  \* the jobs table
  actionType, state, result, rollbackObs, cancelRequested,
  captured, baseline, stage, mutationStarted,
  \* production and what recovery needs of it
  effect,          \* how much of a job's change production carries
  release,         \* target of the ops worker symlink
  material,        \* jobs whose environment backup exists
  reexecFlag,      \* the worker-reexec-requested file
  \* the process
  proc, running,
  pc, job, cause, guarded,
  \* bounds
  crashes, stops, faults

table    == <<actionType, state, result, rollbackObs, cancelRequested,
              captured, baseline, stage, mutationStarted>>
prodVars == <<effect, release, material>>
execVars == <<pc, job, cause, guarded>>
procVars == <<proc, running>>
bounds   == <<crashes, stops, faults>>
vars     == <<table, prodVars, reexecFlag, procVars, execVars, bounds>>

-----------------------------------------------------------------------------
(* Values *)

Restart == "restart_phishtopia_service"
Rotate  == "rotate_session_secret"
Upgrade == "upgrade_ops_release"
Revert  == "rollback_release"   \* of phishtopia_ops, to the initial release
ActionTypes == {Restart, Rotate, Upgrade, Revert}

Active   == {"queued", "running", "cancelling"}
Terminal == {"succeeded", "failed", "cancelled"}
States   == Active \cup Terminal \cup {"absent"}

\* "pending" stands for accepted, in_progress and cancel_requested.
Results == {"pending", "completed", "cancelled_and_rolled_back",
            "failed_without_mutation", "failed_and_rolled_back",
            "preflight_rejected", "rollback_failed"}

\* The rollback (or safety) observation of a row.
CleanVerdicts == {"not_required", "verified", "failed_closed"}
Verdicts == CleanVerdicts \cup {"none", "operator_attention_required"}

Stages  == {"none", "mutation_started", "worker_handoff_pending"}
Effects == {"none", "partial", "full"}
Releases == Keys \cup {InitialRelease}
Snapshots == [effect: [Keys -> Effects], release: Releases]

\* Where the executor thread stands; "crashed" is an exception that left
\* run_jobs, so that the process is about to exit with an error.
WorkSteps == {"preflight", "capture", "perform", "mark", "backup", "mutate",
              "apply", "handoffCheck", "handoff", "requestReexec"}
CommitSteps  == {"resume", "complete", "commit"}
SucceedSteps == {"succeedFlush", "cleanup"}
FinishSteps  == {"finish", "restore", "discard", "verify", "settle"}
PCs == WorkSteps \cup CommitSteps \cup SucceedSteps \cup FinishSteps
         \cup {"idle", "picked", "dispatch", "finalFlush", "done", "crashed"}

Causes == {"none", "cancel", "deadline", "error", "interrupted"}
Procs  == {"up", "stopping", "booting", "down", "stopped"}

Alive == proc \in {"up", "stopping"}
\* The actions on the ops worker itself, and the release such an action
\* selects: an upgrade the one it installs, a rollback an earlier one.
SwitchesOps(k) == actionType[k] \in {Upgrade, Revert}
OpsTarget(k) == IF actionType[k] = Upgrade THEN k ELSE InitialRelease

ActiveJobs == {k \in Keys : state[k] \in Active}
KnownJobs  == {k \in Keys : state[k] # "absent"}

-----------------------------------------------------------------------------
Init ==
  /\ actionType = [k \in Keys |-> Restart]
  /\ state = [k \in Keys |-> "absent"]
  /\ result = [k \in Keys |-> "pending"]
  /\ rollbackObs = [k \in Keys |-> "none"]
  /\ cancelRequested = [k \in Keys |-> FALSE]
  /\ captured = [k \in Keys |-> FALSE]
  /\ baseline = [k \in Keys |-> [effect  |-> [j \in Keys |-> "none"],
                                 release |-> InitialRelease]]
  /\ stage = [k \in Keys |-> "none"]
  /\ mutationStarted = [k \in Keys |-> FALSE]
  /\ effect = [k \in Keys |-> "none"]
  /\ release = InitialRelease
  /\ material = {}
  /\ reexecFlag = FALSE
  /\ proc = "up"
  /\ running = InitialRelease
  /\ pc = "idle"
  /\ job = NoJob
  /\ cause = "none"
  /\ guarded = FALSE
  /\ crashes = 0
  /\ stops = 0
  /\ faults = 0

-----------------------------------------------------------------------------
(* Socket handler threads: JobStore.start and JobStore.cancel *)

\* Mutant of MayStart: without the index one_active_job_per_resource.
MayStartBeside(k) == state[k] = "absent" /\ Cardinality(KnownJobs) < MaxJobs

MayStart(k) ==
  /\ state[k] = "absent"
  /\ Cardinality(KnownJobs) < MaxJobs
  /\ ActiveJobs = {}                       \* one_active_job_per_resource

StartJob(k, a) ==
  /\ Alive
  /\ MayStart(k)
  /\ actionType' = [actionType EXCEPT ![k] = a]
  /\ state' = [state EXCEPT ![k] = "queued"]
  /\ UNCHANGED <<result, rollbackObs, cancelRequested, captured, baseline,
                 stage, mutationStarted, prodVars, reexecFlag, procVars,
                 execVars, bounds>>

\* A known key (same request or idempotency_conflict), a full table or a busy
\* resource: the caller gets the existing job or an error, nothing is written.
StartRefused(k) ==
  /\ Alive
  /\ ~MayStart(k)
  /\ UNCHANGED vars

\* Cancelling a queued job is final at once; a running job is only told.
CancelJob(k) ==
  /\ Alive
  /\ state[k] \in {"queued", "running"}
  /\ cancelRequested' = [cancelRequested EXCEPT ![k] = TRUE]
  /\ \/ /\ state[k] = "queued"
        /\ state' = [state EXCEPT ![k] = "cancelled"]
        /\ result' = [result EXCEPT ![k] = "cancelled_and_rolled_back"]
     \/ /\ state[k] = "running"
        /\ state' = [state EXCEPT ![k] = "cancelling"]
        /\ UNCHANGED result
  /\ UNCHANGED <<actionType, rollbackObs, captured, baseline, stage,
                 mutationStarted, prodVars, reexecFlag, procVars, execVars,
                 bounds>>

-----------------------------------------------------------------------------
(* The executor thread *)

Goto(p) == pc' = p /\ UNCHANGED <<job, cause, guarded>>

\* An exception inside the try block of execute, and the handler it reaches.
Raise(c) ==
  /\ pc' = "finish"
  /\ cause' = c
  /\ guarded' = FALSE
  /\ UNCHANGED job

FlushOk == UNCHANGED bounds
FlushFails ==
  /\ faults < MaxFlushFaults
  /\ faults' = faults + 1
  /\ UNCHANGED <<crashes, stops>>

\* run_jobs and next_job: the row is dequeued and its snapshot handed on; of
\* the snapshot only cancel_requested can be stale when it is used.
NextJob(k) ==
  /\ proc = "up"
  /\ pc = "idle"
  /\ state[k] = "queued"
  /\ state' = [state EXCEPT ![k] = "running"]
  /\ pc' = "picked"
  /\ job' = k
  /\ cause' = IF cancelRequested[k] THEN "cancel" ELSE "interrupted"
  /\ guarded' = FALSE
  /\ UNCHANGED <<actionType, result, rollbackObs, cancelRequested, captured,
                 baseline, stage, mutationStarted, prodVars, reexecFlag,
                 procVars, bounds>>

PickedFlush ==
  /\ Alive
  /\ pc = "picked"
  /\ \/ FlushOk /\ Goto("dispatch")
     \/ FlushFails /\ Goto("crashed")
  /\ UNCHANGED <<table, prodVars, reexecFlag, procVars>>

\* Mutant of FreshRow: only a pending handoff keeps a row from a second run.
FreshUnlessHandoff(k) == stage[k] # "worker_handoff_pending"

FreshRow(k) == ~captured[k]

HandoffPending(k) ==
  /\ captured[k]
  /\ SwitchesOps(k)
  /\ stage[k] = "worker_handoff_pending"
  /\ mutationStarted[k]

\* execute: a row with a baseline is never performed again.  It resumes the
\* handoff or goes to _finish_with_rollback inside the try block.
Dispatch ==
  /\ Alive
  /\ pc = "dispatch"
  /\ \/ FreshRow(job) /\ Goto("preflight")
     \/ ~FreshRow(job) /\ HandoffPending(job) /\ Goto("resume")
     \/ /\ ~FreshRow(job)
        /\ ~HandoffPending(job)
        /\ pc' = "finish"
        /\ guarded' = TRUE
        /\ UNCHANGED <<job, cause>>
  /\ UNCHANGED <<table, prodVars, reexecFlag, procVars, bounds>>

\* JobContext.check read before the next write: cancel_requested is unset.
CheckPasses == ~cancelRequested[job]

CheckedSteps == {"preflight", "capture", "perform", "mutate", "apply", "handoffCheck",
                 "resume", "complete"}
FallibleSteps == CheckedSteps \cup {"backup", "requestReexec"}

\* The step raises Cancelled, DeadlineExceeded or any other exception.
StepFails ==
  /\ Alive
  /\ pc \in FallibleSteps
  /\ \/ pc \in CheckedSteps /\ cancelRequested[job] /\ Raise("cancel")
     \/ pc \in CheckedSteps /\ Raise("deadline")
     \/ Raise("error")
  /\ UNCHANGED <<table, prodVars, reexecFlag, procVars, bounds>>

Preflight ==
  /\ Alive
  /\ pc = "preflight"
  /\ CheckPasses
  /\ Goto("capture")
  /\ UNCHANGED <<table, prodVars, reexecFlag, procVars, bounds>>

\* capture.  A rollback_release to the release selected already is left out: it
\* changes nothing and cannot be told from its own undo.
CaptureBaseline ==
  /\ Alive
  /\ pc = "capture"
  /\ actionType[job] = Revert => release # OpsTarget(job)
  /\ captured' = [captured EXCEPT ![job] = TRUE]
  /\ baseline' = [baseline EXCEPT ![job] = [effect |-> effect,
                                            release |-> release]]
  /\ Goto("perform")
  /\ UNCHANGED <<actionType, state, result, rollbackObs, cancelRequested,
                 stage, mutationStarted, prodVars, reexecFlag, procVars,
                 bounds>>

\* Everything of perform up to the check inside mark_mutation_started.
Prepare ==
  /\ Alive
  /\ pc = "perform"
  /\ CheckPasses
  /\ Goto("mark")
  /\ UNCHANGED <<table, prodVars, reexecFlag, procVars, bounds>>

\* Mutant of MutationMark: the checkpoint is written without its flag.
MarkWithoutFlag == mutationStarted

MutationMark == [mutationStarted EXCEPT ![job] = TRUE]

\* The write of mark_mutation_started; a cancel may have come since its check.
MarkMutationStarted ==
  /\ Alive
  /\ pc = "mark"
  /\ mutationStarted' = MutationMark
  /\ stage' = [stage EXCEPT ![job] = "mutation_started"]
  /\ Goto(IF actionType[job] = Rotate THEN "backup" ELSE "mutate")
  /\ UNCHANGED <<actionType, state, result, rollbackObs, cancelRequested,
                 captured, baseline, prodVars, reexecFlag, procVars, bounds>>

\* _rotate_secret: the private copy of the environment, before any change.
WriteBackup ==
  /\ Alive
  /\ pc = "backup"
  /\ material' = material \cup {job}
  /\ Goto("mutate")
  /\ UNCHANGED <<table, effect, release, reexecFlag, procVars, bounds>>

\* The first change to production: release installed, secret version added.
Mutate ==
  /\ Alive
  /\ pc = "mutate"
  /\ effect' = [effect EXCEPT ![job] = "partial"]
  /\ Goto("apply")
  /\ UNCHANGED <<table, release, material, reexecFlag, procVars, bounds>>

\* Mutant of AfterApply: a switched worker reports success like a restart does.
AfterApplyNoHandoff == "complete"

AfterApply == IF SwitchesOps(job) THEN "handoffCheck" ELSE "complete"

\* The last one: symlink switched, environment written, service reloaded.
Apply ==
  /\ Alive
  /\ pc = "apply"
  /\ effect' = [effect EXCEPT ![job] = "full"]
  /\ release' = IF SwitchesOps(job) THEN OpsTarget(job) ELSE release
  /\ Goto(AfterApply)
  /\ UNCHANGED <<table, material, reexecFlag, procVars, bounds>>

\* _upgrade_ops, _rollback_release: verification of the switched release and the check inside
\* progress, then its write, then the flag for the daemon.
VerifyHandoff ==
  /\ Alive
  /\ pc = "handoffCheck"
  /\ CheckPasses
  /\ Goto("handoff")
  /\ UNCHANGED <<table, prodVars, reexecFlag, procVars, bounds>>

RecordHandoff ==
  /\ Alive
  /\ pc = "handoff"
  /\ stage' = [stage EXCEPT ![job] = "worker_handoff_pending"]
  /\ Goto("requestReexec")
  /\ UNCHANGED <<actionType, state, result, rollbackObs, cancelRequested,
                 captured, baseline, mutationStarted, prodVars, reexecFlag,
                 procVars, bounds>>

RequestReexec ==
  /\ Alive
  /\ pc = "requestReexec"
  /\ reexecFlag' = TRUE
  /\ Goto("done")
  /\ UNCHANGED <<table, prodVars, procVars, bounds>>

\* Mutant of HandoffTarget: complete_ops_handoff without its target check.
AnyHandoffTarget == TRUE

HandoffTarget == release = OpsTarget(job)

\* complete_ops_handoff: the symlink must still select the release of this job.
ResumeHandoff ==
  /\ Alive
  /\ pc = "resume"
  /\ CheckPasses
  /\ HandoffTarget
  /\ Goto("complete")
  /\ UNCHANGED <<table, prodVars, reexecFlag, procVars, bounds>>

\* The last context.check() before JobStore.succeed.
FinalCheck ==
  /\ Alive
  /\ pc = "complete"
  /\ CheckPasses
  /\ Goto("commit")
  /\ UNCHANGED <<table, prodVars, reexecFlag, procVars, bounds>>

\* Mutant of CommitWins: the UPDATE of succeed without its state predicate.
CommitAlways(k) == state[k] \in Active

CommitWins(k) == state[k] = "running" /\ ~cancelRequested[k]

Succeed ==
  /\ Alive
  /\ pc = "commit"
  /\ \/ /\ CommitWins(job)
        /\ state' = [state EXCEPT ![job] = "succeeded"]
        /\ result' = [result EXCEPT ![job] = "completed"]
        /\ rollbackObs' = [rollbackObs EXCEPT ![job] = "none"]
        /\ Goto("succeedFlush")
     \/ /\ ~CommitWins(job)
        /\ Raise("cancel")
        /\ UNCHANGED <<state, result, rollbackObs>>
  /\ UNCHANGED <<actionType, cancelRequested, captured, baseline, stage,
                 mutationStarted, prodVars, reexecFlag, procVars, bounds>>

\* The flush at the end of succeed runs inside the same try block: when it
\* raises, the handler rolls back a job that is already committed.
SucceedFlush ==
  /\ Alive
  /\ pc = "succeedFlush"
  /\ \/ FlushOk /\ Goto("cleanup")
     \/ FlushFails /\ Raise("error")
  /\ UNCHANGED <<table, prodVars, reexecFlag, procVars>>

\* platform.cleanup; an exception is swallowed and the material stays.
Cleanup ==
  /\ Alive
  /\ pc = "cleanup"
  /\ \/ material' = material \ {job}
     \/ UNCHANGED material
  /\ Goto("done")
  /\ UNCHANGED <<table, effect, release, reexecFlag, procVars, bounds>>

-----------------------------------------------------------------------------
(* _finish_with_rollback and the preflight_rejected branch *)

\* One terminal transition: state, result and rollback observation together.
Settle(s, r, o) ==
  /\ state' = [state EXCEPT ![job] = s]
  /\ result' = [result EXCEPT ![job] = r]
  /\ rollbackObs' = [rollbackObs EXCEPT ![job] = o]
  /\ Goto("finalFlush")
  /\ UNCHANGED <<actionType, cancelRequested, captured, baseline, stage,
                 mutationStarted>>

\* Mutant of NeedsRollback: judged by the last stage instead of the flag.
NeedsRollbackByStage(k) == captured[k] /\ stage[k] = "mutation_started"

NeedsRollback(k) == captured[k] /\ mutationStarted[k]

FinishWithoutMutation ==
  /\ Alive
  /\ pc = "finish"
  /\ ~NeedsRollback(job)
  /\ \/ /\ cause = "cancel"
        /\ Settle("cancelled", "cancelled_and_rolled_back", "not_required")
     \/ /\ cause = "error" /\ ~captured[job]
        /\ Settle("failed", "preflight_rejected", "failed_closed")
     \/ /\ cause # "cancel" /\ ~(cause = "error" /\ ~captured[job])
        /\ Settle("failed", "failed_without_mutation", "not_required")
  /\ UNCHANGED <<prodVars, reexecFlag, procVars, bounds>>

\* platform.rollback, first half: the ops symlink goes back before the rest.
RollbackRelease ==
  /\ Alive
  /\ pc = "finish"
  /\ NeedsRollback(job)
  /\ release' = IF SwitchesOps(job) THEN baseline[job].release ELSE release
  /\ effect' = [effect EXCEPT ![job] = IF @ = "none" THEN "none" ELSE "partial"]
  /\ Goto("restore")
  /\ UNCHANGED <<table, material, reexecFlag, procVars, bounds>>

\* The rest of production.  A rotation whose backup is gone skips the
\* environment silently (platform.py: backup.is_file()).
RollbackRestore ==
  /\ Alive
  /\ pc = "restore"
  /\ effect' = IF actionType[job] = Rotate /\ job \notin material
                 THEN effect ELSE baseline[job].effect
  /\ Goto("discard")
  /\ UNCHANGED <<table, release, material, reexecFlag, procVars, bounds>>

\* The backup is removed before the invariants of production are verified.
RollbackDiscard ==
  /\ Alive
  /\ pc = "discard"
  /\ material' = IF actionType[job] = Rotate THEN material \ {job} ELSE material
  /\ Goto("verify")
  /\ UNCHANGED <<table, effect, release, reexecFlag, procVars, bounds>>

\* Mutant of FlagAfterRollback: an ops rollback keeps the process image.
FlagUntouched == reexecFlag

FlagAfterRollback == reexecFlag \/ SwitchesOps(job)

\* _verify_production_invariants; an ops rollback then asks for a reexec.
RollbackVerify ==
  /\ Alive
  /\ pc = "verify"
  /\ reexecFlag' = FlagAfterRollback
  /\ Goto("settle")
  /\ UNCHANGED <<table, prodVars, procVars, bounds>>

FinishRolledBack ==
  /\ Alive
  /\ pc = "settle"
  /\ IF cause = "cancel"
       THEN Settle("cancelled", "cancelled_and_rolled_back", "verified")
       ELSE Settle("failed", "failed_and_rolled_back", "verified")
  /\ UNCHANGED <<prodVars, reexecFlag, procVars, bounds>>

\* rollback raised at any point before its end.
RollbackFails ==
  /\ Alive
  /\ \/ pc = "finish" /\ NeedsRollback(job)
     \/ pc \in {"restore", "discard", "verify"}
  /\ Settle("failed", "rollback_failed", "operator_attention_required")
  /\ UNCHANGED <<prodVars, reexecFlag, procVars, bounds>>

\* The flush of a terminal transition.  Inside the try block (recovery of an
\* interrupted job) its exception leads to a second _finish_with_rollback,
\* elsewhere it leaves run_jobs.
FinalFlush ==
  /\ Alive
  /\ pc = "finalFlush"
  /\ \/ FlushOk /\ Goto("done")
     \/ guarded /\ FlushFails /\ Raise("error")
     \/ ~guarded /\ FlushFails /\ Goto("crashed")
  /\ UNCHANGED <<table, prodVars, reexecFlag, procVars>>

-----------------------------------------------------------------------------
(* The daemon and systemd *)

\* Mutant of ThreadIdle: the finished job is still bound to the thread.
ThreadKeepsJob ==
  /\ pc' = "idle"
  /\ cause' = "none"
  /\ UNCHANGED <<job, guarded>>

ThreadIdle ==
  /\ pc' = "idle"
  /\ job' = NoJob
  /\ cause' = "none"
  /\ guarded' = FALSE

\* run_jobs after execute: a requested reexec ends this process image, a stop
\* event ends the process, otherwise the loop continues.
EndOfJob ==
  /\ Alive
  /\ pc = "done"
  /\ ThreadIdle
  /\ reexecFlag' = FALSE
  /\ proc' = CASE reexecFlag -> "down"
               [] ~reexecFlag /\ proc = "stopping" -> "stopped"
               [] OTHER -> proc
  /\ UNCHANGED <<table, prodVars, running, bounds>>

\* SIGTERM: the loop ends when the job at hand has ended.
StopRequested ==
  /\ proc = "up"
  /\ stops < MaxStops
  /\ stops' = stops + 1
  /\ proc' = "stopping"
  /\ UNCHANGED <<table, prodVars, reexecFlag, running, execVars, crashes,
                 faults>>

StopIdle ==
  /\ proc = "stopping"
  /\ pc = "idle"
  /\ proc' = "stopped"
  /\ UNCHANGED <<table, prodVars, reexecFlag, running, execVars, bounds>>

\* An exception left run_jobs: the main thread exits with an error.
WorkerFailed ==
  /\ Alive
  /\ pc = "crashed"
  /\ ThreadIdle
  /\ proc' = "down"
  /\ UNCHANGED <<table, prodVars, reexecFlag, running, bounds>>

Crash ==
  /\ proc \in {"up", "stopping", "booting"}
  /\ crashes < MaxCrashes
  /\ crashes' = crashes + 1
  /\ ThreadIdle
  /\ proc' = "down"
  /\ UNCHANGED <<table, prodVars, reexecFlag, running, stops, faults>>

\* Mutants of Interrupted: a failed row is run again; a cancelling row is not.
InterruptedOrFailed(k) == state[k] \in {"running", "cancelling", "failed"}
InterruptedRunning(k) == state[k] = "running"

Interrupted(k) == state[k] \in {"running", "cancelling"}

\* main and JobStore._initialize: the selected release is loaded, the flag
\* consumed, and every interrupted job queued again with its columns intact.
Boot ==
  /\ proc \in {"down", "stopped"}
  /\ proc' = "booting"
  /\ running' = release
  /\ reexecFlag' = FALSE
  /\ state' = [k \in Keys |-> IF Interrupted(k) THEN "queued" ELSE state[k]]
  /\ UNCHANGED <<actionType, result, rollbackObs, cancelRequested, captured,
                 baseline, stage, mutationStarted, prodVars, execVars, bounds>>

\* Mutant of CompletedMaterial: the state is not part of the query.
AllMaterial == {k \in material : actionType[k] = Rotate /\ captured[k]}

\* completed_recovery_material
CompletedMaterial ==
  {k \in material : state[k] = "succeeded" /\ actionType[k] = Rotate /\ captured[k]}

BootReady ==
  /\ proc = "booting"
  /\ proc' = "up"
  /\ material' = material \ CompletedMaterial
  /\ UNCHANGED <<table, effect, release, reexecFlag, running, execVars, bounds>>

\* The flush or the cleanup raised: the process exits and systemd retries.
BootFails ==
  /\ proc = "booting"
  /\ FlushFails
  /\ proc' = "down"
  /\ \E removed \in SUBSET CompletedMaterial : material' = material \ removed
  /\ UNCHANGED <<table, effect, release, reexecFlag, running, execVars>>

-----------------------------------------------------------------------------
Handlers ==
  \E k \in Keys :
    \/ \E a \in ActionTypes : StartJob(k, a)
    \/ StartRefused(k)
    \/ CancelJob(k)

Perform ==
  \/ Preflight \/ CaptureBaseline \/ Prepare \/ MarkMutationStarted
  \/ WriteBackup \/ Mutate \/ Apply
  \/ VerifyHandoff \/ RecordHandoff \/ RequestReexec

Complete == ResumeHandoff \/ FinalCheck \/ Succeed \/ SucceedFlush \/ Cleanup

Finish ==
  \/ FinishWithoutMutation \/ RollbackRelease \/ RollbackRestore
  \/ RollbackDiscard \/ RollbackVerify \/ FinishRolledBack \/ RollbackFails \/ FinalFlush

Executor ==
  \/ \E k \in Keys : NextJob(k)
  \/ PickedFlush \/ Dispatch \/ StepFails
  \/ Perform \/ Complete \/ Finish
  \/ EndOfJob \/ WorkerFailed

Startup == Boot \/ BootReady \/ BootFails

Next == Handlers \/ Executor \/ Startup \/ StopRequested \/ StopIdle \/ Crash

Spec == Init /\ [][Next]_vars

\* The executor thread runs while there is work and systemd restarts a failed
\* process (Restart=on-failure); nothing forces a stop, a crash or a request.
Restarted == proc = "down" /\ Boot
FairSpec == Spec /\ WF_vars(Executor) /\ WF_vars(Restarted)
                 /\ WF_vars(BootReady \/ BootFails)


-----------------------------------------------------------------------------
(* Properties *)

TableTypeOK ==
  /\ actionType \in [Keys -> ActionTypes]
  /\ state \in [Keys -> States]
  /\ result \in [Keys -> Results]
  /\ rollbackObs \in [Keys -> Verdicts]
  /\ cancelRequested \in [Keys -> BOOLEAN]
  /\ captured \in [Keys -> BOOLEAN]
  /\ baseline \in [Keys -> Snapshots]
  /\ stage \in [Keys -> Stages]
  /\ mutationStarted \in [Keys -> BOOLEAN]

WorldTypeOK ==
  /\ effect \in [Keys -> Effects]
  /\ release \in Releases
  /\ material \in SUBSET Keys
  /\ reexecFlag \in BOOLEAN
  /\ proc \in Procs
  /\ running \in Releases

ThreadTypeOK ==
  /\ pc \in PCs
  /\ job \in Keys \cup {NoJob}
  /\ (job = NoJob) <=> (pc = "idle")
  /\ cause \in Causes
  /\ guarded \in BOOLEAN

BoundsTypeOK ==
  /\ crashes \in 0 .. MaxCrashes
  /\ stops \in 0 .. MaxStops
  /\ faults \in 0 .. MaxFlushFaults

\* Every column, file and process variable keeps its type, and the executor
\* holds a job exactly while it is between next_job and the end of execute.
TypeOK == TableTypeOK /\ WorldTypeOK /\ ThreadTypeOK /\ BoundsTypeOK

\* Write-ahead: production carries a trace of a job only after its baseline
\* and the mutation mark are in the table, so that whatever process finds the
\* row again knows there is something to undo (capture, mark_mutation_started
\* and perform, at every point where the process may die).
WriteAhead == \A k \in Keys :
  effect[k] # "none" => captured[k] /\ mutationStarted[k]

\* JobStore.succeed and JobStore.cancel race on one row from two threads: a
\* job is never both cancelled by request and successful.
CancelExcludesSuccess == \A k \in Keys :
  state[k] = "succeeded" => ~cancelRequested[k]

\* A row that says a rollback was verified or not required tells the truth:
\* nothing of the job is left in production, whatever crashed or was retried
\* on the way there.
VerdictTruthful == \A k \in Keys :
  rollbackObs[k] \in CleanVerdicts => effect[k] = "none"

\* A job reported successful is wholly in effect, and the undo of another job
\* does not take it away, as long as no audit flush has failed.  (A later job
\* that succeeds may supersede it: the next upgrade, or a rollback_release.)
SuccessIsApplied == faults = 0 =>
  \A k \in Keys : state[k] = "succeeded" => effect[k] = "full"

\* While a secret rotation can still be rolled back and production carries
\* some of it, the environment backup its rollback needs exists.
RecoveryMaterialKept == \A k \in Keys :
  state[k] \in Active /\ actionType[k] = Rotate /\ effect[k] # "none"
    => k \in material

\* A worker that waits for jobs runs the code the ops symlink selects, unless
\* a rollback was reported as failed (symlink switches, reexec flag, boot).
RunsSelectedRelease ==
  proc = "up" /\ pc = "idle" /\ running # release
    => \E k \in Keys : result[k] = "rollback_failed"

\* An upgrade or a rollback_release of the ops worker is committed only by a
\* process that runs the release it selected:
\* the handoff cannot be completed by the process that started it.
HandoffByNewWorker ==
  [][\A k \in Keys :
       SwitchesOps(k) /\ state[k] # "succeeded" /\ state'[k] = "succeeded"
         => running = OpsTarget(k)]_vars

\* A terminal row is never changed again, as long as no audit flush has failed
\* (second finish, recovery at boot, late cancel).
TerminalIsFinal ==
  [][faults' = 0 => \A k \in Keys :
       state[k] \in Terminal => state'[k] = state[k] /\ result'[k] = result[k]]_vars

\* Two independently correct rollbacks never overwrite each other
\* (allowlist.py, resource_for): a step changes production only for the job
\* the executor holds.
OthersUntouched ==
  [][\A k \in Keys : effect'[k] # effect[k] => k = job]_vars

\* Every accepted job reaches a terminal state, through crashes, failed
\* flushes and handoffs, provided the process is restarted: again and again no
\* job is open, unless the worker was told to stop.
JobsTerminate ==
  []<>(proc \in {"stopping", "stopped"} \/ \A k \in Keys : state[k] \notin Active)

\* docs/architecture.md, state machine: "cancelled (no mutation occurred)" for
\* a queued job and "cancelled (verified rollback)" for a running one.
CancelledIsUntouched == \A k \in Keys :
  state[k] = "cancelled" => effect[k] = "none"

\* executor.py: "The job is already durably successful."
SuccessIsDurable ==
  [][\A k \in Keys : state[k] = "succeeded" => state'[k] = "succeeded"]_vars

=============================================================================
