--------------------------- MODULE OpsWorkerProofs ---------------------------
(***************************************************************************)
(* Theorems about OpsWorker, and its refinement of OpsJobSpec, for every   *)
(* set of keys and every bound.                                            *)
(*                                                                         *)
(* The safety invariants are not inductive by themselves.  IInv adds what  *)
(* the program relies on silently: what is in the table at each point of   *)
(* the executor, who may hold a job, and that a captured baseline stays    *)
(* right about every other job until it is used.                           *)
(***************************************************************************)
EXTENDS OpsWorkerRefinement, TLAPS

BeforeCapture == {"preflight", "capture"}
AfterCapture  == {"perform", "mark"}
HandoffPath   == {"handoffCheck", "handoff", "requestReexec", "resume"}
AfterMark     == {"backup", "mutate", "apply", "complete", "commit",
                  "succeedFlush", "cleanup", "restore", "discard", "verify",
                  "settle"} \cup HandoffPath
AfterBackup   == {"mutate", "apply", "complete", "commit", "succeedFlush"}
Restored      == {"discard", "verify", "settle"}
Applied       == {"handoffCheck", "handoff", "requestReexec", "complete",
                  "commit", "succeedFlush"}
\* The job's release is not selected: not yet, or not any more.
Unselected    == {"perform", "mark", "backup", "mutate", "apply", "restore",
                  "discard", "verify", "settle"}
LeavingHandoff == {"requestReexec", "done", "finish", "restore", "discard",
                   "verify", "settle"}
InProgress    == {"running", "cancelling"}
Uncommitted   == {"picked", "dispatch", "resume", "complete", "commit"}
                   \cup WorkSteps

\* What holds of the job at hand at each point of execute.
ProgramPoints ==
  /\ pc \in BeforeCapture => ~captured[job]
  /\ pc \in AfterCapture => captured[job]
  /\ pc \in AfterMark => captured[job] /\ mutationStarted[job]
  /\ pc \in HandoffPath => SwitchesOps(job)
  /\ pc \in AfterBackup /\ actionType[job] = Rotate => job \in material
  /\ pc \in Restored => effect[job] = "none"

\* Columns that go together in every row.
Rows == \A k \in Keys :
  /\ state[k] = "absent"
       => ~captured[k] /\ ~mutationStarted[k] /\ ~cancelRequested[k]
  /\ mutationStarted[k] => captured[k]
  /\ state[k] \in Active \cup {"absent", "succeeded"} => rollbackObs[k] = "none"

\* One active job; the thread holds it, unless a flush fault made the thread
\* finish a job that was already terminal.
Lifecycle ==
  /\ ~Alive => pc = "idle"
  /\ pc \in Uncommitted => state[job] \in InProgress
  /\ pc \in {"succeedFlush", "cleanup"} => state[job] = "succeeded"
  /\ pc = "finalFlush" => state[job] \in {"failed", "cancelled"}
  /\ pc \in FinishSteps /\ faults = 0 => state[job] \in InProgress
  /\ pc = "done" => state[job] \in Terminal \/ reexecFlag
  /\ \A j, k \in ActiveJobs : j = k
  /\ pc # "idle" => \A k \in ActiveJobs : captured[k] => k = job

\* A job that can still be finished: it is active or at hand.
Unfinished(k) == state[k] \in Active \/ k = job

\* A baseline never contains its own job, only jobs that are themselves
\* recoverable, and is right about every other job while it can be used.
Baselines ==
  /\ \A j, k \in Keys :
       baseline[j].effect[k] # "none" => captured[k] /\ mutationStarted[k]
  /\ \A j \in Keys : captured[j] => baseline[j].effect[j] = "none"
  /\ \A j, k \in Keys : Unfinished(j) /\ captured[j] /\ k # j
       => baseline[j].effect[k] = effect[k]

\* The backup of a rotation exists while its rollback may need it.
Material == \A k \in Keys :
  /\ actionType[k] = Rotate
  /\ effect[k] # "none"
  /\ state[k] \in Active \/ (k = job /\ pc \in {"finish", "restore", "finalFlush"})
  => k \in material

\* The symlink and the baselines' symlinks.  An installed release is selected
\* only by a row that recorded its mutation, and an unfinished job's target only
\* while the job is wholly in effect; no baseline goes back to the target.
Selected ==
  /\ \A k \in Keys : release = k => mutationStarted[k] /\ actionType[k] = Upgrade
  /\ \A j, k \in Keys : captured[j] /\ baseline[j].release = k
       => mutationStarted[k] /\ actionType[k] = Upgrade /\ k # j
  /\ \A k \in Keys : captured[k] /\ SwitchesOps(k)
       => baseline[k].release # OpsTarget(k)
  /\ \A k \in Keys :
       Unfinished(k) /\ captured[k] /\ SwitchesOps(k) /\ release = OpsTarget(k)
       => effect[k] = "full"
  /\ pc \in Applied => effect[job] = "full"
  /\ pc \in Unselected /\ SwitchesOps(job) => release # OpsTarget(job)

\* A handoff on record is read only by a process that was started after the
\* symlink was switched: until then its job is at hand in the one that left it.
Handoff ==
  /\ \A k \in ActiveJobs :
       /\ Alive \/ proc = "booting"
       /\ mutationStarted[k] /\ stage[k] = "worker_handoff_pending"
       => running = release \/ (k = job /\ pc \in LeavingHandoff)
  /\ pc \in {"backup", "mutate", "apply", "handoffCheck", "handoff"}
       => stage[job] = "mutation_started"
  /\ pc = "resume" => running = release
  /\ pc \in {"complete", "commit"} /\ SwitchesOps(job) => running = OpsTarget(job)

IInv ==
  /\ TypeOK
  /\ WriteAhead /\ CancelExcludesSuccess /\ VerdictTruthful /\ SuccessIsApplied
  /\ ProgramPoints /\ Rows /\ Lifecycle
  /\ Baselines /\ Material /\ Selected /\ Handoff

-----------------------------------------------------------------------------
(* Who writes what.  A step of Next either is one of the named actions or   *)
(* leaves the variable alone.                                              *)

\* The disjuncts of Next, spelled out once.
LEMMA NextActions ==
  ASSUME [Next]_vars
  PROVE  \/ \E k \in Keys : \E a \in ActionTypes : StartJob(k, a)
         \/ \E k \in Keys : CancelJob(k) \/ NextJob(k)
         \/ PickedFlush \/ Dispatch \/ StepFails \/ Preflight
         \/ CaptureBaseline \/ Prepare \/ MarkMutationStarted \/ WriteBackup
         \/ Mutate \/ Apply \/ VerifyHandoff \/ RecordHandoff
         \/ RequestReexec \/ ResumeHandoff \/ FinalCheck \/ Succeed
         \/ SucceedFlush \/ Cleanup \/ FinishWithoutMutation
         \/ RollbackRelease \/ RollbackRestore \/ RollbackDiscard
         \/ RollbackVerify \/ FinishRolledBack \/ RollbackFails
         \/ FinalFlush \/ EndOfJob \/ WorkerFailed \/ Boot \/ BootReady
         \/ BootFails \/ StopRequested \/ StopIdle \/ Crash
         \/ UNCHANGED vars
  BY DEF Next, Handlers, Executor, Startup, Perform, Complete, Finish,
         StartRefused

\* perform and rollback change production.
LEMMA EffectWriters ==
  ASSUME [Next]_vars
  PROVE  Mutate \/ Apply \/ RollbackRelease \/ RollbackRestore \/ UNCHANGED effect
  BY NextActions DEF StartJob, CancelJob, NextJob, PickedFlush, Dispatch,
         StepFails, Preflight, CaptureBaseline, Prepare, MarkMutationStarted,
         WriteBackup, Mutate, Apply, VerifyHandoff, RecordHandoff,
         RequestReexec, ResumeHandoff, FinalCheck, Succeed, SucceedFlush,
         Cleanup, FinishWithoutMutation, RollbackRelease, RollbackRestore,
         RollbackDiscard, RollbackVerify, FinishRolledBack, RollbackFails,
         FinalFlush, EndOfJob, WorkerFailed, Boot, BootReady, BootFails,
         StopRequested, StopIdle, Crash, Settle, vars, table, prodVars,
         procVars, execVars, bounds

\* So do they the symlink.
LEMMA ReleaseWriters ==
  ASSUME [Next]_vars
  PROVE  Apply \/ RollbackRelease \/ UNCHANGED release
  BY NextActions DEF StartJob, CancelJob, NextJob, PickedFlush, Dispatch,
         StepFails, Preflight, CaptureBaseline, Prepare, MarkMutationStarted,
         WriteBackup, Mutate, Apply, VerifyHandoff, RecordHandoff,
         RequestReexec, ResumeHandoff, FinalCheck, Succeed, SucceedFlush,
         Cleanup, FinishWithoutMutation, RollbackRelease, RollbackRestore,
         RollbackDiscard, RollbackVerify, FinishRolledBack, RollbackFails,
         FinalFlush, EndOfJob, WorkerFailed, Boot, BootReady, BootFails,
         StopRequested, StopIdle, Crash, Settle, vars, table, prodVars,
         procVars, execVars, bounds

\* The baseline is written once.
LEMMA BaselineWriters ==
  ASSUME [Next]_vars
  PROVE  CaptureBaseline \/ UNCHANGED <<captured, baseline>>
  BY NextActions DEF StartJob, CancelJob, NextJob, PickedFlush, Dispatch,
         StepFails, Preflight, CaptureBaseline, Prepare, MarkMutationStarted,
         WriteBackup, Mutate, Apply, VerifyHandoff, RecordHandoff,
         RequestReexec, ResumeHandoff, FinalCheck, Succeed, SucceedFlush,
         Cleanup, FinishWithoutMutation, RollbackRelease, RollbackRestore,
         RollbackDiscard, RollbackVerify, FinishRolledBack, RollbackFails,
         FinalFlush, EndOfJob, WorkerFailed, Boot, BootReady, BootFails,
         StopRequested, StopIdle, Crash, Settle, vars, table, prodVars,
         procVars, execVars, bounds

\* And so is the mutation mark.
LEMMA MarkWriters ==
  ASSUME [Next]_vars
  PROVE  MarkMutationStarted \/ UNCHANGED mutationStarted
  BY NextActions DEF StartJob, CancelJob, NextJob, PickedFlush, Dispatch,
         StepFails, Preflight, CaptureBaseline, Prepare, MarkMutationStarted,
         WriteBackup, Mutate, Apply, VerifyHandoff, RecordHandoff,
         RequestReexec, ResumeHandoff, FinalCheck, Succeed, SucceedFlush,
         Cleanup, FinishWithoutMutation, RollbackRelease, RollbackRestore,
         RollbackDiscard, RollbackVerify, FinishRolledBack, RollbackFails,
         FinalFlush, EndOfJob, WorkerFailed, Boot, BootReady, BootFails,
         StopRequested, StopIdle, Crash, Settle, vars, table, prodVars,
         procVars, execVars, bounds

\* The checkpoint's stage, as far as it is kept here.
LEMMA StageWriters ==
  ASSUME [Next]_vars
  PROVE  MarkMutationStarted \/ RecordHandoff \/ UNCHANGED stage
  BY NextActions DEF StartJob, CancelJob, NextJob, PickedFlush, Dispatch,
         StepFails, Preflight, CaptureBaseline, Prepare, MarkMutationStarted,
         WriteBackup, Mutate, Apply, VerifyHandoff, RecordHandoff,
         RequestReexec, ResumeHandoff, FinalCheck, Succeed, SucceedFlush,
         Cleanup, FinishWithoutMutation, RollbackRelease, RollbackRestore,
         RollbackDiscard, RollbackVerify, FinishRolledBack, RollbackFails,
         FinalFlush, EndOfJob, WorkerFailed, Boot, BootReady, BootFails,
         StopRequested, StopIdle, Crash, Settle, vars, table, prodVars,
         procVars, execVars, bounds

\* Requests, next_job, the commit, terminal transitions and recovery write the
\* state of a row.
LEMMA StateWriters ==
  ASSUME [Next]_vars
  PROVE  \/ \E k \in Keys : \E a \in ActionTypes : StartJob(k, a)
         \/ \E k \in Keys : CancelJob(k) \/ NextJob(k)
         \/ Succeed \/ FinishWithoutMutation \/ FinishRolledBack
         \/ RollbackFails \/ Boot
         \/ UNCHANGED <<state, result, rollbackObs, cancelRequested>>
  BY NextActions DEF StartJob, CancelJob, NextJob, PickedFlush, Dispatch,
         StepFails, Preflight, CaptureBaseline, Prepare, MarkMutationStarted,
         WriteBackup, Mutate, Apply, VerifyHandoff, RecordHandoff,
         RequestReexec, ResumeHandoff, FinalCheck, Succeed, SucceedFlush,
         Cleanup, FinishWithoutMutation, RollbackRelease, RollbackRestore,
         RollbackDiscard, RollbackVerify, FinishRolledBack, RollbackFails,
         FinalFlush, EndOfJob, WorkerFailed, Boot, BootReady, BootFails,
         StopRequested, StopIdle, Crash, Settle, vars, table, prodVars,
         procVars, execVars, bounds

\* The environment backup is written before and removed after its use.
LEMMA MaterialWriters ==
  ASSUME [Next]_vars
  PROVE  \/ WriteBackup \/ Cleanup \/ RollbackDiscard \/ BootReady \/ BootFails
         \/ UNCHANGED material
  BY NextActions DEF StartJob, CancelJob, NextJob, PickedFlush, Dispatch,
         StepFails, Preflight, CaptureBaseline, Prepare, MarkMutationStarted,
         WriteBackup, Mutate, Apply, VerifyHandoff, RecordHandoff,
         RequestReexec, ResumeHandoff, FinalCheck, Succeed, SucceedFlush,
         Cleanup, FinishWithoutMutation, RollbackRelease, RollbackRestore,
         RollbackDiscard, RollbackVerify, FinishRolledBack, RollbackFails,
         FinalFlush, EndOfJob, WorkerFailed, Boot, BootReady, BootFails,
         StopRequested, StopIdle, Crash, Settle, vars, table, prodVars,
         procVars, execVars, bounds

\* A row keeps its action.
LEMMA ActionWriters ==
  ASSUME [Next]_vars
  PROVE  \/ \E k \in Keys : \E a \in ActionTypes : StartJob(k, a)
         \/ UNCHANGED actionType
  BY NextActions DEF StartJob, CancelJob, NextJob, PickedFlush, Dispatch,
         StepFails, Preflight, CaptureBaseline, Prepare, MarkMutationStarted,
         WriteBackup, Mutate, Apply, VerifyHandoff, RecordHandoff,
         RequestReexec, ResumeHandoff, FinalCheck, Succeed, SucceedFlush,
         Cleanup, FinishWithoutMutation, RollbackRelease, RollbackRestore,
         RollbackDiscard, RollbackVerify, FinishRolledBack, RollbackFails,
         FinalFlush, EndOfJob, WorkerFailed, Boot, BootReady, BootFails,
         StopRequested, StopIdle, Crash, Settle, vars, table, prodVars,
         procVars, execVars, bounds

\* Requests leave the executor thread alone; only next_job gives it a job.
LEMMA ThreadSteps ==
  ASSUME [Next]_vars
  PROVE  \/ \E k \in Keys : NextJob(k)
         \/ pc # "idle" /\ job' = job
         \/ pc' = "idle" /\ job' = NoJob
         \/ UNCHANGED execVars
  BY NextActions DEF StartJob, CancelJob, NextJob, PickedFlush, Dispatch,
         StepFails, Preflight, CaptureBaseline, Prepare, MarkMutationStarted,
         WriteBackup, Mutate, Apply, VerifyHandoff, RecordHandoff,
         RequestReexec, ResumeHandoff, FinalCheck, Succeed, SucceedFlush,
         Cleanup, FinishWithoutMutation, RollbackRelease, RollbackRestore,
         RollbackDiscard, RollbackVerify, FinishRolledBack, RollbackFails,
         FinalFlush, EndOfJob, WorkerFailed, Boot, BootReady, BootFails,
         StopRequested, StopIdle, Crash, Settle, vars, table, prodVars,
         procVars, execVars, bounds, Goto, Raise,
         ThreadIdle, FallibleSteps, CheckedSteps

-----------------------------------------------------------------------------
(* The parts of IInv that concern production *)

\* A captured baseline and a mutation mark are never taken back.
LEMMA Monotone ==
  ASSUME TypeOK, [Next]_vars, NEW k \in Keys
  PROVE  /\ captured[k] => captured'[k]
         /\ mutationStarted[k] => mutationStarted'[k]
  BY BaselineWriters, MarkWriters
  DEF CaptureBaseline, MarkMutationStarted, MutationMark, TypeOK, TableTypeOK

\* A thread that is not idle holds a job of the table.
LEMMA AtHand ==
  ASSUME TypeOK, pc # "idle"
  PROVE  job \in Keys
  BY KeysAssumption DEF TypeOK, ThreadTypeOK

\* perform changes production after the mark, rollback only restores a baseline
\* whose jobs are themselves marked.
LEMMA WriteAheadStep ==
  ASSUME IInv, [Next]_vars
  PROVE  WriteAhead'
<1> USE DEF IInv
<1>1. SUFFICES ASSUME NEW k \in Keys, effect'[k] # "none"
               PROVE  captured[k] /\ mutationStarted[k]
  BY Monotone DEF WriteAhead
<1>2. CASE Mutate \/ Apply
  <2>1. captured[job] /\ mutationStarted[job]
    BY <1>2 DEF Mutate, Apply, ProgramPoints, AfterMark
  <2>2. k # job => effect[k] # "none"
    BY <1>1, <1>2 DEF Mutate, Apply, TypeOK, WorldTypeOK
  <2> QED BY <2>1, <2>2 DEF WriteAhead
<1>3. CASE RollbackRelease
  BY <1>1, <1>3 DEF RollbackRelease, WriteAhead, TypeOK, WorldTypeOK
<1>4. CASE RollbackRestore
  <2>1. job \in Keys
    BY <1>4, AtHand DEF RollbackRestore
  <2> QED BY <1>1, <1>4, <2>1 DEF RollbackRestore, WriteAhead, Baselines
<1>5. CASE UNCHANGED effect
  BY <1>1, <1>5 DEF WriteAhead
<1> QED BY <1>2, <1>3, <1>4, <1>5, EffectWriters

\* The commit and the cancel look at the row in one transaction each.
LEMMA CancelExcludesSuccessStep ==
  ASSUME IInv, [Next]_vars
  PROVE  CancelExcludesSuccess'
<1> USE DEF IInv, TypeOK, TableTypeOK, CancelExcludesSuccess
<1>1. CASE \E k \in Keys : \E a \in ActionTypes : StartJob(k, a)
  BY <1>1 DEF StartJob
<1>2. CASE \E k \in Keys : CancelJob(k) \/ NextJob(k)
  BY <1>2 DEF CancelJob, NextJob
<1>3. CASE Succeed
  BY <1>3, AtHand DEF Succeed, CommitWins
<1>4. CASE FinishWithoutMutation \/ FinishRolledBack \/ RollbackFails
  BY <1>4, AtHand DEF FinishWithoutMutation, FinishRolledBack, RollbackFails, Settle
<1>5. CASE Boot
  BY <1>5 DEF Boot, Interrupted
<1>6. CASE UNCHANGED <<state, result, rollbackObs, cancelRequested>>
  BY <1>6
<1> QED BY <1>1, <1>2, <1>3, <1>4, <1>5, <1>6, StateWriters

\* Only the job at hand, which is in progress, gains columns.
LEMMA RowsStep ==
  ASSUME IInv, [Next]_vars
  PROVE  Rows'
<1> USE DEF IInv, TypeOK, TableTypeOK, Rows, Active
<1>1. CASE \E k \in Keys : \E a \in ActionTypes : StartJob(k, a)
  BY <1>1 DEF StartJob, MayStart
<1>2. CASE \E k \in Keys : CancelJob(k) \/ NextJob(k)
  BY <1>2 DEF CancelJob, NextJob
<1>3. CASE Succeed \/ FinishWithoutMutation \/ FinishRolledBack \/ RollbackFails
  BY <1>3, AtHand
  DEF Succeed, FinishWithoutMutation, FinishRolledBack, RollbackFails, Settle
<1>4. CASE Boot
  BY <1>4 DEF Boot, Interrupted
<1>5. CASE UNCHANGED <<state, result, rollbackObs, cancelRequested>>
  <2>1. CASE CaptureBaseline \/ MarkMutationStarted
    <3>1. state[job] \in Active
      BY <2>1 DEF CaptureBaseline, MarkMutationStarted, Lifecycle, Uncommitted, InProgress, Active,
                  WorkSteps
    <3>2. MarkMutationStarted => captured[job]
      BY DEF MarkMutationStarted, ProgramPoints, AfterCapture
    <3> QED BY <1>5, <2>1, <3>1, <3>2, AtHand
            DEF CaptureBaseline, MarkMutationStarted, MutationMark
  <2>2. CASE UNCHANGED <<captured, baseline, mutationStarted>>
    BY <1>5, <2>2
  <2> QED BY <1>5, <2>1, <2>2, BaselineWriters, MarkWriters
          DEF CaptureBaseline, MarkMutationStarted
<1> QED BY <1>1, <1>2, <1>3, <1>4, <1>5, StateWriters

\* A clean verdict is written only when nothing is left, and nothing of a job
\* with a clean verdict comes back.
LEMMA VerdictTruthfulStep ==
  ASSUME IInv, [Next]_vars
  PROVE  VerdictTruthful'
<1> USE DEF IInv, TypeOK, TableTypeOK, WorldTypeOK, CleanVerdicts
<1>1. ASSUME NEW k \in Keys, rollbackObs[k] \in CleanVerdicts
      PROVE  effect'[k] = "none"
  <2>1. effect[k] = "none"
    BY <1>1 DEF VerdictTruthful
  <2>2. CASE Mutate \/ Apply
    <3>1. state[job] \in Active
      BY <2>2 DEF Mutate, Apply, Lifecycle, Uncommitted, InProgress, Active, WorkSteps
    <3>2. k # job
      BY <1>1, <3>1 DEF Rows
    <3> QED BY <2>1, <2>2, <3>2 DEF Mutate, Apply
  <2>3. CASE RollbackRelease
    BY <2>1, <2>3 DEF RollbackRelease
  <2>4. CASE RollbackRestore
    <3>1. job \in Keys /\ captured[job] /\ Unfinished(job)
      BY <2>4, AtHand DEF RollbackRestore, ProgramPoints, AfterMark, Unfinished
    <3>2. baseline[job].effect[k] = "none"
      BY <2>1, <3>1 DEF Baselines
    <3> QED BY <2>1, <2>4, <3>2 DEF RollbackRestore
  <2> QED BY <2>1, <2>2, <2>3, <2>4, EffectWriters
<1>2. ASSUME NEW k \in Keys, rollbackObs'[k] \in CleanVerdicts,
             rollbackObs[k] \notin CleanVerdicts
      PROVE  effect'[k] = "none"
  <2>1. FinishWithoutMutation \/ FinishRolledBack
    BY <1>2, StateWriters
    DEF StartJob, CancelJob, NextJob, Succeed, RollbackFails, Boot, Settle
  <2>2. k = job /\ UNCHANGED effect
    BY <1>2, <2>1, AtHand
    DEF FinishWithoutMutation, FinishRolledBack, Settle, prodVars
  <2>3. effect[job] = "none"
    BY <2>1, AtHand DEF FinishWithoutMutation, FinishRolledBack, WriteAhead,
       NeedsRollback, ProgramPoints, Restored
  <2> QED BY <2>2, <2>3
<1> QED BY <1>1, <1>2 DEF VerdictTruthful

\* While a job is unfinished no other job changes production, so its baseline
\* stays right about the others.
LEMMA BaselinesStep ==
  ASSUME IInv, [Next]_vars
  PROVE  Baselines'
<1> USE DEF IInv, TypeOK, TableTypeOK, WorldTypeOK
<1>1. \A j, k \in Keys :
        baseline'[j].effect[k] # "none" => captured'[k] /\ mutationStarted'[k]
  BY BaselineWriters, Monotone DEF CaptureBaseline, Baselines, WriteAhead
<1>2. \A j \in Keys : captured'[j] => baseline'[j].effect[j] = "none"
  <2>1. CASE CaptureBaseline
    BY <2>1, AtHand DEF CaptureBaseline, Baselines, WriteAhead, ProgramPoints,
                        BeforeCapture
  <2> QED BY <2>1, BaselineWriters DEF Baselines
<1>3. ASSUME NEW j \in Keys, NEW k \in Keys, k # j,
             captured'[j], Unfinished(j)'
      PROVE  baseline'[j].effect[k] = effect'[k]
  <2>1. CASE CaptureBaseline
    <3>1. effect' = effect /\ job \in Keys /\ UNCHANGED <<state, job>>
      BY <2>1, AtHand DEF CaptureBaseline, prodVars, Goto
    <3> QED BY <1>3, <2>1, <3>1 DEF CaptureBaseline, Baselines, Unfinished
  <2>2. CASE UNCHANGED <<captured, baseline>>
    <3>1. Unfinished(j)
      <4>1. CASE state'[j] \in Active /\ state[j] \notin Active
        <5>1. CASE \E i \in Keys : \E a \in ActionTypes : StartJob(i, a)
          <6>1. state[j] = "absent"
            BY <4>1, <5>1 DEF StartJob, MayStart
          <6>2. ~captured[j]
            BY <6>1 DEF Rows
          <6> QED BY <1>3, <2>2, <6>2
        <5>2. CASE \E i \in Keys : CancelJob(i) \/ NextJob(i)
          BY <4>1, <5>2 DEF CancelJob, NextJob, Active
        <5>3. CASE Succeed \/ FinishWithoutMutation \/ FinishRolledBack \/ RollbackFails
          BY <4>1, <5>3, AtHand
          DEF Succeed, FinishWithoutMutation, FinishRolledBack, RollbackFails,
              Settle, Active
        <5>4. CASE Boot
          BY <4>1, <5>4 DEF Boot, Interrupted, Active
        <5> QED BY <4>1, <5>1, <5>2, <5>3, <5>4, StateWriters
      <4>2. CASE state[j] \in Active
        BY <4>2 DEF Unfinished
      <4>3. CASE j = job'
        BY <4>3, ThreadSteps, KeysAssumption
        DEF Unfinished, NextJob, Active, execVars
      <4> QED BY <1>3, <4>1, <4>2, <4>3 DEF Unfinished
    <3>2. baseline[j].effect[k] = effect[k]
      BY <1>3, <2>2, <3>1 DEF Baselines
    <3>3. CASE UNCHANGED effect
      BY <2>2, <3>2, <3>3
    <3>4. ASSUME ~ UNCHANGED effect
          PROVE  job \in Keys /\ captured[job] /\ pc # "idle" /\ pc \in AfterMark \cup {"finish"}
      BY <3>4, EffectWriters, AtHand
      DEF Mutate, Apply, RollbackRelease, RollbackRestore, ProgramPoints,
          AfterMark, NeedsRollback
    <3>5. ASSUME ~ UNCHANGED effect PROVE j = job
      BY <1>3, <2>2, <3>1, <3>4, <3>5 DEF Unfinished, Lifecycle, ActiveJobs
    <3>6. ASSUME ~ UNCHANGED effect PROVE effect'[k] = effect[k]
      BY <1>3, <2>2, <3>2, <3>4, <3>5, <3>6, EffectWriters
      DEF Mutate, Apply, RollbackRelease, RollbackRestore
    <3> QED BY <2>2, <3>2, <3>3, <3>6
  <2> QED BY <2>1, <2>2, BaselineWriters
<1> QED BY <1>1, <1>2, <1>3 DEF Baselines

-----------------------------------------------------------------------------
(* The parts that need every action *)

\* Each step of execute establishes what the next one relies on.
LEMMA ProgramPointsStep ==
  ASSUME IInv, [Next]_vars
  PROVE  ProgramPoints'
<1> USE BoundsAssumption, KeysAssumption, AtHand DEF IInv, TypeOK,
      TableTypeOK, WorldTypeOK, ThreadTypeOK, BoundsTypeOK, Goto, Raise,
      FlushOk, FlushFails, ThreadIdle, Settle, Alive, table, prodVars,
      execVars, procVars, bounds, ProgramPoints, WriteAhead, Baselines,
      Material, Lifecycle, Unfinished, Unselected, InProgress, AfterMark,
      AfterCapture, BeforeCapture, AfterBackup, Restored, HandoffPath,
      Uncommitted, Restart, Rotate, Upgrade, Revert, SwitchesOps, OpsTarget,
      ActionTypes, Terminal, Active, States, WorkSteps, FinishSteps
<1>1. CASE \E k \in Keys : \E a \in ActionTypes : StartJob(k, a)
  BY <1>1 DEF StartJob, MayStart, ActiveJobs
<1>2. CASE \E k \in Keys : CancelJob(k)
  BY <1>2 DEF CancelJob
<1>3. CASE \E k \in Keys : NextJob(k)
  BY <1>3 DEF NextJob
<1>4. CASE PickedFlush \/ Dispatch \/ StepFails
  BY <1>4 DEF PickedFlush, Dispatch, StepFails, FreshRow, HandoffPending,
     FallibleSteps, CheckedSteps
<1>5. CASE Preflight \/ Prepare \/ VerifyHandoff \/ ResumeHandoff \/ FinalCheck
  <2>1. CASE Preflight
    BY <2>1 DEF Preflight
  <2>2. CASE Prepare
    BY <2>2 DEF Prepare
  <2>3. CASE VerifyHandoff
    BY <2>3 DEF VerifyHandoff, HandoffTarget
  <2>4. CASE ResumeHandoff
    BY <2>4 DEF ResumeHandoff, HandoffTarget
  <2>5. CASE FinalCheck
    BY <2>5 DEF FinalCheck
  <2> QED BY <1>5, <2>1, <2>2, <2>3, <2>4, <2>5
<1>6. CASE CaptureBaseline \/ MarkMutationStarted
  BY <1>6 DEF CaptureBaseline, MarkMutationStarted, MutationMark
<1>7. CASE WriteBackup \/ Mutate \/ Apply
  BY <1>7 DEF WriteBackup, Mutate, Apply, AfterApply
<1>8. CASE RecordHandoff \/ RequestReexec
  BY <1>8 DEF RecordHandoff, RequestReexec
<1>9. CASE Succeed \/ SucceedFlush \/ Cleanup
  BY <1>9 DEF Succeed, SucceedFlush, Cleanup, CommitWins
<1>10. CASE FinishWithoutMutation \/ FinishRolledBack \/ RollbackFails \/
           FinalFlush
  BY <1>10 DEF FinishWithoutMutation, FinishRolledBack, RollbackFails,
     FinalFlush, NeedsRollback
<1>11. CASE RollbackRelease \/ RollbackRestore
  BY <1>11 DEF RollbackRelease, RollbackRestore, NeedsRollback
<1>12. CASE RollbackDiscard \/ RollbackVerify
  BY <1>12 DEF RollbackDiscard, RollbackVerify, FlagAfterRollback
<1>13. CASE EndOfJob \/ WorkerFailed \/ Crash \/ StopRequested \/ StopIdle
  BY <1>13 DEF EndOfJob, WorkerFailed, Crash, StopRequested, StopIdle
<1>14. CASE Boot \/ BootReady \/ BootFails
  BY <1>14 DEF Boot, BootReady, BootFails, Interrupted, CompletedMaterial
<1>15. CASE UNCHANGED vars
  BY <1>15 DEF vars
<1> QED BY NextActions, <1>1, <1>2, <1>3, <1>4, <1>5, <1>6, <1>7, <1>8, <1>9,
         <1>10, <1>11, <1>12, <1>13, <1>14, <1>15

\* The thread and the states of the rows stay in step.
LEMMA LifecycleStep ==
  ASSUME IInv, [Next]_vars
  PROVE  Lifecycle'
<1> USE BoundsAssumption, KeysAssumption, AtHand DEF IInv, TypeOK,
      TableTypeOK, WorldTypeOK, ThreadTypeOK, BoundsTypeOK, Goto, Raise,
      FlushOk, FlushFails, ThreadIdle, Settle, Alive, table, prodVars,
      execVars, procVars, bounds, Lifecycle, ProgramPoints, Rows, ActiveJobs,
      Unselected, InProgress, AfterMark, AfterCapture, BeforeCapture,
      AfterBackup, Restored, HandoffPath, Uncommitted, Restart, Rotate,
      Upgrade, Revert, SwitchesOps, OpsTarget, ActionTypes, Terminal, Active,
      States, WorkSteps, FinishSteps
<1>1. CASE \E k \in Keys : \E a \in ActionTypes : StartJob(k, a)
  BY <1>1 DEF StartJob, MayStart, ActiveJobs
<1>2. CASE \E k \in Keys : CancelJob(k)
  BY <1>2 DEF CancelJob
<1>3. CASE \E k \in Keys : NextJob(k)
  BY <1>3 DEF NextJob
<1>4. CASE PickedFlush \/ Dispatch \/ StepFails
  BY <1>4 DEF PickedFlush, Dispatch, StepFails, FreshRow, HandoffPending,
     FallibleSteps, CheckedSteps
<1>5. CASE Preflight \/ Prepare \/ VerifyHandoff \/ ResumeHandoff \/ FinalCheck
  <2>1. CASE Preflight
    BY <2>1 DEF Preflight
  <2>2. CASE Prepare
    BY <2>2 DEF Prepare
  <2>3. CASE VerifyHandoff
    BY <2>3 DEF VerifyHandoff, HandoffTarget
  <2>4. CASE ResumeHandoff
    BY <2>4 DEF ResumeHandoff, HandoffTarget
  <2>5. CASE FinalCheck
    BY <2>5 DEF FinalCheck
  <2> QED BY <1>5, <2>1, <2>2, <2>3, <2>4, <2>5
<1>6. CASE CaptureBaseline \/ MarkMutationStarted
  BY <1>6 DEF CaptureBaseline, MarkMutationStarted, MutationMark
<1>7. CASE WriteBackup \/ Mutate \/ Apply
  BY <1>7 DEF WriteBackup, Mutate, Apply, AfterApply
<1>8. CASE RecordHandoff \/ RequestReexec
  BY <1>8 DEF RecordHandoff, RequestReexec
<1>9. CASE Succeed \/ SucceedFlush \/ Cleanup
  BY <1>9 DEF Succeed, SucceedFlush, Cleanup, CommitWins
<1>10. CASE FinishWithoutMutation \/ FinishRolledBack \/ RollbackFails \/
           FinalFlush
  BY <1>10 DEF FinishWithoutMutation, FinishRolledBack, RollbackFails,
     FinalFlush, NeedsRollback
<1>11. CASE RollbackRelease \/ RollbackRestore
  BY <1>11 DEF RollbackRelease, RollbackRestore, NeedsRollback
<1>12. CASE RollbackDiscard \/ RollbackVerify
  BY <1>12 DEF RollbackDiscard, RollbackVerify, FlagAfterRollback
<1>13. CASE EndOfJob \/ WorkerFailed \/ Crash \/ StopRequested \/ StopIdle
  BY <1>13 DEF EndOfJob, WorkerFailed, Crash, StopRequested, StopIdle
<1>14. CASE Boot \/ BootReady \/ BootFails
  BY <1>14 DEF Boot, BootReady, BootFails, Interrupted, CompletedMaterial
<1>15. CASE UNCHANGED vars
  BY <1>15 DEF vars
<1> QED BY NextActions, <1>1, <1>2, <1>3, <1>4, <1>5, <1>6, <1>7, <1>8, <1>9,
         <1>10, <1>11, <1>12, <1>13, <1>14, <1>15

\* The backup is removed after the restore or after the success.
LEMMA MaterialStep ==
  ASSUME IInv, [Next]_vars
  PROVE  Material'
<1> USE BoundsAssumption, KeysAssumption, AtHand DEF IInv, TypeOK,
      TableTypeOK, WorldTypeOK, ThreadTypeOK, BoundsTypeOK, Goto, Raise,
      FlushOk, FlushFails, ThreadIdle, Settle, Alive, table, prodVars,
      execVars, procVars, bounds, Material, WriteAhead, Baselines,
      ProgramPoints, Rows, Lifecycle, Unfinished, ActiveJobs, NeedsRollback,
      Unselected, InProgress, AfterMark, AfterCapture, BeforeCapture,
      AfterBackup, Restored, HandoffPath, Uncommitted, Restart, Rotate,
      Upgrade, Revert, SwitchesOps, OpsTarget, ActionTypes, Terminal, Active,
      States, WorkSteps, FinishSteps
<1>1. CASE \E k \in Keys : \E a \in ActionTypes : StartJob(k, a)
  BY <1>1 DEF StartJob, MayStart, ActiveJobs
<1>2. CASE \E k \in Keys : CancelJob(k)
  BY <1>2 DEF CancelJob
<1>3. CASE \E k \in Keys : NextJob(k)
  BY <1>3 DEF NextJob
<1>4. CASE PickedFlush \/ Dispatch \/ StepFails
  BY <1>4 DEF PickedFlush, Dispatch, StepFails, FreshRow, HandoffPending,
     FallibleSteps, CheckedSteps
<1>5. CASE Preflight \/ Prepare \/ VerifyHandoff \/ ResumeHandoff \/ FinalCheck
  <2>1. CASE Preflight
    BY <2>1 DEF Preflight
  <2>2. CASE Prepare
    BY <2>2 DEF Prepare
  <2>3. CASE VerifyHandoff
    BY <2>3 DEF VerifyHandoff, HandoffTarget
  <2>4. CASE ResumeHandoff
    BY <2>4 DEF ResumeHandoff, HandoffTarget
  <2>5. CASE FinalCheck
    BY <2>5 DEF FinalCheck
  <2> QED BY <1>5, <2>1, <2>2, <2>3, <2>4, <2>5
<1>6. CASE CaptureBaseline \/ MarkMutationStarted
  BY <1>6 DEF CaptureBaseline, MarkMutationStarted, MutationMark
<1>7. CASE WriteBackup \/ Mutate \/ Apply
  BY <1>7 DEF WriteBackup, Mutate, Apply, AfterApply
<1>8. CASE RecordHandoff \/ RequestReexec
  BY <1>8 DEF RecordHandoff, RequestReexec
<1>9. CASE Succeed \/ SucceedFlush \/ Cleanup
  BY <1>9 DEF Succeed, SucceedFlush, Cleanup, CommitWins
<1>10. CASE FinishWithoutMutation \/ FinishRolledBack \/ RollbackFails \/
           FinalFlush
  BY <1>10 DEF FinishWithoutMutation, FinishRolledBack, RollbackFails,
     FinalFlush, NeedsRollback
<1>11. CASE RollbackRelease
  BY <1>11 DEF RollbackRelease, NeedsRollback
<1>12. CASE RollbackRestore
  BY <1>12 DEF RollbackRestore, NeedsRollback
<1>13. CASE RollbackDiscard \/ RollbackVerify
  BY <1>13 DEF RollbackDiscard, RollbackVerify, FlagAfterRollback
<1>14. CASE EndOfJob \/ WorkerFailed \/ Crash \/ StopRequested \/ StopIdle
  BY <1>14 DEF EndOfJob, WorkerFailed, Crash, StopRequested, StopIdle
<1>15. CASE Boot \/ BootReady \/ BootFails
  BY <1>15 DEF Boot, BootReady, BootFails, Interrupted, CompletedMaterial
<1>16. CASE UNCHANGED vars
  BY <1>16 DEF vars
<1> QED BY NextActions, <1>1, <1>2, <1>3, <1>4, <1>5, <1>6, <1>7, <1>8, <1>9,
         <1>10, <1>11, <1>12, <1>13, <1>14, <1>15, <1>16

\* Only Apply selects a job's release, only its rollback deselects it.
LEMMA SelectedStep ==
  ASSUME IInv, [Next]_vars
  PROVE  Selected'
<1> USE BoundsAssumption, KeysAssumption, AtHand DEF IInv, TypeOK,
      TableTypeOK, WorldTypeOK, ThreadTypeOK, BoundsTypeOK, Goto, Raise,
      FlushOk, FlushFails, ThreadIdle, Settle, Alive, table, prodVars,
      execVars, procVars, bounds, Selected, WriteAhead, Baselines, Unfinished,
      ProgramPoints, Rows, Lifecycle, ActiveJobs, Applied, Unselected,
      InProgress, AfterMark, AfterCapture, BeforeCapture, AfterBackup,
      Restored, HandoffPath, Uncommitted, Restart, Rotate, Upgrade, Revert,
      SwitchesOps, OpsTarget, ActionTypes, Terminal, Active, States,
      WorkSteps, FinishSteps
<1>1. CASE \E k \in Keys : \E a \in ActionTypes : StartJob(k, a)
  BY <1>1 DEF StartJob, MayStart, ActiveJobs
<1>2. CASE \E k \in Keys : CancelJob(k)
  BY <1>2 DEF CancelJob
<1>3. CASE \E k \in Keys : NextJob(k)
  BY <1>3 DEF NextJob
<1>4. CASE PickedFlush \/ Dispatch \/ StepFails
  BY <1>4 DEF PickedFlush, Dispatch, StepFails, FreshRow, HandoffPending,
     FallibleSteps, CheckedSteps
<1>5. CASE Preflight \/ Prepare \/ VerifyHandoff \/ ResumeHandoff \/ FinalCheck
  <2>1. CASE Preflight
    BY <2>1 DEF Preflight
  <2>2. CASE Prepare
    BY <2>2 DEF Prepare
  <2>3. CASE VerifyHandoff
    BY <2>3 DEF VerifyHandoff, HandoffTarget
  <2>4. CASE ResumeHandoff
    BY <2>4 DEF ResumeHandoff, HandoffTarget
  <2>5. CASE FinalCheck
    BY <2>5 DEF FinalCheck
  <2> QED BY <1>5, <2>1, <2>2, <2>3, <2>4, <2>5
<1>6. CASE CaptureBaseline
  BY <1>6 DEF CaptureBaseline, MutationMark
<1>7. CASE MarkMutationStarted
  BY <1>7 DEF MarkMutationStarted, MutationMark
<1>8. CASE WriteBackup
  BY <1>8 DEF WriteBackup, AfterApply
<1>9. CASE Mutate
  BY <1>9 DEF Mutate, AfterApply
<1>10. CASE Apply
  BY <1>10 DEF Apply, AfterApply
<1>11. CASE RecordHandoff
  BY <1>11 DEF RecordHandoff
<1>12. CASE RequestReexec
  BY <1>12 DEF RequestReexec
<1>13. CASE Succeed
  BY <1>13 DEF Succeed, CommitWins
<1>14. CASE SucceedFlush
  BY <1>14 DEF SucceedFlush, CommitWins
<1>15. CASE Cleanup
  BY <1>15 DEF Cleanup, CommitWins
<1>16. CASE FinishWithoutMutation \/ FinishRolledBack \/ RollbackFails \/
           FinalFlush
  BY <1>16 DEF FinishWithoutMutation, FinishRolledBack, RollbackFails,
     FinalFlush, NeedsRollback
<1>17. CASE RollbackRelease
  <2>1. /\ job \in Keys /\ job' = job /\ state' = state
        /\ pc = "finish" /\ pc' = "restore"
        /\ captured[job] /\ mutationStarted[job]
        /\ UNCHANGED <<captured, baseline, mutationStarted, actionType>>
    BY <1>17 DEF RollbackRelease, NeedsRollback
  <2>2. CASE SwitchesOps(job)
    <3>1. release' = baseline[job].release
      BY <1>17, <2>2 DEF RollbackRelease
    <3>2. ASSUME NEW k \in Keys, release' = k
          PROVE  k # job /\ mutationStarted[k] /\ actionType[k] = Upgrade
      <4>1. baseline[job].release = k /\ captured[job]
        BY <2>1, <3>1, <3>2
      <4> QED BY <2>1, <4>1, SMTT(30)
    <3>3. ASSUME NEW k \in Keys, release' = k PROVE ~Unfinished(k)'
      BY <2>1, <3>2, <3>3
    <3>4. release' # OpsTarget(job)
      BY <2>1, <2>2, <3>1
    <3>5. \A k \in Keys : Unfinished(k)' /\ captured[k] /\ k # job => FALSE
      BY <2>1
    <3> QED BY <2>1, <3>2, <3>3, <3>4, <3>5
  <2>3. CASE ~SwitchesOps(job)
    BY <1>17, <2>1, <2>3 DEF RollbackRelease
  <2> QED BY <2>2, <2>3
<1>18. CASE RollbackRestore
  BY <1>18 DEF RollbackRestore, NeedsRollback
<1>19. CASE RollbackDiscard \/ RollbackVerify
  BY <1>19 DEF RollbackDiscard, RollbackVerify, FlagAfterRollback
<1>20. CASE EndOfJob \/ WorkerFailed \/ Crash \/ StopRequested \/ StopIdle
  BY <1>20 DEF EndOfJob, WorkerFailed, Crash, StopRequested, StopIdle
<1>21. CASE Boot \/ BootReady \/ BootFails
  BY <1>21 DEF Boot, BootReady, BootFails, Interrupted, CompletedMaterial
<1>22. CASE UNCHANGED vars
  BY <1>22 DEF vars
<1> QED BY NextActions, <1>1, <1>2, <1>3, <1>4, <1>5, <1>6, <1>7, <1>8, <1>9,
         <1>10, <1>11, <1>12, <1>13, <1>14, <1>15, <1>16, <1>17, <1>18,
         <1>19, <1>20, <1>21, <1>22

\* A commit comes after Apply, and later rollbacks restore it with the rest.
LEMMA SuccessIsAppliedStep ==
  ASSUME IInv, [Next]_vars
  PROVE  SuccessIsApplied'
<1> USE BoundsAssumption, KeysAssumption, AtHand DEF IInv, TypeOK,
      TableTypeOK, WorldTypeOK, ThreadTypeOK, BoundsTypeOK, Goto, Raise,
      FlushOk, FlushFails, ThreadIdle, Settle, Alive, table, prodVars,
      execVars, procVars, bounds, SuccessIsApplied, Selected, Applied,
      Baselines, Unfinished, ProgramPoints, Lifecycle, Unselected, InProgress,
      AfterMark, AfterCapture, BeforeCapture, AfterBackup, Restored,
      HandoffPath, Uncommitted, Restart, Rotate, Upgrade, Revert, SwitchesOps,
      OpsTarget, ActionTypes, Terminal, Active, States, WorkSteps, FinishSteps
<1>1. CASE \E k \in Keys : \E a \in ActionTypes : StartJob(k, a)
  BY <1>1 DEF StartJob, MayStart, ActiveJobs
<1>2. CASE \E k \in Keys : CancelJob(k)
  BY <1>2 DEF CancelJob
<1>3. CASE \E k \in Keys : NextJob(k)
  BY <1>3 DEF NextJob
<1>4. CASE PickedFlush \/ Dispatch \/ StepFails
  BY <1>4 DEF PickedFlush, Dispatch, StepFails, FreshRow, HandoffPending,
     FallibleSteps, CheckedSteps
<1>5. CASE Preflight \/ Prepare \/ VerifyHandoff \/ ResumeHandoff \/ FinalCheck
  <2>1. CASE Preflight
    BY <2>1 DEF Preflight
  <2>2. CASE Prepare
    BY <2>2 DEF Prepare
  <2>3. CASE VerifyHandoff
    BY <2>3 DEF VerifyHandoff, HandoffTarget
  <2>4. CASE ResumeHandoff
    BY <2>4 DEF ResumeHandoff, HandoffTarget
  <2>5. CASE FinalCheck
    BY <2>5 DEF FinalCheck
  <2> QED BY <1>5, <2>1, <2>2, <2>3, <2>4, <2>5
<1>6. CASE CaptureBaseline \/ MarkMutationStarted
  BY <1>6 DEF CaptureBaseline, MarkMutationStarted, MutationMark
<1>7. CASE WriteBackup \/ Mutate \/ Apply
  BY <1>7 DEF WriteBackup, Mutate, Apply, AfterApply
<1>8. CASE RecordHandoff \/ RequestReexec
  BY <1>8 DEF RecordHandoff, RequestReexec
<1>9. CASE Succeed \/ SucceedFlush \/ Cleanup
  BY <1>9 DEF Succeed, SucceedFlush, Cleanup, CommitWins
<1>10. CASE FinishWithoutMutation \/ FinishRolledBack \/ RollbackFails \/
           FinalFlush
  BY <1>10 DEF FinishWithoutMutation, FinishRolledBack, RollbackFails,
     FinalFlush, NeedsRollback
<1>11. CASE RollbackRelease
  BY <1>11 DEF RollbackRelease, NeedsRollback
<1>12. CASE RollbackRestore
  BY <1>12 DEF RollbackRestore, NeedsRollback
<1>13. CASE RollbackDiscard \/ RollbackVerify
  BY <1>13 DEF RollbackDiscard, RollbackVerify, FlagAfterRollback
<1>14. CASE EndOfJob \/ WorkerFailed \/ Crash \/ StopRequested \/ StopIdle
  BY <1>14 DEF EndOfJob, WorkerFailed, Crash, StopRequested, StopIdle
<1>15. CASE Boot \/ BootReady \/ BootFails
  BY <1>15 DEF Boot, BootReady, BootFails, Interrupted, CompletedMaterial
<1>16. CASE UNCHANGED vars
  BY <1>16 DEF vars
<1> QED BY NextActions, <1>1, <1>2, <1>3, <1>4, <1>5, <1>6, <1>7, <1>8, <1>9,
         <1>10, <1>11, <1>12, <1>13, <1>14, <1>15, <1>16

\* A release is loaded by Boot only, so a resumed handoff runs it.
LEMMA HandoffStep ==
  ASSUME IInv, [Next]_vars
  PROVE  Handoff'
<1> USE BoundsAssumption, KeysAssumption, AtHand DEF IInv, TypeOK,
      TableTypeOK, WorldTypeOK, ThreadTypeOK, BoundsTypeOK, Goto, Raise,
      FlushOk, FlushFails, ThreadIdle, Settle, Alive, table, prodVars,
      execVars, procVars, bounds, Handoff, LeavingHandoff, Selected, Applied,
      Rows, Lifecycle, ActiveJobs, ProgramPoints, Baselines, Unfinished,
      Unselected, InProgress, AfterMark, AfterCapture, BeforeCapture,
      AfterBackup, Restored, HandoffPath, Uncommitted, Restart, Rotate,
      Upgrade, Revert, SwitchesOps, OpsTarget, ActionTypes, Terminal, Active,
      States, WorkSteps, FinishSteps
<1>1. CASE \E k \in Keys : \E a \in ActionTypes : StartJob(k, a)
  BY <1>1 DEF StartJob, MayStart, ActiveJobs
<1>2. CASE \E k \in Keys : CancelJob(k)
  BY <1>2 DEF CancelJob
<1>3. CASE \E k \in Keys : NextJob(k)
  BY <1>3 DEF NextJob
<1>4. CASE PickedFlush \/ Dispatch \/ StepFails
  BY <1>4 DEF PickedFlush, Dispatch, StepFails, FreshRow, HandoffPending,
     FallibleSteps, CheckedSteps
<1>5. CASE Preflight \/ Prepare \/ VerifyHandoff \/ ResumeHandoff \/ FinalCheck
  <2>1. CASE Preflight
    BY <2>1 DEF Preflight
  <2>2. CASE Prepare
    BY <2>2 DEF Prepare
  <2>3. CASE VerifyHandoff
    BY <2>3 DEF VerifyHandoff, HandoffTarget
  <2>4. CASE ResumeHandoff
    BY <2>4 DEF ResumeHandoff, HandoffTarget
  <2>5. CASE FinalCheck
    BY <2>5 DEF FinalCheck
  <2> QED BY <1>5, <2>1, <2>2, <2>3, <2>4, <2>5
<1>6. CASE CaptureBaseline \/ MarkMutationStarted
  <2>1. CASE CaptureBaseline
    BY <2>1 DEF CaptureBaseline
  <2>2. CASE MarkMutationStarted
    BY <2>2 DEF MarkMutationStarted, MutationMark
  <2> QED BY <1>6, <2>1, <2>2
<1>7. CASE WriteBackup \/ Mutate \/ Apply
  BY <1>7 DEF WriteBackup, Mutate, Apply, AfterApply
<1>8. CASE RecordHandoff \/ RequestReexec
  BY <1>8 DEF RecordHandoff, RequestReexec
<1>9. CASE Succeed \/ SucceedFlush \/ Cleanup
  BY <1>9 DEF Succeed, SucceedFlush, Cleanup, CommitWins
<1>10. CASE FinishWithoutMutation \/ FinishRolledBack \/ RollbackFails \/
           FinalFlush
  BY <1>10 DEF FinishWithoutMutation, FinishRolledBack, RollbackFails,
     FinalFlush, NeedsRollback
<1>11. CASE RollbackRelease
  BY <1>11 DEF RollbackRelease, NeedsRollback
<1>12. CASE RollbackRestore
  BY <1>12 DEF RollbackRestore, NeedsRollback
<1>13. CASE RollbackDiscard \/ RollbackVerify
  BY <1>13 DEF RollbackDiscard, RollbackVerify, FlagAfterRollback
<1>14. CASE EndOfJob \/ WorkerFailed \/ Crash \/ StopRequested \/ StopIdle
  BY <1>14 DEF EndOfJob, WorkerFailed, Crash, StopRequested, StopIdle
<1>15. CASE Boot \/ BootReady \/ BootFails
  BY <1>15 DEF Boot, BootReady, BootFails, Interrupted, CompletedMaterial
<1>16. CASE UNCHANGED vars
  BY <1>16 DEF vars
<1> QED BY NextActions, <1>1, <1>2, <1>3, <1>4, <1>5, <1>6, <1>7, <1>8, <1>9,
         <1>10, <1>11, <1>12, <1>13, <1>14, <1>15, <1>16

\* Types of production, the files and the process.
LEMMA WorldTypeOKStep ==
  ASSUME IInv, [Next]_vars
  PROVE  WorldTypeOK'
<1> USE BoundsAssumption, KeysAssumption, AtHand DEF IInv, TypeOK,
      TableTypeOK, WorldTypeOK, ThreadTypeOK, BoundsTypeOK, Goto, Raise,
      FlushOk, FlushFails, ThreadIdle, Settle, Alive, table, prodVars,
      execVars, procVars, bounds, Restart, Rotate, Upgrade, Revert,
      SwitchesOps, OpsTarget, ActionTypes, States, Active, Terminal, Results,
      Verdicts, CleanVerdicts, Snapshots, Effects, Releases, Stages, PCs,
      WorkSteps, CommitSteps, SucceedSteps, FinishSteps, Causes, Procs
<1>1. CASE \E k \in Keys : \E a \in ActionTypes : StartJob(k, a)
  BY <1>1 DEF StartJob, MayStart, ActiveJobs
<1>2. CASE \E k \in Keys : CancelJob(k)
  BY <1>2 DEF CancelJob
<1>3. CASE \E k \in Keys : NextJob(k)
  BY <1>3 DEF NextJob
<1>4. CASE PickedFlush \/ Dispatch \/ StepFails
  BY <1>4 DEF PickedFlush, Dispatch, StepFails, FreshRow, HandoffPending,
     FallibleSteps, CheckedSteps
<1>5. CASE Preflight \/ Prepare \/ VerifyHandoff \/ ResumeHandoff \/ FinalCheck
  <2>1. CASE Preflight
    BY <2>1 DEF Preflight
  <2>2. CASE Prepare
    BY <2>2 DEF Prepare
  <2>3. CASE VerifyHandoff
    BY <2>3 DEF VerifyHandoff, HandoffTarget
  <2>4. CASE ResumeHandoff
    BY <2>4 DEF ResumeHandoff, HandoffTarget
  <2>5. CASE FinalCheck
    BY <2>5 DEF FinalCheck
  <2> QED BY <1>5, <2>1, <2>2, <2>3, <2>4, <2>5
<1>6. CASE CaptureBaseline \/ MarkMutationStarted
  BY <1>6 DEF CaptureBaseline, MarkMutationStarted, MutationMark
<1>7. CASE WriteBackup \/ Mutate \/ Apply
  <2>1. CASE WriteBackup
    BY <2>1 DEF WriteBackup
  <2>2. CASE Mutate
    BY <2>2 DEF Mutate
  <2>3. CASE Apply
    BY <2>3 DEF Apply, AfterApply
  <2> QED BY <1>7, <2>1, <2>2, <2>3
<1>8. CASE RecordHandoff \/ RequestReexec
  BY <1>8 DEF RecordHandoff, RequestReexec
<1>9. CASE Succeed \/ SucceedFlush \/ Cleanup
  BY <1>9 DEF Succeed, SucceedFlush, Cleanup, CommitWins
<1>10. CASE FinishWithoutMutation \/ FinishRolledBack \/ RollbackFails \/
           FinalFlush
  BY <1>10 DEF FinishWithoutMutation, FinishRolledBack, RollbackFails,
     FinalFlush, NeedsRollback
<1>11. CASE RollbackRelease \/ RollbackRestore
  BY <1>11 DEF RollbackRelease, RollbackRestore, NeedsRollback
<1>12. CASE RollbackDiscard \/ RollbackVerify
  BY <1>12 DEF RollbackDiscard, RollbackVerify, FlagAfterRollback
<1>13. CASE EndOfJob \/ WorkerFailed \/ Crash \/ StopRequested \/ StopIdle
  BY <1>13 DEF EndOfJob, WorkerFailed, Crash, StopRequested, StopIdle
<1>14. CASE Boot \/ BootReady \/ BootFails
  <2>1. CASE Boot
    BY <2>1 DEF Boot, Interrupted, CompletedMaterial
  <2>2. CASE BootReady
    BY <2>2 DEF BootReady
  <2>3. CASE BootFails
    BY <2>3 DEF BootFails
  <2> QED BY <1>14, <2>1, <2>2, <2>3
<1>15. CASE UNCHANGED vars
  BY <1>15 DEF vars
<1> QED BY NextActions, <1>1, <1>2, <1>3, <1>4, <1>5, <1>6, <1>7, <1>8, <1>9,
         <1>10, <1>11, <1>12, <1>13, <1>14, <1>15

\* Types of the counters.
LEMMA BoundsTypeOKStep ==
  ASSUME IInv, [Next]_vars
  PROVE  BoundsTypeOK'
<1> USE BoundsAssumption, KeysAssumption, AtHand DEF IInv, TypeOK,
      TableTypeOK, WorldTypeOK, ThreadTypeOK, BoundsTypeOK, Goto, Raise,
      FlushOk, FlushFails, ThreadIdle, Settle, Alive, table, prodVars,
      execVars, procVars, bounds, Restart, Rotate, Upgrade, Revert,
      SwitchesOps, OpsTarget, ActionTypes, States, Active, Terminal, Results,
      Verdicts, CleanVerdicts, Snapshots, Effects, Releases, Stages, PCs,
      WorkSteps, CommitSteps, SucceedSteps, FinishSteps, Causes, Procs
<1>1. CASE \E k \in Keys : \E a \in ActionTypes : StartJob(k, a)
  BY <1>1 DEF StartJob, MayStart, ActiveJobs
<1>2. CASE \E k \in Keys : CancelJob(k)
  BY <1>2 DEF CancelJob
<1>3. CASE \E k \in Keys : NextJob(k)
  BY <1>3 DEF NextJob
<1>4. CASE PickedFlush \/ Dispatch \/ StepFails
  BY <1>4 DEF PickedFlush, Dispatch, StepFails, FreshRow, HandoffPending,
     FallibleSteps, CheckedSteps
<1>5. CASE Preflight \/ Prepare \/ VerifyHandoff \/ ResumeHandoff \/ FinalCheck
  <2>1. CASE Preflight
    BY <2>1 DEF Preflight
  <2>2. CASE Prepare
    BY <2>2 DEF Prepare
  <2>3. CASE VerifyHandoff
    BY <2>3 DEF VerifyHandoff, HandoffTarget
  <2>4. CASE ResumeHandoff
    BY <2>4 DEF ResumeHandoff, HandoffTarget
  <2>5. CASE FinalCheck
    BY <2>5 DEF FinalCheck
  <2> QED BY <1>5, <2>1, <2>2, <2>3, <2>4, <2>5
<1>6. CASE CaptureBaseline \/ MarkMutationStarted
  BY <1>6 DEF CaptureBaseline, MarkMutationStarted, MutationMark
<1>7. CASE WriteBackup \/ Mutate \/ Apply
  BY <1>7 DEF WriteBackup, Mutate, Apply, AfterApply
<1>8. CASE RecordHandoff \/ RequestReexec
  BY <1>8 DEF RecordHandoff, RequestReexec
<1>9. CASE Succeed \/ SucceedFlush \/ Cleanup
  BY <1>9 DEF Succeed, SucceedFlush, Cleanup, CommitWins
<1>10. CASE FinishWithoutMutation \/ FinishRolledBack \/ RollbackFails \/
           FinalFlush
  BY <1>10 DEF FinishWithoutMutation, FinishRolledBack, RollbackFails,
     FinalFlush, NeedsRollback
<1>11. CASE RollbackRelease \/ RollbackRestore
  BY <1>11 DEF RollbackRelease, RollbackRestore, NeedsRollback
<1>12. CASE RollbackDiscard \/ RollbackVerify
  BY <1>12 DEF RollbackDiscard, RollbackVerify, FlagAfterRollback
<1>13. CASE EndOfJob \/ WorkerFailed \/ Crash \/ StopRequested \/ StopIdle
  BY <1>13 DEF EndOfJob, WorkerFailed, Crash, StopRequested, StopIdle
<1>14. CASE Boot \/ BootReady \/ BootFails
  BY <1>14 DEF Boot, BootReady, BootFails, Interrupted, CompletedMaterial
<1>15. CASE UNCHANGED vars
  BY <1>15 DEF vars
<1> QED BY NextActions, <1>1, <1>2, <1>3, <1>4, <1>5, <1>6, <1>7, <1>8, <1>9,
         <1>10, <1>11, <1>12, <1>13, <1>14, <1>15

\* Types of the executor thread.
LEMMA ThreadTypeOKStep ==
  ASSUME IInv, [Next]_vars
  PROVE  ThreadTypeOK'
<1> USE BoundsAssumption, KeysAssumption, AtHand DEF IInv, TypeOK,
      TableTypeOK, WorldTypeOK, ThreadTypeOK, BoundsTypeOK, Goto, Raise,
      FlushOk, FlushFails, ThreadIdle, Settle, Alive, table, prodVars,
      execVars, procVars, bounds, Restart, Rotate, Upgrade, Revert,
      SwitchesOps, OpsTarget, ActionTypes, States, Active, Terminal, Results,
      Verdicts, CleanVerdicts, Snapshots, Effects, Releases, Stages, PCs,
      WorkSteps, CommitSteps, SucceedSteps, FinishSteps, Causes, Procs
<1>1. CASE \E k \in Keys : \E a \in ActionTypes : StartJob(k, a)
  BY <1>1 DEF StartJob, MayStart, ActiveJobs
<1>2. CASE \E k \in Keys : CancelJob(k)
  BY <1>2 DEF CancelJob
<1>3. CASE \E k \in Keys : NextJob(k)
  <2>1. PICK k \in Keys : NextJob(k)
    BY <1>3
  <2> QED BY <2>1 DEF NextJob
<1>4. CASE PickedFlush \/ Dispatch \/ StepFails
  <2>1. CASE PickedFlush
    BY <2>1 DEF PickedFlush
  <2>2. CASE Dispatch
    BY <2>2 DEF Dispatch, FreshRow, HandoffPending
  <2>3. CASE StepFails
    BY <2>3 DEF StepFails, FallibleSteps, CheckedSteps
  <2> QED BY <1>4, <2>1, <2>2, <2>3
<1>5. CASE Preflight \/ Prepare \/ VerifyHandoff \/ ResumeHandoff \/ FinalCheck
  <2>1. CASE Preflight
    BY <2>1 DEF Preflight
  <2>2. CASE Prepare
    BY <2>2 DEF Prepare
  <2>3. CASE VerifyHandoff
    BY <2>3 DEF VerifyHandoff, HandoffTarget
  <2>4. CASE ResumeHandoff
    BY <2>4 DEF ResumeHandoff, HandoffTarget
  <2>5. CASE FinalCheck
    BY <2>5 DEF FinalCheck
  <2> QED BY <1>5, <2>1, <2>2, <2>3, <2>4, <2>5
<1>6. CASE CaptureBaseline \/ MarkMutationStarted
  BY <1>6 DEF CaptureBaseline, MarkMutationStarted, MutationMark
<1>7. CASE WriteBackup \/ Mutate \/ Apply
  BY <1>7 DEF WriteBackup, Mutate, Apply, AfterApply
<1>8. CASE RecordHandoff \/ RequestReexec
  BY <1>8 DEF RecordHandoff, RequestReexec
<1>9. CASE Succeed
  <2>1. CASE CommitWins(job)
    BY <1>9, <2>1 DEF Succeed
  <2>2. CASE ~CommitWins(job)
    BY <1>9, <2>2 DEF Succeed
  <2> QED BY <2>1, <2>2
<1>10. CASE SucceedFlush
  BY <1>10 DEF SucceedFlush, CommitWins
<1>11. CASE Cleanup
  BY <1>11 DEF Cleanup, CommitWins
<1>12. CASE FinishWithoutMutation \/ FinishRolledBack \/ RollbackFails \/
           FinalFlush
  BY <1>12 DEF FinishWithoutMutation, FinishRolledBack, RollbackFails,
     FinalFlush, NeedsRollback
<1>13. CASE RollbackRelease \/ RollbackRestore
  BY <1>13 DEF RollbackRelease, RollbackRestore, NeedsRollback
<1>14. CASE RollbackDiscard \/ RollbackVerify
  BY <1>14 DEF RollbackDiscard, RollbackVerify, FlagAfterRollback
<1>15. CASE EndOfJob \/ WorkerFailed \/ Crash \/ StopRequested \/ StopIdle
  <2>1. CASE EndOfJob
    BY <2>1 DEF EndOfJob
  <2>2. CASE WorkerFailed
    BY <2>2 DEF WorkerFailed
  <2>3. CASE Crash
    BY <2>3 DEF Crash
  <2>4. CASE StopRequested
    BY <2>4 DEF StopRequested
  <2>5. CASE StopIdle
    BY <2>5 DEF StopIdle
  <2> QED BY <1>15, <2>1, <2>2, <2>3, <2>4, <2>5
<1>16. CASE Boot \/ BootReady \/ BootFails
  BY <1>16 DEF Boot, BootReady, BootFails, Interrupted, CompletedMaterial
<1>17. CASE UNCHANGED vars
  BY <1>17 DEF vars
<1> QED BY NextActions, <1>1, <1>2, <1>3, <1>4, <1>5, <1>6, <1>7, <1>8, <1>9,
         <1>10, <1>11, <1>12, <1>13, <1>14, <1>15, <1>16, <1>17

\* Types of the columns.
LEMMA TableTypeOKStep ==
  ASSUME TypeOK, [Next]_vars
  PROVE  TableTypeOK'
<1> USE DEF TypeOK, TableTypeOK
<1>1. actionType' \in [Keys -> ActionTypes]
  BY ActionWriters DEF StartJob
<1>2. /\ state' \in [Keys -> States]
      /\ result' \in [Keys -> Results]
      /\ rollbackObs' \in [Keys -> Verdicts]
      /\ cancelRequested' \in [Keys -> BOOLEAN]
  <2> USE DEF States, Active, Terminal, Results, Verdicts, CleanVerdicts
  <2>1. CASE \E k \in Keys : \E a \in ActionTypes : StartJob(k, a)
    BY <2>1 DEF StartJob
  <2>2. CASE \E k \in Keys : CancelJob(k)
    BY <2>2 DEF CancelJob
  <2>3. CASE \E k \in Keys : NextJob(k)
    BY <2>3 DEF NextJob
  <2>4. CASE Succeed
    BY <2>4 DEF Succeed
  <2>5. CASE FinishWithoutMutation
    BY <2>5 DEF FinishWithoutMutation, Settle
  <2>6. CASE FinishRolledBack \/ RollbackFails
    BY <2>6 DEF FinishRolledBack, RollbackFails, Settle
  <2>7. CASE Boot
    BY <2>7 DEF Boot
  <2>8. CASE UNCHANGED <<state, result, rollbackObs, cancelRequested>>
    BY <2>8
  <2> QED BY <2>1, <2>2, <2>3, <2>4, <2>5, <2>6, <2>7, <2>8, StateWriters
<1>3. captured' \in [Keys -> BOOLEAN] /\ baseline' \in [Keys -> Snapshots]
  <2>1. CASE CaptureBaseline
    <3>1. [effect |-> effect, release |-> release] \in Snapshots
      BY DEF Snapshots, WorldTypeOK
    <3> QED BY <2>1, <3>1 DEF CaptureBaseline
  <2> QED BY <2>1, BaselineWriters
<1>4. stage' \in [Keys -> Stages]
  BY StageWriters DEF MarkMutationStarted, RecordHandoff, Stages
<1>5. mutationStarted' \in [Keys -> BOOLEAN]
  BY MarkWriters DEF MarkMutationStarted, MutationMark
<1> QED BY <1>1, <1>2, <1>3, <1>4, <1>5

-----------------------------------------------------------------------------
(* Which release runs.  IInv follows the release of an unfinished job; what *)
(* follows is about whatever job is at hand, also after it has ended.      *)

\* Before its undo is complete, the job at hand may have selected a release
\* that this process does not run: the thread is on its way to a reexec or out.
OnItsWay ==
  /\ pc # "idle"
  /\ SwitchesOps(job)
  /\ NeedsRollback(job)
  /\ \/ pc \in {"handoffCheck", "handoff", "requestReexec", "finish", "restore",
                "discard", "verify", "crashed"}
     \/ pc \in {"settle", "finalFlush", "done"} /\ reexecFlag
     \/ pc \in {"finalFlush", "done"} /\ result[job] = "rollback_failed"

RunsRelease ==
  /\ \A k \in Keys : result[k] = "rollback_failed" => state[k] = "failed" /\ NeedsRollback(k)
  /\ Alive \/ proc = "booting" =>
       \/ running = release
       \/ \E k \in Keys \ {job} : result[k] = "rollback_failed"
       \/ OnItsWay

\* A failed rollback is the result of a row that needed one, and stays on it
\* unless the same job is rolled back again.
LEMMA FailedRollbackStep ==
  ASSUME IInv, RunsRelease, [Next]_vars, NEW k \in Keys, result'[k] = "rollback_failed"
  PROVE  state'[k] = "failed" /\ NeedsRollback(k)'
<1> USE DEF IInv, TypeOK, TableTypeOK
<1>1. NeedsRollback(k) => NeedsRollback(k)'
  BY Monotone DEF NeedsRollback
<1>2. CASE \E j \in Keys : \E a \in ActionTypes : StartJob(j, a)
  BY <1>1, <1>2 DEF StartJob, MayStart, RunsRelease
<1>3. CASE \E j \in Keys : CancelJob(j)
  BY <1>1, <1>3 DEF CancelJob, RunsRelease
<1>4. CASE \E j \in Keys : NextJob(j)
  BY <1>1, <1>4 DEF NextJob, RunsRelease
<1>5. CASE Succeed
  BY <1>1, <1>5, AtHand DEF Succeed, CommitWins, RunsRelease
<1>6. CASE FinishWithoutMutation \/ FinishRolledBack
  BY <1>1, <1>6, AtHand DEF FinishWithoutMutation, FinishRolledBack, Settle, RunsRelease
<1>7. CASE RollbackFails
  <2>1. job \in Keys /\ NeedsRollback(job)
    BY <1>7, AtHand DEF RollbackFails, ProgramPoints, AfterMark, NeedsRollback
  <2> QED BY <1>1, <1>7, <2>1 DEF RollbackFails, Settle, RunsRelease
<1>8. CASE Boot
  BY <1>1, <1>8 DEF Boot, Interrupted, RunsRelease
<1>9. CASE UNCHANGED <<state, result, rollbackObs, cancelRequested>>
  BY <1>1, <1>9 DEF RunsRelease
<1> QED BY <1>2, <1>3, <1>4, <1>5, <1>6, <1>7, <1>8, <1>9, StateWriters

\* The release that runs, by the step.
RunningIsKept ==
  \/ running = release
  \/ \E k \in Keys \ {job} : result[k] = "rollback_failed"
  \/ OnItsWay

\* Steps of the thread that keep its job, the rows' verdicts and the release.
LEMMA OnTheWayStep ==
  ASSUME IInv, RunningIsKept, UNCHANGED <<running, release, result, actionType, captured,
                                          mutationStarted, job>>,
         OnItsWay => OnItsWay'
  PROVE  RunningIsKept'
<1>1. CASE running = release
  BY <1>1 DEF RunningIsKept
<1>2. CASE \E k \in Keys \ {job} : result[k] = "rollback_failed"
  BY <1>2 DEF RunningIsKept
<1>3. CASE OnItsWay
  BY <1>3 DEF RunningIsKept
<1> QED BY <1>1, <1>2, <1>3 DEF RunningIsKept

LEMMA RunsReleaseStep ==
  ASSUME IInv, RunsRelease, [Next]_vars
  PROVE  RunsRelease'
<1> USE DEF IInv, TypeOK, TableTypeOK, SwitchesOps
<1> SUFFICES ASSUME (Alive \/ proc = "booting")' PROVE RunningIsKept'
  BY FailedRollbackStep DEF RunsRelease, RunningIsKept
<1>a. ASSUME Alive \/ proc = "booting" PROVE RunningIsKept
  BY <1>a DEF RunsRelease, RunningIsKept
<1>b. \A k \in Keys : result[k] = "rollback_failed" => state[k] = "failed"
  BY DEF RunsRelease
<1>1. CASE \E k \in Keys : \E a \in ActionTypes : StartJob(k, a)
  <2>1. PICK k \in Keys, a \in ActionTypes : StartJob(k, a)
    BY <1>1
  <2>2. /\ UNCHANGED <<running, release, result, captured, mutationStarted, reexecFlag, execVars>>
        /\ RunningIsKept /\ state[k] = "absent" /\ actionType' = [actionType EXCEPT ![k] = a]
    BY <2>1, <1>a DEF StartJob, MayStart, prodVars, procVars
  <2>3. OnItsWay => k # job
    BY <2>2 DEF OnItsWay, NeedsRollback, Rows
  <2>4. OnItsWay => OnItsWay'
    BY <2>2, <2>3, AtHand DEF OnItsWay, NeedsRollback, execVars
  <2> QED BY <2>2, <2>4 DEF RunningIsKept, execVars
<1>2. CASE \E k \in Keys : CancelJob(k)
  <2>1. PICK k \in Keys : CancelJob(k)
    BY <1>2
  <2>2. /\ UNCHANGED <<running, release, captured, mutationStarted, actionType, reexecFlag, execVars>>
        /\ RunningIsKept /\ state[k] # "failed"
        /\ \A j \in Keys : j # k => result'[j] = result[j]
    BY <2>1, <1>a DEF CancelJob, prodVars, procVars
  <2>3. \A j \in Keys : result[j] = "rollback_failed" => result'[j] = "rollback_failed"
    BY <1>b, <2>2
  <2> QED BY <2>2, <2>3, AtHand DEF RunningIsKept, OnItsWay, NeedsRollback, execVars
<1>3. CASE \E k \in Keys : NextJob(k)
  <2>1. PICK k \in Keys : NextJob(k)
    BY <1>3
  <2>2. /\ UNCHANGED <<running, release, result>> /\ RunningIsKept /\ ~OnItsWay
        /\ job' = k /\ state[k] # "failed"
    BY <2>1, <1>a DEF NextJob, prodVars, procVars, Alive, OnItsWay
  <2> QED BY <1>b, <2>2 DEF RunningIsKept
<1>4. CASE PickedFlush \/ Dispatch \/ StepFails
  <2>1. /\ UNCHANGED <<running, release, result, actionType, captured, mutationStarted, job,
                       reexecFlag>>
        /\ RunningIsKept /\ pc' # "idle"
        /\ pc \in {"handoffCheck", "handoff", "requestReexec"} => pc' = "finish"
        /\ pc \in {"picked", "dispatch"} \cup FallibleSteps
    BY <1>4, <1>a
    DEF PickedFlush, Dispatch, StepFails, Goto, Raise, table, prodVars, procVars, FallibleSteps,
        CheckedSteps
  <2>2. OnItsWay => OnItsWay'
    BY <2>1 DEF OnItsWay, NeedsRollback, FallibleSteps, CheckedSteps
  <2> QED BY <2>1, <2>2, OnTheWayStep
<1>5. CASE Preflight \/ Prepare \/ CaptureBaseline \/ MarkMutationStarted \/ WriteBackup
           \/ Mutate \/ ResumeHandoff \/ FinalCheck \/ Cleanup
  <2>1. /\ UNCHANGED <<running, release, result, job>> /\ RunningIsKept /\ ~OnItsWay
    BY <1>5, <1>a
    DEF Preflight, Prepare, CaptureBaseline, MarkMutationStarted, WriteBackup, Mutate,
        ResumeHandoff, FinalCheck, Cleanup, Goto, table, prodVars, procVars, OnItsWay
  <2> QED BY <2>1 DEF RunningIsKept
<1>6. CASE Apply
  <2>1. /\ UNCHANGED <<running, result, job>> /\ RunningIsKept /\ ~OnItsWay
    BY <1>6, <1>a DEF Apply, Goto, table, procVars, OnItsWay
  <2>2. CASE SwitchesOps(job)
    <3>1. /\ pc' = "handoffCheck" /\ UNCHANGED <<actionType, captured, mutationStarted>>
          /\ NeedsRollback(job)
      BY <1>6, <2>2
      DEF Apply, Goto, AfterApply, table, ProgramPoints, AfterMark, NeedsRollback
    <3> QED BY <2>1, <2>2, <3>1 DEF RunningIsKept, OnItsWay, NeedsRollback
  <2>3. CASE ~SwitchesOps(job)
    BY <1>6, <2>1, <2>3 DEF Apply, RunningIsKept
  <2> QED BY <2>2, <2>3
<1>7. CASE VerifyHandoff \/ RecordHandoff \/ RequestReexec
  <2>1. /\ UNCHANGED <<running, release, result, actionType, captured, mutationStarted, job>>
        /\ RunningIsKept
        /\ \/ pc' \in {"handoff", "requestReexec"}
           \/ pc' = "done" /\ reexecFlag'
    BY <1>7, <1>a
    DEF VerifyHandoff, RecordHandoff, RequestReexec, Goto, table, prodVars, procVars
  <2>2. OnItsWay => OnItsWay'
    BY <2>1 DEF OnItsWay, NeedsRollback
  <2> QED BY <2>1, <2>2, OnTheWayStep
<1>8. CASE Succeed
  <2>1. /\ UNCHANGED <<running, release, job>> /\ RunningIsKept /\ ~OnItsWay
        /\ \A k \in Keys : k # job => result'[k] = result[k]
    BY <1>8, <1>a DEF Succeed, Goto, Raise, prodVars, procVars, OnItsWay
  <2> QED BY <2>1 DEF RunningIsKept
<1>9. CASE SucceedFlush
  <2>1. /\ UNCHANGED <<running, release, result, job>> /\ RunningIsKept /\ ~OnItsWay
    BY <1>9, <1>a DEF SucceedFlush, Goto, Raise, table, prodVars, procVars, OnItsWay
  <2> QED BY <2>1 DEF RunningIsKept
<1>10. CASE FinishWithoutMutation
  <2>1. /\ UNCHANGED <<running, release, job>> /\ RunningIsKept /\ ~OnItsWay
        /\ \A k \in Keys : k # job => result'[k] = result[k]
    BY <1>10, <1>a DEF FinishWithoutMutation, Settle, Goto, prodVars, procVars, OnItsWay
  <2> QED BY <2>1 DEF RunningIsKept
<1>11. CASE RollbackRelease
  <2>1. /\ UNCHANGED <<running, result, job, actionType, captured, mutationStarted>>
        /\ RunningIsKept /\ NeedsRollback(job) /\ pc' = "restore"
    BY <1>11, <1>a DEF RollbackRelease, Goto, table, procVars
  <2>2. CASE SwitchesOps(job)
    BY <2>1, <2>2 DEF RunningIsKept, OnItsWay, NeedsRollback
  <2>3. CASE ~SwitchesOps(job)
    BY <1>11, <2>1, <2>3 DEF RollbackRelease, RunningIsKept, OnItsWay, NeedsRollback
  <2> QED BY <2>2, <2>3
<1>12. CASE RollbackRestore \/ RollbackDiscard \/ RollbackVerify
  <2>1. /\ UNCHANGED <<running, release, result, actionType, captured, mutationStarted, job>>
        /\ RunningIsKept
        /\ \/ pc' \in {"discard", "verify"}
           \/ pc' = "settle" /\ (SwitchesOps(job) => reexecFlag')
    BY <1>12, <1>a
    DEF RollbackRestore, RollbackDiscard, RollbackVerify, Goto, FlagAfterRollback, table,
        prodVars, procVars
  <2>2. OnItsWay => OnItsWay'
    BY <2>1 DEF OnItsWay, NeedsRollback
  <2> QED BY <2>1, <2>2, OnTheWayStep
<1>13. CASE FinishRolledBack \/ RollbackFails
  <2>1. /\ UNCHANGED <<running, release, reexecFlag, job, actionType, captured, mutationStarted>>
        /\ RunningIsKept /\ pc' = "finalFlush" /\ job \in Keys
        /\ \A k \in Keys : k # job => result'[k] = result[k]
        /\ pc # "settle" => result'[job] = "rollback_failed"
        /\ pc \notin {"finalFlush", "done"}
    BY <1>13, <1>a, AtHand
    DEF FinishRolledBack, RollbackFails, Settle, Goto, prodVars, procVars
  <2> QED BY <2>1 DEF RunningIsKept, OnItsWay, NeedsRollback
<1>14. CASE FinalFlush
  <2>1. /\ UNCHANGED <<running, release, result, actionType, captured, mutationStarted, job,
                       reexecFlag>>
        /\ RunningIsKept /\ pc = "finalFlush" /\ pc' \in {"done", "finish", "crashed"}
    BY <1>14, <1>a DEF FinalFlush, Goto, Raise, table, prodVars, procVars
  <2>2. OnItsWay => OnItsWay'
    BY <2>1 DEF OnItsWay, NeedsRollback
  <2> QED BY <2>1, <2>2, OnTheWayStep
<1>15. CASE EndOfJob
  <2>1. /\ UNCHANGED <<running, release, result>> /\ RunningIsKept /\ job' = NoJob
        /\ pc = "done" /\ ~reexecFlag /\ job \in Keys
    BY <1>15, <1>a, AtHand DEF EndOfJob, ThreadIdle, table, prodVars, Alive
  <2>2. CASE running = release
    BY <2>1, <2>2 DEF RunningIsKept
  <2>3. CASE \E k \in Keys : result[k] = "rollback_failed"
    BY <2>1, <2>3, KeysAssumption DEF RunningIsKept
  <2> QED BY <2>1, <2>2, <2>3 DEF RunningIsKept, OnItsWay
<1>16. CASE WorkerFailed \/ Crash \/ StopIdle \/ BootFails
  BY <1>16 DEF WorkerFailed, Crash, StopIdle, BootFails, Alive
<1>17. CASE StopRequested \/ BootReady
  <2>1. /\ UNCHANGED <<running, release, result, actionType, captured, mutationStarted, job, pc,
                       reexecFlag>>
        /\ RunningIsKept
    BY <1>17, <1>a DEF StopRequested, BootReady, table, prodVars, execVars, Alive
  <2> QED BY <2>1, OnTheWayStep DEF OnItsWay, NeedsRollback
<1>18. CASE Boot
  BY <1>18 DEF Boot, prodVars, RunningIsKept
<1>19. CASE UNCHANGED vars
  <2>1. UNCHANGED <<running, release, result, actionType, captured, mutationStarted, job, pc,
                    reexecFlag, proc>>
    BY <1>19 DEF vars, table, prodVars, procVars, execVars
  <2> QED BY <2>1, <1>a, OnTheWayStep DEF OnItsWay, NeedsRollback, Alive
<1> QED BY NextActions, <1>1, <1>2, <1>3, <1>4, <1>5, <1>6, <1>7, <1>8, <1>9, <1>10, <1>11,
           <1>12, <1>13, <1>14, <1>15, <1>16, <1>17, <1>18, <1>19

-----------------------------------------------------------------------------
(* Theorems *)

\* An empty table and a fresh process satisfy the invariant.
LEMMA InitIInv == Init => IInv
<1> SUFFICES ASSUME Init PROVE IInv
  OBVIOUS
<1> USE DEF Init
<1>1. TableTypeOK
  BY DEF TableTypeOK, ActionTypes, States, Active, Terminal, Results, Verdicts,
         CleanVerdicts, Snapshots, Effects, Releases, Stages
<1>2. WorldTypeOK /\ ThreadTypeOK /\ BoundsTypeOK
  <2>1. WorldTypeOK
    BY DEF WorldTypeOK, Effects, Releases, Procs
  <2>2. ThreadTypeOK
    BY DEF ThreadTypeOK, PCs, Causes
  <2>3. BoundsTypeOK
    BY BoundsAssumption DEF BoundsTypeOK
  <2> QED BY <2>1, <2>2, <2>3
<1>3. WriteAhead /\ CancelExcludesSuccess /\ VerdictTruthful /\ SuccessIsApplied
  BY DEF WriteAhead, CancelExcludesSuccess, VerdictTruthful, SuccessIsApplied,
         CleanVerdicts
<1>4. ProgramPoints /\ Rows /\ Material
  BY DEF ProgramPoints, Rows, Material, BeforeCapture, AfterCapture, AfterMark,
         HandoffPath, AfterBackup, Restored, Active
<1>5. Lifecycle
  BY DEF Lifecycle, Alive, Uncommitted, WorkSteps, FinishSteps, ActiveJobs, Active
<1>6. Baselines
  BY DEF Baselines, Unfinished
<1>7. Selected /\ Handoff
  BY KeysAssumption
  DEF Selected, Handoff, Applied, Unselected, HandoffPath, ActiveJobs, Active,
      Alive
<1> QED BY <1>1, <1>2, <1>3, <1>4, <1>5, <1>6, <1>7 DEF IInv, TypeOK

\* Every step preserves it, part by part.
LEMMA StepIInv == IInv /\ [Next]_vars => IInv'
<1> SUFFICES ASSUME IInv, [Next]_vars PROVE IInv'
  OBVIOUS
<1>1. TypeOK'
  BY TableTypeOKStep, WorldTypeOKStep, ThreadTypeOKStep, BoundsTypeOKStep
  DEF TypeOK, IInv
<1> QED
  BY <1>1, WriteAheadStep, CancelExcludesSuccessStep, VerdictTruthfulStep,
     SuccessIsAppliedStep, ProgramPointsStep, RowsStep, LifecycleStep,
     BaselinesStep, MaterialStep, SelectedStep, HandoffStep
  DEF IInv

\* The inductive invariant holds in every reachable state.
THEOREM Inductive == Spec => []IInv
  BY InitIInv, StepIInv, PTL DEF Spec

\* Every variable keeps its type, whatever the keys and the bounds.
THEOREM TypeCorrect == Spec => []TypeOK
  BY Inductive, PTL DEF IInv

\* Production never carries a trace of a job whose baseline and mutation mark
\* are not in the table.
THEOREM WriteAheadHolds == Spec => []WriteAhead
  BY Inductive, PTL DEF IInv

\* No job is both cancelled on request and successful.
THEOREM CancelExcludesSuccessHolds == Spec => []CancelExcludesSuccess
  BY Inductive, PTL DEF IInv

\* A row that reports a verified or unnecessary rollback left nothing behind.
THEOREM VerdictTruthfulHolds == Spec => []VerdictTruthful
  BY Inductive, PTL DEF IInv

\* Without a failed flush, a successful job is wholly in effect for good.
THEOREM SuccessIsAppliedHolds == Spec => []SuccessIsApplied
  BY Inductive, PTL DEF IInv

\* An unfinished rotation that touched production still has its backup.
THEOREM RecoveryMaterialKeptHolds == Spec => []RecoveryMaterialKept
<1>1. IInv => RecoveryMaterialKept
  BY DEF IInv, Material, RecoveryMaterialKept
<1> QED BY <1>1, Inductive, PTL

\* A step changes production for no job but the one at hand.
THEOREM OthersUntouchedHolds == Spec => OthersUntouched
<1>1. ASSUME IInv, [Next]_vars, NEW k \in Keys, effect'[k] # effect[k]
      PROVE  k = job
  <2>1. Mutate \/ Apply \/ RollbackRelease \/ RollbackRestore
    BY <1>1, EffectWriters
  <2>2. job \in Keys
    <3>1. pc # "idle"
      BY <2>1 DEF Mutate, Apply, RollbackRelease, RollbackRestore
    <3> QED BY <1>1, <3>1, AtHand DEF IInv
  <2>3. CASE Mutate \/ Apply \/ RollbackRelease
    BY <1>1, <2>2, <2>3 DEF Mutate, Apply, RollbackRelease, IInv, TypeOK, WorldTypeOK
  <2>4. CASE RollbackRestore
    BY <1>1, <2>2, <2>4
    DEF RollbackRestore, IInv, ProgramPoints, AfterMark, Baselines, Unfinished
  <2> QED BY <2>1, <2>3, <2>4
<1>2. IInv /\ [Next]_vars => [\A k \in Keys : effect'[k] # effect[k] => k = job]_vars
  BY <1>1
<1> QED BY <1>2, Inductive, PTL DEF Spec, OthersUntouched

\* Without a failed flush, a terminal row never changes.
THEOREM TerminalIsFinalHolds == Spec => TerminalIsFinal
<1>1. ASSUME IInv, [Next]_vars, faults' = 0, NEW k \in Keys, state[k] \in Terminal
      PROVE  state'[k] = state[k] /\ result'[k] = result[k]
  <2> USE DEF IInv, TypeOK, TableTypeOK, Terminal, Lifecycle
  <2>1. CASE \E j \in Keys : \E a \in ActionTypes : StartJob(j, a)
    BY <1>1, <2>1 DEF StartJob, MayStart
  <2>2. CASE \E j \in Keys : CancelJob(j) \/ NextJob(j)
    BY <1>1, <2>2 DEF CancelJob, NextJob
  <2>3. CASE Succeed
    BY <1>1, <2>3, AtHand DEF Succeed, CommitWins
  <2>4. CASE FinishWithoutMutation \/ FinishRolledBack \/ RollbackFails
    <3>1. faults = 0 /\ pc \in FinishSteps /\ job \in Keys
      BY <1>1, <2>4, AtHand DEF FinishWithoutMutation, FinishRolledBack,
         RollbackFails, FinishSteps, bounds
    <3>2. k # job
      BY <1>1, <3>1 DEF InProgress
    <3> QED BY <1>1, <2>4, <3>1, <3>2
            DEF FinishWithoutMutation, FinishRolledBack, RollbackFails, Settle
  <2>5. CASE Boot
    BY <1>1, <2>5 DEF Boot, Interrupted
  <2>6. CASE UNCHANGED <<state, result, rollbackObs, cancelRequested>>
    BY <2>6
  <2> QED BY <1>1, <2>1, <2>2, <2>3, <2>4, <2>5, <2>6, StateWriters
<1>2. IInv /\ [Next]_vars
        => [faults' = 0 => \A k \in Keys :
              state[k] \in Terminal => state'[k] = state[k] /\ result'[k] = result[k]]_vars
  BY <1>1
<1> QED BY <1>2, Inductive, PTL DEF Spec, TerminalIsFinal

\* An upgrade or a rollback of the worker is committed by a process that runs
\* the release it selected.
THEOREM HandoffByNewWorkerHolds == Spec => HandoffByNewWorker
<1>1. ASSUME IInv, [Next]_vars, NEW k \in Keys, SwitchesOps(k),
             state[k] # "succeeded", state'[k] = "succeeded"
      PROVE  running = OpsTarget(k)
  <2> USE DEF IInv, TypeOK, TableTypeOK
  <2>1. Succeed /\ k = job
    <3>1. CASE \E j \in Keys : \E a \in ActionTypes : StartJob(j, a)
      BY <1>1, <3>1 DEF StartJob
    <3>2. CASE \E j \in Keys : CancelJob(j) \/ NextJob(j)
      BY <1>1, <3>2 DEF CancelJob, NextJob
    <3>3. CASE Succeed
      BY <1>1, <3>3, AtHand DEF Succeed
    <3>4. CASE FinishWithoutMutation \/ FinishRolledBack \/ RollbackFails
      BY <1>1, <3>4, AtHand
      DEF FinishWithoutMutation, FinishRolledBack, RollbackFails, Settle
    <3>5. CASE Boot
      BY <1>1, <3>5 DEF Boot
    <3>6. CASE UNCHANGED <<state, result, rollbackObs, cancelRequested>>
      BY <1>1, <3>6
    <3> QED BY <1>1, <3>1, <3>2, <3>3, <3>4, <3>5, <3>6, StateWriters
  <2> QED BY <1>1, <2>1 DEF Succeed, Handoff
<1>2. IInv /\ [Next]_vars
        => [\A k \in Keys :
              SwitchesOps(k) /\ state[k] # "succeeded"
                /\ state'[k] = "succeeded" => running = OpsTarget(k)]_vars
  BY <1>1
<1> QED BY <1>2, Inductive, PTL DEF Spec, HandoffByNewWorker

\* A worker that waits for jobs runs the release the symlink selects, unless a
\* rollback has failed.
THEOREM RunsSelectedReleaseHolds == Spec => []RunsSelectedRelease
<1>1. Init => IInv /\ RunsRelease
  <2>1. Init => RunsRelease
    BY DEF Init, RunsRelease
  <2> QED BY <2>1, InitIInv
<1>2. IInv /\ RunsRelease /\ [Next]_vars => (IInv /\ RunsRelease)'
  BY StepIInv, RunsReleaseStep
<1>3. RunsRelease => RunsSelectedRelease
  BY DEF RunsRelease, RunsSelectedRelease, OnItsWay, Alive
<1> QED BY <1>1, <1>2, <1>3, PTL DEF Spec

-----------------------------------------------------------------------------
(* The worker implements OpsJobSpec.  A step either moves the phase of one *)
(* job or of none.  Jobs that are neither at hand nor named by a request   *)
(* are bystanders: their phase and effect stay.  What is left is one case  *)
(* per action, about the job at hand; it needs, besides IInv, what perform *)
(* has already done to the row and to production at each of its points.    *)

\* How far perform has come, in the row and in production.
Stepwise ==
  /\ pc \in {"perform", "mark"} => ~mutationStarted[job]
  /\ pc \in {"backup", "mutate"} => effect[job] = "none"
  /\ pc = "apply" => effect[job] = "partial"
  /\ pc \in {"backup", "mutate", "apply", "handoffCheck", "handoff"}
       => stage[job] = "mutation_started"
  /\ pc = "resume" => stage[job] = "worker_handoff_pending"

\* perform is not entered twice, and nothing but perform writes in between.
LEMMA StepwiseStep ==
  ASSUME IInv, Stepwise, [Next]_vars
  PROVE  Stepwise'
<1> USE AtHand DEF IInv, TypeOK, TableTypeOK, Stepwise
<1>1. CASE \E k \in Keys : \E a \in ActionTypes : StartJob(k, a)
  BY <1>1 DEF StartJob, prodVars, execVars
<1>2. CASE \E k \in Keys : CancelJob(k)
  BY <1>2 DEF CancelJob, prodVars, execVars
<1>3. CASE \E k \in Keys : NextJob(k)
  BY <1>3 DEF NextJob
<1>4. CASE PickedFlush \/ StepFails
  BY <1>4 DEF PickedFlush, StepFails, Goto, Raise
<1>5. CASE Dispatch
  BY <1>5 DEF Dispatch, HandoffPending, Goto, table, prodVars
<1>6. CASE Preflight \/ Prepare \/ VerifyHandoff
  BY <1>6 DEF Preflight, Prepare, VerifyHandoff, Goto, table, prodVars
<1>7. CASE CaptureBaseline
  BY <1>7 DEF CaptureBaseline, Goto, prodVars, ProgramPoints, BeforeCapture, Rows
<1>8. CASE MarkMutationStarted
  <2>1. job \in Keys /\ effect[job] = "none"
    BY <1>8, KeysAssumption DEF MarkMutationStarted, WriteAhead
  <2> QED BY <1>8, <2>1 DEF MarkMutationStarted, MutationMark, Goto, prodVars
<1>9. CASE WriteBackup \/ Mutate \/ Apply
  <2>1. job \in Keys
    BY <1>9 DEF WriteBackup, Mutate, Apply
  <2> QED BY <1>9, <2>1 DEF WriteBackup, Mutate, Apply, AfterApply, Goto, table, WorldTypeOK
<1>10. CASE RecordHandoff \/ RequestReexec
  BY <1>10 DEF RecordHandoff, RequestReexec, Goto
<1>11. CASE ResumeHandoff \/ FinalCheck \/ Succeed \/ SucceedFlush \/ Cleanup
  BY <1>11 DEF ResumeHandoff, FinalCheck, Succeed, SucceedFlush, Cleanup, Goto, Raise
<1>12. CASE FinishWithoutMutation \/ FinishRolledBack \/ RollbackFails \/ FinalFlush
  BY <1>12 DEF FinishWithoutMutation, FinishRolledBack, RollbackFails, Settle, FinalFlush,
     Goto, Raise
<1>13. CASE RollbackRelease \/ RollbackRestore \/ RollbackDiscard \/ RollbackVerify
  BY <1>13 DEF RollbackRelease, RollbackRestore, RollbackDiscard, RollbackVerify, Goto
<1>14. CASE EndOfJob \/ WorkerFailed \/ Crash
  BY <1>14 DEF EndOfJob, WorkerFailed, Crash, ThreadIdle
<1>15. CASE StopRequested \/ StopIdle \/ BootReady \/ BootFails
  BY <1>15 DEF StopRequested, StopIdle, BootReady, BootFails, table, prodVars, execVars
<1>16. CASE Boot
  BY <1>16 DEF Boot, prodVars, execVars
<1>17. CASE UNCHANGED vars
  BY <1>17 DEF vars, table, prodVars, execVars
<1> QED BY NextActions, <1>1, <1>2, <1>3, <1>4, <1>5, <1>6, <1>7, <1>8, <1>9, <1>10, <1>11,
         <1>12, <1>13, <1>14, <1>15, <1>16, <1>17

-----------------------------------------------------------------------------
(* Phases *)

\* The phase of a row, by what the row says.
PhaseTable == \A k \in Keys :
  /\ state[k] = "absent" => Phase(k) = "unknown"
  /\ state[k] \in Active => Phase(k) \in Jobs!Open
  /\ state[k] \in Terminal => Phase(k) \notin Jobs!Open
  /\ state[k] \in Active /\ ~NeedsRollback(k) => Phase(k) = "waiting"
  /\ state[k] \in Active /\ NeedsRollback(k) =>
       /\ HandedOff(k) => Phase(k) = "handedOff"
       /\ ~HandedOff(k) /\ Performing(k) => Phase(k) = "working"
       /\ ~HandedOff(k) /\ ~Performing(k) => Phase(k) = "recovering"
  /\ state[k] = "succeeded" => Phase(k) = "succeeded"
  /\ state[k] \in {"failed", "cancelled"} =>
       /\ rollbackObs[k] = "operator_attention_required" => Phase(k) = "attention"
       /\ rollbackObs[k] \in {"not_required", "failed_closed", "verified"} =>
            Phase(k) = "undone"
  /\ state[k] = "cancelled" /\ rollbackObs[k] = "none" =>
       /\ NeedsRollback(k) => Phase(k) = "abandoned"
       /\ ~NeedsRollback(k) => Phase(k) = "undone"

LEMMA PhaseFacts == PhaseTable
<1> SUFFICES ASSUME NEW k \in Keys
             PROVE  PhaseTable!(k)
  BY DEF PhaseTable
<1>1. CASE state[k] = "absent"
  BY <1>1 DEF Phase, Active, Terminal
<1>2. CASE state[k] \in Active
  <2>1. Phase(k) = OpenPhase(k) /\ state[k] \notin Terminal \cup {"absent"}
    BY <1>2 DEF Phase, Active, Terminal
  <2>2. CASE ~NeedsRollback(k)
    BY <1>2, <2>1, <2>2 DEF OpenPhase, Jobs!Open, Terminal
  <2>3. CASE NeedsRollback(k) /\ HandedOff(k)
    BY <1>2, <2>1, <2>3 DEF OpenPhase, Jobs!Open, Terminal
  <2>4. CASE NeedsRollback(k) /\ ~HandedOff(k) /\ Performing(k)
    BY <1>2, <2>1, <2>4 DEF OpenPhase, Jobs!Open, Terminal
  <2>5. CASE NeedsRollback(k) /\ ~HandedOff(k) /\ ~Performing(k)
    BY <1>2, <2>1, <2>5 DEF OpenPhase, Jobs!Open, Terminal
  <2> QED BY <2>2, <2>3, <2>4, <2>5
<1>3. CASE state[k] \notin Active \cup {"absent"}
  <2>1. Phase(k) = ClosedPhase(k)
    BY <1>3 DEF Phase
  <2>2. CASE state[k] = "succeeded"
    BY <1>3, <2>1, <2>2 DEF ClosedPhase, Jobs!Open
  <2>3. CASE state[k] # "succeeded" /\ rollbackObs[k] = "operator_attention_required"
    BY <1>3, <2>1, <2>3 DEF ClosedPhase, Jobs!Open
  <2>4. CASE /\ state[k] # "succeeded" /\ rollbackObs[k] # "operator_attention_required"
             /\ state[k] = "cancelled" /\ rollbackObs[k] = "none" /\ NeedsRollback(k)
    <3>1. Phase(k) = "abandoned"
      BY <2>1, <2>4 DEF ClosedPhase
    <3> QED BY <1>3, <2>4, <3>1 DEF Jobs!Open
  <2>5. CASE /\ state[k] # "succeeded" /\ rollbackObs[k] # "operator_attention_required"
             /\ ~(state[k] = "cancelled" /\ rollbackObs[k] = "none" /\ NeedsRollback(k))
    <3>1. Phase(k) = "undone"
      BY <2>1, <2>5 DEF ClosedPhase
    <3> QED BY <1>3, <2>5, <3>1 DEF Jobs!Open
  <2> QED BY <2>2, <2>3, <2>4, <2>5
<1> QED BY <1>1, <1>2, <1>3

LEMMA NextPhaseFacts == PhaseTable'
  BY PhaseFacts, PTL
\* The phase of a row that nobody touches depends on the thread only while its
\* mutation goes on.
LEMMA SamePhase ==
  ASSUME NEW k \in Keys, Performing(k)' <=> Performing(k),
         state'[k] = state[k], rollbackObs'[k] = rollbackObs[k], captured'[k] = captured[k],
         mutationStarted'[k] = mutationStarted[k], actionType'[k] = actionType[k],
         stage'[k] = stage[k], effect'[k] = effect[k]
  PROVE  Phase(k)' = Phase(k)
<1>1. (NeedsRollback(k)' <=> NeedsRollback(k)) /\ (HandedOff(k)' <=> HandedOff(k))
  BY DEF NeedsRollback, HandedOff, HandoffPending, SwitchesOps
<1> QED BY <1>1 DEF Phase, OpenPhase, ClosedPhase

-----------------------------------------------------------------------------
(* Steps that move no phase, and steps that move one *)

LEMMA StandsStill ==
  ASSUME \A k \in Keys : Phase(k)' = Phase(k), effect' = effect
  PROVE  UNCHANGED Jobs!vars
  BY DEF Jobs!vars

LEMMA OneMoves ==
  ASSUME NEW k \in Keys, \A j \in Keys \ {k} : Phase(j)' = Phase(j),
         NEW from, Phase(k) \in from, NEW to, Phase(k)' = to
  PROVE  Jobs!Move(k, from, to)
  BY DEF Jobs!Move

\* A job that is neither at hand nor named by a request.
LEMMA Bystander ==
  ASSUME IInv, [Next]_vars, NEW k \in Keys, k # job, ~CancelJob(k),
         \A a \in ActionTypes : ~StartJob(k, a)
  PROVE  Phase(k)' = Phase(k) /\ effect'[k] = effect[k]
<1> USE DEF IInv, TypeOK, TableTypeOK
<1>1. effect'[k] = effect[k]
  <2>1. CASE Mutate \/ Apply \/ RollbackRelease \/ RollbackRestore
    <3>1. job \in Keys
      BY <2>1, AtHand DEF Mutate, Apply, RollbackRelease, RollbackRestore
    <3>2. CASE Mutate \/ Apply \/ RollbackRelease
      BY <3>1, <3>2 DEF Mutate, Apply, RollbackRelease, WorldTypeOK
    <3>3. CASE RollbackRestore
      BY <3>1, <3>3 DEF RollbackRestore, ProgramPoints, AfterMark, Baselines, Unfinished
    <3> QED BY <2>1, <3>2, <3>3
  <2> QED BY <2>1, EffectWriters
<1>2. captured'[k] = captured[k] /\ mutationStarted'[k] = mutationStarted[k]
      /\ stage'[k] = stage[k] /\ actionType'[k] = actionType[k]
  <2>1. captured'[k] = captured[k]
    <3>1. CASE CaptureBaseline
      BY <3>1 DEF CaptureBaseline
    <3> QED BY <3>1, BaselineWriters
  <2>2. mutationStarted'[k] = mutationStarted[k]
    <3>1. CASE MarkMutationStarted
      BY <3>1 DEF MarkMutationStarted, MutationMark
    <3> QED BY <3>1, MarkWriters
  <2>3. stage'[k] = stage[k]
    BY StageWriters DEF MarkMutationStarted, RecordHandoff
  <2>4. actionType'[k] = actionType[k]
    BY ActionWriters DEF StartJob
  <2> QED BY <2>1, <2>2, <2>3, <2>4
<1>3. ~Performing(k) /\ ~Performing(k)'
  BY ThreadSteps DEF Performing, NextJob, execVars
<1>4. rollbackObs'[k] = rollbackObs[k] /\ (state'[k] # state[k] => NextJob(k) \/ Boot)
  <2>1. CASE \E j \in Keys : \E a \in ActionTypes : StartJob(j, a)
    BY <2>1 DEF StartJob
  <2>2. CASE \E j \in Keys : CancelJob(j)
    BY <2>2 DEF CancelJob
  <2>3. CASE \E j \in Keys : NextJob(j)
    BY <2>3 DEF NextJob
  <2>4. CASE Succeed
    BY <2>4 DEF Succeed
  <2>5. CASE FinishWithoutMutation \/ FinishRolledBack \/ RollbackFails
    BY <2>5 DEF FinishWithoutMutation, FinishRolledBack, RollbackFails, Settle
  <2>6. CASE Boot
    BY <2>6 DEF Boot
  <2>7. CASE UNCHANGED <<state, result, rollbackObs, cancelRequested>>
    BY <2>7
  <2> QED BY <2>1, <2>2, <2>3, <2>4, <2>5, <2>6, <2>7, StateWriters
<1>5. state'[k] = state[k] \/ (state[k] \in Active /\ state'[k] \in Active)
  BY <1>4 DEF NextJob, Boot, Interrupted, Active
<1>6. CASE state'[k] = state[k]
  BY <1>1, <1>2, <1>3, <1>4, <1>6, SamePhase
<1>7. CASE state[k] \in Active /\ state'[k] \in Active
  <2>1. (NeedsRollback(k)' <=> NeedsRollback(k)) /\ (HandedOff(k)' <=> HandedOff(k))
    BY <1>1, <1>2 DEF NeedsRollback, HandedOff, HandoffPending, SwitchesOps
  <2>2. state[k] # "absent" /\ state'[k] # "absent"
    BY <1>7 DEF Active
  <2>3. OpenPhase(k)' = OpenPhase(k)
    BY <1>3, <2>1 DEF OpenPhase
  <2>4. Phase(k) = OpenPhase(k)
    BY <1>7, <2>2 DEF Phase
  <2>5. Phase(k)' = OpenPhase(k)'
    BY <1>7, <2>2 DEF Phase
  <2> QED BY <1>1, <2>3, <2>4, <2>5
<1> QED BY <1>1, <1>5, <1>6, <1>7

\* A step of the thread concerns the job it holds and no other.
LEMMA ThreadStep ==
  ASSUME IInv, [Next]_vars, pc' # pc
  PROVE  \A k \in Keys \ {job} : Phase(k)' = Phase(k) /\ effect'[k] = effect[k]
<1> SUFFICES ASSUME NEW k \in Keys \ {job}
             PROVE  Phase(k)' = Phase(k) /\ effect'[k] = effect[k]
  OBVIOUS
<1>1. ~CancelJob(k) /\ \A a \in ActionTypes : ~StartJob(k, a)
  BY DEF CancelJob, StartJob, execVars
<1> QED BY <1>1, Bystander

\* It leaves the phase of that job,
LEMMA JobStands ==
  ASSUME IInv, [Next]_vars, pc' # pc, NEW k \in Keys, k = job,
         Phase(k)' = Phase(k), effect' = effect
  PROVE  UNCHANGED Jobs!vars
  BY ThreadStep, StandsStill

\* or moves it.
LEMMA JobMoves ==
  ASSUME IInv, [Next]_vars, pc' # pc, NEW k \in Keys, k = job,
         NEW from, Phase(k) \in from, NEW to, Phase(k)' = to
  PROVE  Jobs!Move(k, from, to)
  BY ThreadStep, OneMoves

-----------------------------------------------------------------------------
(* One lemma per group of actions *)

AbstractStep == Jobs!Next \/ UNCHANGED Jobs!vars

LEMMA RequestSteps ==
  ASSUME IInv, [Next]_vars,
         \/ \E k \in Keys : \E a \in ActionTypes : StartJob(k, a)
         \/ \E k \in Keys : CancelJob(k)
  PROVE  AbstractStep
<1> USE DEF IInv, TypeOK, TableTypeOK
<1>1. ASSUME NEW k \in Keys, NEW a \in ActionTypes, StartJob(k, a)
      PROVE  Jobs!Accept(k)
  <2>1. \A j \in Keys \ {k} : Phase(j)' = Phase(j)
    <3> SUFFICES ASSUME NEW j \in Keys, j # k PROVE Phase(j)' = Phase(j)
      OBVIOUS
    <3>1. Performing(j)' <=> Performing(j)
      BY <1>1 DEF StartJob, execVars, Performing
    <3> QED BY <1>1, <3>1, SamePhase DEF StartJob, prodVars
  <2>2. \A j \in Keys : Phase(j) \notin Jobs!Open
    <3>1. \A j \in Keys : state[j] \in Terminal \/ state[j] = "absent"
      BY <1>1 DEF StartJob, MayStart, ActiveJobs, States
    <3>2. "unknown" \notin Jobs!Open
      BY DEF Jobs!Open
    <3> QED BY <3>1, <3>2, PhaseFacts DEF PhaseTable
  <2>3. Phase(k) = "unknown"
    BY <1>1, PhaseFacts DEF PhaseTable, StartJob, MayStart
  <2>4. Phase(k)' = "waiting"
    <3>1. state'[k] \in Active /\ ~NeedsRollback(k)'
      BY <1>1 DEF StartJob, MayStart, Active, NeedsRollback, Rows
    <3> QED BY <3>1, NextPhaseFacts DEF PhaseTable
  <2>5. UNCHANGED effect
    BY <1>1 DEF StartJob, prodVars
  <2>6. Jobs!Move(k, {"unknown"}, "waiting")
    BY <2>1, <2>3, <2>4, OneMoves
  <2> QED BY <2>2, <2>5, <2>6 DEF Jobs!Accept
<1>2. ASSUME NEW k \in Keys, CancelJob(k)
      PROVE  Jobs!Refuse(k) \/ Jobs!Abandon(k) \/ UNCHANGED Jobs!vars
  <2>1. \A j \in Keys \ {k} : Phase(j)' = Phase(j)
    <3> SUFFICES ASSUME NEW j \in Keys, j # k PROVE Phase(j)' = Phase(j)
      OBVIOUS
    <3>1. Performing(j)' <=> Performing(j)
      BY <1>2 DEF CancelJob, execVars, Performing
    <3>2. state'[j] = state[j]
      BY <1>2 DEF CancelJob
    <3> QED BY <1>2, <3>1, <3>2, SamePhase DEF CancelJob, prodVars
  <2>2. UNCHANGED effect
    BY <1>2 DEF CancelJob, prodVars
  <2>3. (NeedsRollback(k)' <=> NeedsRollback(k)) /\ (HandedOff(k)' <=> HandedOff(k))
        /\ (Performing(k)' <=> Performing(k))
    BY <1>2 DEF CancelJob, prodVars, execVars, NeedsRollback, HandedOff, HandoffPending, SwitchesOps,
       Performing
  <2>4. CASE state[k] = "running"
    <3>1. state'[k] = "cancelling"
      BY <1>2, <2>4 DEF CancelJob
    <3>2. OpenPhase(k)' = OpenPhase(k)
      BY <2>3 DEF OpenPhase
    <3>3. Phase(k) = OpenPhase(k)
      BY <2>4 DEF Phase, Active
    <3>4. Phase(k)' = OpenPhase(k)'
      BY <3>1 DEF Phase, Active
    <3>5. Phase(k)' = Phase(k)
      BY <3>2, <3>3, <3>4
    <3> QED BY <2>1, <2>2, <3>5, StandsStill
  <2>5. CASE state[k] = "queued"
    <3>1. state[k] \in Active /\ state'[k] = "cancelled" /\ rollbackObs'[k] = "none"
      BY <1>2, <2>5 DEF CancelJob, Active, Rows
    <3>2. ~Performing(k)
      BY <2>5 DEF Performing, Lifecycle, Uncommitted, WorkSteps, InProgress
    <3>3. CASE ~NeedsRollback(k)
      <4>1. Phase(k) = "waiting" /\ Phase(k)' = "undone"
        BY <2>3, <3>1, <3>3, PhaseFacts, NextPhaseFacts DEF PhaseTable
      <4>2. Jobs!Move(k, {"waiting"}, "undone")
        BY <2>1, <4>1, OneMoves
      <4> QED BY <2>2, <4>2 DEF Jobs!Refuse
    <3>4. CASE NeedsRollback(k)
      <4>1. Phase(k) \in {"handedOff", "recovering"}
        BY <3>1, <3>2, <3>4, PhaseFacts DEF PhaseTable
      <4>2. Phase(k)' = "abandoned"
        BY <2>3, <3>1, <3>4, NextPhaseFacts DEF PhaseTable
      <4>3. Jobs!Move(k, {"handedOff", "recovering"}, "abandoned")
        BY <2>1, <4>1, <4>2, OneMoves
      <4> QED BY <2>2, <4>3 DEF Jobs!Abandon
    <3> QED BY <3>3, <3>4
  <2> QED BY <1>2, <2>4, <2>5 DEF CancelJob
<1> QED BY <1>1, <1>2 DEF AbstractStep, Jobs!Next, Jobs!Step

\* next_job, systemd and the signal handler move no phase.
LEMMA IdleSteps ==
  ASSUME IInv, [Next]_vars,
         \/ \E k \in Keys : NextJob(k)
         \/ Boot \/ BootReady \/ BootFails \/ StopRequested \/ StopIdle \/ UNCHANGED vars
  PROVE  AbstractStep
<1> USE DEF IInv
<1>1. CASE (\E k \in Keys : NextJob(k)) \/ Boot
  <2>1. job \notin Keys
    <3>1. pc = "idle"
      BY <1>1 DEF NextJob, Boot, Lifecycle, Alive
    <3> QED BY <3>1, KeysAssumption DEF TypeOK, ThreadTypeOK
  <2>2. \A k \in Keys : ~CancelJob(k) /\ \A a \in ActionTypes : ~StartJob(k, a)
    BY <1>1 DEF NextJob, Boot, CancelJob, StartJob, Alive, execVars
  <2>3. \A k \in Keys : Phase(k)' = Phase(k)
    BY <2>1, <2>2, Bystander
  <2>4. effect' = effect
    BY <1>1 DEF NextJob, Boot, prodVars
  <2> QED BY <2>3, <2>4, StandsStill DEF AbstractStep
<1>2. CASE BootReady \/ BootFails \/ StopRequested \/ StopIdle \/ UNCHANGED vars
  <2>1. UNCHANGED <<table, execVars>> /\ effect' = effect
    BY <1>2 DEF BootReady, BootFails, StopRequested, StopIdle, vars, prodVars
  <2>2. \A k \in Keys : Phase(k)' = Phase(k)
    BY <2>1, SamePhase DEF table, execVars, Performing
  <2> QED BY <2>1, <2>2, StandsStill DEF AbstractStep
<1> QED BY <1>1, <1>2

\* The steps of the thread between two changes of its row or of production.
LEMMA QuietSteps ==
  ASSUME IInv, Stepwise, [Next]_vars, faults' = 0,
         \/ PickedFlush \/ Dispatch \/ Preflight \/ CaptureBaseline \/ Prepare \/ WriteBackup
         \/ VerifyHandoff \/ RequestReexec \/ ResumeHandoff \/ FinalCheck \/ SucceedFlush
         \/ Cleanup \/ RollbackDiscard \/ RollbackVerify \/ FinalFlush \/ EndOfJob
         \/ WorkerFailed
  PROVE  AbstractStep
<1> USE DEF IInv, TypeOK, TableTypeOK
<1>1. pc' # pc /\ pc # "idle"
  BY DEF PickedFlush, Dispatch, Preflight, CaptureBaseline, Prepare, WriteBackup, VerifyHandoff,
     RequestReexec, ResumeHandoff, FinalCheck, SucceedFlush, Cleanup, RollbackDiscard,
     RollbackVerify, FinalFlush, EndOfJob, WorkerFailed, Goto, Raise, ThreadIdle
<1>2. PICK k \in Keys : k = job
  BY <1>1, AtHand
<1>3. effect' = effect
  BY DEF PickedFlush, Dispatch, Preflight, CaptureBaseline, Prepare, WriteBackup, VerifyHandoff,
     RequestReexec, ResumeHandoff, FinalCheck, SucceedFlush, Cleanup, RollbackDiscard,
     RollbackVerify, FinalFlush, EndOfJob, WorkerFailed, prodVars
<1>4. CASE CaptureBaseline
  <2>1. /\ state[k] \in Active /\ state'[k] = state[k]
        /\ ~mutationStarted[k] /\ ~mutationStarted'[k]
    BY <1>2, <1>4
    DEF CaptureBaseline, Lifecycle, Uncommitted, WorkSteps, InProgress, Active, ProgramPoints,
        BeforeCapture, Rows
  <2>2. Phase(k) = "waiting" /\ Phase(k)' = "waiting"
    BY <2>1, PhaseFacts, NextPhaseFacts DEF PhaseTable, NeedsRollback
  <2> QED BY <1>1, <1>2, <1>3, <2>2, JobStands DEF AbstractStep
<1>5. CASE ResumeHandoff
  <2>1. HandedOff(k) /\ UNCHANGED table
    BY <1>2, <1>5
    DEF ResumeHandoff, HandedOff, HandoffPending, SwitchesOps, ProgramPoints, AfterMark,
        HandoffPath, Stepwise, HandoffTarget, Selected, Unfinished
  <2>2. HandedOff(k)' /\ state[k] \in Active /\ state'[k] \in Active
    BY <1>2, <1>3, <1>5, <2>1
    DEF HandedOff, HandoffPending, SwitchesOps, table, ResumeHandoff, Lifecycle,
        Uncommitted, InProgress, Active
  <2>3. Phase(k) = "handedOff" /\ Phase(k)' = "handedOff"
    BY <2>1, <2>2, PhaseFacts, NextPhaseFacts
    DEF PhaseTable, NeedsRollback, HandedOff, HandoffPending, SwitchesOps
  <2> QED BY <1>1, <1>2, <1>3, <2>3, JobStands DEF AbstractStep
<1>6. CASE ~CaptureBaseline /\ ~ResumeHandoff
  <2>1. UNCHANGED table
    BY <1>6 DEF PickedFlush, Dispatch, Preflight, Prepare, WriteBackup, VerifyHandoff,
       RequestReexec, FinalCheck, SucceedFlush, Cleanup, RollbackDiscard, RollbackVerify,
       FinalFlush, EndOfJob, WorkerFailed
  <2>2. Performing(k)' <=> Performing(k)
    BY <1>2, <1>6, KeysAssumption
    DEF PickedFlush, Dispatch, Preflight, Prepare, WriteBackup, VerifyHandoff, RequestReexec,
        FinalCheck, SucceedFlush, Cleanup, RollbackDiscard, RollbackVerify, FinalFlush, EndOfJob,
        WorkerFailed, Goto, Raise, ThreadIdle, Performing
  <2>3. Phase(k)' = Phase(k)
    BY <1>3, <2>1, <2>2, SamePhase DEF table
  <2> QED BY <1>1, <1>2, <1>3, <2>3, JobStands DEF AbstractStep
<1> QED BY <1>4, <1>5, <1>6

\* An exception or the death of the process interrupts a mutation.
LEMMA InterruptSteps ==
  ASSUME IInv, Stepwise, [Next]_vars, StepFails \/ Crash
  PROVE  AbstractStep
<1> USE DEF IInv, TypeOK, TableTypeOK
<1>1. UNCHANGED <<table, effect>> /\ \A k \in Keys : ~Performing(k)'
  BY DEF StepFails, Crash, Raise, ThreadIdle, prodVars, Performing
<1>2. CASE \A k \in Keys : ~Performing(k)
  <2>1. \A k \in Keys : Phase(k)' = Phase(k)
    BY <1>1, <1>2, SamePhase DEF table
  <2> QED BY <1>1, <2>1, StandsStill DEF AbstractStep
<1>3. ASSUME NEW k \in Keys, Performing(k)
      PROVE  AbstractStep
  <2>1. k = job /\ pc' # pc
    BY <1>3, <1>1 DEF Performing, StepFails, Crash, Raise, ThreadIdle
  <2>2. CASE Phase(k) = "working"
    <3>1. Phase(k)' = "recovering"
      <4>1. state[k] \in Active
        BY <1>3, <2>1 DEF Performing, Lifecycle, Uncommitted, WorkSteps, InProgress, Active
      <4>2. NeedsRollback(k) /\ ~HandedOff(k)
        BY <2>2, <4>1, PhaseFacts DEF PhaseTable
      <4>3. state'[k] \in Active /\ NeedsRollback(k)' /\ ~HandedOff(k)' /\ ~Performing(k)'
        BY <1>1, <4>1, <4>2 DEF table, NeedsRollback, HandedOff, HandoffPending, SwitchesOps
      <4> QED BY <4>3, NextPhaseFacts DEF PhaseTable
    <3>2. Jobs!Move(k, {"working"}, "recovering")
      BY <2>1, <2>2, <3>1, JobMoves
    <3> QED BY <1>1, <3>2 DEF AbstractStep, Jobs!Next, Jobs!Step, Jobs!Interrupt
  <2>3. CASE Phase(k) # "working"
    <3>1. state[k] \in Active /\ NeedsRollback(k)
      BY <1>3, <2>1
      DEF Performing, Lifecycle, Uncommitted, WorkSteps, InProgress, Active, NeedsRollback,
          ProgramPoints, AfterMark, HandoffPath
    <3>2. HandedOff(k) /\ Phase(k) = "handedOff"
      BY <1>3, <2>3, <3>1, PhaseFacts DEF PhaseTable
    <3>3. Phase(k)' = "handedOff"
      <4>1. state'[k] \in Active /\ NeedsRollback(k)' /\ HandedOff(k)'
        BY <1>1, <3>1, <3>2 DEF table, NeedsRollback, HandedOff, HandoffPending, SwitchesOps
      <4> QED BY <4>1, NextPhaseFacts DEF PhaseTable
    <3> QED BY <1>1, <2>1, <3>2, <3>3, JobStands DEF AbstractStep
  <2> QED BY <2>2, <2>3
<1> QED BY <1>2, <1>3

\* perform: the mutation begins, goes on, and is handed to the next process.
LEMMA PerformSteps ==
  ASSUME IInv, Stepwise, [Next]_vars, MarkMutationStarted \/ Mutate \/ Apply \/ RecordHandoff
  PROVE  AbstractStep
<1> USE DEF IInv, TypeOK, TableTypeOK
<1>1. pc' # pc /\ pc # "idle"
  BY DEF MarkMutationStarted, Mutate, Apply, RecordHandoff, Goto, AfterApply
<1>2. PICK k \in Keys : k = job
  BY <1>1, AtHand
<1>3. state[k] \in Active /\ state'[k] = state[k]
  BY <1>2 DEF MarkMutationStarted, Mutate, Apply, RecordHandoff, table, Lifecycle, Uncommitted,
     WorkSteps, InProgress, Active
<1>4. CASE MarkMutationStarted
  <2>1. captured[k] /\ ~mutationStarted[k]
    BY <1>2, <1>4 DEF MarkMutationStarted, ProgramPoints, AfterCapture, Stepwise
  <2>2. NeedsRollback(k)' /\ ~HandedOff(k)' /\ Performing(k)'
    BY <1>2, <1>4, <2>1
    DEF MarkMutationStarted, MutationMark, Goto, NeedsRollback, HandedOff, HandoffPending, SwitchesOps,
        Performing
  <2>3. Phase(k) = "waiting" /\ Phase(k)' = "working"
    BY <1>3, <2>1, <2>2, PhaseFacts, NextPhaseFacts DEF PhaseTable, NeedsRollback
  <2>4. Jobs!Move(k, {"waiting"}, "working")
    BY <1>1, <1>2, <2>3, JobMoves
  <2> QED BY <1>4, <2>4
          DEF AbstractStep, Jobs!Next, Jobs!Step, Jobs!Begin, MarkMutationStarted, prodVars
<1>5. CASE ~MarkMutationStarted
  <2>1. /\ NeedsRollback(k) /\ Performing(k)
        /\ stage[k] = "mutation_started" /\ ~HandedOff(k)
    BY <1>2, <1>5
    DEF Mutate, Apply, RecordHandoff, ProgramPoints, AfterMark, HandoffPath, Stepwise,
        NeedsRollback, Performing, HandedOff, HandoffPending, SwitchesOps
  <2>2. Phase(k) = "working"
    BY <1>3, <2>1, PhaseFacts DEF PhaseTable
  <2>3. CASE Mutate \/ Apply
    <3>1. UNCHANGED table /\ Performing(k)'
      BY <1>2, <2>3 DEF Mutate, Apply, Goto, AfterApply, Performing
    <3>2. NeedsRollback(k)' /\ ~HandedOff(k)'
      BY <2>1, <3>1 DEF table, NeedsRollback, HandedOff, HandoffPending, SwitchesOps
    <3>3. Phase(k)' = "working"
      BY <1>3, <3>1, <3>2, NextPhaseFacts DEF PhaseTable
    <3>4. UNCHANGED [j \in Keys |-> Phase(j)]
      BY <1>1, <1>2, <2>2, <3>3, ThreadStep
    <3>5. \E e \in Jobs!Effects : Jobs!Below(effect[k], e) /\ effect' = [effect EXCEPT ![k] = e]
      BY <1>2, <2>3 DEF Mutate, Apply, Stepwise, Jobs!Effects, Jobs!Below
    <3>6. Jobs!Work(k)
      BY <2>2, <3>4, <3>5 DEF Jobs!Work
    <3> QED BY <3>6 DEF AbstractStep, Jobs!Next, Jobs!Step
  <2>4. CASE RecordHandoff
    <3>1. effect[k] = "full" /\ effect' = effect
      BY <1>2, <2>4 DEF RecordHandoff, Selected, Applied, prodVars
    <3>2. NeedsRollback(k)' /\ HandedOff(k)'
      BY <1>2, <2>1, <2>4, <3>1
      DEF RecordHandoff, NeedsRollback, HandedOff, HandoffPending, SwitchesOps, ProgramPoints,
          HandoffPath
    <3>3. Phase(k)' = "handedOff"
      BY <1>3, <3>2, NextPhaseFacts DEF PhaseTable
    <3>4. Jobs!Move(k, {"working"}, "handedOff")
      BY <1>1, <1>2, <2>2, <3>3, JobMoves
    <3> QED BY <3>1, <3>4 DEF AbstractStep, Jobs!Next, Jobs!Step, Jobs!HandOff
  <2> QED BY <1>5, <2>3, <2>4
<1> QED BY <1>4, <1>5

\* JobStore.succeed commits a whole effect or starts the way back.
LEMMA SucceedStep ==
  ASSUME IInv, Stepwise, [Next]_vars, Succeed
  PROVE  AbstractStep
<1> USE DEF IInv, TypeOK, TableTypeOK
<1>1. pc' # pc /\ pc = "commit" /\ effect' = effect
  BY DEF Succeed, Goto, Raise, prodVars
<1>2. PICK k \in Keys : k = job
  BY <1>1, AtHand
<1>3. /\ state[k] \in Active /\ NeedsRollback(k) /\ Performing(k)
      /\ effect[k] = "full"
  BY <1>1, <1>2
  DEF Lifecycle, Uncommitted, InProgress, Active, NeedsRollback, ProgramPoints, AfterMark,
      Performing, Selected, Applied
<1>4. Phase(k) \in {"working", "handedOff"}
  BY <1>3, PhaseFacts DEF PhaseTable
<1>5. CASE CommitWins(job)
  <2>1. state'[k] = "succeeded"
    BY <1>2, <1>5 DEF Succeed
  <2>2. Phase(k)' = "succeeded"
    BY <2>1, NextPhaseFacts DEF PhaseTable
  <2>3. Jobs!Move(k, {"working", "handedOff"}, "succeeded")
    BY <1>1, <1>2, <1>4, <2>2, JobMoves
  <2> QED BY <1>1, <1>3, <2>3 DEF AbstractStep, Jobs!Next, Jobs!Step, Jobs!Commit
<1>6. CASE ~CommitWins(job)
  <2>1. UNCHANGED <<table, effect>> /\ ~Performing(k)'
    BY <1>6 DEF Succeed, Raise, table, prodVars, Performing
  <2>2. /\ state'[k] \in Active /\ NeedsRollback(k)'
        /\ HandedOff(k)' <=> HandedOff(k)
    BY <1>3, <2>1 DEF table, NeedsRollback, HandedOff, HandoffPending, SwitchesOps
  <2>3. CASE HandedOff(k)
    <3>1. Phase(k) = "handedOff" /\ Phase(k)' = "handedOff"
      BY <1>3, <2>2, <2>3, PhaseFacts, NextPhaseFacts DEF PhaseTable
    <3> QED BY <1>1, <1>2, <3>1, JobStands DEF AbstractStep
  <2>4. CASE ~HandedOff(k)
    <3>1. Phase(k) = "working" /\ Phase(k)' = "recovering"
      BY <1>3, <2>1, <2>2, <2>4, PhaseFacts, NextPhaseFacts DEF PhaseTable
    <3>2. Jobs!Move(k, {"working"}, "recovering")
      BY <1>1, <1>2, <3>1, JobMoves
    <3> QED BY <1>1, <3>2 DEF AbstractStep, Jobs!Next, Jobs!Step, Jobs!Interrupt
  <2> QED BY <2>3, <2>4
<1> QED BY <1>5, <1>6

\* The way back: production is undone step by step, then the row is settled.
LEMMA FinishStep ==
  ASSUME IInv, [Next]_vars, faults' = 0,
         \/ FinishWithoutMutation \/ RollbackRelease \/ RollbackRestore
         \/ FinishRolledBack \/ RollbackFails
  PROVE  AbstractStep
<1> USE DEF IInv, TypeOK, TableTypeOK, WorldTypeOK
<1>1. /\ pc' # pc /\ pc \in FinishSteps /\ faults = 0
      /\ pc' \in {"restore", "discard", "finalFlush"}
  BY DEF FinishWithoutMutation, RollbackRelease, RollbackRestore, FinishRolledBack,
     RollbackFails, Settle, Goto, FinishSteps, bounds
<1>2. PICK k \in Keys : k = job
  BY <1>1, AtHand DEF FinishSteps
<1>3. state[k] \in Active /\ ~Performing(k) /\ ~Performing(k)'
  BY <1>1, <1>2 DEF Lifecycle, InProgress, Active, Performing, FinishSteps
<1>4. NeedsRollback(k) => Phase(k) \in {"handedOff", "recovering"}
  BY <1>3, PhaseFacts DEF PhaseTable
<1>5. CASE FinishWithoutMutation
  <2>1. Phase(k) = "waiting" /\ effect' = effect
    BY <1>2, <1>3, <1>5, PhaseFacts DEF PhaseTable, FinishWithoutMutation, prodVars
  <2>2. state'[k] \in {"failed", "cancelled"}
        /\ rollbackObs'[k] \in {"not_required", "failed_closed"}
    BY <1>2, <1>5 DEF FinishWithoutMutation, Settle
  <2>3. Phase(k)' = "undone"
    BY <2>2, NextPhaseFacts DEF PhaseTable
  <2>4. Jobs!Move(k, {"waiting"}, "undone")
    BY <1>1, <1>2, <2>1, <2>3, JobMoves
  <2> QED BY <2>1, <2>4 DEF AbstractStep, Jobs!Next, Jobs!Step, Jobs!Refuse
<1>6. CASE RollbackRelease \/ RollbackRestore
  <2>1. NeedsRollback(k) /\ UNCHANGED table
    BY <1>2, <1>6
    DEF RollbackRelease, RollbackRestore, ProgramPoints, AfterMark, NeedsRollback
  <2>2. \/ effect' = effect
        \/ \E e \in Jobs!Effects : Jobs!Below(e, effect[k]) /\ effect' = [effect EXCEPT ![k] = e]
    <3>1. CASE RollbackRelease
      <4>1. effect' = [effect EXCEPT ![k] = IF effect[k] = "none" THEN "none" ELSE "partial"]
        BY <1>2, <3>1 DEF RollbackRelease
      <4>2. CASE effect[k] \in {"none", "partial"}
        BY <4>1, <4>2
      <4>3. CASE effect[k] = "full"
        BY <4>1, <4>3 DEF Jobs!Effects, Jobs!Below
      <4> QED BY <4>2, <4>3 DEF Effects
    <3>2. CASE RollbackRestore
      <4>1. CASE actionType[job] = Rotate /\ job \notin material
        BY <3>2, <4>1 DEF RollbackRestore
      <4>2. CASE ~(actionType[job] = Rotate /\ job \notin material)
        <5>1. effect' = baseline[k].effect /\ captured[k]
          BY <1>2, <2>1, <3>2, <4>2 DEF RollbackRestore, NeedsRollback
        <5>2. baseline[k].effect \in [Keys -> Effects]
          BY DEF Snapshots
        <5>3. \A j \in Keys : effect'[j] = IF j = k THEN "none" ELSE effect[j]
          BY <1>2, <5>1 DEF Baselines, Unfinished
        <5>4. effect' = [effect EXCEPT ![k] = "none"]
          BY <5>1, <5>2, <5>3
        <5>5. CASE effect[k] = "none"
          BY <5>4, <5>5
        <5>6. CASE effect[k] # "none"
          BY <5>4, <5>6 DEF Effects, Jobs!Effects, Jobs!Below
        <5> QED BY <5>5, <5>6
      <4> QED BY <4>1, <4>2
    <3> QED BY <1>6, <3>1, <3>2
  <2>3. state'[k] \in Active /\ NeedsRollback(k)'
    BY <1>3, <2>1 DEF table, NeedsRollback
  <2>4. CASE effect' = effect
    <3>1. Phase(k)' = Phase(k)
      BY <1>3, <2>1, <2>4, SamePhase DEF table
    <3> QED BY <1>1, <1>2, <2>4, <3>1, JobStands DEF AbstractStep
  <2>5. ASSUME NEW e \in Jobs!Effects, Jobs!Below(e, effect[k]), effect' = [effect EXCEPT ![k] = e]
        PROVE  AbstractStep
    <3>1. ~HandedOff(k)'
      BY <2>5 DEF HandedOff, Jobs!Below
    <3>2. Phase(k)' = "recovering"
      BY <1>3, <2>3, <3>1, NextPhaseFacts DEF PhaseTable
    <3>3. Jobs!Move(k, {"handedOff", "recovering"}, "recovering")
      BY <1>1, <1>2, <1>4, <2>1, <3>2, JobMoves
    <3> QED BY <2>5, <3>3 DEF AbstractStep, Jobs!Next, Jobs!Step, Jobs!Undo
  <2> QED BY <2>2, <2>4, <2>5
<1>7. CASE FinishRolledBack
  <2>1. NeedsRollback(k) /\ effect[k] = "none" /\ effect' = effect
    BY <1>2, <1>7
    DEF FinishRolledBack, ProgramPoints, AfterMark, Restored, NeedsRollback, prodVars
  <2>2. Phase(k) = "recovering"
    BY <1>3, <2>1, PhaseFacts DEF PhaseTable, HandedOff
  <2>3. state'[k] \in {"failed", "cancelled"} /\ rollbackObs'[k] = "verified"
    BY <1>2, <1>7 DEF FinishRolledBack, Settle
  <2>4. Phase(k)' = "undone"
    BY <2>3, NextPhaseFacts DEF PhaseTable
  <2>5. Jobs!Move(k, {"recovering"}, "undone")
    BY <1>1, <1>2, <2>2, <2>4, JobMoves
  <2> QED BY <2>1, <2>5 DEF AbstractStep, Jobs!Next, Jobs!Step, Jobs!Settle
<1>8. CASE RollbackFails
  <2>1. NeedsRollback(k) /\ effect' = effect
    BY <1>2, <1>8 DEF RollbackFails, ProgramPoints, AfterMark, NeedsRollback, prodVars
  <2>2. state'[k] = "failed" /\ rollbackObs'[k] = "operator_attention_required"
    BY <1>2, <1>8 DEF RollbackFails, Settle
  <2>3. Phase(k)' = "attention"
    BY <2>2, NextPhaseFacts DEF PhaseTable
  <2>4. Jobs!Move(k, {"handedOff", "recovering"}, "attention")
    BY <1>1, <1>2, <1>4, <2>1, <2>3, JobMoves
  <2> QED BY <2>1, <2>4 DEF AbstractStep, Jobs!Next, Jobs!Step, Jobs!Escalate
<1> QED BY <1>5, <1>6, <1>7, <1>8

-----------------------------------------------------------------------------
(* Theorem *)

LEMMA InitImplements == Init => Jobs!Init
<1> SUFFICES ASSUME Init PROVE Jobs!Init
  OBVIOUS
<1>1. \A k \in Keys : Phase(k) = "unknown"
  BY DEF Init, Phase, Active
<1> QED BY <1>1 DEF Jobs!Init, Init

\* Up to the first failed flush each step of the worker is a step of the
\* abstract job or leaves it alone.
LEMMA StepImplements ==
  ASSUME IInv, Stepwise, [Next]_vars, faults' = 0
  PROVE  AbstractStep
  BY NextActions, RequestSteps, IdleSteps, QuietSteps, InterruptSteps, PerformSteps, SucceedStep,
     FinishStep

\* The executor, the daemon, crashes and restarts implement the abstract job.
THEOREM ImplementsOpsJobSpecHolds == Spec => ImplementsOpsJobSpec
<1>1. Init => IInv /\ Stepwise
  <2>1. Init => Stepwise
    BY DEF Init, Stepwise
  <2> QED BY <2>1, InitIInv
<1>2. IInv /\ Stepwise /\ [Next]_vars => (IInv /\ Stepwise)'
  BY StepIInv, StepwiseStep
<1>3. IInv /\ Stepwise /\ [Next]_vars
        => [faults' = 0 => Jobs!Next \/ UNCHANGED Jobs!vars]_vars
  BY StepImplements DEF AbstractStep
<1> QED BY <1>1, <1>2, <1>3, InitImplements, PTL DEF Spec, ImplementsOpsJobSpec

=============================================================================
