SPECIFICATION Spec
CONSTANTS
  Keys = {k1, k2}
  InitialRelease = r0
  NoJob = none
  MaxJobs = 2
  MaxCrashes = 2
  MaxStops = 1
  MaxFlushFaults = 1
SYMMETRY KeySymmetry
INVARIANTS
    TypeOK
    WriteAhead
    CancelExcludesSuccess
    VerdictTruthful
    SuccessIsApplied
    RecoveryMaterialKept
    RunsSelectedRelease
PROPERTIES
    HandoffByNewWorker
    TerminalIsFinal
