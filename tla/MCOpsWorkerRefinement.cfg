SPECIFICATION FairSpec
CONSTANTS
  Keys = {k1, k2}
  InitialRelease = r0
  NoJob = none
  MaxJobs = 2
  MaxCrashes = 1
  MaxStops = 0
  MaxFlushFaults = 1
PROPERTIES
  ImplementsOpsJobSpec
  JobsTerminate
