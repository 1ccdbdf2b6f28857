SPECIFICATION Spec
CONSTANTS
  Keys = {k1, k2}
  InitialRelease = r0
  NoJob = none
  MaxJobs = 2
  MaxCrashes = 0
  MaxStops = 0
  MaxFlushFaults = 1
PROPERTIES
  SuccessIsDurable
