SPECIFICATION FairSpec
CONSTANTS
  Threads = {t1, t2}
  Main = main
  BatchLimit = 3
  MaxEvents = 4
  MaxCrashes = 2
  MaxFaults = 1
  MaxTears = 1
INVARIANTS
    FlushedIsDurable
    DamageIsBounded
    FileInOrder
PROPERTIES
    EventsReachFile
