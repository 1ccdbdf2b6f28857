SPECIFICATION Spec
CONSTANTS
    None = None
    Versions = {1}
    Contents = {"plain", "other", "unfinished"}
    ContentHash <- MCContentHash
    Assignments = {1}
    Schedules <- MCSchedules
    Claims <- MCClaims
    Sessions = {s1, s2}
    Statuses <- MCStatuses
    MaxTime = 1
    MaxPublications = 1
    MaxClaims = 3
SYMMETRY MCSymmetry
INVARIANTS
    SealedHashIsOfRows
    ClaimsAreDisjoint
    ChecksHoldUntilCommit
