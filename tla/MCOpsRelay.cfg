SPECIFICATION FairSpec
CONSTANTS
  Comments = {c1, c2}
  JobIds = {j1, j2}
  None = none
  MaxFaults = 1
  MaxReruns = 1
INVARIANTS
    OneJobPerComment
    NoRequestDropped
    ReportIsOwn
    CancelIsKept
PROPERTIES
    ReportsGoForward
    RequestsAreServed
\* The relay may be stopped for good, and the comments are finitely many.
CHECK_DEADLOCK FALSE
