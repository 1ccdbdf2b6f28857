SPECIFICATION Spec
CONSTANTS
  Comments = {c1}
  JobIds = {j1}
  None = none
  MaxFaults = 1
  MaxReruns = 0
INVARIANT
  RejectedIsNotStarted
\* The relay may be stopped for good, and the comments are finitely many.
CHECK_DEADLOCK FALSE
