CONSTANTS
  Users = {u1, u2}
  Names = {n1, n2}
  Addresses = {a1, a2}
  Passwords = {p1, p2}
  Requests = {r1, r2}
  Sids = {s1}
  None = None
  MaxTokens = 3
  MaxFaults = 1
SPECIFICATION Spec
SYMMETRY Symmetry
CONSTRAINT FewAtOnce
INVARIANTS
  LinksAreSound
  OnlyOverlappedSessionsAreOutdated
\* The bounds end: every link made, every id given.
CHECK_DEADLOCK FALSE
