\* One window saved by two overlapping admin requests; monitors are deleted and
\* saves are refused, fail, or die with the server.
SPECIFICATION Spec
CONSTANTS
  Monitors  = {m1, m2}
  Windows   = {w1}
  Admins    = {x, y}
  Spans     <- MCSpans
  Horizon   = 3
  MaxFaults = 1
  Deletions = TRUE
  None      = none
SYMMETRY AdminSymmetry
INVARIANTS
  VersionInv
  NoGap
