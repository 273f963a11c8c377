\* Two admins save one window at once, with other monitors and another time each.
SPECIFICATION Spec
CONSTANTS
  Monitors  = {m1, m2}
  Windows   = {w1}
  Admins    = {x, y}
  Spans     <- ApartSpans
  Horizon   = 4
  MaxFaults = 0
  Deletions = FALSE
  None      = none
INVARIANTS
  PausedOnlyAsPicked
