SPECIFICATION Spec
CONSTANTS
  Monitors  = {m1}
  Agents    = {a1}
  Handlers  = {h1}
  StaleLoop = stale
  None      = none
  Intervals <- MCIntervals
  Grace     = 0
  Lags      <- NoLag
  AgeCap    = 3
  MaxFaults = 0
PROPERTIES
  NoSilentFlip
