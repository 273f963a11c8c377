\* Three goroutines at one monitor and a fault: what becomes of its status.
SPECIFICATION Spec
CONSTANTS
  Monitors  = {m1}
  Agents    = {a1}
  Handlers  = {h1, h2}
  StaleLoop = stale
  None      = none
  Intervals <- MCIntervals
  Grace     = 0
  Lags      <- NoLag
  AgeCap    = 3
  MaxFaults = 1
SYMMETRY HandlerSymmetry
VIEW WithoutAlerts
PROPERTIES
  EndsAsHeard
  FalseOnlyWhenCrossed
  SilentOnlyAtFirst
