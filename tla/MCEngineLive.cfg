\* One monitor, one agent handler and the stale loop overlapping, with fairness: the
\* engine is a status board, and what must become of its monitor some time does.
SPECIFICATION FairSpec
CONSTANTS
  Monitors  = {m1}
  Agents    = {a1}
  Handlers  = {h1}
  StaleLoop = stale
  None      = none
  Intervals <- MCIntervals
  Grace     = 0
  Lags      <- SkewedLags
  AgeCap    = 3
  MaxFaults = 1
PROPERTIES
  ImplementsBoard
  SilentMonitorGoesDown
  RecoveryShows
