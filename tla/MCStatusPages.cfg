\* One page and its public view while saves, incidents, windows and monitors move;
\* two heartbeats and one request for them, with bars of two moments.
SPECIFICATION PublicSpec
CONSTANTS
  Monitors  = {m1, m2}
  Windows   = {w1}
  Pages     = {p1}
  Slugs     = {s1}
  Incidents = {i1}
  Admins    = {x}
  MaxMoves  = 4
  MaxFaults = 1
  Bucket    = 2
  BarCount  = 2
  Day       = 3
  Month     = 4
  Quarter   = 5
  Overdue   = 3
  Lags      = {0, 1}
  Stay      = 1
  MaxBeats  = 2
  Horizon   = 7
  None      = none
SYMMETRY MonitorSymmetry
INVARIANTS
  PublicTypeOK
  NoFalseGreen
  NoFalseAlarm
  IncidentShows
  BarsTellTheWorst
  StatusHasBar
  MetricsAgree
  PruningHidesNothing
PROPERTIES
  HistoryComplete
