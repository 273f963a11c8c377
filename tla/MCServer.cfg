\* Three goroutines; two overlapping saves, one alert or test and one fault; two
\* logins, three starts, one key; a monitor checked every 30 s, with the
\* timeouts of the agent, in units of 10 s.
SPECIFICATION ServerSpec
CONSTANTS
  Interval   = 3
  Grace      = 3
  Pickup     = 6
  MaxCheck   = 6
  MaxPost    = 3
  Goroutines = {g1, g2, g3}
  Forms      <- SomeForms
  Unset      = 0
  Admins     = {x, y}
  Jobs       = {j1}
  MaxSaves   = 2
  Logins     = {l1, l2}
  Browsers   = {b1}
  Keys       = {k1}
  Readers    = {r1}
  TTL        = 2
  MaxStarts  = 3
  MaxFaults  = 1
  None       = none
INVARIANTS
  ServerTypeOK
  StaleOnlyIfSlow
  HeldOnlyInside
  TransactionAlone
  OneForm
  TestedIsUsed
  SessionsLast
  KeysLast
PROPERTIES
  EveryCallReturns
  EveryAlertGetsThrough
