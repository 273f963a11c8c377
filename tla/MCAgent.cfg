\* Two agents share one monitor that the admin edits, moves, pauses or deletes
\* once; one of them restarts.
SPECIFICATION FairSpec
CONSTANTS
  Agents      = {a1, a2}
  Monitors    = {m1}
  Versions    = {v1, v2}
  None        = none
  MaxEdits    = 1
  MaxRestarts = 1
INVARIANTS
  TypeOK
  OneLoopPerRunner
PROPERTIES
  Converges
  KeepsReporting
