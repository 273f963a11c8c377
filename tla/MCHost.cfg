\* A certificate of 16 days, checked at least every two days; a container, or a
\* service of up to three replicas; one poll in a row lost; two tokens, two changes
\* of docker and one fault on the way of the inventory.
SPECIFICATION HostSpec
CONSTANTS
  MaxLeft     = 384
  MinLeft     <- Gone
  MaxPause    = 48
  MaxReplicas = 3
  MaxLost     = 1
  Posts       = {p1, p2}
  MaxChanges  = 2
  MaxTokens   = 2
  MaxFaults   = 1
  None        = none
INVARIANTS
  HostTypeOK
  WarnedInTime
  WarningInv
PROPERTIES
  VerdictHeld
  NeverFalselyOffline
  InventoryArrives
