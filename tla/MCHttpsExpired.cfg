\* A certificate that ran out, with verification switched off.
SPECIFICATION Spec
CONSTANTS
  MaxLeft  = 384
  MinLeft  <- Gone
  MaxPause = 48
PROPERTIES
  ExpiredIsDown
