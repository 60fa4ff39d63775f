\* The clock may be set back.
SPECIFICATION Spec
CONSTANTS
  Client = {c1}
  VLEN = 1
  NS_PER_S = 2
  MaxClock = 4
  MaxSends = 3
  Width = 16
  MaxFaults = 0
  ClockSteps = TRUE
INVARIANTS
  NegativeLeftOut
CHECK_DEADLOCK FALSE
