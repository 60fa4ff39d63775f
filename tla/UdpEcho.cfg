\* Batches of two; seconds of two nanoseconds; one datagram lost or read failed.
SPECIFICATION Spec
CONSTANTS
  Client = {c1, c2}
  VLEN = 2
  NS_PER_S = 2
  MaxClock = 2
  MaxSends = 3
  Width = 8
  MaxFaults = 1
  ClockSteps = FALSE
INVARIANTS
  OneUnderWay
  ReplyToSender
  LatencyFitsTime
PROPERTIES
  KeepsMeasuring
CHECK_DEADLOCK FALSE
