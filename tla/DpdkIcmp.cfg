\* What becomes of the checksum of an echo request.
SPECIFICATION DpdkSpec
CONSTANTS
  Mbuf = {m1, m2}
  nb_ports = 1
  BURST_SIZE = 1
  TxRing = 1
  Request <- MCRequest
  GenBurst = 2
  GenTxRing = 3
  GenRxRing = 1
  MaxSent = 4
INVARIANT IcmpReplyVerifies
CHECK_DEADLOCK FALSE
