\* Two ports, and a transmit ring that holds one frame less than a burst has.
\* The generator's ring takes one burst and a part of the next; the generator
\* ends on a signal.
SPECIFICATION DpdkSpec
CONSTANTS
  Mbuf = {m1, m2, m3}
  nb_ports = 2
  BURST_SIZE = 2
  TxRing = 1
  Request <- MCRequest
  GenBurst = 2
  GenTxRing = 3
  GenRxRing = 1
  MaxSent = 4
INVARIANTS
  MbufsConserved
  ArpReplies
  NeverOverReports
PROPERTIES
  PortsServed
  SignalExits
CHECK_DEADLOCK FALSE
