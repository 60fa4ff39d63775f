\* Two threads with a socket each; addresses the program refuses.
SPECIFICATION ReceiverSpec
CONSTANTS
  thread_num = 2
  reuseport = 1
  MAX_MSG = 2
  Lengths = {1, 2}
  SocketBuffer = 2
  MaxArrivals = 3
  Host = {"ipv4", "ipv6", "other"}
  OpensDb = FALSE
INVARIANTS
  RatesAreReal

  
CHECK_DEADLOCK FALSE
