\* Every graph of three vertices, and two searches of it.
SPECIFICATION AlgorithmsSpec
CONSTANTS
  capacity = 3
  SearchLimit = 2
  None = None
  num_packets = 2
  Packet <- Packets
  number_disks = 5
  Buffers <- BytesInput
  NoAnswer = None
INVARIANTS
  SearchReaches
  ArraysRight
  TreesRight
  HanoiLegal
  
  DumpComplete
CHECK_DEADLOCK FALSE
