\* struct_serialization: a request is 47 bytes, both callbacks remove at most
\* 128, so about two and a half requests.
SPECIFICATION Spec
CONSTANTS
  Client = {c1}
  ReqUnits = 2
  ClientChunk = 5
  ServerChunk = 5
  MaxSent = 14
  MaxSeconds = 1
INVARIANTS
  StreamOrder
  NeverStalls
PROPERTIES
  FirstAnswer
  
CHECK_DEADLOCK FALSE
