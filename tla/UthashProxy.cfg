\* client_server/uthash, and the sizes of client_server/tcp: the client removes one
\* request per callback, the server moves everything.
SPECIFICATION ProxySpec
CONSTANTS
  Client = {c1, c2}
  ReqUnits = 2
  ClientChunk = 2
  ServerChunk = 4
  MaxSent = 4
  MaxSeconds = 1
INVARIANTS
  EntriesAreOpen
  StatsExact
PROPERTIES
  ImplementsEcho
CHECK_DEADLOCK FALSE
