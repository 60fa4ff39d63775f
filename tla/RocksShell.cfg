\* Two databases, or a database and a checkpoint directory.
SPECIFICATION Spec
CONSTANTS
  Path = {p1, p2}
  Key = {k1}
  Value = {v1, v2}
  None = None
  Absent = Absent
  NULL = NULL
  MaxOpens = 3
INVARIANTS
  DbIsLive
  ClosedIsDurable
  CarefulNeverFaults
PROPERTIES
  QuitKeepsWrites
