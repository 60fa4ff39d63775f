SPECIFICATION Spec
CONSTANTS
  Path = {p1, p2, p3}
  Key = {k1}
  Value = {v1}
  None = None
  Absent = Absent
  NULL = NULL
  MaxOpens = 3
PROPERTIES
  CheckpointOfOpenDb
