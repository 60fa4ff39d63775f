\* A ring that does not fit (the last two slots are not the buffer's), and
\* hash tables small enough to fill, collide, grow and shrink: in khash 0 and 8
\* share every bucket, and 1 is where their probe goes next.
SPECIFICATION ContainersSpec
CONSTANTS
  Size = 5
  Owned = 3
  Value = {v1, v2}
  NULL = NULL
  Junk = Junk
  Key = {0, 8, 1}
  Val = {w1, w2}
  Unwritten = Unwritten
  Sizes = {0}
  Missing = Missing
  OutOfMemory = OutOfMemory
  Done = Done
INVARIANTS
  KhashHasRoom
  UthashSound
PROPERTIES
  ImplementsQueue
  KhashIsMap
  UthashIsMap
  UthashOrder
