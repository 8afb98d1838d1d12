SPECIFICATION FairSpec
CONSTANTS
  None = None
  a = a
  b = b
  w = w
  Contents = {a}
  Length <- OneSize
  Readers = {r1, r2}
  Publishers = {w1}
  Paths = {p}
  Inodes = {i1, i2}
  Capacity = 4
  MaxStall = 0
  MaxLag = 0
  Disturbances = {"remove", "replace", "invalidate"}
  MaxDisturb = 1
  MaxTime = 1
  RacyWindow = 0
CHECK_DEADLOCK FALSE
INVARIANTS CellsAreTransient
PROPERTIES CallsReturn
