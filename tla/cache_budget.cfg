SPECIFICATION Spec
CONSTANTS
  None = None
  a = a
  b = b
  w = w
  Contents = {a, b, w}
  Length <- ThreeSizes
  Readers = {r1, r2}
  Publishers = {w1}
  Paths = {p, q}
  Inodes = {i1, i2, i3}
  Capacity = 2
  MaxStall = 0
  MaxLag = 0
  Disturbances = {"invalidate"}
  MaxDisturb = 1
  MaxTime = 0
  RacyWindow = 0
SYMMETRY Symmetric
CHECK_DEADLOCK FALSE
INVARIANTS TypeOK BudgetIsExact
