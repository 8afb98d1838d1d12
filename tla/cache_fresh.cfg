SPECIFICATION Spec
CONSTANTS
  None = None
  a = a
  b = b
  w = w
  Contents = {a, b}
  Length <- OneSize
  Readers = {r1, r2}
  Publishers = {w1}
  Paths = {p}
  Inodes = {i1, i2}
  Capacity = 4
  MaxStall = 1
  MaxLag = 0
  Disturbances = {"inplace"}
  MaxDisturb = 1
  MaxTime = 2
  RacyWindow = 1
SYMMETRY Symmetric
CHECK_DEADLOCK FALSE
INVARIANTS EntriesAreTruthful ServesAreFresh OneLoaderPerPath
