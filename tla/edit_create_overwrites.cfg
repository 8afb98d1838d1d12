SPECIFICATION Spec
CONSTANTS
  None = None
  Absent = Absent
  blank = blank
  a = a
  b = b
  doc = doc
  n1 = n1
  n2 = n2
  Contents <- MCContents
  Length <- MCLength
  Empty = blank
  Reqs = {r1, r2}
  Names = {n1}
  Files = {doc}
  Canon <- OneName
  Inodes = {i1, i2, i3, i4}
  Jobs <- CreatingEdits
  ExternalKinds = {}
  MaxExternal = 0
  MaxRestarts = 0
  MaxTime = 0
  RacyWindow = 0
SYMMETRY Symmetric
CHECK_DEADLOCK FALSE
INVARIANTS EditReplacesNamedSnapshot
