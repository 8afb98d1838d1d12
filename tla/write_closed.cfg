SPECIFICATION FairSpec
CONSTANTS
  None = None
  Absent = Absent
  blank = blank
  a = a
  b = b
  doc = doc
  n1 = n1
  n2 = n2
  Contents <- MCContents
  Length <- MCLength
  Empty = blank
  Reqs = {r1, r2}
  Names = {n1}
  Files = {doc}
  Canon <- OneName
  Inodes = {i1, i2, i3}
  Jobs <- GuardedJobs
  ExternalKinds = {}
  MaxExternal = 0
  MaxRestarts = 1
  MaxTime = 1
  RacyWindow = 0
CHECK_DEADLOCK FALSE
INVARIANTS SerializedWriters
PROPERTIES OldSnapshotsAuthorizeNothing ImplementsVersionedFile EveryRequestIsAnswered
