SPECIFICATION Spec
CONSTANTS
  None = None
  Blocks = {x, y}
  Contents <- MCContents
  Length <- MCLength
  Inodes = {i1, i2}
  MaxAttempts = 2
  Kinds = {"block", "append", "truncate", "replace", "remove"}
  MaxChanges = 3
  MaxStall = 1
  MaxTime = 2
  RacyWindow = 1
SYMMETRY Symmetric
CHECK_DEADLOCK FALSE
INVARIANTS TypeOK BytesWereTheFile StampDescribesBytes EveryFailedAttemptWasDisturbed
