SPECIFICATION Spec
CONSTANTS
  None = None
  Gone = Gone
  Versions <- MCVersions
  TextOf <- MCTextOf
  HandMade <- MCHandMade
  MaxPageLines = 3
  Limits = {0, 1, 2, 4}
  StartLines = {0, 2, 9}
  MaxChanges = 3
  MaxRestarts = 1
CHECK_DEADLOCK FALSE
INVARIANTS PagesAreOneSnapshot StaleCursorsConflict
