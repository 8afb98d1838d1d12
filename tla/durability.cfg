SPECIFICATION Spec
CONSTANTS
  None = None
  Old = Old
  Reqs = {r1, r2}
  Modes <- EveryMode
  Platforms <- EveryPlatform
  MaxCrashes = 2
CHECK_DEADLOCK FALSE
INVARIANTS DestinationIsWhole
PROPERTIES ImplementsDurableRegister
