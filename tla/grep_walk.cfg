SPECIFICATION FairSpec
CONSTANTS
  None = None
  Workers = {w1, w2, w3}
  Trees <- MCTrees
  Requests <- MCRequests
  MaxGrepMatches = 3
  MaxContextLines = 2
  QuitFactor = 8
CHECK_DEADLOCK FALSE
INVARIANTS HitsAreAccountedFor FoundFilesFillTheBudget BelowBudgetIsComplete OversizedFailsTheWalk SectionsShowTheWindows
PROPERTIES RequestReturns
