SPECIFICATION FairSpec
CONSTANTS
  None = None
  DotDot = up
  Top = top
  top = top
  a = a
  af = af
  as = as
  asg = asg
  b = b
  bf = bf
  bh = bh
  f = f
  s = s
  g = g
  h = h
  l = l
  up = up
  Places <- MCPlaces
  Names = {f, s, g, h, l, a, b}
  Link <- MCLink
  Parent <- MCParent
  Above <- MCAbove
  Below <- MCBelow
  Rank <- MCRank
  TimeLimit = 1
  Calls = {c1}
  ToolRequests <- MCRequests
  Lists <- MCLists
  Startup = a
  Initial <- MCInitial
  Undecodable = {h}
  Touchable = {asg}
  Movable = {b}
  MaxChanges = 1
  MaxTouches = 1
CHECK_DEADLOCK FALSE
INVARIANTS TypeOK QuietRootIsLatest CallsUseOneRoot ListedPathsLeadBack RestrictedCallsStayInside
PROPERTIES CallsAreAnswered
