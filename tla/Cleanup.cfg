SPECIFICATION Spec
CONSTANTS
  root = root
  cache = cache
  pkg = pkg
  nested = nested
  file = file
  Root = root
  Paths <- MCPaths
  Plain = {root, pkg}
  Candidates = {cache, nested}
  Above <- MCAbove
  Position <- MCPosition
  Contents <- MCContents
  OutsideContent <- MCOutside
  Limits <- MCLimits
  DefaultLimits <- MCDefault
  Disposable = TRUE
  MaxEvents = 2
  NoPath = NoPath
  NoIdentity = NoIdentity
INVARIANTS CompleteMeansSeen
PROPERTIES OnlyReviewedMoved ReportMatchesMoves
CHECK_DEADLOCK FALSE
