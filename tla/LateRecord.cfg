CONSTANTS
  p1 = p1
  p2 = p2
  r1 = r1
  r2 = r2
  path1 = path1
  path2 = path2
  dir1 = dir1
  dir2 = dir2
  spare = spare
  Procs = {p1, p2}
  Recoveries = {r1}
  Plans <- SingleItem
  Paths = {path1}
  Objects = {dir1}
  Spares = {}
  Nowhere = Nowhere
  NoRecovery = NoRecovery
  home <- OneHome
  target <- OneTarget
  ToolDeletes = FALSE
  IOFaults = FALSE
  MayTear = FALSE
  MaxCrashes = 0
SPECIFICATION Spec
INVARIANTS RestoredIsTerminal
