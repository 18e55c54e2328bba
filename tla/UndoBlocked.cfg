CONSTANTS
  p1 = p1
  p2 = p2
  r1 = r1
  r2 = r2
  path1 = path1
  path2 = path2
  dir1 = dir1
  dir2 = dir2
  spare = spare
  Procs = {p1}
  Recoveries = {r1, r2}
  Plans <- OnePlan
  Paths = {path1, path2}
  Objects = {dir1, dir2}
  Spares = {}
  Nowhere = Nowhere
  NoRecovery = NoRecovery
  home <- TwoHomes
  target <- TwoTargets
  ToolDeletes = FALSE
  IOFaults = FALSE
  MayTear = FALSE
  MaxCrashes = 1
SPECIFICATION Spec
INVARIANTS UndoAvailable
