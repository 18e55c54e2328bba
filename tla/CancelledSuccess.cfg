SPECIFICATION Spec
CONSTANTS
  Items = {i1}
  Kinds = {"scan", "review", "recovery", "cleanup", "undo"}
  Announced = {"cleanup"}
  Results <- AllResults
  None = None
  MaxOps = 1
CHECK_DEADLOCK FALSE
INVARIANTS AcceptedCancelNeverSucceeds
