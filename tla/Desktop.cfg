SPECIFICATION FairSpec
CONSTANTS
  Items = {i1}
  Kinds = {"scan", "review", "recovery", "cleanup", "undo"}
  Announced = {"cleanup"}
  Results <- AllResults
  None = None
  MaxOps = 5
INVARIANTS TypeOK BusyUntilAnswered CancelledMovesNothing ScreenMatchesWork NothingOutlivesWindow
PROPERTIES OperationsEnd WindowCloses
CHECK_DEADLOCK FALSE
