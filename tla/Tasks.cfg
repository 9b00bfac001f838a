CONSTANTS
  Stops = {"stop"}
  MaxChunks = 3
  PendingChunks = 1
  LimitChunks = 2
  Tasks = {t1}
  None = None
  MaxPrompts = 2
  MaxWaits = 2
  MaxUndos = 1
  MaxResumes = 2

SPECIFICATION PartSpec

INVARIANTS
  EndIsTrue
  ReportedOnce
  NoneForgotten
