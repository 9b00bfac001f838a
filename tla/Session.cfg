CONSTANTS
  Processes = {c1, c2, c3}
  NoFile = none
  Takeovers = TRUE
  FsErrors = TRUE
  MaxRecords = 3
  MaxRewrites = 1
  Faults = TRUE
  Sharers = {p1, p2}
  NoProcess = none
  MaxCrashes = 1
  MaxEvents = 4
  MaxResets = 2
  QueuedFires = {f1, f2}
  ConcurrentFires = {g1}
  Listeners = {l1, l2}

SPECIFICATION PartSpec

INVARIANTS
  OwnedByItsHolder
  LogIntact
  TurnOwnsTheJournal
  StoreComplete
  EventsReachListeners

PROPERTIES
  RecordsKept

CHECK_DEADLOCK FALSE
