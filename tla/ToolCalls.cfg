CONSTANTS
  dir = dir
  file = file
  Declarations <- MCDeclarations
  MaxTasks = 4
  c1 = c1
  c2 = c2
  c3 = c3
  c4 = c4
  Calls <- MCCalls
  Known <- MCKnown

SPECIFICATION PartSpec

INVARIANTS
  ConflictsRunInOrder
  QueuedTasksAreBlocked
  ResponseIsOneBatch

PROPERTIES
  EveryTaskSettles
  AbortSettlesEveryCall

CHECK_DEADLOCK FALSE
