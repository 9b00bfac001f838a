CONSTANTS
  file = file
  Declarations <- MCDeclarations
  MaxTasks = 3
SPECIFICATION Spec
INVARIANTS NoConflictingExecutions StoppedCallsNeverRun NoToolOutlivesTheBatch
PROPERTIES BatchSpec AbortEndsTheBatch
CHECK_DEADLOCK FALSE
