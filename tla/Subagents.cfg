CONSTANTS
  NumTasks = 3
  InitialLaunchLimit = 2
  LaunchInterval = 1
  RetryBase = 2
  ShrinkInterval = 1
  RecoveryInterval = 3
  MaxConcurrency = 2
  MaxRateLimits = 2
  Ids = {a, b}
  Capacity = 1
  MaxAttempts = 2
  MaxGens = 3
  MaxOps = 3
  MaxDrains = 1

SPECIFICATION Spec

INVARIANTS
  SwarmTasksKept
  EverySubagentEnds
  

PROPERTIES
  NeverCutShort

SYMMETRY Symmetry
