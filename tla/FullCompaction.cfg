SPECIFICATION Spec
CONSTANTS
    KeepBudget = 1
    HeadBudget = 0
    MaxWorkers = 2
    MaxPrompts = 2
    MaxSteps = 2
    MaxOps = 2
    MaxWindow = 4
    TriggerRatio = 50
    Reserved = 1
    MaxOverflow = 1
    MaxAttempts = 2
    MaxShrinks = 1
INVARIANTS
    ContextIsKept
    CompactionIsAlone
CHECK_DEADLOCK FALSE
