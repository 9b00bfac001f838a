CONSTANTS
  p1 = p1
  p2 = p2
  t1 = t1
  t2 = t2
  n1 = n1
  k1 = k1
  old = old
  oldCall = oldCall
  ToolIds = {t1, t2}
  ToolCalls = {t1, t2}
  Prompts = {p1}
  Notes = {}
  ReminderKeys = {}
  HasGate = FALSE
  HasBeforeStep = FALSE
  MaxSteps = 2
  MaxAttempts = 1
  MaxRecoveries = 0
  MaxMailbox = 2
  MaxResets = 0
  Reactions <- MCReactions
  RestoredHistories <- EmptyHistory
SPECIFICATION Spec
INVARIANTS TypeOK EveryCallAnsweredOnce LiveToolsAreOwned BackgroundEntriesSettle
CHECK_DEADLOCK FALSE
