CONSTANTS
  p1 = p1
  p2 = p2
  t1 = t1
  t2 = t2
  n1 = n1
  k1 = k1
  old = old
  oldCall = oldCall
  ToolIds = {t1}
  ToolCalls = {t1}
  Prompts = {p1, p2}
  Notes = {n1}
  ReminderKeys = {k1}
  HasGate = TRUE
  HasBeforeStep = FALSE
  MaxSteps = 2
  MaxAttempts = 1
  MaxRecoveries = 1
  MaxMailbox = 1
  MaxResets = 0
  Reactions <- MCReactions
  RestoredHistories <- EmptyHistory
SPECIFICATION Spec
INVARIANTS NothingLostOrRepeated
PROPERTIES PromptsPassTheGate
CHECK_DEADLOCK FALSE
