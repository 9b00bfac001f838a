CONSTANTS
  p1 = p1
  p2 = p2
  t1 = t1
  t2 = t2
  n1 = n1
  k1 = k1
  old = old
  oldCall = oldCall
  ToolIds = {t1}
  ToolCalls = {t1}
  Prompts = {p1}
  Notes = {}
  ReminderKeys = {}
  HasGate = TRUE
  HasBeforeStep = TRUE
  MaxSteps = 2
  MaxAttempts = 2
  MaxRecoveries = 0
  MaxMailbox = 1
  MaxResets = 1
  Reactions <- MCReactions
  RestoredHistories <- MCRestoredHistories

SPECIFICATION Spec

INVARIANTS
  StoreFollowsMachine

PROPERTIES
  ClosingIsFinal
  AbortEndsTheTurn

CHECK_DEADLOCK FALSE
