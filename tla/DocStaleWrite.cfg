SPECIFICATION Spec
CONSTANTS
  p1 = p1
  p2 = p2
  Procs <- TwoProcs
  Starters <- OneProc
  Calls = {"w"}
  Idempotent = {}
  Allowed = {"w"}
  Turns <- OneWrite
  OnUncertainToolCall = "mark_uncertain"
  MaxSteps = 1
  MaxTokens = 0
  DurationBudget = FALSE
  HeartbeatLoss = TRUE
  MaxAttempt = 2
  MaxEvents = 40
  MaxCrashes = 0
  MaxCancels = 1
  MaxSuspends = 0
  MaxInputs = 0
  MaxEnvFailures = 0
PROPERTIES
  StaleRunWritesNothing
CHECK_DEADLOCK FALSE
