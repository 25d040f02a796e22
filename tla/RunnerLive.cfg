SPECIFICATION FairSpec
CONSTANTS
  p1 = p1
  p2 = p2
  Procs <- OneProc
  Starters <- OneProc
  Calls = {"w"}
  Idempotent = {}
  Allowed = {"w"}
  Turns <- OneWrite
  OnUncertainToolCall = "mark_uncertain"
  MaxSteps = 2
  MaxTokens = 2
  DurationBudget = TRUE
  HeartbeatLoss = FALSE
  MaxAttempt = 5
  MaxEvents = 40
  MaxCrashes = 2
  MaxCancels = 1
  MaxSuspends = 0
  MaxInputs = 0
  MaxEnvFailures = 1
PROPERTIES
  EveryCallReturns
  JobSettles
CHECK_DEADLOCK FALSE
