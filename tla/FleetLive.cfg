SPECIFICATION FairFleetSpec
CONSTANTS
  p1 = p1
  p2 = p2
  Procs <- OneProc
  Starters <- OneProc
  Calls = {"w"}
  Idempotent = {}
  Allowed = {"w"}
  Turns <- OneWrite
  OnUncertainToolCall = "mark_uncertain"
  MaxSteps = 1
  MaxTokens = 0
  DurationBudget = FALSE
  HeartbeatLoss = FALSE
  MaxAttempt = 4
  MaxEvents = 40
  MaxCrashes = 2
  MaxCancels = 0
  MaxSuspends = 4
  MaxInputs = 0
  MaxEnvFailures = 0
  MaxClaims = 5
PROPERTIES
  LostJobIsFinished
CHECK_DEADLOCK FALSE
