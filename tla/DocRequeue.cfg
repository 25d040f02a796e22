SPECIFICATION FleetSpec
CONSTANTS
  p1 = p1
  p2 = p2
  Procs <- OneProc
  Starters <- OneProc
  Calls = {"w"}
  Idempotent = {}
  Allowed = {"w"}
  Turns <- JustWrite
  OnUncertainToolCall = "mark_uncertain"
  MaxSteps = 1
  MaxTokens = 0
  DurationBudget = FALSE
  HeartbeatLoss = FALSE
  MaxAttempt = 2
  MaxEvents = 40
  MaxCrashes = 1
  MaxCancels = 0
  MaxSuspends = 1
  MaxInputs = 0
  MaxEnvFailures = 0
  MaxClaims = 2
INVARIANTS
  NonIdempotentAtMostOnce
CHECK_DEADLOCK FALSE
