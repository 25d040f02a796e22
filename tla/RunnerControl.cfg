SPECIFICATION Spec
CONSTANTS
  p1 = p1
  p2 = p2
  Procs <- OneProc
  Starters <- OneProc
  Calls = {"w", "x"}
  Idempotent = {}
  Allowed = {"w"}
  Turns <- DeniedWrite
  OnUncertainToolCall = "fail_job"
  MaxSteps = 1
  MaxTokens = 0
  DurationBudget = FALSE
  HeartbeatLoss = FALSE
  MaxAttempt = 2
  MaxEvents = 20
  MaxCrashes = 1
  MaxCancels = 0
  MaxSuspends = 1
  MaxInputs = 1
  MaxEnvFailures = 1
PROPERTIES
  ControlSafe
CHECK_DEADLOCK FALSE
